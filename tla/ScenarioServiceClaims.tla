------------------------ MODULE ScenarioServiceClaims ------------------------
(***************************************************************************)
(* What the sources say of the daemon's runs and the code does not do.     *)
(***************************************************************************)
EXTENDS MCScenarioService

(* ConnectorRuntimeRepository.ts:52-54: the position is stored so that a   *)
(* restart resumes "at the node *after* the last completed one" of the     *)
(* scenario in flight.  The map is keyed by connector: while a stopped run *)
(* is still in a slow node, its position is taken for the position of the  *)
(* run of the same scenario begun since, which has not come that far.      *)
OneFlow == "start" :> <<"wait", "slow">>
=============================================================================
