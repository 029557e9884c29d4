-------------------------- MODULE MCScenarioService --------------------------
(* An instance of ScenarioService: one scenario that a connection starts   *)
(* and that waits, one that a status starts and that has a slow node.      *)
EXTENDS ScenarioService, TLC

TwoFlows ==
  "charge" :> <<"act", "wait", "act">> @@ "start" :> <<"act", "slow">>
=============================================================================
