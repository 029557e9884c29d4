------------------------- MODULE MCScenarioExecutor --------------------------
(* An instance of ScenarioExecutor: three branches that differ in what     *)
(* they wait for and in when they arm their override.                      *)
EXTENDS ScenarioExecutor, TLC

ThreeBranches ==
  "left"  :> <<"override", "wait", "act">>
    @@ "middle" :> <<"act", "slow">>
    @@ "right"  :> <<"slow", "override", "wait">>
=============================================================================
