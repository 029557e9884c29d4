---------------------------- MODULE ScenarioService --------------------------
(***************************************************************************)
(* The scenarios of one connector in the daemon (CLIChargePointService in  *)
(* service.ts): runs are started by a user, by a connection, by a status   *)
(* or by an upload, are stopped, reported, and resumed after a crash of    *)
(* the daemon from the position stored with the connector.                 *)
(*                                                                         *)
(* A run is what ScenarioExecutor.tla shows, cut down to one branch: it    *)
(* walks its nodes, is parked on an event ("wait"), or awaits a callback   *)
(* that outlives a stop ("slow").  The maps of the service are keyed by    *)
(* scenario; a run has an identity of its own here, the order it began in. *)
(***************************************************************************)
EXTENDS Naturals, Sequences

CONSTANTS
  Flow,       \* the nodes of each scenario by kind, the Start node first
  OnConnect,  \* scenarios that start when the charge point is accepted
  OnStatus,   \* scenarios triggered by the status a reset brings back
  Seeded,     \* scenarios of a template, whose id is new in every process
  MaxRuns,    \* bound: runs begun
  MaxCrashes  \* bound: crashes of the daemon

Scenarios == DOMAIN Flow
Kinds == {"act", "slow", "wait"}
Node(s) == {<<s, i>> : i \in DOMAIN Flow[s]}
Nodes == UNION {Node(s) : s \in Scenarios}

ASSUME ScenarioAssumption ==
  /\ \A s \in Scenarios : Flow[s] \in Seq(Kinds)
  /\ OnConnect \subseteq Scenarios /\ OnStatus \subseteq Scenarios
  /\ Seeded \subseteq Scenarios
  /\ MaxRuns \in Nat /\ MaxCrashes \in Nat

VARIABLES
  run,        \* every run so far: its scenario, node, place and stop flag;
              \* history: it began alone, no other run of its scenario going
  executors,  \* _executors: the run registered for each scenario, or 0
  transcript, \* _transcriptByScenario: the run it records, or 0
  report,     \* the run whose transcript each run was reported with, or 0
  position,   \* _scenarioPositionByConnector: the nodes completed, in order
  pending,    \* _pendingScenarioResumes
  row,        \* position and lastAuto in the connector_runtime table
  lastAuto,   \* lastAutoStartedScenarioKey, or "none"
  online,     \* the charge point is Available
  crashes     \* history: crashes so far

maps == <<executors, transcript, report>>
places == <<position, pending, row>>
vars == <<run, maps, places, lastAuto, online, crashes>>

Runs == DOMAIN run
Walking == {"walk", "ended", "leaving"}   \* microtasks
Quiet == \A r \in Runs : run[r].pc \notin Walking

Init ==
  /\ run = <<>>
  /\ executors = [s \in Scenarios |-> 0]
  /\ transcript = [s \in Scenarios |-> 0]
  /\ report = <<>>
  /\ position = <<>> /\ pending = <<>>
  /\ row = [position |-> <<>>, auto |-> "none"]
  /\ lastAuto = "none"
  /\ online = FALSE
  /\ crashes = 0

-----------------------------------------------------------------------------
(* finalizeScenarioRun: the report of r is made of the transcript that is  *)
(* registered for its scenario, whichever run that records.                *)
Finalized(r, s) ==
  IF transcript[s] = 0 THEN report ELSE [report EXCEPT ![r] = transcript[s]]

(* A position fits s: its last node and all others are in s.  A run that   *)
(* resumes from it begins after the last.                                  *)
Fits(s, p) == p # <<>> /\ \A i \in DOMAIN p : p[i] \in Node(s)
After(p) == p[Len(p)][2] + 1

(* runScenario, after runs "rs" were stopped, reported as "rep" and left   *)
(* the maps ex and tr; a position that fits is rebased to the new run.     *)
AllOver(s, rs) == \A r \in DOMAIN rs : rs[r].scenario = s => rs[r].pc = "over"
Begin(s, rs, ex, tr, rep) ==
  /\ run' = Append(rs, [scenario |-> s, pc |-> "walk", stopped |-> FALSE,
                        at |-> IF Fits(s, pending) THEN After(pending) ELSE 1,
                        alone |-> AllOver(s, rs)])
  /\ executors' = [ex EXCEPT ![s] = Len(rs) + 1]
  /\ transcript' = [tr EXCEPT ![s] = Len(rs) + 1]
  /\ report' = Append(rep, 0)
  /\ pending' = IF Fits(s, pending) THEN <<>> ELSE pending

Rebased(s) == IF Fits(s, pending) THEN pending ELSE position

(* tryAutoStartForConnector: the first scenario that asks for this trigger,*)
(* unless one runs or it was the last to be started this way.              *)
AutoStarts(S, rs, ex, tr, last) ==
  \/ \E s \in S :
       /\ Len(rs) < MaxRuns
       /\ \A t \in Scenarios : ex[t] = 0
       /\ last # s
       /\ Begin(s, rs, ex, tr, report)
       /\ position' = Rebased(s)
       /\ lastAuto' = s
  \/ /\ \/ S \subseteq {last} \/ Len(rs) >= MaxRuns
        \/ \E t \in Scenarios : ex[t] # 0
     /\ run' = rs /\ executors' = ex /\ transcript' = tr
     /\ lastAuto' = last
     /\ UNCHANGED <<report, position, pending>>

(* executor.stop(): a parked node is released, a slow one is not.          *)
Halted_KeepsWait(r) == [run EXCEPT ![r].stopped = TRUE]
Halted(r) ==
  [run EXCEPT ![r] =
     [run[r] EXCEPT !.stopped = TRUE,
                    !.pc = IF run[r].pc = "wait" THEN "ended" ELSE run[r].pc]]

-----------------------------------------------------------------------------
(* Commands and events of the charge point.                                *)
RunScenario(s) ==
  /\ Quiet /\ Len(run) < MaxRuns
  /\ executors[s] = 0
  /\ Begin(s, run, executors, transcript, report)
  /\ position' = Rebased(s)
  /\ UNCHANGED <<row, lastAuto, online, crashes>>

StopScenario(s) ==
  /\ Quiet
  /\ executors[s] # 0
  /\ run' = Halted(executors[s])
  /\ executors' = [executors EXCEPT ![s] = 0]
  /\ report' = Finalized(executors[s], s)
  /\ transcript' = [transcript EXCEPT ![s] = 0]
  /\ UNCHANGED <<places, lastAuto, online, crashes>>

(* persistConnectorRuntime.                                                *)
Row(p, auto) == [position |-> p, auto |-> auto]

(* resetScenario, of a scenario that runs or not: the connector becomes    *)
(* Available again, which is a trigger of its own and stores the position; *)
(* then the position is dropped.                                           *)
ResetScenario(s) ==
  /\ Quiet
  /\ LET r  == executors[s]
         rs == IF r = 0 THEN run ELSE Halted(r)
         ex == [executors EXCEPT ![s] = 0]
         tr == IF r = 0 THEN transcript ELSE [transcript EXCEPT ![s] = 0]
         rep == IF r = 0 THEN report ELSE Finalized(r, s)
         restarted == {t \in OnStatus : online /\ ex[t] = 0 /\ Len(run) < MaxRuns}
     IN
       \/ \E t \in restarted : Begin(t, rs, ex, tr, rep)
       \/ /\ restarted = {}
          /\ run' = rs /\ executors' = ex /\ transcript' = tr /\ report' = rep
          /\ UNCHANGED pending
  /\ row' = Row(position, lastAuto)
  /\ position' = <<>>
  /\ UNCHANGED <<lastAuto, online, crashes>>

(* syncConnectorRuntimeScenarios: an upload replaces the definitions; runs *)
(* are discarded without a report and a connect trigger may start one anew.*)
Upload ==
  /\ Quiet
  /\ LET live == {executors[s] : s \in Scenarios}
         rs == [r \in Runs |-> IF r \in live THEN Halted(r)[r] ELSE run[r]]
         ex == [s \in Scenarios |-> 0]
         tr == [s \in Scenarios |->
                  IF executors[s] = 0 THEN transcript[s] ELSE 0]
     IN AutoStarts(IF online THEN OnConnect ELSE {}, rs, ex, tr, "none")
  /\ UNCHANGED <<row, online, crashes>>

GoOnline ==
  /\ Quiet /\ ~online
  /\ online' = TRUE
  /\ AutoStarts(OnConnect, run, executors, transcript, lastAuto)
  /\ UNCHANGED <<row, crashes>>

GoOffline ==
  /\ Quiet /\ online
  /\ online' = FALSE
  /\ UNCHANGED <<run, maps, places, lastAuto, crashes>>

(* A status, meter or transaction of the connector changes: the row is     *)
(* written with the position of the moment.                                *)
PersistConnectorRuntime ==
  /\ Quiet
  /\ row' = Row(position, lastAuto)
  /\ UNCHANGED <<run, maps, position, pending, lastAuto, online, crashes>>

-----------------------------------------------------------------------------
(* The steps of a run.                                                     *)
Goes(r, place) == run' = [run EXCEPT ![r].pc = place]

(* The next node, or the end: a stop is looked at before every node.       *)
Walk_Records(r) ==
  /\ run[r].pc = "walk"
  /\ LET s == run[r].scenario
         kind == IF run[r].at \in DOMAIN Flow[s] THEN Flow[s][run[r].at]
                 ELSE "end"
         leaves == run[r].stopped \/ kind = "end"
     IN /\ Goes(r, IF leaves THEN "leaving"
                   ELSE IF kind = "act" THEN "ended" ELSE kind)
        /\ position' = IF leaves THEN position
                       ELSE Append(position, <<s, run[r].at>>)
  /\ UNCHANGED <<maps, pending, row, lastAuto, online, crashes>>

Walk(r) ==
  /\ run[r].pc = "walk"
  /\ LET s == run[r].scenario
         kind == IF run[r].at \in DOMAIN Flow[s] THEN Flow[s][run[r].at]
                 ELSE "end"
     IN Goes(r, IF run[r].stopped \/ kind = "end" THEN "leaving"
                ELSE IF kind = "act" THEN "ended" ELSE kind)
  /\ UNCHANGED <<maps, places, lastAuto, online, crashes>>

(* The listener of node.complete: the position grows and is stored.        *)
NodeComplete(r) ==
  /\ run[r].pc = "ended"
  /\ position' = Append(position, <<run[r].scenario, run[r].at>>)
  /\ row' = Row(position', lastAuto)
  /\ run' = [run EXCEPT ![r] =
               [run[r] EXCEPT !.at = run[r].at + 1, !.pc = "walk"]]
  /\ UNCHANGED <<maps, pending, lastAuto, online, crashes>>

(* The finally of start(): everything kept under the scenario is dropped,  *)
(* and the run is reported unless it was.                                  *)
Unregistered_Kept(s) == executors
Unregistered(s) == [executors EXCEPT ![s] = 0]

Leave(r) ==
  /\ run[r].pc = "leaving"
  /\ Goes(r, "over")
  /\ LET s == run[r].scenario IN
       /\ executors' = Unregistered(s)
       /\ report' = Finalized(r, s)
       /\ transcript' = [transcript EXCEPT ![s] = 0]
  /\ position' = <<>> /\ row' = Row(<<>>, lastAuto)
  /\ UNCHANGED <<pending, lastAuto, online, crashes>>

(* What a node waits for comes, or it throws: macrotasks.                  *)
Returns(r) ==
  /\ Quiet
  /\ run[r].pc = "slow"
  /\ Goes(r, "ended")
  /\ UNCHANGED <<maps, places, lastAuto, online, crashes>>

EventComes(r) ==
  /\ Quiet
  /\ run[r].pc = "wait"
  /\ \E outcome \in {"ended", "leaving"} : Goes(r, outcome)
  /\ UNCHANGED <<maps, places, lastAuto, online, crashes>>

Progress(r) == Walk(r) \/ NodeComplete(r) \/ Leave(r)

(* The daemon dies at any moment and is started again: everything but the  *)
(* row is lost, and the row is put where it came from.  The key of a       *)
(* seeded scenario fits none that the new process has.                     *)
Crash ==
  /\ crashes < MaxCrashes
  /\ crashes' = crashes + 1
  /\ run' = [r \in Runs |-> [run[r] EXCEPT !.pc = "over"]]
  /\ executors' = [s \in Scenarios |-> 0]
  /\ transcript' = [s \in Scenarios |-> 0]
  /\ position' = row.position /\ pending' = row.position
  /\ lastAuto' = IF row.auto \in Seeded THEN "none" ELSE row.auto
  /\ online' = FALSE
  /\ UNCHANGED <<report, row>>

Next ==
  \/ \E s \in Scenarios : RunScenario(s) \/ StopScenario(s) \/ ResetScenario(s)
  \/ Upload \/ GoOnline \/ GoOffline \/ PersistConnectorRuntime
  \/ \E r \in Runs : Progress(r) \/ Returns(r) \/ EventComes(r)
  \/ Crash

Spec == Init /\ [][Next]_vars

(* The event loop runs its microtasks, and an awaited callback ends by     *)
(* itself; see ScenarioExecutor.                                           *)
Fairness ==
  \A r \in 1..MaxRuns :
    WF_vars(r \in Runs /\ Progress(r)) /\ WF_vars(r \in Runs /\ Returns(r))

FairSpec == Spec /\ Fairness

-----------------------------------------------------------------------------
(* The state of every variable.                                            *)
TypeOK ==
  /\ run \in Seq([scenario : Scenarios, at : Nat \ {0}, stopped : BOOLEAN,
                 alone : BOOLEAN, pc : Walking \cup {"slow", "wait", "over"}])
  /\ \A r \in Runs : run[r].at <= Len(Flow[run[r].scenario]) + 1
  /\ executors \in [Scenarios -> Runs \cup {0}]
  /\ transcript \in [Scenarios -> Runs \cup {0}]
  /\ report \in Seq(Runs \cup {0}) /\ Len(report) = Len(run)
  /\ {position, pending, row.position} \subseteq Seq(Nodes)
  /\ {lastAuto, row.auto} \subseteq Scenarios \cup {"none"}
  /\ row = Row(row.position, row.auto)
  /\ online \in BOOLEAN

(* What the service calls running is running: a registered run is neither  *)
(* over nor stopped, so that "already running", the one-at-a-time rule of  *)
(* the triggers and a stop never speak of a run that is gone.              *)
RegisteredRuns ==
  \A s \in Scenarios :
    executors[s] # 0 =>
      LET r == run[executors[s]] IN
        r.scenario = s /\ r.pc # "over" /\ ~r.stopped

(* A resume never runs ahead: were the daemon to die now, the run that is  *)
(* resumed from the row, or from the position that the next write puts     *)
(* there, would begin at a node this run has come to, and skip none that   *)
(* neither it nor the run it resumed has completed.  Runs of the other     *)
(* scenarios share the position, append to it, clear it and reset it.  The *)
(* run must have begun alone: while a stopped run of its scenario is still *)
(* in a slow node, the position of that one stays, and gets that node      *)
(* (runScenario :1050-1068).                                               *)
Behind(p, q) == Fits(q.scenario, p) => After(p) <= q.at
NeverAhead ==
  \A s \in Scenarios :
    executors[s] # 0 =>
      LET q == run[executors[s]] IN
        q.alone => Behind(position, q) /\ Behind(row.position, q)

(* A stopped run ends and leaves nothing registered of itself.             *)
StoppedEnds ==
  \A r \in 1..MaxRuns :
    (r \in Runs /\ run[r].stopped) ~> (r \in Runs /\ run[r].pc = "over")
=============================================================================
