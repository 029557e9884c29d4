--------------------------- MODULE ScenarioExecutor --------------------------
(***************************************************************************)
(* One run of a scenario (ScenarioExecutor.ts with the state machine of    *)
(* ScenarioStateMachine.ts): a walker executes the Start node and then one *)
(* walker per outgoing edge executes a branch, node after node, while      *)
(* somebody pauses, resumes, steps, skips or stops the run.                *)
(*                                                                         *)
(* An await is a point where the walker is either "runnable" (its promise  *)
(* is settled and its continuation is a microtask) or waits for something  *)
(* from outside.  Commands and timers are macrotasks: they have the guard  *)
(* Quiet, no walker is runnable.  The order in which the microtasks of two *)
(* walkers run is left open.                                               *)
(*                                                                         *)
(* A node is one of four kinds, which is all the executor tells apart:     *)
(*   "act"      a callback that finishes at once, or throws                *)
(*   "override" the same, arming a response override of its own            *)
(*   "slow"     a callback that is awaited as it is, such as a start that  *)
(*              waits for Authorize.conf                                   *)
(*   "wait"     an external event, raced with a stop and a skip; it may    *)
(*              time out, which throws                                     *)
(* The Start node is an "act" that cannot throw, the End node needs none.  *)
(***************************************************************************)
EXTENDS Naturals, Sequences, FiniteSets

CONSTANTS
  Branches,  \* the outgoing edges of the Start node
  Flow,      \* the kinds of the nodes along each of them
  MaxPauses, \* bound: pauses of the run
  MaxSteps   \* bound: step commands

Kinds == {"act", "override", "slow", "wait"}
Origin == "start"     \* the walker that executes the Start node
Nobody == "nobody"
Walkers == Branches \cup {Origin}

ASSUME FlowAssumption ==
  /\ IsFiniteSet(Branches)
  /\ Origin \notin Branches /\ Nobody \notin Branches
  /\ Flow \in [Branches -> Seq(Kinds)]
  /\ MaxPauses \in Nat /\ MaxSteps \in Nat

VARIABLES
  machine,     \* the state of the robot3 machine
  aborted,     \* stop() was called; abortPromise is resolved with it
  at,          \* the node each walker executes or comes to next
  pc,          \* where in executeSingleNode each walker is
  stepResolve, \* the walker the next step wakes
  pendingSteps,\* steps given while nobody waited for one
  forceSkip,   \* the walker whose wait a forced step skips
  expectation, \* the walker whose wait getContext() reports
  armed,       \* response overrides left on the charge point
  tracked,     \* armedOverrideActions
  settled,     \* the promise of start() is settled
  executed,    \* history: how many nodes were shown
  steps,       \* history: step commands given
  pauses       \* history: pauses so far

control == <<machine, aborted, stepResolve, pendingSteps, forceSkip>>
history == <<executed, steps, pauses>>
vars == <<control, at, pc, expectation, armed, tracked, settled, history>>

(* The places of a walker.  The first three are runnable.                  *)
Runnable == {"boundary", "stepped", "ended"}
Parked == {"held", "stepping", "slow", "wait"}

Kind(w) == IF w = Origin THEN "act" ELSE Flow[w][at[w]]
AtEnd(w) == w \in Branches /\ at[w] > Len(Flow[w])
Quiet == \A w \in Walkers : pc[w] \notin Runnable
Stopped == aborted \/ machine = "idle"

(* start(): START took the machine to the mode of the run.                 *)
Init ==
  /\ machine \in {"running", "stepping"}
  /\ aborted = FALSE
  /\ at = [w \in Walkers |-> 1]
  /\ pc = [w \in Walkers |-> IF w = Origin THEN "boundary" ELSE "unborn"]
  /\ stepResolve = Nobody
  /\ pendingSteps = 0
  /\ forceSkip = Nobody
  /\ expectation = Nobody
  /\ armed = {} /\ tracked = {}
  /\ settled = FALSE
  /\ executed = 0 /\ steps = 0 /\ pauses = 0

-----------------------------------------------------------------------------
(* The states in which the machine takes FLOW_COMPLETE and ERROR.          *)
Ending(outcome) ==
  {"running", "stepping"} \cup {m \in {"paused"} : outcome = "error"}

(* The end of start(): what its finally clears, and how the machine ends.  *)
Settle_KeepsOverrides(outcome) ==
  /\ settled' = TRUE
  /\ UNCHANGED armed
  /\ tracked' = {}
  /\ machine' = IF machine \in Ending(outcome) THEN outcome ELSE machine

Settle(outcome) ==
  /\ settled' = TRUE
  /\ armed' = armed \ tracked
  /\ tracked' = {}
  /\ machine' = IF machine \in Ending(outcome) THEN outcome ELSE machine

(* Promise.all is fulfilled when the last branch is.                       *)
AllDone(w) == \A v \in Branches \ {w} : pc[v] = "done"

FlowEnds(w) ==
  /\ pc' = [pc EXCEPT ![w] = "done"]
  /\ \/ /\ AllDone(w) /\ ~settled
        /\ Settle("completed")
        /\ expectation' = Nobody
     \/ /\ ~AllDone(w) \/ settled
        /\ UNCHANGED <<machine, armed, tracked, settled, expectation>>

(* The Start node is done: the branches begin, each before its first node. *)
Spawn ==
  /\ pc' = [w \in Walkers |-> IF w = Origin THEN "done" ELSE "boundary"]
  /\ UNCHANGED <<machine, armed, tracked, settled, expectation>>

Leaves(w) == IF w = Origin THEN Spawn ELSE FlowEnds(w)

(* A node throws: Promise.all rejects, and start() with it, at once.       *)
Throws(w) ==
  /\ pc' = [pc EXCEPT ![w] = "done"]
  /\ expectation' = Nobody
  /\ \/ ~settled /\ Settle("error")
     \/ settled /\ UNCHANGED <<machine, armed, tracked, settled>>

(* The body of executeSingleNode, from where the node becomes visible.     *)
Enter(w) ==
  /\ executed' = executed + 1
  /\ expectation' = IF Kind(w) = "wait" THEN w ELSE Nobody
  /\ pc' = [pc EXCEPT ![w] = IF Kind(w) \in {"slow", "wait"} THEN Kind(w)
                             ELSE "ended"]
  /\ armed' = IF Kind(w) = "override" THEN armed \cup {w} ELSE armed
  /\ tracked' = IF Kind(w) = "override" THEN tracked \cup {w} ELSE tracked
  /\ forceSkip' = IF Kind(w) = "wait" /\ machine = "stepping" THEN w
                  ELSE forceSkip
  /\ UNCHANGED <<settled, machine>>

-----------------------------------------------------------------------------
(* Microtasks: what a runnable walker does.                                *)

(* The checks before a node, in executeSequentialFlow and                  *)
(* executeSingleNode: stopped, at its end, paused, or due for a step.      *)
BailsOut(w) ==
  /\ pc[w] = "boundary"
  /\ machine # "paused"
  /\ Stopped \/ AtEnd(w)
  /\ Leaves(w)
  /\ UNCHANGED <<at, aborted, stepResolve, pendingSteps, forceSkip, history>>

HoldsForPause_OnceOnly(w) ==
  /\ pc[w] = "boundary" /\ machine = "paused"
  /\ ~Stopped /\ ~AtEnd(w)
  /\ Enter(w)
  /\ UNCHANGED <<at, aborted, stepResolve, pendingSteps, steps, pauses>>

HoldsForPause(w) ==
  /\ pc[w] = "boundary"
  /\ machine = "paused"
  /\ pc' = [pc EXCEPT ![w] = "held"]
  /\ UNCHANGED <<control, at, expectation, armed, tracked, settled, history>>

Boundary(w) ==
  /\ pc[w] = "boundary" /\ ~Stopped /\ ~AtEnd(w)
  /\ machine \notin {"paused", "stepping"}
  /\ Enter(w)
  /\ UNCHANGED <<at, aborted, stepResolve, pendingSteps, steps, pauses>>

WaitsForStep(w) ==
  /\ pc[w] = "boundary" /\ ~Stopped /\ ~AtEnd(w)
  /\ machine = "stepping"
  /\ \/ /\ pendingSteps > 0
        /\ pendingSteps' = pendingSteps - 1
        /\ Enter(w)
        /\ UNCHANGED <<at, aborted, stepResolve, steps, pauses>>
     \/ /\ pendingSteps = 0
        /\ stepResolve' = w
        /\ pc' = [pc EXCEPT ![w] = "stepping"]
        /\ UNCHANGED <<machine, aborted, pendingSteps, forceSkip, at,
                       expectation, armed, tracked, settled, history>>

(* waitForStep returns, and the stop is looked at again.                   *)
Stepped_IgnoresStop(w) ==
  /\ pc[w] = "stepped"
  /\ stepResolve' = IF stepResolve = w THEN Nobody ELSE stepResolve
  /\ Enter(w)
  /\ UNCHANGED <<at, aborted, pendingSteps, steps, pauses>>

Stepped(w) ==
  /\ pc[w] = "stepped"
  /\ stepResolve' = IF stepResolve = w THEN Nobody ELSE stepResolve
  /\ \/ Stopped /\ Leaves(w) /\ UNCHANGED <<forceSkip, executed>>
     \/ ~Stopped /\ Enter(w)
  /\ UNCHANGED <<at, aborted, pendingSteps, steps, pauses>>

(* The node is done: its wait is over, and the walker comes to the next.   *)
NodeEnds(w) ==
  /\ pc[w] = "ended"
  /\ forceSkip' = IF forceSkip = w THEN Nobody ELSE forceSkip
  /\ \/ /\ w \in Branches
        /\ expectation' = Nobody
        /\ at' = [at EXCEPT ![w] = @ + 1]
        /\ pc' = [pc EXCEPT ![w] = "boundary"]
        /\ UNCHANGED <<machine, armed, tracked, settled>>
     \/ w = Origin /\ Spawn /\ UNCHANGED at
  /\ UNCHANGED <<aborted, stepResolve, pendingSteps, history>>

(* ... or it throws, as the callback of an "act" or an "override" may.     *)
NodeThrows(w) ==
  /\ pc[w] = "ended" /\ w \in Branches
  /\ Kind(w) \in {"act", "override"}
  /\ Throws(w)
  /\ UNCHANGED <<at, aborted, stepResolve, pendingSteps, forceSkip, history>>

Walk(w) ==
  \/ BailsOut(w) \/ HoldsForPause(w) \/ Boundary(w) \/ WaitsForStep(w)
  \/ Stepped(w) \/ NodeEnds(w) \/ NodeThrows(w)

-----------------------------------------------------------------------------
(* Macrotasks: timers and what a node waits for.                           *)

(* The 100 ms poll of a pause, which a stop cuts short.                    *)
Poll(w) ==
  /\ Quiet
  /\ pc[w] = "held" /\ machine # "paused"
  /\ pc' = [pc EXCEPT ![w] = "boundary"]
  /\ UNCHANGED <<control, at, expectation, armed, tracked, settled, history>>

(* An event arrives, or an awaited callback returns.                       *)
Arrives(w, place) ==
  /\ Quiet
  /\ pc[w] = place
  /\ pc' = [pc EXCEPT ![w] = "ended"]
  /\ UNCHANGED <<control, at, expectation, armed, tracked, settled, history>>

Returns(w) == Arrives(w, "slow")
EventComes(w) == Arrives(w, "wait")

(* A wait times out, or a disconnection rejects it; a callback rejects.    *)
Rejects(w) ==
  /\ Quiet
  /\ pc[w] \in {"wait", "slow"}
  /\ Throws(w)
  /\ forceSkip' = IF forceSkip = w THEN Nobody ELSE forceSkip
  /\ UNCHANGED <<at, aborted, stepResolve, pendingSteps, history>>

-----------------------------------------------------------------------------
(* Commands.  Whoever runs the scenario forgets the executor as start()    *)
(* settles, so that no command reaches it afterwards.                      *)
Commanded == Quiet /\ ~settled

Pause ==
  /\ Commanded /\ pauses < MaxPauses
  /\ machine = "running"
  /\ machine' = "paused"
  /\ pauses' = pauses + 1
  /\ UNCHANGED <<aborted, stepResolve, pendingSteps, forceSkip, at, pc,
                 expectation, armed, tracked, settled, executed, steps>>

Resume ==
  /\ Commanded
  /\ machine = "paused"
  /\ machine' = "running"
  /\ UNCHANGED <<aborted, stepResolve, pendingSteps, forceSkip, at, pc,
                 expectation, armed, tracked, settled, history>>

Banked_Lost == pendingSteps
Banked == pendingSteps + 1

Step ==
  /\ Commanded /\ steps < MaxSteps
  /\ machine = "stepping"
  /\ steps' = steps + 1
  /\ \/ /\ stepResolve # Nobody
        /\ stepResolve' = Nobody
        /\ pc' = [pc EXCEPT ![stepResolve] = "stepped"]
        /\ UNCHANGED pendingSteps
     \/ /\ stepResolve = Nobody
        /\ pendingSteps' = Banked
        /\ UNCHANGED <<stepResolve, pc>>
  /\ UNCHANGED <<machine, aborted, forceSkip, at, expectation, armed, tracked,
                 settled, executed, pauses>>

(* forceStep: skip the wait that registered last, and step if one waits.   *)
ForceStep ==
  /\ Commanded /\ steps < MaxSteps
  /\ machine = "stepping"
  /\ pc' = [w \in Walkers |->
              IF w = forceSkip /\ pc[w] = "wait" THEN "ended"
              ELSE IF w = stepResolve THEN "stepped"
              ELSE pc[w]]
  /\ steps' = steps + (IF stepResolve = Nobody THEN 0 ELSE 1)
  /\ forceSkip' = Nobody
  /\ stepResolve' = Nobody
  /\ UNCHANGED <<machine, aborted, pendingSteps, at, expectation, armed,
                 tracked, settled, executed, pauses>>

(* stop(): abortPromise releases every wait raced with it.                 *)
Released_NotSteps(w) ==
  IF pc[w] = "wait" THEN "ended" ELSE pc[w]

Released(w) ==
  CASE pc[w] = "wait"     -> "ended"
    [] pc[w] = "stepping" -> "stepped"
    [] OTHER              -> pc[w]

Stop ==
  /\ Commanded /\ ~aborted
  /\ aborted' = TRUE
  /\ machine' = "idle"
  /\ expectation' = Nobody
  /\ pc' = [w \in Walkers |-> Released(w)]
  /\ UNCHANGED <<stepResolve, pendingSteps, forceSkip, at, armed, tracked,
                 settled, history>>

Command == Pause \/ Resume \/ Step \/ ForceStep \/ Stop

Next ==
  \/ \E w \in Walkers : Walk(w) \/ Poll(w) \/ Returns(w)
  \/ \E w \in Walkers : EventComes(w) \/ Rejects(w)
  \/ Command

Spec == Init /\ [][Next]_vars

(* The event loop runs its microtasks, the poll of a pause is a timer, and *)
(* a callback that is awaited as it is ends by itself (a start gives up on *)
(* Authorize.conf after 10 s).  Nothing is assumed of the events a node    *)
(* waits for, nor of the commands.                                         *)
Fairness ==
  \A w \in Walkers : WF_vars(Walk(w)) /\ WF_vars(Poll(w)) /\ WF_vars(Returns(w))

FairSpec == Spec /\ Fairness

-----------------------------------------------------------------------------
(* The state of every variable.                                            *)
TypeOK ==
  /\ machine \in {"idle", "running", "paused", "stepping", "completed", "error"}
  /\ aborted \in BOOLEAN
  /\ at \in [Walkers -> Nat \ {0}]
  /\ pc \in [Walkers -> Runnable \cup Parked \cup {"unborn", "done"}]
  /\ {stepResolve, forceSkip, expectation} \subseteq Walkers \cup {Nobody}
  /\ pendingSteps \in Nat
  /\ tracked \subseteq armed /\ armed \subseteq Branches
  /\ settled \in BOOLEAN
  /\ executed \in Nat /\ steps \in Nat /\ pauses \in Nat

(* ScenarioExecutor.ts:87: once a run is stopped it bails out before the   *)
(* next node, wherever its walkers were waiting, so that no stale node acts*)
(* on what came after.                                                     *)
SilentAfterStop == [][aborted => executed' = executed]_vars

(* :453: a node that finishes while the run is paused does not make the    *)
(* next node visible until it is resumed, in any branch.                   *)
PausedIsStill == [][machine = "paused" => executed' = executed]_vars

(* :468: each step exposes exactly one more node: in step mode the nodes   *)
(* shown and the steps not yet used up never exceed the steps given, and   *)
(* none is lost on the way to the walker it wakes.                         *)
StepsAccounted ==
  machine = "stepping" =>
    steps = executed + pendingSteps
              + Cardinality({w \in Walkers : pc[w] = "stepped"})

(* Issue #110: a run that was completed or stopped leaves no response      *)
(* override behind, although each of its branches arms its own.            *)
OverridesCleared == settled /\ machine # "error" => armed = {}

(* A stopped run ends, whatever its walkers were waiting for.              *)
StopSettles == aborted ~> settled
=============================================================================
