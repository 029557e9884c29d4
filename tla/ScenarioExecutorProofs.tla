------------------------ MODULE ScenarioExecutorProofs ------------------------
(***************************************************************************)
(* Proofs about ScenarioExecutor, for any branches and any nodes.          *)
(*                                                                         *)
(* RunInv ties the machine to the walkers: who may wait for a step while   *)
(* the machine is in which state, what a settled run has left, and that no *)
(* branch is born before the Start node is done.                           *)
(***************************************************************************)
EXTENDS ScenarioExecutor, FiniteSetTheorems, TLAPS

Due == {w \in Walkers : pc[w] = "stepped"}

(* What is known of a settled run, and of the overrides before it.         *)
Endings ==
  /\ aborted <=> machine = "idle"
  /\ machine \in {"completed", "error"} => settled
  /\ settled => machine \in {"completed", "error", "idle"}
  /\ machine = "completed" => \A b \in Branches : pc[b] = "done"
  /\ ~settled => tracked = armed
  /\ settled /\ machine # "error" => armed = {}

(* Where the walkers may be.                                               *)
Places ==
  /\ pc[Origin] \notin {"wait", "slow", "unborn"}
  /\ pc[Origin] # "done" => ~settled /\ \A b \in Branches : pc[b] = "unborn"
  /\ pc[Origin] = "done" => \A b \in Branches : pc[b] # "unborn"
  /\ machine \in {"running", "paused"} =>
       \A w \in Walkers : pc[w] \notin {"stepping", "stepped"}
  /\ machine = "stepping" /\ stepResolve # Nobody => pc[stepResolve] = "stepping"

(* StepsAccounted, said of Due.                                            *)
Counted ==
  machine = "stepping" => steps = executed + pendingSteps + Cardinality(Due)

RunInv == TypeOK /\ Endings /\ Places /\ Counted

-----------------------------------------------------------------------------
(* Cardinality of the walkers a step has woken.                            *)

LEMMA DueFinite == IsFiniteSet(Due) /\ IsFiniteSet(Walkers)
<1>1. IsFiniteSet(Branches \cup {Origin})
  BY FlowAssumption, FS_AddElement
<1> QED
  BY <1>1, FS_Subset DEF Due, Walkers

LEMMA DueSame ==
  ASSUME \A w \in Walkers : pc'[w] = "stepped" <=> pc[w] = "stepped"
  PROVE  Due' = Due
  BY DEF Due, Walkers

LEMMA DueMore ==
  ASSUME NEW v \in Walkers, pc[v] # "stepped", pc'[v] = "stepped",
         \A w \in Walkers \ {v} : pc'[w] = "stepped" <=> pc[w] = "stepped"
  PROVE  Cardinality(Due') = Cardinality(Due) + 1 /\ Cardinality(Due) \in Nat
<1>1. Due' = Due \cup {v} /\ v \notin Due
  BY DEF Due, Walkers
<1> QED
  BY <1>1, DueFinite, FS_AddElement, FS_CardinalityType

LEMMA DueLess ==
  ASSUME NEW v \in Walkers, pc[v] = "stepped", pc'[v] # "stepped",
         \A w \in Walkers \ {v} : pc'[w] = "stepped" <=> pc[w] = "stepped"
  PROVE  Cardinality(Due') = Cardinality(Due) - 1 /\ Cardinality(Due) \in Nat
<1>1. Due' = Due \ {v} /\ v \in Due
  BY DEF Due, Walkers
<1> QED
  BY <1>1, DueFinite, FS_RemoveElement, FS_CardinalityType

-----------------------------------------------------------------------------
(* The steps of a walker.                                                  *)

LEMMA Names ==
  /\ Nobody \notin Walkers /\ Origin \in Walkers /\ Branches \subseteq Walkers
  /\ Origin \notin Branches
  /\ \A w \in Walkers : w \in Branches \/ w = Origin
  BY FlowAssumption DEF Walkers, Nobody, Origin

(* A node is shown: only a walker that is not done gets there, and never   *)
(* in a run that was stopped or is paused.                                 *)
LEMMA EnterKeeps ==
  ASSUME RunInv, NEW w \in Walkers, Enter(w), ~Stopped,
         pc[w] \in {"boundary", "stepped"}, machine # "paused",
         UNCHANGED <<at, aborted, steps, pauses>>,
         stepResolve' \in {stepResolve, Nobody}, pendingSteps' \in Nat,
         machine = "stepping" =>
           \/ pc[w] = "boundary" /\ pendingSteps' = pendingSteps - 1
           \/ pc[w] = "stepped" /\ pendingSteps' = pendingSteps
  PROVE  RunInv'
<1>0. /\ TypeOK /\ Endings /\ Places /\ Counted
  BY DEF RunInv
<1>1. PICK x \in {"slow", "wait", "ended"} : pc' = [pc EXCEPT ![w] = x]
  BY DEF Enter
<1>2. Kind(w) \in {"override", "wait", "slow"} => w \in Branches
  BY Names DEF Kind
<1>3. pc'[w] # "stepped" /\ \A v \in Walkers \ {w} : pc'[v] = pc[v]
  BY <1>0, <1>1 DEF TypeOK
<1>4. TypeOK'
  BY <1>0, <1>1, <1>2, Names DEF TypeOK, Enter, Runnable, Parked
<1>5. Endings'
  <2>1. \A b \in Branches : pc[b] = "done" => b # w
    OBVIOUS
  <2>2. machine = "completed" => w = Origin
    BY <1>0, <2>1, Names DEF Endings
  <2>3. machine # "completed"
    BY <1>0, <2>2 DEF Endings, Places
  <2>4. machine \notin {"completed", "idle"} /\ ~aborted
    BY <2>3 DEF Stopped
  <2>5. ~settled => tracked' = armed'
    BY <1>0 DEF Endings, Enter
  <2> QED
    BY <1>0, <2>4, <2>5 DEF Endings, Enter
<1>6. Places'
  <2>1. w = Origin => pc'[w] = "ended"
    BY <1>0, <1>1, <1>2, Names DEF Enter, TypeOK
  <2>2. w # Origin => pc[Origin] = "done"
    BY <1>0, Names DEF Places
  <2>3. machine = "stepping" /\ stepResolve' # Nobody =>
          stepResolve' # w /\ stepResolve' \in Walkers
    BY <1>0, Names DEF Places, TypeOK
  <2> QED
    BY <1>0, <1>1, <1>3, <2>1, <2>2, <2>3, Names DEF Places, Enter, TypeOK
<1>7. Counted'
  <2>1. machine' = machine /\ executed' = executed + 1 /\ executed \in Nat
        /\ pendingSteps \in Nat /\ steps \in Nat
    BY <1>0 DEF Enter, TypeOK
  <2>2. CASE pc[w] = "boundary"
    <3>1. Due' = Due
      BY <1>3, <2>2, DueSame
    <3> QED
      BY <1>0, <2>1, <2>2, <3>1, DueFinite, FS_CardinalityType DEF Counted
  <2>3. CASE pc[w] = "stepped"
    <3>1. Cardinality(Due') = Cardinality(Due) - 1 /\ Cardinality(Due) \in Nat
      BY <1>3, <2>3, DueLess
    <3> QED
      BY <1>0, <2>1, <2>3, <3>1 DEF Counted
  <2> QED
    BY <2>2, <2>3
<1> QED
  BY <1>4, <1>5, <1>6, <1>7 DEF RunInv
(* The branches are born: the Start node was the only walker.              *)
LEMMA SpawnKeeps ==
  ASSUME RunInv, Spawn, pc[Origin] \in {"boundary", "stepped", "ended"},
         pc[Origin] = "stepped" => aborted,
         stepResolve' \in {stepResolve, Nobody}, forceSkip' \in {forceSkip, Nobody},
         UNCHANGED <<at, aborted, pendingSteps, history>>
  PROVE  RunInv'
<1>0. /\ TypeOK /\ Endings /\ Places /\ Counted
  BY DEF RunInv
<1>1. /\ pc' = [v \in Walkers |-> IF v = Origin THEN "done" ELSE "boundary"]
      /\ UNCHANGED <<machine, armed, tracked, settled, expectation>>
  BY DEF Spawn
<1>2. /\ ~settled /\ machine \notin {"completed", "error"}
      /\ \A b \in Branches : pc[b] = "unborn"
  BY <1>0 DEF Places, Endings
<1>3. TypeOK'
  BY <1>0, <1>1 DEF TypeOK, history, Runnable
<1>4. Endings'
  BY <1>0, <1>1, <1>2 DEF Endings
<1>5. Places'
  <2>1. machine = "stepping" /\ stepResolve # Nobody => pc[stepResolve] = "stepping"
        /\ stepResolve \in Walkers
    BY <1>0 DEF Places, TypeOK
  <2>2. machine = "stepping" => stepResolve' = Nobody
    BY <1>2, <2>1, Names
  <2> QED
    BY <1>1, <2>2, Names DEF Places
<1>6. Counted'
  <2>1. CASE machine # "stepping"
    BY <1>1, <2>1 DEF Counted
  <2>2. CASE machine = "stepping"
    <3>1. pc[Origin] # "stepped"
      BY <1>0, <2>2 DEF Endings
    <3>2. Due' = Due
      BY <1>1, <1>2, <3>1, Names, DueSame
    <3> QED
      BY <1>0, <1>1, <3>2 DEF Counted, history
  <2> QED
    BY <2>1, <2>2
<1> QED
  BY <1>3, <1>4, <1>5, <1>6 DEF RunInv

(* A branch is over: the last one settles the run.                         *)
LEMMA FlowEndsKeeps ==
  ASSUME RunInv, NEW w \in Branches, FlowEnds(w),
         pc[w] \in {"boundary", "stepped"}, machine # "paused",
         pc[w] = "stepped" => aborted,
         stepResolve' \in {stepResolve, Nobody},
         UNCHANGED <<at, aborted, pendingSteps, forceSkip, history>>
  PROVE  RunInv'
<1>0. /\ TypeOK /\ Endings /\ Places /\ Counted
  BY DEF RunInv
<1>1. pc' = [pc EXCEPT ![w] = "done"]
  BY DEF FlowEnds
<1>2. pc'[w] = "done" /\ \A v \in Walkers \ {w} : pc'[v] = pc[v]
  BY <1>0, <1>1, Names DEF TypeOK
<1>3. pc[Origin] = "done" /\ w # Origin /\ w \in Walkers
  BY <1>0, Names DEF Places
<1>4. \/ /\ AllDone(w) /\ ~settled /\ settled' = TRUE
         /\ armed' = armed \ tracked /\ tracked' = {}
         /\ machine' = IF machine \in {"running", "stepping"} THEN "completed"
                       ELSE machine
         /\ expectation' = Nobody
      \/ UNCHANGED <<machine, armed, tracked, settled, expectation>>
  BY DEF FlowEnds, Settle, Ending
<1>5. TypeOK'
  BY <1>0, <1>1, <1>4 DEF TypeOK, history
<1>6. Endings'
  <2>1. CASE UNCHANGED <<machine, armed, tracked, settled, expectation>>
    BY <1>0, <1>2, <2>1, Names DEF Endings
  <2>2. CASE /\ AllDone(w) /\ ~settled /\ settled' = TRUE
             /\ armed' = armed \ tracked /\ tracked' = {}
             /\ machine' = IF machine \in {"running", "stepping"} THEN "completed"
                           ELSE machine
    <3>1. tracked = armed /\ machine \in {"idle", "running", "stepping"}
      BY <1>0, <2>2 DEF Endings, TypeOK
    <3>2. \A b \in Branches : pc'[b] = "done"
      BY <1>2, <2>2, Names DEF AllDone
    <3> QED
      BY <1>0, <2>2, <3>1, <3>2 DEF Endings
  <2> QED
    BY <1>4, <2>1, <2>2
<1>7. machine' = "stepping" => machine = "stepping"
  BY <1>4
<1>8. Places'
  <2>1. machine' \in {"running", "paused"} => machine' = machine
    BY <1>4
  <2>2. machine = "stepping" => pc[w] = "boundary"
    BY <1>0 DEF Endings
  <2> QED
    BY <1>0, <1>2, <1>3, <1>4, <1>7, <2>1, <2>2, Names DEF Places, TypeOK
<1>9. Counted'
  <2>1. CASE machine # "stepping"
    BY <1>7, <2>1 DEF Counted
  <2>2. CASE machine = "stepping"
    <3>1. pc[w] # "stepped"
      BY <1>0, <2>2 DEF Endings
    <3>2. Due' = Due
      BY <1>2, <3>1, DueSame
    <3> QED
      BY <1>0, <2>2, <3>2 DEF Counted, history
  <2> QED
    BY <2>1, <2>2
<1> QED
  BY <1>5, <1>6, <1>8, <1>9 DEF RunInv

(* A node throws, in a branch.                                             *)
LEMMA ThrowsKeeps ==
  ASSUME RunInv, NEW w \in Branches, Throws(w),
         pc[w] \in {"ended", "wait", "slow"},
         forceSkip' \in {forceSkip, Nobody},
         UNCHANGED <<at, aborted, stepResolve, pendingSteps, history>>
  PROVE  RunInv'
<1>0. /\ TypeOK /\ Endings /\ Places /\ Counted
  BY DEF RunInv
<1>1. pc' = [pc EXCEPT ![w] = "done"] /\ expectation' = Nobody
  BY DEF Throws
<1>2. pc'[w] = "done" /\ \A v \in Walkers \ {w} : pc'[v] = pc[v]
  BY <1>0, <1>1, Names DEF TypeOK
<1>3. pc[Origin] = "done" /\ w # Origin /\ w \in Walkers
  BY <1>0, Names DEF Places
<1>4. \/ /\ ~settled /\ settled' = TRUE
         /\ armed' = armed \ tracked /\ tracked' = {}
         /\ machine' = IF machine \in {"running", "stepping", "paused"}
                       THEN "error" ELSE machine
      \/ settled /\ UNCHANGED <<machine, armed, tracked, settled>>
  BY DEF Throws, Settle, Ending
<1>5. TypeOK'
  BY <1>0, <1>1, <1>4 DEF TypeOK, history
<1>6. Endings'
  BY <1>0, <1>2, <1>4, Names DEF Endings, TypeOK
<1>7. machine' \notin {"running", "paused", "stepping"}
  BY <1>0, <1>4 DEF Endings
<1> QED
  BY <1>0, <1>2, <1>3, <1>5, <1>6, <1>7, Names DEF RunInv, Places, Counted
(* Leaving, from the checks before a node.                                 *)
LEMMA LeavesKeeps ==
  ASSUME RunInv, NEW w \in Walkers, Leaves(w),
         pc[w] \in {"boundary", "stepped"}, machine # "paused",
         pc[w] = "stepped" => aborted,
         stepResolve' \in {stepResolve, Nobody},
         UNCHANGED <<at, aborted, pendingSteps, forceSkip, history>>
  PROVE  RunInv'
<1>1. CASE w = Origin
  BY <1>1, SpawnKeeps DEF Leaves
<1>2. CASE w # Origin
  BY <1>2, Names, FlowEndsKeeps DEF Leaves
<1> QED
  BY <1>1, <1>2

(* A walker moves between places where nothing else changes.               *)
LEMMA MoveKeeps ==
  ASSUME RunInv, NEW w \in Walkers,
         NEW x \in {"held", "stepping", "boundary", "ended"},
         pc' = [pc EXCEPT ![w] = x],
         pc[w] \in {"boundary", "held", "wait", "slow", "ended"},
         w = Origin => x # "ended",
         x = "stepping" => machine = "stepping" /\ stepResolve' = w,
         x # "stepping" => stepResolve' = stepResolve,
         at' \in [Walkers -> Nat \ {0}], forceSkip' \in {forceSkip, Nobody},
         expectation' \in {expectation, Nobody},
         UNCHANGED <<machine, aborted, pendingSteps, armed, tracked, settled,
                     history>>
  PROVE  RunInv'
<1>0. /\ TypeOK /\ Endings /\ Places /\ Counted
  BY DEF RunInv
<1>1. pc'[w] = x /\ \A v \in Walkers \ {w} : pc'[v] = pc[v]
  BY <1>0 DEF TypeOK
<1>2. TypeOK'
  BY <1>0, <1>1 DEF TypeOK, history, Runnable, Parked
<1>3. Endings'
  <2>1. machine = "completed" => w = Origin
    BY <1>0, Names DEF Endings
  <2>2. machine # "completed"
    BY <1>0, <2>1 DEF Endings, Places
  <2> QED
    BY <1>0, <2>2 DEF Endings
<1>4. Places'
  BY <1>0, <1>1, Names DEF Places, TypeOK
<1>5. Due' = Due
  BY <1>1, DueSame
<1>6. Counted'
  BY <1>0, <1>5 DEF Counted, history
<1> QED
  BY <1>2, <1>3, <1>4, <1>6 DEF RunInv

LEMMA WalkStep ==
  ASSUME RunInv, NEW w \in Walkers, Walk(w)
  PROVE  RunInv'
<1>0. /\ TypeOK /\ Endings /\ Places /\ Counted
  BY DEF RunInv
<1>a. w \in Branches \/ w = Origin
  BY Names
<1>1. CASE BailsOut(w)
  BY <1>1, LeavesKeeps DEF BailsOut
<1>2. CASE HoldsForPause(w)
  <2>1. /\ pc' = [pc EXCEPT ![w] = "held"] /\ pc[w] = "boundary"
        /\ UNCHANGED <<machine, aborted, stepResolve, pendingSteps, forceSkip>>
        /\ UNCHANGED <<at, expectation, armed, tracked, settled, history>>
    BY <1>2 DEF HoldsForPause, control
  <2> QED
    BY <1>0, <2>1, MoveKeeps DEF TypeOK
<1>3. CASE Boundary(w)
  BY <1>0, <1>3, EnterKeeps DEF Boundary, TypeOK
<1>4. CASE WaitsForStep(w)
  <2>1. CASE /\ pendingSteps > 0 /\ pendingSteps' = pendingSteps - 1 /\ Enter(w)
             /\ UNCHANGED <<at, aborted, stepResolve, steps, pauses>>
    <3>1. pendingSteps' \in Nat
      BY <1>0, <2>1 DEF TypeOK
    <3> QED
      BY <1>4, <2>1, <3>1, EnterKeeps DEF WaitsForStep
  <2>2. CASE /\ stepResolve' = w /\ pc' = [pc EXCEPT ![w] = "stepping"]
             /\ UNCHANGED <<machine, aborted, pendingSteps, forceSkip, at,
                            expectation, armed, tracked, settled, history>>
    BY <1>0, <1>4, <2>2, MoveKeeps DEF WaitsForStep, TypeOK
  <2> QED
    BY <1>4, <2>1, <2>2 DEF WaitsForStep
<1>5. CASE Stepped(w)
  <2>1. /\ pc[w] = "stepped" /\ machine # "paused"
        /\ stepResolve' \in {stepResolve, Nobody}
        /\ UNCHANGED <<at, aborted, pendingSteps, steps, pauses>>
    BY <1>0, <1>5 DEF Stepped, Places
  <2>2. CASE Stopped /\ Leaves(w) /\ UNCHANGED <<forceSkip, executed>>
    <3>1. aborted
      BY <1>0, <2>2 DEF Stopped, Endings
    <3> QED
      BY <2>1, <2>2, <3>1, LeavesKeeps DEF history
  <2>3. CASE ~Stopped /\ Enter(w)
    BY <1>0, <2>1, <2>3, EnterKeeps DEF TypeOK
  <2> QED
    BY <1>5, <2>2, <2>3 DEF Stepped
<1>6. CASE NodeEnds(w)
  <2>1. /\ pc[w] = "ended" /\ forceSkip' \in {forceSkip, Nobody}
        /\ UNCHANGED <<aborted, stepResolve, pendingSteps, history>>
    BY <1>6 DEF NodeEnds
  <2>2. CASE w \in Branches
    <3>1. /\ at' = [at EXCEPT ![w] = @ + 1] /\ pc' = [pc EXCEPT ![w] = "boundary"]
          /\ expectation' = Nobody /\ UNCHANGED <<machine, armed, tracked, settled>>
      BY <1>6, <2>2, Names DEF NodeEnds
    <3>2. at' \in [Walkers -> Nat \ {0}]
      BY <1>0, <3>1 DEF TypeOK
    <3> QED
      BY <2>1, <3>1, <3>2, MoveKeeps
  <2>3. CASE w = Origin
    <3>1. Spawn /\ UNCHANGED at
      BY <1>6, <2>3, Names DEF NodeEnds
    <3> QED
      BY <2>1, <2>3, <3>1, SpawnKeeps
  <2> QED
    BY <1>a, <2>2, <2>3
<1>7. CASE NodeThrows(w)
  BY <1>7, ThrowsKeeps DEF NodeThrows
<1> QED
  BY <1>1, <1>2, <1>3, <1>4, <1>5, <1>6, <1>7 DEF Walk

LEMMA OutsideStep ==
  ASSUME RunInv, NEW w \in Walkers,
         Poll(w) \/ Returns(w) \/ EventComes(w) \/ Rejects(w)
  PROVE  RunInv'
<1>0. /\ TypeOK /\ Places /\ pc[Origin] \notin {"wait", "slow"}
  BY DEF RunInv, Places
<1>1. CASE Poll(w)
  <2>1. /\ pc' = [pc EXCEPT ![w] = "boundary"] /\ pc[w] = "held"
        /\ UNCHANGED <<machine, aborted, stepResolve, pendingSteps, forceSkip>>
        /\ UNCHANGED <<at, expectation, armed, tracked, settled, history>>
    BY <1>1 DEF Poll, control
  <2> QED
    BY <1>0, <2>1, MoveKeeps DEF TypeOK
<1>2. CASE Returns(w) \/ EventComes(w)
  <2>1. /\ pc' = [pc EXCEPT ![w] = "ended"] /\ pc[w] \in {"slow", "wait"}
        /\ UNCHANGED <<machine, aborted, stepResolve, pendingSteps, forceSkip>>
        /\ UNCHANGED <<at, expectation, armed, tracked, settled, history>>
    BY <1>2 DEF Returns, EventComes, Arrives, control
  <2> QED
    BY <1>0, <2>1, MoveKeeps DEF TypeOK
<1>3. CASE Rejects(w)
  <2>1. w \in Branches
    BY <1>0, <1>3, Names DEF Rejects
  <2> QED
    BY <1>3, <2>1, ThrowsKeeps DEF Rejects
<1> QED
  BY <1>1, <1>2, <1>3

-----------------------------------------------------------------------------
(* The commands.                                                           *)

LEMMA CommandStep == ASSUME RunInv, Command PROVE RunInv'
<1>0. /\ TypeOK /\ Endings /\ Places /\ Counted
  BY DEF RunInv
<1>1. CASE Pause \/ Resume
  <2>1. /\ machine' \in {"paused", "running"} /\ machine \in {"paused", "running"}
        /\ pauses' \in Nat
        /\ UNCHANGED <<aborted, stepResolve, pendingSteps, forceSkip, at, pc,
                       expectation, armed, tracked, settled, executed, steps>>
    BY <1>0, <1>1 DEF Pause, Resume, TypeOK, history
  <2> QED
    BY <1>0, <2>1 DEF RunInv, TypeOK, Endings, Places, Counted
<1>2. CASE Step
  <2>1. /\ machine = "stepping" /\ ~settled /\ steps' = steps + 1
        /\ UNCHANGED <<machine, aborted, forceSkip, at, expectation, armed,
                       tracked, settled, executed, pauses>>
    BY <1>2 DEF Step, Commanded
  <2>2. CASE /\ stepResolve # Nobody /\ stepResolve' = Nobody
             /\ pc' = [pc EXCEPT ![stepResolve] = "stepped"]
             /\ UNCHANGED pendingSteps
    <3>1. stepResolve \in Walkers /\ pc[stepResolve] = "stepping"
      BY <1>0, <2>1, <2>2 DEF Places, TypeOK
    <3>2. /\ pc'[stepResolve] = "stepped"
          /\ \A v \in Walkers \ {stepResolve} : pc'[v] = pc[v]
      BY <1>0, <2>2, <3>1 DEF TypeOK
    <3>3. TypeOK'
      BY <1>0, <2>1, <2>2, <3>1 DEF TypeOK, Runnable, Parked
    <3>4. Cardinality(Due') = Cardinality(Due) + 1 /\ Cardinality(Due) \in Nat
      BY <3>1, <3>2, DueMore
    <3>5. Counted'
      BY <1>0, <2>1, <2>2, <3>4 DEF Counted, TypeOK
    <3>6. Endings' /\ Places'
      BY <1>0, <2>1, <2>2, <3>1, <3>2, Names DEF Endings, Places
    <3> QED
      BY <3>3, <3>5, <3>6 DEF RunInv
  <2>3. CASE pendingSteps' = Banked /\ UNCHANGED <<stepResolve, pc>>
    <3>1. Due' = Due
      BY <2>3 DEF Due
    <3>2. Cardinality(Due) \in Nat
      BY DueFinite, FS_CardinalityType
    <3> QED
      BY <1>0, <2>1, <2>3, <3>1, <3>2
      DEF RunInv, TypeOK, Endings, Places, Counted, Banked
  <2> QED
    BY <1>2, <2>2, <2>3 DEF Step
<1>3. CASE ForceStep
  <2>1. /\ machine = "stepping" /\ ~settled
        /\ steps' = steps + (IF stepResolve = Nobody THEN 0 ELSE 1)
        /\ forceSkip' = Nobody /\ stepResolve' = Nobody
        /\ UNCHANGED <<machine, aborted, pendingSteps, at, expectation, armed,
                       tracked, settled, executed, pauses>>
        /\ pc' = [w \in Walkers |->
                    IF w = forceSkip /\ pc[w] = "wait" THEN "ended"
                    ELSE IF w = stepResolve THEN "stepped"
                    ELSE pc[w]]
    BY <1>3 DEF ForceStep, Commanded
  <2>2. \A w \in Walkers : w # stepResolve =>
          pc'[w] = pc[w] \/ (pc[w] = "wait" /\ pc'[w] = "ended")
    BY <2>1
  <2>3. stepResolve # Nobody =>
          /\ stepResolve \in Walkers /\ pc[stepResolve] = "stepping"
          /\ pc'[stepResolve] = "stepped"
    BY <1>0, <2>1 DEF Places, TypeOK
  <2>4. TypeOK'
    <3>1. pc' \in [Walkers -> Runnable \cup Parked \cup {"unborn", "done"}]
      BY <1>0, <2>1 DEF TypeOK, Runnable, Parked
    <3> QED
      BY <1>0, <2>1, <3>1 DEF TypeOK
  <2>5. Endings' /\ Places'
    BY <1>0, <2>1, <2>2, <2>3, Names DEF Endings, Places
  <2>6. Counted'
    <3>1. CASE stepResolve = Nobody
      <4>1. \A w \in Walkers : w # stepResolve
        BY <3>1, Names
      <4>2. Due' = Due
        BY <2>2, <4>1, DueSame
      <4> QED
        BY <1>0, <2>1, <3>1, <4>2 DEF Counted, TypeOK
    <3>2. CASE stepResolve # Nobody
      <4>1. Cardinality(Due') = Cardinality(Due) + 1 /\ Cardinality(Due) \in Nat
        BY <2>2, <2>3, <3>2, DueMore
      <4> QED
        BY <1>0, <2>1, <3>2, <4>1 DEF Counted, TypeOK
    <3> QED
      BY <3>1, <3>2
  <2> QED
    BY <2>4, <2>5, <2>6 DEF RunInv
<1>4. CASE Stop
  <2>1. /\ aborted' = TRUE /\ machine' = "idle" /\ expectation' = Nobody /\ ~settled
        /\ pc' = [w \in Walkers |-> Released(w)]
        /\ UNCHANGED <<stepResolve, pendingSteps, forceSkip, at, armed, tracked,
                       settled, history>>
    BY <1>4 DEF Stop, Commanded
  <2>2. \A w \in Walkers :
          \/ pc'[w] = pc[w]
          \/ pc[w] = "wait" /\ pc'[w] = "ended"
          \/ pc[w] = "stepping" /\ pc'[w] = "stepped"
    BY <2>1 DEF Released
  <2>3. TypeOK'
    <3>1. pc' \in [Walkers -> Runnable \cup Parked \cup {"unborn", "done"}]
      BY <1>0, <2>1 DEF TypeOK, Runnable, Parked, Released
    <3> QED
      BY <1>0, <2>1, <3>1 DEF TypeOK, history
  <2>4. Endings' /\ Places' /\ Counted'
    BY <1>0, <2>1, <2>2, Names DEF Endings, Places, Counted
  <2> QED
    BY <2>3, <2>4 DEF RunInv
<1> QED
  BY <1>1, <1>2, <1>3, <1>4 DEF Command

LEMMA RunInit == Init => RunInv
<1> SUFFICES ASSUME Init PROVE RunInv
  OBVIOUS
<1>1. Due = {}
  BY Names DEF Init, Due
<1>2. Cardinality(Due) = 0
  BY <1>1, FS_EmptySet
<1>3. TypeOK
  <2>1. pc \in [Walkers -> Runnable \cup Parked \cup {"unborn", "done"}]
        /\ at \in [Walkers -> Nat \ {0}]
    BY DEF Init, Runnable, Parked
  <2> QED
    BY <2>1 DEF Init, TypeOK
<1>4. Endings /\ Places /\ Counted
  BY <1>2, Names DEF Init, Endings, Places, Counted
<1> QED
  BY <1>3, <1>4 DEF RunInv

LEMMA RunStep == RunInv /\ [Next]_vars => RunInv'
<1> SUFFICES ASSUME RunInv, [Next]_vars PROVE RunInv'
  OBVIOUS
<1>1. CASE UNCHANGED vars
  <2>1. Due' = Due
    BY <1>1 DEF vars, Due
  <2> QED
    BY <1>1, <2>1
    DEF RunInv, TypeOK, Endings, Places, Counted, vars, control, history
<1> QED
  BY <1>1, WalkStep, OutsideStep, CommandStep DEF Next

THEOREM RunInvariant == Spec => []RunInv
  BY RunInit, RunStep, PTL DEF Spec

-----------------------------------------------------------------------------
(* What follows.                                                           *)

(* Every variable of a run keeps its type, whatever the branches.          *)
THEOREM ExecutorTypeCorrect == Spec => []TypeOK
  BY RunInvariant, PTL DEF RunInv

(* A settled run that did not fail has taken back every override its       *)
(* branches armed (ScenarioExecutor.ts, the finally of start).             *)
THEOREM OverridesAlwaysCleared == Spec => []OverridesCleared
<1>1. RunInv => OverridesCleared
  BY DEF RunInv, Endings, OverridesCleared
<1> QED
  BY <1>1, RunInvariant, PTL

(* step(): no step is lost or used twice, for any number of branches.      *)
THEOREM StepsAlwaysAccounted == Spec => []StepsAccounted
<1>1. RunInv => StepsAccounted
  BY DEF RunInv, Counted, Due, StepsAccounted
<1> QED
  BY <1>1, RunInvariant, PTL

(* Only three steps show a node.                                           *)
LEMMA ShownBy ==
  ASSUME [Next]_vars, executed' # executed
  PROVE  \E w \in Walkers : Boundary(w) \/ WaitsForStep(w) \/ (Stepped(w) /\ ~Stopped)
<1>1. \A w \in Walkers :
        BailsOut(w) \/ HoldsForPause(w) \/ NodeEnds(w) \/ NodeThrows(w) \/ Poll(w)
          \/ Returns(w) \/ EventComes(w) \/ Rejects(w) => executed' = executed
  BY DEF BailsOut, HoldsForPause, NodeEnds, NodeThrows, Poll, Returns, EventComes,
         Arrives, Rejects, history
<1>2. Command => executed' = executed
  BY DEF Command, Pause, Resume, Step, ForceStep, Stop, history
<1>3. \A w \in Walkers : Stepped(w) /\ Stopped => executed' = executed
  BY DEF Stepped
<1>4. UNCHANGED vars => executed' = executed
  BY DEF vars, history
<1> QED
  BY <1>1, <1>2, <1>3, <1>4 DEF Next, Walk

(* stop(): no branch shows a node of a stopped run, wherever it was parked.*)
THEOREM StopSilences == Spec => SilentAfterStop
<1>1. [Next]_vars => [aborted => executed' = executed]_vars
  BY ShownBy DEF Boundary, WaitsForStep, Stopped
<1> QED
  BY <1>1, PTL DEF Spec, SilentAfterStop

(* pause(): no branch shows a node of a paused run.                        *)
THEOREM PauseHolds == Spec => PausedIsStill
<1>1. RunInv /\ [Next]_vars => [machine = "paused" => executed' = executed]_vars
  BY ShownBy DEF Boundary, WaitsForStep, Stepped, RunInv, Places
<1> QED
  BY <1>1, RunInvariant, PTL DEF Spec, PausedIsStill
=============================================================================
