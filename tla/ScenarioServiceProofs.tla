------------------------ MODULE ScenarioServiceProofs ------------------------
(***************************************************************************)
(* Proofs about ScenarioService, for any scenarios and any bounds.         *)
(*                                                                         *)
(* The invariant says of each part what the others rest on: a run that is  *)
(* at a node is at a node of its scenario (Walked), what is registered is  *)
(* registered under its own scenario and goes on (Registered).  A resume   *)
(* never runs ahead because a position that fits a scenario none of whose  *)
(* runs is going is the one a restart has left (Own).                      *)
(***************************************************************************)
EXTENDS ScenarioService, TLAPS

Places == Walking \cup {"slow", "wait", "over"}
Run == [scenario : Scenarios, at : Nat \ {0}, stopped : BOOLEAN,
        alone : BOOLEAN, pc : Places]

Walked(q) ==
  /\ q \in Run
  /\ q.at <= Len(Flow[q.scenario]) + 1
  /\ q.pc \in {"slow", "wait", "ended"} => q.at <= Len(Flow[q.scenario])

AllWalked(rs) == rs \in Seq(Run) /\ \A r \in DOMAIN rs : Walked(rs[r])

Indexed(f, rs) == f \in [Scenarios -> DOMAIN rs \cup {0}]

Registered(rs, ex) ==
  /\ Indexed(ex, rs)
  /\ \A s \in Scenarios : ex[s] # 0 =>
       rs[ex[s]].scenario = s /\ rs[ex[s]].pc # "over" /\ ~rs[ex[s]].stopped

Reported(rep, rs) == rep \in Seq(DOMAIN rs \cup {0}) /\ Len(rep) = Len(rs)

Autos == Scenarios \cup {"none"}

ServiceInv ==
  /\ AllWalked(run) /\ Registered(run, executors) /\ Indexed(transcript, run)
  /\ Reported(report, run)
  /\ position \in Seq(Nodes) /\ pending \in Seq(Nodes)
  /\ row \in [position : Seq(Nodes), auto : Autos]
  /\ lastAuto \in Autos /\ online \in BOOLEAN

-----------------------------------------------------------------------------
(* Sequences of runs.                                                      *)

LEMMA SeqFacts ==
  ASSUME NEW T, NEW q \in Seq(T), NEW e \in T
  PROVE  /\ Len(q) \in Nat /\ DOMAIN q = 1..Len(q)
         /\ \A i \in 1..Len(q) : q[i] \in T
         /\ Append(q, e) \in Seq(T) /\ Len(Append(q, e)) = Len(q) + 1
         /\ DOMAIN Append(q, e) = 1..(Len(q) + 1)
         /\ \A i \in 1..Len(q) : Append(q, e)[i] = q[i]
         /\ Append(q, e)[Len(q) + 1] = e
  OBVIOUS

LEMMA SeqWith ==
  ASSUME NEW T, NEW q \in Seq(T), NEW i \in DOMAIN q, NEW e \in T
  PROVE  /\ [q EXCEPT ![i] = e] \in Seq(T) /\ Len([q EXCEPT ![i] = e]) = Len(q)
         /\ DOMAIN [q EXCEPT ![i] = e] = DOMAIN q
         /\ [q EXCEPT ![i] = e][i] = e
         /\ \A j \in DOMAIN q \ {i} : [q EXCEPT ![i] = e][j] = q[j]
  OBVIOUS

LEMMA FlowTyped ==
  ASSUME NEW s \in Scenarios
  PROVE  Len(Flow[s]) \in Nat /\ DOMAIN Flow[s] = 1..Len(Flow[s])
  BY ScenarioAssumption

LEMMA NodesOf ==
  /\ \A s \in Scenarios : \A i \in DOMAIN Flow[s] : <<s, i>> \in Nodes
  /\ \A s \in Scenarios : \A n \in Node(s) : n[2] \in DOMAIN Flow[s]
  BY DEF Nodes, Node

(* One run is replaced: the others, and what refers to them, stay.         *)
LEMMA Replaced ==
  ASSUME AllWalked(run), Registered(run, executors), NEW r \in Runs, NEW q,
         Walked(q), q.scenario = run[r].scenario,
         NEW rs, rs = [run EXCEPT ![r] = q]
  PROVE  /\ AllWalked(rs) /\ DOMAIN rs = Runs /\ Len(rs) = Len(run)
         /\ \A s \in Scenarios : executors[s] = r => s = q.scenario
         /\ ~q.stopped /\ q.pc # "over" => Registered(rs, executors)
         /\ Registered(rs, [executors EXCEPT ![q.scenario] = 0])
         /\ (\A s \in Scenarios : executors[s] # r) => Registered(rs, executors)
<1>1. /\ rs \in Seq(Run) /\ DOMAIN rs = Runs /\ Len(rs) = Len(run)
      /\ rs[r] = q /\ \A j \in Runs \ {r} : rs[j] = run[j]
  BY SeqWith DEF AllWalked, Walked, Runs
<1>2. AllWalked(rs)
  BY <1>1 DEF AllWalked, Runs
<1>3. \A s \in Scenarios : executors[s] = r => s = q.scenario
  <2>1. Runs = 1..Len(run) /\ Len(run) \in Nat
    BY DEF AllWalked, Runs
  <2> QED
    BY <2>1 DEF Registered
<1>4. ASSUME NEW s \in Scenarios, executors[s] # 0, executors[s] # r
      PROVE  /\ rs[executors[s]].scenario = s /\ rs[executors[s]].pc # "over"
             /\ ~rs[executors[s]].stopped
  BY <1>1, <1>4 DEF Registered, Indexed, Runs
<1>5. Indexed(executors, rs) /\ Indexed([executors EXCEPT ![q.scenario] = 0], rs)
  BY <1>1 DEF Registered, Indexed, Runs
<1>6. Registered(rs, [executors EXCEPT ![q.scenario] = 0])
  <2>1. \A s \in Scenarios : [executors EXCEPT ![q.scenario] = 0][s] # 0 =>
          /\ [executors EXCEPT ![q.scenario] = 0][s] = executors[s]
          /\ executors[s] # 0 /\ s # q.scenario
    BY DEF Registered, Indexed
  <2> QED
    BY <1>3, <1>4, <1>5, <2>1 DEF Registered
<1>7. ~q.stopped /\ q.pc # "over" => Registered(rs, executors)
  BY <1>1, <1>3, <1>4, <1>5 DEF Registered
<1>8. (\A s \in Scenarios : executors[s] # r) => Registered(rs, executors)
  BY <1>4, <1>5 DEF Registered
<1> QED
  BY <1>1, <1>2, <1>3, <1>6, <1>7, <1>8

(* Where a run of s begins.                                                *)
LEMMA FirstNode ==
  ASSUME NEW s \in Scenarios, pending \in Seq(Nodes),
         NEW at, at = IF Fits(s, pending) THEN After(pending) ELSE 1,
         NEW b \in BOOLEAN
  PROVE  Walked([scenario |-> s, pc |-> "walk", stopped |-> FALSE, at |-> at,
                 alone |-> b])
<1>1. Len(Flow[s]) \in Nat /\ DOMAIN Flow[s] = 1..Len(Flow[s])
  BY FlowTyped
<1>2. at \in 1..(Len(Flow[s]) + 1)
  <2>1. CASE Fits(s, pending)
    <3>1. Len(pending) \in DOMAIN pending
      BY <2>1 DEF Fits
    <3>2. pending[Len(pending)] \in Node(s)
      BY <2>1, <3>1 DEF Fits
    <3>3. pending[Len(pending)][2] \in 1..Len(Flow[s])
      BY <1>1, <3>2, NodesOf
    <3> QED
      BY <1>1, <2>1, <3>3 DEF After
  <2>2. CASE ~Fits(s, pending)
    BY <1>1, <2>2
  <2> QED
    BY <2>1, <2>2
<1> QED
  BY <1>1, <1>2 DEF Walked, Run, Places, Walking

(* A run is added and registered.                                          *)
LEMMA Added ==
  ASSUME NEW rs, NEW ex, NEW tr, NEW rep, NEW s \in Scenarios, NEW q,
         AllWalked(rs), Registered(rs, ex), Indexed(tr, rs), Reported(rep, rs),
         Walked(q), q.scenario = s, q.pc # "over", ~q.stopped
  PROVE  LET n == Len(rs) + 1 IN
         /\ AllWalked(Append(rs, q))
         /\ Registered(Append(rs, q), [ex EXCEPT ![s] = n])
         /\ Indexed([tr EXCEPT ![s] = n], Append(rs, q))
         /\ Reported(Append(rep, 0), Append(rs, q))
<1> DEFINE n == Len(rs) + 1
           new == Append(rs, q)
<1>1. /\ rs \in Seq(Run) /\ q \in Run /\ rep \in Seq(DOMAIN rs \cup {0})
      /\ Len(rep) = Len(rs)
  BY DEF AllWalked, Walked, Reported
<1>2. /\ Len(rs) \in Nat /\ DOMAIN rs = 1..Len(rs)
      /\ new \in Seq(Run) /\ Len(new) = n /\ DOMAIN new = 1..n
      /\ \A i \in 1..Len(rs) : new[i] = rs[i]
      /\ new[n] = q
  BY <1>1, SeqFacts
<1> HIDE DEF new
<1>3. n \in DOMAIN new /\ n # 0 /\ DOMAIN rs \subseteq DOMAIN new /\ n \notin DOMAIN rs
  BY <1>2
<1>4. AllWalked(new)
  BY <1>2 DEF AllWalked
<1>5. Indexed([tr EXCEPT ![s] = n], new) /\ Indexed([ex EXCEPT ![s] = n], new)
  BY <1>3 DEF Indexed, Registered
<1>6. Registered(new, [ex EXCEPT ![s] = n])
  <2>1. \A t \in Scenarios : t # s => [ex EXCEPT ![s] = n][t] = ex[t]
    BY DEF Registered, Indexed
  <2>2. [ex EXCEPT ![s] = n][s] = n
    BY DEF Registered, Indexed
  <2>3. \A t \in Scenarios : ex[t] # 0 => new[ex[t]] = rs[ex[t]]
    BY <1>2 DEF Registered, Indexed
  <2> QED
    BY <1>2, <1>5, <2>1, <2>2, <2>3 DEF Registered
<1>7. Reported(Append(rep, 0), new)
  <2>1. rep \in Seq(DOMAIN new \cup {0})
    BY <1>1, <1>3
  <2>2. Append(rep, 0) \in Seq(DOMAIN new \cup {0})
        /\ Len(Append(rep, 0)) = Len(rep) + 1
    BY <2>1
  <2> QED
    BY <1>1, <1>2, <2>2 DEF Reported
<1> QED
  BY <1>4, <1>5, <1>6, <1>7 DEF new

LEMMA BeginKeeps ==
  ASSUME NEW rs, NEW ex, NEW tr, NEW rep, NEW s \in Scenarios,
         AllWalked(rs), Registered(rs, ex), Indexed(tr, rs), Reported(rep, rs),
         position \in Seq(Nodes), pending \in Seq(Nodes),
         Begin(s, rs, ex, tr, rep)
  PROVE  /\ AllWalked(run') /\ Registered(run', executors')
         /\ Indexed(transcript', run') /\ Reported(report', run')
         /\ Rebased(s) \in Seq(Nodes) /\ pending' \in Seq(Nodes)
<1> DEFINE at == IF Fits(s, pending) THEN After(pending) ELSE 1
           q  == [scenario |-> s, pc |-> "walk", stopped |-> FALSE, at |-> at,
                  alone |-> AllOver(s, rs)]
<1>1. /\ run' = Append(rs, q)
      /\ executors' = [ex EXCEPT ![s] = Len(rs) + 1]
      /\ transcript' = [tr EXCEPT ![s] = Len(rs) + 1]
      /\ report' = Append(rep, 0)
      /\ pending' = IF Fits(s, pending) THEN <<>> ELSE pending
  BY DEF Begin
<1>2. Walked(q)
  <2>1. AllOver(s, rs) \in BOOLEAN
    BY DEF AllOver
  <2> QED
    BY <2>1, FirstNode
<1>3. q.scenario = s /\ q.pc # "over" /\ ~q.stopped
  OBVIOUS
<1> HIDE DEF q
<1>4. Rebased(s) \in Seq(Nodes) /\ pending' \in Seq(Nodes)
  BY <1>1 DEF Rebased
<1> QED
  BY <1>1, <1>2, <1>3, <1>4, Added

LEMMA AutoKeeps ==
  ASSUME NEW S \in SUBSET Scenarios, NEW rs, NEW ex, NEW tr,
         NEW last \in Autos,
         AllWalked(rs), Registered(rs, ex), Indexed(tr, rs), Reported(report, rs),
         position \in Seq(Nodes), pending \in Seq(Nodes),
         AutoStarts(S, rs, ex, tr, last)
  PROVE  /\ AllWalked(run') /\ Registered(run', executors')
         /\ Indexed(transcript', run') /\ Reported(report', run')
         /\ position' \in Seq(Nodes) /\ pending' \in Seq(Nodes)
         /\ lastAuto' \in Autos
<1>1. CASE \E s \in S : /\ Begin(s, rs, ex, tr, report)
                        /\ position' = Rebased(s) /\ lastAuto' = s
  <2>1. PICK s \in S : /\ Begin(s, rs, ex, tr, report)
                      /\ position' = Rebased(s) /\ lastAuto' = s
    BY <1>1
  <2>2. /\ AllWalked(run') /\ Registered(run', executors')
        /\ Indexed(transcript', run') /\ Reported(report', run')
        /\ Rebased(s) \in Seq(Nodes) /\ pending' \in Seq(Nodes)
    BY <2>1, BeginKeeps
  <2> QED
    BY <2>1, <2>2 DEF Autos
<1>2. CASE /\ run' = rs /\ executors' = ex /\ transcript' = tr /\ lastAuto' = last
           /\ UNCHANGED <<report, position, pending>>
  <2>1. AllWalked(run') /\ Registered(run', executors')
    BY <1>2
  <2> QED
    BY <1>2, <2>1
<1> QED
  BY <1>1, <1>2 DEF AutoStarts

(* A run is stopped and its registration is dropped.                       *)
LEMMA HaltedKeeps ==
  ASSUME ServiceInv, NEW s \in Scenarios, executors[s] # 0
  PROVE  /\ executors[s] \in Runs
         /\ AllWalked(Halted(executors[s])) /\ DOMAIN Halted(executors[s]) = Runs
         /\ Len(Halted(executors[s])) = Len(run)
         /\ Registered(Halted(executors[s]), [executors EXCEPT ![s] = 0])
<1> DEFINE r == executors[s]
           q == [run[r] EXCEPT !.stopped = TRUE,
                              !.pc = IF run[r].pc = "wait" THEN "ended"
                                     ELSE run[r].pc]
<1>1. r \in Runs /\ run[r].scenario = s
  BY DEF ServiceInv, Registered, Indexed, Runs
<1>2. run[r] \in Run /\ Walked(run[r])
  BY <1>1 DEF ServiceInv, AllWalked, Runs, Walked
<1>3. q \in Run /\ q.scenario = run[r].scenario /\ q.at = run[r].at
      /\ q.pc \in {"ended", run[r].pc} /\ (q.pc = run[r].pc \/ run[r].pc = "wait")
  BY <1>2 DEF Run, Places, Walking
<1>4. Walked(q)
  BY <1>2, <1>3 DEF Walked
<1>5. Halted(r) = [run EXCEPT ![r] = q]
  BY DEF Halted
<1> HIDE DEF q
<1>6. /\ AllWalked(Halted(r)) /\ DOMAIN Halted(r) = Runs /\ Len(Halted(r)) = Len(run)
      /\ Registered(Halted(r), [executors EXCEPT ![s] = 0])
  BY <1>1, <1>3, <1>4, <1>5, Replaced DEF ServiceInv
<1> QED
  BY <1>1, <1>6

LEMMA FinalizedKeeps ==
  ASSUME ServiceInv, NEW s \in Scenarios, NEW r \in Runs
  PROVE  Reported(Finalized(r, s), run)
<1>1. CASE transcript[s] = 0
  BY <1>1 DEF ServiceInv, Finalized
<1>2. CASE transcript[s] # 0
  <2>1. transcript[s] \in Runs \cup {0} /\ report \in Seq(Runs \cup {0})
        /\ Len(report) = Len(run)
    BY DEF ServiceInv, Indexed, Reported, Runs
  <2>2. r \in DOMAIN report
    BY <2>1 DEF ServiceInv, AllWalked, Runs
  <2>3. [report EXCEPT ![r] = transcript[s]] \in Seq(Runs \cup {0})
        /\ Len([report EXCEPT ![r] = transcript[s]]) = Len(report)
    BY <2>1, <2>2
  <2> QED
    BY <1>2, <2>1, <2>3 DEF Finalized, Reported, Runs
<1> QED
  BY <1>1, <1>2

LEMMA OtherDomain ==
  ASSUME NEW rs, NEW rt, DOMAIN rs = DOMAIN rt, Len(rs) = Len(rt), NEW f, NEW rep
  PROVE  /\ Indexed(f, rs) <=> Indexed(f, rt)
         /\ Reported(rep, rs) <=> Reported(rep, rt)
  BY DEF Indexed, Reported

LEMMA Cleared ==
  ASSUME NEW f, NEW rs, Indexed(f, rs), NEW s
  PROVE  Indexed([f EXCEPT ![s] = 0], rs)
  BY DEF Indexed

-----------------------------------------------------------------------------
(* The steps.                                                              *)

LEMMA StopStep ==
  ASSUME ServiceInv, NEW s \in Scenarios, StopScenario(s)
  PROVE  ServiceInv'
<1>1. /\ executors[s] # 0 /\ run' = Halted(executors[s])
      /\ executors' = [executors EXCEPT ![s] = 0]
      /\ report' = Finalized(executors[s], s)
      /\ transcript' = [transcript EXCEPT ![s] = 0]
      /\ UNCHANGED <<position, pending, row, lastAuto, online>>
  BY DEF StopScenario, places
<1>2. /\ executors[s] \in Runs /\ AllWalked(run') /\ Registered(run', executors')
      /\ DOMAIN run' = Runs /\ Len(run') = Len(run)
  BY <1>1, HaltedKeeps
<1>3. Indexed(transcript', run) /\ Reported(report', run)
  BY <1>1, <1>2, Cleared, FinalizedKeeps DEF ServiceInv
<1>4. Indexed(transcript', run') /\ Reported(report', run')
  BY <1>2, <1>3, OtherDomain DEF Runs
<1> QED
  BY <1>1, <1>2, <1>4 DEF ServiceInv

(* What a reset leaves before a trigger may begin another run.             *)
LEMMA ResetLeaves ==
  ASSUME ServiceInv, NEW s \in Scenarios, NEW r, r = executors[s],
         NEW rs, rs = IF r = 0 THEN run ELSE Halted(r),
         NEW ex, ex = [executors EXCEPT ![s] = 0],
         NEW tr, tr = IF r = 0 THEN transcript ELSE [transcript EXCEPT ![s] = 0],
         NEW rep, rep = IF r = 0 THEN report ELSE Finalized(r, s)
  PROVE  /\ AllWalked(rs) /\ Registered(rs, ex) /\ Indexed(tr, rs)
         /\ Reported(rep, rs)
<1>1. CASE r = 0
  <2>1. ex = executors
    BY <1>1 DEF ServiceInv, Registered, Indexed
  <2> QED
    BY <1>1, <2>1 DEF ServiceInv
<1>2. CASE r # 0
  <2>1. /\ r \in Runs /\ AllWalked(rs) /\ Registered(rs, ex)
        /\ DOMAIN rs = Runs /\ Len(rs) = Len(run)
    BY <1>2, HaltedKeeps
  <2>2. Indexed(tr, run) /\ Reported(rep, run)
    BY <1>2, <2>1, Cleared, FinalizedKeeps DEF ServiceInv
  <2>3. Indexed(tr, rs) /\ Reported(rep, rs)
    BY <2>1, <2>2, OtherDomain DEF Runs
  <2> QED
    BY <2>1, <2>3
<1> QED
  BY <1>1, <1>2

LEMMA ResetStep ==
  ASSUME ServiceInv, NEW s \in Scenarios, ResetScenario(s)
  PROVE  ServiceInv'
<1> DEFINE r  == executors[s]
           rs == IF r = 0 THEN run ELSE Halted(r)
           ex == [executors EXCEPT ![s] = 0]
           tr == IF r = 0 THEN transcript ELSE [transcript EXCEPT ![s] = 0]
           rep == IF r = 0 THEN report ELSE Finalized(r, s)
<1>1. /\ row' = Row(position, lastAuto) /\ position' = <<>>
      /\ UNCHANGED <<lastAuto, online>>
      /\ \/ \E t \in Scenarios : Begin(t, rs, ex, tr, rep)
         \/ /\ run' = rs /\ executors' = ex /\ transcript' = tr /\ report' = rep
            /\ UNCHANGED pending
  BY ScenarioAssumption DEF ResetScenario
<1>2. AllWalked(rs) /\ Registered(rs, ex) /\ Indexed(tr, rs) /\ Reported(rep, rs)
  BY ResetLeaves
<1> HIDE DEF r, rs, ex, tr, rep
<1>3. position' \in Seq(Nodes) /\ row' \in [position : Seq(Nodes), auto : Autos]
  BY <1>1 DEF ServiceInv, Row
<1>4. /\ AllWalked(run') /\ Registered(run', executors')
      /\ Indexed(transcript', run') /\ Reported(report', run')
      /\ pending' \in Seq(Nodes)
  BY <1>1, <1>2, BeginKeeps DEF ServiceInv
<1> QED
  BY <1>1, <1>3, <1>4 DEF ServiceInv

LEMMA UploadDiscards ==
  ASSUME ServiceInv
  PROVE  LET live == {executors[s] : s \in Scenarios}
             rs == [r \in Runs |-> IF r \in live THEN Halted(r)[r] ELSE run[r]]
             ex == [s \in Scenarios |-> 0]
         IN  /\ AllWalked(rs) /\ Registered(rs, ex)
             /\ DOMAIN rs = Runs /\ Len(rs) = Len(run)
<1> DEFINE live == {executors[s] : s \in Scenarios}
           rs == [r \in Runs |-> IF r \in live THEN Halted(r)[r] ELSE run[r]]
           ex == [s \in Scenarios |-> 0]
<1>2. run \in Seq(Run) /\ Runs = 1..Len(run) /\ Len(run) \in Nat
  BY DEF ServiceInv, AllWalked, Runs
<1>3. ASSUME NEW r \in Runs, r \in live
      PROVE  Walked(Halted(r)[r])
  <2>1. PICK s \in Scenarios : executors[s] = r
    BY <1>3
  <2>2. r # 0
    BY <1>2
  <2>3. AllWalked(Halted(r)) /\ DOMAIN Halted(r) = Runs
    BY <2>1, <2>2, HaltedKeeps
  <2> QED
    BY <2>3 DEF AllWalked
<1>4. \A r \in Runs : Walked(rs[r])
  BY <1>3 DEF ServiceInv, AllWalked, Runs
<1>5. rs \in Seq(Run) /\ DOMAIN rs = Runs /\ Len(rs) = Len(run)
  <2>1. \A r \in 1..Len(run) : rs[r] \in Run
    BY <1>2, <1>4 DEF Walked
  <2>2. rs \in [1..Len(run) -> Run]
    BY <1>2, <2>1
  <2> QED
    BY <1>2, <2>2
<1>6. AllWalked(rs)
  BY <1>4, <1>5 DEF AllWalked
<1>7. Registered(rs, ex)
  BY DEF Registered, Indexed
<1> QED
  BY <1>5, <1>6, <1>7

LEMMA UploadStep == ASSUME ServiceInv, Upload PROVE ServiceInv'
<1> DEFINE live == {executors[s] : s \in Scenarios}
           rs == [r \in Runs |-> IF r \in live THEN Halted(r)[r] ELSE run[r]]
           ex == [s \in Scenarios |-> 0]
           tr == [s \in Scenarios |-> IF executors[s] = 0 THEN transcript[s] ELSE 0]
           S  == IF online THEN OnConnect ELSE {}
<1>1. AutoStarts(S, rs, ex, tr, "none") /\ UNCHANGED <<row, online>>
  BY DEF Upload
<1>6. /\ AllWalked(rs) /\ Registered(rs, ex)
      /\ DOMAIN rs = Runs /\ Len(rs) = Len(run)
  BY UploadDiscards
<1>8. Indexed(tr, run) /\ Reported(report, run)
  BY DEF ServiceInv, Indexed
<1>9. Indexed(tr, rs) /\ Reported(report, rs)
  BY <1>6, <1>8, OtherDomain DEF Runs
<1>10. S \in SUBSET Scenarios
  BY ScenarioAssumption
<1> HIDE DEF rs, ex, tr, S
<1>11. position \in Seq(Nodes) /\ pending \in Seq(Nodes)
  BY DEF ServiceInv
<1>12. "none" \in Autos
  BY DEF Autos
<1>13. /\ AllWalked(run') /\ Registered(run', executors')
       /\ Indexed(transcript', run') /\ Reported(report', run')
       /\ position' \in Seq(Nodes) /\ pending' \in Seq(Nodes)
       /\ lastAuto' \in Autos
  BY <1>1, <1>6, <1>9, <1>10, <1>11, <1>12, AutoKeeps
<1> QED
  BY <1>1, <1>13 DEF ServiceInv

(* A walker moves from one place to another.                               *)
LEMMA GoesKeeps ==
  ASSUME ServiceInv, NEW r \in Runs, NEW x \in Places, x # "over",
         x \in {"slow", "wait", "ended"} => run[r].at <= Len(Flow[run[r].scenario]),
         run[r].pc # "over", Goes(r, x),
         UNCHANGED <<maps, places, lastAuto, online>>
  PROVE  ServiceInv'
<1> DEFINE q == [run[r] EXCEPT !.pc = x]
<1>1. run[r] \in Run /\ Walked(run[r])
  BY DEF ServiceInv, AllWalked, Runs, Walked
<1>2. q \in Run /\ q.scenario = run[r].scenario /\ q.at = run[r].at /\ q.pc = x
      /\ q.stopped = run[r].stopped
  BY <1>1 DEF Run
<1>3. Walked(q)
  BY <1>1, <1>2 DEF Walked
<1>4. run' = [run EXCEPT ![r] = q]
  <2>1. run \in Seq(Run)
    BY DEF ServiceInv, AllWalked
  <2> QED
    BY <2>1 DEF Goes, Runs
<1> HIDE DEF q
<1>5. /\ AllWalked(run') /\ DOMAIN run' = Runs /\ Len(run') = Len(run)
      /\ ~q.stopped => Registered(run', executors)
      /\ (\A s \in Scenarios : executors[s] # r) => Registered(run', executors)
  BY <1>2, <1>3, <1>4, Replaced DEF ServiceInv
<1>6. q.stopped => \A s \in Scenarios : executors[s] # r
  <2>1. \A s \in Scenarios : executors[s] = r => executors[s] # 0
    BY DEF ServiceInv, AllWalked, Runs
  <2> QED
    BY <1>2, <2>1 DEF ServiceInv, Registered
<1>7. Registered(run', executors)
  BY <1>5, <1>6
<1>8. Indexed(transcript, run') /\ Reported(report, run')
  BY <1>5, OtherDomain DEF ServiceInv, Runs
<1> QED
  BY <1>5, <1>7, <1>8 DEF ServiceInv, maps, places

LEMMA NodeCompleteStep ==
  ASSUME ServiceInv, NEW r \in Runs, NodeComplete(r)
  PROVE  ServiceInv'
<1> DEFINE n == <<run[r].scenario, run[r].at>>
           q == [run[r] EXCEPT !.at = run[r].at + 1, !.pc = "walk"]
<1>1. /\ run[r].pc = "ended" /\ position' = Append(position, n)
      /\ row' = Row(position', lastAuto)
      /\ UNCHANGED <<executors, transcript, report, pending, lastAuto, online>>
  BY DEF NodeComplete, maps
<1>2. run[r] \in Run /\ Walked(run[r])
  BY DEF ServiceInv, AllWalked, Runs, Walked
<1>3. run[r].scenario \in Scenarios /\ run[r].at \in Nat \ {0} /\ run[r].stopped \in BOOLEAN
  BY <1>2 DEF Run
<1>4. /\ Len(Flow[run[r].scenario]) \in Nat
      /\ run[r].at \in DOMAIN Flow[run[r].scenario]
      /\ run[r].at + 1 <= Len(Flow[run[r].scenario]) + 1
  BY <1>1, <1>2, <1>3, FlowTyped DEF Walked
<1>5. n \in Nodes
  BY <1>3, <1>4, NodesOf
<1>6. Walked(q) /\ q.scenario = run[r].scenario /\ q.pc = "walk"
      /\ q.stopped = run[r].stopped
  <2>1. run[r].at + 1 \in Nat \ {0}
    BY <1>3
  <2>2. q \in Run
    BY <1>2, <2>1 DEF Run, Places, Walking
  <2>3. q.scenario = run[r].scenario /\ q.pc = "walk" /\ q.stopped = run[r].stopped
    BY <1>2 DEF Run
  <2>4. q.at = run[r].at + 1
    BY <1>2 DEF Run
  <2> QED
    BY <1>4, <2>2, <2>3, <2>4 DEF Walked
<1>7. run' = [run EXCEPT ![r] = q]
  <2>1. run \in Seq(Run)
    BY DEF ServiceInv, AllWalked
  <2> QED
    BY <2>1 DEF NodeComplete, Runs
<1> HIDE DEF n, q
<1>8. /\ AllWalked(run') /\ DOMAIN run' = Runs /\ Len(run') = Len(run)
      /\ ~q.stopped => Registered(run', executors)
      /\ (\A s \in Scenarios : executors[s] # r) => Registered(run', executors)
  BY <1>6, <1>7, Replaced DEF ServiceInv
<1>9. q.stopped => \A s \in Scenarios : executors[s] # r
  <2>1. \A s \in Scenarios : executors[s] = r => executors[s] # 0
    BY DEF ServiceInv, AllWalked, Runs
  <2> QED
    BY <1>6, <2>1 DEF ServiceInv, Registered
<1>10. Indexed(transcript, run') /\ Reported(report, run')
  BY <1>8, OtherDomain DEF ServiceInv, Runs
<1>11. position' \in Seq(Nodes) /\ row' \in [position : Seq(Nodes), auto : Autos]
  BY <1>1, <1>5 DEF ServiceInv, Row
<1>12. pending' \in Seq(Nodes)
  BY <1>1 DEF ServiceInv
<1> QED
  BY <1>1, <1>8, <1>9, <1>10, <1>11, <1>12 DEF ServiceInv

LEMMA LeaveStep ==
  ASSUME ServiceInv, NEW r \in Runs, Leave(r)
  PROVE  ServiceInv'
<1> DEFINE s == run[r].scenario
           q == [run[r] EXCEPT !.pc = "over"]
<1>1. /\ executors' = [executors EXCEPT ![s] = 0]
      /\ report' = Finalized(r, s) /\ transcript' = [transcript EXCEPT ![s] = 0]
      /\ position' = <<>> /\ row' = Row(<<>>, lastAuto)
      /\ UNCHANGED <<pending, lastAuto, online>>
  BY DEF Leave, Unregistered
<1>2. run[r] \in Run /\ Walked(run[r]) /\ s \in Scenarios
  BY DEF ServiceInv, AllWalked, Runs, Walked, Run
<1>3. Walked(q) /\ q.scenario = s
  BY <1>2 DEF Walked, Run, Places
<1>4. run' = [run EXCEPT ![r] = q]
  <2>1. run \in Seq(Run)
    BY DEF ServiceInv, AllWalked
  <2> QED
    BY <2>1 DEF Leave, Goes, Runs
<1> HIDE DEF q
<1>5. /\ AllWalked(run') /\ DOMAIN run' = Runs /\ Len(run') = Len(run)
      /\ Registered(run', executors')
  BY <1>1, <1>3, <1>4, Replaced DEF ServiceInv
<1>6. Indexed(transcript', run) /\ Reported(report', run)
  BY <1>1, <1>2, Cleared, FinalizedKeeps DEF ServiceInv
<1>7. Indexed(transcript', run') /\ Reported(report', run')
  BY <1>5, <1>6, OtherDomain DEF Runs
<1>8. position' \in Seq(Nodes) /\ row' \in [position : Seq(Nodes), auto : Autos]
  BY <1>1 DEF Row, ServiceInv
<1> QED
  BY <1>1, <1>5, <1>7, <1>8 DEF ServiceInv

LEMMA CrashStep == ASSUME ServiceInv, Crash PROVE ServiceInv'
<1>1. /\ run' = [r \in Runs |-> [run[r] EXCEPT !.pc = "over"]]
      /\ executors' = [s \in Scenarios |-> 0] /\ transcript' = [s \in Scenarios |-> 0]
      /\ position' = row.position /\ pending' = row.position /\ online' = FALSE
      /\ lastAuto' = IF row.auto \in Seeded THEN "none" ELSE row.auto
      /\ UNCHANGED <<report, row>>
  BY DEF Crash
<1>2. run \in Seq(Run) /\ Runs = 1..Len(run) /\ Len(run) \in Nat
  BY DEF ServiceInv, AllWalked, Runs
<1>3. ASSUME NEW r \in Runs
      PROVE  Walked([run[r] EXCEPT !.pc = "over"])
  <2>1. Walked(run[r]) /\ run[r] \in Run
    BY DEF ServiceInv, AllWalked, Runs, Walked
  <2> QED
    BY <2>1 DEF Walked, Run, Places
<1>4. run' \in Seq(Run) /\ DOMAIN run' = Runs /\ Len(run') = Len(run)
  <2>1. run' \in [1..Len(run) -> Run]
    BY <1>1, <1>2, <1>3 DEF Walked
  <2> QED
    BY <1>2, <2>1
<1>5. AllWalked(run')
  BY <1>1, <1>3, <1>4 DEF AllWalked
<1>6. Registered(run', executors') /\ Indexed(transcript', run')
  BY <1>1 DEF Registered, Indexed
<1>7. Reported(report', run')
  BY <1>1, <1>4, OtherDomain DEF ServiceInv, Runs
<1>8. /\ position' \in Seq(Nodes) /\ pending' \in Seq(Nodes) /\ lastAuto' \in Autos
      /\ row' \in [position : Seq(Nodes), auto : Autos] /\ online' \in BOOLEAN
  BY <1>1 DEF ServiceInv, Autos
<1> QED
  BY <1>5, <1>6, <1>7, <1>8 DEF ServiceInv
-----------------------------------------------------------------------------
(* The invariant and what follows from it.                                 *)

LEMMA ServiceInit == Init => ServiceInv
<1> SUFFICES ASSUME Init PROVE ServiceInv
  OBVIOUS
<1>1. AllWalked(run) /\ Runs = {}
  BY DEF Init, AllWalked, Runs
<1>2. Registered(run, executors) /\ Indexed(transcript, run)
  BY DEF Init, Registered, Indexed
<1>3. Reported(report, run)
  BY DEF Init, Reported
<1>4. /\ position \in Seq(Nodes) /\ pending \in Seq(Nodes)
      /\ row \in [position : Seq(Nodes), auto : Autos]
  BY DEF Init, Autos
<1>5. lastAuto \in Autos /\ online \in BOOLEAN
  BY DEF Init, Autos
<1> QED
  BY <1>1, <1>2, <1>3, <1>4, <1>5 DEF ServiceInv

LEMMA WalkStep ==
  ASSUME ServiceInv, NEW r \in Runs, Walk(r)
  PROVE  ServiceInv'
<1> DEFINE s == run[r].scenario
           kind == IF run[r].at \in DOMAIN Flow[s] THEN Flow[s][run[r].at] ELSE "end"
           x == IF run[r].stopped \/ kind = "end" THEN "leaving"
                ELSE IF kind = "act" THEN "ended" ELSE kind
<1>1. run[r].pc = "walk" /\ Goes(r, x)
      /\ UNCHANGED <<maps, places, lastAuto, online>>
  BY DEF Walk
<1>2. s \in Scenarios /\ Len(Flow[s]) \in Nat /\ DOMAIN Flow[s] = 1..Len(Flow[s])
  <2>1. run[r] \in Run
    BY DEF ServiceInv, AllWalked, Runs
  <2> QED
    BY <2>1, FlowTyped DEF Run
<1>3. run[r].at \in DOMAIN Flow[s] => kind \in {"act", "slow", "wait"}
  BY <1>2, ScenarioAssumption DEF Kinds
<1>4. x \in {"leaving", "ended", "slow", "wait"}
      /\ (x # "leaving" => run[r].at \in DOMAIN Flow[s])
  BY <1>3
<1> HIDE DEF x
<1>5. x \in Places /\ x # "over" /\ (x # "leaving" => run[r].at <= Len(Flow[s]))
  BY <1>2, <1>4 DEF Places, Walking
<1> QED
  BY <1>1, <1>5, GoesKeeps

LEMMA ServiceStep == ServiceInv /\ [Next]_vars => ServiceInv'
<1> SUFFICES ASSUME ServiceInv, [Next]_vars PROVE ServiceInv'
  OBVIOUS
<1>1. ASSUME NEW s \in Scenarios, RunScenario(s)
      PROVE  ServiceInv'
  <2>1. /\ Begin(s, run, executors, transcript, report) /\ position' = Rebased(s)
        /\ UNCHANGED <<row, lastAuto, online>>
    BY <1>1 DEF RunScenario
  <2>2. /\ AllWalked(run') /\ Registered(run', executors')
        /\ Indexed(transcript', run') /\ Reported(report', run')
        /\ position' \in Seq(Nodes) /\ pending' \in Seq(Nodes)
    BY <2>1, BeginKeeps DEF ServiceInv
  <2> QED
    BY <2>1, <2>2 DEF ServiceInv
<1>2. ASSUME GoOnline
      PROVE  ServiceInv'
  <2>1. /\ AutoStarts(OnConnect, run, executors, transcript, lastAuto)
        /\ online' = TRUE /\ UNCHANGED <<row>>
    BY <1>2 DEF GoOnline
  <2>2. /\ AllWalked(run') /\ Registered(run', executors')
        /\ Indexed(transcript', run') /\ Reported(report', run')
        /\ position' \in Seq(Nodes) /\ pending' \in Seq(Nodes)
        /\ lastAuto' \in Autos
    BY <2>1, ScenarioAssumption, AutoKeeps DEF ServiceInv
  <2> QED
    BY <2>1, <2>2 DEF ServiceInv
<1>3. ASSUME GoOffline \/ PersistConnectorRuntime \/ UNCHANGED vars
      PROVE  ServiceInv'
  <2>1. /\ UNCHANGED <<run, maps, position, pending, lastAuto>>
        /\ row' \in {row, Row(position, lastAuto)} /\ online' \in BOOLEAN
    BY <1>3 DEF GoOffline, PersistConnectorRuntime, vars, places, ServiceInv
  <2> QED
    BY <2>1 DEF ServiceInv, maps, Row
<1>4. ASSUME NEW r \in Runs, Progress(r)
      PROVE  ServiceInv'
  BY <1>4, WalkStep, NodeCompleteStep, LeaveStep DEF Progress
<1>5. ASSUME NEW r \in Runs, Returns(r) \/ EventComes(r)
      PROVE  ServiceInv'
  <2>1. Walked(run[r])
    BY DEF ServiceInv, AllWalked, Runs
  <2>2. PICK x \in {"ended", "leaving"} : Goes(r, x)
    BY <1>5 DEF Returns, EventComes
  <2>3. /\ run[r].pc \in {"slow", "wait"}
        /\ UNCHANGED <<maps, places, lastAuto, online>>
    BY <1>5 DEF Returns, EventComes
  <2>4. run[r].at <= Len(Flow[run[r].scenario])
    BY <2>1, <2>3 DEF Walked
  <2> QED
    BY <2>2, <2>3, <2>4, GoesKeeps DEF Places, Walking
<1> QED
  BY <1>1, <1>2, <1>3, <1>4, <1>5, StopStep, ResetStep, UploadStep, CrashStep
  DEF Next

THEOREM ServiceInvariant == Spec => []ServiceInv
  BY ServiceInit, ServiceStep, PTL DEF Spec

(* What the service keeps of its runs is well formed: a resumed run begins *)
(* at a node of its own scenario, or at its end.                           *)
THEOREM ServiceTypeCorrect == Spec => []TypeOK
<1>1. ServiceInv => TypeOK
  BY DEF ServiceInv, AllWalked, Walked, Run, Places, Registered, Indexed, Reported,
         Autos, Row, TypeOK, Runs
<1> QED
  BY <1>1, ServiceInvariant, PTL

(* _executors: whatever is started, stopped, reset or uploaded, a          *)
(* registered run is a run of its scenario that goes on.                   *)
THEOREM RegisteredStaysLive == Spec => []RegisteredRuns
<1>1. ServiceInv => RegisteredRuns
  BY DEF ServiceInv, Registered, RegisteredRuns
<1> QED
  BY <1>1, ServiceInvariant, PTL

-----------------------------------------------------------------------------
(* A resume never runs ahead.                                              *)

(* What is registered does not fit what waits to be resumed; a position    *)
(* that fits a scenario without a run going is the one that waits; and a   *)
(* run that began alone still is, ahead of every position.                 *)
Alone(rs, s, r) == \A o \in DOMAIN rs : rs[o].scenario = s /\ o # r => rs[o].pc = "over"
Own(rs, ex, pend, P) ==
  \A s \in Scenarios :
    /\ ex[s] # 0 => ~Fits(s, pend)
    /\ AllOver(s, rs) => \A p \in P : Fits(s, p) => p = pend
    /\ ex[s] # 0 /\ rs[ex[s]].alone =>
         Alone(rs, s, ex[s]) /\ \A p \in P : Behind(p, rs[ex[s]])

OwnInv == Own(run, executors, pending, {position, row.position})

LEMMA OneFits ==
  ASSUME NEW p \in Seq(Nodes), NEW s \in Scenarios, NEW t \in Scenarios,
         Fits(s, p), Fits(t, p)
  PROVE  s = t
<1>1. 1 \in DOMAIN p
  BY DEF Fits
<1>2. p[1] \in Node(s) /\ p[1] \in Node(t)
  BY <1>1 DEF Fits
<1> QED
  BY <1>2 DEF Node

LEMMA LastFits ==
  ASSUME NEW p \in Seq(Nodes), NEW t \in Scenarios, NEW i \in DOMAIN Flow[t],
         NEW s \in Scenarios, Fits(s, Append(p, <<t, i>>))
  PROVE  s = t /\ After(Append(p, <<t, i>>)) = i + 1
<1> DEFINE c == Append(p, <<t, i>>)
<1>1. <<t, i>> \in Nodes
  BY NodesOf
<1>2. Len(p) \in Nat /\ DOMAIN c = 1..(Len(p) + 1) /\ Len(c) = Len(p) + 1
      /\ c[Len(p) + 1] = <<t, i>>
  BY <1>1, SeqFacts
<1> HIDE DEF c
<1>3. <<t, i>> \in Node(s)
  BY <1>2 DEF Fits, c
<1>4. s = t
  BY <1>3 DEF Node
<1>5. After(c) = i + 1
  BY <1>2 DEF After
<1> QED
  BY <1>4, <1>5 DEF c

(* Positions that go, or become empty, disturb nothing.                    *)
LEMMA OwnLess ==
  ASSUME NEW rs, NEW ex, NEW pend, NEW P, Own(rs, ex, pend, P),
         NEW Q, \A q \in Q : q \in P \/ q = <<>>
  PROVE  Own(rs, ex, pend, Q)
<1>1. \A s : ~Fits(s, <<>>)
  BY DEF Fits
<1> QED
  BY <1>1 DEF Own, Behind

(* Nor does a run that moves on at its node, or is stopped.                *)
Alike(rs, rt) ==
  /\ DOMAIN rs = DOMAIN rt
  /\ \A r \in DOMAIN rt :
       /\ rs[r].scenario = rt[r].scenario /\ rs[r].at = rt[r].at
       /\ rs[r].alone = rt[r].alone /\ (rs[r].pc = "over" <=> rt[r].pc = "over")

LEMMA OwnAlike ==
  ASSUME NEW rt, NEW ex, NEW pend, NEW P, Own(rt, ex, pend, P), Registered(rt, ex),
         NEW rs, Alike(rs, rt), NEW ey, \A s \in Scenarios : ey[s] \in {0, ex[s]}
  PROVE  Own(rs, ey, pend, P)
<1> SUFFICES ASSUME NEW s \in Scenarios
             PROVE  /\ ey[s] # 0 => ~Fits(s, pend)
                    /\ AllOver(s, rs) => \A p \in P : Fits(s, p) => p = pend
                    /\ ey[s] # 0 /\ rs[ey[s]].alone =>
                         Alone(rs, s, ey[s]) /\ \A p \in P : Behind(p, rs[ey[s]])
  BY DEF Own
<1>1. ey[s] # 0 => ~Fits(s, pend)
  BY DEF Own
<1>2. AllOver(s, rs) => AllOver(s, rt)
  BY DEF Alike, AllOver
<1>3. ASSUME ey[s] # 0, rs[ey[s]].alone
      PROVE  Alone(rs, s, ey[s]) /\ \A p \in P : Behind(p, rs[ey[s]])
  <2>1. ey[s] = ex[s] /\ ex[s] \in DOMAIN rt
    BY <1>3 DEF Registered, Indexed
  <2>2. Alone(rt, s, ex[s]) /\ \A p \in P : Behind(p, rt[ex[s]])
    BY <1>3, <2>1 DEF Own, Alike
  <2> QED
    BY <2>1, <2>2 DEF Alike, Alone, Behind
<1> QED
  BY <1>1, <1>2, <1>3 DEF Own

LEMMA BeginOwns ==
  ASSUME NEW rs, NEW ex, NEW tr, NEW rep, NEW s \in Scenarios, NEW P \in SUBSET Seq(Nodes),
         AllWalked(rs), Registered(rs, ex), pending \in Seq(Nodes), position \in P,
         Own(rs, ex, pending, P), Begin(s, rs, ex, tr, rep)
  PROVE  Own(run', executors', pending', P \cup {Rebased(s)})
<1> DEFINE n == Len(rs) + 1
           at == IF Fits(s, pending) THEN After(pending) ELSE 1
           q == [scenario |-> s, pc |-> "walk", stopped |-> FALSE, at |-> at,
                 alone |-> AllOver(s, rs)]
<1>1. /\ run' = Append(rs, q) /\ executors' = [ex EXCEPT ![s] = n]
      /\ pending' = IF Fits(s, pending) THEN <<>> ELSE pending
  BY DEF Begin
<1>2. /\ rs \in Seq(Run) /\ n \in Nat \ {0} /\ DOMAIN rs = 1..(n - 1)
      /\ run'[n] = q /\ DOMAIN run' = 1..n /\ \A i \in DOMAIN rs : run'[i] = rs[i]
  <2>1. q \in Run
    <3>1. AllOver(s, rs) \in BOOLEAN
      BY DEF AllOver
    <3> QED
      BY <3>1, FirstNode DEF Walked
  <2> HIDE DEF q
  <2> QED
    BY <1>1, <2>1, SeqFacts DEF AllWalked
<1>3. /\ executors'[s] = n
      /\ \A t \in Scenarios \ {s} : executors'[t] = ex[t] /\ ex[t] \in DOMAIN rs \cup {0}
  BY <1>1 DEF Registered, Indexed
<1>4. /\ q.scenario = s /\ q.pc = "walk" /\ q.at = at /\ q.alone = AllOver(s, rs)
  OBVIOUS
<1> HIDE DEF q
<1>5. ASSUME NEW p \in P \cup {Rebased(s)}
      PROVE  p \in P \/ (p = pending /\ Fits(s, pending))
  BY DEF Rebased
<1>6. ASSUME NEW t \in Scenarios
      PROVE  executors'[t] # 0 => ~Fits(t, pending')
  <2>1. ~Fits(t, <<>>)
    BY DEF Fits
  <2> QED
    BY <1>1, <1>3, <2>1 DEF Own
<1>7. ASSUME NEW t \in Scenarios, AllOver(t, run'),
             NEW p \in P \cup {Rebased(s)}, Fits(t, p)
      PROVE  p = pending'
  <2>1. t # s
    BY <1>2, <1>4, <1>7 DEF AllOver
  <2>2. AllOver(t, rs)
    BY <1>2, <1>7 DEF AllOver
  <2>3. p = pending
    BY <1>5, <1>7, <2>2 DEF Own
  <2>4. ~Fits(s, pending)
    BY <1>7, <2>1, <2>3, OneFits
  <2> QED
    BY <1>1, <2>3, <2>4
<1>8. ASSUME NEW t \in Scenarios \ {s}, executors'[t] # 0, run'[executors'[t]].alone
      PROVE  /\ Alone(run', t, executors'[t])
             /\ \A p \in P \cup {Rebased(s)} : Behind(p, run'[executors'[t]])
  <2>1. /\ executors'[t] = ex[t] /\ ex[t] \in DOMAIN rs
        /\ run'[ex[t]] = rs[ex[t]] /\ rs[ex[t]].scenario = t
    BY <1>2, <1>3, <1>8 DEF Registered
  <2>2. Alone(rs, t, ex[t]) /\ \A p \in P : Behind(p, rs[ex[t]])
    BY <1>8, <2>1 DEF Own
  <2>3. Alone(run', t, ex[t])
    BY <1>2, <1>4, <2>2 DEF Alone
  <2>4. Fits(s, pending) => ~Fits(t, pending)
    BY OneFits
  <2>5. ASSUME NEW p \in P \cup {Rebased(s)}
        PROVE  Behind(p, rs[ex[t]])
    BY <1>5, <2>1, <2>2, <2>4, <2>5 DEF Behind
  <2> QED
    BY <2>1, <2>3, <2>5
<1>9. ASSUME q.alone
      PROVE  /\ Alone(run', s, n)
             /\ \A p \in P \cup {Rebased(s)} : Behind(p, q)
  <2>1. AllOver(s, rs)
    BY <1>4, <1>9
  <2>2. Alone(run', s, n)
    BY <1>2, <2>1 DEF Alone, AllOver
  <2>3. ASSUME NEW p \in P \cup {Rebased(s)}, Fits(s, p)
        PROVE  After(p) <= at
    <3>1. p = pending
      BY <1>5, <2>1, <2>3 DEF Own
    <3>2. at = After(pending)
      BY <2>3, <3>1
    <3>3. at \in Nat
      BY FirstNode DEF Walked, Run
    <3> QED
      BY <3>1, <3>2, <3>3
  <2> QED
    BY <1>4, <2>2, <2>3 DEF Behind
<1> QED
  BY <1>2, <1>3, <1>6, <1>7, <1>8, <1>9 DEF Own

LEMMA AutoOwns ==
  ASSUME NEW S \in SUBSET Scenarios, NEW rs, NEW ex, NEW tr, NEW last,
         AllWalked(rs), Registered(rs, ex), ServiceInv, UNCHANGED row,
         Own(rs, ex, pending, {position, row.position}),
         AutoStarts(S, rs, ex, tr, last)
  PROVE  OwnInv'
<1> DEFINE P == {position, row.position}
<1>1. P \in SUBSET Seq(Nodes) /\ position \in P /\ pending \in Seq(Nodes)
  BY DEF ServiceInv
<1>2. CASE \E s \in S : Begin(s, rs, ex, tr, report) /\ position' = Rebased(s)
  <2>1. PICK s \in S : Begin(s, rs, ex, tr, report) /\ position' = Rebased(s)
    BY <1>2
  <2>2. Own(run', executors', pending', P \cup {Rebased(s)})
    BY <1>1, <2>1, BeginOwns
  <2>3. \A p \in {position', row'.position} : p \in P \cup {Rebased(s)}
    BY <2>1
  <2>4. Own(run', executors', pending', {position', row'.position})
    BY <2>2, <2>3, OwnLess
  <2> QED
    BY <2>4 DEF OwnInv
<1>3. CASE run' = rs /\ executors' = ex /\ UNCHANGED <<position, pending>>
  <2>1. Own(run', executors', pending', {position', row'.position})
    BY <1>3
  <2> QED
    BY <2>1 DEF OwnInv
<1> QED
  BY <1>2, <1>3 DEF AutoStarts

LEMMA HaltedAlike ==
  ASSUME ServiceInv, NEW r \in Runs
  PROVE  Alike(Halted(r), run)
<1>1. run[r] \in Run /\ run \in Seq(Run)
  BY DEF ServiceInv, AllWalked, Runs
<1> QED
  BY <1>1 DEF Alike, Halted, Run, Runs

LEMMA OwnReset ==
  ASSUME ServiceInv, OwnInv, NEW s \in Scenarios, ResetScenario(s)
  PROVE  OwnInv'
<1> DEFINE r  == executors[s]
           rs == IF r = 0 THEN run ELSE Halted(r)
           ex == [executors EXCEPT ![s] = 0]
           tr == IF r = 0 THEN transcript ELSE [transcript EXCEPT ![s] = 0]
           rep == IF r = 0 THEN report ELSE Finalized(r, s)
           P  == {position, row.position}
<1>1. /\ row' = Row(position, lastAuto) /\ position' = <<>>
      /\ \/ \E t \in Scenarios : Begin(t, rs, ex, tr, rep)
         \/ run' = rs /\ executors' = ex /\ UNCHANGED pending
  BY ScenarioAssumption DEF ResetScenario
<1>2. AllWalked(rs) /\ Registered(rs, ex)
  BY ResetLeaves
<1>3. Own(rs, ex, pending, P)
  <2>1. Alike(rs, run)
    <3>1. CASE r = 0
      BY <3>1 DEF Alike
    <3>2. CASE r # 0
      BY <3>2, HaltedAlike, HaltedKeeps
    <3> QED
      BY <3>1, <3>2
  <2>2. \A t \in Scenarios : ex[t] \in {0, executors[t]}
    BY DEF ServiceInv, Registered, Indexed
  <2>3. Own(run, executors, pending, P) /\ Registered(run, executors)
    BY DEF OwnInv, ServiceInv
  <2> HIDE DEF r, rs, ex, tr, rep, P
  <2> QED
    BY <2>1, <2>2, <2>3, OwnAlike
<1> HIDE DEF r, rs, ex, tr, rep
<1>4. \A q \in {position', row'.position} : q \in P \/ q = <<>>
  BY <1>1 DEF Row
<1>5. CASE \E t \in Scenarios : Begin(t, rs, ex, tr, rep)
  <2>1. PICK t \in Scenarios : Begin(t, rs, ex, tr, rep)
    BY <1>5
  <2>2. P \in SUBSET Seq(Nodes) /\ position \in P /\ pending \in Seq(Nodes)
    BY DEF ServiceInv
  <2>3. Own(run', executors', pending', P \cup {Rebased(t)})
    BY <1>2, <1>3, <2>1, <2>2, BeginOwns
  <2>4. Own(run', executors', pending', {position', row'.position})
    BY <1>4, <2>3, OwnLess
  <2> QED
    BY <2>4 DEF OwnInv
<1>6. CASE run' = rs /\ executors' = ex /\ UNCHANGED pending
  <2>1. Own(run', executors', pending', {position', row'.position})
    BY <1>3, <1>4, <1>6, OwnLess
  <2> QED
    BY <2>1 DEF OwnInv
<1> QED
  BY <1>1, <1>5, <1>6

LEMMA OwnUpload == ASSUME ServiceInv, OwnInv, Upload PROVE OwnInv'
<1> DEFINE live == {executors[s] : s \in Scenarios}
           rs == [r \in Runs |-> IF r \in live THEN Halted(r)[r] ELSE run[r]]
           ex == [s \in Scenarios |-> 0]
           tr == [s \in Scenarios |-> IF executors[s] = 0 THEN transcript[s] ELSE 0]
           S  == IF online THEN OnConnect ELSE {}
<1>1. AutoStarts(S, rs, ex, tr, "none") /\ UNCHANGED row
  BY DEF Upload
<1>2. AllWalked(rs) /\ Registered(rs, ex)
  BY UploadDiscards
<1>3. Alike(rs, run)
  <2>1. \A r \in Runs : Alike(Halted(r), run)
    BY HaltedAlike
  <2> QED
    BY <2>1 DEF Alike, Runs
<1>4. Own(rs, ex, pending, {position, row.position})
  <2>1. \A t \in Scenarios : ex[t] \in {0, executors[t]}
    OBVIOUS
  <2>2. Own(run, executors, pending, {position, row.position})
        /\ Registered(run, executors)
    BY DEF OwnInv, ServiceInv
  <2> HIDE DEF rs, ex
  <2> QED
    BY <1>3, <2>1, <2>2, OwnAlike
<1>5. S \in SUBSET Scenarios
  BY ScenarioAssumption
<1> HIDE DEF rs, ex, tr, S
<1> QED
  BY <1>1, <1>2, <1>4, <1>5, AutoOwns

(* A node is completed: its run is past it when the position has it.       *)
LEMMA OwnNode ==
  ASSUME ServiceInv, OwnInv, NEW r \in Runs, NodeComplete(r)
  PROVE  OwnInv'
<1> DEFINE t == run[r].scenario
           i == run[r].at
           c == Append(position, <<t, i>>)
<1>1. /\ run[r].pc = "ended" /\ position' = c /\ row'.position = c
      /\ UNCHANGED <<executors, pending>>
  BY DEF NodeComplete, maps, Row
<1>2. /\ run[r] \in Run /\ run \in Seq(Run) /\ t \in Scenarios /\ i \in Nat
      /\ i \in DOMAIN Flow[t]
  <2>1. run[r] \in Run /\ run \in Seq(Run) /\ Walked(run[r])
    BY DEF ServiceInv, AllWalked, Runs
  <2>2. t \in Scenarios /\ i \in Nat \ {0} /\ i <= Len(Flow[t])
    BY <1>1, <2>1 DEF Walked, Run
  <2> QED
    BY <2>1, <2>2, FlowTyped
<1>3. /\ DOMAIN run' = Runs /\ run'[r].scenario = t /\ run'[r].at = i + 1
      /\ run'[r].alone = run[r].alone /\ run'[r].pc = "walk"
      /\ \A o \in Runs \ {r} : run'[o] = run[o]
  BY <1>2 DEF NodeComplete, Runs, Run
<1>4. \A s \in Scenarios : Fits(s, c) => s = t /\ After(c) = i + 1
  BY <1>2, LastFits DEF ServiceInv
<1> HIDE DEF t, i, c
<1>5. ASSUME NEW s \in Scenarios
      PROVE  executors'[s] # 0 => ~Fits(s, pending')
  BY <1>1 DEF OwnInv, Own
<1>6. ASSUME NEW s \in Scenarios, AllOver(s, run')
      PROVE  ~Fits(s, c)
  BY <1>3, <1>4, <1>6 DEF AllOver
<1>7. ASSUME NEW s \in Scenarios, executors'[s] # 0, run'[executors'[s]].alone
      PROVE  Alone(run', s, executors'[s]) /\ Behind(c, run'[executors'[s]])
  <2>1. executors'[s] = executors[s] /\ executors[s] \in Runs /\ executors[s] # 0
        /\ run[executors[s]].scenario = s
    BY <1>1, <1>7 DEF ServiceInv, Registered, Indexed, Runs
  <2>2. Alone(run, s, executors[s])
    BY <1>3, <1>7, <2>1 DEF OwnInv, Own
  <2>3. Alone(run', s, executors[s])
    BY <1>1, <1>3, <2>2 DEF Alone, Runs, t
  <2>4. s = t => executors[s] = r
    BY <1>1, <2>2 DEF Alone, Runs, t
  <2>5. run'[executors[s]].scenario = s
    BY <1>3, <2>1 DEF t
  <2>6. Behind(c, run'[executors[s]])
    BY <1>2, <1>3, <1>4, <2>4, <2>5 DEF Behind
  <2> QED
    BY <2>1, <2>3, <2>6
<1>8. Own(run', executors', pending', {c})
  BY <1>5, <1>6, <1>7 DEF Own
<1>9. {position', row'.position} = {c}
  BY <1>1
<1> QED
  BY <1>8, <1>9 DEF OwnInv

(* A run ends: no position is left.                                        *)
LEMMA OwnLeave ==
  ASSUME ServiceInv, OwnInv, NEW r \in Runs, Leave(r)
  PROVE  OwnInv'
<1> DEFINE t == run[r].scenario
<1>1. /\ position' = <<>> /\ row'.position = <<>> /\ UNCHANGED pending
      /\ executors' = [executors EXCEPT ![t] = 0]
      /\ run' = [run EXCEPT ![r].pc = "over"]
  BY DEF Leave, Row, Unregistered, Goes
<1>2. run[r] \in Run /\ run \in Seq(Run)
  BY DEF ServiceInv, AllWalked, Runs
<1>3. /\ DOMAIN run' = Runs /\ run'[r].pc = "over"
      /\ run'[r].alone = run[r].alone /\ run'[r].scenario = t
      /\ \A o \in Runs \ {r} : run'[o] = run[o]
  BY <1>1, <1>2 DEF Runs, Run
<1>4. \A s \in Scenarios : executors'[s] # 0 => executors'[s] = executors[s]
  BY <1>1 DEF ServiceInv, Registered, Indexed
<1> HIDE DEF t
<1>5. \A s : ~Fits(s, <<>>)
  BY DEF Fits
<1>6. ASSUME NEW s \in Scenarios, executors'[s] # 0
      PROVE  /\ ~Fits(s, pending')
             /\ run'[executors'[s]].alone => Alone(run', s, executors'[s])
  <2>1. executors[s] \in Runs /\ executors'[s] = executors[s] /\ executors[s] # 0
    BY <1>4, <1>6 DEF ServiceInv, Registered, Indexed, Runs
  <2>2. run[executors[s]].alone => Alone(run, s, executors[s])
    BY <2>1 DEF OwnInv, Own
  <2> QED
    BY <1>1, <1>3, <2>1, <2>2 DEF OwnInv, Own, Alone, Runs, t
<1>7. Own(run', executors', pending', {<<>>})
  BY <1>5, <1>6 DEF Own, Behind
<1>8. {position', row'.position} = {<<>>}
  BY <1>1
<1> QED
  BY <1>7, <1>8 DEF OwnInv

(* The position is what the row had, and so is what waits.                 *)
LEMMA OwnCrash == ASSUME ServiceInv, OwnInv, Crash PROVE OwnInv'
<1>1. /\ executors' = [s \in Scenarios |-> 0] /\ position' = row.position
      /\ pending' = row.position /\ row' = row
  BY DEF Crash
<1>2. Own(run', executors', pending', {position', row'.position})
  BY <1>1 DEF Own
<1> QED
  BY <1>2 DEF OwnInv

(* A run that goes on at its node, a stop and a write of the row.          *)
LEMMA OwnGoes ==
  ASSUME ServiceInv, OwnInv, NEW r \in Runs, NEW x \in Places \ {"over"},
         run[r].pc # "over", Goes(r, x), UNCHANGED <<maps, places>>
  PROVE  OwnInv'
<1>1. run[r] \in Run /\ run \in Seq(Run)
  BY DEF ServiceInv, AllWalked, Runs
<1>2. Alike(run', run)
  BY <1>1 DEF Alike, Goes, Run, Runs
<1>3. /\ Own(run, executors, pending, {position, row.position})
      /\ Registered(run, executors)
      /\ \A s \in Scenarios : executors[s] \in {0, executors[s]}
  BY DEF OwnInv, ServiceInv
<1>4. Own(run', executors, pending, {position, row.position})
  BY <1>2, <1>3, OwnAlike
<1> QED
  BY <1>4 DEF OwnInv, maps, places

LEMMA OwnStop ==
  ASSUME ServiceInv, OwnInv, NEW s \in Scenarios, StopScenario(s)
  PROVE  OwnInv'
<1>1. /\ executors[s] # 0 /\ run' = Halted(executors[s])
      /\ executors' = [executors EXCEPT ![s] = 0] /\ UNCHANGED places
  BY DEF StopScenario
<1>2. Alike(run', run)
  BY <1>1, HaltedAlike, HaltedKeeps
<1>3. /\ Own(run, executors, pending, {position, row.position})
      /\ Registered(run, executors)
      /\ \A t \in Scenarios : executors'[t] \in {0, executors[t]}
  BY <1>1 DEF OwnInv, ServiceInv, Registered, Indexed
<1>4. Own(run', executors', pending, {position, row.position})
  BY <1>2, <1>3, OwnAlike
<1> QED
  BY <1>1, <1>4 DEF OwnInv, places

LEMMA OwnStep ==
  ASSUME ServiceInv, OwnInv, [Next]_vars
  PROVE  OwnInv'
<1>1. ASSUME NEW s \in Scenarios, RunScenario(s)
      PROVE  OwnInv'
  <2>1. /\ Begin(s, run, executors, transcript, report)
        /\ position' = Rebased(s) /\ UNCHANGED row
    BY <1>1 DEF RunScenario
  <2>2. /\ {position, row.position} \in SUBSET Seq(Nodes) /\ pending \in Seq(Nodes)
        /\ AllWalked(run) /\ Registered(run, executors)
        /\ Own(run, executors, pending, {position, row.position})
    BY DEF ServiceInv, OwnInv
  <2>3. Own(run', executors', pending', {position, row.position} \cup {Rebased(s)})
    BY <2>1, <2>2, BeginOwns
  <2>4. \A p \in {position', row'.position} :
          p \in {position, row.position} \cup {Rebased(s)}
    BY <2>1
  <2>5. Own(run', executors', pending', {position', row'.position})
    BY <2>3, <2>4, OwnLess
  <2> QED
    BY <2>5 DEF OwnInv
<1>2. CASE GoOnline
  BY <1>2, AutoOwns, ScenarioAssumption DEF GoOnline, OwnInv, ServiceInv
<1>3. CASE PersistConnectorRuntime
  <2>1. /\ UNCHANGED <<run, executors, pending, position>> /\ row'.position = position
    BY <1>3 DEF PersistConnectorRuntime, Row, maps
  <2>2. Own(run, executors, pending, {position', row'.position})
    BY <2>1, OwnLess DEF OwnInv
  <2> QED
    BY <2>1, <2>2 DEF OwnInv
<1>4. CASE GoOffline \/ UNCHANGED vars
  BY <1>4 DEF GoOffline, vars, maps, places, OwnInv
<1>5. ASSUME NEW r \in Runs, Walk(r)
      PROVE  OwnInv'
  <2>1. PICK x \in Places \ {"over"} : Goes(r, x)
    <3>1. run[r] \in Run
      BY DEF ServiceInv, AllWalked, Runs
    <3>2. /\ run[r].scenario \in Scenarios
          /\ DOMAIN Flow[run[r].scenario] = 1..Len(Flow[run[r].scenario])
          /\ Flow[run[r].scenario] \in Seq(Kinds)
      BY <3>1, ScenarioAssumption DEF Run
    <3> QED
      BY <1>5, <3>2 DEF Walk, Places, Walking, Kinds
  <2>2. run[r].pc # "over" /\ UNCHANGED <<maps, places>>
    BY <1>5 DEF Walk
  <2> QED
    BY <2>1, <2>2, OwnGoes
<1>6. ASSUME NEW r \in Runs, Returns(r) \/ EventComes(r)
      PROVE  OwnInv'
  <2>1. PICK x \in Places \ {"over"} : Goes(r, x)
    BY <1>6 DEF Returns, EventComes, Places, Walking
  <2>2. run[r].pc # "over" /\ UNCHANGED <<maps, places>>
    BY <1>6 DEF Returns, EventComes
  <2> QED
    BY <2>1, <2>2, OwnGoes
<1> QED
  BY <1>1, <1>2, <1>3, <1>4, <1>5, <1>6, OwnStop, OwnReset, OwnUpload, OwnNode,
     OwnLeave, OwnCrash DEF Next, Progress

(* A resume never runs ahead of the run it takes the place of: whatever    *)
(* node the daemon would go on from after a crash at this moment, the      *)
(* registered run has come to it, unless a stopped run of its scenario was *)
(* still going when it began.                                              *)
THEOREM ResumeNeverAhead == Spec => []NeverAhead
<1>1. Init => OwnInv
  BY DEF Init, OwnInv, Own, Fits, Row
<1>2. ServiceInv /\ OwnInv /\ [Next]_vars => OwnInv'
  BY OwnStep
<1>3. ServiceInv /\ OwnInv => NeverAhead
  BY DEF OwnInv, Own, NeverAhead
<1> QED
  BY <1>1, <1>2, <1>3, ServiceInvariant, PTL DEF Spec
=============================================================================
