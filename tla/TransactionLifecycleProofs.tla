---------------------- MODULE TransactionLifecycleProofs ----------------------
(***************************************************************************)
(* Proofs about TransactionLifecycle, for any connectors, tags and bounds. *)
(*                                                                         *)
(* What makes the invariants inductive is whom a CALL and a transaction    *)
(* belong to.  A transaction bears the number under which "starts" knows   *)
(* its connector (Known), so two connectors never share one, and a number  *)
(* still borne was not stopped (Bears); a CALL names the connector it was  *)
(* issued for (Addressed), so its answer gives that connector an id of its *)
(* own.  A disconnection drops the reservations but leaves the status of a *)
(* connector with a transaction alone: that one is not Reserved.           *)
(***************************************************************************)
EXTENDS TransactionLifecycle, TLAPS

Known(c, n, E) == n \in 1..Len(E) /\ E[n] = c

Addressed(call, E) ==
  /\ call \in Calls
  /\ call.kind = "start" => Known(call.connector, call.no, E)
  /\ call.kind # "authorize" => call.connector \in Connectors

Bears(c, t, E, S) ==
  /\ t \in Tx
  /\ t.no = 0 => t = NoTx
  /\ t.no # 0 => Known(c, t.no, E) /\ t.no \notin S
  /\ t.id # 0 => Known(c, t.id, E)

Numbered ==
  /\ \A call \in awaiting \cup stored : Addressed(call, starts)
  /\ \A c \in Connectors : Bears(c, tx[c], starts, stopped)
  /\ stopped \subseteq 1..Len(starts)
  /\ StopOnce

Unreserved == \A c \in Connectors : Busy(c) => status[c] # "Reserved"

LifecycleInv ==
  /\ TypeOK /\ Numbered
  /\ WatchdogMatches /\ ReservedIsHeld /\ ActiveIsShown /\ Unreserved

Shown == WatchdogMatches /\ ReservedIsHeld /\ ActiveIsShown /\ Unreserved
-----------------------------------------------------------------------------
(* What the operators do that several operations share.                    *)
LEMMA Issued ==
  ASSUME NEW calls, Issue(calls),
         \A call \in awaiting \cup stored \cup calls : Addressed(call, starts')
  PROVE  \A call \in awaiting' \cup stored' : Addressed(call, starts')
BY DEF Issue, callVars

LEMMA AddressedIsCall ==
  (\A call \in awaiting' \cup stored' : Addressed(call, starts'))
    => awaiting' \subseteq Calls /\ stored' \subseteq Calls
BY DEF Addressed

LEMMA ShowEffect ==
  ASSUME TypeOK, NEW S \in SUBSET Connectors, NEW now,
         \A c \in S : now[c] \in Statuses,
         Show(S, now)
  PROVE  /\ status' \in [Connectors -> Statuses]
         /\ timers' \subseteq Connectors
         /\ \A c \in Connectors :
              /\ status'[c] = IF c \in S THEN now[c] ELSE status[c]
              /\ c \in timers' <=> IF c \in S THEN now[c] = "Preparing"
                                              ELSE c \in timers
BY DEF TypeOK, Show, Armed

(* The watchdog keeps matching through every change of a status.           *)
LEMMA ShowKeepsWatch ==
  ASSUME TypeOK, WatchdogMatches, NEW S \in SUBSET Connectors, NEW now,
         \A c \in S : now[c] \in Statuses,
         Show(S, now), booted' => booted \/ S = Connectors
  PROVE  WatchdogMatches'
BY ShowEffect DEF WatchdogMatches

LEMMA ShowOneEffect ==
  ASSUME TypeOK, NEW c \in Connectors, NEW s \in Statuses, ShowOne(c, s)
  PROVE  /\ status' \in [Connectors -> Statuses]
         /\ timers' \subseteq Connectors
         /\ status'[c] = s
         /\ \A d \in Connectors : d # c => status'[d] = status[d]
         /\ WatchdogMatches /\ booted' = booted => WatchdogMatches'
<1> DEFINE now == [d \in {c} |-> s]
<1>1. {c} \in SUBSET Connectors /\ \A d \in {c} : now[d] \in Statuses /\ now[d] = s
  OBVIOUS
<1>2. Show({c}, now)
  BY DEF ShowOne
<1> HIDE DEF now
<1>3. /\ status' \in [Connectors -> Statuses] /\ timers' \subseteq Connectors
      /\ \A d \in Connectors :
           status'[d] = IF d \in {c} THEN now[d] ELSE status[d]
  BY <1>1, <1>2, ShowEffect
<1>4. WatchdogMatches /\ booted' = booted => WatchdogMatches'
  BY <1>1, <1>2, ShowKeepsWatch
<1> QED
  BY <1>1, <1>3, <1>4

LEMMA BusyHasNumber ==
  ASSUME Numbered, TypeOK
  PROVE  /\ \A c \in Connectors : Busy(c) <=> tx[c].no # 0
         /\ \A c \in Connectors : tx[c].open \/ tx[c].id # 0 => Busy(c)
BY DEF Numbered, Bears, Busy, NoTx, TypeOK, Tx

(* Nothing of what is numbered changes.                                    *)
LEMMA NumberedKept ==
  ASSUME Numbered, awaiting' \cup stored' \subseteq awaiting \cup stored,
         UNCHANGED <<tx, historyVars>>
  PROVE  Numbered'
BY DEF Numbered, historyVars, StopOnce

LEMMA NoTxBears ==
  ASSUME NEW c, NEW E, NEW S PROVE Bears(c, NoTx, E, S)
BY DEF Bears, NoTx, Tx

(* The transactions of S end.                                              *)
LEMMA StoppingEffect ==
  ASSUME TypeOK, Numbered, NEW S \in SUBSET Connectors, \A c \in S : Busy(c),
         Stopping(S), starts' = starts
  PROVE  /\ tx' \in [Connectors -> Tx]
         /\ \A c \in Connectors : tx'[c] = IF c \in S THEN NoTx ELSE tx[c]
         /\ availability' \in [Connectors -> {"Operative", "Inoperative"}]
         /\ scheduled' \in [Connectors -> {"none", "Operative", "Inoperative"}]
         /\ \A c \in Connectors : Bears(c, tx'[c], starts', stopped')
         /\ stopped' \subseteq 1..Len(starts') /\ StopOnce'
         /\ \A c \in S : Addressed(StopCall(c, tx[c].no), starts')
<1> DEFINE ended == {tx[c].no : c \in S}
<1>1. /\ tx' = Cleared(S) /\ stopped' = stopped \cup ended
      /\ restopped' = restopped \cup (ended \cap stopped)
  BY DEF Stopping
<1>2. \A c \in Connectors : tx'[c] = IF c \in S THEN NoTx ELSE tx[c]
  BY <1>1 DEF Cleared
<1>3. tx' \in [Connectors -> Tx]
  BY <1>1 DEF Cleared, TypeOK, NoTx, Tx
<1>4. \A c \in S : tx[c].no # 0 /\ Known(c, tx[c].no, starts) /\ tx[c].no \notin stopped
  BY BusyHasNumber DEF Numbered, Bears
<1>5. \A c \in Connectors : Bears(c, tx'[c], starts', stopped')
  <2> SUFFICES ASSUME NEW c \in Connectors PROVE Bears(c, tx'[c], starts', stopped')
    OBVIOUS
  <2>1. CASE c \in S
    BY <2>1, <1>2, NoTxBears
  <2>2. CASE c \notin S
    <3>1. tx'[c] = tx[c] /\ Bears(c, tx[c], starts, stopped)
      BY <2>2, <1>2 DEF Numbered
    <3>2. tx[c].no # 0 => tx[c].no \notin ended
      BY <3>1, <2>2, <1>4 DEF Known, Bears
    <3> QED
      BY <3>1, <3>2, <1>1 DEF Bears
  <2> QED
    BY <2>1, <2>2
<1>6. stopped' \subseteq 1..Len(starts') /\ StopOnce'
  BY <1>1, <1>4 DEF Numbered, StopOnce, Known
<1>7. \A c \in S : Addressed(StopCall(c, tx[c].no), starts')
  BY DEF Addressed, StopCall, Calls, TypeOK, Tx
<1>8. /\ availability' \in [Connectors -> {"Operative", "Inoperative"}]
      /\ scheduled' \in [Connectors -> {"none", "Operative", "Inoperative"}]
  BY DEF Stopping, Deferred, TypeOK
<1> QED
  BY <1>2, <1>3, <1>5, <1>6, <1>7, <1>8

LEMMA AfterStopShown ==
  ASSUME TypeOK, NEW c \in Connectors
  PROVE  AfterStop(c) \in Statuses /\ AfterStop(c) \notin {"Reserved", "Preparing"}
BY DEF TypeOK, AfterStop, Deferred, ShownAs, Statuses
-----------------------------------------------------------------------------
(* A transaction begins where none is open.                                *)
LEMMA Begins ==
  ASSUME LifecycleInv, NEW c \in Connectors, NEW before,
         \A call \in before : Addressed(call, starts'),
         BeginTransaction(c, before), waiting' \in Seq(Waiter)
  PROVE  LifecycleInv'
<1> DEFINE n == Len(starts) + 1
           S == Returned \cup {c}
           now == [d \in S |-> IF d = c THEN "Preparing" ELSE "Available"]
<1> USE DEF LifecycleInv
<1>1. /\ starts \in Seq(Connectors) /\ Len(starts) \in Nat /\ n \in Nat /\ n # 0
      /\ starts' = Append(starts, c) /\ Len(starts') = n
      /\ \A i \in 1..Len(starts) : starts'[i] = starts[i]
      /\ starts'[n] = c /\ starts' \in Seq(Connectors)
  BY DEF TypeOK, BeginTransaction
<1>2. \A d, i : Known(d, i, starts) => Known(d, i, starts')
  BY <1>1 DEF Known
<1>3. Known(c, n, starts')
  BY <1>1 DEF Known
<1>4. Show(S, now) /\ Issue(before \cup {StartCall(c, n)})
  BY DEF BeginTransaction
<1>5. S \in SUBSET Connectors /\ \A d \in S : now[d] \in Statuses
  BY DEF Returned, Lapsed, Statuses
<1>6. /\ c \in S /\ now[c] = "Preparing"
      /\ \A d \in S : d # c => now[d] = "Available" /\ status[d] = "Reserved"
      /\ \A d \in Connectors : d \notin S /\ status[d] = "Reserved" => Live(d) # "none"
  BY DEF Returned, Lapsed, Live, ReservedIsHeld
<1> HIDE DEF n, S, now
<1>7. /\ status' \in [Connectors -> Statuses]
      /\ timers' \subseteq Connectors
      /\ \A d \in Connectors : status'[d] = IF d \in S THEN now[d] ELSE status[d]
  BY <1>4, <1>5, ShowEffect
<1>8. WatchdogMatches'
  <2>1. booted' = booted
    BY DEF BeginTransaction, linkVars
  <2> QED
    BY <2>1, <1>4, <1>5, ShowKeepsWatch
<1>9. /\ tx' \in [Connectors -> Tx]
      /\ tx'[c] \in Tx /\ tx'[c].no = n /\ tx'[c].id = 0 /\ tx'[c].open
      /\ \A d \in Connectors : d # c => tx'[d] = tx[d]
  BY <1>1 DEF BeginTransaction, TypeOK, Tx, n
<1>10. \A call \in awaiting' \cup stored' : Addressed(call, starts')
  <2>1. \A call \in awaiting \cup stored : Addressed(call, starts')
    BY <1>2 DEF Numbered, Addressed
  <2>2. Addressed(StartCall(c, n), starts')
    BY <1>1, <1>3 DEF Addressed, StartCall, Calls
  <2> QED
    BY <2>1, <2>2, <1>4, Issued
<1>11. \A d \in Connectors : Bears(d, tx'[d], starts', stopped')
  <2>1. stopped' = stopped /\ stopped \subseteq 1..Len(starts)
    BY DEF BeginTransaction, Numbered
  <2>2. Bears(c, tx'[c], starts', stopped')
    BY <2>1, <1>1, <1>3, <1>9 DEF Bears, n
  <2>3. \A d \in Connectors : d # c => Bears(d, tx'[d], starts', stopped')
    BY <2>1, <1>2, <1>9 DEF Bears, Numbered
  <2> QED
    BY <2>2, <2>3
<1>12. Numbered'
  <2>1. stopped' \subseteq 1..Len(starts') /\ StopOnce'
    BY <1>1 DEF BeginTransaction, Numbered, StopOnce, n
  <2> QED
    BY <2>1, <1>10, <1>11 DEF Numbered
<1>13. reservation' \in [Connectors -> {"none", "held", "lapsed"}]
       /\ \A d \in Connectors : reservation'[d] = IF d = c THEN "none" ELSE Live(d)
  BY DEF BeginTransaction, TypeOK, Live, Lapsed
<1>14. ReservedIsHeld'
  <2> SUFFICES ASSUME NEW d \in Connectors, status'[d] = "Reserved"
               PROVE  reservation'[d] # "none"
    BY DEF ReservedIsHeld
  <2>1. d \notin S /\ d # c /\ status[d] = "Reserved"
    BY <1>6, <1>7
  <2> QED
    BY <2>1, <1>6, <1>13
<1>15. ActiveIsShown' /\ Unreserved'
  BY <1>6, <1>7, <1>9 DEF ActiveIsShown, Unreserved, Busy
<1>16. TypeOK'
  BY <1>1, <1>7, <1>9, <1>10, <1>13, AddressedIsCall
  DEF TypeOK, BeginTransaction, linkVars
<1> QED
  BY <1>8, <1>12, <1>14, <1>15, <1>16

LEMMA AuthIsAddressed ==
  ASSUME NEW t \in Tags, NEW E PROVE Addressed(AuthCall(t), E)
BY DEF Addressed, AuthCall, Calls

(* Transactions are stopped and their connectors shown as they are left.   *)
LEMMA Stops ==
  ASSUME LifecycleInv, NEW S \in SUBSET Connectors, \A c \in S : Busy(c),
         StopTransactions(S)
  PROVE  LifecycleInv'
<1> USE DEF LifecycleInv
<1> DEFINE now == [c \in S |-> AfterStop(c)]
           calls == {StopCall(c, tx[c].no) : c \in S}
<1>1. /\ Stopping(S) /\ Show(S, now) /\ Issue(calls)
      /\ UNCHANGED <<linkVars, reservation, sweeping, waiting, starts>>
  BY DEF StopTransactions
<1>2. /\ \A c \in S : now[c] \in Statuses /\ now[c] # "Reserved"
      /\ \A call \in calls : \E c \in S : call = StopCall(c, tx[c].no)
  BY AfterStopShown
<1> HIDE DEF now, calls
<1>3. /\ tx' \in [Connectors -> Tx]
      /\ \A c \in Connectors : tx'[c] = IF c \in S THEN NoTx ELSE tx[c]
      /\ availability' \in [Connectors -> {"Operative", "Inoperative"}]
      /\ scheduled' \in [Connectors -> {"none", "Operative", "Inoperative"}]
      /\ \A c \in Connectors : Bears(c, tx'[c], starts', stopped')
      /\ stopped' \subseteq 1..Len(starts') /\ StopOnce'
      /\ \A c \in S : Addressed(StopCall(c, tx[c].no), starts')
  BY <1>1, StoppingEffect
<1>4. /\ status' \in [Connectors -> Statuses]
      /\ timers' \subseteq Connectors
      /\ \A c \in Connectors : status'[c] = IF c \in S THEN now[c] ELSE status[c]
  BY <1>1, <1>2, ShowEffect
<1>5. WatchdogMatches'
  <2>1. booted' = booted
    BY <1>1 DEF linkVars
  <2> QED
    BY <2>1, <1>1, <1>2, ShowKeepsWatch
<1>6. \A call \in awaiting' \cup stored' : Addressed(call, starts')
  <2>1. \A call \in awaiting \cup stored \cup calls : Addressed(call, starts')
    BY <1>1, <1>2, <1>3 DEF Numbered
  <2> QED
    BY <2>1, <1>1, Issued
<1>7. Numbered'
  BY <1>3, <1>6 DEF Numbered
<1>8. ReservedIsHeld'
  BY <1>1, <1>2, <1>4 DEF ReservedIsHeld
<1>9. ActiveIsShown' /\ Unreserved'
  BY <1>2, <1>3, <1>4 DEF ActiveIsShown, Unreserved, Busy, NoTx
<1>10. TypeOK'
  <2>1. awaiting' \subseteq Calls /\ stored' \subseteq Calls
    BY <1>6, AddressedIsCall
  <2>2. stopped' \subseteq Nat /\ restopped' \subseteq stopped'
    BY <1>3 DEF StopOnce
  <2> QED
    BY <2>1, <2>2, <1>1, <1>3, <1>4 DEF TypeOK, linkVars
<1> QED
  BY <1>5, <1>7, <1>8, <1>9, <1>10
-----------------------------------------------------------------------------
(* Starting.                                                               *)
LEMMA LocalStarts ==
  ASSUME LifecycleInv, NEW c \in Connectors, NEW t \in Tags, LocalStart(c, t)
  PROVE  LifecycleInv'
<1> USE DEF LifecycleInv
<1>1. CASE BeginTransaction(c, {}) /\ UNCHANGED waiting
  BY <1>1, Begins DEF TypeOK
<1>2. CASE /\ Issue({AuthCall(t)})
           /\ waiting' = Append(waiting, Parked(c, t))
           /\ UNCHANGED <<linkVars, connectorVars, sweeping, historyVars>>
  <2>1. \A call \in awaiting' \cup stored' : Addressed(call, starts')
    <3>1. \A call \in awaiting \cup stored \cup {AuthCall(t)} : Addressed(call, starts')
      BY <1>2, AuthIsAddressed DEF Numbered, historyVars
    <3> QED
      BY <3>1, <1>2, Issued
  <2>2. Numbered'
    BY <1>2, <2>1 DEF Numbered, StopOnce, connectorVars, historyVars
  <2>3. awaiting' \subseteq Calls /\ stored' \subseteq Calls
    BY <2>1, AddressedIsCall
  <2>4. waiting' \in Seq(Waiter)
    BY <1>2 DEF TypeOK, Waiter, Parked
  <2>5. TypeOK'
    BY <1>2, <2>3, <2>4 DEF TypeOK, linkVars, connectorVars, historyVars
  <2> QED
    BY <1>2, <2>2, <2>5
    DEF linkVars, connectorVars, WatchdogMatches, ReservedIsHeld, ActiveIsShown,
         Unreserved, Busy
<1> QED
  BY <1>1, <1>2 DEF LocalStart

LEMMA RemoteStarts ==
  ASSUME LifecycleInv, NEW c \in Connectors, NEW t \in Tags, RemoteStart(c, t)
  PROVE  LifecycleInv'
<1> USE DEF LifecycleInv
<1> PICK auth : /\ auth \in {{AuthCall(t)}, {}}
                /\ \/ BeginTransaction(c, auth)
                   \/ /\ Issue(auth)
                      /\ UNCHANGED <<linkVars, connectorVars, sweeping, historyVars>>
                /\ UNCHANGED waiting
  BY DEF RemoteStart
<1>1. \A call \in auth : Addressed(call, starts')
  BY AuthIsAddressed
<1>2. CASE BeginTransaction(c, auth)
  BY <1>1, <1>2, Begins DEF TypeOK
<1>3. CASE /\ Issue(auth)
           /\ UNCHANGED <<linkVars, connectorVars, sweeping, historyVars>>
  <2>1. \A call \in awaiting' \cup stored' : Addressed(call, starts')
    <3>1. \A call \in awaiting \cup stored \cup auth : Addressed(call, starts')
      BY <1>3, <1>1 DEF Numbered, historyVars
    <3> QED
      BY <3>1, <1>3, Issued
  <2>2. Numbered'
    BY <1>3, <2>1 DEF Numbered, StopOnce, connectorVars, historyVars
  <2>3. awaiting' \subseteq Calls /\ stored' \subseteq Calls
    BY <2>1, AddressedIsCall
  <2>4. TypeOK'
    BY <1>3, <2>3 DEF TypeOK, linkVars, connectorVars, historyVars
  <2> QED
    BY <1>3, <2>2, <2>4
    DEF linkVars, connectorVars, WatchdogMatches, ReservedIsHeld, ActiveIsShown,
         Unreserved, Busy
<1> QED
  BY <1>2, <1>3

(* Changes of the connectors' statuses, reservations and availability, and *)
(* of the connection: no transaction or CALL is touched but a CALL that    *)
(* leaves a set.                                                           *)
LEMMA Otherwise ==
  ASSUME LifecycleInv,
         awaiting' \cup stored' \subseteq awaiting \cup stored,
         UNCHANGED <<tx, historyVars>>,
         link' \in {"down", "up", "closing"}, gateOpen' \in BOOLEAN,
         booted' \in BOOLEAN, sweeping' \in BOOLEAN,
         status' \in [Connectors -> Statuses],
         availability' \in [Connectors -> {"Operative", "Inoperative"}],
         scheduled' \in [Connectors -> {"none", "Operative", "Inoperative"}],
         timers' \subseteq Connectors,
         reservation' \in [Connectors -> {"none", "held", "lapsed"}],
         waiting' \in Seq(Waiter), Shown'
  PROVE  LifecycleInv'
<1>1. Numbered'
  BY NumberedKept DEF LifecycleInv
<1>2. TypeOK'
  BY DEF LifecycleInv, TypeOK, historyVars
<1> QED
  BY <1>1, <1>2 DEF LifecycleInv, Shown

LEMMA ShownKept ==
  ASSUME LifecycleInv, UNCHANGED <<status, timers, reservation, tx>>,
         booted' => booted
  PROVE  Shown'
BY DEF LifecycleInv, Shown, WatchdogMatches, ReservedIsHeld, ActiveIsShown,
       Unreserved, Busy

LEMMA Resumes ==
  ASSUME LifecycleInv, ResumeStart PROVE LifecycleInv'
<1> USE DEF LifecycleInv
<1> PICK i \in DOMAIN waiting :
      /\ waiting' = Without(i)
      /\ \/ BeginTransaction(waiting[i].connector, {})
         \/ UNCHANGED <<linkVars, callVars, connectorVars, sweeping, historyVars>>
  BY DEF ResumeStart
<1>1. /\ waiting \in Seq(Waiter) /\ Len(waiting) \in Nat /\ i \in 1..Len(waiting)
      /\ waiting[i].connector \in Connectors
  <2>1. waiting \in Seq(Waiter)
    BY DEF TypeOK
  <2>2. waiting[i] \in Waiter /\ Len(waiting) \in Nat /\ i \in 1..Len(waiting)
    BY <2>1
  <2> QED
    BY <2>1, <2>2 DEF Waiter
<1>2. waiting' \in Seq(Waiter)
  <2>1. /\ SubSeq(waiting, 1, i - 1) \in Seq(Waiter)
        /\ SubSeq(waiting, i + 1, Len(waiting)) \in Seq(Waiter)
    BY <1>1
  <2> QED
    BY <2>1 DEF Without
<1>3. CASE BeginTransaction(waiting[i].connector, {})
  BY <1>1, <1>2, <1>3, Begins
<1>4. CASE UNCHANGED <<linkVars, callVars, connectorVars, sweeping, historyVars>>
  <2>1. Shown'
    BY <1>4, ShownKept DEF linkVars, connectorVars
  <2> QED
    BY <2>1, <1>2, <1>4, Otherwise DEF TypeOK, linkVars, callVars, connectorVars
<1> QED
  BY <1>3, <1>4

(* Parked starts are resolved, those of R.                                 *)
LEMMA Resolving ==
  ASSUME TypeOK, NEW v \in {"accepted", "denied"}, NEW R,
         waiting' = [i \in DOMAIN waiting |->
           IF i \in R THEN Resolved(waiting[i], v) ELSE waiting[i]]
  PROVE  waiting' \in Seq(Waiter)
<1>1. DOMAIN waiting = 1..Len(waiting) /\ Len(waiting) \in Nat
      /\ \A i \in 1..Len(waiting) : waiting[i] \in Waiter
  BY DEF TypeOK
<1>2. \A i \in 1..Len(waiting) : Resolved(waiting[i], v) \in Waiter
  BY <1>1 DEF Resolved, Waiter
<1> QED
  BY <1>1, <1>2

LEMMA AuthorizeAnswered ==
  ASSUME LifecycleInv, NEW t \in Tags, NEW v \in {"accepted", "denied"},
         AuthorizeResult(t, v)
  PROVE  LifecycleInv'
<1> USE DEF LifecycleInv
<1>1. waiting' \in Seq(Waiter)
  <2> DEFINE R == {i \in DOMAIN waiting : waiting[i].tag = t}
  <2>1. waiting' = [i \in DOMAIN waiting |->
          IF i \in R THEN Resolved(waiting[i], v) ELSE waiting[i]]
    BY DEF AuthorizeResult
  <2> QED
    BY <2>1, Resolving
<1>2. Shown'
  BY ShownKept DEF AuthorizeResult, linkVars, connectorVars
<1> QED
  BY <1>1, <1>2, Otherwise DEF AuthorizeResult, TypeOK, linkVars, connectorVars

LEMMA AuthorizeTimesOut ==
  ASSUME LifecycleInv, AuthorizeTimeout PROVE LifecycleInv'
<1> USE DEF LifecycleInv
<1>1. waiting' \in Seq(Waiter)
  <2>1. waiting' = [i \in DOMAIN waiting |->
          IF i \in {1} THEN Resolved(waiting[i], "accepted") ELSE waiting[i]]
    BY DEF AuthorizeTimeout
  <2> QED
    BY <2>1, Resolving
<1>2. Shown'
  BY ShownKept DEF AuthorizeTimeout, linkVars, connectorVars
<1> QED
  BY <1>1, <1>2, Otherwise
  DEF AuthorizeTimeout, TypeOK, linkVars, callVars, connectorVars
-----------------------------------------------------------------------------
(* Answers to StartTransaction and StopTransaction.                        *)
LEMMA AnsweredCall ==
  ASSUME LifecycleInv, NEW call, NEW kind \in {"start", "stop"},
         Answered(call, kind)
  PROVE  /\ call.connector \in Connectors /\ Addressed(call, starts)
         /\ kind = "start" => Known(call.connector, call.no, starts)
BY DEF LifecycleInv, Numbered, Answered, Addressed

(* An answered CALL is gone and the transaction of its connector is, still *)
(* bearing its number, given that of the CALL, closed or cleared.          *)
LEMMA AnswerKeepsNumbers ==
  ASSUME LifecycleInv, NEW call, NEW c \in Connectors, NEW t,
         tx' = [tx EXCEPT ![c] = t], Bears(c, t, starts, stopped),
         awaiting' \subseteq awaiting, UNCHANGED <<stored, historyVars>>
  PROVE  Numbered' /\ tx' \in [Connectors -> Tx] /\ tx'[c] = t
         /\ \A d \in Connectors : d # c => tx'[d] = tx[d]
<1> USE DEF LifecycleInv
<1>1. /\ tx' \in [Connectors -> Tx] /\ tx'[c] = t
      /\ \A d \in Connectors : d # c => tx'[d] = tx[d]
  BY DEF Bears, TypeOK
<1>2. \A d \in Connectors : Bears(d, tx'[d], starts', stopped')
  BY <1>1 DEF Numbered, historyVars
<1> QED
  BY <1>1, <1>2 DEF Numbered, StopOnce, historyVars

LEMMA StartIsConfirmed ==
  ASSUME LifecycleInv, NEW call \in awaiting, StartProceeds(call)
  PROVE  LifecycleInv'
<1> USE DEF LifecycleInv
<1> DEFINE c == call.connector
           t == IF Busy(c) THEN [no |-> tx[c].no, id |-> call.no, open |-> tx[c].open]
                           ELSE tx[c]
<1>1. c \in Connectors /\ Known(c, call.no, starts) /\ call.no \in Nat
  BY AnsweredCall DEF StartProceeds, Known, TypeOK
<1>2. tx[c] \in Tx /\ tx[c] = [no |-> tx[c].no, id |-> tx[c].id, open |-> tx[c].open]
  BY <1>1 DEF TypeOK, Tx
<1>3. Bears(c, t, starts, stopped)
  <2>1. CASE Busy(c)
    <3>1. tx[c].no # 0 /\ Bears(c, tx[c], starts, stopped)
      BY <1>1, <2>1, BusyHasNumber DEF Numbered
    <3> QED
      BY <3>1, <2>1, <1>1, <1>2 DEF Bears, Tx
  <2>2. CASE ~Busy(c)
    BY <2>2, <1>1 DEF Numbered
  <2> QED
    BY <2>1, <2>2
<1>4. tx' = [tx EXCEPT ![c] = t]
  <2>1. tx' = [tx EXCEPT ![c].id = IF Busy(c) THEN call.no ELSE @]
    BY DEF StartProceeds, Confirmed
  <2>2. tx' = [tx EXCEPT ![c] = [tx[c] EXCEPT !.id =
                                   IF Busy(c) THEN call.no ELSE tx[c].id]]
    BY <2>1
  <2>3. [tx[c] EXCEPT !.id = IF Busy(c) THEN call.no ELSE tx[c].id] = t
    BY <1>2
  <2> QED
    BY <2>2, <2>3
<1>5. t.open = tx[c].open /\ (t # NoTx => Busy(c))
  BY DEF Busy
<1> HIDE DEF t
<1>6. /\ Numbered' /\ tx' \in [Connectors -> Tx] /\ tx'[c] = t
      /\ \A d \in Connectors : d # c => tx'[d] = tx[d]
  BY <1>1, <1>3, <1>4, AnswerKeepsNumbers DEF StartProceeds
<1>7. \/ /\ ShowOne(c, "Charging")
         /\ status' \in [Connectors -> Statuses] /\ timers' \subseteq Connectors
         /\ status'[c] = "Charging" /\ WatchdogMatches'
         /\ \A d \in Connectors : d # c => status'[d] = status[d]
      \/ UNCHANGED <<status, timers>>
  BY <1>1, ShowOneEffect DEF StartProceeds, Statuses, linkVars
<1>8. Shown'
  BY <1>1, <1>5, <1>6, <1>7
  DEF StartProceeds, linkVars, Shown, WatchdogMatches, ReservedIsHeld, ActiveIsShown,
         Unreserved, Busy
<1>9. TypeOK'
  BY <1>6, <1>7 DEF StartProceeds, TypeOK, linkVars, historyVars
<1> QED
  BY <1>6, <1>8, <1>9 DEF Shown

LEMMA NothingOpenIsNoTx ==
  ASSUME NEW t \in Tx, t.no = 0, t.id = 0, ~t.open PROVE t = NoTx
<1>1. t = [no |-> t.no, id |-> t.id, open |-> t.open]
  BY DEF Tx
<1> QED
  BY <1>1 DEF NoTx

LEMMA StartHasFailed ==
  ASSUME LifecycleInv, NEW call \in awaiting, StartFails(call)
  PROVE  LifecycleInv'
<1> USE DEF LifecycleInv
<1> DEFINE c == call.connector
           t == [tx[c] EXCEPT !.open = FALSE]
<1>1. c \in Connectors
  BY AnsweredCall DEF StartFails
<1>2. tx[c] \in Tx
  BY <1>1 DEF TypeOK
<1>3. t \in Tx /\ t.no = tx[c].no /\ t.id = tx[c].id /\ ~t.open
  BY <1>2 DEF Tx
<1>4. tx' = [tx EXCEPT ![c] = t]
  BY DEF StartFails
<1> HIDE DEF t
<1>5. Bears(c, t, starts, stopped)
  <2>1. Bears(c, tx[c], starts, stopped)
    BY <1>1 DEF Numbered
  <2>2. t.no = 0 => t.id = 0
    BY <2>1, <1>3 DEF Bears, NoTx
  <2> QED
    BY <2>1, <2>2, <1>3, NothingOpenIsNoTx DEF Bears
<1>6. /\ Numbered' /\ tx' \in [Connectors -> Tx] /\ tx'[c] = t
      /\ \A d \in Connectors : d # c => tx'[d] = tx[d]
  BY <1>1, <1>4, <1>5, AnswerKeepsNumbers DEF StartFails
<1>7. /\ status' \in [Connectors -> Statuses] /\ timers' \subseteq Connectors
      /\ status'[c] = "Available" /\ WatchdogMatches'
      /\ \A d \in Connectors : d # c => status'[d] = status[d]
  BY <1>1, ShowOneEffect DEF StartFails, Statuses, linkVars
<1>8. Shown'
  BY <1>3, <1>6, <1>7 DEF StartFails, Shown, ReservedIsHeld, ActiveIsShown, Unreserved, Busy
<1>9. TypeOK'
  BY <1>6, <1>7 DEF StartFails, TypeOK, linkVars, historyVars
<1> QED
  BY <1>6, <1>8, <1>9 DEF Shown

LEMMA StopIsConfirmed ==
  ASSUME LifecycleInv, NEW call \in awaiting, StopConfirmed(call)
  PROVE  LifecycleInv'
<1> USE DEF LifecycleInv
<1> DEFINE c == call.connector
<1>1. c \in Connectors
  BY AnsweredCall DEF StopConfirmed
<1>2. /\ Numbered' /\ tx' \in [Connectors -> Tx] /\ tx'[c] = NoTx
      /\ \A d \in Connectors : d # c => tx'[d] = tx[d]
  BY <1>1, NoTxBears, AnswerKeepsNumbers DEF StopConfirmed
<1>3. \/ /\ ShowOne(c, "Available")
         /\ status' \in [Connectors -> Statuses] /\ timers' \subseteq Connectors
         /\ status'[c] = "Available" /\ WatchdogMatches'
         /\ \A d \in Connectors : d # c => status'[d] = status[d]
      \/ UNCHANGED <<status, timers>>
  BY <1>1, ShowOneEffect DEF StopConfirmed, Statuses, linkVars
<1>4. ~NoTx.open
  BY DEF NoTx
<1>5. Shown'
  BY <1>2, <1>3, <1>4
  DEF StopConfirmed, linkVars, Shown, WatchdogMatches, ReservedIsHeld, ActiveIsShown,
         Unreserved, Busy
<1>6. TypeOK'
  BY <1>2, <1>3 DEF StopConfirmed, TypeOK, linkVars, historyVars
<1> QED
  BY <1>2, <1>5, <1>6 DEF Shown

LEMMA StartIsRefused ==
  ASSUME LifecycleInv, NEW call \in awaiting, StartRefused(call)
  PROVE  LifecycleInv'
<1> USE DEF LifecycleInv
<1> DEFINE c == call.connector
<1>1. c \in Connectors
  BY AnsweredCall DEF StartRefused
<1>2. CASE ~Busy(c)
  <2>1. /\ awaiting' \subseteq awaiting
        /\ UNCHANGED <<status, availability, scheduled, tx, timers, stopped,
                       restopped, linkVars, stored, reservation, sweeping,
                       waiting, starts>>
    BY <1>2 DEF StartRefused
  <2>2. Shown'
    BY <2>1, ShownKept DEF linkVars
  <2> QED
    BY <2>1, <2>2, Otherwise DEF TypeOK, linkVars, historyVars
<1>3. CASE Busy(c)
  <2>1. /\ Stopping({c}) /\ ShowOne(c, AfterStop(c))
        /\ awaiting' \subseteq awaiting \cup {StopCall(c, tx[c].no)}
        /\ UNCHANGED <<linkVars, stored, reservation, sweeping, waiting, starts>>
    BY <1>3 DEF StartRefused
  <2>2. /\ tx' \in [Connectors -> Tx]
        /\ \A d \in Connectors : tx'[d] = IF d \in {c} THEN NoTx ELSE tx[d]
        /\ availability' \in [Connectors -> {"Operative", "Inoperative"}]
        /\ scheduled' \in [Connectors -> {"none", "Operative", "Inoperative"}]
        /\ \A d \in Connectors : Bears(d, tx'[d], starts', stopped')
        /\ stopped' \subseteq 1..Len(starts') /\ StopOnce'
        /\ Addressed(StopCall(c, tx[c].no), starts')
    <3>1. {c} \in SUBSET Connectors /\ \A d \in {c} : Busy(d)
      BY <1>1, <1>3
    <3> QED
      BY <3>1, <2>1, StoppingEffect
  <2>3. /\ status' \in [Connectors -> Statuses] /\ timers' \subseteq Connectors
        /\ status'[c] # "Reserved" /\ WatchdogMatches'
        /\ \A d \in Connectors : d # c => status'[d] = status[d]
    BY <1>1, <2>1, AfterStopShown, ShowOneEffect DEF linkVars
  <2>4. \A x \in awaiting' \cup stored' : Addressed(x, starts')
    BY <2>1, <2>2 DEF Numbered
  <2>5. Numbered'
    BY <2>2, <2>4 DEF Numbered
  <2>6. Shown'
    BY <2>1, <2>2, <2>3
    DEF Shown, ReservedIsHeld, ActiveIsShown, Unreserved, Busy, NoTx
  <2>7. TypeOK'
    <3>1. awaiting' \subseteq Calls /\ stored' \subseteq Calls
      BY <2>4, AddressedIsCall
    <3>2. stopped' \subseteq Nat /\ restopped' \subseteq stopped'
      BY <2>2 DEF StopOnce
    <3> QED
      BY <3>1, <3>2, <2>1, <2>2, <2>3 DEF TypeOK, linkVars
  <2> QED
    BY <2>5, <2>6, <2>7 DEF Shown
<1> QED
  BY <1>2, <1>3
-----------------------------------------------------------------------------
(* Stopping.                                                               *)
LEMMA OneStops ==
  ASSUME LifecycleInv, NEW c \in Connectors,
         LocalStop(c) \/ RemoteStop(c) \/ UnlockConnector(c)
  PROVE  LifecycleInv'
<1>1. Busy(c) /\ StopTransactions({c})
  BY BusyHasNumber DEF LifecycleInv, LocalStop, RemoteStop, UnlockConnector
<1>2. {c} \in SUBSET Connectors /\ \A d \in {c} : Busy(d)
  BY <1>1
<1> QED
  BY <1>1, <1>2, Stops

LEMMA SoftResets ==
  ASSUME LifecycleInv, SoftReset PROVE LifecycleInv'
<1> DEFINE S == {c \in Connectors : Busy(c)}
<1>1. S \in SUBSET Connectors /\ (\A c \in S : Busy(c)) /\ StopTransactions(S)
  BY DEF SoftReset
<1> HIDE DEF S
<1> QED
  BY <1>1, Stops

LEMMA TeardownEffect ==
  ASSUME TypeOK, ActiveIsShown, Unreserved, tx' \in [Connectors -> Tx],
         \A c \in Connectors : tx'[c] \in {tx[c], NoTx},
         Teardown
  PROVE  /\ status' \in [Connectors -> Statuses] /\ timers' \subseteq Connectors
         /\ reservation' \in [Connectors -> {"none", "held", "lapsed"}]
         /\ booted' = FALSE /\ sweeping' = FALSE
         /\ Shown'
<1>1. /\ status' \in [Connectors -> Statuses] /\ timers' = {}
      /\ reservation' \in [Connectors -> {"none", "held", "lapsed"}]
      /\ booted' = FALSE /\ sweeping' = FALSE
      /\ \A c \in Connectors :
           status'[c] = IF tx'[c] = NoTx THEN "Unavailable" ELSE status[c]
  BY DEF Teardown, TypeOK, Statuses
<1>2. \A c \in Connectors : tx'[c] # NoTx => tx'[c] = tx[c] /\ Busy(c)
  BY DEF Busy
<1>3. WatchdogMatches'
  BY <1>1 DEF WatchdogMatches
<1>4. ActiveIsShown'
  <2>1. ~NoTx.open
    BY DEF NoTx
  <2> QED
    BY <2>1, <1>1, <1>2 DEF ActiveIsShown
<1>5. ReservedIsHeld' /\ Unreserved'
  BY <1>1, <1>2 DEF ReservedIsHeld, Unreserved
<1> QED
  BY <1>1, <1>3, <1>4, <1>5 DEF Shown

LEMMA HardResets ==
  ASSUME LifecycleInv, HardReset PROVE LifecycleInv'
<1> USE DEF LifecycleInv
<1> DEFINE S == {c \in Connectors : Busy(c)}
           calls == {StopCall(c, tx[c].no) : c \in S}
<1>1. /\ S \in SUBSET Connectors /\ (\A c \in S : Busy(c))
      /\ \A c \in Connectors : Busy(c) => c \in S
      /\ \A x \in calls : \E c \in S : x = StopCall(c, tx[c].no)
      /\ Stopping(S) /\ Issue(calls) /\ Teardown /\ link' = "down"
      /\ UNCHANGED <<gateOpen, waiting, starts>>
  BY DEF HardReset
<1> HIDE DEF S, calls
<1>2. /\ tx' \in [Connectors -> Tx]
      /\ \A c \in Connectors : tx'[c] = IF c \in S THEN NoTx ELSE tx[c]
      /\ availability' \in [Connectors -> {"Operative", "Inoperative"}]
      /\ scheduled' \in [Connectors -> {"none", "Operative", "Inoperative"}]
      /\ \A c \in Connectors : Bears(c, tx'[c], starts', stopped')
      /\ stopped' \subseteq 1..Len(starts') /\ StopOnce'
      /\ \A c \in S : Addressed(StopCall(c, tx[c].no), starts')
  BY <1>1, StoppingEffect
<1>3. \A call \in awaiting' \cup stored' : Addressed(call, starts')
  <2>1. \A call \in awaiting \cup stored \cup calls : Addressed(call, starts')
    BY <1>1, <1>2 DEF Numbered
  <2> QED
    BY <2>1, <1>1, Issued
<1>4. Numbered'
  BY <1>2, <1>3 DEF Numbered
<1>5. /\ status' \in [Connectors -> Statuses] /\ timers' \subseteq Connectors
      /\ reservation' \in [Connectors -> {"none", "held", "lapsed"}]
      /\ booted' = FALSE /\ sweeping' = FALSE
      /\ Shown'
  BY <1>1, <1>2, TeardownEffect
<1>6. TypeOK'
  <2>1. awaiting' \subseteq Calls /\ stored' \subseteq Calls
    BY <1>3, AddressedIsCall
  <2>2. stopped' \subseteq Nat /\ restopped' \subseteq stopped'
    BY <1>2 DEF StopOnce
  <2> QED
    BY <2>1, <2>2, <1>1, <1>2, <1>5 DEF TypeOK
<1> QED
  BY <1>4, <1>5, <1>6 DEF Shown
-----------------------------------------------------------------------------
(* Availability, reservations, status.                                     *)
LEMMA AvailabilityChanges ==
  ASSUME LifecycleInv, HandleChangeAvailability
  PROVE  LifecycleInv'
<1> USE DEF LifecycleInv
<1> PICK S \in Ranges, target \in {"Operative", "Inoperative"} :
      ChangeAvailability(S, target)
  BY DEF HandleChangeAvailability
<1>1. S \in SUBSET Connectors
  BY TransactionAssumption DEF TransactionAssumption
<1>2. /\ UNCHANGED <<linkVars, callVars, tx, reservation, sweeping, waiting,
                     historyVars>>
  BY DEF HandleChangeAvailability
<1>3. CASE BusyIn(S) = {}
  <2> DEFINE now == [c \in S |-> ShownAs(target)]
  <2>1. /\ availability' = [c \in Connectors |-> IF c \in S THEN target
                                                           ELSE availability[c]]
        /\ Show(S, now) /\ UNCHANGED scheduled
    BY <1>3 DEF ChangeAvailability
  <2>2. \A c \in S : now[c] \in Statuses /\ now[c] # "Reserved" /\ ~Busy(c)
    BY <1>3 DEF ShownAs, Statuses, BusyIn
  <2> HIDE DEF now
  <2>3. /\ status' \in [Connectors -> Statuses] /\ timers' \subseteq Connectors
        /\ \A c \in Connectors : status'[c] = IF c \in S THEN now[c] ELSE status[c]
    BY <1>1, <2>1, <2>2, ShowEffect
  <2>4. WatchdogMatches'
    BY <1>1, <1>2, <2>1, <2>2, ShowKeepsWatch DEF linkVars
  <2>5. ReservedIsHeld' /\ ActiveIsShown' /\ Unreserved'
    BY <1>2, <2>2, <2>3, BusyHasNumber
    DEF ReservedIsHeld, ActiveIsShown, Unreserved, Busy
  <2> QED
    BY <1>2, <2>1, <2>3, <2>4, <2>5, Otherwise DEF TypeOK, linkVars, callVars, Shown
<1>4. CASE BusyIn(S) # {}
  <2>1. /\ scheduled' = [c \in Connectors |->
             IF c \in BusyIn(S) THEN target ELSE scheduled[c]]
        /\ UNCHANGED <<availability, status, timers>>
    BY <1>4 DEF ChangeAvailability
  <2>2. Shown'
    BY <1>2, <2>1, ShownKept DEF linkVars
  <2> QED
    BY <1>2, <2>1, <2>2, Otherwise DEF TypeOK, linkVars, callVars
<1> QED
  BY <1>3, <1>4

(* Of S, connectors without an open transaction, some become Reserved: the *)
(* others are returned, and those with a reservation are all that may be.  *)
LEMMA Reserving ==
  ASSUME LifecycleInv, NEW S \in SUBSET Connectors, NEW now,
         \A c \in S : now[c] \in {"Available", "Reserved"},
         \A c \in S : ~tx[c].open /\ (now[c] = "Reserved" => ~Busy(c)),
         Show(S, now),
         reservation' \in [Connectors -> {"none", "held", "lapsed"}],
         \A c \in Connectors : reservation'[c] = "none" =>
           IF c \in S THEN now[c] # "Reserved"
           ELSE status[c] # "Reserved",
         UNCHANGED <<linkVars, callVars, availability, scheduled, tx, sweeping,
                     waiting, historyVars>>
  PROVE  LifecycleInv'
<1> USE DEF LifecycleInv
<1>1. \A c \in S : now[c] \in Statuses
  BY DEF Statuses
<1>2. /\ status' \in [Connectors -> Statuses] /\ timers' \subseteq Connectors
      /\ \A c \in Connectors : status'[c] = IF c \in S THEN now[c] ELSE status[c]
  BY <1>1, ShowEffect
<1>3. WatchdogMatches'
  BY <1>1, ShowKeepsWatch DEF linkVars
<1>4. ReservedIsHeld'
  BY <1>2 DEF ReservedIsHeld
<1>5. ActiveIsShown' /\ Unreserved'
  BY <1>2 DEF ActiveIsShown, Unreserved, Busy
<1> QED
  BY <1>2, <1>3, <1>4, <1>5, Otherwise DEF TypeOK, linkVars, callVars, Shown

LEMMA ReturnedAreFree ==
  ASSUME LifecycleInv
  PROVE  /\ Returned \in SUBSET Connectors
         /\ \A c \in Returned : ~tx[c].open
         /\ \A c \in Connectors : Live(c) \in {"none", "held", "lapsed"}
         /\ \A c \in Connectors : Live(c) = "none" /\ status[c] = "Reserved"
                                    => c \in Returned
BY DEF LifecycleInv, TypeOK, Returned, Lapsed, Live, ActiveIsShown, ReservedIsHeld

LEMMA Reserves ==
  ASSUME LifecycleInv, NEW c \in Connectors, ReserveNow(c)
  PROVE  LifecycleInv'
<1> USE DEF LifecycleInv
<1>1. ~Busy(c) /\ ~tx[c].open
  BY BusyHasNumber DEF ReserveNow
<1>2. UNCHANGED <<linkVars, callVars, availability, scheduled, tx, sweeping,
                  waiting, historyVars>>
  BY DEF ReserveNow
<1>3. CASE /\ reservation' = [d \in Connectors |-> IF d = c THEN "held" ELSE Live(d)]
           /\ Show(Returned \cup {c}, [d \in Returned \cup {c} |->
                                        IF d = c THEN "Reserved" ELSE "Available"])
  <2> DEFINE S == Returned \cup {c}
             now == [d \in S |-> IF d = c THEN "Reserved" ELSE "Available"]
  <2>1. /\ S \in SUBSET Connectors /\ c \in S /\ now[c] = "Reserved"
        /\ \A d \in Returned : d \in S
        /\ \A d \in S : d # c => now[d] = "Available" /\ d \in Returned
        /\ Show(S, now)
    BY <1>3, ReturnedAreFree
  <2> HIDE DEF S, now
  <2>2. /\ \A d \in S : now[d] \in {"Available", "Reserved"}
        /\ \A d \in S : ~tx[d].open /\ (now[d] = "Reserved" => ~Busy(d))
    BY <2>1, <1>1, ReturnedAreFree
  <2>3. /\ reservation' \in [Connectors -> {"none", "held", "lapsed"}]
        /\ \A d \in Connectors : reservation'[d] = "none" =>
             IF d \in S THEN now[d] # "Reserved" ELSE status[d] # "Reserved"
    BY <1>3, <2>1, ReturnedAreFree
  <2> QED
    BY <1>2, <2>1, <2>2, <2>3, Reserving
<1>4. CASE /\ reservation' = [d \in Connectors |-> Live(d)]
           /\ Show(Returned, [d \in Returned |-> "Available"])
  <2> DEFINE now == [d \in Returned |-> "Available"]
  <2>1. \A d \in Returned : now[d] = "Available"
    OBVIOUS
  <2>2. Show(Returned, now)
    BY <1>4
  <2> HIDE DEF now
  <2>3. /\ reservation' \in [Connectors -> {"none", "held", "lapsed"}]
        /\ \A d \in Connectors : reservation'[d] = "none" =>
             IF d \in Returned THEN now[d] # "Reserved" ELSE status[d] # "Reserved"
    BY <1>4, <2>1, ReturnedAreFree
  <2> QED
    BY <1>2, <2>1, <2>2, <2>3, Reserving, ReturnedAreFree
<1> QED
  BY <1>3, <1>4 DEF ReserveNow

LEMMA Sweeps ==
  ASSUME LifecycleInv, CleanupExpiredReservations PROVE LifecycleInv'
<1> DEFINE now == [d \in Returned |-> "Available"]
<1>1. \A d \in Returned : now[d] = "Available"
  OBVIOUS
<1>2. /\ Show(Returned, now) /\ reservation' = [d \in Connectors |-> Live(d)]
      /\ UNCHANGED <<linkVars, callVars, availability, scheduled, tx, sweeping,
                     waiting, historyVars>>
  BY DEF CleanupExpiredReservations
<1> HIDE DEF now
<1>3. /\ reservation' \in [Connectors -> {"none", "held", "lapsed"}]
      /\ \A d \in Connectors : reservation'[d] = "none" =>
           IF d \in Returned THEN now[d] # "Reserved" ELSE status[d] # "Reserved"
  BY <1>1, <1>2, ReturnedAreFree
<1> QED
  BY <1>1, <1>2, <1>3, Reserving, ReturnedAreFree

LEMMA Cancels ==
  ASSUME LifecycleInv, NEW c \in Connectors, CancelReservation(c)
  PROVE  LifecycleInv'
<1> USE DEF LifecycleInv
<1>1. /\ reservation' = [reservation EXCEPT ![c] = "none"]
      /\ UNCHANGED <<linkVars, callVars, availability, scheduled, tx, sweeping,
                     waiting, historyVars>>
  BY DEF CancelReservation
<1>2. /\ reservation' \in [Connectors -> {"none", "held", "lapsed"}]
      /\ \A d \in Connectors : d # c => reservation'[d] = reservation[d]
  BY <1>1 DEF TypeOK
<1>3. CASE status[c] = "Reserved" /\ ShowOne(c, "Available")
  <2>1. /\ status' \in [Connectors -> Statuses] /\ timers' \subseteq Connectors
        /\ status'[c] = "Available" /\ WatchdogMatches'
        /\ \A d \in Connectors : d # c => status'[d] = status[d]
    BY <1>1, <1>3, ShowOneEffect DEF Statuses, linkVars
  <2>2. ReservedIsHeld' /\ ActiveIsShown' /\ Unreserved'
    BY <1>1, <1>2, <1>3, <2>1 DEF ReservedIsHeld, ActiveIsShown, Unreserved, Busy
  <2> QED
    BY <1>1, <1>2, <2>1, <2>2, Otherwise DEF TypeOK, linkVars, callVars, Shown
<1>4. CASE status[c] # "Reserved" /\ UNCHANGED <<status, timers>>
  <2>1. Shown'
    BY <1>1, <1>2, <1>4
    DEF linkVars, Shown, WatchdogMatches, ReservedIsHeld, ActiveIsShown, Unreserved,
        Busy
  <2> QED
    BY <1>1, <1>2, <1>4, <2>1, Otherwise DEF TypeOK, linkVars, callVars
<1> QED
  BY <1>3, <1>4 DEF CancelReservation

LEMMA Lapses ==
  ASSUME LifecycleInv, NEW c \in Connectors, ReservationLapses(c)
  PROVE  LifecycleInv'
<1> USE DEF LifecycleInv
<1>1. reservation' \in [Connectors -> {"none", "held", "lapsed"}]
      /\ \A d \in Connectors : reservation'[d] = "none" => reservation[d] = "none"
  BY DEF ReservationLapses, TypeOK
<1>2. Shown'
  BY <1>1 DEF ReservationLapses, linkVars, Shown, WatchdogMatches, ReservedIsHeld,
              ActiveIsShown, Unreserved, Busy
<1> QED
  BY <1>1, <1>2, Otherwise DEF ReservationLapses, TypeOK, linkVars, callVars

LEMMA StatusChanges ==
  ASSUME LifecycleInv, NEW c \in Connectors,
         NEW s \in {"Preparing", "Charging", "SuspendedEV", "SuspendedEVSE",
                    "Finishing"},
         SetStatus(c, s) \/ (ConnectionTimeOut(c) /\ s = "Finishing")
  PROVE  LifecycleInv'
<1> USE DEF LifecycleInv
<1>1. /\ ShowOne(c, s)
      /\ UNCHANGED <<linkVars, callVars, availability, scheduled, tx, reservation,
                     sweeping, waiting, historyVars>>
  BY DEF SetStatus, ConnectionTimeOut
<1>2. /\ status' \in [Connectors -> Statuses] /\ timers' \subseteq Connectors
      /\ status'[c] = s /\ WatchdogMatches'
      /\ \A d \in Connectors : d # c => status'[d] = status[d]
  BY <1>1, ShowOneEffect DEF Statuses, linkVars
<1>3. ReservedIsHeld' /\ ActiveIsShown' /\ Unreserved'
  BY <1>1, <1>2 DEF ReservedIsHeld, ActiveIsShown, Unreserved, Busy
<1> QED
  BY <1>1, <1>2, <1>3, Otherwise DEF TypeOK, linkVars, callVars, Shown
-----------------------------------------------------------------------------
(* The connection.                                                         *)
LEMMA Boots ==
  ASSUME LifecycleInv, BootAccepted PROVE LifecycleInv'
<1> USE DEF LifecycleInv
<1> DEFINE now == [c \in Connectors |-> Booted(c)]
<1>1. /\ Show(Connectors, now)
      /\ gateOpen' = TRUE /\ booted' = TRUE
      /\ awaiting' = awaiting \cup stored /\ stored' = {}
      /\ UNCHANGED <<link, availability, scheduled, tx, reservation, sweeping,
                     waiting, historyVars>>
  BY DEF BootAccepted
<1>2. \A c \in Connectors :
        /\ now[c] \in Statuses
        /\ now[c] = status[c] \/ (now[c] = "Available" /\ ~Busy(c))
  <2>1. \A c \in Connectors : now[c] = Booted(c) /\ status[c] \in Statuses
    BY DEF TypeOK
  <2>2. "Available" \in Statuses
    BY DEF Statuses
  <2> QED
    BY <2>1, <2>2 DEF Booted
<1> HIDE DEF now
<1>3. /\ status' \in [Connectors -> Statuses] /\ timers' \subseteq Connectors
      /\ \A c \in Connectors : status'[c] = now[c]
  BY <1>1, <1>2, ShowEffect
<1>4. WatchdogMatches'
  BY <1>1, <1>2, ShowKeepsWatch
<1>5. ReservedIsHeld' /\ ActiveIsShown' /\ Unreserved'
  BY <1>1, <1>2, <1>3, BusyHasNumber DEF ReservedIsHeld, ActiveIsShown, Unreserved, Busy
<1> QED
  BY <1>1, <1>3, <1>4, <1>5, Otherwise DEF TypeOK, Shown

LEMMA LinkChanges ==
  ASSUME LifecycleInv, SocketOpens \/ SocketCloses \/ BootNotAccepted
  PROVE  LifecycleInv'
<1>1. /\ link' \in {"down", "up", "closing"} /\ gateOpen' \in BOOLEAN
      /\ UNCHANGED <<booted, callVars, connectorVars, sweeping, waiting, historyVars>>
  BY DEF LifecycleInv, TypeOK, SocketOpens, SocketCloses, BootNotAccepted
<1>2. Shown'
  BY <1>1, ShownKept DEF connectorVars
<1> QED
  BY <1>1, <1>2, Otherwise DEF LifecycleInv, TypeOK, callVars, connectorVars

LEMMA Disconnects ==
  ASSUME LifecycleInv, Disconnect \/ SocketClosed
  PROVE  LifecycleInv'
<1> USE DEF LifecycleInv
<1>1. /\ Teardown /\ link' \in {"down", "up", "closing"}
      /\ UNCHANGED <<gateOpen, callVars, availability, scheduled, tx, historyVars>>
  BY DEF Disconnect, SocketClosed, TypeOK
<1>2. waiting' \in Seq(Waiter)
  <2>1. CASE Disconnect
    BY <2>1 DEF Disconnect, TypeOK
  <2>2. CASE SocketClosed
    <3>1. waiting' = [i \in DOMAIN waiting |->
            IF i \in DOMAIN waiting THEN Resolved(waiting[i], "accepted")
                                    ELSE waiting[i]]
      BY <2>2 DEF SocketClosed
    <3> QED
      BY <3>1, Resolving
  <2> QED
    BY <2>1, <2>2
<1>3. /\ status' \in [Connectors -> Statuses] /\ timers' \subseteq Connectors
      /\ reservation' \in [Connectors -> {"none", "held", "lapsed"}]
      /\ booted' = FALSE /\ sweeping' = FALSE
      /\ Shown'
  BY <1>1, TeardownEffect DEF TypeOK
<1> QED
  BY <1>1, <1>2, <1>3, Otherwise DEF TypeOK, callVars
-----------------------------------------------------------------------------
LEMMA InitEstablishes ==
  ASSUME Init PROVE LifecycleInv
<1>1. TypeOK
  <2>1. NoTx \in Tx
    BY DEF NoTx, Tx
  <2>2. "Unavailable" \in Statuses
    BY DEF Statuses
  <2>3. /\ status \in [Connectors -> Statuses] /\ tx \in [Connectors -> Tx]
        /\ availability \in [Connectors -> {"Operative", "Inoperative"}]
        /\ scheduled \in [Connectors -> {"none", "Operative", "Inoperative"}]
        /\ reservation \in [Connectors -> {"none", "held", "lapsed"}]
    BY <2>1, <2>2 DEF Init
  <2>4. /\ waiting \in Seq(Waiter) /\ starts \in Seq(Connectors)
        /\ awaiting \subseteq Calls /\ stored \subseteq Calls
        /\ stopped \subseteq Nat /\ restopped \subseteq stopped
        /\ timers \subseteq Connectors
    BY DEF Init
  <2> QED
    BY <2>3, <2>4 DEF Init, TypeOK
<1>2. Numbered
  <2>1. \A c \in Connectors : Bears(c, tx[c], starts, stopped)
    BY NoTxBears DEF Init
  <2> QED
    BY <2>1 DEF Init, Numbered, StopOnce
<1>3. WatchdogMatches /\ ReservedIsHeld /\ ActiveIsShown /\ Unreserved
  BY DEF Init, WatchdogMatches, ReservedIsHeld, ActiveIsShown, Unreserved, Busy, NoTx
<1> QED
  BY <1>1, <1>2, <1>3 DEF LifecycleInv

LEMMA NextPreserves ==
  ASSUME LifecycleInv, [Next]_vars PROVE LifecycleInv'
<1>1. ASSUME NEW c \in Connectors, NEW t \in Tags, LocalStart(c, t) \/ RemoteStart(c, t)
      PROVE  LifecycleInv'
  BY <1>1, LocalStarts, RemoteStarts
<1>2. CASE ResumeStart
  BY <1>2, Resumes
<1>3. ASSUME NEW t \in Tags, NEW v \in {"accepted", "denied"}, AuthorizeResult(t, v)
      PROVE  LifecycleInv'
  BY <1>3, AuthorizeAnswered
<1>4. CASE AuthorizeTimeout
  BY <1>4, AuthorizeTimesOut
<1>5. ASSUME NEW call \in awaiting,
             \/ StartProceeds(call) \/ StartRefused(call)
             \/ StartFails(call) \/ StopConfirmed(call)
      PROVE  LifecycleInv'
  BY <1>5, StartIsConfirmed, StartIsRefused, StartHasFailed, StopIsConfirmed
<1>6. ASSUME NEW c \in Connectors, LocalStop(c) \/ RemoteStop(c) \/ UnlockConnector(c)
      PROVE  LifecycleInv'
  BY <1>6, OneStops
<1>7. CASE SoftReset \/ HardReset
  BY <1>7, SoftResets, HardResets
<1>8. CASE HandleChangeAvailability
  BY <1>8, AvailabilityChanges
<1>9. ASSUME NEW c \in Reservable,
             ReserveNow(c) \/ CancelReservation(c) \/ ReservationLapses(c)
      PROVE  LifecycleInv'
  <2>1. c \in Connectors
    BY TransactionAssumption DEF TransactionAssumption
  <2> QED
    BY <2>1, <1>9, Reserves, Cancels, Lapses
<1>10. CASE CleanupExpiredReservations
  BY <1>10, Sweeps
<1>11. ASSUME NEW c \in Attended, NEW s \in UserStatuses, SetStatus(c, s)
       PROVE  LifecycleInv'
  <2>1. /\ s \in {"Preparing", "Charging", "SuspendedEV", "SuspendedEVSE", "Finishing"}
        /\ c \in Connectors
    BY TransactionAssumption DEF TransactionAssumption
  <2> QED
    BY <2>1, <1>11, StatusChanges
<1>12. ASSUME NEW c \in Connectors, ConnectionTimeOut(c) PROVE LifecycleInv'
  BY <1>12, StatusChanges
<1>13. CASE SocketOpens \/ SocketCloses \/ BootNotAccepted
  BY <1>13, LinkChanges
<1>14. CASE Disconnect \/ SocketClosed
  BY <1>14, Disconnects
<1>15. CASE BootAccepted
  BY <1>15, Boots
<1>16. CASE UNCHANGED vars
  <2>1. Shown'
    BY <1>16, ShownKept DEF vars, linkVars, connectorVars
  <2> QED
    BY <1>16, <2>1, Otherwise
    DEF LifecycleInv, TypeOK, vars, linkVars, callVars, connectorVars
<1> QED
  BY <1>1, <1>2, <1>3, <1>4, <1>5, <1>6, <1>7, <1>8, <1>9, <1>10, <1>11, <1>12,
     <1>13, <1>14, <1>15, <1>16 DEF Next

(* The inductive invariant holds in every state.                           *)
THEOREM LifecycleInvariant == Spec => []LifecycleInv
<1>1. Init => LifecycleInv
  BY InitEstablishes
<1>2. LifecycleInv /\ [Next]_vars => LifecycleInv'
  BY NextPreserves
<1> QED
  BY <1>1, <1>2, PTL DEF Spec

(* Every variable keeps its type, whatever the connectors and the answers. *)
THEOREM LifecycleTypeCorrect == Spec => []TypeOK
<1>1. LifecycleInv => TypeOK
  BY DEF LifecycleInv
<1> QED
  BY <1>1, LifecycleInvariant, PTL

(* No transaction is stopped twice (StopTransaction.req of the user, of    *)
(* RemoteStop, Reset, UnlockConnector and of a refused start).             *)
THEOREM StopsAreSingle == Spec => []StopOnce
<1>1. LifecycleInv => StopOnce
  BY DEF LifecycleInv, Numbered
<1> QED
  BY <1>1, LifecycleInvariant, PTL

(* The ConnectionTimeOut watchdog of every connector agrees with its status*)
(* (updateConnectorStatus, teardownAfterClose, the accepted boot).         *)
THEOREM WatchdogAlwaysMatches == Spec => []WatchdogMatches
<1>1. LifecycleInv => WatchdogMatches
  BY DEF LifecycleInv
<1> QED
  BY <1>1, LifecycleInvariant, PTL

(* A Reserved connector has a reservation (Reservation.ts and every status *)
(* change of ChargePoint.ts).                                              *)
THEOREM ReservedStaysHeld == Spec => []ReservedIsHeld
<1>1. LifecycleInv => ReservedIsHeld
  BY DEF LifecycleInv
<1> QED
  BY <1>1, LifecycleInvariant, PTL

(* A connector with an open transaction is never shown as free or out of   *)
(* service.                                                                *)
THEOREM ActiveStaysShown == Spec => []ActiveIsShown
<1>1. LifecycleInv => ActiveIsShown
  BY DEF LifecycleInv
<1> QED
  BY <1>1, LifecycleInvariant, PTL

(* The id of a transaction is one the CSMS gave to its own connector.      *)
THEOREM IdsStayWithConnector == Spec => []IdsStayLocal
<1>1. LifecycleInv => IdsStayLocal
  BY DEF LifecycleInv, Numbered, Bears, Known, IdsStayLocal
<1> QED
  BY <1>1, LifecycleInvariant, PTL

(* No step changes the availability of a connector and leaves it with a    *)
(* transaction (ChangeAvailability.req waits for the stop).                *)
THEOREM AvailabilityWaits == Spec => AvailabilityDeferred
<1>1. ASSUME LifecycleInv, [Next]_vars, NEW c \in Connectors,
             availability'[c] # availability[c]
      PROVE  tx'[c] = NoTx
  <2>1. CASE UNCHANGED availability
    BY <1>1, <2>1
  <2>2. ASSUME NEW S \in SUBSET Connectors, Stopping(S) PROVE tx'[c] = NoTx
    BY <1>1, <2>2 DEF Stopping, Cleared, LifecycleInv, TypeOK
  <2>3. CASE HandleChangeAvailability
    <3>1. PICK S \in Ranges, target \in {"Operative", "Inoperative"} :
            ChangeAvailability(S, target)
      BY <2>3 DEF HandleChangeAvailability
    <3>2. c \in S /\ BusyIn(S) = {}
      BY <3>1, <1>1 DEF ChangeAvailability, LifecycleInv, TypeOK
    <3>3. UNCHANGED tx
      BY <2>3 DEF HandleChangeAvailability
    <3> QED
      BY <3>2, <3>3 DEF BusyIn, Busy
  <2>4. UNCHANGED availability \/ HandleChangeAvailability
        \/ \E S \in SUBSET Connectors : Stopping(S)
    <3>1. ASSUME NEW d \in Connectors, NEW t \in Tags,
                 LocalStart(d, t) \/ RemoteStart(d, t)
          PROVE  UNCHANGED availability
      BY <3>1 DEF LocalStart, RemoteStart, BeginTransaction, connectorVars
    <3>2. CASE ResumeStart \/ AuthorizeTimeout
      BY <3>2 DEF ResumeStart, AuthorizeTimeout, BeginTransaction, connectorVars
    <3>3. ASSUME NEW t \in Tags, NEW v \in {"accepted", "denied"}, AuthorizeResult(t, v)
          PROVE  UNCHANGED availability
      BY <3>3 DEF AuthorizeResult, connectorVars
    <3>4. ASSUME NEW call \in awaiting,
                 \/ StartProceeds(call) \/ StartRefused(call)
                 \/ StartFails(call) \/ StopConfirmed(call)
          PROVE  UNCHANGED availability \/ \E S \in SUBSET Connectors : Stopping(S)
      <4>1. CASE StartRefused(call)
        <5>1. {call.connector} \in SUBSET Connectors
          BY <1>1, <4>1, AnsweredCall DEF StartRefused
        <5> QED
          BY <5>1, <4>1 DEF StartRefused
      <4> QED
        BY <3>4, <4>1 DEF StartProceeds, StartFails, StopConfirmed
    <3>5. ASSUME NEW d \in Connectors,
                 LocalStop(d) \/ RemoteStop(d) \/ UnlockConnector(d)
          PROVE  \E S \in SUBSET Connectors : Stopping(S)
      BY <3>5 DEF LocalStop, RemoteStop, UnlockConnector, StopTransactions
    <3>6. CASE SoftReset \/ HardReset
      BY <3>6 DEF SoftReset, HardReset, StopTransactions
    <3>7. ASSUME NEW d \in Reservable,
                 ReserveNow(d) \/ CancelReservation(d) \/ ReservationLapses(d)
          PROVE  UNCHANGED availability
      BY <3>7 DEF ReserveNow, CancelReservation, ReservationLapses
    <3>8. CASE CleanupExpiredReservations \/ BootAccepted
      BY <3>8 DEF CleanupExpiredReservations, BootAccepted
    <3>9. ASSUME NEW d, NEW s, SetStatus(d, s) \/ ConnectionTimeOut(d)
          PROVE  UNCHANGED availability
      BY <3>9 DEF SetStatus, ConnectionTimeOut
    <3>10. CASE \/ SocketOpens \/ SocketCloses \/ Disconnect \/ SocketClosed
                \/ BootNotAccepted \/ UNCHANGED vars
      BY <3>10 DEF SocketOpens, SocketCloses, Disconnect, SocketClosed,
                   BootNotAccepted, vars, connectorVars
    <3> QED
      BY <1>1, <3>1, <3>2, <3>3, <3>4, <3>5, <3>6, <3>7, <3>8, <3>9, <3>10 DEF Next
  <2> QED
    BY <2>1, <2>2, <2>3, <2>4
<1>2. LifecycleInv /\ [Next]_vars =>
        [\A c \in Connectors :
           availability'[c] # availability[c] => tx'[c] = NoTx]_vars
  BY <1>1
<1> QED
  BY <1>2, LifecycleInvariant, PTL DEF Spec, AvailabilityDeferred
=============================================================================
