------------------------ MODULE TransactionLifecycle ------------------------
(***************************************************************************)
(* The connectors of an OCPP 1.6J charge point: status, transaction,       *)
(* ConnectionTimeOut watchdog, availability and reservation, driven by the *)
(* user, the CSMS, timers and the connection (ChargePoint.ts, Connector.ts,*)
(* Reservation.ts, the handlers of CALLs and of their results).            *)
(*                                                                         *)
(* OCPPMessageHandler models how CALLs travel.  Here a CALL that is queued *)
(* or sent is in "awaiting" until its answer is handled.  Answers come in  *)
(* any order, or never: a CALL that timed out leaves its place to the next *)
(* one and can still be answered.  CALLs nobody answers stay in the set.   *)
(*                                                                         *)
(* A step is a macrotask of the event loop, but for the continuations an   *)
(* await left behind: they run, the oldest first, before the next one.     *)
(* Of the statuses a step passes through only the last is kept.            *)
(*                                                                         *)
(* The CSMS assigns to a transaction the number it has here: an id of 0 is *)
(* one not known yet.  A definition F_Word is F with a plausible bug.      *)
(***************************************************************************)
EXTENDS Integers, Sequences

CONSTANTS
  Connectors,      \* the connectors, the first of them number 1
  Tags,            \* id tags presented to the charge point
  AutoReset,       \* connectors with autoResetToAvailable
  AuthorizeFirst,  \* values the key AuthorizeBeforeLocalStart takes
  AuthorizeRemote, \* values the key AuthorizeRemoteTxRequests takes
  StopOnInvalid,   \* values the key StopTransactionOnInvalidId takes
  UserStatuses,    \* statuses a user, scenario or schedule sets directly
  Attended,        \* connectors whose status they set
  Reservable,      \* connectors the CSMS reserves
  Ranges,          \* sets of connectors it changes the availability of
  MaxTx,           \* bound: transactions begun
  MaxWaiting       \* bound: starts parked at a time

ASSUME TransactionAssumption ==
  /\ Connectors \subseteq Nat \ {0}
  /\ 1 \in Connectors
  /\ AutoReset \subseteq Connectors
  /\ AuthorizeFirst \subseteq BOOLEAN
  /\ AuthorizeRemote \subseteq BOOLEAN
  /\ StopOnInvalid \subseteq BOOLEAN
  /\ UserStatuses \subseteq {"Preparing", "Charging", "SuspendedEV",
                             "SuspendedEVSE", "Finishing"}
  /\ Attended \subseteq Connectors
  /\ Reservable \subseteq Connectors
  /\ Ranges \subseteq {{c} : c \in Connectors} \cup {Connectors}
  /\ MaxTx \in Nat
  /\ MaxWaiting \in Nat

VARIABLES
  link,         \* "down", "up" or "closing": the socket, send() works if "up"
  gateOpen,     \* the boot gate lets CALLs pass
  booted,       \* a boot was accepted since the last teardown
  awaiting,     \* CALLs of the lifecycle that may still be answered
  stored,       \* transaction CALLs kept until the next accepted boot
  status,       \* per connector
  availability, \* per connector, "Operative" or "Inoperative"
  scheduled,    \* per connector, the deferred availability or "none"
  tx,           \* per connector, the transaction object or NoTx
  timers,       \* connectors with an armed ConnectionTimeOut
  reservation,  \* per connector, "none", "held" or "lapsed" (expiry passed)
  sweeping,     \* the reservation clean-up timer runs
  waiting,      \* the starts parked in authorizeAndWait, oldest first
  starts,       \* history: the connector of each transaction, in order
  stopped,      \* history: transactions a StopTransaction was issued for
  restopped     \* history: those it was issued for again

linkVars == <<link, gateOpen, booted>>
callVars == <<awaiting, stored>>
connectorVars == <<status, availability, scheduled, tx, timers, reservation>>
historyVars == <<starts, stopped, restopped>>
vars == <<linkVars, callVars, connectorVars, sweeping, waiting, historyVars>>

-----------------------------------------------------------------------------
Statuses == {"Available", "Preparing", "Charging", "SuspendedEV",
             "SuspendedEVSE", "Finishing", "Reserved", "Unavailable"}

(* A transaction: its number, the id the CSMS gave it, not yet stopped.    *)
Tx == [no : Nat, id : Nat, open : BOOLEAN]
NoTx == [no |-> 0, id |-> 0, open |-> FALSE]
Busy(c) == tx[c] # NoTx

StartCall(c, n) == [kind |-> "start", connector |-> c, no |-> n, tag |-> "-"]
StopCall(c, n)  == [kind |-> "stop", connector |-> c, no |-> n, tag |-> "-"]
AuthCall(t)     == [kind |-> "authorize", connector |-> 0, no |-> 0, tag |-> t]
Calls == [kind : {"start", "stop", "authorize"}, connector : Connectors \cup {0},
          no : Nat, tag : Tags \cup {"-"}]

(* A parked start, and what the promise it awaits was resolved with.       *)
Waiter == [connector : Connectors, tag : Tags,
           verdict : {"none", "accepted", "denied"}]
Parked(c, t) == [connector |-> c, tag |-> t, verdict |-> "none"]
Resolved(w, v) == [connector |-> w.connector, tag |-> w.tag, verdict |-> v]

Idle == \A i \in DOMAIN waiting : waiting[i].verdict = "none"
MayStart == Idle /\ Len(starts) + Len(waiting) < MaxTx

Init ==
  /\ link = "down"
  /\ gateOpen = FALSE
  /\ booted = FALSE
  /\ awaiting = {}
  /\ stored = {}
  /\ status = [c \in Connectors |-> "Unavailable"]
  /\ availability = [c \in Connectors |-> "Operative"]
  /\ scheduled = [c \in Connectors |-> "none"]
  /\ tx = [c \in Connectors |-> NoTx]
  /\ timers = {}
  /\ reservation = [c \in Connectors |-> "none"]
  /\ sweeping = TRUE
  /\ waiting = <<>>
  /\ starts = <<>>
  /\ stopped = {}
  /\ restopped = {}

-----------------------------------------------------------------------------
(* What several operations do.                                             *)

(* Issue CALLs: suppressed by the gate, queued, or stored while offline.   *)
Kept == {"start", "stop"}

Issue(calls) ==
  \/ ~gateOpen /\ UNCHANGED callVars
  \/ /\ gateOpen /\ link = "up"
     /\ awaiting' = awaiting \cup calls
     /\ UNCHANGED stored
  \/ /\ gateOpen /\ link # "up"
     /\ stored' = stored \cup {call \in calls : call.kind \in Kept}
     /\ UNCHANGED awaiting

(* updateConnectorStatus, for every connector of S: entering Preparing     *)
(* arms the watchdog, any other status cancels it.                         *)
Armed_Kept(S, now) == timers \cup {c \in S : now[c] = "Preparing"}

Armed(S, now) == (timers \ S) \cup {c \in S : now[c] = "Preparing"}

Show(S, now) ==
  /\ status' = [c \in Connectors |-> IF c \in S THEN now[c] ELSE status[c]]
  /\ timers' = Armed(S, now)

ShowOne(c, s) == Show({c}, [d \in {c} |-> s])

(* cleanupExpiredReservations, and what is left of them afterwards.        *)
Lapsed == {c \in Connectors : reservation[c] = "lapsed"}
Returned_Never == {}
Returned == {c \in Lapsed : status[c] = "Reserved"}
Live(c) == IF c \in Lapsed THEN "none" ELSE reservation[c]

(* startTransaction past its guards: the reservation of the connector is   *)
(* consumed whoever made it, the transaction begins in Preparing.          *)
BeginTransaction(c, before) ==
  LET n   == Len(starts) + 1
      now == [d \in Returned \cup {c} |->
                IF d = c THEN "Preparing" ELSE "Available"]
  IN /\ tx' = [tx EXCEPT ![c] = [no |-> n, id |-> 0, open |-> TRUE]]
     /\ starts' = Append(starts, c)
     /\ reservation' = [d \in Connectors |-> IF d = c THEN "none" ELSE Live(d)]
     /\ Show(Returned \cup {c}, now)
     /\ Issue(before \cup {StartCall(c, n)})
     /\ UNCHANGED <<linkVars, availability, scheduled, sweeping, stopped,
                    restopped>>

(* stopTransaction, for every connector of S: the transaction ends, then a *)
(* deferred ChangeAvailability is applied.                                 *)
Deferred(c) == scheduled[c] \notin {"none", availability[c]}

ShownAs(target) == IF target = "Operative" THEN "Available" ELSE "Unavailable"

AfterStop(c) ==
  IF Deferred(c) THEN ShownAs(scheduled[c])
  ELSE IF c \in AutoReset THEN "Available" ELSE "Finishing"

Cleared_ByAnswer(S) == tx
Cleared(S) == [c \in Connectors |-> IF c \in S THEN NoTx ELSE tx[c]]

Stopping(S) ==
  LET ended == {tx[c].no : c \in S} IN
    /\ tx' = Cleared(S)
    /\ availability' = [c \in Connectors |->
         IF c \in S /\ Deferred(c) THEN scheduled[c] ELSE availability[c]]
    /\ scheduled' = [c \in Connectors |-> IF c \in S THEN "none"
                                                    ELSE scheduled[c]]
    /\ stopped' = stopped \cup ended
    /\ restopped' = restopped \cup (ended \cap stopped)

StopTransactions(S) ==
  /\ Stopping(S)
  /\ Show(S, [c \in S |-> AfterStop(c)])
  /\ Issue({StopCall(c, tx[c].no) : c \in S})
  /\ UNCHANGED <<linkVars, reservation, sweeping, waiting, starts>>

(* teardownAfterClose.  Connectors in a transaction keep their status; the *)
(* clean-up timer, started by the constructor only, never runs again.      *)
Teardown ==
  /\ status' = [c \in Connectors |->
       IF tx'[c] = NoTx THEN "Unavailable" ELSE status[c]]
  /\ timers' = {}
  /\ reservation' = [c \in Connectors |-> "none"]
  /\ sweeping' = FALSE
  /\ booted' = FALSE

-----------------------------------------------------------------------------
(* Starting.                                                               *)

Startable(c) == ~tx[c].open /\ availability[c] = "Operative"

(* startTransaction by the user, the CLI or a scenario.                    *)
LocalStart(c, t) ==
  /\ MayStart
  /\ Startable(c)
  /\ \/ /\ FALSE \in AuthorizeFirst
        /\ BeginTransaction(c, {})
        /\ UNCHANGED waiting
     \/ /\ TRUE \in AuthorizeFirst
        /\ Len(waiting) < MaxWaiting
        /\ Issue({AuthCall(t)})
        /\ waiting' = Append(waiting, Parked(c, t))
        /\ UNCHANGED <<linkVars, connectorVars, sweeping, historyVars>>

(* What follows the await: no guard of an accepted start is checked again, *)
(* a denied one returns.                                                   *)
Without(i) == SubSeq(waiting, 1, i - 1) \o SubSeq(waiting, i + 1, Len(waiting))

ResumeStart ==
  \E i \in DOMAIN waiting :
    /\ waiting[i].verdict # "none"
    /\ \A j \in 1..(i - 1) : waiting[j].verdict = "none"
    /\ waiting' = Without(i)
    /\ \/ /\ waiting[i].verdict = "accepted"
          /\ BeginTransaction(waiting[i].connector, {})
       \/ /\ waiting[i].verdict = "denied"
          /\ UNCHANGED <<linkVars, callVars, connectorVars, sweeping,
                         historyVars>>

(* The answer to Authorize resolves every start waiting for the tag.       *)
AuthorizeResult(t, verdict) ==
  /\ Idle
  /\ link = "up"
  /\ AuthCall(t) \in awaiting
  /\ awaiting' = awaiting \ {AuthCall(t)}
  /\ waiting' = [i \in DOMAIN waiting |->
       IF waiting[i].tag = t THEN Resolved(waiting[i], verdict) ELSE waiting[i]]
  /\ UNCHANGED <<linkVars, stored, connectorVars, sweeping, historyVars>>

(* 10 s without an answer: the start proceeds as if it were accepted.      *)
ParkedTooLong_WhileConnected == waiting # <<>> /\ link = "up"
ParkedTooLong == waiting # <<>>

AuthorizeTimeout ==
  /\ Idle
  /\ ParkedTooLong
  /\ waiting' = [i \in DOMAIN waiting |->
       IF i = 1 THEN Resolved(waiting[1], "accepted") ELSE waiting[i]]
  /\ UNCHANGED <<linkVars, callVars, connectorVars, sweeping, historyVars>>

(* RemoteStartTransaction.req on a connector no scenario waits for.  With  *)
(* AuthorizeRemoteTxRequests the Authorize.req is sent but not awaited.    *)
RemoteStart(c, t) ==
  /\ MayStart
  /\ link = "up"
  /\ availability[c] = "Operative"
  /\ \E first \in AuthorizeRemote :
       LET auth == IF first THEN {AuthCall(t)} ELSE {} IN
         \/ Startable(c) /\ BeginTransaction(c, auth)
         \/ /\ ~Startable(c)
            /\ Issue(auth)
            /\ UNCHANGED <<linkVars, connectorVars, sweeping, historyVars>>
  /\ UNCHANGED waiting

(* Start.conf goes to the connector of the request, whatever it does now:  *)
(* an accepted transaction, or a refused one that may go on, is charging.  *)
Confirmed_FirstConnector(call) ==
  [tx EXCEPT ![1].id = IF Busy(1) THEN call.no ELSE @]

Confirmed(call) ==
  LET c == call.connector IN
    [tx EXCEPT ![c].id = IF Busy(c) THEN call.no ELSE @]

Answered(call, kind) ==
  /\ Idle
  /\ link = "up"
  /\ call \in awaiting
  /\ call.kind = kind

StartProceeds(call) ==
  LET c == call.connector IN
    /\ Answered(call, "start")
    /\ tx' = Confirmed(call)
    /\ awaiting' = awaiting \ {call}
    /\ \/ status[c] # "Charging" /\ ShowOne(c, "Charging")
       \/ status[c] = "Charging" /\ UNCHANGED <<status, timers>>
    /\ UNCHANGED <<linkVars, stored, availability, scheduled, reservation,
                   sweeping, waiting, historyVars>>

(* Start.conf not accepted, with StopTransactionOnInvalidId.               *)
StartRefused(call) ==
  LET c == call.connector IN
    /\ TRUE \in StopOnInvalid
    /\ Answered(call, "start")
    /\ \/ /\ Busy(c)
          /\ Stopping({c})
          /\ ShowOne(c, AfterStop(c))
          /\ \/ gateOpen /\ awaiting' = (awaiting \ {call})
                                          \cup {StopCall(c, tx[c].no)}
             \/ ~gateOpen /\ awaiting' = awaiting \ {call}
       \/ /\ ~Busy(c)
          /\ awaiting' = awaiting \ {call}
          /\ UNCHANGED <<status, availability, scheduled, tx, timers, stopped,
                         restopped>>
    /\ UNCHANGED <<linkVars, stored, reservation, sweeping, waiting, starts>>

(* CALLERROR: the transaction is closed but its object stays.              *)
StartFails(call) ==
  LET c == call.connector IN
    /\ Answered(call, "start")
    /\ tx' = [tx EXCEPT ![c].open = FALSE]
    /\ ShowOne(c, "Available")
    /\ awaiting' = awaiting \ {call}
    /\ UNCHANGED <<linkVars, stored, availability, scheduled, reservation,
                   sweeping, waiting, historyVars>>

(* Stop.conf clears whatever transaction the connector has by now.         *)
StopConfirmed(call) ==
  LET c == call.connector IN
    /\ Answered(call, "stop")
    /\ tx' = [tx EXCEPT ![c] = NoTx]
    /\ \/ /\ c \in AutoReset /\ status[c] # "Available"
          /\ ShowOne(c, "Available")
       \/ /\ ~(c \in AutoReset /\ status[c] # "Available")
          /\ UNCHANGED <<status, timers>>
    /\ awaiting' = awaiting \ {call}
    /\ UNCHANGED <<linkVars, stored, availability, scheduled, reservation,
                   sweeping, waiting, historyVars>>

-----------------------------------------------------------------------------
(* Stopping.                                                               *)

(* The user, a scenario, or the target state of charge.                    *)
LocalStop(c) == Idle /\ Busy(c) /\ StopTransactions({c})

(* RemoteStopTransaction.req names a transaction by its id.                *)
RemoteStop(c) ==
  /\ Idle
  /\ link = "up"
  /\ tx[c].id # 0
  /\ StopTransactions({c})

UnlockConnector(c) ==
  Idle /\ link = "up" /\ Busy(c) /\ StopTransactions({c})

(* applyRemoteReset: every transaction is stopped.  A soft reset boots     *)
(* again; a hard one disconnects and connects in the same macrotask.       *)
SoftReset ==
  Idle /\ link = "up" /\ StopTransactions({c \in Connectors : Busy(c)})

HardReset ==
  LET S == {c \in Connectors : Busy(c)} IN
    /\ Idle
    /\ link = "up"
    /\ Stopping(S)
    /\ Issue({StopCall(c, tx[c].no) : c \in S})
    /\ Teardown
    /\ link' = "down"
    /\ UNCHANGED <<gateOpen, waiting, starts>>

-----------------------------------------------------------------------------
(* Availability, reservations, status.                                     *)

(* ChangeAvailability.req for one connector, or for all of them.           *)
BusyIn_Running(S) == {c \in S : tx[c].open}
BusyIn(S) == {c \in S : Busy(c)}

ChangeAvailability(S, target) ==
  LET busy == BusyIn(S) IN
    \/ /\ busy = {}
       /\ availability' = [c \in Connectors |-> IF c \in S THEN target
                                                          ELSE availability[c]]
       /\ Show(S, [c \in S |-> ShownAs(target)])
       /\ UNCHANGED scheduled
    \/ /\ busy # {}
       /\ scheduled' = [c \in Connectors |-> IF c \in busy THEN target
                                                         ELSE scheduled[c]]
       /\ UNCHANGED <<availability, status, timers>>

HandleChangeAvailability ==
  /\ Idle
  /\ link = "up"
  /\ \E S \in Ranges, target \in {"Operative", "Inoperative"} :
       ChangeAvailability(S, target)
  /\ UNCHANGED <<linkVars, callVars, tx, reservation, sweeping, waiting,
                 historyVars>>

(* ReserveNow.req, for a new reservation id and an expiry in the future.   *)
ReserveNow(c) ==
  /\ Idle
  /\ link = "up"
  /\ status[c] # "Charging"
  /\ ~Busy(c)
  /\ availability[c] = "Operative"
  /\ \/ /\ Live(c) = "none"
        /\ reservation' = [d \in Connectors |-> IF d = c THEN "held" ELSE Live(d)]
        /\ Show(Returned \cup {c}, [d \in Returned \cup {c} |->
                                     IF d = c THEN "Reserved" ELSE "Available"])
     \/ /\ Live(c) = "held"
        /\ reservation' = [d \in Connectors |-> Live(d)]
        /\ Show(Returned, [d \in Returned |-> "Available"])
  /\ UNCHANGED <<linkVars, callVars, availability, scheduled, tx, sweeping,
                 waiting, historyVars>>

CancelReservation(c) ==
  /\ Idle
  /\ link = "up"
  /\ reservation[c] # "none"
  /\ reservation' = [reservation EXCEPT ![c] = "none"]
  /\ \/ status[c] = "Reserved" /\ ShowOne(c, "Available")
     \/ status[c] # "Reserved" /\ UNCHANGED <<status, timers>>
  /\ UNCHANGED <<linkVars, callVars, availability, scheduled, tx, sweeping,
                 waiting, historyVars>>

ReservationLapses(c) ==
  /\ Idle
  /\ reservation[c] = "held"
  /\ reservation' = [reservation EXCEPT ![c] = "lapsed"]
  /\ UNCHANGED <<linkVars, callVars, status, availability, scheduled, tx,
                 timers, sweeping, waiting, historyVars>>

(* The clean-up timer, every minute.                                       *)
CleanupExpiredReservations ==
  /\ Idle
  /\ sweeping
  /\ Lapsed # {}
  /\ reservation' = [c \in Connectors |-> Live(c)]
  /\ Show(Returned, [c \in Returned |-> "Available"])
  /\ UNCHANGED <<linkVars, callVars, availability, scheduled, tx, sweeping,
                 waiting, historyVars>>

(* updateConnectorStatus by a user, a scenario or the charging schedule.   *)
SetStatus(c, s) ==
  /\ Idle
  /\ ShowOne(c, s)
  /\ UNCHANGED <<linkVars, callVars, availability, scheduled, tx, reservation,
                 sweeping, waiting, historyVars>>

ConnectionTimeOut(c) ==
  /\ Idle
  /\ c \in timers
  /\ status[c] = "Preparing"
  /\ ShowOne(c, "Finishing")
  /\ UNCHANGED <<linkVars, callVars, availability, scheduled, tx, reservation,
                 sweeping, waiting, historyVars>>

-----------------------------------------------------------------------------
(* The connection.                                                         *)

SocketOpens ==
  /\ Idle
  /\ link = "down"
  /\ link' = "up"
  /\ UNCHANGED <<gateOpen, booted, callVars, connectorVars, sweeping, waiting,
                 historyVars>>

(* onBootNotificationAccepted.                                             *)
Booted_Always(c) == IF c \in AutoReset THEN "Available" ELSE status[c]

Booted(c) == IF c \in AutoReset /\ ~Busy(c) THEN "Available" ELSE status[c]

BootAccepted ==
  /\ Idle
  /\ link = "up"
  /\ gateOpen' = TRUE
  /\ booted' = TRUE
  /\ Show(Connectors, [c \in Connectors |-> Booted(c)])
  /\ awaiting' = awaiting \cup stored
  /\ stored' = {}
  /\ UNCHANGED <<link, availability, scheduled, tx, reservation, sweeping,
                 waiting, historyVars>>

(* BootNotification.conf Pending or Rejected.                              *)
BootNotAccepted ==
  /\ Idle
  /\ link = "up"
  /\ gateOpen' = FALSE
  /\ UNCHANGED <<link, booted, callVars, connectorVars, sweeping, waiting,
                 historyVars>>

SocketCloses ==
  /\ Idle
  /\ link = "up"
  /\ link' = "closing"
  /\ UNCHANGED <<gateOpen, booted, callVars, connectorVars, sweeping, waiting,
                 historyVars>>

(* disconnect(): torn down at once, the close event is still to come.      *)
Disconnect ==
  /\ Idle
  /\ link' = IF link = "down" THEN "down" ELSE "closing"
  /\ UNCHANGED tx
  /\ Teardown
  /\ UNCHANGED <<gateOpen, callVars, availability, scheduled, waiting,
                 historyVars>>

(* onclose, of a failed attempt to connect too.  "disconnected" resolves   *)
(* every parked start as accepted.                                         *)
SocketClosed ==
  /\ Idle
  /\ link' = "down"
  /\ UNCHANGED tx
  /\ Teardown
  /\ waiting' = [i \in DOMAIN waiting |-> Resolved(waiting[i], "accepted")]
  /\ UNCHANGED <<gateOpen, callVars, availability, scheduled, historyVars>>

Next ==
  \/ \E c \in Connectors, t \in Tags : LocalStart(c, t) \/ RemoteStart(c, t)
  \/ ResumeStart
  \/ \E t \in Tags, verdict \in {"accepted", "denied"} : AuthorizeResult(t, verdict)
  \/ AuthorizeTimeout
  \/ \E call \in awaiting : \/ StartProceeds(call) \/ StartRefused(call)
                             \/ StartFails(call) \/ StopConfirmed(call)
  \/ \E c \in Connectors : LocalStop(c) \/ RemoteStop(c) \/ UnlockConnector(c)
  \/ SoftReset \/ HardReset
  \/ HandleChangeAvailability
  \/ \E c \in Reservable : \/ ReserveNow(c) \/ CancelReservation(c)
                            \/ ReservationLapses(c)
  \/ CleanupExpiredReservations
  \/ \E c \in Attended, s \in UserStatuses : SetStatus(c, s)
  \/ \E c \in Connectors : ConnectionTimeOut(c)
  \/ SocketOpens \/ SocketCloses \/ Disconnect \/ SocketClosed
  \/ BootAccepted \/ BootNotAccepted

Spec == Init /\ [][Next]_vars

(* Armed timers fire, continuations run.                                   *)
Fairness ==
  /\ WF_vars(ResumeStart)
  /\ WF_vars(AuthorizeTimeout)
  /\ WF_vars(CleanupExpiredReservations)

FairSpec == Spec /\ Fairness

-----------------------------------------------------------------------------
(* The state of every variable.                                            *)
TypeOK ==
  /\ link \in {"down", "up", "closing"}
  /\ gateOpen \in BOOLEAN
  /\ booted \in BOOLEAN
  /\ awaiting \subseteq Calls
  /\ stored \subseteq Calls
  /\ status \in [Connectors -> Statuses]
  /\ availability \in [Connectors -> {"Operative", "Inoperative"}]
  /\ scheduled \in [Connectors -> {"none", "Operative", "Inoperative"}]
  /\ tx \in [Connectors -> Tx]
  /\ timers \subseteq Connectors
  /\ reservation \in [Connectors -> {"none", "held", "lapsed"}]
  /\ sweeping \in BOOLEAN
  /\ waiting \in Seq(Waiter)
  /\ starts \in Seq(Connectors)
  /\ stopped \subseteq Nat
  /\ restopped \subseteq stopped

(* StopTransaction.req is issued at most once per transaction, however many*)
(* of the user, the CSMS, a reset and a late refusal want it stopped.      *)
StopOnce == restopped = {}

(* The ConnectionTimeOut watchdog runs exactly while it should: only in    *)
(* Preparing, and, once booted, whenever in Preparing; also for a          *)
(* transaction that outlived a disconnection in Preparing.                 *)
WatchdogMatches ==
  \A c \in Connectors :
    /\ c \in timers => status[c] = "Preparing"
    /\ booted /\ status[c] = "Preparing" => c \in timers

(* A connector shown Reserved has a reservation that can end it: no        *)
(* consumption, cancel, expiry, reset or disconnection leaves it behind.   *)
ReservedIsHeld ==
  \A c \in Connectors : status[c] = "Reserved" => reservation[c] # "none"

(* A running transaction is never hidden: while it is open, its connector  *)
(* is not offered as Available, Reserved or Unavailable, not even by a     *)
(* disconnection, a re-boot, an expiry or a deferred ChangeAvailability.   *)
ActiveIsShown ==
  \A c \in Connectors :
    tx[c].open => status[c] \notin {"Available", "Reserved", "Unavailable"}

(* The id a transaction carries was assigned to a transaction of the same  *)
(* connector, although answers come late and to whatever runs there now.   *)
IdsStayLocal ==
  \A c \in Connectors : tx[c].id # 0 => starts[tx[c].id] = c

(* ChangeAvailability never takes effect under a transaction, open or not  *)
(* yet cleared: it waits for the stop, whoever asked for which connectors. *)
AvailabilityDeferred ==
  [][\A c \in Connectors : availability'[c] # availability[c] => tx'[c] = NoTx]_vars

(* A start parked on Authorize.req proceeds or is refused in the end, even *)
(* when the Authorize.req was suppressed, lost or never answered.          *)
StartsUnpark == waiting # <<>> ~> waiting = <<>>
=============================================================================
