-------------------------- MODULE TransactionEvents --------------------------
(***************************************************************************)
(* The TransactionEvent requests of an OCPP 2.0.1 / 2.1 charge point and   *)
(* what a restart of the daemon does to them (OCPPMessageHandlerV201.ts,   *)
(* v201/transactionControlV201.ts, v201/coreControlV201.ts, ChargePoint.ts,*)
(* Connector.ts, the connector_runtime rows of service.ts and CPRegistry). *)
(*                                                                         *)
(* A transaction is known to the CSMS by an id the charge point mints, and *)
(* its events by a sequence number.  Both live in the Transaction object;  *)
(* the row of its connector is rewritten by certain events of the          *)
(* connector only, so what is on disk may be behind.                       *)
(*                                                                         *)
(* A step is a macrotask.  A crash falls between two of them; SIGTERM is a *)
(* Disconnect and then a Crash.  F_Word is F with a plausible bug.         *)
(***************************************************************************)
EXTENDS Integers, Sequences

CONSTANTS
  Connectors,
  AutoReset,      \* connectors with autoResetToAvailable
  AuthorizeFirst, \* values of authorizeBeforeLocalStart
  UserStatuses,   \* statuses a user, scenario, schedule or timer sets
  RawStatuses,    \* charging states notified raw and not suppressed
  Targets,        \* availabilities the CSMS asks for
  MaxTx,          \* bound: transactions begun per connector
  MaxParked,      \* bound: parked starts per connector
  MaxEvents,      \* bound: TransactionEvents per connector
  MaxRestarts     \* bound: restarts and replacements of the service

ASSUME EventsAssumption ==
  /\ AutoReset \subseteq Connectors
  /\ AuthorizeFirst \subseteq BOOLEAN
  /\ UserStatuses \subseteq {"Available", "Preparing", "Charging",
                             "SuspendedEV", "SuspendedEVSE", "Finishing"}
  /\ RawStatuses \subseteq {"Charging", "SuspendedEV", "SuspendedEVSE"}
  /\ Targets \subseteq {"Operative", "Inoperative"}
  /\ {MaxTx, MaxParked, MaxEvents, MaxRestarts} \subseteq Nat

VARIABLES
  link,     \* "down", "up" or "closing": send() drops unless "up"
  runtime,  \* per connector, what its object holds
  disk,     \* per connector, its row in connector_runtime
  parked,   \* per connector, the starts waiting in authorizeAndWait
  begun,    \* history: transactions begun per connector
  minted,   \* history: ids minted per connector
  events,   \* history: per connector, the TransactionEvents issued
  restarts  \* history: how often memory was lost

vars == <<link, runtime, disk, parked, begun, minted, events, restarts>>

-----------------------------------------------------------------------------
ChargingStates == {"Charging", "SuspendedEV", "SuspendedEVSE"}
Statuses == ChargingStates \cup {"Available", "Preparing", "Finishing",
                                 "Unavailable"}

(* no: which transaction it is; id: cpTransactionId, 0 when undefined;     *)
(* seq: cpNextSeqNo; last: the charging state last told ("Charging" when   *)
(* undefined, as the code reads it).                                       *)
Tx == [no : Nat, id : Nat, seq : Nat, last : ChargingStates]
NoTx == [no |-> 0, id |-> 0, seq |-> 0, last |-> "Charging"]

Runtime == [status : Statuses, availability : {"Operative", "Inoperative"},
            scheduled : {"none", "Operative", "Inoperative"}, tx : Tx]
Fresh == [status |-> "Unavailable", availability |-> "Operative",
          scheduled |-> "none", tx |-> NoTx]

Event == [no : Nat, id : Nat, seq : Nat,
          type : {"Started", "Updated", "Ended"}, state : ChargingStates,
          delivered : BOOLEAN]

Busy(c) == runtime[c].tx # NoTx

Init ==
  /\ link = "down"
  /\ runtime = [c \in Connectors |-> Fresh]
  /\ disk = [c \in Connectors |-> Fresh]
  /\ parked = [c \in Connectors |-> 0]
  /\ begun = [c \in Connectors |-> 0]
  /\ minted = [c \in Connectors |-> 0]
  /\ events = [c \in Connectors |-> <<>>]
  /\ restarts = 0

-----------------------------------------------------------------------------
(* What several operations do.                                             *)

(* The id an event of the transaction carries: its own, or a new one.      *)
Mints(t) == t.id = 0
IdOf(c, t) == IF Mints(t) THEN minted[c] + 1 ELSE t.id

EventOf(c, t, type, state) ==
  [no |-> t.no, id |-> IdOf(c, t), seq |-> t.seq, type |-> type,
   state |-> state, delivered |-> link = "up"]

(* The transaction once that event is issued: the number is used up even   *)
(* when send() drops the request.                                          *)
Numbered(c, t, state) ==
  [t EXCEPT !.id = IdOf(c, t), !.seq = t.seq + 1, !.last = state]

(* The events S issue, at most one each; told[c] is that of c.             *)
Issue(S, told) ==
  /\ events' = [c \in Connectors |->
       IF c \in S THEN Append(events[c], told[c]) ELSE events[c]]
  /\ minted' = [c \in Connectors |->
       IF c \in S /\ told[c].id > minted[c] THEN told[c].id ELSE minted[c]]
  /\ \A c \in S : Len(events[c]) < MaxEvents

(* sendChargingStateChanged: tells a state that was not the last one told, *)
(* and saves the row before it sends.                                      *)
Tells(t, s) == s \in ChargingStates /\ t # NoTx /\ t.last # s

Told(c, s) ==
  IF Tells(runtime[c].tx, s)
  THEN [runtime[c] EXCEPT !.tx = Numbered(c, runtime[c].tx, s)]
  ELSE runtime[c]

(* Saved with the number still unused: markTransactionChanged left out.    *)
Row_Early(c, s) == [runtime[c] EXCEPT !.status = s]
Row(c, s) == [Told(c, s) EXCEPT !.status = s]

(* updateConnectorStatus for every connector of S: the row is saved, then  *)
(* StatusNotification and perhaps TransactionEvent are sent.               *)
Show(S, now) ==
  /\ runtime' = [c \in Connectors |->
       IF c \in S THEN [Told(c, now[c]) EXCEPT !.status = now[c]] ELSE runtime[c]]
  /\ disk' = [c \in Connectors |-> IF c \in S THEN Row(c, now[c]) ELSE disk[c]]
  /\ LET telling == {c \in S : Tells(runtime[c].tx, now[c])} IN
       Issue(telling, [c \in telling |->
               EventOf(c, runtime[c].tx, "Updated", now[c])])

(* startTransaction past its guards.  The row is saved when the transaction*)
(* begins and when Preparing is shown; the id is minted after that.        *)
BeginTransaction(c) ==
  LET t     == [NoTx EXCEPT !.no = begun[c] + 1]
      shown == [runtime[c] EXCEPT !.status = "Preparing", !.tx = t]
  IN /\ begun[c] < MaxTx
     /\ begun' = [begun EXCEPT ![c] = @ + 1]
     /\ runtime' = [runtime EXCEPT ![c] =
                      [shown EXCEPT !.tx = Numbered(c, t, "Charging")]]
     /\ disk' = [disk EXCEPT ![c] = shown]
     /\ Issue({c}, [d \in {c} |-> EventOf(c, t, "Started", "Charging")])
     /\ UNCHANGED <<link, restarts>>

(* stopTransaction for every connector of S.  scheduledAvailability is     *)
(* reset last, after the row was saved.                                    *)
Deferred(c) == runtime[c].scheduled \notin {"none", runtime[c].availability}
ShownAs(target) == IF target = "Operative" THEN "Available" ELSE "Unavailable"

Stopped(c) ==
  [status |-> IF Deferred(c) THEN ShownAs(runtime[c].scheduled)
              ELSE IF c \in AutoReset THEN "Available" ELSE "Finishing",
   availability |-> IF Deferred(c) THEN runtime[c].scheduled
                    ELSE runtime[c].availability,
   scheduled |-> "none",
   tx |-> NoTx]

(* The last row saved when a transaction ends.                             *)
StoppedRow_Unsaved(c) == disk[c]
StoppedRow(c) == [Stopped(c) EXCEPT !.scheduled = runtime[c].scheduled]

StopTransactions(S) ==
  /\ runtime' = [c \in Connectors |-> IF c \in S THEN Stopped(c) ELSE runtime[c]]
  /\ disk' = [c \in Connectors |-> IF c \in S THEN StoppedRow(c) ELSE disk[c]]
  /\ Issue(S, [c \in S |-> EventOf(c, runtime[c].tx, "Ended",
                                   runtime[c].tx.last)])
  /\ UNCHANGED <<link, parked, begun, restarts>>

(* teardownAfterClose: idle connectors become Unavailable, and are saved.  *)
TornDown(c) ==
  IF Busy(c) THEN runtime[c] ELSE [runtime[c] EXCEPT !.status = "Unavailable"]

TearDown ==
  disk' = [c \in Connectors |->
             IF TornDown(c) = runtime[c] THEN disk[c] ELSE TornDown(c)]

-----------------------------------------------------------------------------
(* Starting and stopping.                                                  *)

Startable(c) == ~Busy(c) /\ runtime[c].availability = "Operative"

(* A start by the user, the CLI or a scenario.                             *)
LocalStart(c) ==
  /\ Startable(c)
  /\ \/ /\ FALSE \in AuthorizeFirst
        /\ BeginTransaction(c)
        /\ UNCHANGED parked
     \/ /\ TRUE \in AuthorizeFirst
        /\ parked[c] < MaxParked
        /\ parked' = [parked EXCEPT ![c] = @ + 1]
        /\ UNCHANGED <<link, runtime, disk, begun, minted, events,
                       restarts>>

(* A parked start goes on when it is authorized, after 10 s, and after a   *)
(* disconnection; no guard is checked again.  In which order parked starts *)
(* go on is left open.                                                     *)
ResumeStart(c) ==
  /\ parked[c] > 0
  /\ parked' = [parked EXCEPT ![c] = @ - 1]
  /\ BeginTransaction(c)

(* Authorize.conf denies it, or a CALLERROR does.                          *)
RefuseStart(c) ==
  /\ parked[c] > 0
  /\ link = "up"
  /\ parked' = [parked EXCEPT ![c] = @ - 1]
  /\ UNCHANGED <<link, runtime, disk, begun, minted, events, restarts>>

RequestStartTransaction(c) ==
  /\ link = "up"
  /\ Startable(c)
  /\ BeginTransaction(c)
  /\ UNCHANGED parked

LocalStop(c) == Busy(c) /\ StopTransactions({c})

(* RequestStopTransaction names the transaction by its id.                 *)
RequestStopTransaction(c) ==
  link = "up" /\ runtime[c].tx.id # 0 /\ StopTransactions({c})

(* Reset for a connector or all: OnIdle with a transaction is answered     *)
(* Scheduled and does nothing; ImmediateAndResume stops none.  The boot    *)
(* that follows is BootAccepted.                                           *)
Reset(S) ==
  LET busy == {c \in S : Busy(c)} IN
    link = "up" /\ busy # {} /\ StopTransactions(busy)

-----------------------------------------------------------------------------
(* Status and availability.                                                *)

SetStatus(c, s) ==
  /\ Show({c}, [d \in {c} |-> s])
  /\ UNCHANGED <<link, parked, begun, restarts>>

(* A raw StatusNotification, or the current one on TriggerMessage: the     *)
(* connector keeps its status.                                             *)
NotifyStatus(c, s) ==
  /\ s \in RawStatuses \/ (link = "up" /\ s = runtime[c].status)
  /\ Tells(runtime[c].tx, s)
  /\ runtime' = [runtime EXCEPT ![c] = Told(c, s)]
  /\ disk' = [disk EXCEPT ![c] = Told(c, s)]
  /\ Issue({c}, [d \in {c} |-> EventOf(c, runtime[c].tx, "Updated", s)])
  /\ UNCHANGED <<link, parked, begun, restarts>>

(* Meter, state of charge or the position of a scenario change: the row is *)
(* saved as it is.                                                         *)
SaveRuntime(c) ==
  /\ disk[c] # runtime[c]
  /\ disk' = [disk EXCEPT ![c] = runtime[c]]
  /\ UNCHANGED <<link, runtime, parked, begun, minted, events, restarts>>

(* ChangeAvailability for a connector or all: with a transaction in it it  *)
(* is only noted, for the busy ones, and not saved.                        *)
ChangeAvailability(S, target) ==
  LET busy == {c \in S : Busy(c)}
      changed == [c \in Connectors |->
        IF busy = {} /\ c \in S
        THEN [runtime[c] EXCEPT !.availability = target,
                                !.status = ShownAs(target)]
        ELSE IF c \in busy THEN [runtime[c] EXCEPT !.scheduled = target]
        ELSE runtime[c]]
  IN /\ link = "up"
     /\ runtime' = changed
     /\ disk' = [c \in Connectors |->
          IF busy = {} /\ c \in S THEN changed[c] ELSE disk[c]]
     /\ UNCHANGED <<link, parked, begun, minted, events, restarts>>

-----------------------------------------------------------------------------
(* The connection and the process.                                         *)

SocketOpens ==
  /\ link = "down"
  /\ link' = "up"
  /\ UNCHANGED <<runtime, disk, parked, begun, minted, events, restarts>>

(* onBootNotificationAccepted shows every connector again.                 *)
BootAccepted ==
  /\ link = "up"
  /\ Show(Connectors, [c \in Connectors |->
       IF c \in AutoReset /\ ~Busy(c) THEN "Available" ELSE runtime[c].status])
  /\ UNCHANGED <<link, parked, begun, restarts>>

SocketCloses ==
  /\ link = "up"
  /\ link' = "closing"
  /\ UNCHANGED <<runtime, disk, parked, begun, minted, events, restarts>>

(* disconnect(), or the close event.                                       *)
Disconnected ==
  /\ link' \in IF link = "down" THEN {"down"} ELSE {"down", "closing"}
  /\ runtime' = [c \in Connectors |-> TornDown(c)]
  /\ TearDown
  /\ UNCHANGED <<parked, begun, minted, events, restarts>>

(* The process dies; CPRegistry.restoreFromDatabase reads the rows back.   *)
Restored_Fresh(c) == [disk[c] EXCEPT !.tx.seq = 0]
Restored(c) == disk[c]

Crash ==
  /\ restarts < MaxRestarts
  /\ restarts' = restarts + 1
  /\ link' = "down"
  /\ runtime' = [c \in Connectors |-> Restored(c)]
  /\ parked' = [c \in Connectors |-> 0]
  /\ UNCHANGED <<disk, begun, minted, events>>

(* CPRegistry.update: the service is torn down and built anew.  Only the   *)
(* availability is read back; the rows stay as they are.                   *)
Replace ==
  /\ restarts < MaxRestarts
  /\ restarts' = restarts + 1
  /\ link' = "down"
  /\ TearDown
  /\ runtime' = [c \in Connectors |->
       [Fresh EXCEPT !.availability = runtime[c].availability]]
  /\ parked' = [c \in Connectors |-> 0]
  /\ UNCHANGED <<begun, minted, events>>

Next ==
  \/ \E c \in Connectors : \/ LocalStart(c) \/ ResumeStart(c) \/ RefuseStart(c)
                           \/ RequestStartTransaction(c)
                           \/ LocalStop(c) \/ RequestStopTransaction(c)
                           \/ SaveRuntime(c)
  \/ \E c \in Connectors, s \in UserStatuses : SetStatus(c, s)
  \/ \E c \in Connectors, s \in ChargingStates : NotifyStatus(c, s)
  \/ \E S \in {Connectors} \cup {{c} : c \in Connectors} :
       \/ Reset(S)
       \/ \E target \in Targets : ChangeAvailability(S, target)
  \/ SocketOpens \/ SocketCloses \/ Disconnected \/ BootAccepted
  \/ Crash \/ Replace

Spec == Init /\ [][Next]_vars

-----------------------------------------------------------------------------
(* The state of every variable.                                            *)
TypeOK ==
  /\ link \in {"down", "up", "closing"}
  /\ runtime \in [Connectors -> Runtime]
  /\ disk \in [Connectors -> Runtime]
  /\ parked \in [Connectors -> Nat]
  /\ begun \in [Connectors -> Nat]
  /\ minted \in [Connectors -> Nat]
  /\ events \in [Connectors -> Seq(Event)]
  /\ restarts \in Nat

(* The sequence numbers of a transaction id run 0, 1, 2, ... without a gap *)
(* and without a repetition, also when a crash takes the memory back to    *)
(* the last saved row between any two of its events.                       *)
NumbersRun ==
  \A c \in Connectors : \A i \in DOMAIN events[c] :
    LET e == events[c][i] IN
      /\ e.seq # 0 => \E j \in 1..(i - 1) : /\ events[c][j].id = e.id
                                            /\ events[c][j].seq = e.seq - 1
      /\ \A j \in 1..(i - 1) : events[c][j].id = e.id => events[c][j].seq < e.seq

(* Ended is the last event of its id: no restart revives a transaction the *)
(* CSMS was told the end of, whatever the row of the connector said.       *)
EndedIsLast ==
  \A c \in Connectors : \A i \in DOMAIN events[c] : \A j \in 1..(i - 1) :
    events[c][j].type = "Ended" => events[c][j].id # events[c][i].id

(* An id stands for one transaction, and a transaction that was saved with *)
(* its id keeps it: what a row says of an id is never behind the events.   *)
RowIsCurrent ==
  \A c \in Connectors :
    LET d == disk[c].tx IN
      d.id # 0 => \A i \in DOMAIN events[c] :
        events[c][i].id = d.id => events[c][i].no = d.no /\ events[c][i].seq < d.seq
=============================================================================
