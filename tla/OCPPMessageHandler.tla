------------------------- MODULE OCPPMessageHandler -------------------------
(***************************************************************************)
(* The outgoing-CALL path of an OCPP 1.6J charge point: the boot gate, the *)
(* serializer that keeps one CALL in flight, its 30 s watchdog, the table  *)
(* of requests awaiting an answer, and the persistent queue of             *)
(* transaction-related CALLs (OCPPMessageHandler.ts, BootGate.ts,          *)
(* PendingMessageQueue.ts), driven by the charge point's boot handlers.    *)
(*                                                                         *)
(* The program is one JavaScript event loop.  A macrotask (a frame, a      *)
(* timer, a socket event, a user's command) runs to its end, followed by   *)
(* the microtasks it queued, before the next macrotask starts.  "todo" is  *)
(* what is left of the current macrotask: synchronous calls are put at its *)
(* front, queueMicrotask appends at its end, and every action that starts  *)
(* a macrotask has the guard Idle.                                         *)
(*                                                                         *)
(* A payload keeps its identity when it is stored and sent again; the      *)
(* fresh message id the code then gives it is not modelled, because the id *)
(* of an attempt that never reached the wire is never answered.            *)
(*                                                                         *)
(* One socket exists at a time here; what follows from a second one that a *)
(* hard Reset can leave behind is in ConnectionLifecycle.                  *)
(*                                                                         *)
(* A definition F_Word is F with a plausible bug.  No behaviour of Spec    *)
(* uses it: it shows that a property notices that bug.                     *)
(***************************************************************************)
EXTENDS Integers, Sequences, Functions

CONSTANTS
  UserCalls,    \* actions the charge point issues on its own initiative
  TriggerCalls, \* actions the CSMS asks for with TriggerMessage
  BootReplies,  \* statuses the CSMS may put in BootNotification.conf
  FanOut,       \* StatusNotifications sent after an accepted boot
  LateFrames,   \* whether the socket delivers frames once it is not open
  MaxCalls      \* bound: no new work is started once this many CALLs exist

Transactional == {"StartTransaction", "StopTransaction", "MeterValues"}

(* MeterValues sent outside a transaction carry no transaction id.         *)
Actions == Transactional \cup {"MeterValuesNoTx", "BootNotification",
                               "StatusNotification", "Heartbeat"}

ASSUME HandlerAssumption ==
  /\ UserCalls \subseteq Actions
  /\ TriggerCalls \subseteq Actions
  /\ BootReplies \subseteq {"Accepted", "Pending", "Rejected"}
  /\ FanOut \in Nat
  /\ LateFrames \in BOOLEAN
  /\ MaxCalls \in Nat

VARIABLES
  gate,         \* the boot gate; "Lapsed" is Rejected with retryAfter past
  bootTimers,   \* armed BootNotification retries
  socket,       \* "down", "open" or "closing" (no close event yet)
  serialQueue,  \* CALLs waiting for the slot
  inFlight,     \* the CALL holding the slot, or NoCall
  requests,     \* the RequestHistory
  pendingQueue, \* stored CALLs, in the order of the pending_messages table
  todo,         \* what is left of the running macrotask
  next,         \* the identity of the next CALL
  booted,       \* history: a boot was accepted since this socket opened
  wire,         \* history: every CALL that reached the socket, in order
  answered,     \* history: the CALLs whose answer was dispatched
  repeated,     \* history: those of them it was dispatched to again
  outstanding   \* history: sent here, not answered and not timed out

handlerVars == <<gate, bootTimers, serialQueue, inFlight, requests,
                 pendingQueue>>
historyVars == <<booted, wire, answered, repeated, outstanding>>
vars == <<handlerVars, socket, todo, next, historyVars>>

-----------------------------------------------------------------------------
(* The "attempts" of a stored row are left out: every enqueue stores 0 and *)
(* the flush never counts one, so nothing depends on them.                 *)
Call(i, a) == [id |-> i, action |-> a]
NoCall == Call(0, "none")
CallRecord == [id : Nat \ {0}, action : Actions]

(* A unit of a macrotask: one of the loops below, the settling of a CALL,  *)
(* the CALLRESULT of an incoming CALL, or the issue of a CALL (its action).*)
Task(op) == [op |-> op, id |-> 0]
Settle(c) == [op |-> "settle", id |-> c.id]
Ops == Actions \cup {"pump", "flush", "settle", "conf"}
TaskRecord == [op : Ops, id : Nat]

Idle == todo = <<>>
Running(op) == todo # <<>> /\ Head(todo).op = op
MayStart == Idle /\ next <= MaxCalls

IsTransactionRelated(a) == a \in Transactional \cup {"MeterValuesNoTx"}

IsCallAllowed(a) == a = "BootNotification" \/ gate \in {"Accepted", "Lapsed"}

Init ==
  /\ gate = "Idle"
  /\ bootTimers = 0
  /\ socket = "down"
  /\ serialQueue = <<>>
  /\ inFlight = NoCall
  /\ requests = {}
  /\ pendingQueue = <<>>
  /\ todo = <<>>
  /\ next = 1
  /\ booted = FALSE
  /\ wire = <<>>
  /\ answered = {}
  /\ repeated = {}
  /\ outstanding = {}

-----------------------------------------------------------------------------
Enqueued_First(call) == <<call>> \o serialQueue
Enqueued(call) == Append(serialQueue, call)

(* sendRequest: the gate suppresses a CALL for good, or the CALL is queued *)
(* and the serializer pumped.                                              *)
SendRequest(a, rest) ==
  \/ /\ IsCallAllowed(a)
     /\ serialQueue' = Enqueued(Call(next, a))
     /\ next' = next + 1
     /\ todo' = <<Task("pump")>> \o rest
  \/ /\ ~IsCallAllowed(a)
     /\ todo' = rest
     /\ UNCHANGED <<serialQueue, next>>

RunSendRequest ==
  /\ \E a \in Actions : Running(a) /\ SendRequest(a, Tail(todo))
  /\ UNCHANGED <<gate, bootTimers, inFlight, requests, pendingQueue, socket,
                 historyVars>>

(* pumpSerialQueue, one turn of its loop.                                  *)
CanPump_IgnoresSlot ==
  serialQueue # <<>> /\ IsCallAllowed(Head(serialQueue).action)

CanPump_IgnoresGate == inFlight = NoCall /\ serialQueue # <<>>

CanPump ==
  /\ inFlight = NoCall
  /\ serialQueue # <<>>
  /\ IsCallAllowed(Head(serialQueue).action)

PumpReturns ==
  /\ Running("pump")
  /\ ~CanPump
  /\ todo' = Tail(todo)
  /\ UNCHANGED <<handlerVars, socket, next, historyVars>>

PumpSends ==
  /\ Running("pump")
  /\ CanPump
  /\ socket = "open"
  /\ LET call == Head(serialQueue) IN
       /\ requests' = requests \cup {call}
       /\ inFlight' = call
       /\ wire' = Append(wire, call)
       /\ outstanding' = outstanding \cup {call}
  /\ serialQueue' = Tail(serialQueue)
  /\ todo' = Tail(todo)
  /\ UNCHANGED <<gate, bootTimers, pendingQueue, socket, next, booted,
                 answered, repeated>>

(* The socket refuses the frame: store or drop the CALL, try the next one. *)
Stored_Never(call) == pendingQueue

Stored(call) ==
  IF IsTransactionRelated(call.action)
    THEN Append(pendingQueue, call)
    ELSE pendingQueue

PumpFails ==
  /\ Running("pump")
  /\ CanPump
  /\ socket # "open"
  /\ LET call == Head(serialQueue) IN
       /\ requests' = requests \cup {call}
       /\ pendingQueue' = Stored(call)
  /\ serialQueue' = Tail(serialQueue)
  /\ UNCHANGED <<gate, bootTimers, inFlight, socket, todo, next, historyVars>>

(* flushPendingQueue, one turn of PendingMessageQueue.flush: the callback  *)
(* hands the head to sendRequest and reports success whatever became of it.*)
FlushReturns ==
  /\ Running("flush")
  /\ pendingQueue = <<>>
  /\ todo' = Tail(todo)
  /\ UNCHANGED <<handlerVars, socket, next, historyVars>>

HandOver(rows) ==
  /\ Running("flush")
  /\ pendingQueue # <<>>
  /\ LET call == Head(pendingQueue) IN
       \/ /\ IsCallAllowed(call.action)
          /\ serialQueue' = Enqueued(call)
          /\ todo' = <<Task("pump")>> \o todo
       \/ /\ ~IsCallAllowed(call.action)
          /\ UNCHANGED <<serialQueue, todo>>
  /\ pendingQueue' = rows
  /\ UNCHANGED <<gate, bootTimers, inFlight, requests, socket, next,
                 historyVars>>

FlushHandsOver_KeepsRow == HandOver(pendingQueue)
FlushHandsOver == HandOver(Tail(pendingQueue))

(* The end of handleCallResult and handleCallError: forget the request and *)
(* release the slot if this CALL holds it.                                 *)
Forgotten(id) == {r \in requests : r.id # id}

ReleaseSlot(known, calls) ==
  /\ Running("settle")
  /\ requests' = known
  /\ \/ /\ inFlight.id = Head(todo).id
        /\ inFlight' = NoCall
        /\ todo' = calls \o Tail(todo)
     \/ /\ inFlight.id # Head(todo).id
        /\ todo' = Tail(todo)
        /\ UNCHANGED inFlight
  /\ UNCHANGED <<gate, bootTimers, serialQueue, pendingQueue, socket, next,
                 historyVars>>

SettleSerialInFlight_KeepsRequest == ReleaseSlot(requests, <<Task("pump")>>)
SettleSerialInFlight_NoPump == ReleaseSlot(Forgotten(Head(todo).id), <<>>)
SettleSerialInFlight ==
  ReleaseSlot(Forgotten(Head(todo).id), <<Task("pump")>>)

(* sendCallResult, the continuation of handleCall's await.                 *)
SendCallResult ==
  /\ Running("conf")
  /\ todo' = Tail(todo)
  /\ UNCHANGED <<handlerVars, socket, next, historyVars>>

RunTask ==
  \/ RunSendRequest
  \/ PumpReturns \/ PumpSends \/ PumpFails
  \/ FlushReturns \/ FlushHandsOver
  \/ SettleSerialInFlight
  \/ SendCallResult

-----------------------------------------------------------------------------
(* Macrotasks that issue CALLs.                                            *)

(* A user, a scenario, the meter scheduler or the heartbeat sends a CALL.  *)
UserSends(a) ==
  /\ MayStart
  /\ SendRequest(a, <<>>)
  /\ UNCHANGED <<gate, bootTimers, inFlight, requests, pendingQueue, socket,
                 historyVars>>

(* The socket opens; ChargePoint.connect's callback calls boot().          *)
SocketOpens ==
  /\ MayStart
  /\ socket = "down"
  /\ socket' = "open"
  /\ booted' = FALSE
  /\ SendRequest("BootNotification", <<>>)
  /\ UNCHANGED <<gate, bootTimers, inFlight, requests, pendingQueue, wire,
                 answered, repeated, outstanding>>

(* markBootRejected's timer, never cancelled, calls boot().  The timer of  *)
(* the latest rejection does not fire before retryAfter.                   *)
RetryDue == bootTimers > (IF gate = "Rejected" THEN 1 ELSE 0)

BootRetryFires ==
  /\ Idle
  /\ RetryDue
  /\ bootTimers' = bootTimers - 1
  /\ SendRequest("BootNotification", <<>>)
  /\ UNCHANGED <<gate, inFlight, requests, pendingQueue, socket, historyVars>>

(* An incoming TriggerMessage: the handler queues the requested CALL as a  *)
(* microtask; the await in handleCall then queues the reply.               *)
HandleTrigger(a) ==
  /\ MayStart
  /\ socket = "open"
  /\ todo' = <<Task(a), Task("conf")>>
  /\ UNCHANGED <<handlerVars, socket, next, historyVars>>

-----------------------------------------------------------------------------
(* Macrotasks that answer CALLs.                                           *)

(* A frame of the CSMS that answers a CALL the CSMS received: the request  *)
(* is known, its handler runs, then the CALL settles.  An answer to a CALL *)
(* no longer in the table is ignored and changes nothing.                  *)
Dispatch(call, tasks, microtasks) ==
  /\ Idle
  /\ socket = "open" \/ LateFrames
  /\ \E r \in requests : r.id = call.id
  /\ repeated' = repeated \cup ({call} \cap answered)
  /\ answered' = answered \cup {call}
  /\ outstanding' = outstanding \ {call}
  /\ todo' = tasks \o <<Settle(call)>> \o microtasks

(* BootNotification.conf, status by status.                                *)
BootMicrotasks_NoFlush == <<Task("pump")>>
BootMicrotasks == <<Task("pump"), Task("flush")>>

BootAccepted(call) ==
  /\ call.action = "BootNotification"
  /\ "Accepted" \in BootReplies
  /\ gate' = "Accepted"
  /\ booted' = TRUE
  /\ Dispatch(call, [i \in 1..FanOut |-> Task("StatusNotification")],
                    BootMicrotasks)
  /\ UNCHANGED <<bootTimers, serialQueue, inFlight, requests, pendingQueue,
                 socket, next, wire>>

BootPending(call) ==
  /\ call.action = "BootNotification"
  /\ "Pending" \in BootReplies
  /\ gate' = "Pending"
  /\ Dispatch(call, <<>>, <<>>)
  /\ UNCHANGED <<bootTimers, serialQueue, inFlight, requests, pendingQueue,
                 socket, next, booted, wire>>

ArmRetry_Forgotten == UNCHANGED bootTimers
ArmRetry == bootTimers' = bootTimers + 1

BootRejected(call) ==
  /\ next <= MaxCalls
  /\ call.action = "BootNotification"
  /\ "Rejected" \in BootReplies
  /\ gate' = "Rejected"
  /\ ArmRetry
  /\ Dispatch(call, <<>>, <<>>)
  /\ UNCHANGED <<serialQueue, inFlight, requests, pendingQueue, socket, next,
                 booted, wire>>

(* What the other result handlers send before the CALL settles, by the     *)
(* state of the connector (not modelled here); one StatusNotification      *)
(* stands for a run of them.                                               *)
ResultCalls(a) ==
  LET notify == Task("StatusNotification")
      stop   == Task("StopTransaction")
  IN {<<>>} \cup {t \in {<<notify>>} : a \in {"StartTransaction", "StopTransaction"}}
            \cup {t \in {<<stop, notify>>} : a = "StartTransaction"}

CallResult(call) ==
  /\ call.action # "BootNotification"
  /\ \E tasks \in ResultCalls(call.action) :
       /\ tasks = <<>> \/ next <= MaxCalls
       /\ Dispatch(call, tasks, <<>>)
  /\ UNCHANGED <<handlerVars, socket, next, booted, wire>>

(* handleCallError: a failed StartTransaction resets its connector, which  *)
(* notifies its status; for the other CALLs only the slot is released.     *)
ErrorCalls(a) ==
  IF a = "StartTransaction" THEN <<Task("StatusNotification")>> ELSE <<>>

CallError(call) ==
  /\ ErrorCalls(call.action) = <<>> \/ next <= MaxCalls
  /\ Dispatch(call, ErrorCalls(call.action), <<>>)
  /\ UNCHANGED <<handlerVars, socket, next, booted, wire>>

Answer ==
  \E call \in Range(wire) :
    \/ BootAccepted(call) \/ BootPending(call) \/ BootRejected(call)
    \/ CallResult(call) \/ CallError(call)

-----------------------------------------------------------------------------
(* Time and the socket.                                                    *)

(* The 30 s watchdog: the slot is released, the request stays known.       *)
WatchdogRuns_WhileConnected == inFlight # NoCall /\ socket = "open"
WatchdogRuns == inFlight # NoCall

SerialTimeout ==
  /\ Idle
  /\ WatchdogRuns
  /\ inFlight' = NoCall
  /\ outstanding' = outstanding \ {inFlight}
  /\ todo' = <<Task("pump")>>
  /\ UNCHANGED <<gate, bootTimers, serialQueue, requests, pendingQueue,
                 socket, next, booted, wire, answered, repeated>>

RetryAfterElapses ==
  /\ Idle
  /\ gate = "Rejected"
  /\ gate' = "Lapsed"
  /\ UNCHANGED <<bootTimers, serialQueue, inFlight, requests, pendingQueue,
                 socket, todo, next, historyVars>>

(* The closing handshake has begun: send() fails, onclose has yet to come. *)
SocketCloses ==
  /\ Idle
  /\ socket = "open"
  /\ socket' = "closing"
  /\ UNCHANGED <<handlerVars, todo, next, historyVars>>

(* onclose, or disconnect(): the teardown calls onWebSocketClosed.  The    *)
(* gate, the retry timers and the request table are left as they are.      *)
WebSocketClosed ==
  /\ Idle
  /\ socket # "down"
  /\ socket' = "down"
  /\ serialQueue' = <<>>
  /\ inFlight' = NoCall
  /\ outstanding' = {}
  /\ booted' = FALSE
  /\ UNCHANGED <<gate, bootTimers, requests, pendingQueue, todo, next, wire,
                 answered, repeated>>

Next ==
  \/ RunTask
  \/ \E a \in UserCalls : UserSends(a)
  \/ \E a \in TriggerCalls : HandleTrigger(a)
  \/ SocketOpens \/ SocketCloses \/ WebSocketClosed
  \/ BootRetryFires \/ RetryAfterElapses
  \/ Answer
  \/ SerialTimeout

Spec == Init /\ [][Next]_vars

(* The event loop runs what is queued, and a timer that stays armed fires. *)
(* Nothing is assumed of the CSMS, the network or the user.                *)
Fairness ==
  /\ WF_vars(RunTask)
  /\ WF_vars(SerialTimeout)
  /\ WF_vars(BootRetryFires)
  /\ WF_vars(RetryAfterElapses)

FairSpec == Spec /\ Fairness

-----------------------------------------------------------------------------
(* The state of every variable; the ids of queued CALLs are never 0.       *)
TypeOK ==
  /\ gate \in {"Idle", "Pending", "Accepted", "Rejected", "Lapsed"}
  /\ bootTimers \in Nat
  /\ socket \in {"down", "open", "closing"}
  /\ serialQueue \in Seq(CallRecord)
  /\ inFlight \in CallRecord \cup {NoCall}
  /\ requests \subseteq CallRecord
  /\ pendingQueue \in Seq(CallRecord)
  /\ todo \in Seq(TaskRecord)
  /\ next \in Nat \ {0}
  /\ booted \in BOOLEAN
  /\ wire \in Seq(CallRecord)
  /\ answered \subseteq CallRecord
  /\ repeated \subseteq answered
  /\ outstanding \subseteq CallRecord

(* OCPP-J 4.1.1, OCPPMessageHandler.ts:230: "only one is in-flight at a    *)
(* time".  At most one CALL sent on this connection awaits its answer and  *)
(* has not timed out, through late answers, timeouts, flushes and closes.  *)
OneOutstanding == \A c, d \in outstanding : c = d

(* A CALL is never duplicated: across the serializer's queue, the stored   *)
(* queue and everything ever sent it occurs once, although a flush re-sends*)
(* stored CALLs and a refused send stores them again.                      *)
EachCallOnce ==
  LET places == serialQueue \o pendingQueue \o wire IN
    \A i, j \in DOMAIN places : places[i].id = places[j].id => i = j

(* The result or error handler of a CALL runs at most once, even when the  *)
(* CSMS answers after the timeout, after a reconnection, or twice.         *)
HandledOnce == repeated = {}

(* CALLs that are never stored reach the wire in the order they were       *)
(* issued, as sendRequest and pumpSerialQueue promise; a stored one may be *)
(* overtaken, in spite of the "strictly serial/FIFO" of ChargePoint.ts:1373*)
IssueOrder ==
  \A i, j \in DOMAIN wire :
    /\ i < j
    /\ ~IsTransactionRelated(wire[i].action)
    /\ ~IsTransactionRelated(wire[j].action)
    => wire[i].id < wire[j].id

(* Once a boot is accepted on an open socket and the event loop is idle    *)
(* again, nothing stays stored: the CALLs kept while offline were handed   *)
(* to the serializer, and no later CALL can be stored on this socket.      *)
StoredDrained ==
  Idle /\ socket = "open" /\ booted => pendingQueue = <<>>

(* The boot gate holds on the wire, also for CALLs queued before it closed:*)
(* whatever leaves is a BootNotification unless the gate is open.          *)
GateHonoured ==
  [][wire' # wire => \/ wire'[Len(wire')].action = "BootNotification"
                     \/ gate \in {"Accepted", "Lapsed"}]_vars

(* The slot is always released, by an answer, the watchdog or the close.   *)
SlotReleased == inFlight # NoCall ~> inFlight = NoCall

(* A rejected charge point boots again, without help from the CSMS.        *)
RejectedRetries ==
  gate = "Rejected" ~> \E i \in DOMAIN serialQueue :
                         serialQueue[i].action = "BootNotification"

(* With a CSMS that accepts or rejects, the queue never stays non-empty:   *)
(* the serializer does not starve, whoever holds the slot or the gate.     *)
QueueDrains == serialQueue # <<>> ~> serialQueue = <<>>

-----------------------------------------------------------------------------
(* The inductive invariant from which the safety properties follow.        *)
Ids(calls) == {c.id : c \in calls}
Once(q) == \A i, j \in DOMAIN q : q[i].id = q[j].id => i = j
Informational(c) == ~IsTransactionRelated(c.action)
Ordered(q) ==
  \A i, j \in DOMAIN q :
    i < j /\ Informational(q[i]) /\ Informational(q[j]) => q[i].id < q[j].id
Pending(op) == {t \in Range(todo) : t.op = op}

(* A CALL is issued before it is anywhere, and is in one place at a time.  *)
OnePlace ==
  /\ \A id \in Ids(Range(serialQueue) \cup Range(pendingQueue) \cup Range(wire)) :
       id < next
  /\ Once(serialQueue) /\ Once(pendingQueue) /\ Once(wire)
  /\ Ids(Range(serialQueue)) \cap Ids(Range(pendingQueue)) = {}
  /\ Ids(Range(serialQueue)) \cap Ids(Range(wire)) = {}
  /\ Ids(Range(pendingQueue)) \cap Ids(Range(wire)) = {}

(* Only the CALL in the slot is awaited, and none that is about to settle: *)
(* the slot is never released while its CALL is outstanding.               *)
SlotCovers ==
  /\ inFlight \in Range(wire) \cup {NoCall}
  /\ outstanding \subseteq {inFlight}
  /\ outstanding \subseteq Range(wire)
  /\ Ids(Pending("settle")) \subseteq Ids(Range(wire))
  /\ Ids(Pending("settle")) \cap Ids(outstanding) = {}

(* An answered CALL is forgotten, or its settling is still to run.         *)
AnsweredSettles ==
  /\ answered \subseteq Range(wire)
  /\ Ids(answered) \cap Ids(requests) \subseteq Ids(Pending("settle"))

(* Informational CALLs keep their order from the queue to the wire, and    *)
(* are never stored.                                                       *)
OrderKept ==
  /\ Ordered(wire) /\ Ordered(serialQueue)
  /\ \A c \in Range(wire), d \in Range(serialQueue) :
       Informational(c) /\ Informational(d) => c.id < d.id
  /\ \A c \in Range(pendingQueue) : ~Informational(c)

(* What is still stored after an accepted boot has its flush to come.      *)
FlushComes ==
  socket = "open" /\ booted /\ pendingQueue # <<>> => Pending("flush") # {}

(* A flush runs in the macrotask of the accepted boot that asked for it,   *)
(* so the gate is still open and sendRequest suppresses nothing it hands   *)
(* over: a stored CALL is never lost on its way back to the queue.         *)
FlushAllowed == Pending("flush") # {} => gate = "Accepted"

InductiveInv ==
  TypeOK /\ OnePlace /\ SlotCovers /\ AnsweredSettles /\ HandledOnce
         /\ OrderKept /\ FlushComes

-----------------------------------------------------------------------------
(* Where a CALL is in its life, as CallDelivery sees it.                   *)
Among(i, calls) == \E c \in calls : c.id = i

StatusOf(i) ==
  IF Among(i, answered) THEN "answered"
  ELSE IF Among(i, outstanding) THEN "sent"
  ELSE IF Among(i, Range(wire)) THEN "expired"
  ELSE IF Among(i, Range(pendingQueue)) THEN "stored"
  ELSE IF \E c \in Range(serialQueue) :
            c.id = i /\ IsTransactionRelated(c.action) THEN "queuedDurable"
  ELSE IF Among(i, Range(serialQueue)) THEN "queued"
  ELSE IF i < next THEN "dropped" ELSE "none"
=============================================================================
