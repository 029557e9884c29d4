---------------------- MODULE OCPPMessageHandlerProofs ----------------------
(***************************************************************************)
(* Proofs about the outgoing-CALL path, for every value of its constants:  *)
(* its types, its inductive invariant and what follows from it, that it    *)
(* implements CallDelivery, and the heartbeat composed with it.            *)
(***************************************************************************)
EXTENDS MCOCPPMessageHandler, HeartbeatService, SequenceTheorems, TLAPS

-----------------------------------------------------------------------------
(* Types of the parts.                                                     *)

(* Every CALL is a CALL record.                                            *)
LEMMA CallType ==
  ASSUME NEW i \in Nat \ {0}, NEW a \in Actions
  PROVE  Call(i, a) \in CallRecord
BY DEF Call, CallRecord

LEMMA NoCallId == NoCall.id = 0 /\ NoCall \notin CallRecord
BY DEF NoCall, Call, CallRecord

LEMMA TaskType ==
  ASSUME NEW op \in Ops
  PROVE  Task(op) \in TaskRecord /\ Task(op).op = op
BY DEF Task, TaskRecord

LEMMA PumpFirstType ==
  ASSUME NEW rest \in Seq(TaskRecord)
  PROVE  <<Task("pump")>> \o rest \in Seq(TaskRecord)
<1>1. <<Task("pump")>> \in Seq(TaskRecord)
  BY TaskType DEF Ops
<1> QED BY <1>1

LEMMA SettleType ==
  ASSUME NEW c \in CallRecord
  PROVE  Settle(c) \in TaskRecord /\ Settle(c).op = "settle"
                                  /\ Settle(c).id = c.id
BY DEF Settle, TaskRecord, CallRecord, Ops

LEMMA OpsType ==
  /\ Actions \subseteq Ops
  /\ "pump" \in Ops /\ "flush" \in Ops /\ "conf" \in Ops
  /\ "StatusNotification" \in Actions /\ "StopTransaction" \in Actions
  /\ "BootNotification" \in Actions
BY DEF Ops, Actions, Transactional

LEMMA RangeType ==
  ASSUME NEW S, NEW s \in Seq(S), NEW c \in Range(s)
  PROVE  c \in S
BY DEF Range

(* What the result and error handlers send is a sequence of tasks.         *)
LEMMA HandlerCallsType ==
  /\ BootMicrotasks \in Seq(TaskRecord)
  /\ [i \in 1..FanOut |-> Task("StatusNotification")] \in Seq(TaskRecord)
  /\ \A a \in Actions : /\ ErrorCalls(a) \in Seq(TaskRecord)
                        /\ \A t \in ResultCalls(a) : t \in Seq(TaskRecord)
<1>1. /\ Task("pump") \in TaskRecord /\ Task("flush") \in TaskRecord
      /\ Task("StatusNotification") \in TaskRecord
      /\ Task("StopTransaction") \in TaskRecord
  BY TaskType, OpsType
<1>2. BootMicrotasks \in Seq(TaskRecord)
  BY <1>1 DEF BootMicrotasks
<1>3. [i \in 1..FanOut |-> Task("StatusNotification")] \in Seq(TaskRecord)
  BY <1>1, HandlerAssumption DEF HandlerAssumption
<1>4. ASSUME NEW a \in Actions
      PROVE  ErrorCalls(a) \in Seq(TaskRecord)
  BY <1>1 DEF ErrorCalls
<1>5. ASSUME NEW a \in Actions, NEW t \in ResultCalls(a)
      PROVE  t \in Seq(TaskRecord)
  <2>1. \/ t = <<>>
        \/ t = <<Task("StatusNotification")>>
        \/ t = <<Task("StopTransaction"), Task("StatusNotification")>>
    BY <1>5, Zenon DEF ResultCalls
  <2>2. /\ <<>> \in Seq(TaskRecord)
        /\ <<Task("StatusNotification")>> \in Seq(TaskRecord)
    BY <1>1
  <2>3. <<Task("StopTransaction"), Task("StatusNotification")>>
          \in Seq(TaskRecord)
    BY <1>1
  <2> QED BY <2>1, <2>2, <2>3
<1> QED BY <1>2, <1>3, <1>4, <1>5

-----------------------------------------------------------------------------
(* Type correctness.                                                       *)

LEMMA SendRequestType ==
  ASSUME TypeOK, NEW a \in Actions, NEW rest \in Seq(TaskRecord),
         SendRequest(a, rest)
  PROVE  /\ serialQueue' \in Seq(CallRecord)
         /\ next' \in Nat \ {0}
         /\ todo' \in Seq(TaskRecord)
<1>1. CASE IsCallAllowed(a)
  <2>1. Call(next, a) \in CallRecord
    BY CallType DEF TypeOK
  <2>2. /\ serialQueue' = Append(serialQueue, Call(next, a))
        /\ next' = next + 1
        /\ todo' = <<Task("pump")>> \o rest
    BY <1>1, Zenon DEF SendRequest, Enqueued
  <2>3. serialQueue' \in Seq(CallRecord) /\ next' \in Nat \ {0}
    BY <2>1, <2>2 DEF TypeOK
  <2>4. todo' \in Seq(TaskRecord)
    BY <2>2, PumpFirstType
  <2> QED BY <2>3, <2>4
<1>2. CASE ~IsCallAllowed(a)
  BY <1>2 DEF TypeOK, SendRequest
<1> QED BY <1>1, <1>2

LEMMA DispatchType ==
  ASSUME TypeOK, NEW call \in Range(wire),
         NEW tasks \in Seq(TaskRecord), NEW microtasks \in Seq(TaskRecord),
         Dispatch(call, tasks, microtasks)
  PROVE  /\ call \in CallRecord
         /\ answered' \subseteq CallRecord
         /\ repeated' \subseteq answered'
         /\ outstanding' \subseteq CallRecord
         /\ todo' \in Seq(TaskRecord)
<1>1. call \in CallRecord
  BY RangeType DEF TypeOK
<1>2. <<Settle(call)>> \in Seq(TaskRecord)
  BY <1>1, SettleType
<1>3. todo' \in Seq(TaskRecord)
  BY <1>2 DEF Dispatch
<1> QED BY <1>1, <1>3 DEF TypeOK, Dispatch

LEMMA InitType == Init => TypeOK
<1> SUFFICES ASSUME Init PROVE TypeOK
  OBVIOUS
<1>1. /\ serialQueue \in Seq(CallRecord) /\ pendingQueue \in Seq(CallRecord)
      /\ wire \in Seq(CallRecord) /\ todo \in Seq(TaskRecord)
  BY DEF Init
<1>2. /\ bootTimers \in Nat /\ next \in Nat \ {0}
  BY DEF Init
<1>3. inFlight \in CallRecord \cup {NoCall}
  BY DEF Init
<1> QED BY <1>1, <1>2, <1>3, Zenon DEF Init, TypeOK

LEMMA TaskKeepsType == TypeOK /\ RunTask => TypeOK'
<1> SUFFICES ASSUME TypeOK, RunTask PROVE TypeOK'
  OBVIOUS
<1>1. CASE RunSendRequest
  <2> PICK a \in Actions : Running(a) /\ SendRequest(a, Tail(todo))
    BY <1>1 DEF RunSendRequest
  <2>1. Tail(todo) \in Seq(TaskRecord)
    BY DEF TypeOK, Running
  <2>2. /\ serialQueue' \in Seq(CallRecord) /\ next' \in Nat \ {0}
        /\ todo' \in Seq(TaskRecord)
    BY <2>1, SendRequestType
  <2> QED BY <1>1, <2>2 DEF TypeOK, RunSendRequest, historyVars
<1>2. CASE PumpReturns
  BY <1>2 DEF TypeOK, PumpReturns, Running, handlerVars, historyVars
<1>3. CASE PumpSends
  <2>1. Head(serialQueue) \in CallRecord /\ Tail(serialQueue) \in Seq(CallRecord)
    BY <1>3 DEF TypeOK, PumpSends, CanPump
  <2> QED BY <1>3, <2>1 DEF TypeOK, PumpSends, Running
<1>4. CASE PumpFails
  <2>1. Head(serialQueue) \in CallRecord /\ Tail(serialQueue) \in Seq(CallRecord)
    BY <1>4 DEF TypeOK, PumpFails, CanPump
  <2> QED BY <1>4, <2>1 DEF TypeOK, PumpFails, Stored, historyVars
<1>5. CASE FlushReturns
  BY <1>5 DEF TypeOK, FlushReturns, Running, handlerVars, historyVars
<1>6. CASE FlushHandsOver
  <2>1. Head(pendingQueue) \in CallRecord /\ Tail(pendingQueue) \in Seq(CallRecord)
    BY <1>6 DEF TypeOK, FlushHandsOver, HandOver
  <2>2. <<Task("pump")>> \o todo \in Seq(TaskRecord)
    BY PumpFirstType DEF TypeOK
  <2>3. \/ /\ serialQueue' = Append(serialQueue, Head(pendingQueue))
           /\ todo' = <<Task("pump")>> \o todo
        \/ serialQueue' = serialQueue /\ todo' = todo
    BY <1>6, Zenon DEF FlushHandsOver, HandOver, Enqueued
  <2>4. /\ serialQueue \in Seq(CallRecord) /\ todo \in Seq(TaskRecord)
        /\ Append(serialQueue, Head(pendingQueue)) \in Seq(CallRecord)
    BY <2>1 DEF TypeOK
  <2>5. serialQueue' \in Seq(CallRecord) /\ todo' \in Seq(TaskRecord)
    BY <2>2, <2>3, <2>4, Zenon
  <2> QED BY <1>6, <2>1, <2>5
          DEF TypeOK, FlushHandsOver, HandOver, historyVars
<1>7. CASE SettleSerialInFlight
  <2>1. Forgotten(Head(todo).id) \subseteq CallRecord
    BY DEF TypeOK, Forgotten
  <2>2. Tail(todo) \in Seq(TaskRecord)
    BY <1>7 DEF TypeOK, SettleSerialInFlight, ReleaseSlot, Running
  <2>3. <<Task("pump")>> \o Tail(todo) \in Seq(TaskRecord)
    BY <2>2, PumpFirstType
  <2>4. requests' \subseteq CallRecord /\ todo' \in Seq(TaskRecord)
        /\ inFlight' \in CallRecord \cup {NoCall}
    BY <1>7, <2>1, <2>2, <2>3 DEF TypeOK, SettleSerialInFlight, ReleaseSlot
  <2> QED BY <1>7, <2>4
          DEF TypeOK, SettleSerialInFlight, ReleaseSlot, historyVars
<1>8. CASE SendCallResult
  BY <1>8 DEF TypeOK, SendCallResult, Running, handlerVars, historyVars
<1> QED BY <1>1, <1>2, <1>3, <1>4, <1>5, <1>6, <1>7, <1>8 DEF RunTask

LEMMA AnswerKeepsType ==
  ASSUME TypeOK, NEW call \in Range(wire),
         \/ BootAccepted(call) \/ BootPending(call) \/ BootRejected(call)
         \/ CallResult(call) \/ CallError(call)
  PROVE  TypeOK'
<1>c. call \in CallRecord /\ call.action \in Actions
  <2>1. call \in CallRecord
    BY RangeType DEF TypeOK
  <2> QED BY <2>1 DEF CallRecord
<1>e. <<>> \in Seq(TaskRecord)
  OBVIOUS
<1>1. CASE BootAccepted(call)
  <2>1. /\ answered' \subseteq CallRecord /\ repeated' \subseteq answered'
        /\ outstanding' \subseteq CallRecord /\ todo' \in Seq(TaskRecord)
    BY <1>1, DispatchType, HandlerCallsType, Zenon DEF BootAccepted
  <2> QED BY <1>1, <2>1 DEF TypeOK, BootAccepted
<1>2. CASE BootPending(call)
  <2>1. /\ answered' \subseteq CallRecord /\ repeated' \subseteq answered'
        /\ outstanding' \subseteq CallRecord /\ todo' \in Seq(TaskRecord)
    BY <1>2, <1>e, DispatchType, Zenon DEF BootPending
  <2> QED BY <1>2, <2>1 DEF TypeOK, BootPending
<1>3. CASE BootRejected(call)
  <2>1. /\ answered' \subseteq CallRecord /\ repeated' \subseteq answered'
        /\ outstanding' \subseteq CallRecord /\ todo' \in Seq(TaskRecord)
    BY <1>3, <1>e, DispatchType, Zenon DEF BootRejected
  <2> QED BY <1>3, <2>1 DEF TypeOK, BootRejected, ArmRetry
<1>4. CASE CallResult(call)
  <2>1. PICK tasks \in ResultCalls(call.action) : Dispatch(call, tasks, <<>>)
    BY <1>4 DEF CallResult
  <2>2. tasks \in Seq(TaskRecord)
    BY <1>c, HandlerCallsType
  <2>3. /\ answered' \subseteq CallRecord /\ repeated' \subseteq answered'
        /\ outstanding' \subseteq CallRecord /\ todo' \in Seq(TaskRecord)
    BY <1>e, <2>1, <2>2, DispatchType, Zenon
  <2> QED BY <1>4, <2>3 DEF TypeOK, CallResult, handlerVars
<1>5. CASE CallError(call)
  <2>1. ErrorCalls(call.action) \in Seq(TaskRecord)
    BY <1>c, HandlerCallsType
  <2>2. /\ answered' \subseteq CallRecord /\ repeated' \subseteq answered'
        /\ outstanding' \subseteq CallRecord /\ todo' \in Seq(TaskRecord)
    BY <1>5, <1>e, <2>1, DispatchType, Zenon DEF CallError
  <2> QED BY <1>5, <2>2 DEF TypeOK, CallError, handlerVars
<1> QED BY <1>1, <1>2, <1>3, <1>4, <1>5

LEMMA EnvironmentKeepsType ==
  ASSUME TypeOK,
         \/ \E a \in UserCalls : UserSends(a)
         \/ \E a \in TriggerCalls : HandleTrigger(a)
         \/ SocketOpens \/ SocketCloses \/ WebSocketClosed
         \/ BootRetryFires \/ RetryAfterElapses
         \/ SerialTimeout
  PROVE  TypeOK'
<1>e. <<>> \in Seq(TaskRecord) /\ <<>> \in Seq(CallRecord)
  OBVIOUS
<1>1. ASSUME NEW a \in UserCalls, UserSends(a) PROVE TypeOK'
  <2>1. a \in Actions /\ SendRequest(a, <<>>)
    BY <1>1, HandlerAssumption DEF UserSends, HandlerAssumption
  <2>2. /\ serialQueue' \in Seq(CallRecord) /\ next' \in Nat \ {0}
        /\ todo' \in Seq(TaskRecord)
    BY <1>e, <2>1, SendRequestType
  <2> QED BY <1>1, <2>2 DEF TypeOK, UserSends, historyVars
<1>2. ASSUME NEW a \in TriggerCalls, HandleTrigger(a) PROVE TypeOK'
  <2>1. a \in Ops /\ "conf" \in Ops
    BY HandlerAssumption DEF HandlerAssumption, Ops
  <2>2. <<Task(a), Task("conf")>> \in Seq(TaskRecord)
    BY <2>1, TaskType
  <2> QED BY <1>2, <2>2 DEF TypeOK, HandleTrigger, handlerVars, historyVars
<1>3. CASE SocketOpens
  <2>1. /\ serialQueue' \in Seq(CallRecord) /\ next' \in Nat \ {0}
        /\ todo' \in Seq(TaskRecord)
    BY <1>3, <1>e, OpsType, SendRequestType DEF SocketOpens
  <2> QED BY <1>3, <2>1 DEF TypeOK, SocketOpens
<1>4. CASE SocketCloses
  BY <1>4 DEF TypeOK, SocketCloses, handlerVars, historyVars
<1>5. CASE WebSocketClosed
  BY <1>5, <1>e DEF TypeOK, WebSocketClosed
<1>6. CASE BootRetryFires
  <2>1. /\ serialQueue' \in Seq(CallRecord) /\ next' \in Nat \ {0}
        /\ todo' \in Seq(TaskRecord)
    BY <1>6, <1>e, OpsType, SendRequestType DEF BootRetryFires
  <2>2. bootTimers' \in Nat
    BY <1>6 DEF TypeOK, BootRetryFires, RetryDue
  <2> QED BY <1>6, <2>1, <2>2 DEF TypeOK, BootRetryFires, historyVars
<1>7. CASE RetryAfterElapses
  BY <1>7 DEF TypeOK, RetryAfterElapses, historyVars
<1>8. CASE SerialTimeout
  <2>1. <<Task("pump")>> \in Seq(TaskRecord)
    BY TaskType, OpsType
  <2> QED BY <1>8, <2>1 DEF TypeOK, SerialTimeout
<1> QED BY <1>1, <1>2, <1>3, <1>4, <1>5, <1>6, <1>7, <1>8

(* The queues, the slot and the request table of OCPPMessageHandler.ts     *)
(* hold CALLs that were issued, and an armed boot retry (ChargePoint.ts    *)
(* markBootRejected) fires once for each rejection, in every instance.     *)
THEOREM TypeCorrect == Spec => []TypeOK
<1>1. TypeOK /\ [Next]_vars => TypeOK'
  <2> SUFFICES ASSUME TypeOK, [Next]_vars PROVE TypeOK'
    OBVIOUS
  <2>1. CASE UNCHANGED vars
    BY <2>1 DEF TypeOK, vars, handlerVars, historyVars
  <2>2. CASE Next
    BY <2>2, TaskKeepsType, AnswerKeepsType, EnvironmentKeepsType
       DEF Next, Answer
  <2> QED BY <2>1, <2>2
<1> QED BY InitType, <1>1, PTL DEF Spec

-----------------------------------------------------------------------------
(* Sequences: what Append, Tail and \o do to the members of a queue, to    *)
(* its freedom from repetitions and to its order.                          *)

LEMMA RangeAppend ==
  ASSUME NEW S, NEW q \in Seq(S), NEW c \in S
  PROVE  Range(Append(q, c)) = Range(q) \cup {c}
<1>1. /\ DOMAIN q = 1..Len(q) /\ DOMAIN Append(q, c) = 1..(Len(q) + 1)
      /\ Len(q) \in Nat
      /\ \A i \in 1..Len(q) : Append(q, c)[i] = q[i]
      /\ Append(q, c)[Len(q) + 1] = c
  OBVIOUS
<1>2. Range(Append(q, c)) \subseteq Range(q) \cup {c}
  BY <1>1 DEF Range
<1>3. Range(q) \subseteq Range(Append(q, c))
  BY <1>1 DEF Range
<1>4. c \in Range(Append(q, c))
  BY <1>1 DEF Range
<1> QED BY <1>2, <1>3, <1>4

LEMMA RangeTail ==
  ASSUME NEW S, NEW q \in Seq(S), q # <<>>
  PROVE  /\ Head(q) \in S /\ Head(q) \in Range(q)
         /\ Tail(q) \in Seq(S)
         /\ Range(q) = {Head(q)} \cup Range(Tail(q))
<1>1. /\ DOMAIN q = 1..Len(q) /\ DOMAIN Tail(q) = 1..(Len(q) - 1)
      /\ Len(q) \in Nat \ {0}
      /\ \A i \in 1..(Len(q) - 1) : Tail(q)[i] = q[i + 1]
      /\ Head(q) = q[1]
      /\ Head(q) \in S /\ Tail(q) \in Seq(S)
  OBVIOUS
<1>2. Head(q) \in Range(q)
  BY <1>1 DEF Range
<1>3. Range(Tail(q)) \subseteq Range(q)
  BY <1>1 DEF Range
<1>4. ASSUME NEW c \in Range(q), c # Head(q)
      PROVE  c \in Range(Tail(q))
  <2>1. PICK i \in 1..Len(q) : q[i] = c
    BY <1>1 DEF Range
  <2>2. i - 1 \in 1..(Len(q) - 1) /\ Tail(q)[i - 1] = q[i]
    BY <1>1, <1>4, <2>1
  <2> QED BY <1>1, <2>1, <2>2 DEF Range
<1> QED BY <1>1, <1>2, <1>3, <1>4

LEMMA RangeEmpty == Range(<<>>) = {}
BY DEF Range

LEMMA RangeOne ==
  ASSUME NEW c
  PROVE  Range(<<c>>) = {c}
BY DEF Range

LEMMA RangeConcat ==
  ASSUME NEW S, NEW q \in Seq(S), NEW r \in Seq(S)
  PROVE  Range(q \o r) = Range(q) \cup Range(r)
<1>1. /\ DOMAIN q = 1..Len(q) /\ DOMAIN r = 1..Len(r)
      /\ DOMAIN (q \o r) = 1..(Len(q) + Len(r))
      /\ Len(q) \in Nat /\ Len(r) \in Nat
      /\ \A i \in 1..Len(q) : (q \o r)[i] = q[i]
      /\ \A i \in 1..Len(r) : (q \o r)[Len(q) + i] = r[i]
  OBVIOUS
<1>2. ASSUME NEW i \in 1..(Len(q) + Len(r))
      PROVE  (q \o r)[i] \in Range(q) \cup Range(r)
  <2>1. CASE i \in 1..Len(q)
    BY <1>1, <2>1 DEF Range
  <2>2. CASE i \notin 1..Len(q)
    <3>1. i - Len(q) \in 1..Len(r) /\ Len(q) + (i - Len(q)) = i
      BY <1>1, <2>2
    <3> QED BY <1>1, <3>1 DEF Range
  <2> QED BY <2>1, <2>2
<1>3. ASSUME NEW i \in 1..Len(q)
      PROVE  q[i] \in Range(q \o r)
  BY <1>1 DEF Range
<1>4. ASSUME NEW i \in 1..Len(r)
      PROVE  r[i] \in Range(q \o r)
  <2>1. Len(q) + i \in DOMAIN (q \o r)
    BY <1>1
  <2> QED BY <1>1, <2>1 DEF Range
<1> QED BY <1>1, <1>2, <1>3, <1>4 DEF Range

LEMMA OnceAppend ==
  ASSUME NEW q \in Seq(CallRecord), NEW c \in CallRecord,
         Once(q), c.id \notin Ids(Range(q))
  PROVE  Once(Append(q, c))
<1>1. /\ DOMAIN q = 1..Len(q) /\ DOMAIN Append(q, c) = 1..(Len(q) + 1)
      /\ Len(q) \in Nat
      /\ \A i \in 1..Len(q) : Append(q, c)[i] = q[i]
      /\ Append(q, c)[Len(q) + 1] = c
  OBVIOUS
<1>2. \A i \in 1..Len(q) : q[i].id # c.id
  BY <1>1 DEF Ids, Range
<1> QED BY <1>1, <1>2 DEF Once

LEMMA OnceTail ==
  ASSUME NEW q \in Seq(CallRecord), q # <<>>, Once(q)
  PROVE  Once(Tail(q)) /\ Head(q).id \notin Ids(Range(Tail(q)))
<1>1. /\ DOMAIN q = 1..Len(q) /\ DOMAIN Tail(q) = 1..(Len(q) - 1)
      /\ Len(q) \in Nat \ {0}
      /\ \A i \in 1..(Len(q) - 1) : Tail(q)[i] = q[i + 1]
      /\ Head(q) = q[1]
  OBVIOUS
<1>2. Once(Tail(q))
  BY <1>1 DEF Once
<1>3. ASSUME NEW i \in 1..(Len(q) - 1) PROVE Tail(q)[i].id # Head(q).id
  BY <1>1 DEF Once
<1> QED BY <1>1, <1>2, <1>3 DEF Ids, Range

LEMMA OrderedAppend ==
  ASSUME NEW q \in Seq(CallRecord), NEW c \in CallRecord, Ordered(q),
         \A d \in Range(q) : Informational(d) /\ Informational(c) => d.id < c.id
  PROVE  Ordered(Append(q, c))
<1>1. /\ DOMAIN q = 1..Len(q) /\ DOMAIN Append(q, c) = 1..(Len(q) + 1)
      /\ Len(q) \in Nat
      /\ \A i \in 1..Len(q) : Append(q, c)[i] = q[i]
      /\ Append(q, c)[Len(q) + 1] = c
  OBVIOUS
<1>2. \A i \in 1..Len(q) : Informational(q[i]) /\ Informational(c)
                             => q[i].id < c.id
  BY <1>1 DEF Range
<1> QED BY <1>1, <1>2 DEF Ordered

LEMMA OrderedTail ==
  ASSUME NEW q \in Seq(CallRecord), q # <<>>, Ordered(q)
  PROVE  /\ Ordered(Tail(q))
         /\ \A d \in Range(Tail(q)) :
              Informational(Head(q)) /\ Informational(d) => Head(q).id < d.id
<1>1. /\ DOMAIN q = 1..Len(q) /\ DOMAIN Tail(q) = 1..(Len(q) - 1)
      /\ Len(q) \in Nat \ {0}
      /\ \A i \in 1..(Len(q) - 1) : Tail(q)[i] = q[i + 1]
      /\ Head(q) = q[1]
  OBVIOUS
<1>2. Ordered(Tail(q))
  BY <1>1 DEF Ordered
<1>3. ASSUME NEW i \in 1..(Len(q) - 1),
             Informational(Head(q)), Informational(Tail(q)[i])
      PROVE  Head(q).id < Tail(q)[i].id
  BY <1>1, <1>3 DEF Ordered
<1> QED BY <1>1, <1>2, <1>3 DEF Range

-----------------------------------------------------------------------------
(* The tasks of the running macrotask that settle a CALL or flush.         *)
Of(op, t) == {x \in Range(t) : x.op = op}
Watched == {"settle", "flush"}

LEMMA RunningFacts ==
  ASSUME TypeOK, NEW op, Running(op)
  PROVE  /\ Head(todo) \in TaskRecord /\ Head(todo).op = op
         /\ Tail(todo) \in Seq(TaskRecord)
         /\ Range(todo) = {Head(todo)} \cup Range(Tail(todo))
         /\ op \notin Watched => \A p \in Watched : Of(p, Tail(todo)) = Pending(p)
<1>1. /\ Head(todo) \in TaskRecord /\ Tail(todo) \in Seq(TaskRecord)
      /\ Range(todo) = {Head(todo)} \cup Range(Tail(todo))
      /\ Head(todo).op = op
  BY RangeTail DEF TypeOK, Running
<1>2. ASSUME op \notin Watched, NEW p \in Watched
      PROVE  Of(p, Tail(todo)) = Pending(p)
  BY <1>1, <1>2 DEF Of, Pending
<1> QED BY <1>1, <1>2

LEMMA PumpFirstWatched ==
  ASSUME NEW rest \in Seq(TaskRecord), NEW p \in Watched
  PROVE  Of(p, <<Task("pump")>> \o rest) = Of(p, rest)
<1>1. /\ <<Task("pump")>> \in Seq(TaskRecord) /\ Task("pump").op = "pump"
  BY TaskType, OpsType
<1>2. Range(<<Task("pump")>> \o rest) = {Task("pump")} \cup Range(rest)
  <2>1. Range(<<Task("pump")>> \o rest) = Range(<<Task("pump")>>) \cup Range(rest)
    BY <1>1, RangeConcat
  <2>2. Range(<<Task("pump")>>) = {Task("pump")}
    BY RangeOne
  <2> QED BY <2>1, <2>2
<1>3. Task("pump").op # p
  BY <1>1 DEF Watched
<1>4. Range(<<Task("pump")>> \o rest) \subseteq {Task("pump")} \cup Range(rest)
  BY <1>2
<1>5. \A x \in Range(<<Task("pump")>> \o rest) : x.op = p => x \in Range(rest)
  BY <1>3, <1>4
<1> QED BY <1>2, <1>5 DEF Of

LEMMA PendingOf == \A p \in Watched : Pending(p) = Of(p, todo) /\ Pending(p)' = Of(p, todo')
BY DEF Pending, Of

LEMMA NoneWatched ==
  /\ Of("flush", BootMicrotasks) # {} /\ Of("settle", BootMicrotasks) = {}
  /\ \A p \in Watched :
       /\ Of(p, <<>>) = {} /\ Of(p, <<Task("pump")>>) = {}
       /\ Of(p, [i \in 1..FanOut |-> Task("StatusNotification")]) = {}
       /\ \A a \in Actions : /\ Of(p, ErrorCalls(a)) = {}
                             /\ Of(p, <<Task(a), Task("conf")>>) = {}
                             /\ \A t \in ResultCalls(a) : Of(p, t) = {}
<1>1. \A op \in Ops : Task(op).op = op
  BY TaskType
<1>2. /\ "pump" \in Ops /\ "flush" \in Ops /\ "conf" \in Ops /\ Actions \subseteq Ops
      /\ "StatusNotification" \in Ops /\ "StopTransaction" \in Ops
      /\ Actions \cap Watched = {}
  BY DEF Ops, Actions, Transactional, Watched
<1>3. Of("flush", BootMicrotasks) # {} /\ Of("settle", BootMicrotasks) = {}
  <2>1. Range(BootMicrotasks) = {Task("pump"), Task("flush")}
    BY DEF Range, BootMicrotasks
  <2> QED BY <1>1, <1>2, <2>1 DEF Of
<1>4. ASSUME NEW p \in Watched
      PROVE  /\ Of(p, <<>>) = {} /\ Of(p, <<Task("pump")>>) = {}
             /\ Of(p, [i \in 1..FanOut |-> Task("StatusNotification")]) = {}
  BY <1>1, <1>2, RangeOne, RangeEmpty DEF Of, Watched, Range
<1>5. ASSUME NEW p \in Watched, NEW a \in Actions
      PROVE  /\ Of(p, ErrorCalls(a)) = {}
             /\ Of(p, <<Task(a), Task("conf")>>) = {}
  <2>1. Range(<<Task(a), Task("conf")>>) = {Task(a), Task("conf")}
    BY DEF Range
  <2>2. Of(p, <<Task(a), Task("conf")>>) = {}
    BY <1>1, <1>2, <2>1 DEF Of, Watched
  <2>3. \/ ErrorCalls(a) = <<>> 
        \/ ErrorCalls(a) = <<Task("StatusNotification")>>
    BY DEF ErrorCalls
  <2>4. Of(p, ErrorCalls(a)) = {}
    BY <1>1, <1>2, <1>4, <2>3, RangeOne DEF Of, Watched
  <2> QED BY <2>2, <2>4
<1>6. ASSUME NEW p \in Watched, NEW a \in Actions, NEW t \in ResultCalls(a)
      PROVE  Of(p, t) = {}
  <2>1. \/ t = <<>>
        \/ t = <<Task("StatusNotification")>>
        \/ t = <<Task("StopTransaction"), Task("StatusNotification")>>
    BY <1>6, Zenon DEF ResultCalls
  <2>2. Range(<<Task("StopTransaction"), Task("StatusNotification")>>)
          = {Task("StopTransaction"), Task("StatusNotification")}
    BY DEF Range
  <2>3. Range(t) \subseteq {Task("StopTransaction"), Task("StatusNotification")}
    BY <2>1, <2>2, RangeOne, RangeEmpty
  <2>4. \A x \in Range(t) : x.op \in {"StopTransaction", "StatusNotification"}
    BY <1>1, <1>2, <2>3
  <2> QED BY <2>4 DEF Of, Watched
<1> QED BY <1>3, <1>4, <1>5, <1>6

-----------------------------------------------------------------------------
(* The parts of the invariant, step by step.                               *)

LEMMA QueuesUntouched ==
  ASSUME OnePlace, OrderKept, UNCHANGED <<serialQueue, pendingQueue, wire, next>>
  PROVE  OnePlace' /\ OrderKept'
BY DEF OnePlace, OrderKept

LEMMA SlotUntouched ==
  ASSUME SlotCovers, UNCHANGED <<inFlight, wire, outstanding>>,
         Pending("settle")' \subseteq Pending("settle")
  PROVE  SlotCovers'
BY DEF SlotCovers, Ids

LEMMA AnswersUntouched ==
  ASSUME AnsweredSettles, HandledOnce,
         UNCHANGED <<wire, requests, answered, repeated>>,
         Pending("settle")' = Pending("settle")
  PROVE  AnsweredSettles' /\ HandledOnce'
BY DEF AnsweredSettles, HandledOnce, Ids

LEMMA SendRequestInv ==
  ASSUME TypeOK, OnePlace, OrderKept, NEW a \in Actions,
         NEW rest \in Seq(TaskRecord), SendRequest(a, rest),
         UNCHANGED <<pendingQueue, wire>>
  PROVE  /\ OnePlace' /\ OrderKept'
         /\ \A p \in Watched : Pending(p)' = Of(p, rest)
<1>1. CASE IsCallAllowed(a)
  <2> DEFINE c == Call(next, a)
  <2>1. c \in CallRecord /\ c.id = next
    BY CallType DEF TypeOK, Call
  <2>2. /\ serialQueue' = Append(serialQueue, c) /\ next' = next + 1
        /\ todo' = <<Task("pump")>> \o rest
    BY <1>1, Zenon DEF SendRequest, Enqueued
  <2>3. Range(serialQueue') = Range(serialQueue) \cup {c}
    BY <2>1, <2>2, RangeAppend DEF TypeOK
  <2>4. \A d \in Range(serialQueue) \cup Range(pendingQueue) \cup Range(wire) :
          d.id < next /\ d.id # next
    <3>1. \A d \in Range(serialQueue) \cup Range(pendingQueue) \cup Range(wire) :
            d \in CallRecord
      BY RangeType DEF TypeOK
    <3>2. \A d \in Range(serialQueue) \cup Range(pendingQueue) \cup Range(wire) :
            d.id < next
      BY DEF OnePlace, Ids
    <3> QED BY <3>1, <3>2 DEF TypeOK, CallRecord
  <2>5. Ids(Range(serialQueue')) = Ids(Range(serialQueue)) \cup {next}
    BY <2>1, <2>3 DEF Ids
  <2>6. /\ next \notin Ids(Range(serialQueue)) /\ next \notin Ids(Range(pendingQueue))
        /\ next \notin Ids(Range(wire))
    BY <2>4 DEF Ids
  <2>7. Once(serialQueue') /\ Ordered(serialQueue')
    BY <2>1, <2>2, <2>4, <2>6, OnceAppend, OrderedAppend
       DEF TypeOK, OnePlace, OrderKept
  <2> HIDE DEF c
  <2>8. \A id \in Ids(Range(serialQueue) \cup Range(pendingQueue) \cup Range(wire))' :
          id < next'
    <3>1. \A d \in Range(serialQueue') \cup Range(pendingQueue) \cup Range(wire) :
            d \in CallRecord /\ d.id < next + 1
      <4>1. \A d \in Range(serialQueue) \cup Range(pendingQueue) \cup Range(wire) :
              d \in CallRecord
        BY RangeType DEF TypeOK
      <4> QED BY <2>1, <2>3, <2>4, <4>1 DEF TypeOK, CallRecord
    <3>2. pendingQueue' = pendingQueue /\ wire' = wire
      OBVIOUS
    <3> QED BY <2>2, <3>1, <3>2 DEF Ids
  <2>9. OnePlace'
    BY <2>5, <2>6, <2>7, <2>8 DEF OnePlace
  <2>10. OrderKept'
    BY <2>1, <2>3, <2>4, <2>7 DEF OrderKept
  <2> QED BY <2>2, <2>9, <2>10, PumpFirstWatched, PendingOf
<1>2. CASE ~IsCallAllowed(a)
  BY <1>2, QueuesUntouched, PendingOf DEF SendRequest
<1> QED BY <1>1, <1>2

LEMMA Members ==
  ASSUME TypeOK
  PROVE  \A d \in Range(serialQueue) \cup Range(pendingQueue) \cup Range(wire) :
           d \in CallRecord
BY RangeType DEF TypeOK

LEMMA IdsAdd ==
  ASSUME NEW A, NEW B, NEW c, B = A \cup {c}
  PROVE  Ids(B) = Ids(A) \cup {c.id}
BY DEF Ids

LEMMA IdsIn ==
  ASSUME NEW A, NEW B, A \subseteq B
  PROVE  Ids(A) \subseteq Ids(B)
BY DEF Ids

LEMMA IdsOne == Ids({}) = {} /\ \A c : Ids({c}) = {c.id}
BY DEF Ids

LEMMA PumpSendsInv == InductiveInv /\ PumpSends => InductiveInv'
<1> SUFFICES ASSUME InductiveInv, PumpSends PROVE InductiveInv'
  OBVIOUS
<1> DEFINE c == Head(serialQueue)
<1> USE DEF InductiveInv
<1>0. TypeOK'
  BY TaskKeepsType DEF RunTask
<1>1. /\ c \in CallRecord /\ c \in Range(serialQueue)
      /\ Range(serialQueue) = {c} \cup Range(serialQueue')
      /\ serialQueue' = Tail(serialQueue) /\ serialQueue # <<>>
  BY RangeTail DEF TypeOK, PumpSends, CanPump
<1>2. wire' = Append(wire, c) /\ Range(wire') = Range(wire) \cup {c}
  BY <1>1, RangeAppend DEF TypeOK, PumpSends
<1>3. /\ inFlight = NoCall /\ inFlight' = c /\ outstanding' = outstanding \cup {c}
      /\ requests' = requests \cup {c} /\ todo' = Tail(todo)
      /\ UNCHANGED <<pendingQueue, next, socket, booted, answered, repeated>>
  BY DEF PumpSends, CanPump
<1>4. Pending("settle")' = Pending("settle") /\ Pending("flush")' = Pending("flush")
  BY <1>3, RunningFacts, PendingOf DEF PumpSends, Watched
<1>5. /\ Once(serialQueue') /\ Ordered(serialQueue')
      /\ c.id \notin Ids(Range(serialQueue'))
  BY <1>1, OnceTail, OrderedTail DEF TypeOK, OnePlace, OrderKept
<1>6. c.id \notin Ids(Range(wire)) /\ c.id \notin Ids(Range(pendingQueue))
  BY <1>1 DEF OnePlace, Ids
<1>7. Once(wire') /\ Ordered(wire')
  BY <1>1, <1>2, <1>6, OnceAppend, OrderedAppend DEF TypeOK, OnePlace, OrderKept
<1> HIDE DEF c
<1>8. /\ Ids(Range(serialQueue)) = {c.id} \cup Ids(Range(serialQueue'))
      /\ Ids(Range(wire')) = Ids(Range(wire)) \cup {c.id}
      /\ Range(serialQueue') \cup Range(pendingQueue') \cup Range(wire')
           = Range(serialQueue) \cup Range(pendingQueue) \cup Range(wire)
  <2>1. Range(serialQueue) = Range(serialQueue') \cup {c}
    BY <1>1
  <2>2. /\ Ids(Range(serialQueue)) = Ids(Range(serialQueue')) \cup {c.id}
        /\ Ids(Range(wire')) = Ids(Range(wire)) \cup {c.id}
    BY <1>2, <2>1, IdsAdd
  <2>3. Range(pendingQueue') = Range(pendingQueue)
    BY <1>3
  <2> QED BY <1>2, <2>1, <2>2, <2>3
<1>9. OnePlace'
  BY <1>3, <1>5, <1>6, <1>7, <1>8 DEF OnePlace
<1>10. OrderKept'
  <2>1. \A d \in Range(serialQueue') :
          Informational(c) /\ Informational(d) => c.id < d.id
    BY <1>1, OrderedTail DEF TypeOK, OrderKept, c
  <2> QED BY <1>1, <1>2, <1>3, <1>5, <1>7, <2>1 DEF OrderKept
<1>11. SlotCovers'
  <2>1. outstanding' = {c}
    BY <1>3, Members, NoCallId DEF SlotCovers
  <2>2. Ids(outstanding') = {c.id}
    BY <2>1, IdsOne
  <2> QED BY <1>2, <1>3, <1>4, <1>6, <1>8, <2>1, <2>2 DEF SlotCovers
<1>12. AnsweredSettles' /\ HandledOnce'
  <2>1. Ids(requests') = Ids(requests) \cup {c.id}
    BY <1>3, IdsAdd
  <2>2. c.id \notin Ids(answered)
    BY <1>6, IdsIn DEF AnsweredSettles
  <2> QED BY <1>2, <1>3, <1>4, <2>1, <2>2 DEF AnsweredSettles, HandledOnce
<1>13. FlushComes'
  BY <1>3, <1>4 DEF FlushComes
<1> QED BY <1>0, <1>9, <1>10, <1>11, <1>12, <1>13

LEMMA PumpFailsInv == InductiveInv /\ PumpFails => InductiveInv'
<1> SUFFICES ASSUME InductiveInv, PumpFails PROVE InductiveInv'
  OBVIOUS
<1> DEFINE c == Head(serialQueue)
<1> USE DEF InductiveInv
<1>0. TypeOK'
  BY TaskKeepsType DEF RunTask
<1>1. /\ c \in CallRecord /\ c \in Range(serialQueue)
      /\ Range(serialQueue) = {c} \cup Range(serialQueue')
      /\ serialQueue' = Tail(serialQueue) /\ serialQueue # <<>>
  BY RangeTail DEF TypeOK, PumpFails, CanPump
<1>2. /\ requests' = requests \cup {c} /\ socket # "open"
      /\ pendingQueue' = Stored(c)
      /\ UNCHANGED <<inFlight, todo, next, socket, booted, wire, answered,
                     repeated, outstanding>>
  BY DEF PumpFails, historyVars
<1>3. Pending("settle")' = Pending("settle")
  BY <1>2 DEF Pending
<1>4. /\ Once(serialQueue') /\ Ordered(serialQueue')
      /\ c.id \notin Ids(Range(serialQueue'))
  BY <1>1, OnceTail, OrderedTail DEF TypeOK, OnePlace, OrderKept
<1>5. c.id \notin Ids(Range(wire)) /\ c.id \notin Ids(Range(pendingQueue))
  BY <1>1 DEF OnePlace, Ids
<1>6. c.id \in Nat \ {0}
  BY <1>1 DEF CallRecord
<1>7. ~Informational(c) => /\ Range(pendingQueue') = Range(pendingQueue) \cup {c}
                           /\ Once(pendingQueue')
  <2> SUFFICES ASSUME ~Informational(c)
               PROVE  /\ Range(pendingQueue') = Range(pendingQueue) \cup {c}
                      /\ Once(pendingQueue')
    OBVIOUS
  <2>1. pendingQueue' = Append(pendingQueue, c)
    BY <1>2 DEF Stored, Informational
  <2> QED BY <1>1, <1>5, <2>1, OnceAppend, RangeAppend DEF TypeOK, OnePlace
<1>8. Informational(c) => pendingQueue' = pendingQueue
  BY <1>2 DEF Stored, Informational
<1> HIDE DEF c
<1>9. Ids(Range(serialQueue)) = Ids(Range(serialQueue')) \cup {c.id}
  <2>1. Range(serialQueue) = Range(serialQueue') \cup {c}
    BY <1>1
  <2> QED BY <2>1, IdsAdd
<1>10. Ids(Range(pendingQueue')) \in {Ids(Range(pendingQueue)),
                                      Ids(Range(pendingQueue)) \cup {c.id}}
  <2>1. CASE Informational(c)
    BY <1>8, <2>1
  <2>2. CASE ~Informational(c)
    BY <1>6, <1>7, <2>2, IdsAdd
  <2> QED BY <2>1, <2>2
<1>11. OnePlace'
  <2>1. Once(pendingQueue')
    BY <1>7, <1>8 DEF OnePlace
  <2>2. \A d \in Range(serialQueue) \cup Range(pendingQueue) \cup Range(wire) :
          d.id < next
    BY DEF OnePlace, Ids
  <2>3. \A d \in Range(serialQueue') \cup Range(pendingQueue') \cup Range(wire') :
          d.id < next'
    BY <1>1, <1>2, <1>6, <1>7, <1>8, <2>2
  <2>4. \A id \in Ids(Range(serialQueue) \cup Range(pendingQueue) \cup Range(wire))' :
          id < next'
    BY <2>3 DEF Ids
  <2> QED BY <1>2, <1>4, <1>5, <1>9, <1>10, <2>1, <2>4 DEF OnePlace
<1>12. OrderKept'
  BY <1>1, <1>2, <1>4, <1>6, <1>7, <1>8 DEF OrderKept
<1>13. SlotCovers'
  BY <1>2, <1>3, SlotUntouched
<1>14. AnsweredSettles' /\ HandledOnce'
  <2>1. Ids(requests') = Ids(requests) \cup {c.id}
    BY <1>2, IdsAdd
  <2>2. c.id \notin Ids(answered)
    BY <1>5, IdsIn DEF AnsweredSettles
  <2> QED BY <1>2, <1>3, <2>1, <2>2 DEF AnsweredSettles, HandledOnce
<1>15. FlushComes'
  BY <1>2 DEF FlushComes
<1> QED BY <1>0, <1>11, <1>12, <1>13, <1>14, <1>15

LEMMA FlushHandsOverInv == InductiveInv /\ FlushHandsOver => InductiveInv'
<1> SUFFICES ASSUME InductiveInv, FlushHandsOver PROVE InductiveInv'
  OBVIOUS
<1> DEFINE c == Head(pendingQueue)
<1> USE DEF InductiveInv
<1>0. TypeOK'
  BY TaskKeepsType DEF RunTask
<1>1. /\ c \in CallRecord /\ c \in Range(pendingQueue)
      /\ Range(pendingQueue) = {c} \cup Range(pendingQueue')
      /\ pendingQueue' = Tail(pendingQueue) /\ pendingQueue # <<>>
  BY RangeTail DEF TypeOK, FlushHandsOver, HandOver
<1>2. /\ Running("flush")
      /\ UNCHANGED <<inFlight, requests, socket, next, booted, wire, answered,
                     repeated, outstanding>>
  BY DEF FlushHandsOver, HandOver, historyVars
<1>3. \/ serialQueue' = Append(serialQueue, c) /\ todo' = <<Task("pump")>> \o todo
      \/ serialQueue' = serialQueue /\ todo' = todo
  BY Zenon DEF FlushHandsOver, HandOver, Enqueued
<1>4. \A p \in Watched : Pending(p)' = Pending(p)
  BY <1>3, PumpFirstWatched, PendingOf DEF TypeOK
<1>5. Pending("flush") # {} /\ Pending("flush")' # {}
  <2>1. Head(todo) \in Pending("flush")
    BY <1>2, RunningFacts DEF Pending
  <2> QED BY <1>4, <2>1 DEF Watched
<1>6. /\ Once(pendingQueue') /\ c.id \notin Ids(Range(pendingQueue'))
  BY <1>1, OnceTail DEF TypeOK, OnePlace
<1>7. c.id \notin Ids(Range(wire)) /\ c.id \notin Ids(Range(serialQueue))
  BY <1>1 DEF OnePlace, Ids
<1>8. ~Informational(c)
  BY <1>1 DEF OrderKept
<1>9. /\ Once(Append(serialQueue, c)) /\ Ordered(Append(serialQueue, c))
      /\ Range(Append(serialQueue, c)) = Range(serialQueue) \cup {c}
  BY <1>1, <1>7, <1>8, OnceAppend, OrderedAppend, RangeAppend
     DEF TypeOK, OnePlace, OrderKept
<1> HIDE DEF c
<1>10. Ids(Range(pendingQueue)) = Ids(Range(pendingQueue')) \cup {c.id}
  <2>1. Range(pendingQueue) = Range(pendingQueue') \cup {c}
    BY <1>1
  <2> QED BY <2>1, IdsAdd
<1>11. /\ Once(serialQueue') /\ Ordered(serialQueue')
       /\ Range(serialQueue') \in {Range(serialQueue), Range(serialQueue) \cup {c}}
  BY <1>3, <1>9 DEF OnePlace, OrderKept
<1>12. Ids(Range(serialQueue')) \in {Ids(Range(serialQueue)),
                                     Ids(Range(serialQueue)) \cup {c.id}}
  BY <1>11, IdsAdd
<1>13. OnePlace'
  <2>1. \A d \in Range(serialQueue) \cup Range(pendingQueue) \cup Range(wire) :
          d.id < next
    BY DEF OnePlace, Ids
  <2>2. \A d \in Range(serialQueue') \cup Range(pendingQueue') \cup Range(wire') :
          d.id < next'
    BY <1>1, <1>2, <1>11, <2>1
  <2>3. \A id \in Ids(Range(serialQueue) \cup Range(pendingQueue) \cup Range(wire))' :
          id < next'
    BY <2>2 DEF Ids
  <2> QED BY <1>2, <1>6, <1>7, <1>10, <1>11, <1>12, <2>3 DEF OnePlace
<1>14. OrderKept'
  BY <1>1, <1>2, <1>8, <1>11 DEF OrderKept
<1>15. SlotCovers'
  BY <1>2, <1>4, SlotUntouched DEF Watched
<1>16. AnsweredSettles' /\ HandledOnce'
  BY <1>2, <1>4, AnswersUntouched DEF Watched
<1>17. FlushComes'
  BY <1>5 DEF FlushComes
<1> QED BY <1>0, <1>13, <1>14, <1>15, <1>16, <1>17

LEMMA SettleInv == InductiveInv /\ SettleSerialInFlight => InductiveInv'
<1> SUFFICES ASSUME InductiveInv, SettleSerialInFlight PROVE InductiveInv'
  OBVIOUS
<1> DEFINE id == Head(todo).id
<1> USE DEF InductiveInv
<1>0. TypeOK'
  BY TaskKeepsType DEF RunTask
<1>1. /\ Running("settle") /\ requests' = Forgotten(id)
      /\ UNCHANGED <<serialQueue, pendingQueue, socket, next, booted, wire,
                     answered, repeated, outstanding>>
  BY DEF SettleSerialInFlight, ReleaseSlot, historyVars
<1>2. \/ inFlight.id = id /\ inFlight' = NoCall /\ todo' = <<Task("pump")>> \o Tail(todo)
      \/ inFlight' = inFlight /\ todo' = Tail(todo)
  BY Zenon DEF SettleSerialInFlight, ReleaseSlot
<1>3. /\ Tail(todo) \in Seq(TaskRecord) /\ Head(todo).op = "settle"
      /\ Range(todo) = {Head(todo)} \cup Range(Tail(todo))
  BY <1>1, RunningFacts
<1>4. \A p \in Watched : Pending(p)' = Of(p, Tail(todo))
  BY <1>2, <1>3, PumpFirstWatched, PendingOf
<1>5. /\ Pending("settle") = Pending("settle")' \cup {Head(todo)}
      /\ Pending("flush") = Pending("flush")'
  BY <1>3, <1>4 DEF Of, Pending, Watched
<1>6. Ids(Pending("settle")) = Ids(Pending("settle")') \cup {id}
  BY <1>5, IdsAdd
<1> HIDE DEF id
<1>7. OnePlace' /\ OrderKept'
  BY <1>1, QueuesUntouched
<1>8. SlotCovers'
  <2>1. CASE inFlight' = inFlight
    BY <1>1, <1>6, <2>1 DEF SlotCovers
  <2>2. CASE inFlight.id = id /\ inFlight' = NoCall
    <3>1. outstanding = {}
      BY <1>6, <2>2 DEF SlotCovers, Ids
    <3> QED BY <1>1, <1>6, <2>2, <3>1 DEF SlotCovers
  <2> QED BY <1>2, <2>1, <2>2
<1>9. AnsweredSettles' /\ HandledOnce'
  <2>1. Ids(requests') \subseteq Ids(requests) /\ id \notin Ids(requests')
    BY <1>1 DEF Forgotten, Ids
  <2> QED BY <1>1, <1>6, <2>1 DEF AnsweredSettles, HandledOnce
<1>10. FlushComes'
  BY <1>1, <1>5 DEF FlushComes
<1> QED BY <1>0, <1>7, <1>8, <1>9, <1>10

LEMMA TaskKeepsInv == InductiveInv /\ RunTask => InductiveInv'
<1> SUFFICES ASSUME InductiveInv, RunTask PROVE InductiveInv'
  OBVIOUS
<1> USE DEF InductiveInv
<1>0. TypeOK'
  BY TaskKeepsType
<1>1. CASE RunSendRequest
  <2>1. PICK a \in Actions : Running(a) /\ SendRequest(a, Tail(todo))
    BY <1>1 DEF RunSendRequest
  <2>2. a \notin Watched
    BY DEF Watched, Actions, Transactional
  <2>3. UNCHANGED <<inFlight, requests, pendingQueue, socket, booted, wire,
                    answered, repeated, outstanding>>
    BY <1>1 DEF RunSendRequest, historyVars
  <2>4. /\ OnePlace' /\ OrderKept'
        /\ \A p \in Watched : Pending(p)' = Of(p, Tail(todo))
    BY <2>1, <2>3, RunningFacts, SendRequestInv
  <2>5. Pending("settle")' = Pending("settle") /\ Pending("flush")' = Pending("flush")
    BY <2>1, <2>2, <2>4, RunningFacts DEF Watched
  <2>6. SlotCovers'
    BY <2>3, <2>5, SlotUntouched
  <2>7. AnsweredSettles' /\ HandledOnce'
    BY <2>3, <2>5, AnswersUntouched
  <2> QED BY <1>0, <2>3, <2>4, <2>5, <2>6, <2>7 DEF FlushComes
<1>2. CASE PumpReturns \/ FlushReturns \/ SendCallResult
  <2>1. PICK op \in {"pump", "flush", "conf"} : Running(op)
    BY <1>2 DEF PumpReturns, FlushReturns, SendCallResult
  <2>2. /\ todo' = Tail(todo) /\ (op = "flush" => pendingQueue = <<>>)
        /\ UNCHANGED <<serialQueue, inFlight, requests, pendingQueue, socket, next,
                       booted, wire, answered, repeated, outstanding>>
    BY <1>2, <2>1 DEF PumpReturns, FlushReturns, SendCallResult, Running,
                      handlerVars, historyVars
  <2>3. Pending("settle")' = Pending("settle")
    BY <2>1, <2>2, RunningFacts DEF Pending
  <2>4. op # "flush" => Pending("flush")' = Pending("flush")
    BY <2>1, <2>2, RunningFacts DEF Pending
  <2>5. OnePlace' /\ OrderKept'
    BY <2>2, QueuesUntouched
  <2>6. SlotCovers'
    BY <2>2, <2>3, SlotUntouched
  <2>7. AnsweredSettles' /\ HandledOnce'
    BY <2>2, <2>3, AnswersUntouched
  <2>8. FlushComes'
    BY <2>2, <2>4 DEF FlushComes
  <2> QED BY <1>0, <2>5, <2>6, <2>7, <2>8
<1> QED BY <1>1, <1>2, PumpSendsInv, PumpFailsInv, FlushHandsOverInv, SettleInv
        DEF RunTask

(* An answered CALL leaves the awaited ones, and is the one that will      *)
(* settle; no CALL is answered twice, because it was still in the table.   *)
LEMMA DispatchInv ==
  ASSUME InductiveInv, NEW call \in Range(wire),
         NEW tasks \in Seq(TaskRecord), NEW microtasks \in Seq(TaskRecord),
         Dispatch(call, tasks, microtasks),
         Of("settle", tasks) = {}, Of("settle", microtasks) = {},
         UNCHANGED <<serialQueue, inFlight, requests, pendingQueue, next, wire>>
  PROVE  /\ OnePlace' /\ OrderKept' /\ SlotCovers'
         /\ AnsweredSettles' /\ HandledOnce'
         /\ Of("flush", microtasks) \subseteq Pending("flush")'
<1> USE DEF InductiveInv
<1>1. /\ call \in CallRecord /\ Settle(call) \in TaskRecord
      /\ Settle(call).op = "settle" /\ Settle(call).id = call.id
  BY Members, SettleType
<1>2. /\ todo = <<>> /\ (\E r \in requests : r.id = call.id)
      /\ repeated' = repeated \cup ({call} \cap answered)
      /\ answered' = answered \cup {call}
      /\ outstanding' = outstanding \ {call}
      /\ todo' = tasks \o <<Settle(call)>> \o microtasks
  BY DEF Dispatch, Idle
<1>3. Range(todo') = Range(tasks) \cup {Settle(call)} \cup Range(microtasks)
  <2> DEFINE one == <<Settle(call)>>
             first == tasks \o one
  <2>1. one \in Seq(TaskRecord) /\ Range(one) = {Settle(call)}
    BY <1>1, RangeOne
  <2> HIDE DEF one
  <2>2. first \in Seq(TaskRecord) /\ Range(first) = Range(tasks) \cup Range(one)
    BY <2>1, RangeConcat
  <2>3. todo' = first \o microtasks
    BY <1>2 DEF one
  <2> HIDE DEF first
  <2>4. Range(first \o microtasks) = Range(first) \cup Range(microtasks)
    BY <2>2, RangeConcat
  <2> QED BY <2>1, <2>2, <2>3, <2>4
<1>4. Pending("settle") = {} /\ Pending("settle")' = {Settle(call)}
  BY <1>1, <1>2, <1>3, RangeEmpty DEF Pending, Of
<1>5. Ids(Pending("settle")') = {call.id} /\ Ids(Pending("settle")) = {}
  BY <1>1, <1>4, IdsOne
<1>6. Of("flush", microtasks) \subseteq Pending("flush")'
  BY <1>3 DEF Pending, Of
<1>7. OnePlace' /\ OrderKept'
  BY QueuesUntouched
<1>8. call.id \in Ids(Range(wire))
  BY DEF Ids
<1>9. SlotCovers'
  <2>1. \A c \in outstanding : c.id = call.id => c = call
    BY DEF SlotCovers, OnePlace, Once, Range
  <2>2. Ids(Pending("settle")') \cap Ids(outstanding') = {}
    BY <1>2, <1>5, <2>1 DEF Ids
  <2> QED BY <1>2, <1>5, <1>8, <2>2 DEF SlotCovers
<1>10. call \notin answered
  BY <1>2, <1>5 DEF AnsweredSettles, Ids
<1>11. HandledOnce'
  BY <1>2, <1>10 DEF HandledOnce
<1>12. AnsweredSettles'
  <2>1. Ids(answered') = Ids(answered) \cup {call.id}
    BY <1>2, IdsAdd
  <2> QED BY <1>2, <1>5, <2>1 DEF AnsweredSettles
<1> QED BY <1>6, <1>7, <1>9, <1>11, <1>12

LEMMA AnswerKeepsInv == InductiveInv /\ Answer => InductiveInv'
<1> SUFFICES ASSUME InductiveInv, NEW call \in Range(wire),
                    \/ BootAccepted(call) \/ BootPending(call)
                    \/ BootRejected(call)
                    \/ CallResult(call) \/ CallError(call)
             PROVE  InductiveInv'
  BY DEF Answer
<1> USE DEF InductiveInv
<1>0. TypeOK'
  BY AnswerKeepsType
<1>c. call.action \in Actions
  <2>1. call \in CallRecord
    BY Members
  <2> QED BY <2>1 DEF CallRecord
<1>e. <<>> \in Seq(TaskRecord) /\ Of("settle", <<>>) = {}
  BY NoneWatched DEF Watched
<1>1. CASE BootAccepted(call)
  <2> DEFINE fan == [i \in 1..FanOut |-> Task("StatusNotification")]
  <2>1. /\ fan \in Seq(TaskRecord) /\ BootMicrotasks \in Seq(TaskRecord)
        /\ Of("settle", fan) = {} /\ Of("settle", BootMicrotasks) = {}
        /\ Of("flush", BootMicrotasks) # {}
    BY HandlerCallsType, NoneWatched DEF Watched
  <2>2. /\ Dispatch(call, fan, BootMicrotasks)
        /\ UNCHANGED <<serialQueue, inFlight, requests, pendingQueue, next, wire>>
    BY <1>1 DEF BootAccepted
  <2> HIDE DEF fan
  <2>3. /\ OnePlace' /\ OrderKept' /\ SlotCovers'
        /\ AnsweredSettles' /\ HandledOnce'
        /\ Of("flush", BootMicrotasks) \subseteq Pending("flush")'
    BY <2>1, <2>2, DispatchInv
  <2>4. FlushComes'
    BY <2>1, <2>3 DEF FlushComes
  <2> QED BY <1>0, <2>3, <2>4
<1>2. ASSUME NEW tasks \in Seq(TaskRecord), Of("settle", tasks) = {},
             Dispatch(call, tasks, <<>>),
             UNCHANGED <<serialQueue, inFlight, requests, pendingQueue, next,
                         wire, socket, booted>>
      PROVE  InductiveInv'
  <2>1. /\ OnePlace' /\ OrderKept' /\ SlotCovers'
        /\ AnsweredSettles' /\ HandledOnce'
    BY <1>e, <1>2, DispatchInv
  <2>2. Pending("flush") = {}
    BY <1>2, RangeEmpty DEF Dispatch, Idle, Pending
  <2>3. FlushComes'
    BY <1>2, <2>2 DEF FlushComes
  <2> QED BY <1>0, <2>1, <2>3
<1>3. CASE BootPending(call)
  BY <1>2, <1>3, <1>e DEF BootPending
<1>4. CASE BootRejected(call)
  BY <1>2, <1>4, <1>e DEF BootRejected
<1>5. CASE CallResult(call)
  <2>1. PICK tasks \in ResultCalls(call.action) : Dispatch(call, tasks, <<>>)
    BY <1>5 DEF CallResult
  <2>2. tasks \in Seq(TaskRecord) /\ Of("settle", tasks) = {}
    BY <1>c, HandlerCallsType, NoneWatched DEF Watched
  <2> QED BY <1>2, <1>5, <2>1, <2>2 DEF CallResult, handlerVars
<1>6. CASE CallError(call)
  <2>1. /\ ErrorCalls(call.action) \in Seq(TaskRecord)
        /\ Of("settle", ErrorCalls(call.action)) = {}
    BY <1>c, HandlerCallsType, NoneWatched DEF Watched
  <2> QED BY <1>2, <1>6, <2>1 DEF CallError, handlerVars
<1> QED BY <1>1, <1>3, <1>4, <1>5, <1>6

LEMMA SenderKeepsInv ==
  ASSUME InductiveInv, Idle, NEW a \in Actions, SendRequest(a, <<>>),
         UNCHANGED <<inFlight, requests, pendingQueue, wire, answered, repeated,
                     outstanding>>,
         (socket' = "open" /\ booted') => UNCHANGED <<socket, booted>>,
         TypeOK'
  PROVE  InductiveInv'
<1> USE DEF InductiveInv
<1>1. /\ OnePlace' /\ OrderKept' /\ \A p \in Watched : Pending(p)' = Of(p, <<>>)
  <2>1. <<>> \in Seq(TaskRecord)
    OBVIOUS
  <2> QED BY <2>1, SendRequestInv
<1>2. \A p \in Watched : Pending(p) = {} /\ Pending(p)' = {}
  BY <1>1, NoneWatched, PendingOf DEF Idle
<1>3. SlotCovers' /\ AnsweredSettles' /\ HandledOnce'
  BY <1>2, SlotUntouched, AnswersUntouched DEF Watched
<1>4. FlushComes'
  BY <1>2 DEF FlushComes, Watched
<1> QED BY <1>1, <1>3, <1>4

LEMMA EnvironmentKeepsInv ==
  ASSUME InductiveInv,
         \/ \E a \in UserCalls : UserSends(a)
         \/ \E a \in TriggerCalls : HandleTrigger(a)
         \/ SocketOpens \/ SocketCloses \/ WebSocketClosed
         \/ BootRetryFires \/ RetryAfterElapses
         \/ SerialTimeout
  PROVE  InductiveInv'
<1> USE DEF InductiveInv
<1>0. TypeOK'
  BY EnvironmentKeepsType
<1>1. ASSUME NEW a \in UserCalls, UserSends(a) PROVE InductiveInv'
  <2>1. a \in Actions
    BY HandlerAssumption DEF HandlerAssumption
  <2> QED BY <1>0, <1>1, <2>1, SenderKeepsInv DEF UserSends, MayStart, historyVars
<1>2. CASE SocketOpens
  <2>1. Idle /\ SendRequest("BootNotification", <<>>) /\ booted' = FALSE
        /\ UNCHANGED <<inFlight, requests, pendingQueue, wire, answered,
                       repeated, outstanding>>
    BY <1>2 DEF SocketOpens, MayStart
  <2> QED BY <1>0, <2>1, OpsType, SenderKeepsInv
<1>3. CASE BootRetryFires
  BY <1>0, <1>3, OpsType, SenderKeepsInv DEF BootRetryFires, historyVars
<1>4. ASSUME Idle, \A p \in Watched : Of(p, todo') = {},
             UNCHANGED <<serialQueue, inFlight, requests, pendingQueue, next, wire,
                         answered, repeated, outstanding, booted>>,
             socket' = "open" => socket = "open"
      PROVE  InductiveInv'
  <2>1. \A p \in Watched : Pending(p) = {} /\ Pending(p)' = {}
    BY <1>4, NoneWatched, PendingOf DEF Idle
  <2>2. OnePlace' /\ OrderKept'
    BY <1>4, QueuesUntouched
  <2>3. SlotCovers' /\ AnsweredSettles' /\ HandledOnce'
    BY <1>4, <2>1, SlotUntouched, AnswersUntouched DEF Watched
  <2>4. FlushComes'
    BY <1>4, <2>1 DEF FlushComes, Watched
  <2> QED BY <1>0, <2>2, <2>3, <2>4
<1>5. ASSUME NEW a \in TriggerCalls, HandleTrigger(a) PROVE InductiveInv'
  <2>1. a \in Actions
    BY HandlerAssumption DEF HandlerAssumption
  <2>2. \A p \in Watched : Of(p, todo') = {}
    BY <1>5, <2>1, NoneWatched DEF HandleTrigger
  <2> QED BY <1>4, <1>5, <2>2 DEF HandleTrigger, MayStart, handlerVars, historyVars
<1>6. CASE SocketCloses
  <2>1. \A p \in Watched : Of(p, todo') = {}
    BY <1>6, NoneWatched DEF SocketCloses, Idle
  <2> QED BY <1>4, <1>6, <2>1 DEF SocketCloses, handlerVars, historyVars
<1>7. CASE RetryAfterElapses
  <2>1. \A p \in Watched : Of(p, todo') = {}
    BY <1>7, NoneWatched DEF RetryAfterElapses, Idle
  <2> QED BY <1>4, <1>7, <2>1 DEF RetryAfterElapses, historyVars
<1>8. CASE WebSocketClosed
  <2>1. /\ todo = <<>> /\ todo' = <<>> /\ serialQueue' = <<>> /\ inFlight' = NoCall
        /\ outstanding' = {} /\ socket' = "down"
        /\ UNCHANGED <<requests, pendingQueue, next, wire, answered, repeated>>
    BY <1>8 DEF WebSocketClosed, Idle
  <2>2. Pending("settle") = {} /\ Pending("settle")' = {}
    BY <2>1, RangeEmpty DEF Pending
  <2>3. /\ Range(serialQueue') = {} /\ Ids(Range(serialQueue')) = {}
        /\ Once(serialQueue') /\ Ordered(serialQueue')
    <3>1. Once(<<>>) /\ Ordered(<<>>)
      BY DEF Once, Ordered
    <3> QED BY <2>1, <3>1, RangeEmpty, IdsOne
  <2>4. OnePlace'
    <3>1. \A d \in Range(pendingQueue) \cup Range(wire) : d.id < next
      BY DEF OnePlace, Ids
    <3>2. \A id \in Ids(Range(serialQueue) \cup Range(pendingQueue) \cup Range(wire))' :
            id < next'
      BY <2>1, <2>3, <3>1 DEF Ids
    <3> QED BY <2>1, <2>3, <3>2 DEF OnePlace
  <2>5. OrderKept'
    BY <2>1, <2>3 DEF OrderKept
  <2>6. SlotCovers'
    BY <2>1, <2>2, IdsOne DEF SlotCovers
  <2>7. AnsweredSettles' /\ HandledOnce'
    BY <2>1, <2>2, AnswersUntouched
  <2>8. FlushComes'
    BY <2>1 DEF FlushComes
  <2> QED BY <1>0, <2>4, <2>5, <2>6, <2>7, <2>8
<1>9. CASE SerialTimeout
  <2>1. /\ Idle /\ todo' = <<Task("pump")>> /\ inFlight' = NoCall
        /\ outstanding' = outstanding \ {inFlight}
        /\ UNCHANGED <<serialQueue, requests, pendingQueue, socket, next, booted,
                       wire, answered, repeated>>
    BY <1>9 DEF SerialTimeout
  <2>2. \A p \in Watched : Pending(p) = {} /\ Pending(p)' = {}
    BY <2>1, NoneWatched, PendingOf DEF Idle
  <2>3. OnePlace' /\ OrderKept'
    BY <2>1, QueuesUntouched
  <2>4. SlotCovers'
    BY <2>1, <2>2, IdsOne DEF SlotCovers, Watched
  <2>5. AnsweredSettles' /\ HandledOnce'
    BY <2>1, <2>2, AnswersUntouched DEF Watched
  <2>6. FlushComes'
    BY <2>1, <2>2 DEF FlushComes, Watched
  <2> QED BY <1>0, <2>3, <2>4, <2>5, <2>6
<1> QED BY <1>1, <1>2, <1>3, <1>5, <1>6, <1>7, <1>8, <1>9

-----------------------------------------------------------------------------
(* The results.                                                            *)

LEMMA InitInv == Init => InductiveInv
<1> SUFFICES ASSUME Init PROVE InductiveInv
  OBVIOUS
<1>1. /\ serialQueue = <<>> /\ pendingQueue = <<>> /\ wire = <<>> /\ todo = <<>>
      /\ inFlight = NoCall /\ outstanding = {} /\ answered = {} /\ repeated = {}
  BY DEF Init
<1>2. /\ Range(<<>>) = {} /\ Ids({}) = {} /\ Once(<<>>) /\ Ordered(<<>>)
  BY RangeEmpty, IdsOne DEF Once, Ordered
<1>3. OnePlace /\ OrderKept
  BY <1>1, <1>2 DEF OnePlace, OrderKept
<1>4. Pending("settle") = {}
  BY <1>1, <1>2 DEF Pending
<1>5. SlotCovers /\ AnsweredSettles /\ HandledOnce
  BY <1>1, <1>2, <1>4 DEF SlotCovers, AnsweredSettles, HandledOnce
<1>6. FlushComes
  BY <1>1 DEF FlushComes
<1> QED BY <1>3, <1>5, <1>6, InitType DEF InductiveInv

LEMMA StepInv == InductiveInv /\ [Next]_vars => InductiveInv'
<1> SUFFICES ASSUME InductiveInv, [Next]_vars PROVE InductiveInv'
  OBVIOUS
<1>1. CASE UNCHANGED vars
  <2>1. /\ UNCHANGED <<serialQueue, pendingQueue, inFlight, requests, socket, todo,
                       next, booted, wire, answered, repeated, outstanding>>
        /\ TypeOK'
    BY <1>1 DEF InductiveInv, TypeOK, vars, handlerVars, historyVars
  <2>2. Pending("settle")' = Pending("settle") /\ Pending("flush")' = Pending("flush")
    BY <2>1 DEF Pending
  <2>3. /\ OnePlace' /\ OrderKept' /\ SlotCovers'
        /\ AnsweredSettles' /\ HandledOnce'
    BY <2>1, <2>2, QueuesUntouched, SlotUntouched, AnswersUntouched DEF InductiveInv
  <2>4. FlushComes'
    BY <2>1, <2>2 DEF InductiveInv, FlushComes
  <2> QED BY <2>1, <2>3, <2>4 DEF InductiveInv
<1>2. CASE Next
  BY <1>2, TaskKeepsInv, AnswerKeepsInv, EnvironmentKeepsInv DEF Next
<1> QED BY <1>1, <1>2

(* The strengthening holds in every reachable state: a CALL is in one      *)
(* place, the slot covers what is awaited, answered CALLs are forgotten,   *)
(* order is kept and a flush is to come (OCPPMessageHandler.ts:230-247).   *)
THEOREM InvariantHolds == Spec => []InductiveInv
BY InitInv, StepInv, PTL DEF Spec

(* The slot serializes: never two CALLs awaiting an answer, whatever mix   *)
(* of late answers, timeouts, flushes and closes (pumpSerialQueue,         *)
(* settleSerialInFlight).                                                  *)
THEOREM SerializerExcludes == Spec => []OneOutstanding
<1>1. InductiveInv => OneOutstanding
  BY DEF InductiveInv, SlotCovers, OneOutstanding
<1> QED BY <1>1, InvariantHolds, PTL

(* The request table makes result handlers run at most once per CALL       *)
(* (handleCallResult, handleCallError).                                    *)
THEOREM AnswersOnce == Spec => []HandledOnce
<1>1. InductiveInv => HandledOnce
  BY DEF InductiveInv
<1> QED BY <1>1, InvariantHolds, PTL

(* Offline storage and re-sending never duplicate a CALL (pumpSerialQueue, *)
(* PendingMessageQueue.flush).                                             *)
THEOREM NoDuplicates == Spec => []EachCallOnce
<1>1. ASSUME NEW q \in Seq(CallRecord), NEW r \in Seq(CallRecord),
             Once(q), Once(r), Ids(Range(q)) \cap Ids(Range(r)) = {}
      PROVE  Once(q \o r) /\ Ids(Range(q \o r)) = Ids(Range(q)) \cup Ids(Range(r))
  <2>1. /\ DOMAIN q = 1..Len(q) /\ DOMAIN r = 1..Len(r)
        /\ DOMAIN (q \o r) = 1..(Len(q) + Len(r))
        /\ Len(q) \in Nat /\ Len(r) \in Nat
        /\ \A i \in 1..Len(q) : (q \o r)[i] = q[i]
        /\ \A i \in 1..(Len(q) + Len(r)) : i > Len(q) =>
             /\ i - Len(q) \in 1..Len(r)
             /\ (q \o r)[i] = r[i - Len(q)]
    OBVIOUS
  <2>2. \A i \in 1..Len(q), j \in 1..Len(r) : q[i].id # r[j].id
    BY <1>1, <2>1 DEF Ids, Range
  <2>3. ASSUME NEW i \in 1..(Len(q) + Len(r)), NEW j \in 1..(Len(q) + Len(r)),
               (q \o r)[i].id = (q \o r)[j].id
        PROVE  i = j
    <3>1. CASE i \in 1..Len(q) /\ j \in 1..Len(q)
      <4>1. q[i].id = q[j].id
        BY <2>1, <2>3, <3>1
      <4> QED BY <1>1, <2>1, <3>1, <4>1 DEF Once
    <3>2. CASE i > Len(q) /\ j > Len(q)
      <4>1. /\ i - Len(q) \in DOMAIN r /\ j - Len(q) \in DOMAIN r
            /\ r[i - Len(q)].id = r[j - Len(q)].id
        BY <2>1, <2>3, <3>2
      <4>2. i - Len(q) = j - Len(q)
        BY <1>1, <4>1 DEF Once
      <4> QED BY <2>1, <4>2
    <3>3. CASE i \in 1..Len(q) /\ j > Len(q)
      BY <2>1, <2>2, <2>3, <3>3
    <3>4. CASE i > Len(q) /\ j \in 1..Len(q)
      BY <2>1, <2>2, <2>3, <3>4
    <3> QED BY <2>1, <3>1, <3>2, <3>3, <3>4
  <2>4. Range(q \o r) = Range(q) \cup Range(r)
    BY RangeConcat
  <2> QED BY <2>1, <2>3, <2>4 DEF Once, Ids
<1>2. InductiveInv => EachCallOnce
  <2> SUFFICES ASSUME InductiveInv PROVE EachCallOnce
    OBVIOUS
  <2>1. /\ Once(serialQueue \o pendingQueue)
        /\ serialQueue \o pendingQueue \in Seq(CallRecord)
        /\ Ids(Range(serialQueue \o pendingQueue)) \cap Ids(Range(wire)) = {}
    BY <1>1 DEF InductiveInv, TypeOK, OnePlace
  <2>2. Once((serialQueue \o pendingQueue) \o wire)
    BY <1>1, <2>1 DEF InductiveInv, TypeOK, OnePlace
  <2> QED BY <2>2 DEF EachCallOnce, Once
<1> QED BY <1>2, InvariantHolds, PTL

(* CALLs that are not stored reach the wire in the order they were issued  *)
(* (sendRequest, pumpSerialQueue; ChargePoint.ts:1373 relies on it).       *)
THEOREM InformationalInOrder == Spec => []IssueOrder
<1>1. InductiveInv => IssueOrder
  BY DEF InductiveInv, OrderKept, Ordered, Informational, IssueOrder
<1> QED BY <1>1, InvariantHolds, PTL

(* After an accepted boot on an open socket nothing is left stored         *)
(* (ChargePoint.markBootAccepted, flushPendingQueue).                      *)
THEOREM FlushDrains == Spec => []StoredDrained
<1>1. InductiveInv => StoredDrained
  <2> SUFFICES ASSUME InductiveInv, Idle, socket = "open", booted
               PROVE  pendingQueue = <<>>
    BY DEF StoredDrained
  <2>1. Pending("flush") = {}
    BY RangeEmpty DEF Idle, Pending
  <2> QED BY <2>1 DEF InductiveInv, FlushComes
<1> QED BY <1>1, InvariantHolds, PTL

(* No step puts a CALL on the wire that the boot gate blocks at that       *)
(* moment, also one queued before the gate closed (BootGate.ts,            *)
(* pumpSerialQueue).                                                       *)
THEOREM GateGuardsWire == Spec => GateHonoured
<1> DEFINE Guarded == wire' # wire => \/ wire'[Len(wire')].action = "BootNotification"
                                      \/ gate \in {"Accepted", "Lapsed"}
<1>1. TypeOK /\ [Next]_vars => [Guarded]_vars
  <2> SUFFICES ASSUME TypeOK, Next PROVE Guarded
    BY DEF vars
  <2>1. CASE PumpSends
    <3>1. /\ wire' = Append(wire, Head(serialQueue))
          /\ IsCallAllowed(Head(serialQueue).action)
      BY <2>1 DEF PumpSends, CanPump
    <3>2. wire'[Len(wire')] = Head(serialQueue)
      <4>1. Head(serialQueue) \in CallRecord
        BY <2>1, RangeTail DEF TypeOK, PumpSends, CanPump
      <4> QED BY <3>1, <4>1 DEF TypeOK
    <3> QED BY <3>1, <3>2 DEF IsCallAllowed
  <2>2. CASE RunTask /\ ~PumpSends
    <3>1. wire' = wire
      BY <2>2 DEF RunTask, RunSendRequest, PumpReturns, PumpFails, FlushReturns,
                  FlushHandsOver, HandOver, SettleSerialInFlight, ReleaseSlot,
                  SendCallResult, historyVars
    <3> QED BY <3>1
  <2>3. CASE Answer
    <3>1. wire' = wire
      BY <2>3 DEF Answer, BootAccepted, BootPending, BootRejected, CallResult,
                  CallError
    <3> QED BY <3>1
  <2>4. CASE ~RunTask /\ ~Answer
    <3>1. wire' = wire
      BY <2>4 DEF Next, UserSends, HandleTrigger, SocketOpens, SocketCloses,
                  WebSocketClosed, BootRetryFires, RetryAfterElapses,
                  SerialTimeout, historyVars
    <3> QED BY <3>1
  <2> QED BY <2>1, <2>2, <2>3, <2>4
<1> QED BY <1>1, TypeCorrect, PTL DEF Spec, GateHonoured

-----------------------------------------------------------------------------
(* The refinement of CallDelivery.                                         *)

(* The tests of StatusOf, one implication for each of its cases.           *)
StatusFacts(i) ==
  /\ Among(i, answered) => StatusOf(i) = "answered"
  /\ ~Among(i, answered) =>
       /\ Among(i, outstanding) => StatusOf(i) = "sent"
       /\ ~Among(i, outstanding) =>
            /\ Among(i, Range(wire)) => StatusOf(i) = "expired"
            /\ ~Among(i, Range(wire)) =>
                 /\ Among(i, Range(pendingQueue)) => StatusOf(i) = "stored"
                 /\ ~Among(i, Range(pendingQueue)) =>
                      /\ \A c \in Range(serialQueue) : c.id = i =>
                           StatusOf(i) \in {"queued", "queuedDurable"}
                      /\ ~Among(i, Range(serialQueue)) =>
                           StatusOf(i) = IF i < next THEN "dropped" ELSE "none"

LEMMA StatusDetermined == \A i : StatusFacts(i) /\ StatusFacts(i)'
BY DEF StatusFacts, StatusOf, Among

LEMMA Queued ==
  ASSUME Once(serialQueue), NEW c \in Range(serialQueue),
         ~Among(c.id, answered), ~Among(c.id, outstanding),
         ~Among(c.id, Range(wire)), ~Among(c.id, Range(pendingQueue))
  PROVE  StatusOf(c.id) = IF IsTransactionRelated(c.action)
                            THEN "queuedDurable" ELSE "queued"
<1>1. \A d \in Range(serialQueue) : d.id = c.id => d = c
  BY DEF Once, Range
<1>2. Among(c.id, Range(serialQueue))
  BY DEF Among
<1>3. (\E d \in Range(serialQueue) :
         d.id = c.id /\ IsTransactionRelated(d.action))
        <=> IsTransactionRelated(c.action)
  BY <1>1
<1> QED BY <1>2, <1>3 DEF StatusOf

LEMMA StatusKept ==
  ASSUME NEW i,
         Among(i, answered)' <=> Among(i, answered),
         Among(i, outstanding)' <=> Among(i, outstanding),
         Among(i, Range(wire))' <=> Among(i, Range(wire)),
         Among(i, Range(pendingQueue))' <=> Among(i, Range(pendingQueue)),
         \A c : c.id = i => (c \in Range(serialQueue)' <=> c \in Range(serialQueue)),
         i < next' <=> i < next
  PROVE  StatusOf(i)' = StatusOf(i)
BY DEF StatusOf, Among

-----------------------------------------------------------------------------
(* Steps of the abstract delivery.                                         *)
MappedStatus == [i \in 1..MaxIds |-> StatusOf(i)]

LEMMA NothingMoves ==
  ASSUME \A i \in 1..MaxIds : StatusOf(i)' = StatusOf(i)
  PROVE  MappedStatus' = MappedStatus
BY DEF MappedStatus

LEMMA OneMoves ==
  ASSUME NEW k, NEW from, NEW to,
         \A i \in 1..MaxIds : i # k => StatusOf(i)' = StatusOf(i),
         StatusOf(k) \in from, StatusOf(k)' = to
  PROVE  \/ k \in 1..MaxIds /\ Delivery!Move(k, from, to)
         \/ MappedStatus' = MappedStatus
BY NothingMoves DEF Delivery!Move

(* A step that moves one CALL between the places leaves the others alone.  *)
LEMMA OthersStay ==
  ASSUME NEW c, next' = next,
         answered' \ {c} = answered \ {c},
         outstanding' \ {c} = outstanding \ {c},
         Range(wire') \ {c} = Range(wire) \ {c},
         Range(pendingQueue') \ {c} = Range(pendingQueue) \ {c},
         Range(serialQueue') \ {c} = Range(serialQueue) \ {c}
  PROVE  \A i : i # c.id => StatusOf(i)' = StatusOf(i)
<1> SUFFICES ASSUME NEW i, i # c.id PROVE StatusOf(i)' = StatusOf(i)
  OBVIOUS
<1>1. Among(i, answered)' <=> Among(i, answered)
  BY DEF Among
<1>2. Among(i, outstanding)' <=> Among(i, outstanding)
  BY DEF Among
<1>3. Among(i, Range(wire))' <=> Among(i, Range(wire))
  BY DEF Among
<1>4. Among(i, Range(pendingQueue))' <=> Among(i, Range(pendingQueue))
  BY DEF Among
<1>5. \A d : d.id = i => (d \in Range(serialQueue)' <=> d \in Range(serialQueue))
  OBVIOUS
<1> QED BY <1>1, <1>2, <1>3, <1>4, <1>5, StatusKept

LEMMA DeliveryInit == Init => Delivery!Init
<1> SUFFICES ASSUME Init PROVE \A i \in 1..MaxIds : StatusOf(i) = "none"
  BY DEF Delivery!Init
<1>1. /\ Range(serialQueue) = {} /\ Range(pendingQueue) = {} /\ Range(wire) = {}
      /\ answered = {} /\ outstanding = {} /\ next = 1
  BY RangeEmpty DEF Init
<1> QED BY <1>1 DEF StatusOf, Among

(* Where a CALL is not, by the invariant.                                  *)
LEMMA Elsewhere ==
  ASSUME InductiveInv, NEW i
  PROVE  /\ Among(i, answered) => Among(i, Range(wire))
         /\ Among(i, outstanding) => Among(i, Range(wire)) /\ i = inFlight.id
         /\ Among(i, Range(serialQueue)) \/ Among(i, Range(pendingQueue))
              \/ Among(i, Range(wire)) => i < next
         /\ Among(i, Range(serialQueue)) => ~Among(i, Range(pendingQueue))
         /\ Among(i, Range(serialQueue)) => ~Among(i, Range(wire))
         /\ Among(i, Range(pendingQueue)) => ~Among(i, Range(wire))
BY DEF InductiveInv, OnePlace, SlotCovers, AnsweredSettles, Among, Ids

(* sendRequest issues one CALL, or the gate suppresses it for good.        *)
LEMMA SendRequestDelivers ==
  ASSUME InductiveInv, NEW a \in Actions, NEW rest, SendRequest(a, rest),
         UNCHANGED <<answered, outstanding, wire, pendingQueue>>
  PROVE  [Delivery!Next]_MappedStatus
<1>1. CASE IsCallAllowed(a)
  <2>0. PICK k \in Nat \ {0} : k = next
    BY DEF InductiveInv, TypeOK
  <2>1. PICK c \in CallRecord : c = Call(next, a) /\ c.id = k
    BY <2>0, CallType DEF Call
  <2>2. serialQueue' = Append(serialQueue, c) /\ next' = k + 1
    BY <1>1, <2>0, <2>1, Zenon DEF SendRequest, Enqueued
  <2>3. Range(serialQueue') = Range(serialQueue) \cup {c}
    BY <2>1, <2>2, RangeAppend DEF InductiveInv, TypeOK
  <2>4. ~Among(k, Range(serialQueue)) /\ ~Among(k, Range(pendingQueue))
        /\ ~Among(k, Range(wire)) /\ ~Among(k, answered)
        /\ ~Among(k, outstanding)
    BY <2>0, Elsewhere
  <2>5. StatusOf(k) = "none"
    BY <2>0, <2>4 DEF StatusOf, Among
  <2>6. Among(k, Range(serialQueue'))
    BY <2>1, <2>3 DEF Among
  <2>7. StatusOf(k)' \in {"queued", "queuedDurable"}
    <3>1. ~Among(k, Range(pendingQueue')) /\ ~Among(k, Range(wire'))
          /\ ~Among(k, answered') /\ ~Among(k, outstanding')
      BY <2>4
    <3> QED BY <2>6, <3>1 DEF StatusOf, Among
  <2>8. ASSUME NEW i \in 1..MaxIds, i # k
        PROVE  StatusOf(i)' = StatusOf(i)
    <3>1. i < next' <=> i < next
      BY <2>0, <2>2, <2>8, MaxIdsAssumption
    <3>2. \A d : d.id = i => (d \in Range(serialQueue') <=> d \in Range(serialQueue))
      BY <2>1, <2>3, <2>8
    <3> QED BY <3>1, <3>2, StatusKept
  <2>9. PICK q \in {"queued", "queuedDurable"} : StatusOf(k)' = q
    BY <2>7
  <2>10. \/ k \in 1..MaxIds /\ Delivery!Move(k, {"none"}, q)
         \/ MappedStatus' = MappedStatus
    BY <2>5, <2>8, <2>9, OneMoves
  <2> QED BY <2>10 DEF Delivery!Next, Delivery!Issue, Delivery!Queued
<1>2. CASE ~IsCallAllowed(a)
  <2>1. UNCHANGED <<serialQueue, next>>
    BY <1>2 DEF SendRequest
  <2> QED BY <2>1, StatusKept, NothingMoves
<1> QED BY <1>1, <1>2

(* A CALL takes the free slot and the wire.                                *)
LEMMA PumpSendsDelivers ==
  ASSUME InductiveInv, PumpSends
  PROVE  [Delivery!Next]_MappedStatus
<1>1. PICK c \in CallRecord :
         /\ c = Head(serialQueue) /\ c \in Range(serialQueue)
         /\ Range(serialQueue) = {c} \cup Range(serialQueue')
  BY RangeTail DEF InductiveInv, TypeOK, PumpSends, CanPump
<1>2. Range(wire') = Range(wire) \cup {c}
  BY <1>1, RangeAppend DEF InductiveInv, TypeOK, PumpSends
<1>3. /\ inFlight = NoCall /\ outstanding' = outstanding \cup {c}
      /\ UNCHANGED <<pendingQueue, next, answered>>
  BY <1>1 DEF PumpSends, CanPump
<1>4. outstanding = {}
  BY <1>3, Members, NoCallId DEF InductiveInv, SlotCovers
<1>5. Among(c.id, Range(serialQueue))
  BY <1>1 DEF Among
<1>6. /\ ~Among(c.id, Range(pendingQueue)) /\ ~Among(c.id, Range(wire))
      /\ ~Among(c.id, answered) /\ ~Among(c.id, outstanding)
  BY <1>5, Elsewhere
<1>7. StatusOf(c.id) \in {"queued", "queuedDurable"}
  BY <1>5, <1>6 DEF StatusOf
<1>8. StatusOf(c.id)' = "sent"
  <2>1. Among(c.id, outstanding') /\ ~Among(c.id, answered')
    BY <1>3, <1>6 DEF Among
  <2> QED BY <2>1 DEF StatusOf, Among
<1>9. \A i : i # c.id => StatusOf(i)' = StatusOf(i)
  BY <1>1, <1>2, <1>3, OthersStay
<1>10. \A i \in 1..MaxIds : StatusOf(i) # "sent"
  BY <1>4 DEF StatusOf, Among
<1>11. Delivery!NoneSent
  BY <1>10 DEF Delivery!NoneSent
<1>12. \/ c.id \in 1..MaxIds
          /\ Delivery!Move(c.id, {"queued", "queuedDurable"}, "sent")
       \/ MappedStatus' = MappedStatus
  BY <1>7, <1>8, <1>9, OneMoves
<1> QED BY <1>11, <1>12 DEF Delivery!Next, Delivery!Send, Delivery!Queued

(* The socket refuses a CALL: it is stored when it is durable.             *)
LEMMA PumpFailsDelivers ==
  ASSUME InductiveInv, PumpFails
  PROVE  [Delivery!Next]_MappedStatus
<1>1. PICK c \in CallRecord :
         /\ c = Head(serialQueue) /\ c \in Range(serialQueue)
         /\ Range(serialQueue) = {c} \cup Range(serialQueue')
         /\ c.id \notin Ids(Range(serialQueue'))
  BY RangeTail, OnceTail DEF InductiveInv, TypeOK, OnePlace, PumpFails, CanPump
<1>2. /\ pendingQueue' = Stored(c)
      /\ UNCHANGED <<next, wire, answered, outstanding>>
  BY <1>1 DEF PumpFails, historyVars
<1>3. Among(c.id, Range(serialQueue)) /\ ~Among(c.id, Range(serialQueue'))
  BY <1>1 DEF Among, Ids
<1>4. /\ ~Among(c.id, Range(pendingQueue)) /\ ~Among(c.id, Range(wire))
      /\ ~Among(c.id, answered) /\ ~Among(c.id, outstanding)
      /\ c.id < next
  BY <1>3, Elsewhere
<1>5. StatusOf(c.id) = IF IsTransactionRelated(c.action)
                         THEN "queuedDurable" ELSE "queued"
  BY <1>1, <1>4, Queued DEF InductiveInv, OnePlace
<1>6. CASE IsTransactionRelated(c.action)
  <2>1. Range(pendingQueue') = Range(pendingQueue) \cup {c}
    BY <1>2, <1>6, RangeAppend DEF InductiveInv, TypeOK, Stored
  <2>2. Among(c.id, Range(pendingQueue'))
    BY <2>1 DEF Among
  <2>3. StatusOf(c.id)' = "stored"
    BY <1>2, <1>4, <2>2 DEF StatusOf, Among
  <2>4. \A i : i # c.id => StatusOf(i)' = StatusOf(i)
    BY <1>1, <1>2, <2>1, OthersStay
  <2>5. \/ c.id \in 1..MaxIds /\ Delivery!Move(c.id, {"queuedDurable"}, "stored")
        \/ MappedStatus' = MappedStatus
    BY <1>5, <1>6, <2>3, <2>4, OneMoves
  <2> QED BY <2>5 DEF Delivery!Next, Delivery!Store
<1>7. CASE ~IsTransactionRelated(c.action)
  <2>1. pendingQueue' = pendingQueue
    BY <1>2, <1>7 DEF Stored
  <2>2. StatusOf(c.id)' = "dropped"
    BY <1>2, <1>3, <1>4, <2>1 DEF StatusOf, Among
  <2>3. \A i : i # c.id => StatusOf(i)' = StatusOf(i)
    BY <1>1, <1>2, <2>1, OthersStay
  <2>4. \/ c.id \in 1..MaxIds /\ Delivery!Move(c.id, {"queued"}, "dropped")
        \/ MappedStatus' = MappedStatus
    BY <1>5, <1>7, <2>2, <2>3, OneMoves
  <2> QED BY <2>4 DEF Delivery!Next, Delivery!Discard
<1> QED BY <1>6, <1>7

(* The flush puts a stored CALL back into the queue, and nowhere else.     *)
LEMMA FlushDelivers ==
  ASSUME InductiveInv, FlushAllowed, FlushHandsOver
  PROVE  [Delivery!Next]_MappedStatus
<1>1. PICK c \in CallRecord :
         /\ c = Head(pendingQueue) /\ c \in Range(pendingQueue)
         /\ Range(pendingQueue) = {c} \cup Range(pendingQueue')
         /\ c.id \notin Ids(Range(pendingQueue'))
  BY RangeTail, OnceTail DEF InductiveInv, TypeOK, OnePlace, FlushHandsOver, HandOver
<1>2. IsTransactionRelated(c.action)
  BY <1>1 DEF InductiveInv, OrderKept, Informational
<1>3. IsCallAllowed(c.action)
  <2>1. Running("flush") /\ TypeOK
    BY DEF InductiveInv, FlushHandsOver, HandOver
  <2>2. Head(todo) \in Pending("flush")
    BY <2>1, RunningFacts DEF Pending
  <2> QED BY <2>2 DEF FlushAllowed, IsCallAllowed
<1>4. /\ serialQueue' = Append(serialQueue, c)
      /\ UNCHANGED <<next, wire, answered, outstanding>>
  BY <1>1, <1>3 DEF FlushHandsOver, HandOver, Enqueued, historyVars
<1>5. Range(serialQueue') = Range(serialQueue) \cup {c}
  BY <1>1, <1>4, RangeAppend DEF InductiveInv, TypeOK
<1>6. Among(c.id, Range(pendingQueue)) /\ ~Among(c.id, Range(pendingQueue'))
  BY <1>1 DEF Among, Ids
<1>7. /\ ~Among(c.id, Range(serialQueue)) /\ ~Among(c.id, Range(wire))
      /\ ~Among(c.id, answered) /\ ~Among(c.id, outstanding)
  BY <1>6, Elsewhere
<1>8. StatusOf(c.id) = "stored"
  BY <1>6, <1>7 DEF StatusOf
<1>9. StatusOf(c.id)' = "queuedDurable"
  BY <1>2, <1>4, <1>5, <1>6, <1>7 DEF StatusOf, Among
<1>10. \A i : i # c.id => StatusOf(i)' = StatusOf(i)
  BY <1>1, <1>4, <1>5, OthersStay
<1>11. \/ c.id \in 1..MaxIds /\ Delivery!Move(c.id, {"stored"}, "queuedDurable")
       \/ MappedStatus' = MappedStatus
  BY <1>8, <1>9, <1>10, OneMoves
<1> QED BY <1>11 DEF Delivery!Next, Delivery!Requeue

(* A frame of the CSMS answers a CALL that was sent, in time or late.      *)
LEMMA DispatchDelivers ==
  ASSUME InductiveInv, NEW c \in Range(wire), NEW tasks, NEW microtasks,
         Dispatch(c, tasks, microtasks),
         UNCHANGED <<serialQueue, pendingQueue, next, wire>>
  PROVE  [Delivery!Next]_MappedStatus
<1>1. /\ answered' = answered \cup {c} /\ outstanding' = outstanding \ {c}
      /\ Idle /\ \E r \in requests : r.id = c.id
  BY DEF Dispatch
<1>2. ~Among(c.id, answered)
  <2>1. Pending("settle") = {}
    BY <1>1, RangeEmpty DEF Idle, Pending
  <2> QED BY <1>1, <2>1 DEF InductiveInv, AnsweredSettles, Among, Ids
<1>3. Among(c.id, Range(wire))
  BY DEF Among
<1>4. StatusOf(c.id) \in {"sent", "expired"}
  BY <1>2, <1>3 DEF StatusOf
<1>5. StatusOf(c.id)' = "answered"
  BY <1>1 DEF StatusOf, Among
<1>6. \A i : i # c.id => StatusOf(i)' = StatusOf(i)
  BY <1>1, OthersStay
<1>7. \/ c.id \in 1..MaxIds /\ Delivery!Move(c.id, {"sent", "expired"}, "answered")
      \/ MappedStatus' = MappedStatus
  BY <1>4, <1>5, <1>6, OneMoves
<1> QED BY <1>7 DEF Delivery!Next, Delivery!Answer

(* The watchdog gives up the CALL in the slot, if it is still awaited.     *)
LEMMA TimeoutDelivers ==
  ASSUME InductiveInv, SerialTimeout
  PROVE  [Delivery!Next]_MappedStatus
<1>1. PICK c : c = inFlight
  OBVIOUS
<1>2. /\ outstanding' = outstanding \ {c}
      /\ UNCHANGED <<serialQueue, pendingQueue, next, wire, answered>>
  BY <1>1 DEF SerialTimeout
<1>3. \A i : i # c.id => StatusOf(i)' = StatusOf(i)
  BY <1>2, OthersStay
<1>4. CASE c \in outstanding /\ ~Among(c.id, answered)
  <2>1. StatusOf(c.id) = "sent"
    BY <1>4 DEF StatusOf, Among
  <2>2. outstanding' = {}
    BY <1>1, <1>2 DEF InductiveInv, SlotCovers
  <2>3. Among(c.id, Range(wire))
    BY <1>4 DEF InductiveInv, SlotCovers, Among
  <2>4. StatusOf(c.id)' = "expired"
    BY <1>2, <1>4, <2>2, <2>3 DEF StatusOf, Among
  <2>5. \/ c.id \in 1..MaxIds /\ Delivery!Move(c.id, {"sent"}, "expired")
        \/ MappedStatus' = MappedStatus
    BY <1>3, <2>1, <2>4, OneMoves
  <2> QED BY <2>5 DEF Delivery!Next, Delivery!Expire
<1>5. CASE c \notin outstanding \/ Among(c.id, answered)
  <2>1. StatusOf(c.id)' = StatusOf(c.id)
    BY <1>2, <1>5 DEF StatusOf, Among
  <2> QED BY <1>3, <2>1, NothingMoves
<1> QED BY <1>4, <1>5

(* The connection goes away: the awaited CALL expires, the queue empties.  *)
LEMMA CloseDelivers ==
  ASSUME InductiveInv, WebSocketClosed
  PROVE  [Delivery!Next]_MappedStatus
<1>1. /\ Range(serialQueue') = {} /\ outstanding' = {}
      /\ UNCHANGED <<pendingQueue, next, wire, answered>>
  BY RangeEmpty DEF WebSocketClosed
<1>2. ASSUME NEW i \in 1..MaxIds
      PROVE  StatusOf(i)' = CASE StatusOf(i) = "sent" -> "expired"
                              [] StatusOf(i) \in Delivery!Queued -> "dropped"
                              [] OTHER -> StatusOf(i)
  <2>0. /\ Among(i, answered) => Among(i, Range(wire))
        /\ Among(i, outstanding) => Among(i, Range(wire))
        /\ Among(i, Range(serialQueue)) => i < next
    BY Elsewhere
  <2> QED BY <1>1, <2>0 DEF StatusOf, Among, Delivery!Queued
<1>3. Delivery!Disconnect
  BY <1>2 DEF Delivery!Disconnect
<1> QED BY <1>3 DEF Delivery!Next

LEMMA AnswerDelivers ==
  ASSUME InductiveInv, NEW c \in Range(wire),
         \/ BootAccepted(c) \/ BootPending(c) \/ BootRejected(c)
         \/ CallResult(c) \/ CallError(c)
  PROVE  [Delivery!Next]_MappedStatus
<1>1. UNCHANGED <<serialQueue, pendingQueue, next, wire>>
  BY DEF BootAccepted, BootPending, BootRejected, CallResult, CallError, handlerVars
<1>2. \E tasks, microtasks : Dispatch(c, tasks, microtasks)
  BY DEF BootAccepted, BootPending, BootRejected, CallResult, CallError
<1> QED BY <1>1, <1>2, DispatchDelivers

(* Every step of the handler moves at most one CALL the way CallDelivery   *)
(* allows, except the close, which moves them all at once.                 *)
LEMMA StepDelivers ==
  ASSUME InductiveInv, FlushAllowed, [Next]_vars
  PROVE  [Delivery!Next]_MappedStatus
<1>1. ASSUME UNCHANGED <<answered, outstanding, wire, pendingQueue, serialQueue, next>>
      PROVE  [Delivery!Next]_MappedStatus
  BY <1>1, StatusKept, NothingMoves
<1>2. CASE UNCHANGED vars
  BY <1>1, <1>2 DEF vars, handlerVars, historyVars
<1>3. CASE RunSendRequest
  <2>1. PICK a \in Actions : SendRequest(a, Tail(todo))
    BY <1>3 DEF RunSendRequest
  <2> QED BY <1>3, <2>1, SendRequestDelivers DEF RunSendRequest, historyVars
<1>4. CASE PumpReturns \/ FlushReturns \/ SettleSerialInFlight \/ SendCallResult
  BY <1>1, <1>4 DEF PumpReturns, FlushReturns, SettleSerialInFlight, ReleaseSlot,
                    SendCallResult, handlerVars, historyVars
<1>5. CASE PumpSends \/ PumpFails \/ FlushHandsOver
  BY <1>5, PumpSendsDelivers, PumpFailsDelivers, FlushDelivers
<1>6. ASSUME NEW a \in UserCalls, UserSends(a)
      PROVE  [Delivery!Next]_MappedStatus
  BY <1>6, SendRequestDelivers, HandlerAssumption
     DEF UserSends, HandlerAssumption, historyVars
<1>7. CASE (\E a \in TriggerCalls : HandleTrigger(a)) \/ SocketCloses
             \/ RetryAfterElapses
  BY <1>1, <1>7 DEF HandleTrigger, SocketCloses, RetryAfterElapses,
                    handlerVars, historyVars
<1>8. CASE SocketOpens \/ BootRetryFires
  <2>1. /\ SendRequest("BootNotification", <<>>)
        /\ UNCHANGED <<answered, outstanding, wire, pendingQueue>>
    BY <1>8 DEF SocketOpens, BootRetryFires, historyVars
  <2> QED BY <2>1, SendRequestDelivers, OpsType
<1>9. CASE Answer
  BY <1>9, AnswerDelivers DEF Answer
<1>10. CASE WebSocketClosed \/ SerialTimeout
  BY <1>10, CloseDelivers, TimeoutDelivers
<1> QED BY <1>2, <1>3, <1>4, <1>5, <1>6, <1>7, <1>8, <1>9, <1>10 DEF Next, RunTask

(* A flush never meets a closed gate: gate and macrotask change together.  *)
LEMMA FlushAllowedStep ==
  ASSUME TypeOK, FlushAllowed, [Next]_vars
  PROVE  FlushAllowed'
<1>1. ASSUME Pending("flush")' \subseteq Pending("flush"), gate' = gate
      PROVE  FlushAllowed'
  BY <1>1 DEF FlushAllowed
<1>2. ASSUME Pending("flush")' = {} PROVE FlushAllowed'
  BY <1>2 DEF FlushAllowed
<1>3. Idle => Pending("flush") = {}
  BY RangeEmpty DEF Idle, Pending
<1>4. CASE UNCHANGED vars
  <2>1. todo' = todo /\ gate' = gate
    BY <1>4 DEF vars, handlerVars
  <2> QED BY <1>1, <2>1 DEF Pending
<1>5. CASE RunSendRequest
  <2>1. PICK a \in Actions : Running(a) /\ SendRequest(a, Tail(todo))
    BY <1>5 DEF RunSendRequest
  <2>2. /\ Tail(todo) \in Seq(TaskRecord)
        /\ Of("flush", Tail(todo)) \subseteq Pending("flush")
    BY <2>1, RunningFacts DEF Of, Pending
  <2>3. Of("flush", todo') = Of("flush", Tail(todo))
    BY <2>1, <2>2, PumpFirstWatched DEF SendRequest, Watched
  <2> QED BY <1>1, <1>5, <2>2, <2>3, PendingOf DEF RunSendRequest, Watched
<1>6. CASE PumpReturns \/ PumpSends \/ FlushReturns \/ SendCallResult
  <2>1. PICK op : Running(op)
    BY <1>6 DEF PumpReturns, PumpSends, FlushReturns, SendCallResult
  <2>2. todo' = Tail(todo) /\ gate' = gate
    BY <1>6 DEF PumpReturns, PumpSends, FlushReturns, SendCallResult, handlerVars
  <2>3. Range(Tail(todo)) \subseteq Range(todo)
    BY <2>1, RunningFacts
  <2> QED BY <1>1, <2>2, <2>3 DEF Pending
<1>7. CASE PumpFails
  BY <1>1, <1>7 DEF PumpFails, Pending
<1>8. CASE FlushHandsOver
  <2>1. Of("flush", todo') = Of("flush", todo) /\ gate' = gate
    BY <1>8, PumpFirstWatched DEF FlushHandsOver, HandOver, TypeOK, Watched
  <2> QED BY <1>1, <2>1, PendingOf DEF Watched
<1>9. CASE SettleSerialInFlight
  <2>1. /\ Running("settle") /\ gate' = gate
        /\ todo' \in {Tail(todo), <<Task("pump")>> \o Tail(todo)}
    BY <1>9, Zenon DEF SettleSerialInFlight, ReleaseSlot
  <2>2. /\ Tail(todo) \in Seq(TaskRecord)
        /\ Of("flush", Tail(todo)) \subseteq Pending("flush")
    BY <2>1, RunningFacts DEF Of, Pending
  <2>3. Of("flush", todo') = Of("flush", Tail(todo))
    BY <2>1, <2>2, PumpFirstWatched DEF Watched
  <2> QED BY <1>1, <2>1, <2>2, <2>3, PendingOf DEF Watched
<1>10. ASSUME NEW a \in Actions, SendRequest(a, <<>>) PROVE FlushAllowed'
  <2>1. <<>> \in Seq(TaskRecord)
    OBVIOUS
  <2>2. Of("flush", todo') = {}
    BY <1>10, <2>1, PumpFirstWatched, NoneWatched DEF SendRequest, Watched
  <2> QED BY <1>2, <2>2, PendingOf DEF Watched
<1>11. CASE \E a \in UserCalls : UserSends(a)
  BY <1>10, <1>11, HandlerAssumption DEF UserSends, HandlerAssumption
<1>12. CASE SocketOpens \/ BootRetryFires
  BY <1>10, <1>12, OpsType DEF SocketOpens, BootRetryFires
<1>13. ASSUME NEW a \in TriggerCalls, HandleTrigger(a) PROVE FlushAllowed'
  <2>1. Of("flush", todo') = {}
    BY <1>13, HandlerAssumption, NoneWatched
       DEF HandleTrigger, HandlerAssumption, Watched
  <2> QED BY <1>2, <2>1, PendingOf DEF Watched
<1>14. CASE SocketCloses \/ WebSocketClosed \/ RetryAfterElapses
  <2>1. Pending("flush")' = {}
    BY <1>3, <1>14 DEF SocketCloses, WebSocketClosed, RetryAfterElapses, Pending
  <2> QED BY <1>2, <2>1
<1>15. CASE SerialTimeout
  <2>1. Of("flush", todo') = {}
    BY <1>15, NoneWatched DEF SerialTimeout, Watched
  <2> QED BY <1>2, <2>1, PendingOf DEF Watched
<1>16. ASSUME NEW c \in Range(wire), NEW tasks \in Seq(TaskRecord),
              Dispatch(c, tasks, <<>>), Of("flush", tasks) = {}
       PROVE  FlushAllowed'
  <2>1. c \in CallRecord
    BY RangeType DEF TypeOK
  <2> DEFINE one == <<Settle(c)>>
  <2>2. /\ one \in Seq(TaskRecord) /\ Range(one) = {Settle(c)}
        /\ Settle(c).op = "settle"
    BY <2>1, SettleType, RangeOne
  <2>3. todo' = tasks \o one
    BY <1>16, <2>2 DEF Dispatch
  <2> HIDE DEF one
  <2>4. Range(todo') = Range(tasks) \cup {Settle(c)}
    <3>1. Range(tasks \o one) = Range(tasks) \cup Range(one)
      BY <2>2, RangeConcat
    <3> QED BY <2>2, <2>3, <3>1
  <2>5. Of("flush", todo') = {}
    BY <1>16, <2>2, <2>4 DEF Of
  <2> QED BY <1>2, <2>5, PendingOf DEF Watched
<1>17. ASSUME NEW c \in Range(wire),
              \/ BootAccepted(c) \/ BootPending(c) \/ BootRejected(c)
              \/ CallResult(c) \/ CallError(c)
       PROVE  FlushAllowed'
  <2>0. c.action \in Actions /\ <<>> \in Seq(TaskRecord)
    <3>1. c \in CallRecord
      BY RangeType DEF TypeOK
    <3> QED BY <3>1 DEF CallRecord
  <2>1. CASE BootAccepted(c)
    BY <2>1 DEF BootAccepted, FlushAllowed
  <2>2. CASE BootPending(c) \/ BootRejected(c)
    BY <1>16, <2>0, <2>2, NoneWatched DEF BootPending, BootRejected, Watched
  <2>3. CASE CallResult(c)
    BY <1>16, <2>0, <2>3, HandlerCallsType, NoneWatched DEF CallResult, Watched
  <2>4. CASE CallError(c)
    BY <1>16, <2>0, <2>4, HandlerCallsType, NoneWatched DEF CallError, Watched
  <2> QED BY <1>17, <2>1, <2>2, <2>3, <2>4
<1> QED BY <1>4, <1>5, <1>6, <1>7, <1>8, <1>9, <1>11, <1>12, <1>13, <1>14, <1>15,
           <1>17 DEF Next, RunTask, Answer

(* A stored CALL is only ever handed over while the gate is open: the      *)
(* flush, queued as a microtask of an accepted boot, runs before any other *)
(* frame or close can shut it (OCPPMessageHandler.ts:197-215, flush).      *)
THEOREM FlushMeetsOpenGate == Spec => []FlushAllowed
<1>1. Init => FlushAllowed
  BY RangeEmpty DEF Init, FlushAllowed, Pending
<1>2. TypeOK /\ FlushAllowed /\ [Next]_vars => FlushAllowed'
  BY FlushAllowedStep
<1> QED BY <1>1, <1>2, TypeCorrect, PTL DEF Spec

(* The queues, the slot, the timers and the table together deliver CALLs   *)
(* as CallDelivery promises, for any number of CALLs observed: one CALL is *)
(* sent at a time, an answered or dropped one never comes back, a durable  *)
(* one the socket refuses is stored, and leaves the store for the queue    *)
(* (OCPPMessageHandler.ts:230-247, PendingMessageQueue.ts).                *)
THEOREM DeliveryImplemented == Spec => ImplementsDelivery
<1>1. Init => Delivery!Init
  BY DeliveryInit
<1>2. InductiveInv /\ FlushAllowed /\ [Next]_vars => [Delivery!Next]_MappedStatus
  BY StepDelivers
<1> QED BY <1>1, <1>2, InvariantHolds, FlushMeetsOpenGate, PTL
        DEF Spec, ImplementsDelivery, Delivery!Spec, MappedStatus

-----------------------------------------------------------------------------
(* The heartbeat: the composition takes only steps of the CALL path, so    *)
(* what is proved above holds of it; its timer is well formed; and the     *)
(* chain of heartbeats never breaks.                                       *)
USE IntervalsAssumption

(* A step of the composition is a step of the handler or leaves it alone:  *)
(* the heartbeat of HeartbeatService.ts is one more CALL the charge point  *)
(* issues on its own, as the comment of notifyOutgoingCall has it.         *)
LEMMA BeatStep ==
  ASSUME "Heartbeat" \in UserCalls, BeatNext
  PROVE  [Next]_vars
<1>1. CASE CallLeaves
  BY <1>1 DEF CallLeaves, Next, RunTask
<1>2. CASE BootAnswered
  BY <1>2 DEF BootAnswered, Next, Answer
<1>3. CASE HeartbeatDue
  BY <1>3 DEF HeartbeatDue, Next
<1>4. CASE ChangeInterval
  BY <1>4 DEF ChangeInterval
<1>5. CASE TornDown
  BY <1>5 DEF TornDown, Next
<1>6. CASE OtherStep
  BY <1>6 DEF OtherStep, Next, RunTask, Answer
<1>7. QED
  BY <1>1, <1>2, <1>3, <1>4, <1>5, <1>6 DEF BeatNext

(* The composition implements the CALL path.                               *)
THEOREM HeartbeatImplementsHandler ==
  ASSUME "Heartbeat" \in UserCalls
  PROVE  BeatSpec => Spec
<1>1. BeatInit => Init
  BY DEF BeatInit
<1>2. [BeatNext]_allVars => [Next]_vars
  BY BeatStep DEF allVars
<1>3. QED
  BY <1>1, <1>2, PTL DEF BeatSpec, Spec

-----------------------------------------------------------------------------
(* However the interval is set, the timer follows it.                      *)
LEMMA SetKeepsType ==
  ASSUME NEW period \in Intervals, SetHeartbeat(period)
  PROVE  BeatTypeOK'
<1>1. interval' = period /\ timer' = (period > 0)
  BY DEF SetHeartbeat
<1>2. (period > 0) \in BOOLEAN
  OBVIOUS
<1>3. timer' \in BOOLEAN
  BY <1>1, <1>2, Zenon
<1>4. timer' => interval' > 0
  BY <1>1, Zenon
<1>5. QED
  BY <1>1, <1>3, <1>4 DEF BeatTypeOK

(* The interval and the timer are well formed, and a disabled heartbeat    *)
(* has no armed timer, however it was disabled.                            *)
THEOREM BeatTypeCorrect == BeatSpec => []BeatTypeOK
<1>1. BeatInit => BeatTypeOK
  BY DEF BeatInit, BeatTypeOK
<1>2. ASSUME BeatTypeOK, [BeatNext]_allVars
      PROVE  BeatTypeOK'
  <2> USE <1>2 DEF BeatTypeOK
  <2>1. CASE CallLeaves
    BY <2>1 DEF CallLeaves, Rearmed
  <2>2. CASE BootAnswered
    <3>1. PICK call \in Range(wire) :
             \/ \E period \in Intervals : SetHeartbeat(period)
             \/ SetHeartbeat(0)
      BY <2>2 DEF BootAnswered
    <3>2. QED
      BY <3>1, SetKeepsType
  <2>3. CASE HeartbeatDue
    BY <2>3 DEF HeartbeatDue
  <2>4. CASE ChangeInterval
    BY <2>4, SetKeepsType DEF ChangeInterval
  <2>5. CASE TornDown
    BY <2>5 DEF TornDown
  <2>6. CASE OtherStep
    BY <2>6 DEF OtherStep, beatVars
  <2>7. CASE UNCHANGED allVars
    BY <2>7 DEF allVars, beatVars
  <2>8. QED
    BY <1>2, <2>1, <2>2, <2>3, <2>4, <2>5, <2>6, <2>7 DEF BeatNext
<1>3. QED
  BY <1>1, <1>2, PTL DEF BeatSpec

-----------------------------------------------------------------------------
(* What each part of a step does to the socket, the gate and the queue.    *)
LEMMA QueueGrows ==
  ASSUME NEW a, NEW rest, serialQueue \in Seq(CallRecord), next \in Nat \ {0},
         a \in Actions, SendRequest(a, rest), IsCallAllowed(a)
  PROVE  serialQueue' # <<>>
BY DEF SendRequest, Enqueued, Call, CallRecord

(* HeartbeatKept is inductive given the types of the handler.              *)
LEMMA KeptStep ==
  ASSUME TypeOK, HeartbeatKept, [BeatNext]_allVars
  PROVE  HeartbeatKept'
<1>1. CASE CallLeaves
  BY <1>1 DEF CallLeaves, PumpSends, Rearmed, HeartbeatKept
<1>2. CASE BootAnswered
  BY <1>2 DEF BootAnswered, SetHeartbeat, BootAccepted, BootPending,
              BootRejected, HeartbeatKept
<1>3. CASE HeartbeatDue
  <2>1. SendRequest("Heartbeat", <<>>) /\ UNCHANGED <<gate, socket>>
    BY <1>3 DEF HeartbeatDue, UserSends
  <2>2. CASE IsCallAllowed("Heartbeat")
    BY <2>1, <2>2, QueueGrows DEF TypeOK, HeartbeatKept, Actions
  <2>3. CASE ~IsCallAllowed("Heartbeat")
    BY <2>1, <2>3 DEF IsCallAllowed, HeartbeatKept
  <2>4. QED
    BY <2>2, <2>3
<1>4. CASE ChangeInterval
  BY <1>4 DEF ChangeInterval, SetHeartbeat, HeartbeatKept
<1>5. CASE TornDown
  BY <1>5 DEF TornDown, WebSocketClosed, HeartbeatKept
<1>6. CASE OtherStep
  <2> USE DEF HeartbeatKept, beatVars
  <2>0. UNCHANGED <<interval, timer>>
    BY <1>6 DEF OtherStep
  <2>1. ASSUME NEW a \in Actions, NEW rest, SendRequest(a, rest),
               UNCHANGED <<gate, socket>>
        PROVE  HeartbeatKept'
    <3>1. CASE IsCallAllowed(a)
      BY <2>0, <2>1, <3>1, QueueGrows DEF TypeOK
    <3>2. CASE ~IsCallAllowed(a)
      BY <2>0, <2>1, <3>2 DEF SendRequest
    <3>3. QED
      BY <3>1, <3>2
  <2>2. CASE RunSendRequest
    BY <2>1, <2>2 DEF RunSendRequest
  <2>3. CASE PumpReturns \/ FlushReturns \/ SettleSerialInFlight \/ SendCallResult
    BY <2>0, <2>3 DEF PumpReturns, FlushReturns, SettleSerialInFlight,
       ReleaseSlot, SendCallResult, handlerVars
  <2>4. CASE PumpFails
    BY <2>0, <2>4 DEF PumpFails
  <2>5. CASE FlushHandsOver
    <3>1. UNCHANGED <<gate, socket>>
      BY <2>5 DEF FlushHandsOver, HandOver
    <3>2. \/ UNCHANGED serialQueue
          \/ serialQueue' = Append(serialQueue, Head(pendingQueue))
             /\ pendingQueue # <<>>
      BY <2>5 DEF FlushHandsOver, HandOver, Enqueued
    <3>3. serialQueue # <<>> => serialQueue' # <<>>
      BY <3>2 DEF TypeOK
    <3>4. QED
      BY <2>0, <3>1, <3>3
  <2>6. CASE \E a \in UserCalls : UserSends(a)
    BY <2>1, <2>6, HandlerAssumption DEF UserSends
  <2>7. CASE \E a \in TriggerCalls : HandleTrigger(a)
    BY <2>0, <2>7 DEF HandleTrigger, handlerVars
  <2>8. CASE SocketOpens
    <3>1. SendRequest("BootNotification", <<>>)
      BY <2>8 DEF SocketOpens
    <3>2. serialQueue' # <<>>
      BY <3>1, QueueGrows DEF IsCallAllowed, TypeOK, Actions
    <3>3. QED
      BY <3>2
  <2>9. CASE SocketCloses
    BY <2>0, <2>9 DEF SocketCloses
  <2>10. CASE BootRetryFires
    BY <2>1, <2>10 DEF BootRetryFires, Actions
  <2>11. CASE RetryAfterElapses
    BY <2>0, <2>11 DEF RetryAfterElapses
  <2>12. CASE \E call \in Range(wire) : CallResult(call) \/ CallError(call)
    BY <2>0, <2>12 DEF CallResult, CallError, handlerVars
  <2>13. CASE SerialTimeout
    BY <2>0, <2>13 DEF SerialTimeout
  <2>14. QED
    BY <1>6, <2>2, <2>3, <2>4, <2>5, <2>6, <2>7, <2>8, <2>9, <2>10, <2>11,
       <2>12, <2>13 DEF OtherStep
<1>7. CASE UNCHANGED allVars
  BY <1>7 DEF allVars, vars, beatVars, handlerVars, HeartbeatKept
<1>8. QED
  BY <1>1, <1>2, <1>3, <1>4, <1>5, <1>6, <1>7 DEF BeatNext

(* The chain of heartbeats never breaks on an accepted, open connection.   *)
THEOREM HeartbeatNeverBreaks ==
  ASSUME "Heartbeat" \in UserCalls
  PROVE  BeatSpec => []HeartbeatKept
<1>1. BeatInit => HeartbeatKept
  BY DEF BeatInit, Init, HeartbeatKept
<1>2. TypeOK /\ HeartbeatKept /\ [BeatNext]_allVars => HeartbeatKept'
  BY KeptStep
<1>3. BeatSpec => []TypeOK
  BY HeartbeatImplementsHandler, TypeCorrect, PTL
<1>4. QED
  BY <1>1, <1>2, <1>3, PTL DEF BeatSpec
=============================================================================
