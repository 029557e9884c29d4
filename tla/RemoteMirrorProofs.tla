-------------------------- MODULE RemoteMirrorProofs -------------------------
(***************************************************************************)
(* Proofs about RemoteMirror, for any views and any bounds.                *)
(*                                                                         *)
(* The room follows the views because of what the requests under way lead  *)
(* to; without a connection that is only kept for an entry that does not   *)
(* exist, since the entry that does is subscribed again (RoomInv).  What a *)
(* view is told goes back only by a second snapshot or its own question,   *)
(* because every snapshot under way is no older than what the view was     *)
(* told and than the answers before it (Waits, Rises), and an event is     *)
(* newer than all before it (Fresh).  No change is missed because for each *)
(* view what tells it the newest version is always under way or told       *)
(* (Served), its own question at least.                                    *)
(***************************************************************************)
EXTENDS RemoteMirror, SequenceTheorems, TLAPS

(* Without a connection nothing is under way but the buffer; events are    *)
(* queued for an entry that exists and is not ready.                       *)
Shape ==
  /\ link # "up" =>
       ~joined /\ working = <<>> /\ down = <<>> /\ tasks = <<>> /\ ~ready
  /\ ready => Watched /\ queued = <<>>
  /\ ~Watched => queued = <<>>

RoomInv ==
  \/ link = "up" /\ "refused" \in past
  \/ link = "down" /\ Watched
  \/ LeadsTo(up, joined, Watched)

BaseInv == TypeOK /\ Shape /\ RoomInv
-----------------------------------------------------------------------------
(* What a sequence of requests leads to when some are added at its end.    *)
LEMMA LeadsConcat ==
  ASSUME NEW s \in Seq(Request), NEW t \in Seq(Request),
         NEW in \in BOOLEAN, NEW wanted \in BOOLEAN,
         \/ NoRoom(t) /\ LeadsTo(s, in, wanted)
         \/ ~NoRoom(t) /\ LeadsTo(t, in, wanted)
  PROVE  LeadsTo(s \o t, in, wanted)
<1> DEFINE c == s \o t
           m == Len(s)
           n == Len(t)
<1>1. /\ c \in Seq(Request) /\ Len(c) = m + n /\ m \in Nat /\ n \in Nat
      /\ DOMAIN c = 1..(m + n) /\ DOMAIN s = 1..m /\ DOMAIN t = 1..n
      /\ \A i \in 1..m : c[i] = s[i]
      /\ \A i \in 1..n : c[m + i] = t[i]
  <2>1. /\ c \in Seq(Request) /\ Len(c) = m + n
        /\ \A i \in 1..(m + n) : c[i] = IF i <= m THEN s[i] ELSE t[i - m]
    BY ConcatProperties
  <2>2. m \in Nat /\ n \in Nat
    OBVIOUS
  <2>3. DOMAIN c = 1..(m + n) /\ DOMAIN s = 1..m /\ DOMAIN t = 1..n
    BY <2>1
  <2>4. \A i \in 1..m : c[i] = s[i]
    BY <2>1, <2>2
  <2>5. ASSUME NEW i \in 1..n
        PROVE  c[m + i] = t[i]
    <3>1. m + i \in 1..(m + n) /\ ~(m + i <= m) /\ (m + i) - m = i
      BY <2>2
    <3> QED
      BY <2>1, <3>1
  <2> QED
    BY <2>1, <2>2, <2>3, <2>4, <2>5
<1> HIDE DEF c, m, n
<1>2. CASE NoRoom(t) /\ LeadsTo(s, in, wanted)
  <2>1. ASSUME NEW i \in 1..(m + n), LastRoom(c, i)
        PROVE  i \in 1..m /\ LastRoom(s, i)
    <3>1. i \in 1..m
      <4>1. CASE i > m
        <5>1. i - m \in 1..n /\ m + (i - m) = i
          BY <1>1, <4>1
        <5>2. c[i] = t[i - m]
          BY <1>1, <5>1
        <5> QED
          BY <1>1, <1>2, <2>1, <5>1, <5>2 DEF LastRoom, NoRoom
      <4> QED
        BY <1>1, <4>1
    <3>2. ASSUME NEW j \in 1..m, j > i
          PROVE  s[j].kind = "query"
      BY <1>1, <2>1, <3>2 DEF LastRoom
    <3>3. s[i].kind # "query"
      BY <1>1, <2>1, <3>1 DEF LastRoom
    <3> QED
      BY <1>1, <3>1, <3>2, <3>3 DEF LastRoom
  <2>2. NoRoom(c) => NoRoom(s)
    BY <1>1 DEF NoRoom
  <2> QED
    BY <1>1, <1>2, <2>1, <2>2 DEF LeadsTo, c
<1>3. CASE ~NoRoom(t) /\ LeadsTo(t, in, wanted)
  <2>1. PICK k \in 1..n : t[k].kind # "query"
    BY <1>1, <1>3 DEF NoRoom
  <2>2. c[m + k] = t[k] /\ m + k \in 1..(m + n)
    BY <1>1
  <2>3. ~NoRoom(c)
    BY <1>1, <2>1, <2>2 DEF NoRoom
  <2>4. ASSUME NEW i \in 1..(m + n), LastRoom(c, i)
        PROVE  i - m \in 1..n /\ c[i] = t[i - m] /\ LastRoom(t, i - m)
    <3>1. i >= m + k
      BY <1>1, <2>1, <2>2, <2>4 DEF LastRoom
    <3>2. i - m \in 1..n /\ m + (i - m) = i
      BY <1>1, <3>1
    <3>3. c[i] = t[i - m]
      BY <1>1, <3>2
    <3>4. ASSUME NEW j \in 1..n, j > i - m
          PROVE  t[j].kind = "query"
      <4>1. m + j \in 1..(m + n) /\ m + j > i /\ c[m + j] = t[j]
        BY <1>1, <3>2, <3>4
      <4> QED
        BY <1>1, <2>4, <4>1 DEF LastRoom
    <3> QED
      BY <1>1, <2>4, <3>2, <3>3, <3>4 DEF LastRoom
  <2> QED
    BY <1>1, <1>3, <2>3, <2>4 DEF LeadsTo, c
<1> QED
  BY <1>2, <1>3

(* ... and when the first has been taken.                                  *)
LEMMA LeadsTail ==
  ASSUME NEW s \in Seq(Request), s # <<>>,
         NEW in \in BOOLEAN, NEW wanted \in BOOLEAN, LeadsTo(s, in, wanted),
         NEW then \in BOOLEAN,
         Head(s).kind = "query" => then = in,
         Head(s).kind # "query" => then = (Head(s).kind = "subscribe")
  PROVE  LeadsTo(Tail(s), then, wanted)
<1> DEFINE t == Tail(s)
           n == Len(s)
<1>1. /\ n \in Nat \ {0} /\ DOMAIN s = 1..n /\ DOMAIN t = 1..(n - 1)
      /\ \A i \in 1..(n - 1) : t[i] = s[i + 1]
      /\ Head(s) = s[1]
  BY HeadTailProperties
<1> HIDE DEF t, n
<1>2. ASSUME NEW i \in 1..(n - 1), LastRoom(t, i)
      PROVE  i + 1 \in 1..n /\ LastRoom(s, i + 1) /\ t[i] = s[i + 1]
  <2>1. i + 1 \in 1..n /\ t[i] = s[i + 1]
    BY <1>1
  <2>2. ASSUME NEW j \in 1..n, j > i + 1
        PROVE  s[j].kind = "query"
    <3>1. j - 1 \in 1..(n - 1) /\ j - 1 > i /\ (j - 1) + 1 = j
      BY <1>1, <2>2
    <3>2. t[j - 1] = s[j]
      BY <1>1, <3>1
    <3> QED
      BY <1>1, <1>2, <3>1, <3>2 DEF LastRoom
  <2> QED
    BY <1>1, <1>2, <2>1, <2>2 DEF LastRoom
<1>3. ASSUME NoRoom(t)
      PROVE  then <=> wanted
  <2>1. ASSUME NEW j \in 1..n, j > 1
        PROVE  s[j].kind = "query"
    <3>1. j - 1 \in 1..(n - 1) /\ (j - 1) + 1 = j
      BY <1>1, <2>1
    <3> QED
      BY <1>1, <1>3, <3>1 DEF NoRoom
  <2>2. CASE s[1].kind = "query"
    <3>1. NoRoom(s)
      BY <1>1, <2>1, <2>2 DEF NoRoom
    <3> QED
      BY <1>1, <2>2, <3>1 DEF LeadsTo
  <2>3. CASE s[1].kind # "query"
    <3>1. LastRoom(s, 1) /\ 1 \in 1..n
      BY <1>1, <2>1, <2>3 DEF LastRoom
    <3> QED
      BY <1>1, <2>3, <3>1 DEF LeadsTo
  <2> QED
    BY <2>2, <2>3
<1> QED
  BY <1>1, <1>2, <1>3 DEF LeadsTo, t

-----------------------------------------------------------------------------
(* The calls a step makes.                                                 *)
LEMMA CallsAreRequests ==
  ASSUME calls \in Nat
  PROVE  /\ FirstView \in Seq(Request) /\ Len(FirstView) = 2
         /\ NextView \in Seq(Request) /\ Len(NextView) = 1
         /\ LastView \in Seq(Request) /\ Len(LastView) = 1
         /\ Again \in Seq(Request) /\ Len(Again) \in {0, 1}
<1>1. \A k \in Kinds, n \in {1, 2} : Asked(k, n) \in Request
  BY DEF Asked, Request
<1>2. /\ Asked("query", 1) \in Request /\ Asked("subscribe", 2) \in Request
      /\ Asked("unsubscribe", 1) \in Request /\ Asked("subscribe", 1) \in Request
  BY <1>1 DEF Kinds
<1> QED
  BY <1>2 DEF FirstView, NextView, LastView, Again

LEMMA CallsLead ==
  ASSUME calls \in Nat, NEW in \in BOOLEAN
  PROVE  /\ ~NoRoom(FirstView) /\ LeadsTo(FirstView, in, TRUE)
         /\ NoRoom(NextView)
         /\ ~NoRoom(LastView) /\ LeadsTo(LastView, in, FALSE)
         /\ Watched => ~NoRoom(Again) /\ LeadsTo(Again, in, TRUE)
         /\ ~Watched => NoRoom(Again) /\ Again = <<>>
<1>1. \A k, n : Asked(k, n).kind = k
  BY DEF Asked
<1>2. /\ DOMAIN FirstView = 1..2 /\ FirstView[1].kind = "query"
      /\ FirstView[2].kind = "subscribe"
  BY <1>1 DEF FirstView
<1>3. DOMAIN NextView = 1..1 /\ NextView[1].kind = "query"
  BY <1>1 DEF NextView
<1>4. DOMAIN LastView = 1..1 /\ LastView[1].kind = "unsubscribe"
  BY <1>1 DEF LastView
<1>5. Watched => DOMAIN Again = 1..1 /\ Again[1].kind = "subscribe"
  BY <1>1 DEF Again, Watched
<1>6. ~NoRoom(FirstView) /\ LeadsTo(FirstView, in, TRUE)
  BY <1>2 DEF NoRoom, LeadsTo, LastRoom
<1>7. NoRoom(NextView)
  BY <1>3 DEF NoRoom
<1>8. ~NoRoom(LastView) /\ LeadsTo(LastView, in, FALSE)
  BY <1>4 DEF NoRoom, LeadsTo, LastRoom
<1>9. Watched => ~NoRoom(Again) /\ LeadsTo(Again, in, TRUE)
  BY <1>5 DEF NoRoom, LeadsTo, LastRoom
<1>10. ~Watched => NoRoom(Again) /\ Again = <<>>
  BY DEF NoRoom, Again, Watched
<1> QED
  BY <1>6, <1>7, <1>8, <1>9, <1>10

LEMMA MakeTyped ==
  ASSUME TypeOK, NEW reqs \in Seq(Request), Make(reqs)
  PROVE  /\ up' \in Seq(Request) /\ pending' \subseteq Nat
         /\ timers' \subseteq Nat /\ calls' \in Nat
<1>1. Len(reqs) \in Nat /\ up \in Seq(Request)
  BY DEF TypeOK
<1>2. up' \in Seq(Request)
  BY <1>1, ConcatProperties DEF Make
<1>3. (calls + 1)..(calls + Len(reqs)) \subseteq Nat
  BY <1>1 DEF TypeOK
<1>4. pending' \subseteq Nat /\ timers' \subseteq Nat
  BY <1>3 DEF Make, TypeOK
<1>5. calls' \in Nat
  BY <1>1 DEF Make, TypeOK
<1> QED
  BY <1>2, <1>4, <1>5

LEMMA MakeLeads ==
  ASSUME TypeOK, NEW reqs \in Seq(Request), Make(reqs),
         NEW in \in BOOLEAN, NEW wanted \in BOOLEAN,
         \/ NoRoom(reqs) /\ LeadsTo(up, in, wanted)
         \/ ~NoRoom(reqs) /\ LeadsTo(reqs, in, wanted)
  PROVE  LeadsTo(up', in, wanted)
  BY LeadsConcat DEF Make, TypeOK

(* The packets of the daemon.                                              *)
LEMMA PacketsTyped ==
  ASSUME MirrorAssumption, value \in Versions, NEW r \in Request
  PROVE  /\ Answer(r) \in Packet /\ Ack(r) \in Packet
         /\ value < MaxChanges =>
              value + 1 \in Versions /\ Event(value + 1) \in Packet
  BY DEF MirrorAssumption, Versions, Answer, Snapshot, Status, Ack, Event, Packet,
         Request

LEMMA NewestTyped ==
  ASSUME NEW S, NEW a \in S, NEW b \in S
  PROVE  Newest(a, b) \in S
  BY DEF Newest

LEMMA ToldTyped ==
  ASSUME TypeOK, NEW S, NEW last \in Versions \union {None},
         NEW newest \in Versions \union {None}, Told(S, last, newest)
  PROVE  /\ heard' \in [Views -> Versions \union {None}]
         /\ top' \in [Views -> Versions \union {None}]
<1>1. \A v \in Views : Newest(top[v], newest) \in Versions \union {None}
  BY NewestTyped DEF TypeOK
<1> QED
  BY <1>1 DEF Told, TypeOK

LEMMA LastTyped ==
  ASSUME NEW q \in Seq(Versions), NEW n \in Versions
  PROVE  LastOf(q, n) \in Versions
<1>1. CASE q = <<>>
  BY <1>1 DEF LastOf
<1>2. CASE q # <<>>
  <2>1. Len(q) \in 1..Len(q)
    BY <1>2, EmptySeq
  <2> QED
    BY <1>2, <2>1, ElementOfSeq DEF LastOf
<1> QED
  BY <1>1, <1>2

(* What an answered call leaves to do, and a microtask of it.              *)
LEMMA ContinuesTyped ==
  ASSUME NEW p \in Packet
  PROVE  /\ Continues(p) \in Task /\ Continues(p).id = p.id
         /\ Continues(p).ver = p.ver
         /\ Continues(p).does = IF p.type = "snapshot" THEN "apply" ELSE "fetch"
  BY DEF Continues, Task, Packet

LEMMA MicrotaskTyped ==
  ASSUME TypeOK, Apply \/ Fetch \/ Show
  PROVE  /\ tasks # <<>> /\ Head(tasks) \in Task /\ Head(tasks).ver \in Versions
         /\ Tail(tasks) \in Seq(Task)
         /\ Head(tasks).id \in Nat
         /\ Apply => Head(tasks).does = "apply" /\ tasks' = Tail(tasks)
         /\ Show => Head(tasks).does = "show" /\ tasks' = Tail(tasks)
         /\ Fetch => /\ Head(tasks).does = "fetch"
                     /\ tasks' = Append(Tail(tasks), [Head(tasks) EXCEPT !.does = "show"])
                     /\ [Head(tasks) EXCEPT !.does = "show"] \in Task
         /\ tasks' \in Seq(Task) /\ draining' = (tasks' # <<>>)
         /\ UNCHANGED <<daemon, wire, handlers, asked, rpcs, past, drops, failures>>
<1> DEFINE shown == [Head(tasks) EXCEPT !.does = "show"]
<1>1. PICK does, then : Continue(does, then)
  BY DEF Apply, Fetch, Show
<1>2. tasks # <<>> /\ tasks \in Seq(Task)
  BY <1>1 DEF Continue, TypeOK
<1>3. Head(tasks) \in Task /\ Tail(tasks) \in Seq(Task)
  BY <1>2, HeadTailProperties
<1>4. Head(tasks).ver \in Versions /\ Head(tasks).id \in Nat /\ shown \in Task
  BY <1>3 DEF Task
<1>5. Tail(tasks) \o <<>> = Tail(tasks)
  BY <1>3, ConcatEmptySeq
<1>6. Tail(tasks) \o <<shown>> = Append(Tail(tasks), shown)
  BY <1>3, <1>4, AppendIsConcat
<1>7. Apply => Head(tasks).does = "apply" /\ tasks' = Tail(tasks)
  BY <1>5 DEF Apply, Continue
<1>8. Show => Head(tasks).does = "show" /\ tasks' = Tail(tasks)
  BY <1>5 DEF Show, Continue
<1>9. Fetch => Head(tasks).does = "fetch" /\ tasks' = Append(Tail(tasks), shown)
  BY <1>6 DEF Fetch, Continue
<1>10. tasks' \in Seq(Task)
  BY <1>3, <1>4, <1>7, <1>8, <1>9
<1>11. draining' = (tasks' # <<>>)
       /\ UNCHANGED <<daemon, wire, handlers, asked, rpcs, past, drops, failures>>
  BY <1>1 DEF Continue
<1> QED
  BY <1>2, <1>3, <1>4, <1>7, <1>8, <1>9, <1>10, <1>11

-----------------------------------------------------------------------------
LEMMA TypeStep ==
  ASSUME MirrorAssumption, TypeOK, [Next]_vars
  PROVE  TypeOK'
<1> USE DEF daemon, wire, entry, views, rpcs, micro
<1>0. /\ <<>> \in Seq(Versions) /\ <<>> \in Seq(Packet) /\ <<>> \in Seq(Request)
      /\ {} \subseteq Nat /\ None \in Versions \union {None}
  OBVIOUS
<1>1. CASE Change
  <2>1. value + 1 \in Versions /\ Event(value + 1) \in Packet
    <3>1. [id |-> 0, kind |-> "query"] \in Request
      BY DEF Request, Kinds
    <3> QED
      BY <1>1, <3>1, PacketsTyped DEF Change, TypeOK
  <2>2. down' \in Seq(Packet)
    BY <1>1, <2>1 DEF Change, TypeOK
  <2> QED
    BY <1>1, <2>1, <2>2 DEF Change, TypeOK
<1>2. CASE Take
  <2>1. Head(up) \in Request /\ up' \in Seq(Request)
    BY <1>2, HeadTailProperties DEF Take, TypeOK
  <2>2. working' \in Seq(Packet)
    BY <1>2, <2>1, PacketsTyped DEF Take, TypeOK
  <2>3. joined' \in BOOLEAN
    BY <1>2 DEF Take, TypeOK, Joins
  <2> QED
    BY <1>2, <2>1, <2>2, <2>3 DEF Take, TypeOK
<1>3. CASE Refuse
  <2>1. Head(up) \in Request /\ up' \in Seq(Request)
    BY <1>3, HeadTailProperties DEF Refuse, TypeOK
  <2>2. working' \in Seq(Packet)
    BY <1>3, <2>1, PacketsTyped DEF Refuse, TypeOK
  <2>3. past' \subseteq Marks
    BY <1>3 DEF Refuse, TypeOK, Marks, Failures
  <2>4. failures' \in 0..MaxFailures
    BY <1>3 DEF Refuse, TypeOK, MirrorAssumption
  <2> QED
    BY <1>3, <2>1, <2>2, <2>3, <2>4 DEF Refuse, TypeOK
<1>4. CASE Reply
  <2>1. Head(working) \in Packet /\ working' \in Seq(Packet)
    BY <1>4, HeadTailProperties DEF Reply, TypeOK
  <2>2. down' \in Seq(Packet)
    BY <1>4, <2>1 DEF Reply, TypeOK
  <2> QED
    BY <1>4, <2>1, <2>2 DEF Reply, TypeOK
<1>5. ASSUME NEW v \in Views, Mount(v)
      PROVE  TypeOK'
  <2>1. PICK reqs \in Seq(Request) : Make(reqs)
    BY <1>5, CallsAreRequests DEF Mount, TypeOK
  <2>2. /\ up' \in Seq(Request) /\ pending' \subseteq Nat
        /\ timers' \subseteq Nat /\ calls' \in Nat
    BY <2>1, MakeTyped
  <2>3. asked' \in [Views -> Nat]
    BY <1>5 DEF Mount, TypeOK
  <2>4. /\ heard' \in [Views -> Versions \union {None}]
        /\ top' \in [Views -> Versions \union {None}]
    <3>1. CASE ready /\ cache # None
      BY <1>5, <3>1, ToldTyped DEF Mount, ToldCached, TypeOK
    <3>2. CASE ~(ready /\ cache # None)
      BY <1>5, <3>2 DEF Mount, ToldCached, TypeOK
    <3> QED
      BY <3>1, <3>2
  <2> QED
    BY <1>5, <2>2, <2>3, <2>4 DEF Mount, TypeOK
<1>6. ASSUME NEW v \in Views, Unmount(v)
      PROVE  TypeOK'
  <2>0. /\ asked' \in [Views -> Nat]
        /\ heard' \in [Views -> Versions \union {None}]
        /\ top' \in [Views -> Versions \union {None}]
        /\ handlers' \subseteq Views
    BY <1>6 DEF Unmount, TypeOK
  <2>1. CASE handlers = {v}
    <3>1. Make(LastView) /\ LastView \in Seq(Request)
      BY <1>6, <2>1, CallsAreRequests DEF Unmount, TypeOK
    <3>2. past' \subseteq Marks
      BY <1>6, <2>1 DEF Unmount, TypeOK, Marks
    <3>3. /\ up' \in Seq(Request) /\ pending' \subseteq Nat
          /\ timers' \subseteq Nat /\ calls' \in Nat
      BY <3>1, MakeTyped
    <3>4. ready' \in BOOLEAN /\ queued' \in Seq(Versions)
      BY <1>0, <1>6, <2>1 DEF Unmount, TypeOK
    <3> QED
      BY <1>6, <2>0, <3>2, <3>3, <3>4 DEF Unmount, TypeOK
  <2>2. CASE handlers # {v}
    BY <1>6, <2>0, <2>2 DEF Unmount, TypeOK
  <2> QED
    BY <2>1, <2>2
<1>7. CASE Expire
  <2>1. up' \in Seq(Request)
    <3>1. up # <<>> => Tail(up) \in Seq(Request)
      BY HeadTailProperties DEF TypeOK
    <3> QED
      BY <1>7, <3>1 DEF Expire, TypeOK
  <2>2. past' \subseteq Marks
    BY <1>7 DEF Expire, TypeOK, Marks, Failures
  <2>3. failures' \in 0..MaxFailures
    BY <1>7 DEF Expire, TypeOK, MirrorAssumption
  <2> QED
    BY <1>7, <2>1, <2>2, <2>3 DEF Expire, TypeOK
<1>8. CASE Receive
  <2>1. Head(down) \in Packet /\ down' \in Seq(Packet)
    BY <1>8, HeadTailProperties DEF Receive, TypeOK
  <2>2. Head(down).ver \in Versions
    BY <2>1 DEF Packet
  <2>3. CASE Head(down).type = "event"
    <3>1. HandleEvent(Head(down).ver)
      BY <1>8, <2>3 DEF Receive
    <3>2. /\ queued' \in Seq(Versions)
          /\ heard' \in [Views -> Versions \union {None}]
          /\ top' \in [Views -> Versions \union {None}]
      <4>1. CASE ready
        BY <2>2, <3>1, <4>1, ToldTyped DEF HandleEvent, TypeOK
      <4>2. CASE ~ready
        <5>1. /\ queued' = IF handlers = {} THEN queued
                           ELSE Append(queued, Head(down).ver)
              /\ UNCHANGED <<heard, top>>
          BY <3>1, <4>2 DEF HandleEvent
        <5>2. Append(queued, Head(down).ver) \in Seq(Versions)
          BY <2>2 DEF TypeOK
        <5> QED
          BY <5>1, <5>2 DEF TypeOK
      <4> QED
        BY <4>1, <4>2
    <3>3. UNCHANGED <<rpcs, tasks>>
      BY <3>1 DEF HandleEvent
    <3> QED
      BY <1>8, <2>1, <3>2, <3>3 DEF Receive, TypeOK
  <2>4. CASE Head(down).type # "event"
    <3>1. HandleAnswer(Head(down))
      BY <1>8, <2>4 DEF Receive
    <3>2. /\ timers' \subseteq Nat /\ pending' \subseteq Nat
          /\ tasks' \in Seq(Task) /\ UNCHANGED <<calls, queued, heard, top>>
      <4>1. Continues(Head(down)) \in Task
        BY <2>1, ContinuesTyped
      <4>2. tasks' \in Seq(Task)
        BY <3>1, <4>1 DEF HandleAnswer, TypeOK
      <4>3. timers' \subseteq Nat /\ pending' \subseteq Nat
        BY <3>1 DEF HandleAnswer, TypeOK
      <4> QED
        BY <3>1, <4>2, <4>3 DEF HandleAnswer
    <3> QED
      BY <1>8, <2>1, <3>2 DEF Receive, TypeOK
  <2> QED
    BY <2>3, <2>4
<1>9. CASE Apply \/ Fetch \/ Show
  <2>1. /\ tasks # <<>> /\ Head(tasks) \in Task /\ Head(tasks).ver \in Versions
        /\ tasks' \in Seq(Task) /\ draining' \in BOOLEAN
        /\ UNCHANGED <<daemon, wire, handlers, asked, rpcs, past, drops, failures>>
    BY <1>9, MicrotaskTyped
  <2>2. CASE Apply
    <3>1. LastOf(queued, Head(tasks).ver) \in Versions
      BY <2>1, LastTyped DEF TypeOK
    <3>2. Newest(Head(tasks).ver, LastOf(queued, Head(tasks).ver)) \in Versions
      BY <2>1, <3>1, NewestTyped
    <3>3. /\ heard' \in [Views -> Versions \union {None}]
          /\ top' \in [Views -> Versions \union {None}]
      <4>1. CASE handlers = {}
        BY <2>2, <4>1 DEF Apply, TypeOK
      <4>2. CASE handlers # {}
        BY <2>2, <3>1, <3>2, <4>2, ToldTyped DEF Apply
      <4> QED
        BY <4>1, <4>2
    <3>4. /\ ready' \in BOOLEAN /\ queued' \in Seq(Versions)
          /\ cache' \in Versions \union {None}
      BY <1>0, <2>1, <2>2 DEF Apply, TypeOK
    <3> QED
      BY <2>1, <3>3, <3>4 DEF TypeOK
  <2>3. CASE Fetch
    BY <2>1, <2>3 DEF Fetch, TypeOK
  <2>4. CASE Show
    <3>1. /\ heard' \in [Views -> Versions \union {None}]
          /\ top' \in [Views -> Versions \union {None}]
      BY <2>1, <2>4, ToldTyped DEF Show
    <3> QED
      BY <2>1, <2>4, <3>1 DEF Show, TypeOK
  <2> QED
    BY <1>9, <2>2, <2>3, <2>4
<1>10. CASE FirstConnect
  BY <1>10 DEF FirstConnect, TypeOK, Links
<1>11. CASE FirstFails
  BY <1>11 DEF FirstFails, TypeOK, Links, MirrorAssumption
<1>12. CASE Disconnect
  <2>1. up' \in Seq(Request) /\ timers' \subseteq Nat
    BY <1>0, <1>12 DEF Disconnect, TypeOK
  <2>2. drops' \in 0..MaxDrops
    BY <1>12 DEF Disconnect, TypeOK, MirrorAssumption
  <2> QED
    <3>1. /\ joined' \in BOOLEAN /\ working' \in Seq(Packet)
          /\ down' \in Seq(Packet) /\ pending' \subseteq Nat
          /\ ready' \in BOOLEAN /\ queued' \in Seq(Versions) /\ link' \in Links
      BY <1>0, <1>12 DEF Disconnect, NotReady, Links
    <3> QED
      BY <1>12, <2>1, <2>2, <3>1 DEF Disconnect, TypeOK
<1>13. CASE ManagerReconnect
  <2>1. Make(Again) /\ Again \in Seq(Request)
    BY <1>13, CallsAreRequests DEF ManagerReconnect, Resync, TypeOK
  <2>2. past' \subseteq Marks
    BY <1>13 DEF ManagerReconnect, TypeOK
  <2> QED
    <3>1. /\ up' \in Seq(Request) /\ pending' \subseteq Nat
          /\ timers' \subseteq Nat /\ calls' \in Nat
      BY <2>1, MakeTyped
    <3>2. ready' \in BOOLEAN /\ queued' \in Seq(Versions) /\ link' \in Links
      BY <1>0, <1>13 DEF ManagerReconnect, Resync, NotReady, Links
    <3> QED
      BY <1>13, <2>2, <3>1, <3>2 DEF ManagerReconnect, TypeOK
<1>14. CASE SocketConnect
  <2>1. CASE known
    <3>1. Make(Again) /\ Again \in Seq(Request)
      BY <1>14, <2>1, CallsAreRequests DEF SocketConnect, Resync, TypeOK
    <3> QED
      <4>1. /\ up' \in Seq(Request) /\ pending' \subseteq Nat
            /\ timers' \subseteq Nat /\ calls' \in Nat
        BY <3>1, MakeTyped
      <4>2. ready' \in BOOLEAN /\ queued' \in Seq(Versions) /\ link' \in Links
        BY <1>0, <1>14, <2>1 DEF SocketConnect, Resync, NotReady, Links
      <4> QED
        BY <1>14, <4>1, <4>2 DEF SocketConnect, TypeOK
  <2>2. CASE ~known
    BY <1>14, <2>2 DEF SocketConnect, TypeOK, Links
  <2> QED
    BY <2>1, <2>2
<1>15. CASE UNCHANGED vars
  BY <1>15 DEF vars, TypeOK
<1> QED
  BY <1>1, <1>2, <1>3, <1>4, <1>5, <1>6, <1>7, <1>8, <1>9, <1>10, <1>11, <1>12,
     <1>13, <1>14, <1>15 DEF Next

-----------------------------------------------------------------------------
LEMMA ShapeStep ==
  ASSUME TypeOK, Shape, [Next]_vars
  PROVE  Shape'
<1> USE DEF Shape, daemon, wire, entry, rpcs, micro, Idle, Watched
<1>1. CASE Change
  BY <1>1 DEF Change
<1>2. CASE Take
  BY <1>2 DEF Take
<1>3. CASE Refuse
  BY <1>3 DEF Refuse
<1>4. CASE Reply
  BY <1>4 DEF Reply
<1>5. ASSUME NEW v \in Views, Mount(v)
      PROVE  Shape'
  BY <1>5 DEF Mount
<1>6. ASSUME NEW v \in Views, Unmount(v)
      PROVE  Shape'
  <2>1. CASE handlers = {v}
    BY <1>6, <2>1 DEF Unmount
  <2>2. CASE handlers # {v}
    BY <1>6, <2>2 DEF Unmount
  <2> QED
    BY <2>1, <2>2
<1>7. CASE Expire
  BY <1>7 DEF Expire
<1>8. CASE Receive
  BY <1>8 DEF Receive, HandleEvent, HandleAnswer
<1>9. CASE Apply \/ Fetch \/ Show
  <2>1. link = "up" /\ UNCHANGED <<daemon, wire, handlers>>
    BY <1>9, MicrotaskTyped
  <2>2. \/ UNCHANGED <<ready, queued>>
        \/ handlers # {} /\ ready' = TRUE /\ queued' = <<>>
    BY <1>9 DEF Apply, Fetch, Show
  <2> QED
    BY <2>1, <2>2
<1>10. CASE FirstConnect
  BY <1>10 DEF FirstConnect
<1>11. CASE FirstFails
  BY <1>11 DEF FirstFails
<1>12. CASE Disconnect
  BY <1>12 DEF Disconnect, NotReady
<1>13. CASE ManagerReconnect
  BY <1>13 DEF ManagerReconnect, Resync, NotReady
<1>14. CASE SocketConnect
  BY <1>14 DEF SocketConnect, Resync, NotReady
<1>15. CASE UNCHANGED vars
  BY <1>15 DEF vars
<1> QED
  BY <1>1, <1>2, <1>3, <1>4, <1>5, <1>6, <1>7, <1>8, <1>9, <1>10, <1>11, <1>12,
     <1>13, <1>14, <1>15 DEF Next

LEMMA RoomStep ==
  ASSUME TypeOK, Shape, RoomInv, [Next]_vars
  PROVE  RoomInv'
<1> USE DEF RoomInv, daemon, wire, entry, rpcs, micro, Idle
<1>0. joined \in BOOLEAN /\ Watched \in BOOLEAN /\ up \in Seq(Request) /\ calls \in Nat
  BY DEF TypeOK, Watched
<1>1. CASE Change
  BY <1>1 DEF Change, Watched
<1>2. CASE Take
  <2>1. CASE LeadsTo(up, joined, Watched)
    <3>1. joined' \in BOOLEAN /\ up # <<>> /\ up' = Tail(up)
      BY <1>0, <1>2 DEF Take, Joins
    <3>2. /\ Head(up).kind = "query" => joined' = joined
          /\ Head(up).kind # "query" => joined' = (Head(up).kind = "subscribe")
      BY <1>0, <1>2 DEF Take, Joins
    <3>3. LeadsTo(Tail(up), joined', Watched)
      BY <1>0, <2>1, <3>1, <3>2, LeadsTail
    <3> QED
      BY <1>2, <3>1, <3>3 DEF Take, Watched
  <2> QED
    BY <1>2, <2>1 DEF Take
<1>3. CASE Refuse
  <2>1. CASE Head(up).kind = "query" /\ LeadsTo(up, joined, Watched)
    <3>1. LeadsTo(Tail(up), joined, Watched)
      BY <1>0, <1>3, <2>1, LeadsTail DEF Refuse
    <3> QED
      BY <1>3, <3>1 DEF Refuse, Watched
  <2>2. CASE Head(up).kind # "query"
    BY <1>3, <2>2 DEF Refuse
  <2> QED
    BY <1>3, <2>1, <2>2 DEF Refuse
<1>4. CASE Reply
  BY <1>4 DEF Reply, Watched
<1>5. ASSUME NEW v \in Views, Mount(v)
      PROVE  RoomInv'
  <2>1. Watched' /\ UNCHANGED <<joined, link, past>>
    BY <1>5 DEF Mount, Watched
  <2>2. CASE ~Watched
    <3>1. Make(FirstView) /\ FirstView \in Seq(Request)
      BY <1>0, <1>5, <2>2, CallsAreRequests DEF Mount, Watched
    <3>2. LeadsTo(up', joined, TRUE)
      BY <1>0, <3>1, CallsLead, MakeLeads
    <3> QED
      BY <2>1, <3>2
  <2>3. CASE Watched
    <3>1. Make(NextView) /\ NextView \in Seq(Request)
      BY <1>0, <1>5, <2>3, CallsAreRequests DEF Mount, Watched
    <3>2. LeadsTo(up, joined, TRUE) => LeadsTo(up', joined, TRUE)
      BY <1>0, <3>1, CallsLead, MakeLeads
    <3> QED
      BY <2>1, <2>3, <3>2
  <2> QED
    BY <2>2, <2>3
<1>6. ASSUME NEW v \in Views, Unmount(v)
      PROVE  RoomInv'
  <2>1. CASE handlers = {v}
    <3>1. Make(LastView) /\ LastView \in Seq(Request)
      BY <1>0, <1>6, <2>1, CallsAreRequests DEF Unmount
    <3>2. LeadsTo(up', joined, FALSE)
      BY <1>0, <3>1, CallsLead, MakeLeads
    <3>3. Watched' = FALSE /\ joined' = joined
      BY <1>6, <2>1 DEF Unmount, Watched
    <3>4. LeadsTo(up', joined', Watched')
      BY <3>2, <3>3
    <3> QED
      BY <3>4
  <2>2. CASE handlers # {v}
    <3>1. Watched /\ Watched' /\ UNCHANGED <<joined, link, past, up>>
      BY <1>6, <2>2 DEF Unmount, Watched
    <3> QED
      BY <3>1
  <2> QED
    BY <2>1, <2>2
<1>7. CASE Expire
  <2>1. UNCHANGED <<joined, link>> /\ Watched' = Watched /\ past \subseteq past'
    BY <1>7 DEF Expire, Watched
  <2>2. CASE link = "up" /\ UNCHANGED up
    BY <2>1, <2>2
  <2>3. CASE link = "down" /\ up # <<>> /\ up' = Tail(up)
    <3>1. CASE ~Watched
      <4>1. LeadsTo(up, joined, FALSE) /\ joined = FALSE /\ Watched = FALSE
        <5>1. Watched = FALSE
          BY <3>1
        <5>2. LeadsTo(up, joined, Watched) /\ joined = FALSE
          BY <1>0, <2>3, <3>1 DEF Shape
        <5> QED
          BY <5>1, <5>2
      <4>2. PICK then \in BOOLEAN : LeadsTo(Tail(up), then, FALSE)
        <5>1. CASE Head(up).kind = "query"
          BY <1>0, <2>3, <4>1, <5>1, LeadsTail
        <5>2. CASE Head(up).kind # "query"
          <6>1. (Head(up).kind = "subscribe") \in BOOLEAN
            OBVIOUS
          <6> QED
            BY <1>0, <2>3, <4>1, <5>2, <6>1, LeadsTail
        <5> QED
          BY <5>1, <5>2
      <4>3. LeadsTo(Tail(up), FALSE, FALSE)
        BY <4>2 DEF LeadsTo
      <4>4. LeadsTo(up', joined', Watched')
        BY <2>1, <2>3, <4>1, <4>3
      <4> QED
        BY <4>4
    <3> QED
      BY <2>1, <2>3, <3>1
  <2> QED
    BY <1>7, <2>2, <2>3 DEF Expire
<1>8. CASE Receive
  BY <1>8 DEF Receive, HandleEvent, HandleAnswer, Watched
<1>9. CASE Apply \/ Fetch \/ Show
  BY <1>9, MicrotaskTyped DEF Watched
<1>10. CASE FirstConnect
  BY <1>10 DEF FirstConnect, Watched
<1>11. CASE FirstFails
  BY <1>11 DEF FirstFails, Watched
<1>12. CASE Disconnect
  <2>1. link' = "down" /\ joined' = FALSE /\ Watched' = Watched
    BY <1>12 DEF Disconnect, Watched
  <2>2. CASE link = "up"
    <3>1. up' = <<>>
      BY <1>12, <2>2 DEF Disconnect
    <3>2. ~Watched => LeadsTo(<<>>, FALSE, Watched)
      BY DEF LeadsTo, NoRoom
    <3> QED
      BY <2>1, <3>1, <3>2
  <2>3. CASE link = "open"
    <3>1. LeadsTo(up, joined, Watched) /\ up' = up /\ joined' = joined
      BY <1>0, <1>12, <2>3 DEF Disconnect, Shape
    <3>2. LeadsTo(up', joined', Watched')
      BY <2>1, <3>1
    <3> QED
      BY <3>2
  <2> QED
    BY <1>12, <2>2, <2>3 DEF Disconnect
<1>13. CASE ManagerReconnect
  <2>1. Make(Again) /\ Again \in Seq(Request)
    BY <1>0, <1>13, CallsAreRequests DEF ManagerReconnect, Resync
  <2>2. UNCHANGED joined /\ Watched' = Watched /\ link = "down"
    BY <1>13 DEF ManagerReconnect, Watched
  <2>3. LeadsTo(up', joined, Watched)
    <3>1. CASE Watched
      BY <1>0, <2>1, <3>1, CallsLead, MakeLeads
    <3>2. CASE ~Watched
      BY <1>0, <2>1, <2>2, <3>2, CallsLead, MakeLeads
    <3> QED
      BY <3>1, <3>2
  <2> QED
    BY <2>2, <2>3
<1>14. CASE SocketConnect
  <2>1. UNCHANGED joined /\ Watched' = Watched /\ LeadsTo(up, joined, Watched)
    BY <1>14 DEF SocketConnect, Watched
  <2>2. CASE known
    <3>1. Make(Again) /\ Again \in Seq(Request)
      BY <1>0, <1>14, <2>2, CallsAreRequests DEF SocketConnect, Resync
    <3>2. LeadsTo(up', joined, Watched)
      <4>1. CASE Watched
        BY <1>0, <3>1, <4>1, CallsLead, MakeLeads
      <4>2. CASE ~Watched
        BY <1>0, <2>1, <3>1, <4>2, CallsLead, MakeLeads
      <4> QED
        BY <4>1, <4>2
    <3> QED
      BY <2>1, <3>2
  <2>3. CASE ~known
    BY <1>14, <2>1, <2>3 DEF SocketConnect
  <2> QED
    BY <2>2, <2>3
<1>15. CASE UNCHANGED vars
  BY <1>15 DEF vars, Watched
<1> QED
  BY <1>1, <1>2, <1>3, <1>4, <1>5, <1>6, <1>7, <1>8, <1>9, <1>10, <1>11, <1>12,
     <1>13, <1>14, <1>15 DEF Next

-----------------------------------------------------------------------------
LEMMA BaseAtFirst ==
  ASSUME Init
  PROVE  BaseInv
<1>1. TypeOK
  <2>1. value \in Versions /\ 0 \in 0..MaxDrops /\ 0 \in 0..MaxFailures
    BY MirrorAssumption DEF Init, MirrorAssumption, Versions
  <2>2. /\ working \in Seq(Packet) /\ down \in Seq(Packet) /\ up \in Seq(Request)
        /\ queued \in Seq(Versions) /\ tasks \in Seq(Task)
    BY DEF Init
  <2> QED
    BY <2>1, <2>2 DEF Init, TypeOK, Links
<1>2. Shape
  BY DEF Init, Shape, Watched
<1>3. LeadsTo(<<>>, FALSE, FALSE)
  BY DEF LeadsTo, NoRoom
<1>4. up = <<>> /\ joined = FALSE /\ Watched = FALSE
  BY DEF Init, Watched
<1>5. RoomInv
  BY <1>3, <1>4 DEF RoomInv
<1> QED
  BY <1>1, <1>2, <1>5 DEF BaseInv

THEOREM BaseInvariant == Spec => []BaseInv
<1>1. Init => BaseInv
  BY BaseAtFirst
<1>2. BaseInv /\ [Next]_vars => BaseInv'
  BY MirrorAssumption, TypeStep, ShapeStep, RoomStep DEF BaseInv
<1> QED
  BY <1>1, <1>2, PTL DEF Spec

(* Every variable keeps its type.                                          *)
THEOREM MirrorTypeCorrect == Spec => []TypeOK
<1>1. BaseInv => TypeOK
  BY DEF BaseInv
<1> QED
  BY <1>1, BaseInvariant, PTL

(* Once the requests under way are taken, the daemon has the socket in the *)
(* room exactly if a view is subscribed.                                   *)
THEOREM RoomAlwaysFollows == Spec => []RoomFollows
<1>1. BaseInv => RoomFollows
  BY DEF BaseInv, RoomInv, RoomFollows
<1> QED
  BY <1>1, BaseInvariant, PTL

(* What a view is told goes back only by a second snapshot or the answer   *)
(* to its own question.                                                    *)

IsEvent(p) == p.type = "event"
IsSnapshot(p) == p.type = "snapshot"

(* Nothing carries a version that is not there yet; an event carries a     *)
(* newer one than all the client has or gets before it.                    *)
Fresh ==
  /\ \A i \in DOMAIN working : working[i].ver <= value /\ ~IsEvent(working[i])
  /\ \A i \in DOMAIN down : down[i].ver <= value
  /\ \A k \in DOMAIN tasks : tasks[k].ver <= value
  /\ \A k \in DOMAIN queued : /\ queued[k] <= value
                              /\ queued[k] <= queued[Len(queued)]
  /\ cache <= value
  /\ \A v \in Views : heard[v] <= value
  /\ \A i \in DOMAIN down : IsEvent(down[i]) =>
       /\ cache < down[i].ver
       /\ \A v \in Views : heard[v] < down[i].ver
       /\ \A k \in DOMAIN queued : queued[k] < down[i].ver
       /\ \A k \in DOMAIN tasks : tasks[k].ver < down[i].ver
       /\ \A j \in DOMAIN down : j < i => down[j].ver < down[i].ver

(* Answers go out in the order of the requests: a snapshot under way is no *)
(* older than the answers that reach the client before it.                 *)
Rises ==
  /\ \A i, j \in DOMAIN down :
       i < j /\ ~IsEvent(down[i]) /\ IsSnapshot(down[j]) => down[i].ver <= down[j].ver
  /\ \A i, j \in DOMAIN working :
       i < j /\ IsSnapshot(working[j]) => working[i].ver <= working[j].ver
  /\ \A i \in DOMAIN down, j \in DOMAIN working :
       ~IsEvent(down[i]) /\ IsSnapshot(working[j]) => down[i].ver <= working[j].ver
  /\ \A k \in DOMAIN tasks, j \in DOMAIN down :
       IsSnapshot(down[j]) => tasks[k].ver <= down[j].ver
  /\ \A k \in DOMAIN tasks, j \in DOMAIN working :
       IsSnapshot(working[j]) => tasks[k].ver <= working[j].ver

(* The microtasks that show an answer come last: no snapshot is applied    *)
(* behind one.                                                             *)
LateShows ==
  \A k \in DOMAIN tasks : tasks[k].does = "show" =>
    /\ draining
    /\ \A l \in DOMAIN tasks : k < l => tasks[l].does = "show"

(* For an entry that queued q, with d on its way: before place i of d no   *)
(* event is sent, or one that is no older than n.                          *)
Silent(q, d, i) == q = <<>> /\ \A j \in DOMAIN d : j < i => ~IsEvent(d[j])
Pushed(q, d, i, n) ==
  \/ \E k \in DOMAIN q : n <= q[k]
  \/ \E j \in DOMAIN d : j < i /\ IsEvent(d[j]) /\ n <= d[j].ver
Ahead(q, d, i, n) == Silent(q, d, i) \/ Pushed(q, d, i, n)
End(d) == Len(d) + 1

(* Where no view has left, nothing asks to leave the room, and nothing is  *)
(* asked of it before there is a view.                                     *)
NeverLeft ==
  /\ \A i \in DOMAIN up : up[i].kind # "unsubscribe"
  /\ ~Watched => ~joined /\ NoRoom(up)

(* A snapshot under way to an entry that waits for one is no older than    *)
(* what a view was told before, nor newer than the events sent before it.  *)
HeardUpTo(n) == \A v \in Views : heard[v] <= n
Waits ==
  /\ \A i \in DOMAIN down : IsSnapshot(down[i]) =>
       HeardUpTo(down[i].ver) /\ Ahead(queued, down, i, down[i].ver)
  /\ \A i \in DOMAIN working : IsSnapshot(working[i]) =>
       HeardUpTo(working[i].ver) /\ Ahead(queued, down, End(down), working[i].ver)
  /\ \A k \in DOMAIN tasks : tasks[k].does = "apply" =>
       HeardUpTo(tasks[k].ver) /\ Ahead(queued, <<>>, 1, tasks[k].ver)
  /\ joined => Ahead(queued, down, End(down), value)
  /\ ~joined => Silent(queued, down, End(down))

Quiet == past \subseteq {"unanswered"}
Steady == Quiet => NeverLeft /\ (~ready => Waits)

StreamInv == BaseInv /\ Fresh /\ Rises /\ LateShows /\ Steady
-----------------------------------------------------------------------------
LEMMA TailOf ==
  ASSUME NEW S, NEW s \in Seq(S), s # <<>>
  PROVE  /\ Len(s) \in Nat \ {0} /\ DOMAIN s = 1..Len(s)
         /\ Len(Tail(s)) = Len(s) - 1 /\ DOMAIN Tail(s) = 1..(Len(s) - 1)
         /\ \A i \in 1..(Len(s) - 1) : Tail(s)[i] = s[i + 1] /\ i + 1 \in 1..Len(s)
         /\ Head(s) = s[1] /\ 1 \in 1..Len(s)
         /\ \A i \in 1..Len(s) : s[i] \in S
  BY HeadTailProperties

LEMMA AppendOf ==
  ASSUME NEW S, NEW s \in Seq(S), NEW e \in S
  PROVE  /\ Len(s) \in Nat /\ DOMAIN s = 1..Len(s)
         /\ Len(Append(s, e)) = Len(s) + 1 /\ DOMAIN Append(s, e) = 1..(Len(s) + 1)
         /\ \A i \in 1..Len(s) : Append(s, e)[i] = s[i]
         /\ Append(s, e)[Len(s) + 1] = e
         /\ \A i \in 1..Len(s) : s[i] \in S
  OBVIOUS


(* Versions are integers.                                                  *)
LEMMA VersionsAreInts ==
  ASSUME TypeOK
  PROVE  /\ value \in Int /\ value >= 0 /\ cache \in Int
         /\ \A v \in Views : heard[v] \in Int /\ top[v] \in Int
         /\ \A i \in DOMAIN working : working[i] \in Packet /\ working[i].ver \in Int
         /\ \A i \in DOMAIN down : down[i] \in Packet /\ down[i].ver \in Int
         /\ \A i \in DOMAIN tasks : tasks[i] \in Task /\ tasks[i].ver \in Int
         /\ \A i \in DOMAIN queued : queued[i] \in Int
<1>1. Versions \subseteq Int /\ None \in Int /\ \A n \in Versions : n >= 0
  BY MirrorAssumption DEF MirrorAssumption, Versions, None
<1>2. value \in Int /\ value >= 0 /\ cache \in Int
  BY <1>1 DEF TypeOK
<1>3. \A p \in Packet : p.ver \in Int
  BY <1>1 DEF Packet
<1>4. \A p \in Task : p.ver \in Int
  BY <1>1 DEF Task
<1>5. \A i \in DOMAIN working : working[i] \in Packet
  BY ElementOfSeq DEF TypeOK
<1>6. \A i \in DOMAIN down : down[i] \in Packet
  BY ElementOfSeq DEF TypeOK
<1>7. \A i \in DOMAIN tasks : tasks[i] \in Task
  BY ElementOfSeq DEF TypeOK
<1>8. \A i \in DOMAIN queued : queued[i] \in Versions
  BY ElementOfSeq DEF TypeOK
<1>9. \A v \in Views : heard[v] \in Int /\ top[v] \in Int
  BY <1>1 DEF TypeOK
<1> QED
  BY <1>1, <1>2, <1>3, <1>4, <1>5, <1>6, <1>7, <1>8, <1>9

(* What a view is told is what it was told, or the version in question.    *)
LEMMA ToldIs ==
  ASSUME TypeOK, NEW S, NEW last, NEW newest, Told(S, last, newest), NEW v \in Views
  PROVE  /\ heard'[v] = IF v \in S THEN last ELSE heard[v]
         /\ top'[v] = IF v \in S THEN Newest(top[v], newest) ELSE top[v]
  BY DEF Told

LEMMA FreshSame ==
  ASSUME Fresh, UNCHANGED <<value, working, down, tasks, queued, heard, cache>>
  PROVE  Fresh'
  BY DEF Fresh

(* The daemon's steps.                                                     *)
LEMMA FreshChange ==
  ASSUME TypeOK, Fresh, Change
  PROVE  Fresh'
<1> DEFINE e == Event(value + 1)
<1>1. /\ value' = value + 1 /\ UNCHANGED <<working, tasks, queued, heard, cache>>
      /\ down' = IF joined THEN Append(down, e) ELSE down
  BY DEF Change, entry, micro, views
<1>2. /\ e \in Packet /\ e.type = "event" /\ e.ver = value + 1
  <2>1. [id |-> 0, kind |-> "query"] \in Request
    BY DEF Request, Kinds
  <2> QED
    BY <2>1, MirrorAssumption, PacketsTyped DEF Change, TypeOK, Event
<1>3. value \in Int
  BY VersionsAreInts
<1> HIDE DEF e
<1>4. /\ \A i \in DOMAIN working' : working'[i].ver <= value' /\ ~IsEvent(working'[i])
      /\ \A k \in DOMAIN tasks' : tasks'[k].ver <= value'
      /\ \A k \in DOMAIN queued' : /\ queued'[k] <= value'
                                   /\ queued'[k] <= queued'[Len(queued')]
      /\ cache' <= value'
      /\ \A v \in Views : heard'[v] <= value'
  BY <1>1, <1>3, VersionsAreInts DEF Fresh
<1>5. CASE ~joined
  <2>1. down' = down
    BY <1>1, <1>5
  <2>2. \A i \in DOMAIN down' : down'[i].ver <= value'
    BY <1>1, <1>3, <2>1, VersionsAreInts DEF Fresh
  <2> QED
    BY <1>1, <1>4, <2>1, <2>2 DEF Fresh
<1>6. CASE joined
  <2>1. /\ Len(down) \in Nat /\ DOMAIN down = 1..Len(down)
        /\ DOMAIN down' = 1..(Len(down) + 1)
        /\ \A i \in 1..Len(down) : down'[i] = down[i]
        /\ down'[Len(down) + 1] = e
    BY <1>1, <1>2, <1>6, AppendOf DEF TypeOK
  <2>2. \A i \in DOMAIN down' : down'[i].ver <= value'
    BY <1>1, <1>2, <1>3, <2>1, VersionsAreInts DEF Fresh
  <2>3. ASSUME NEW i \in DOMAIN down', IsEvent(down'[i])
        PROVE  /\ cache' < down'[i].ver
               /\ \A v \in Views : heard'[v] < down'[i].ver
               /\ \A k \in DOMAIN queued' : queued'[k] < down'[i].ver
               /\ \A k \in DOMAIN tasks' : tasks'[k].ver < down'[i].ver
               /\ \A j \in DOMAIN down' : j < i => down'[j].ver < down'[i].ver
    <3>1. CASE i \in 1..Len(down)
      BY <1>1, <2>1, <2>3, <3>1 DEF Fresh
    <3>2. CASE i = Len(down) + 1
      <4>1. down'[i].ver = value + 1
        BY <1>2, <2>1, <3>2
      <4>2. \A j \in DOMAIN down' : j < i => down'[j].ver <= value
        BY <2>1, <3>2 DEF Fresh
      <4> QED
        BY <1>1, <1>3, <2>1, <3>2, <4>1, <4>2, VersionsAreInts DEF Fresh
    <3> QED
      BY <2>1, <2>3, <3>1, <3>2
  <2> QED
    BY <1>4, <2>2, <2>3 DEF Fresh
<1> QED
  BY <1>5, <1>6

LEMMA AnswersAreNoEvents ==
  ASSUME TypeOK, NEW r \in Request
  PROVE  /\ Answer(r) \in Packet /\ Ack(r) \in Packet
         /\ Answer(r).id = r.id /\ Ack(r).id = r.id
         /\ ~IsEvent(Answer(r)) /\ ~IsEvent(Ack(r)) /\ ~IsSnapshot(Ack(r))
         /\ IsSnapshot(Answer(r)) <=> r.kind = "subscribe"
         /\ IsSnapshot(Answer(r)) => Answer(r).ver = value
         /\ Answer(r).ver <= value /\ Ack(r).ver <= value
<1>1. value \in 0..MaxChanges
  BY DEF TypeOK, Versions
<1>2. Answer(r) \in Packet /\ Ack(r) \in Packet
  BY MirrorAssumption, PacketsTyped DEF TypeOK
<1>3. /\ Ack(r).type = "ack" /\ Ack(r).ver = 0 /\ Ack(r).id = r.id
      /\ Snapshot(r).type = "snapshot" /\ Snapshot(r).ver = value
      /\ Snapshot(r).id = r.id
      /\ Status(r).type = "status" /\ Status(r).ver = value /\ Status(r).id = r.id
  BY DEF Ack, Snapshot, Status
<1>4. \/ r.kind = "subscribe" /\ Answer(r) = Snapshot(r)
      \/ r.kind = "query" /\ Answer(r) = Status(r)
      \/ r.kind = "unsubscribe" /\ Answer(r) = Ack(r)
  BY DEF Request, Kinds, Answer
<1> QED
  BY <1>1, <1>2, <1>3, <1>4, MirrorAssumption DEF MirrorAssumption, IsEvent, IsSnapshot

(* The daemon's answer to the request it takes next.                       *)
LEMMA NextAnswer ==
  ASSUME TypeOK, Take \/ Refuse
  PROVE  /\ up # <<>> /\ up \in Seq(Request) /\ up' = Tail(up) /\ Head(up) \in Request
         /\ working \in Seq(Packet)
         /\ UNCHANGED <<value, down, tasks, draining, cache, queued, heard, top, asked,
                        handlers, ready, link, pending, calls>>
         /\ \E a \in Packet :
              /\ working' = Append(working, a) /\ a.id = Head(up).id
              /\ ~IsEvent(a) /\ a.ver <= value
              /\ IsSnapshot(a) => Head(up).kind = "subscribe" /\ a.ver = value
              /\ Take => a = Answer(Head(up))
<1>1. up # <<>> /\ up \in Seq(Request) /\ up' = Tail(up) /\ working \in Seq(Packet)
  BY DEF Take, Refuse, TypeOK
<1>2. Head(up) \in Request
  BY <1>1, HeadTailProperties
<1>3. UNCHANGED <<value, down, tasks, draining, cache, queued, heard, top, asked,
                  handlers, ready, link, pending, calls>>
  BY DEF Take, Refuse, entry, views, rpcs, micro
<1>4. CASE Take
  <2>1. working' = Append(working, Answer(Head(up)))
    BY <1>4 DEF Take
  <2> QED
    BY <1>1, <1>2, <1>3, <2>1, AnswersAreNoEvents
<1>5. CASE Refuse /\ ~Take
  <2>1. working' = Append(working, Ack(Head(up)))
    BY <1>5 DEF Refuse
  <2> QED
    BY <1>1, <1>2, <1>3, <1>5, <2>1, AnswersAreNoEvents
<1> QED
  BY <1>4, <1>5

LEMMA FreshAnswer ==
  ASSUME TypeOK, Fresh, Take \/ Refuse
  PROVE  Fresh'
<1>1. PICK a \in Packet : /\ working' = Append(working, a)
                          /\ a.ver <= value /\ ~IsEvent(a)
  BY NextAnswer
<1>2. UNCHANGED <<value, down, tasks, queued, heard, cache>> /\ working \in Seq(Packet)
  BY NextAnswer
<1>3. \A i \in DOMAIN working' : working'[i].ver <= value' /\ ~IsEvent(working'[i])
  BY <1>1, <1>2, AppendOf DEF Fresh
<1> QED
  BY <1>2, <1>3 DEF Fresh

LEMMA FreshReply ==
  ASSUME TypeOK, Fresh, Reply
  PROVE  Fresh'
<1> DEFINE a == Head(working)
<1>1. /\ down' = Append(down, a) /\ working # <<>> /\ working' = Tail(working)
      /\ UNCHANGED <<value, tasks, queued, heard, cache>>
  BY DEF Reply, entry, micro, views
<1>2. a \in Packet /\ a.ver <= value /\ ~IsEvent(a)
  BY <1>1, TailOf DEF TypeOK, Fresh
<1> HIDE DEF a
<1>3. \A i \in DOMAIN working' : working'[i].ver <= value' /\ ~IsEvent(working'[i])
  BY <1>1, TailOf DEF TypeOK, Fresh
<1>4. /\ Len(down) \in Nat /\ DOMAIN down = 1..Len(down)
      /\ DOMAIN down' = 1..(Len(down) + 1)
      /\ \A i \in 1..Len(down) : down'[i] = down[i]
      /\ down'[Len(down) + 1] = a
  BY <1>1, <1>2, AppendOf DEF TypeOK
<1>5. \A i \in DOMAIN down' : down'[i].ver <= value'
  BY <1>1, <1>2, <1>4 DEF Fresh
<1>6. ASSUME NEW i \in DOMAIN down', IsEvent(down'[i])
      PROVE  /\ cache' < down'[i].ver
             /\ \A v \in Views : heard'[v] < down'[i].ver
             /\ \A k \in DOMAIN queued' : queued'[k] < down'[i].ver
             /\ \A k \in DOMAIN tasks' : tasks'[k].ver < down'[i].ver
             /\ \A j \in DOMAIN down' : j < i => down'[j].ver < down'[i].ver
  <2>1. i \in 1..Len(down)
    BY <1>2, <1>4, <1>6
  <2>2. \A j \in DOMAIN down' : j < i => j \in DOMAIN down /\ down'[j] = down[j]
    BY <1>4, <2>1
  <2> QED
    BY <1>1, <1>4, <1>6, <2>1, <2>2 DEF Fresh
<1> QED
  BY <1>1, <1>3, <1>5, <1>6 DEF Fresh

(* What an event or an answer leaves of down.                              *)
LEMMA DownTail ==
  ASSUME TypeOK, Receive
  PROVE  /\ Len(down) \in Nat \ {0} /\ DOMAIN down = 1..Len(down)
         /\ DOMAIN down' = 1..(Len(down) - 1) /\ Len(down') = Len(down) - 1
         /\ \A i \in 1..(Len(down) - 1) : down'[i] = down[i + 1] /\ i + 1 \in 1..Len(down)
         /\ Head(down) = down[1] /\ 1 \in DOMAIN down
         /\ Head(down).ver \in Versions /\ Head(down).ver \in Int
<1>1. down # <<>> /\ down' = Tail(down) /\ down \in Seq(Packet)
  BY DEF Receive, TypeOK
<1>2. Head(down) = down[1] /\ 1 \in DOMAIN down
  BY <1>1, TailOf
<1>3. Head(down).ver \in Versions
  <2>1. Head(down) \in Packet
    BY <1>1, HeadTailProperties
  <2>2. \A q \in Packet : q.ver \in Versions
    BY DEF Packet
  <2> QED
    BY <2>1, <2>2
<1>4. Head(down).ver \in Int
  BY <1>2, VersionsAreInts
<1> QED
  BY <1>1, <1>2, <1>3, <1>4, TailOf

(* What the packet received does: an event is told or queued, an answer    *)
(* leaves a microtask at most.                                             *)
LEMMA Received ==
  ASSUME TypeOK, Receive
  PROVE  /\ ~draining /\ draining' = draining /\ cache' = cache
         /\ down \in Seq(Packet) /\ down # <<>> /\ down' = Tail(down)
         /\ Head(down) \in Packet /\ Continues(Head(down)) \in Task
         /\ UNCHANGED <<value, joined, working, up, link, handlers, ready, asked, past,
                        calls>>
         /\ IsEvent(Head(down)) =>
              /\ UNCHANGED <<tasks, pending>>
              /\ ready => /\ queued' = queued
                          /\ Told(handlers, Head(down).ver, Head(down).ver)
              /\ ~ready => /\ UNCHANGED <<heard, top>>
                           /\ queued' = IF handlers = {} THEN queued
                                        ELSE Append(queued, Head(down).ver)
         /\ ~IsEvent(Head(down)) =>
              /\ UNCHANGED <<heard, top, queued>>
              /\ pending' = pending \ {Head(down).id}
              /\ tasks' = IF Head(down).type # "ack" /\ Head(down).id \in pending
                            THEN Append(tasks, Continues(Head(down))) ELSE tasks
<1>1. /\ ~draining /\ draining' = draining /\ cache' = cache
      /\ down \in Seq(Packet) /\ down # <<>> /\ down' = Tail(down)
      /\ UNCHANGED <<value, joined, working, up, link, handlers, ready, asked, past>>
  BY DEF Receive, TypeOK, daemon
<1>2. Head(down) \in Packet
  BY <1>1, HeadTailProperties
<1>3. Continues(Head(down)) \in Task
  BY <1>2, ContinuesTyped
<1>4. CASE IsEvent(Head(down))
  <2>1. HandleEvent(Head(down).ver)
    BY <1>4 DEF Receive, IsEvent
  <2> QED
    BY <1>1, <1>2, <1>3, <1>4, <2>1 DEF HandleEvent, rpcs
<1>5. CASE ~IsEvent(Head(down))
  <2>1. HandleAnswer(Head(down))
    BY <1>5 DEF Receive, IsEvent
  <2> QED
    BY <1>1, <1>2, <1>3, <1>5, <2>1 DEF HandleAnswer
<1> QED
  BY <1>4, <1>5

(* The tasks after a packet is received.                                   *)
LEMMA TasksReceived ==
  ASSUME TypeOK, Receive, NEW k \in DOMAIN tasks'
  PROVE  \/ k \in DOMAIN tasks /\ tasks'[k] = tasks[k]
         \/ /\ ~IsEvent(Head(down)) /\ tasks'[k].ver = Head(down).ver
            /\ tasks'[k].does = IF IsSnapshot(Head(down)) THEN "apply" ELSE "fetch"
<1>1. CASE tasks' = tasks
  BY <1>1
<1>2. CASE tasks' # tasks
  <2>1. /\ ~IsEvent(Head(down)) /\ tasks' = Append(tasks, Continues(Head(down)))
        /\ Continues(Head(down)) \in Task /\ tasks \in Seq(Task)
        /\ Head(down) \in Packet
    BY <1>2, Received DEF TypeOK
  <2>2. \/ k \in DOMAIN tasks /\ tasks'[k] = tasks[k]
        \/ tasks'[k] = Continues(Head(down))
    BY <2>1, AppendOf
  <2> QED
    BY <2>1, <2>2, ContinuesTyped DEF IsSnapshot
<1> QED
  BY <1>1, <1>2

LEMMA FreshReceive ==
  ASSUME TypeOK, Shape, Fresh, Receive
  PROVE  Fresh'
<1> DEFINE p == Head(down)
           n == Len(down)
<1>1. /\ n \in Nat \ {0} /\ DOMAIN down = 1..n /\ DOMAIN down' = 1..(n - 1)
      /\ \A i \in 1..(n - 1) : down'[i] = down[i + 1] /\ i + 1 \in 1..n
      /\ p = down[1] /\ 1 \in DOMAIN down /\ p.ver \in Versions /\ p.ver \in Int
  BY DownTail
<1>2. UNCHANGED <<value, working, cache>>
  BY Received
<1> HIDE DEF p, n
<1>3. \A i \in DOMAIN down' : down'[i].ver <= value'
  BY <1>1, <1>2 DEF Fresh
<1>4. /\ p.ver <= value
      /\ \A i \in 1..(n - 1) : IsEvent(down'[i]) => p.ver < down'[i].ver
  BY <1>1 DEF Fresh
<1>5. ASSUME NEW i \in 1..(n - 1), IsEvent(down'[i])
      PROVE  /\ cache < down'[i].ver
             /\ \A v \in Views : heard[v] < down'[i].ver
             /\ \A k \in DOMAIN queued : queued[k] < down'[i].ver
             /\ \A k \in DOMAIN tasks : tasks[k].ver < down'[i].ver
             /\ \A j \in 1..(n - 1) : j < i => down'[j].ver < down'[i].ver
  <2>1. i + 1 \in DOMAIN down /\ down'[i] = down[i + 1]
    BY <1>1
  <2>2. ASSUME NEW j \in 1..(n - 1), j < i
        PROVE  down'[j].ver < down'[i].ver
    <3>1. j + 1 \in DOMAIN down /\ j + 1 < i + 1 /\ down'[j] = down[j + 1]
      BY <1>1, <2>2
    <3> QED
      BY <1>5, <2>1, <3>1 DEF Fresh
  <2> QED
    BY <1>5, <2>1, <2>2 DEF Fresh
<1>6. /\ \A v \in Views : heard'[v] = heard[v] \/ heard'[v] = p.ver
      /\ \A k \in DOMAIN tasks' :
           (k \in DOMAIN tasks /\ tasks'[k] = tasks[k]) \/ tasks'[k].ver = p.ver
  <2>1. (IsEvent(p) /\ ready) \/ heard' = heard
    BY Received DEF p
  <2>2. \A v \in Views : heard'[v] = heard[v] \/ heard'[v] = p.ver
    BY <2>1, Received, ToldIs DEF p
  <2> QED
    BY <2>2, TasksReceived DEF p
<1>7. /\ \A v \in Views : heard'[v] <= value'
      /\ \A k \in DOMAIN tasks' : tasks'[k].ver <= value'
      /\ \A i \in 1..(n - 1) : IsEvent(down'[i]) =>
           /\ \A v \in Views : heard'[v] < down'[i].ver
           /\ \A k \in DOMAIN tasks' : tasks'[k].ver < down'[i].ver
  BY <1>2, <1>4, <1>5, <1>6 DEF Fresh
<1>8. CASE queued' = queued
  BY <1>1, <1>2, <1>3, <1>5, <1>7, <1>8 DEF Fresh
<1>9. CASE queued' # queued
  <2>1. queued' = Append(queued, p.ver) /\ IsEvent(p)
    BY <1>9, Received DEF p
  <2>2. /\ Len(queued) \in Nat /\ DOMAIN queued = 1..Len(queued)
        /\ Len(queued') = Len(queued) + 1 /\ DOMAIN queued' = 1..(Len(queued) + 1)
        /\ \A k \in 1..Len(queued) : queued'[k] = queued[k]
        /\ queued'[Len(queued) + 1] = p.ver
    BY <1>1, <2>1, AppendOf DEF TypeOK
  <2>3. \A k \in DOMAIN queued : queued[k] < p.ver
    BY <1>1, <2>1 DEF Fresh
  <2>4. ASSUME NEW k \in DOMAIN queued'
        PROVE  queued'[k] <= p.ver
    <3>1. CASE k \in 1..Len(queued)
      <4>1. queued[k] \in Int /\ queued[k] < p.ver /\ queued'[k] = queued[k]
        BY <2>2, <2>3, <3>1, VersionsAreInts
      <4> QED
        BY <1>1, <4>1
    <3>2. CASE k = Len(queued) + 1
      BY <1>1, <2>2, <3>2
    <3> QED
      BY <2>2, <2>4, <3>1, <3>2
  <2>5. \A k \in DOMAIN queued' : /\ queued'[k] <= value'
                                 /\ queued'[k] <= queued'[Len(queued')]
    BY <1>2, <1>4, <2>2, <2>4 DEF Fresh
  <2>6. \A i \in 1..(n - 1) : IsEvent(down'[i]) =>
          \A k \in DOMAIN queued' : queued'[k] < down'[i].ver
    BY <1>4, <1>5, <2>2
  <2> QED
    BY <1>1, <1>2, <1>3, <1>5, <1>7, <2>5, <2>6 DEF Fresh
<1> QED
  BY <1>8, <1>9

(* The version views are told last when a snapshot has been applied.       *)
LEMMA LastIsOf ==
  ASSUME TypeOK, tasks # <<>>
  PROVE  LET m == LastOf(queued, Head(tasks).ver)
         IN  /\ 1 \in DOMAIN tasks /\ Head(tasks) = tasks[1]
             /\ \/ m = tasks[1].ver /\ queued = <<>>
                \/ Len(queued) \in DOMAIN queued /\ m = queued[Len(queued)]
<1>1. 1 \in DOMAIN tasks /\ Head(tasks) = tasks[1]
  BY TailOf DEF TypeOK
<1>2. queued # <<>> => Len(queued) \in DOMAIN queued
  BY EmptySeq DEF TypeOK
<1> QED
  BY <1>1, <1>2 DEF LastOf

(* The tasks a microtask leaves.                                           *)
LEMMA TasksLeft ==
  ASSUME TypeOK, Apply \/ Fetch \/ Show, NEW k \in DOMAIN tasks'
  PROVE  /\ 1 \in DOMAIN tasks /\ Head(tasks) = tasks[1]
         /\ Len(tasks) \in Nat /\ DOMAIN tasks = 1..Len(tasks)
         /\ \/ k + 1 \in DOMAIN tasks /\ tasks'[k] = tasks[k + 1]
            \/ /\ Fetch /\ k = Len(tasks) /\ tasks'[k].ver = tasks[1].ver
               /\ tasks'[k].does = "show"
<1> DEFINE t == Tail(tasks)
           s == [Head(tasks) EXCEPT !.does = "show"]
<1>1. tasks \in Seq(Task) /\ tasks # <<>> /\ Head(tasks) \in Task /\ t \in Seq(Task)
  BY MicrotaskTyped DEF TypeOK
<1>2. /\ Len(tasks) \in Nat \ {0} /\ DOMAIN tasks = 1..Len(tasks)
      /\ DOMAIN t = 1..(Len(tasks) - 1) /\ Len(t) = Len(tasks) - 1
      /\ \A i \in 1..(Len(tasks) - 1) : t[i] = tasks[i + 1] /\ i + 1 \in 1..Len(tasks)
      /\ Head(tasks) = tasks[1] /\ 1 \in 1..Len(tasks)
  BY <1>1, TailOf
<1>3. \/ tasks' = t
      \/ Fetch /\ tasks' = Append(t, s) /\ s \in Task
  BY MicrotaskTyped
<1>4. s.does = "show" /\ s.ver = Head(tasks).ver
  BY <1>1 DEF Task
<1> HIDE DEF t, s
<1>5. CASE tasks' = t
  BY <1>2, <1>5
<1>6. CASE Fetch /\ tasks' = Append(t, s) /\ s \in Task
  <2>1. \/ k \in DOMAIN t /\ tasks'[k] = t[k]
        \/ k = Len(t) + 1 /\ tasks'[k] = s
    BY <1>1, <1>6, AppendOf DEF t
  <2>2. Len(t) + 1 = Len(tasks)
    BY <1>2
  <2> QED
    BY <1>2, <1>4, <1>6, <2>1, <2>2
<1> QED
  BY <1>2, <1>3, <1>5, <1>6

(* What a microtask tells, and keeps.                                      *)
LEMMA MicrotaskTells ==
  ASSUME TypeOK, Fresh, Apply \/ Fetch \/ Show
  PROVE  /\ 1 \in DOMAIN tasks /\ Head(tasks) = tasks[1]
         /\ cache' = cache \/ cache' = tasks[1].ver
         /\ queued' = queued \/ queued' = <<>>
         /\ \A v \in Views : \/ heard'[v] = heard[v]
                             \/ heard'[v] = tasks[1].ver
                             \/ /\ Apply /\ Len(queued) \in DOMAIN queued
                                /\ heard'[v] = queued[Len(queued)]
<1>1. tasks # <<>> /\ 1 \in DOMAIN tasks /\ Head(tasks) = tasks[1]
  BY MicrotaskTyped, LastIsOf
<1>2. CASE Apply
  <2>1. CASE handlers = {}
    BY <1>1, <1>2, <2>1 DEF Apply
  <2>2. CASE handlers # {}
    <3>1. PICK n : Told(handlers, LastOf(queued, Head(tasks).ver), n)
      BY <1>2, <2>2 DEF Apply
    <3>2. \A v \in Views : heard'[v] \in {heard[v], LastOf(queued, Head(tasks).ver)}
      BY <3>1, ToldIs
    <3>3. queued' = <<>> /\ cache' = tasks[1].ver
      BY <1>1, <1>2, <2>2 DEF Apply
    <3> QED
      BY <1>1, <1>2, <3>2, <3>3, LastIsOf
  <2> QED
    BY <2>1, <2>2
<1>3. CASE Fetch
  BY <1>1, <1>3 DEF Fetch
<1>4. CASE Show
  <2>1. \A v \in Views : heard'[v] \in {heard[v], Head(tasks).ver}
    BY <1>4, ToldIs DEF Show
  <2> QED
    BY <1>1, <1>4, <2>1 DEF Show
<1> QED
  BY <1>2, <1>3, <1>4

LEMMA FreshMicrotask ==
  ASSUME TypeOK, Fresh, Apply \/ Fetch \/ Show
  PROVE  Fresh'
<1>1. UNCHANGED <<value, working, down>>
  BY MicrotaskTyped DEF daemon, wire
<1>2. \A k \in DOMAIN tasks' : \E l \in DOMAIN tasks : tasks'[k].ver = tasks[l].ver
  BY TasksLeft
<1>3. 1 \in DOMAIN tasks /\ (cache' = cache \/ cache' = tasks[1].ver)
  BY MicrotaskTells
<1>4. ASSUME NEW v \in Views
      PROVE  /\ heard'[v] <= value
             /\ \A i \in DOMAIN down : IsEvent(down[i]) => heard'[v] < down[i].ver
  BY <1>3, MicrotaskTells DEF Fresh
<1>5. /\ cache' <= value
      /\ \A i \in DOMAIN down : IsEvent(down[i]) => cache' < down[i].ver
  BY <1>3 DEF Fresh
<1>6. /\ \A k \in DOMAIN tasks' : tasks'[k].ver <= value
      /\ \A i \in DOMAIN down : IsEvent(down[i]) =>
           \A k \in DOMAIN tasks' : tasks'[k].ver < down[i].ver
  BY <1>2 DEF Fresh
<1>7. /\ \A k \in DOMAIN queued' : /\ queued'[k] <= value
                                  /\ queued'[k] <= queued'[Len(queued')]
      /\ \A i \in DOMAIN down : IsEvent(down[i]) =>
           \A k \in DOMAIN queued' : queued'[k] < down[i].ver
  BY MicrotaskTells DEF Fresh
<1> QED
  BY <1>1, <1>4, <1>5, <1>6, <1>7 DEF Fresh

LEMMA NothingIsOld ==
  ASSUME TypeOK
  PROVE  None <= value /\ \A i \in DOMAIN down : None < down[i].ver
<1>1. \A i \in DOMAIN down : down[i].ver \in 0..MaxChanges
  BY VersionsAreInts DEF Packet, Versions
<1> QED
  BY <1>1, VersionsAreInts, MirrorAssumption DEF None, MirrorAssumption

LEMMA FreshStep ==
  ASSUME TypeOK, Shape, Fresh, [Next]_vars
  PROVE  Fresh'
<1> USE DEF daemon, wire, entry, views, rpcs, micro
<1>1. ASSUME NEW v \in Views, Mount(v)
      PROVE  Fresh'
  <2>1. UNCHANGED <<value, working, down, tasks, queued, cache>>
    BY <1>1 DEF Mount
  <2>2. \A w \in Views : heard'[w] = heard[w] \/ heard'[w] = cache
    <3>1. CASE ready /\ cache # None
      BY <1>1, <3>1, ToldIs DEF Mount, ToldCached
    <3>2. CASE ~(ready /\ cache # None)
      BY <1>1, <3>2 DEF Mount, ToldCached
    <3> QED
      BY <3>1, <3>2
  <2> QED
    BY <2>1, <2>2 DEF Fresh
<1>2. ASSUME NEW v \in Views, Unmount(v)
      PROVE  Fresh'
  <2>1. /\ UNCHANGED <<value, working, down, tasks, cache>>
        /\ queued' = queued \/ queued' = <<>>
    BY <1>2 DEF Unmount
  <2>2. \A w \in Views : heard'[w] = heard[w] \/ heard'[w] = None
    BY <1>2 DEF Unmount, TypeOK
  <2> QED
    BY <2>1, <2>2, NothingIsOld DEF Fresh
<1>3. CASE Expire
  BY <1>3, FreshSame DEF Expire
<1>4. CASE FirstConnect \/ FirstFails
  BY <1>4, FreshSame DEF FirstConnect, FirstFails
<1>5. CASE Disconnect
  BY <1>5 DEF Disconnect, NotReady, Fresh, Idle
<1>6. CASE ManagerReconnect
  BY <1>6 DEF ManagerReconnect, Resync, NotReady, Fresh
<1>7. CASE SocketConnect
  BY <1>7 DEF SocketConnect, Resync, NotReady, Fresh
<1>8. CASE UNCHANGED vars
  BY <1>8, FreshSame DEF vars
<1> QED
  BY <1>1, <1>2, <1>3, <1>4, <1>5, <1>6, <1>7, <1>8, FreshChange, FreshAnswer,
     FreshReply, FreshReceive, FreshMicrotask DEF Next

-----------------------------------------------------------------------------
(* Snapshots under way are no older than the answers before them.          *)
LEMMA RisesAnswer ==
  ASSUME TypeOK, Fresh, Rises, Take \/ Refuse
  PROVE  Rises'
<1>1. PICK a \in Packet : /\ working' = Append(working, a)
                          /\ IsSnapshot(a) => a.ver = value
  BY NextAnswer
<1>2. UNCHANGED <<down, tasks>> /\ working \in Seq(Packet)
  BY NextAnswer
<1>3. /\ Len(working) \in Nat /\ DOMAIN working = 1..Len(working)
      /\ DOMAIN working' = 1..(Len(working) + 1)
      /\ \A i \in 1..Len(working) : working'[i] = working[i]
      /\ working'[Len(working) + 1] = a
  BY <1>1, <1>2, AppendOf
<1>4. ASSUME NEW j \in DOMAIN working', IsSnapshot(working'[j])
      PROVE  /\ \A i \in DOMAIN working' : i < j => working'[i].ver <= working'[j].ver
             /\ \A i \in DOMAIN down : ~IsEvent(down[i]) => down[i].ver <= working'[j].ver
             /\ \A k \in DOMAIN tasks : tasks[k].ver <= working'[j].ver
  <2>1. CASE j \in DOMAIN working
    BY <1>3, <1>4, <2>1 DEF Rises
  <2>2. CASE j = Len(working) + 1
    <3>1. working'[j].ver = value /\ \A i \in DOMAIN working' : i < j => i \in 1..Len(working)
      BY <1>1, <1>3, <1>4, <2>2
    <3> QED
      BY <1>3, <3>1 DEF Fresh
  <2> QED
    BY <1>3, <2>1, <2>2
<1> QED
  BY <1>2, <1>4 DEF Rises

LEMMA RisesReply ==
  ASSUME TypeOK, Rises, Reply
  PROVE  Rises'
<1> DEFINE a == Head(working)
<1>1. /\ down' = Append(down, a) /\ working # <<>> /\ working' = Tail(working)
      /\ tasks' = tasks /\ down \in Seq(Packet) /\ working \in Seq(Packet)
  BY DEF Reply, micro, TypeOK
<1>2. /\ a \in Packet /\ 1 \in DOMAIN working /\ a = working[1]
      /\ \A i \in DOMAIN working' :
            i + 1 \in DOMAIN working /\ 1 < i + 1 /\ working'[i] = working[i + 1]
      /\ \A i, j \in DOMAIN working' : i < j => i + 1 < j + 1
  BY <1>1, TailOf
<1> HIDE DEF a
<1>3. /\ Len(down) \in Nat /\ DOMAIN down = 1..Len(down)
      /\ DOMAIN down' = 1..(Len(down) + 1)
      /\ \A i \in 1..Len(down) : down'[i] = down[i]
      /\ down'[Len(down) + 1] = a
  BY <1>1, <1>2, AppendOf
<1>4. ASSUME NEW i \in DOMAIN down', NEW j \in DOMAIN down', i < j,
             ~IsEvent(down'[i]), IsSnapshot(down'[j])
      PROVE  down'[i].ver <= down'[j].ver
  <2>1. i \in 1..Len(down) /\ (j \in 1..Len(down) \/ j = Len(down) + 1)
    BY <1>3, <1>4
  <2> QED
    BY <1>2, <1>3, <1>4, <2>1 DEF Rises
<1>5. ASSUME NEW j \in DOMAIN working', IsSnapshot(working'[j])
      PROVE  /\ \A i \in DOMAIN working' : i < j => working'[i].ver <= working'[j].ver
             /\ \A i \in DOMAIN down' : ~IsEvent(down'[i]) => down'[i].ver <= working'[j].ver
             /\ \A k \in DOMAIN tasks : tasks[k].ver <= working'[j].ver
  <2>1. \A i \in DOMAIN down' : (i \in DOMAIN down /\ down'[i] = down[i]) \/ down'[i] = a
    BY <1>3
  <2> QED
    BY <1>2, <1>5, <2>1 DEF Rises
<1>6. \A k \in DOMAIN tasks, j \in DOMAIN down' :
        IsSnapshot(down'[j]) => tasks[k].ver <= down'[j].ver
  <2>1. \A j \in DOMAIN down' : (j \in DOMAIN down /\ down'[j] = down[j]) \/ down'[j] = a
    BY <1>3
  <2> QED
    BY <1>2, <2>1 DEF Rises
<1> QED
  BY <1>1, <1>4, <1>5, <1>6 DEF Rises

LEMMA RisesReceive ==
  ASSUME TypeOK, Rises, Receive
  PROVE  Rises'
<1>1. /\ 1 \in DOMAIN down /\ Head(down) = down[1] /\ working' = working
      /\ \A i \in DOMAIN down' :
            i + 1 \in DOMAIN down /\ 1 < i + 1 /\ down'[i] = down[i + 1]
      /\ \A i, j \in DOMAIN down' : i < j => i + 1 < j + 1
  BY DownTail, Received
<1>2. ASSUME NEW k \in DOMAIN tasks'
      PROVE  \/ k \in DOMAIN tasks /\ tasks'[k] = tasks[k]
             \/ ~IsEvent(down[1]) /\ tasks'[k].ver = down[1].ver
  <2>1. \/ k \in DOMAIN tasks /\ tasks'[k] = tasks[k]
        \/ ~IsEvent(Head(down)) /\ tasks'[k].ver = Head(down).ver
    BY TasksReceived
  <2> QED
    BY <1>1, <2>1
<1>3. \A k \in DOMAIN tasks', j \in DOMAIN down' :
        IsSnapshot(down'[j]) => tasks'[k].ver <= down'[j].ver
  BY <1>1, <1>2 DEF Rises
<1>4. \A k \in DOMAIN tasks', j \in DOMAIN working' :
        IsSnapshot(working'[j]) => tasks'[k].ver <= working'[j].ver
  BY <1>1, <1>2 DEF Rises
<1>5. \A i, j \in DOMAIN down' :
        i < j /\ ~IsEvent(down'[i]) /\ IsSnapshot(down'[j]) => down'[i].ver <= down'[j].ver
  BY <1>1 DEF Rises
<1>6. \A i \in DOMAIN down', j \in DOMAIN working' :
        ~IsEvent(down'[i]) /\ IsSnapshot(working'[j]) => down'[i].ver <= working'[j].ver
  BY <1>1 DEF Rises
<1> QED
  BY <1>1, <1>3, <1>4, <1>5, <1>6 DEF Rises

LEMMA RisesChange ==
  ASSUME TypeOK, Rises, Change
  PROVE  Rises'
<1>1. /\ UNCHANGED <<working, tasks>> /\ down \in Seq(Packet)
      /\ down' = IF joined THEN Append(down, Event(value + 1)) ELSE down
  BY DEF Change, micro, TypeOK
<1>2. CASE joined
  <2>1. IsEvent(Event(value + 1)) /\ ~IsSnapshot(Event(value + 1))
    BY DEF Event, IsEvent, IsSnapshot
  <2>2. Event(value + 1) \in Packet
    <3>1. [id |-> 0, kind |-> "query"] \in Request
      BY DEF Request, Kinds
    <3> QED
      BY <3>1, MirrorAssumption, PacketsTyped DEF Change, TypeOK
  <2>3. \A i \in DOMAIN down' : \/ i \in DOMAIN down /\ down'[i] = down[i]
                                \/ IsEvent(down'[i]) /\ ~IsSnapshot(down'[i])
    BY <1>1, <1>2, <2>1, <2>2, AppendOf
  <2> QED
    BY <1>1, <2>3 DEF Rises
<1>3. CASE ~joined
  BY <1>1, <1>3 DEF Rises
<1> QED
  BY <1>2, <1>3

LEMMA RisesStep ==
  ASSUME TypeOK, Shape, Fresh, Rises, [Next]_vars
  PROVE  Rises'
<1> USE DEF daemon, wire, micro
<1>1. CASE Apply \/ Fetch \/ Show
  <2>1. UNCHANGED <<down, working>>
    BY <1>1, MicrotaskTyped
  <2>2. \A k \in DOMAIN tasks' : \E l \in DOMAIN tasks : tasks'[k].ver = tasks[l].ver
    BY <1>1, TasksLeft
  <2> QED
    BY <2>1, <2>2 DEF Rises
<1>2. CASE Disconnect
  BY <1>2 DEF Disconnect, Idle, Rises
<1>3. CASE \/ \E v \in Views : Mount(v) \/ Unmount(v)
           \/ Expire \/ FirstConnect \/ FirstFails \/ ManagerReconnect
           \/ SocketConnect \/ UNCHANGED vars
  <2>1. UNCHANGED <<down, working, tasks>>
    BY <1>3 DEF Mount, Unmount, Expire, FirstConnect, FirstFails, ManagerReconnect,
       SocketConnect, vars
  <2> QED
    BY <2>1 DEF Rises
<1> QED
  BY <1>1, <1>2, <1>3, RisesChange, RisesAnswer, RisesReply, RisesReceive DEF Next

LEMMA LateShowsStep ==
  ASSUME TypeOK, LateShows, [Next]_vars
  PROVE  LateShows'
<1> USE DEF daemon, wire, micro
<1>1. CASE Apply \/ Fetch \/ Show
  <2>1. tasks' # <<>> => draining'
    BY <1>1, MicrotaskTyped
  <2>2. ASSUME NEW k \in DOMAIN tasks', tasks'[k].does = "show",
               NEW l \in DOMAIN tasks', k < l
        PROVE  tasks'[l].does = "show"
    <3>1. /\ Len(tasks) \in Nat /\ DOMAIN tasks = 1..Len(tasks)
          /\ \/ k + 1 \in DOMAIN tasks /\ tasks'[k] = tasks[k + 1]
             \/ k = Len(tasks)
          /\ \/ l + 1 \in DOMAIN tasks /\ tasks'[l] = tasks[l + 1]
             \/ l = Len(tasks) /\ tasks'[l].does = "show"
      BY <1>1, <2>2, TasksLeft
    <3>2. tasks' \in Seq(Task)
      BY <1>1, MicrotaskTyped
    <3>3. k \in Nat /\ l \in Nat
      BY <3>2
    <3> QED
      BY <2>2, <3>1, <3>3 DEF LateShows
  <2>3. \A k \in DOMAIN tasks' : tasks' # <<>>
    OBVIOUS
  <2> QED
    BY <2>1, <2>2, <2>3 DEF LateShows
<1>2. CASE Receive
  <2>1. ~draining
    BY <1>2, Received
  <2>2. \A k \in DOMAIN tasks' : tasks'[k].does # "show"
    BY <1>2, <2>1, TasksReceived DEF LateShows
  <2> QED
    BY <2>2 DEF LateShows
<1>3. CASE \/ Change \/ Take \/ Refuse \/ Reply
           \/ \E v \in Views : Mount(v) \/ Unmount(v)
           \/ Expire \/ FirstConnect \/ FirstFails \/ Disconnect \/ ManagerReconnect
           \/ SocketConnect \/ UNCHANGED vars
  <2>1. UNCHANGED <<tasks, draining>>
    BY <1>3 DEF Change, Take, Refuse, Reply, Mount, Unmount, Expire, FirstConnect,
       FirstFails, Disconnect, ManagerReconnect, SocketConnect, vars
  <2> QED
    BY <2>1 DEF LateShows
<1> QED
  BY <1>1, <1>2, <1>3 DEF Next

-----------------------------------------------------------------------------
-----------------------------------------------------------------------------
(* What is ahead of a place of down, when a packet is added at its end.    *)
LEMMA AheadAppend ==
  ASSUME NEW q, NEW d \in Seq(Packet), NEW a \in Packet, NEW n
  PROVE  /\ \A i \in 1..End(d) : Ahead(q, d, i, n) => Ahead(q, Append(d, a), i, n)
         /\ ~IsEvent(a) /\ Ahead(q, d, End(d), n)
              => Ahead(q, Append(d, a), End(Append(d, a)), n)
         /\ IsEvent(a) /\ n <= a.ver
              => Ahead(q, Append(d, a), End(Append(d, a)), n)
         /\ ~IsEvent(a) /\ Silent(q, d, End(d))
              => Silent(q, Append(d, a), End(Append(d, a)))
<1> DEFINE m == Len(d)
           e == Append(d, a)
<1>1. /\ m \in Nat /\ DOMAIN d = 1..m /\ DOMAIN e = 1..(m + 1) /\ Len(e) = m + 1
      /\ \A i \in 1..m : e[i] = d[i]
      /\ e[m + 1] = a
  BY AppendOf
<1>2. End(d) = m + 1 /\ End(e) = m + 2
  BY <1>1 DEF End
<1> HIDE DEF m, e
<1>3. ASSUME NEW i \in 1..(m + 1), Ahead(q, d, i, n)
      PROVE  Ahead(q, e, i, n)
  BY <1>1, <1>3 DEF Ahead, Silent, Pushed
<1>4. ASSUME ~IsEvent(a), Silent(q, d, m + 1)
      PROVE  Silent(q, e, m + 2)
  BY <1>1, <1>4 DEF Silent
<1>5. ASSUME ~IsEvent(a), Pushed(q, d, m + 1, n)
      PROVE  Pushed(q, e, m + 2, n)
  BY <1>1, <1>5 DEF Pushed
<1>6. ASSUME IsEvent(a), n <= a.ver
      PROVE  Ahead(q, e, m + 2, n)
  BY <1>1, <1>6 DEF Ahead, Pushed
<1> QED
  BY <1>2, <1>3, <1>4, <1>5, <1>6 DEF Ahead, e

(* ... and when the first is received: an event goes to the queue.         *)
LEMMA AheadTail ==
  ASSUME NEW q \in Seq(Versions), NEW d \in Seq(Packet), d # <<>>,
         NEW r, NEW n, NEW i \in 1..Len(d), Ahead(q, d, i + 1, n),
         \/ ~IsEvent(Head(d)) /\ r = q
         \/ IsEvent(Head(d)) /\ r = Append(q, Head(d).ver)
  PROVE  Ahead(r, Tail(d), i, n)
<1> DEFINE m == Len(d)
           t == Tail(d)
           p == Head(d)
<1>1. /\ m \in Nat \ {0} /\ DOMAIN d = 1..m /\ DOMAIN t = 1..(m - 1)
      /\ \A j \in 1..(m - 1) : t[j] = d[j + 1] /\ j + 1 \in 1..m
      /\ p = d[1] /\ 1 \in 1..m /\ p \in Packet
  BY TailOf
<1>2. \A j \in 1..m : j > 1 => j - 1 \in 1..(m - 1) /\ t[j - 1] = d[j]
  <2>1. \A j \in 1..m : j > 1 => j - 1 \in 1..(m - 1) /\ (j - 1) + 1 = j
    BY <1>1
  <2> QED
    BY <1>1, <2>1
<1> HIDE DEF m, t, p
<1>3. CASE ~IsEvent(p) /\ r = q
  <2>1. Silent(q, d, i + 1) => Silent(r, t, i)
    BY <1>1, <1>3 DEF Silent, m
  <2>2. ASSUME NEW j \in DOMAIN d, j < i + 1, IsEvent(d[j]), n <= d[j].ver
        PROVE  Pushed(r, t, i, n)
    <3>1. j > 1
      BY <1>1, <1>3, <2>2
    <3>2. j - 1 \in DOMAIN t /\ j - 1 < i /\ t[j - 1] = d[j]
      BY <1>1, <1>2, <2>2, <3>1 DEF m
    <3> QED
      BY <2>2, <3>2 DEF Pushed
  <2> QED
    BY <1>3, <2>1, <2>2 DEF Ahead, Pushed, t
<1>4. CASE IsEvent(p) /\ r = Append(q, p.ver)
  <2>1. p.ver \in Versions
    BY <1>1 DEF Packet
  <2>2. /\ DOMAIN q = 1..Len(q) /\ Len(q) \in Nat /\ DOMAIN r = 1..(Len(q) + 1)
        /\ \A k \in 1..Len(q) : r[k] = q[k]
        /\ r[Len(q) + 1] = p.ver
    BY <1>4, <2>1, AppendOf
  <2>3. ~Silent(q, d, i + 1)
    <3>1. 1 \in DOMAIN d /\ 1 < i + 1 /\ IsEvent(d[1])
      BY <1>1, <1>4 DEF m
    <3> QED
      BY <3>1 DEF Silent
  <2>4. CASE \E k \in DOMAIN q : n <= q[k]
    BY <2>2, <2>4 DEF Pushed, Ahead, t
  <2>5. ASSUME NEW j \in DOMAIN d, j < i + 1, IsEvent(d[j]), n <= d[j].ver
        PROVE  Pushed(r, t, i, n)
    <3>1. CASE j = 1
      <4>1. n <= r[Len(q) + 1] /\ Len(q) + 1 \in DOMAIN r
        BY <1>1, <2>2, <2>5, <3>1
      <4> QED
        BY <4>1 DEF Pushed
    <3>2. CASE j > 1
      <4>1. j - 1 \in DOMAIN t /\ j - 1 < i /\ t[j - 1] = d[j]
        BY <1>1, <1>2, <2>5, <3>2 DEF m
      <4> QED
        BY <2>5, <4>1 DEF Pushed
    <3> QED
      BY <1>1, <2>5, <3>1, <3>2
  <2> QED
    BY <2>3, <2>4, <2>5 DEF Ahead, Pushed, t
<1> QED
  BY <1>3, <1>4 DEF p

-----------------------------------------------------------------------------
(* Adding requests, taking one.                                            *)
LEMMA KindsOf ==
  ASSUME NEW s \in Seq(Request), NEW t \in Seq(Request)
  PROVE  /\ (\A i \in DOMAIN s : s[i].kind # "unsubscribe") /\
            (\A i \in DOMAIN t : t[i].kind # "unsubscribe")
              => \A i \in DOMAIN (s \o t) : (s \o t)[i].kind # "unsubscribe"
         /\ s # <<>> =>
              \A i \in DOMAIN Tail(s) : i + 1 \in DOMAIN s /\ Tail(s)[i] = s[i + 1]
<1>1. /\ Len(s \o t) = Len(s) + Len(t) /\ s \o t \in Seq(Request)
      /\ \A i \in 1..(Len(s) + Len(t)) :
            (s \o t)[i] = IF i <= Len(s) THEN s[i] ELSE t[i - Len(s)]
  BY ConcatProperties
<1>2. Len(s) \in Nat /\ Len(t) \in Nat /\ DOMAIN s = 1..Len(s) /\ DOMAIN t = 1..Len(t)
  OBVIOUS
<1>3. ASSUME \A i \in DOMAIN s : s[i].kind # "unsubscribe",
             \A i \in DOMAIN t : t[i].kind # "unsubscribe",
             NEW i \in 1..(Len(s) + Len(t))
      PROVE  (s \o t)[i].kind # "unsubscribe"
  <2>1. CASE i <= Len(s)
    BY <1>1, <1>2, <1>3, <2>1
  <2>2. CASE ~(i <= Len(s))
    <3>1. i - Len(s) \in 1..Len(t)
      BY <1>2, <2>2
    <3> QED
      BY <1>1, <1>2, <1>3, <2>2, <3>1
  <2> QED
    BY <2>1, <2>2
<1>4. DOMAIN (s \o t) = 1..(Len(s) + Len(t))
  BY <1>1
<1> QED
  BY <1>3, <1>4, TailOf

LEMMA CallsKeep ==
  ASSUME calls \in Nat
  PROVE  /\ \A i \in DOMAIN FirstView : FirstView[i].kind # "unsubscribe"
         /\ \A i \in DOMAIN NextView : NextView[i].kind # "unsubscribe"
         /\ \A i \in DOMAIN Again : Again[i].kind # "unsubscribe"
  BY DEF FirstView, NextView, Again, Asked

LEMMA NeverLeftSame ==
  ASSUME NeverLeft, UNCHANGED <<up, joined, handlers>>
  PROVE  NeverLeft'
  BY DEF NeverLeft, NoRoom, Watched

(* Requests added at the end, none to leave, and none without a view.      *)
LEMMA NeverLeftMake ==
  ASSUME TypeOK, \A i \in DOMAIN up : up[i].kind # "unsubscribe",
         NEW reqs \in Seq(Request), Make(reqs),
         \A i \in DOMAIN reqs : reqs[i].kind # "unsubscribe",
         \/ handlers' # {}
         \/ handlers' = {} /\ ~joined' /\ NoRoom(up) /\ reqs = <<>>
  PROVE  NeverLeft'
<1>1. up' = up \o reqs /\ up \in Seq(Request)
  BY DEF Make, TypeOK
<1>2. \A i \in DOMAIN up' : up'[i].kind # "unsubscribe"
  BY <1>1, KindsOf
<1>3. reqs = <<>> => up' = up
  BY <1>1, ConcatEmptySeq
<1> QED
  BY <1>2, <1>3 DEF NeverLeft, Watched, NoRoom

LEMMA NeverLeftStep ==
  ASSUME TypeOK, Shape, Quiet => NeverLeft, [Next]_vars, Quiet'
  PROVE  NeverLeft'
<1> USE DEF daemon, wire, entry, views, rpcs, micro, Idle
<1>0. up \in Seq(Request) /\ calls \in Nat
  BY DEF TypeOK
<1>1. CASE Take \/ Refuse
  <2>1. /\ NeverLeft /\ up # <<>> /\ up' = Tail(up) /\ handlers' = handlers
        /\ joined' = joined \/ (Take /\ joined' = Joins(Head(up)))
    BY <1>1 DEF Take, Refuse, Quiet
  <2>2. \A i \in DOMAIN up' : i + 1 \in DOMAIN up /\ up'[i] = up[i + 1]
    BY <1>0, <2>1, KindsOf
  <2>3. ~Watched => ~joined'
    <3>1. ~Watched => Head(up).kind = "query" /\ ~joined
      BY <1>0, <2>1, TailOf DEF NeverLeft, NoRoom
    <3> QED
      BY <2>1, <3>1 DEF Joins
  <2> QED
    BY <2>1, <2>2, <2>3 DEF NeverLeft, NoRoom, Watched
<1>2. ASSUME NEW v \in Views, Mount(v)
      PROVE  NeverLeft'
  <2>1. NeverLeft /\ handlers' # {}
    BY <1>2 DEF Mount, Quiet
  <2>2. PICK reqs \in Seq(Request) : /\ Make(reqs)
                                    /\ \A i \in DOMAIN reqs : reqs[i].kind # "unsubscribe"
    BY <1>0, <1>2, CallsAreRequests, CallsKeep DEF Mount
  <2> QED
    BY <2>1, <2>2, NeverLeftMake DEF NeverLeft
<1>3. ASSUME NEW v \in Views, Unmount(v)
      PROVE  NeverLeft'
  <2>1. handlers # {v}
    BY <1>3 DEF Unmount, Quiet
  <2>2. NeverLeft /\ UNCHANGED <<up, joined>> /\ handlers # {} /\ handlers' # {}
    BY <1>3, <2>1 DEF Unmount, Quiet
  <2> QED
    BY <2>2 DEF NeverLeft, Watched
<1>4. CASE Expire
  BY <1>4 DEF Expire, Quiet
<1>5. CASE Disconnect
  <2>1. NeverLeft /\ joined' = FALSE /\ handlers' = handlers /\ (up' = up \/ up' = <<>>)
    BY <1>5 DEF Disconnect, Quiet
  <2> QED
    BY <2>1 DEF NeverLeft, NoRoom, Watched
<1>6. CASE ManagerReconnect
  <2>1. Make(Again) /\ Again \in Seq(Request) /\ UNCHANGED <<joined, handlers>>
    BY <1>0, <1>6, CallsAreRequests DEF ManagerReconnect, Resync
  <2>2. ~joined
    BY <1>6 DEF ManagerReconnect, Shape
  <2>3. NeverLeft \/ up = <<>>
    BY <1>6 DEF ManagerReconnect, Quiet
  <2>4. \A i \in DOMAIN up : up[i].kind # "unsubscribe"
    BY <2>3 DEF NeverLeft
  <2>5. ~Watched => NoRoom(up)
    BY <2>3 DEF NeverLeft, NoRoom
  <2> QED
    BY <1>0, <2>1, <2>2, <2>4, <2>5, NeverLeftMake, CallsKeep DEF Again, Watched
<1>7. CASE SocketConnect
  <2>1. NeverLeft /\ UNCHANGED <<joined, handlers>>
    BY <1>7 DEF SocketConnect, Quiet
  <2>2. CASE known
    <3>1. Make(Again) /\ Again \in Seq(Request)
      BY <1>0, <1>7, <2>2, CallsAreRequests DEF SocketConnect, Resync
    <3> QED
      BY <1>0, <2>1, <3>1, NeverLeftMake, CallsKeep DEF NeverLeft, Again, Watched
  <2>3. CASE ~known
    BY <1>7, <2>1, <2>3, NeverLeftSame DEF SocketConnect
  <2> QED
    BY <2>2, <2>3
<1>8. CASE \/ Change \/ Reply \/ Receive \/ Apply \/ Fetch \/ Show \/ FirstConnect \/ FirstFails
           \/ UNCHANGED vars
  <2>1. past' = past /\ UNCHANGED <<up, joined, handlers>>
    BY <1>8, MicrotaskTyped DEF Change, Reply, Receive, HandleEvent, HandleAnswer,
       FirstConnect, FirstFails, vars
  <2> QED
    BY <2>1, NeverLeftSame DEF Quiet
<1> QED
  BY <1>1, <1>2, <1>3, <1>4, <1>5, <1>6, <1>7, <1>8 DEF Next
LEMMA WaitsSame ==
  ASSUME Waits, UNCHANGED <<value, joined, working, down, queued, heard, tasks>>
  PROVE  Waits'
  BY DEF Waits, HeardUpTo

(* With nothing under way nothing has to be ahead.                         *)
LEMMA WaitsEmpty ==
  ASSUME joined' = FALSE, working' = <<>>, down' = <<>>, tasks' = <<>>, queued' = <<>>
  PROVE  Waits'
  BY DEF Waits, Silent, End

LEMMA WaitsChange ==
  ASSUME TypeOK, Fresh, Waits, Change
  PROVE  Waits'
<1> DEFINE a == Event(value + 1)
<1>1. /\ value' = value + 1 /\ UNCHANGED <<joined, working, tasks, queued, heard>>
      /\ down' = IF joined THEN Append(down, a) ELSE down
  BY DEF Change, entry, micro, views
<1>2. a \in Packet /\ IsEvent(a) /\ a.ver = value + 1
  <2>1. [id |-> 0, kind |-> "query"] \in Request
    BY DEF Request, Kinds
  <2> QED
    BY <2>1, MirrorAssumption, PacketsTyped DEF Change, TypeOK, Event, IsEvent
<1>3. value \in Int /\ down \in Seq(Packet)
  BY VersionsAreInts DEF TypeOK
<1>4. \A n : HeardUpTo(n)' <=> HeardUpTo(n)
  BY <1>1 DEF HeardUpTo
<1> HIDE DEF a
<1>5. \A k \in DOMAIN tasks' : tasks'[k].does = "apply" =>
        /\ HeardUpTo(tasks'[k].ver)
        /\ Ahead(queued', <<>>, 1, tasks'[k].ver)
  BY <1>1 DEF Waits
<1>6. CASE ~joined
  <2>1. down' = down
    BY <1>1, <1>6
  <2> QED
    BY <1>1, <1>4, <1>5, <1>6, <2>1 DEF Waits
<1>7. CASE joined
  <2>1. /\ DOMAIN down = 1..Len(down) /\ DOMAIN down' = 1..(Len(down) + 1)
        /\ Len(down) \in Nat /\ End(down) = Len(down) + 1
        /\ down' = Append(down, a) /\ down'[Len(down) + 1] = a
        /\ \A i \in 1..Len(down) : down'[i] = down[i]
    BY <1>1, <1>2, <1>3, <1>7, AppendOf DEF End
  <2>2. ASSUME NEW i \in DOMAIN down', IsSnapshot(down'[i])
        PROVE  HeardUpTo(down'[i].ver) /\ Ahead(queued', down', i, down'[i].ver)
    <3>1. i \in 1..Len(down) /\ down'[i] = down[i]
      BY <1>2, <2>1, <2>2 DEF IsEvent, IsSnapshot
    <3>2. HeardUpTo(down[i].ver) /\ Ahead(queued, down, i, down[i].ver)
      BY <2>1, <2>2, <3>1 DEF Waits
    <3>3. i \in 1..End(down)
      BY <2>1, <3>1
    <3> QED
      BY <1>1, <1>2, <1>3, <2>1, <3>1, <3>2, <3>3, AheadAppend
  <2>3. ASSUME NEW i \in DOMAIN working', IsSnapshot(working'[i])
        PROVE  /\ HeardUpTo(working'[i].ver)
               /\ Ahead(queued', down', End(down'), working'[i].ver)
    <3>1. working'[i] = working[i] /\ i \in DOMAIN working
      BY <1>1
    <3>2. /\ HeardUpTo(working[i].ver)
          /\ working[i].ver <= value /\ working[i].ver \in Int
      BY <2>3, <3>1, VersionsAreInts DEF Waits, Fresh
    <3>3. working[i].ver <= a.ver
      BY <1>2, <1>3, <3>2
    <3> QED
      BY <1>1, <1>2, <1>3, <2>1, <3>1, <3>2, <3>3, AheadAppend
  <2>4. Ahead(queued', down', End(down'), value')
    <3>1. value + 1 <= a.ver
      BY <1>2, <1>3
    <3> QED
      BY <1>1, <1>2, <1>3, <2>1, <3>1, AheadAppend
  <2> QED
    BY <1>1, <1>4, <1>5, <1>7, <2>2, <2>3, <2>4 DEF Waits
<1> QED
  BY <1>6, <1>7

LEMMA WaitsAnswer ==
  ASSUME TypeOK, Fresh, NeverLeft, Waits, Take \/ Refuse
  PROVE  Waits'
<1>1. /\ up # <<>> /\ up \in Seq(Request) /\ working \in Seq(Packet)
      /\ UNCHANGED <<value, down, tasks, queued, heard>>
  BY NextAnswer
<1>2. Head(up) \in Request /\ Head(up).kind # "unsubscribe"
  BY <1>1, TailOf DEF NeverLeft
<1>3. PICK a \in Packet : /\ working' = Append(working, a)
                          /\ IsSnapshot(a) => a.ver = value
  BY NextAnswer
<1>4. Ahead(queued, down, End(down), value) /\ HeardUpTo(value)
  BY DEF Waits, Ahead, Fresh, HeardUpTo
<1>5. ASSUME NEW i \in DOMAIN working', IsSnapshot(working'[i])
      PROVE  /\ HeardUpTo(working'[i].ver)
             /\ Ahead(queued, down, End(down), working'[i].ver)
  <2>1. \/ i \in DOMAIN working /\ working'[i] = working[i]
        \/ working'[i] = a
    BY <1>1, <1>3, AppendOf
  <2> QED
    BY <1>3, <1>4, <1>5, <2>1 DEF Waits
<1>6. ~joined' => Silent(queued, down, End(down))
  <2>1. Head(up).kind = "subscribe" \/ Head(up).kind = "query"
    BY <1>2 DEF Request, Kinds
  <2>2. ~joined' => ~joined
    BY <2>1 DEF Take, Refuse, Joins
  <2> QED
    BY <2>2 DEF Waits
<1>7. \A n : HeardUpTo(n)' <=> HeardUpTo(n)
  BY <1>1 DEF HeardUpTo
<1> QED
  BY <1>1, <1>4, <1>5, <1>6, <1>7 DEF Waits

LEMMA WaitsReply ==
  ASSUME TypeOK, Fresh, Waits, Reply
  PROVE  Waits'
<1> DEFINE a == Head(working)
<1>1. /\ down' = Append(down, a) /\ working # <<>> /\ working' = Tail(working)
      /\ UNCHANGED <<value, joined, tasks, queued, heard>>
  BY DEF Reply, entry, micro, views
<1>2. /\ a \in Packet /\ ~IsEvent(a) /\ 1 \in DOMAIN working /\ a = working[1]
      /\ \A i \in DOMAIN working' : i + 1 \in DOMAIN working /\ working'[i] = working[i + 1]
  BY <1>1, TailOf DEF TypeOK, Fresh
<1>3. IsSnapshot(a) => HeardUpTo(a.ver) /\ Ahead(queued, down, End(down), a.ver)
  BY <1>2 DEF Waits
<1> HIDE DEF a
<1>4. /\ DOMAIN down = 1..Len(down) /\ DOMAIN down' = 1..(Len(down) + 1)
      /\ Len(down) \in Nat /\ End(down) = Len(down) + 1
      /\ down'[Len(down) + 1] = a /\ down \in Seq(Packet)
      /\ \A i \in 1..Len(down) : down'[i] = down[i]
  BY <1>1, <1>2, AppendOf DEF End, TypeOK
<1>5. ASSUME NEW i \in DOMAIN down', IsSnapshot(down'[i])
      PROVE  HeardUpTo(down'[i].ver) /\ Ahead(queued', down', i, down'[i].ver)
  <2>1. i \in 1..End(down)
    BY <1>4
  <2>2. HeardUpTo(down'[i].ver) /\ Ahead(queued, down, i, down'[i].ver)
    <3>1. CASE i \in 1..Len(down)
      BY <1>4, <1>5, <3>1 DEF Waits
    <3>2. CASE i = Len(down) + 1
      BY <1>3, <1>4, <1>5, <3>2
    <3> QED
      BY <1>4, <3>1, <3>2
  <2> QED
    BY <1>1, <1>2, <1>4, <2>1, <2>2, AheadAppend
<1>6. ASSUME NEW i \in DOMAIN working', IsSnapshot(working'[i])
      PROVE  /\ HeardUpTo(working'[i].ver)
             /\ Ahead(queued', down', End(down'), working'[i].ver)
  <2>1. HeardUpTo(working'[i].ver) /\ Ahead(queued, down, End(down), working'[i].ver)
    BY <1>2, <1>6 DEF Waits
  <2> QED
    BY <1>1, <1>2, <1>4, <2>1, AheadAppend
<1>7. joined => Ahead(queued, down', End(down'), value)
  BY <1>1, <1>2, <1>4, AheadAppend DEF Waits
<1>8. ~joined => Silent(queued, down', End(down'))
  BY <1>1, <1>2, <1>4, AheadAppend DEF Waits
<1>9. \A n : HeardUpTo(n)' <=> HeardUpTo(n)
  BY <1>1 DEF HeardUpTo
<1> QED
  BY <1>1, <1>5, <1>6, <1>7, <1>8, <1>9 DEF Waits

LEMMA WaitsReceive ==
  ASSUME TypeOK, Fresh, NeverLeft, Waits, ~ready, Receive
  PROVE  Waits'
<1> DEFINE p == Head(down)
           m == Len(down)
<1>1. /\ m \in Nat \ {0} /\ DOMAIN down = 1..m /\ DOMAIN down' = 1..(m - 1)
      /\ \A i \in 1..(m - 1) : down'[i] = down[i + 1] /\ i + 1 \in 1..m
      /\ p = down[1] /\ 1 \in DOMAIN down /\ Len(down') = m - 1
      /\ p.ver \in Versions /\ p.ver \in Int
  BY DownTail
<1>2. /\ down \in Seq(Packet) /\ down # <<>> /\ down' = Tail(down)
      /\ queued \in Seq(Versions)
      /\ UNCHANGED <<value, joined, working>>
  BY Received DEF TypeOK
<1>3. End(down) = m + 1 /\ End(down') = m /\ m \in 1..m
  BY <1>1 DEF End
<1>4. /\ heard' = heard
      /\ \/ ~IsEvent(p) /\ queued' = queued
         \/ IsEvent(p) /\ queued' = Append(queued, p.ver)
  <2>1. CASE ~IsEvent(p)
    BY <2>1, Received DEF p
  <2>2. CASE IsEvent(p)
    <3>1. handlers # {}
      <4>1. ~Silent(queued, down, End(down))
        BY <1>1, <1>3, <2>2 DEF Silent
      <4> QED
        BY <4>1 DEF Waits, NeverLeft, Watched
    <3> QED
      BY <2>2, <3>1, Received DEF p
  <2> QED
    BY <2>1, <2>2
<1> HIDE DEF m
<1>5. ASSUME NEW i \in 1..m, NEW n, Ahead(queued, down, i + 1, n)
      PROVE  Ahead(queued', down', i, n)
  BY <1>2, <1>4, <1>5, AheadTail DEF m
<1>6. \A n : HeardUpTo(n)' <=> HeardUpTo(n)
  BY <1>4 DEF HeardUpTo
<1>7. ASSUME NEW i \in DOMAIN down', IsSnapshot(down'[i])
      PROVE  HeardUpTo(down'[i].ver) /\ Ahead(queued', down', i, down'[i].ver)
  <2>1. i \in 1..m /\ i + 1 \in DOMAIN down /\ down'[i] = down[i + 1]
    BY <1>1
  <2>2. HeardUpTo(down[i + 1].ver) /\ Ahead(queued, down, i + 1, down[i + 1].ver)
    BY <1>7, <2>1 DEF Waits
  <2> QED
    BY <1>5, <2>1, <2>2
<1>8. ASSUME NEW i \in DOMAIN working', IsSnapshot(working'[i])
      PROVE  /\ HeardUpTo(working'[i].ver)
             /\ Ahead(queued', down', End(down'), working'[i].ver)
  BY <1>2, <1>3, <1>5, <1>8 DEF Waits
<1>9. joined' => Ahead(queued', down', End(down'), value')
  BY <1>2, <1>3, <1>5 DEF Waits
<1>10. ~joined' => Silent(queued', down', End(down'))
  <2>1. ASSUME ~joined
        PROVE  ~IsEvent(p) /\ queued = <<>> /\ \A j \in DOMAIN down : ~IsEvent(down[j])
    BY <1>1, <1>3, <2>1 DEF Waits, Silent
  <2> QED
    BY <1>1, <1>2, <1>4, <2>1 DEF Silent
<1>11. ASSUME NEW k \in DOMAIN tasks', tasks'[k].does = "apply"
       PROVE  HeardUpTo(tasks'[k].ver) /\ Ahead(queued', <<>>, 1, tasks'[k].ver)
  <2>1. CASE k \in DOMAIN tasks /\ tasks'[k] = tasks[k]
    <3>1. HeardUpTo(tasks[k].ver) /\ Ahead(queued, <<>>, 1, tasks[k].ver)
      BY <1>11, <2>1 DEF Waits
    <3>2. CASE IsEvent(p)
      <4>1. tasks[k].ver <= p.ver
        BY <1>1, <2>1, <3>2, VersionsAreInts DEF Fresh
      <4>2. Len(queued) + 1 \in DOMAIN queued' /\ queued'[Len(queued) + 1] = p.ver
        BY <1>1, <1>2, <1>4, <3>2, AppendOf
      <4>3. Pushed(queued', <<>>, 1, tasks[k].ver)
        BY <4>1, <4>2 DEF Pushed
      <4> QED
        BY <2>1, <3>1, <4>3 DEF Ahead
    <3>3. CASE ~IsEvent(p)
      BY <1>4, <2>1, <3>1, <3>3
    <3> QED
      BY <3>2, <3>3
  <2>2. CASE ~(k \in DOMAIN tasks /\ tasks'[k] = tasks[k])
    <3>1. ~IsEvent(p) /\ tasks'[k].ver = p.ver /\ IsSnapshot(p)
      BY <1>11, <2>2, TasksReceived DEF p
    <3>2. HeardUpTo(p.ver) /\ Ahead(queued, down, 1, p.ver)
      BY <1>1, <3>1 DEF Waits
    <3>3. Ahead(queued, <<>>, 1, p.ver)
      <4>1. ~\E j \in DOMAIN down : j < 1
        BY <1>1
      <4> QED
        BY <3>2, <4>1 DEF Ahead, Silent, Pushed
    <3> QED
      BY <1>4, <3>1, <3>2, <3>3
  <2> QED
    BY <2>1, <2>2
<1> QED
  BY <1>6, <1>7, <1>8, <1>9, <1>10, <1>11 DEF Waits

(* A view may be shown the answer to its question before the snapshot that *)
(* follows has been applied.                                               *)
LEMMA WaitsMicrotask ==
  ASSUME TypeOK, Rises, LateShows, Waits, Apply \/ Fetch \/ Show, ~ready'
  PROVE  Waits'
<1>1. UNCHANGED <<value, joined, working, down>>
  BY MicrotaskTyped DEF daemon, wire
<1>2. /\ queued' = queued
      /\ \/ heard' = heard
         \/ Show /\ \A v \in Views : heard'[v] \in {heard[v], tasks[1].ver}
  <2>1. CASE Apply
    BY <2>1 DEF Apply
  <2>2. CASE Fetch
    BY <2>2 DEF Fetch
  <2>3. CASE Show
    <3>1. Head(tasks) = tasks[1]
      BY <2>3, MicrotaskTyped, LastIsOf
    <3> QED
      BY <2>3, <3>1, ToldIs DEF Show
  <2> QED
    BY <2>1, <2>2, <2>3
<1>3. tasks # <<>> /\ 1 \in DOMAIN tasks /\ Head(tasks) = tasks[1]
  BY MicrotaskTyped, LastIsOf
<1>4. ASSUME NEW n \in Int, HeardUpTo(n), tasks[1].ver <= n
      PROVE  \A v \in Views : heard'[v] <= n
  BY <1>2, <1>4 DEF HeardUpTo
<1>5. ASSUME NEW i \in DOMAIN down, IsSnapshot(down[i])
      PROVE  \A v \in Views : heard'[v] <= down[i].ver
  BY <1>3, <1>4, <1>5, VersionsAreInts DEF Waits, Rises
<1>6. ASSUME NEW i \in DOMAIN working, IsSnapshot(working[i])
      PROVE  \A v \in Views : heard'[v] <= working[i].ver
  BY <1>3, <1>4, <1>6, VersionsAreInts DEF Waits, Rises
<1>7. ASSUME NEW k \in DOMAIN tasks', tasks'[k].does = "apply"
      PROVE  /\ \A v \in Views : heard'[v] <= tasks'[k].ver
             /\ Ahead(queued, <<>>, 1, tasks'[k].ver)
  <2>1. k + 1 \in DOMAIN tasks /\ tasks'[k] = tasks[k + 1]
    BY <1>7, TasksLeft
  <2>2. HeardUpTo(tasks[k + 1].ver) /\ Ahead(queued, <<>>, 1, tasks[k + 1].ver)
    BY <1>7, <2>1 DEF Waits
  <2>3. ~Show
    <3>1. 1 < k + 1
      BY MicrotaskTyped
    <3> QED
      BY <1>3, <1>7, <2>1, <3>1, MicrotaskTyped DEF LateShows
  <2> QED
    BY <1>2, <2>1, <2>2, <2>3 DEF HeardUpTo
<1> QED
  BY <1>1, <1>2, <1>5, <1>6, <1>7 DEF Waits, HeardUpTo

LEMMA SteadyStep ==
  ASSUME TypeOK, Shape, Fresh, Rises, LateShows, Steady, [Next]_vars
  PROVE  Steady'
<1> SUFFICES ASSUME Quiet'
             PROVE  NeverLeft' /\ (~ready' => Waits')
  BY DEF Steady
<1>0. Quiet => NeverLeft /\ (~ready => Waits)
  BY DEF Steady
<1>1. NeverLeft'
  BY <1>0, NeverLeftStep
<1>2. ASSUME ~ready' PROVE Waits'
  <2> USE DEF daemon, wire, entry, views, rpcs, micro, Idle, Quiet
  <2>1. CASE Change
    BY <1>0, <1>2, <2>1, WaitsChange DEF Change
  <2>2. CASE Take \/ Refuse
    <3>1. Quiet /\ ready' = ready
      BY <2>2 DEF Take, Refuse
    <3> QED
      BY <1>0, <1>2, <2>2, <3>1, WaitsAnswer
  <2>3. CASE Reply
    BY <1>0, <1>2, <2>3, WaitsReply DEF Reply
  <2>4. CASE Receive
    BY <1>0, <1>2, <2>4, WaitsReceive DEF Receive
  <2>5. CASE Apply \/ Fetch \/ Show
    <3>1. Quiet /\ ready' = ready
      <4>1. past' = past
        BY <2>5, MicrotaskTyped
      <4>2. ready' = ready
        BY <1>2, <2>5 DEF Apply, Fetch, Show
      <4> QED
        BY <4>1, <4>2
    <3> QED
      BY <1>0, <1>2, <2>5, <3>1, WaitsMicrotask
  <2>6. ASSUME NEW v \in Views, Mount(v)
        PROVE  Waits'
    BY <1>0, <1>2, <2>6, WaitsSame DEF Mount, ToldCached
  <2>7. ASSUME NEW v \in Views, Unmount(v)
        PROVE  Waits'
    <3>1. handlers # {v}
      BY <2>7 DEF Unmount
    <3>2. /\ Quiet /\ ~ready
          /\ UNCHANGED <<value, joined, working, down, queued, tasks>>
      BY <1>2, <2>7, <3>1 DEF Unmount
    <3>3. \A w \in Views : heard'[w] = heard[w] \/ heard'[w] = None
      BY <2>7 DEF Unmount, TypeOK
    <3>4. ASSUME NEW n \in Versions, HeardUpTo(n)
          PROVE  \A w \in Views : heard'[w] <= n
      <4>1. None <= n
        BY MirrorAssumption DEF None, Versions, MirrorAssumption
      <4> QED
        BY <3>3, <3>4, <4>1 DEF HeardUpTo
    <3>5. /\ \A p \in Packet : p.ver \in Versions
          /\ \A t \in Task : t.ver \in Versions
      BY DEF Packet, Task
    <3>6. ASSUME NEW p \in Packet \union Task, HeardUpTo(p.ver)
          PROVE  \A w \in Views : heard'[w] <= p.ver
      BY <3>4, <3>5, <3>6
    <3> QED
      BY <1>0, <3>2, <3>6, VersionsAreInts DEF Waits, HeardUpTo
  <2>8. CASE Expire
    BY <2>8 DEF Expire
  <2>9. CASE FirstConnect \/ FirstFails \/ UNCHANGED vars
    <3>1. /\ Quiet /\ ready' = ready
          /\ UNCHANGED <<value, joined, working, down, queued, heard, tasks>>
      BY <2>9 DEF FirstConnect, FirstFails, vars
    <3> QED
      BY <1>0, <1>2, <3>1, WaitsSame
  <2>10. CASE Disconnect
    BY <2>10, WaitsEmpty DEF Disconnect, NotReady
  <2>11. CASE ManagerReconnect
    <3>1. joined = FALSE /\ working = <<>> /\ down = <<>> /\ tasks = <<>>
      BY <2>11 DEF ManagerReconnect, Shape, TypeOK
    <3>2. queued' = <<>> /\ UNCHANGED <<joined, working, down, tasks>>
      BY <2>11 DEF ManagerReconnect, Resync, NotReady
    <3> QED
      BY <3>1, <3>2, WaitsEmpty
  <2>12. CASE SocketConnect
    <3>1. CASE known
      <4>1. joined = FALSE /\ working = <<>> /\ down = <<>> /\ tasks = <<>>
        BY <2>12 DEF SocketConnect, Shape, TypeOK
      <4>2. queued' = <<>> /\ UNCHANGED <<joined, working, down, tasks>>
        BY <2>12, <3>1 DEF SocketConnect, Resync, NotReady
      <4> QED
        BY <4>1, <4>2, WaitsEmpty
    <3>2. CASE ~known
      BY <1>0, <1>2, <2>12, <3>2, WaitsSame DEF SocketConnect
    <3> QED
      BY <3>1, <3>2
  <2> QED
    BY <2>1, <2>2, <2>3, <2>4, <2>5, <2>6, <2>7, <2>8, <2>9, <2>10, <2>11, <2>12
       DEF Next
<1> QED
  BY <1>1, <1>2

-----------------------------------------------------------------------------
THEOREM StreamInvariant == Spec => []StreamInv
<1>1. Init => StreamInv
  <2> SUFFICES ASSUME Init PROVE Fresh /\ Rises /\ LateShows /\ Steady /\ BaseInv
    BY DEF StreamInv
  <2>1. Fresh
    BY DEF Init, Fresh, None
  <2>2. Rises /\ LateShows
    BY DEF Init, Rises, LateShows
  <2>3. Steady
    BY DEF Init, Steady, NeverLeft, NoRoom, Watched, Waits, Silent, End
  <2>4. BaseInv
    BY BaseAtFirst
  <2> QED
    BY <2>1, <2>2, <2>3, <2>4
<1>2. StreamInv /\ [Next]_vars => StreamInv'
  BY MirrorAssumption, TypeStep, ShapeStep, RoomStep, FreshStep, RisesStep,
     LateShowsStep, SteadyStep DEF StreamInv, BaseInv
<1> QED
  BY <1>1, <1>2, PTL DEF Spec

(* A step that tells a view something older than it was told, or than the  *)
(* snapshot it applies, applies a second snapshot to an entry that is      *)
(* ready, or shows the answer to a question (on a connection where the     *)
(* room was never left).                                                   *)
LEMMA StepGoesBack ==
  ASSUME StreamInv, [Next]_vars, NEW v \in handlers, v \in handlers', GoesBack(v),
         Quiet
  PROVE  (ready /\ Runs("apply")) \/ Runs("show")
<1> USE DEF daemon, wire, entry, views, rpcs, micro, Idle
<1>1. TypeOK /\ Shape /\ Fresh /\ NeverLeft /\ (~ready => Waits)
  BY DEF StreamInv, BaseInv, Steady
<1>2. v \in Views /\ heard[v] \in Int /\ tasks \in Seq(Task)
  BY <1>1, VersionsAreInts DEF TypeOK
<1>3. ASSUME heard'[v] = heard[v], tasks' = tasks
      PROVE  FALSE
  <2>1. ~Runs("apply")
    BY <1>2, <1>3 DEF Runs
  <2> QED
    BY <1>2, <1>3, <2>1 DEF GoesBack
<1>4. CASE Apply
  <2>1. /\ Head(tasks).does = "apply" /\ tasks' = Tail(tasks) /\ tasks # <<>>
        /\ handlers # {}
    BY <1>1, <1>4, MicrotaskTyped
  <2>2. Runs("apply")
    BY <1>2, <2>1, TailOf DEF Runs
  <2>3. ASSUME ~ready PROVE FALSE
    <3>1. heard'[v] = LastOf(queued, Head(tasks).ver)
      BY <1>1, <1>2, <1>4, <2>1, ToldIs DEF Apply
    <3>2. 1 \in DOMAIN tasks /\ Head(tasks) = tasks[1] /\ tasks[1].ver \in Int
      BY <1>1, <2>1, LastIsOf, VersionsAreInts
    <3>3. heard[v] <= tasks[1].ver /\ Ahead(queued, <<>>, 1, tasks[1].ver)
      BY <1>1, <1>2, <2>1, <2>3, <3>2 DEF Waits, HeardUpTo
    <3>4. CASE queued = <<>>
      BY <1>2, <3>1, <3>2, <3>3, <3>4 DEF LastOf, GoesBack
    <3>5. CASE queued # <<>>
      <4>1. PICK k \in DOMAIN queued : tasks[1].ver <= queued[k]
        BY <3>3, <3>5 DEF Ahead, Silent, Pushed
      <4>2. heard'[v] = queued[Len(queued)] /\ Len(queued) \in DOMAIN queued
        BY <1>1, <3>1, <3>5, EmptySeq DEF LastOf, TypeOK
      <4>3. queued[k] <= queued[Len(queued)]
        BY <1>1 DEF Fresh
      <4> QED
        BY <1>1, <1>2, <3>2, <3>3, <4>1, <4>2, <4>3, VersionsAreInts DEF GoesBack
    <3> QED
      BY <3>4, <3>5
  <2> QED
    BY <2>2, <2>3
<1>5. CASE Fetch
  <2>1. Head(tasks).does = "fetch"
    BY <1>1, <1>5, MicrotaskTyped
  <2>2. heard'[v] = heard[v] /\ ~Runs("apply")
    BY <1>5, <2>1 DEF Fetch, Runs
  <2> QED
    BY <1>2, <2>2 DEF GoesBack
<1>6. CASE Show
  <2>1. Head(tasks).does = "show" /\ tasks' = Tail(tasks) /\ tasks # <<>>
    BY <1>1, <1>6, MicrotaskTyped
  <2> QED
    BY <1>2, <2>1, TailOf DEF Runs
<1>7. CASE Receive
  <2>1. /\ 1 \in DOMAIN down /\ Head(down) = down[1] /\ down[1].ver \in Int
    BY <1>1, <1>7, DownTail, VersionsAreInts
  <2>2. heard'[v] = heard[v] \/ (IsEvent(down[1]) /\ heard'[v] = down[1].ver)
    <3>1. CASE IsEvent(Head(down)) /\ ready
      BY <1>1, <1>2, <1>7, <2>1, <3>1, Received, ToldIs
    <3>2. CASE ~(IsEvent(Head(down)) /\ ready)
      BY <1>1, <1>7, <3>2, Received
    <3> QED
      BY <3>1, <3>2
  <2>3. ~(heard'[v] < heard[v])
    BY <1>1, <1>2, <2>1, <2>2 DEF Fresh
  <2>4. ~Runs("apply")
    <3>1. tasks' = tasks \/ \E x \in Task : tasks' = Append(tasks, x)
      BY <1>1, <1>7, Received
    <3> QED
      BY <1>2, <3>1, AppendOf DEF Runs
  <2> QED
    BY <2>3, <2>4 DEF GoesBack
<1>8. ASSUME NEW w \in Views, Mount(w)
      PROVE  FALSE
  <2>1. w # v /\ tasks' = tasks
    BY <1>8 DEF Mount
  <2>2. heard'[v] = heard[v]
    <3>1. CASE ready /\ cache # None
      BY <1>1, <1>2, <1>8, <2>1, <3>1, ToldIs DEF Mount, ToldCached
    <3>2. CASE ~(ready /\ cache # None)
      BY <1>8, <3>2 DEF Mount, ToldCached
    <3> QED
      BY <3>1, <3>2
  <2> QED
    BY <1>3, <2>1, <2>2
<1>9. ASSUME NEW w \in Views, Unmount(w)
      PROVE  FALSE
  <2>1. w # v /\ tasks' = tasks /\ heard' = [heard EXCEPT ![w] = None]
    BY <1>9 DEF Unmount
  <2>2. heard'[v] = heard[v]
    BY <1>1, <1>2, <2>1 DEF TypeOK
  <2> QED
    BY <1>3, <2>1, <2>2
<1>10. CASE \/ Change \/ Take \/ Refuse \/ Reply \/ Expire \/ FirstConnect \/ FirstFails
            \/ Disconnect \/ ManagerReconnect \/ SocketConnect \/ UNCHANGED vars
  <2>1. UNCHANGED <<heard, tasks>>
    BY <1>10 DEF Change, Take, Refuse, Reply, Expire, FirstConnect, FirstFails,
       Disconnect, ManagerReconnect, SocketConnect, vars
  <2> QED
    BY <1>3, <2>1
<1> QED
  BY <1>4, <1>5, <1>6, <1>7, <1>8, <1>9, <1>10 DEF Next

(* What a view is told goes back to an older version only when a second    *)
(* snapshot is applied to an entry that is ready already, or the answer to *)
(* the view's own question is shown.                                       *)
THEOREM EventsNeverGoBack == Spec => OnlySnapshotsGoBack
<1>1. StreamInv /\ [Next]_vars
        => [\A v \in handlers \cap handlers' : GoesBack(v) =>
              \/ past \ {"unanswered"} # {}
              \/ ready /\ Runs("apply")
              \/ Runs("show")]_vars
  BY StepGoesBack DEF Quiet
<1> QED
  BY <1>1, StreamInvariant, PTL DEF Spec, OnlySnapshotsGoBack
-----------------------------------------------------------------------------
(* was told, wherever the snapshot and the events are.                     *)

(* Calls are numbered as they are made, and nothing overtakes: an answer   *)
(* settles no call but its own.  An event has no number.                   *)
Precedes(a, b) == a.id # 0 /\ b.id # 0 => a.id < b.id
Rising(s) == \A i, j \in DOMAIN s : i < j => Precedes(s[i], s[j])
Before(s, t) == \A i \in DOMAIN s, j \in DOMAIN t : Precedes(s[i], t[j])
UpTo(s, n) == \A i \in DOMAIN s : s[i].id <= n
Numbered(s) == \A i \in DOMAIN s : s[i].id # 0
InOrder ==
  /\ Rising(down) /\ Rising(working) /\ Rising(up)
  /\ Before(down, working) /\ Before(down, up) /\ Before(working, up)
  /\ UpTo(down, calls) /\ UpTo(working, calls) /\ UpTo(up, calls)
  /\ Numbered(working) /\ Numbered(up)
  /\ \A i \in DOMAIN down : IsEvent(down[i]) \/ down[i].id # 0

(* A subscription is on its way, after which no view leaves, and its call  *)
(* is not given up; or the socket is in the room, no request changes that, *)
(* and a view was told the newest version, or what tells it is on its way: *)
(* an event or a snapshot of the entry, or the answer to its own question, *)
(* unless that is still to be put.                                         *)
Content(s) == {s[i] : i \in DOMAIN s}
Tells(t, v) == t.ver = value /\ (t.does = "apply" \/ t.id = asked[v])
Brings(p, v) ==
  /\ p.ver = value
  /\ \/ IsEvent(p)
     \/ p.id \in pending /\ (IsSnapshot(p) \/ (p.type = "status" /\ p.id = asked[v]))
Fetching == \E i \in DOMAIN up : /\ LastRoom(up, i) /\ up[i].kind = "subscribe"
                                 /\ up[i].id \in pending
Querying(v) == \E r \in Content(up) : /\ r.kind = "query" /\ r.id = asked[v]
                                      /\ r.id \in pending
Covered(v) == \/ top[v] = value
              \/ value \in Content(queued)
              \/ \E t \in Content(tasks) : Tells(t, v)
              \/ \E p \in Content(down) \union Content(working) : Brings(p, v)
Served(v) == Covered(v) \/ Querying(v)
Informed == Fetching \/ (NoRoom(up) /\ joined /\ \A v \in handlers : Served(v))

(* That is so while views are subscribed and no call has failed.           *)
Unfailed == past \subseteq {"left"}
Informing == link # "down" /\ Watched /\ Unfailed => Informed

ToldNoNewer == \A v \in Views : top[v] <= value
MissInv == InOrder /\ ToldNoNewer /\ Informing

-----------------------------------------------------------------------------
LEMMA OrderAppend ==
  ASSUME NEW S, NEW s \in Seq(S), NEW e \in S, NEW t
  PROVE  /\ Rising(s) /\ (\A i \in DOMAIN s : Precedes(s[i], e)) => Rising(Append(s, e))
         /\ Before(s, t) /\ (\A j \in DOMAIN t : Precedes(e, t[j]))
              => Before(Append(s, e), t)
         /\ Before(t, s) /\ (\A j \in DOMAIN t : Precedes(t[j], e))
              => Before(t, Append(s, e))
         /\ \A n : UpTo(s, n) /\ e.id <= n => UpTo(Append(s, e), n)
         /\ Numbered(s) /\ e.id # 0 => Numbered(Append(s, e))
<1> DEFINE r == Append(s, e)
           m == Len(s)
<1>1. /\ m \in Nat /\ DOMAIN s = 1..m /\ DOMAIN r = 1..(m + 1)
      /\ \A i \in 1..m : r[i] = s[i]
      /\ r[m + 1] = e
  BY AppendOf
<1> HIDE DEF r, m
<1>2. ASSUME Rising(s), \A i \in DOMAIN s : Precedes(s[i], e),
             NEW i \in DOMAIN r, NEW j \in DOMAIN r, i < j
      PROVE  Precedes(r[i], r[j])
  <2>1. i \in 1..m /\ (j \in 1..m \/ j = m + 1)
    BY <1>1, <1>2
  <2> QED
    BY <1>1, <1>2, <2>1 DEF Rising
<1>3. \A i \in DOMAIN r : (i \in DOMAIN s /\ r[i] = s[i]) \/ r[i] = e
  BY <1>1
<1>4. ASSUME Before(s, t), \A j \in DOMAIN t : Precedes(e, t[j])
      PROVE  Before(r, t)
  BY <1>3, <1>4 DEF Before
<1>5. ASSUME Before(t, s), \A j \in DOMAIN t : Precedes(t[j], e)
      PROVE  Before(t, r)
  BY <1>3, <1>5 DEF Before
<1>6. \A n : UpTo(s, n) /\ e.id <= n => UpTo(r, n)
  BY <1>3 DEF UpTo
<1>7. Numbered(s) /\ e.id # 0 => Numbered(r)
  BY <1>3 DEF Numbered
<1>8. Rising(s) /\ (\A i \in DOMAIN s : Precedes(s[i], e)) => Rising(r)
  BY <1>2 DEF Rising
<1> QED
  BY <1>4, <1>5, <1>6, <1>7, <1>8 DEF r

LEMMA OrderTail ==
  ASSUME NEW S, NEW s \in Seq(S), s # <<>>, NEW t
  PROVE  /\ Rising(s) => /\ Rising(Tail(s))
                         /\ \A i \in DOMAIN Tail(s) : Precedes(Head(s), Tail(s)[i])
         /\ Before(s, t) => /\ Before(Tail(s), t)
                            /\ \A j \in DOMAIN t : Precedes(Head(s), t[j])
         /\ Before(t, s) => /\ Before(t, Tail(s))
                            /\ \A j \in DOMAIN t : Precedes(t[j], Head(s))
         /\ \A n : UpTo(s, n) => UpTo(Tail(s), n) /\ Head(s).id <= n
         /\ Numbered(s) => Numbered(Tail(s)) /\ Head(s).id # 0
<1> DEFINE r == Tail(s)
<1>1. /\ DOMAIN r = 1..(Len(s) - 1) /\ DOMAIN s = 1..Len(s) /\ Len(s) \in Nat
      /\ \A i \in DOMAIN r : i + 1 \in DOMAIN s /\ r[i] = s[i + 1]
      /\ 1 \in DOMAIN s /\ Head(s) = s[1]
  BY TailOf
<1> HIDE DEF r
<1>2. ASSUME Rising(s), NEW i \in DOMAIN r
      PROVE  /\ Precedes(Head(s), r[i])
             /\ \A j \in DOMAIN r : i < j => Precedes(r[i], r[j])
  <2>1. 1 < i + 1 /\ \A j \in DOMAIN r : i < j => i + 1 < j + 1
    BY <1>1
  <2> QED
    BY <1>1, <1>2, <2>1 DEF Rising
<1>3. Rising(s) => Rising(r) /\ \A i \in DOMAIN r : Precedes(Head(s), r[i])
  BY <1>2 DEF Rising
<1>4. Before(s, t) => Before(r, t) /\ \A j \in DOMAIN t : Precedes(Head(s), t[j])
  BY <1>1 DEF Before
<1>5. Before(t, s) => Before(t, r) /\ \A j \in DOMAIN t : Precedes(t[j], Head(s))
  BY <1>1 DEF Before
<1>6. \A n : UpTo(s, n) => UpTo(r, n) /\ Head(s).id <= n
  BY <1>1 DEF UpTo
<1>7. Numbered(s) => Numbered(r) /\ Head(s).id # 0
  BY <1>1 DEF Numbered
<1> QED
  BY <1>3, <1>4, <1>5, <1>6, <1>7 DEF r

(* What a sequence of requests has after some more are made.               *)
LEMMA ConcatOf ==
  ASSUME NEW s \in Seq(Request), NEW t \in Seq(Request)
  PROVE  /\ s \o t \in Seq(Request) /\ Len(s) \in Nat /\ Len(t) \in Nat
         /\ DOMAIN s = 1..Len(s) /\ DOMAIN t = 1..Len(t)
         /\ DOMAIN (s \o t) = 1..(Len(s) + Len(t))
         /\ \A i \in 1..Len(s) : (s \o t)[i] = s[i]
         /\ \A i \in 1..Len(t) : (s \o t)[Len(s) + i] = t[i]
         /\ \A i \in 1..(Len(s) + Len(t)) : i > Len(s) => i - Len(s) \in 1..Len(t)
<1>1. /\ Len(s \o t) = Len(s) + Len(t) /\ s \o t \in Seq(Request)
      /\ \A i \in 1..(Len(s) + Len(t)) :
            (s \o t)[i] = IF i <= Len(s) THEN s[i] ELSE t[i - Len(s)]
  BY ConcatProperties
<1>2. Len(s) \in Nat /\ Len(t) \in Nat /\ DOMAIN s = 1..Len(s) /\ DOMAIN t = 1..Len(t)
  OBVIOUS
<1>3. DOMAIN (s \o t) = 1..(Len(s) + Len(t))
  BY <1>1
<1>4. \A i \in 1..Len(s) : (s \o t)[i] = s[i]
  BY <1>1, <1>2
<1>5. ASSUME NEW i \in 1..Len(t)
      PROVE  (s \o t)[Len(s) + i] = t[i]
  <2>1. /\ Len(s) + i \in 1..(Len(s) + Len(t)) /\ ~(Len(s) + i <= Len(s))
        /\ (Len(s) + i) - Len(s) = i
    BY <1>2
  <2> QED
    BY <1>1, <2>1
<1>6. \A i \in 1..(Len(s) + Len(t)) : i > Len(s) => i - Len(s) \in 1..Len(t)
  BY <1>2
<1> QED
  BY <1>1, <1>2, <1>3, <1>4, <1>5, <1>6

(* The calls of a step have the next numbers, which are pending.           *)
Following(reqs) == \A i \in DOMAIN reqs : reqs[i].id = calls + i

LEMMA CallsAreNext ==
  Following(FirstView) /\ Following(NextView) /\ Following(LastView) /\ Following(Again)
  BY DEF Following, FirstView, NextView, LastView, Again, Asked

LEMMA OrderMake ==
  ASSUME TypeOK, InOrder, NEW reqs \in Seq(Request), Following(reqs), Make(reqs),
         UNCHANGED <<down, working>>
  PROVE  InOrder'
<1> DEFINE m == Len(up)
           n == Len(reqs)
<1>1. /\ m \in Nat /\ n \in Nat /\ DOMAIN up = 1..m /\ DOMAIN reqs = 1..n
      /\ DOMAIN up' = 1..(m + n) /\ calls \in Nat /\ calls' = calls + n
      /\ \A i \in 1..m : up'[i] = up[i]
      /\ \A i \in 1..n : up'[m + i] = reqs[i]
      /\ \A i \in 1..(m + n) : i > m => i - m \in 1..n
  BY ConcatOf DEF Make, TypeOK
<1> HIDE DEF m, n
<1>2. ASSUME NEW i \in 1..(m + n)
      PROVE  \/ i \in 1..m /\ up'[i] = up[i]
             \/ i > m /\ up'[i].id = calls + (i - m) /\ i - m \in 1..n
  <2>1. CASE i > m
    <3>1. i - m \in 1..n /\ m + (i - m) = i
      BY <1>1, <2>1
    <3> QED
      BY <1>1, <2>1, <3>1 DEF Following
  <2> QED
    BY <1>1, <2>1
<1>3. /\ \A i \in 1..m : up[i].id \in Nat /\ up[i].id <= calls /\ up[i].id # 0
      /\ \A i \in DOMAIN down : down[i].id \in Nat /\ down[i].id <= calls
      /\ \A i \in DOMAIN working : working[i].id \in Nat /\ working[i].id <= calls
  <2>1. \A i \in 1..m : up[i] \in Request
    BY <1>1, ElementOfSeq DEF TypeOK
  <2>2. \A i \in DOMAIN down : down[i] \in Packet
    BY VersionsAreInts
  <2>3. \A i \in DOMAIN working : working[i] \in Packet
    BY VersionsAreInts
  <2> QED
    BY <1>1, <2>1, <2>2, <2>3 DEF InOrder, UpTo, Numbered, Request, Packet
<1>4. Numbered(up') /\ UpTo(up', calls')
  BY <1>1, <1>2, <1>3 DEF Numbered, UpTo
<1>5. UpTo(down, calls') /\ UpTo(working, calls')
  BY <1>1, <1>3 DEF UpTo
<1>6. \A k \in Nat, i \in 1..(m + n) : k <= calls /\ i > m => k < up'[i].id
  BY <1>1, <1>2
<1>7. Before(down, up') /\ Before(working, up')
  BY <1>1, <1>2, <1>3, <1>6 DEF Before, Precedes, InOrder
<1>8. Rising(up')
  <2> SUFFICES ASSUME NEW i \in 1..(m + n), NEW j \in 1..(m + n), i < j
               PROVE  Precedes(up'[i], up'[j])
    BY <1>1 DEF Rising
  <2>1. CASE j \in 1..m
    <3>1. i \in 1..m /\ up'[i] = up[i] /\ up'[j] = up[j]
      BY <1>1, <2>1
    <3>2. Rising(up) /\ i \in DOMAIN up /\ j \in DOMAIN up
      BY <1>1, <2>1, <3>1 DEF InOrder
    <3>3. Precedes(up[i], up[j])
      BY <3>2 DEF Rising
    <3> QED
      BY <3>1, <3>3
  <2>2. CASE i \in 1..m /\ j > m
    <3>1. up'[i] = up[i] /\ up[i].id \in Nat /\ up[i].id <= calls
      BY <1>1, <1>3, <2>2
    <3>2. up[i].id < up'[j].id
      BY <1>6, <2>2, <3>1
    <3> QED
      BY <3>1, <3>2 DEF Precedes
  <2>3. CASE i > m
    <3>1. i \in Nat /\ j \in Nat /\ j > m /\ i - m < j - m
      BY <1>1, <2>3
    <3>2. up'[i].id = calls + (i - m) /\ up'[j].id = calls + (j - m)
      BY <1>1, <1>2, <2>3, <3>1
    <3> QED
      BY <1>1, <3>1, <3>2 DEF Precedes
  <2> QED
    BY <1>1, <2>1, <2>2, <2>3
<1> QED
  BY <1>4, <1>5, <1>7, <1>8 DEF InOrder

LEMMA OrderAnswer ==
  ASSUME TypeOK, InOrder, Take \/ Refuse
  PROVE  InOrder'
<1> DEFINE r == Head(up)
<1>1. /\ up # <<>> /\ up \in Seq(Request) /\ up' = Tail(up) /\ working \in Seq(Packet)
      /\ r \in Request /\ UNCHANGED <<down, calls>>
  BY NextAnswer
<1>2. PICK a \in Packet : /\ working' = Append(working, a) /\ a.id = r.id
                          /\ ~IsEvent(a)
  BY NextAnswer
<1> HIDE DEF r
<1>3. /\ r.id # 0 /\ r.id <= calls
      /\ \A i \in DOMAIN working : Precedes(working[i], a)
      /\ \A i \in DOMAIN down : Precedes(down[i], a)
      /\ \A i \in DOMAIN up' : Precedes(a, up'[i])
  BY <1>1, <1>2, OrderTail DEF InOrder, Precedes, r
<1>4. Rising(up') /\ Before(down, up') /\ Before(working, up') /\ UpTo(up', calls)
      /\ Numbered(up')
  BY <1>1, OrderTail DEF InOrder
<1>5. Rising(working') /\ Before(down, working') /\ UpTo(working', calls)
      /\ Numbered(working')
  BY <1>1, <1>2, <1>3, OrderAppend DEF InOrder
<1>6. Before(working', up')
  BY <1>1, <1>2, <1>3, <1>4, OrderAppend
<1> QED
  BY <1>1, <1>4, <1>5, <1>6 DEF InOrder

LEMMA OrderReply ==
  ASSUME TypeOK, InOrder, Reply
  PROVE  InOrder'
<1> DEFINE a == Head(working)
<1>1. /\ working # <<>> /\ working \in Seq(Packet) /\ working' = Tail(working)
      /\ down' = Append(down, a) /\ down \in Seq(Packet) /\ a \in Packet
      /\ UNCHANGED <<up, calls>>
  BY HeadTailProperties DEF Reply, TypeOK, rpcs
<1>2. /\ a.id # 0 /\ a.id <= calls
      /\ \A i \in DOMAIN working' : Precedes(a, working'[i])
      /\ \A i \in DOMAIN down : Precedes(down[i], a)
      /\ \A i \in DOMAIN up : Precedes(a, up[i])
  BY <1>1, OrderTail DEF InOrder
<1> HIDE DEF a
<1>3. Rising(working') /\ Before(down, working') /\ Before(working', up)
      /\ UpTo(working', calls) /\ Numbered(working')
  BY <1>1, OrderTail DEF InOrder
<1>4. Rising(down') /\ Before(down', up) /\ UpTo(down', calls)
  BY <1>1, <1>2, OrderAppend DEF InOrder
<1>5. Before(down', working')
  BY <1>1, <1>2, <1>3, OrderAppend
<1>6. \A i \in DOMAIN down' : IsEvent(down'[i]) \/ down'[i].id # 0
  <2>1. \A i \in DOMAIN down' : (i \in DOMAIN down /\ down'[i] = down[i]) \/ down'[i] = a
    BY <1>1, AppendOf
  <2> QED
    BY <1>2, <2>1 DEF InOrder
<1> QED
  BY <1>1, <1>3, <1>4, <1>5, <1>6 DEF InOrder

LEMMA OrderReceive ==
  ASSUME TypeOK, InOrder, Receive
  PROVE  InOrder'
<1>1. /\ down # <<>> /\ down \in Seq(Packet) /\ down' = Tail(down)
      /\ UNCHANGED <<up, working, calls>>
  BY Received
<1>2. Rising(down') /\ Before(down', up) /\ Before(down', working) /\ UpTo(down', calls)
  BY <1>1, OrderTail DEF InOrder
<1>3. \A i \in DOMAIN down' : IsEvent(down'[i]) \/ down'[i].id # 0
  BY <1>1, TailOf DEF InOrder
<1> QED
  BY <1>1, <1>2, <1>3 DEF InOrder

LEMMA OrderStep ==
  ASSUME TypeOK, Shape, InOrder, [Next]_vars
  PROVE  InOrder'
<1> USE DEF daemon, wire, entry, views, rpcs, micro, Idle
<1>0. /\ calls \in Nat /\ up \in Seq(Request)
      /\ FirstView \in Seq(Request) /\ NextView \in Seq(Request)
      /\ LastView \in Seq(Request) /\ Again \in Seq(Request)
  BY CallsAreRequests DEF TypeOK
<1>1. CASE Change
  <2>1. CASE joined
    <3>1. /\ down' = Append(down, Event(value + 1)) /\ down \in Seq(Packet)
          /\ Event(value + 1) \in Packet /\ UNCHANGED <<up, working, calls>>
      <4>1. [id |-> 0, kind |-> "query"] \in Request
        BY DEF Request, Kinds
      <4> QED
        BY <1>1, <2>1, <4>1, MirrorAssumption, PacketsTyped DEF Change, TypeOK
    <3>2. Event(value + 1).id = 0 /\ IsEvent(Event(value + 1)) /\ 0 <= calls
      BY <1>0 DEF Event, IsEvent
    <3>3. \A a : Precedes(a, Event(value + 1)) /\ Precedes(Event(value + 1), a)
      BY <3>2 DEF Precedes
    <3>4. Rising(down') /\ Before(down', working) /\ Before(down', up)
          /\ UpTo(down', calls)
      BY <3>1, <3>2, <3>3, OrderAppend DEF InOrder
    <3>5. \A i \in DOMAIN down' : IsEvent(down'[i]) \/ down'[i].id # 0
      <4>1. \A i \in DOMAIN down' : \/ i \in DOMAIN down /\ down'[i] = down[i]
                                    \/ down'[i] = Event(value + 1)
        BY <3>1, AppendOf
      <4> QED
        BY <3>2, <4>1 DEF InOrder
    <3> QED
      BY <3>1, <3>4, <3>5 DEF InOrder
  <2>2. CASE ~joined
    BY <1>1, <2>2 DEF Change, InOrder
  <2> QED
    BY <2>1, <2>2
<1>2. CASE Take \/ Refuse
  BY <1>2, OrderAnswer
<1>3. CASE Reply
  BY <1>3, OrderReply
<1>4. ASSUME NEW v \in Views, Mount(v)
      PROVE  InOrder'
  BY <1>0, <1>4, OrderMake, CallsAreNext DEF Mount
<1>5. ASSUME NEW v \in Views, Unmount(v)
      PROVE  InOrder'
  <2>1. CASE handlers = {v}
    BY <1>0, <1>5, <2>1, OrderMake, CallsAreNext DEF Unmount
  <2>2. CASE handlers # {v}
    BY <1>5, <2>2 DEF Unmount, InOrder
  <2> QED
    BY <2>1, <2>2
<1>6. CASE Expire
  <2>1. UNCHANGED <<down, working, calls>> /\ (up' = up \/ (up # <<>> /\ up' = Tail(up)))
    BY <1>6 DEF Expire
  <2>2. CASE up # <<>> /\ up' = Tail(up)
    <3>1. /\ Rising(up') /\ Before(down, up') /\ Before(working, up')
          /\ UpTo(up', calls) /\ Numbered(up')
      BY <1>0, <2>2, OrderTail DEF InOrder
    <3> QED
      BY <2>1, <3>1 DEF InOrder
  <2> QED
    BY <2>1, <2>2 DEF InOrder
<1>7. CASE Receive
  BY <1>7, OrderReceive
<1>8. CASE Disconnect
  <2>1. down' = <<>> /\ working' = <<>> /\ calls' = calls /\ (up' = up \/ up' = <<>>)
    BY <1>8 DEF Disconnect
  <2>2. CASE up' = up
    BY <2>1, <2>2 DEF InOrder, Rising, Before, UpTo, Numbered
  <2>3. CASE up' = <<>>
    BY <2>1, <2>3 DEF InOrder, Rising, Before, UpTo, Numbered
  <2> QED
    BY <2>1, <2>2, <2>3
<1>9. CASE ManagerReconnect
  BY <1>0, <1>9, OrderMake, CallsAreNext DEF ManagerReconnect, Resync
<1>10. CASE SocketConnect
  <2>1. CASE known
    BY <1>0, <1>10, <2>1, OrderMake, CallsAreNext DEF SocketConnect, Resync
  <2>2. CASE ~known
    BY <1>10, <2>2 DEF SocketConnect, InOrder
  <2> QED
    BY <2>1, <2>2
<1>11. CASE Apply \/ Fetch \/ Show \/ FirstConnect \/ FirstFails \/ UNCHANGED vars
  <2>1. UNCHANGED <<up, working, down, calls>>
    BY <1>11, MicrotaskTyped DEF FirstConnect, FirstFails, vars
  <2> QED
    BY <2>1 DEF InOrder
<1> QED
  BY <1>1, <1>2, <1>3, <1>4, <1>5, <1>6, <1>7, <1>8, <1>9, <1>10, <1>11 DEF Next

-----------------------------------------------------------------------------
(* Nothing was told that is not there yet.                                 *)
LEMMA TopStep ==
  ASSUME TypeOK, Shape, Fresh, ToldNoNewer, [Next]_vars
  PROVE  ToldNoNewer'
<1> USE DEF daemon, wire, entry, views, rpcs, micro, Idle
<1>0. /\ value \in Int /\ None <= value
      /\ \A v \in Views : top[v] \in Int /\ top[v] <= value
  BY NothingIsOld, VersionsAreInts DEF ToldNoNewer
<1>1. CASE Change
  BY <1>0, <1>1 DEF Change, ToldNoNewer
<1>2. ASSUME NEW S, NEW last, NEW newest, newest <= value, Told(S, last, newest),
             value' = value
      PROVE  ToldNoNewer'
  <2>1. \A v \in Views : top'[v] \in {top[v], newest}
    BY <1>2, ToldIs DEF Newest
  <2> QED
    BY <1>0, <1>2, <2>1 DEF ToldNoNewer
<1>3. ASSUME value' = value, top' = top
      PROVE  ToldNoNewer'
  BY <1>0, <1>3 DEF ToldNoNewer
<1>4. CASE Receive
  <2>1. value' = value /\ Head(down).ver <= value
    BY <1>4, DownTail, Received DEF Fresh
  <2>2. top' = top \/ Told(handlers, Head(down).ver, Head(down).ver)
    BY <1>4, Received
  <2> QED
    BY <1>2, <1>3, <2>1, <2>2
<1>5. CASE Apply \/ Fetch \/ Show
  <2>1. value' = value /\ tasks # <<>>
    BY <1>5, MicrotaskTyped
  <2>2. Head(tasks).ver <= value /\ LastOf(queued, Head(tasks).ver) <= value
    BY <2>1, LastIsOf DEF Fresh
  <2>3. Newest(Head(tasks).ver, LastOf(queued, Head(tasks).ver)) <= value
    BY <2>2 DEF Newest
  <2>4. \/ top' = top
        \/ \E S, last, newest : newest <= value /\ Told(S, last, newest)
    BY <1>5, <2>2, <2>3 DEF Apply, Fetch, Show
  <2> QED
    BY <1>2, <1>3, <2>1, <2>4
<1>6. ASSUME NEW v \in Views, Mount(v)
      PROVE  ToldNoNewer'
  <2>1. value' = value /\ (top' = top \/ Told({v}, cache, cache))
    BY <1>6 DEF Mount, ToldCached
  <2>2. cache <= value
    BY DEF Fresh
  <2> QED
    BY <1>2, <1>3, <2>1, <2>2
<1>7. ASSUME NEW v \in Views, Unmount(v)
      PROVE  ToldNoNewer'
  <2>1. value' = value /\ \A w \in Views : top'[w] = top[w] \/ top'[w] = None
    BY <1>7 DEF Unmount, TypeOK
  <2> QED
    BY <1>0, <2>1 DEF ToldNoNewer
<1>8. CASE \/ Take \/ Refuse \/ Reply \/ Expire \/ FirstConnect \/ FirstFails
           \/ Disconnect \/ ManagerReconnect \/ SocketConnect \/ UNCHANGED vars
  <2>1. value' = value /\ top' = top
    BY <1>8 DEF Take, Refuse, Reply, Expire, FirstConnect, FirstFails, Disconnect,
       ManagerReconnect, SocketConnect, vars
  <2> QED
    BY <1>3, <2>1
<1> QED
  BY <1>1, <1>4, <1>5, <1>6, <1>7, <1>8 DEF Next

-----------------------------------------------------------------------------
LEMMA ContentOf ==
  ASSUME NEW S, NEW s \in Seq(S)
  PROVE  /\ \A e \in S : Content(Append(s, e)) = Content(s) \union {e}
         /\ s # <<>> => Content(s) = Content(Tail(s)) \union {Head(s)}
<1>1. ASSUME NEW e \in S
      PROVE  Content(Append(s, e)) = Content(s) \union {e}
  <2>1. /\ Len(s) \in Nat /\ DOMAIN s = 1..Len(s)
        /\ DOMAIN Append(s, e) = 1..(Len(s) + 1)
        /\ \A i \in 1..Len(s) : Append(s, e)[i] = s[i]
        /\ Append(s, e)[Len(s) + 1] = e
    BY AppendOf
  <2>2. Content(Append(s, e)) \subseteq Content(s) \union {e}
    BY <2>1 DEF Content
  <2>3. Content(s) \subseteq Content(Append(s, e))
    BY <2>1 DEF Content
  <2>4. e \in Content(Append(s, e))
    BY <2>1 DEF Content
  <2> QED
    BY <2>2, <2>3, <2>4
<1>2. ASSUME s # <<>>
      PROVE  Content(s) = Content(Tail(s)) \union {Head(s)}
  <2>1. /\ Len(s) \in Nat \ {0} /\ DOMAIN s = 1..Len(s)
        /\ DOMAIN Tail(s) = 1..(Len(s) - 1)
        /\ \A i \in 1..(Len(s) - 1) : Tail(s)[i] = s[i + 1] /\ i + 1 \in 1..Len(s)
        /\ Head(s) = s[1] /\ 1 \in 1..Len(s)
    BY <1>2, TailOf
  <2>2. Content(Tail(s)) \subseteq Content(s) /\ Head(s) \in Content(s)
    BY <2>1 DEF Content
  <2>3. ASSUME NEW i \in 1..Len(s)
        PROVE  s[i] = Head(s) \/ s[i] \in Content(Tail(s))
    <3>1. i # 1 => i - 1 \in 1..(Len(s) - 1) /\ (i - 1) + 1 = i
      BY <2>1
    <3>2. i # 1 => i - 1 \in DOMAIN Tail(s) /\ Tail(s)[i - 1] = s[i]
      BY <2>1, <3>1
    <3> QED
      BY <2>1, <3>2 DEF Content
  <2>4. Content(s) \subseteq Content(Tail(s)) \union {Head(s)}
    BY <2>1, <2>3 DEF Content
  <2> QED
    BY <2>2, <2>4
<1> QED
  BY <1>1, <1>2

(* What the last request about the room becomes when the first is taken.   *)
LEMMA RoomTail ==
  ASSUME NEW s \in Seq(Request), s # <<>>
  PROVE  /\ \A i \in DOMAIN s : LastRoom(s, i) =>
              \/ /\ i - 1 \in DOMAIN Tail(s) /\ Tail(s)[i - 1] = s[i]
                 /\ LastRoom(Tail(s), i - 1)
              \/ i = 1 /\ s[i] = Head(s) /\ Head(s).kind # "query" /\ NoRoom(Tail(s))
         /\ NoRoom(s) => NoRoom(Tail(s)) /\ Head(s).kind = "query"
<1> DEFINE r == Tail(s)
           n == Len(s)
<1>1. /\ n \in Nat \ {0} /\ DOMAIN s = 1..n /\ DOMAIN r = 1..(n - 1)
      /\ \A i \in 1..(n - 1) : r[i] = s[i + 1] /\ i + 1 \in 1..n
      /\ Head(s) = s[1] /\ 1 \in 1..n
  BY TailOf
<1> HIDE DEF r, n
<1>2. ASSUME NEW i \in 1..n, LastRoom(s, i), i # 1
      PROVE  i - 1 \in 1..(n - 1) /\ r[i - 1] = s[i] /\ LastRoom(r, i - 1)
  <2>1. i - 1 \in 1..(n - 1) /\ (i - 1) + 1 = i
    BY <1>1, <1>2
  <2>2. r[i - 1] = s[i]
    BY <1>1, <2>1
  <2>3. ASSUME NEW j \in 1..(n - 1), j > i - 1
        PROVE  r[j].kind = "query"
    <3>1. j + 1 \in 1..n /\ j + 1 > i /\ r[j] = s[j + 1]
      BY <1>1, <2>3
    <3> QED
      BY <1>1, <1>2, <3>1 DEF LastRoom
  <2>4. r[i - 1].kind # "query"
    BY <1>2, <2>2 DEF LastRoom
  <2> QED
    BY <1>1, <2>1, <2>2, <2>3, <2>4 DEF LastRoom
<1>3. ASSUME LastRoom(s, 1)
      PROVE  Head(s).kind # "query" /\ NoRoom(r)
  <2>1. ASSUME NEW j \in 1..(n - 1)
        PROVE  r[j].kind = "query"
    <3>1. j + 1 \in 1..n /\ j + 1 > 1 /\ r[j] = s[j + 1]
      BY <1>1
    <3> QED
      BY <1>1, <1>3, <3>1 DEF LastRoom
  <2> QED
    BY <1>1, <1>3, <2>1 DEF LastRoom, NoRoom
<1>4. NoRoom(s) => NoRoom(r) /\ Head(s).kind = "query"
  BY <1>1 DEF NoRoom
<1> QED
  BY <1>1, <1>2, <1>3, <1>4 DEF r, n

(* Calls that are no requests about the room change nothing; a new         *)
(* subscription is the one that counts.                                    *)
LEMMA FetchMake ==
  ASSUME TypeOK, NEW reqs \in Seq(Request), Following(reqs), Make(reqs)
  PROVE  /\ NoRoom(reqs) /\ Fetching => Fetching'
         /\ NoRoom(reqs) /\ NoRoom(up) => NoRoom(up')
         /\ (\E k \in DOMAIN reqs : LastRoom(reqs, k) /\ reqs[k].kind = "subscribe")
              => Fetching'
<1> DEFINE m == Len(up)
           n == Len(reqs)
<1>1. /\ m \in Nat /\ n \in Nat /\ DOMAIN up = 1..m /\ DOMAIN reqs = 1..n
      /\ DOMAIN up' = 1..(m + n) /\ calls \in Nat
      /\ \A i \in 1..m : up'[i] = up[i]
      /\ \A i \in 1..n : up'[m + i] = reqs[i]
      /\ \A i \in 1..(m + n) : i > m => i - m \in 1..n
      /\ pending' = pending \union (calls + 1)..(calls + n)
  BY ConcatOf DEF Make, TypeOK
<1> HIDE DEF m, n
<1>2. ASSUME NEW i \in 1..(m + n), i > m
      PROVE  up'[i] = reqs[i - m] /\ i - m \in 1..n
  <2>1. i - m \in 1..n /\ m + (i - m) = i
    BY <1>1, <1>2
  <2> QED
    BY <1>1, <2>1
<1>3. ASSUME NoRoom(reqs), NEW i \in 1..m, LastRoom(up, i)
      PROVE  LastRoom(up', i) /\ i \in 1..(m + n) /\ up'[i] = up[i]
  <2>1. i \in 1..(m + n) /\ up'[i] = up[i]
    BY <1>1
  <2>2. ASSUME NEW j \in 1..(m + n), j > i
        PROVE  up'[j].kind = "query"
    <3>1. CASE j \in 1..m
      BY <1>1, <1>3, <2>2, <3>1 DEF LastRoom
    <3>2. CASE j > m
      BY <1>1, <1>2, <1>3, <3>2 DEF NoRoom
    <3> QED
      BY <1>1, <3>1, <3>2
  <2> QED
    BY <1>1, <1>3, <2>1, <2>2 DEF LastRoom
<1>4. NoRoom(reqs) /\ Fetching => Fetching'
  BY <1>1, <1>3 DEF Fetching
<1>5. ASSUME NoRoom(reqs), NoRoom(up), NEW i \in 1..(m + n)
      PROVE  up'[i].kind = "query"
  <2>1. CASE i \in 1..m
    BY <1>1, <1>5, <2>1 DEF NoRoom
  <2>2. CASE i > m
    BY <1>1, <1>2, <1>5, <2>2 DEF NoRoom
  <2> QED
    BY <1>1, <2>1, <2>2
<1>6. NoRoom(reqs) /\ NoRoom(up) => NoRoom(up')
  BY <1>1, <1>5 DEF NoRoom
<1>7. ASSUME NEW k \in 1..n, LastRoom(reqs, k), reqs[k].kind = "subscribe"
      PROVE  Fetching'
  <2>1. m + k \in 1..(m + n) /\ up'[m + k] = reqs[k]
    BY <1>1
  <2>2. ASSUME NEW j \in 1..(m + n), j > m + k
        PROVE  up'[j].kind = "query"
    <3>1. j > m /\ j - m > k
      BY <1>1, <2>2
    <3>2. up'[j] = reqs[j - m] /\ j - m \in 1..n
      BY <1>2, <3>1
    <3> QED
      BY <1>1, <1>7, <3>1, <3>2 DEF LastRoom
  <2>3. LastRoom(up', m + k)
    BY <1>1, <1>7, <2>1, <2>2 DEF LastRoom
  <2>4. up'[m + k].id = calls + k
    BY <1>1, <2>1 DEF Following
  <2>5. up'[m + k].id \in pending'
    BY <1>1, <2>4
  <2> QED
    BY <1>1, <1>7, <2>1, <2>3, <2>5 DEF Fetching
<1> QED
  BY <1>1, <1>4, <1>6, <1>7

LEMMA SubscriptionsFetch ==
  /\ \E k \in DOMAIN FirstView : LastRoom(FirstView, k) /\ FirstView[k].kind = "subscribe"
  /\ Watched => \E k \in DOMAIN Again : LastRoom(Again, k) /\ Again[k].kind = "subscribe"
<1>1. \A k, n : Asked(k, n).kind = k
  BY DEF Asked
<1>2. 2 \in DOMAIN FirstView /\ DOMAIN FirstView = 1..2 /\ FirstView[2].kind = "subscribe"
  BY <1>1 DEF FirstView
<1>3. LastRoom(FirstView, 2)
  BY <1>2 DEF LastRoom
<1>4. Watched => 1 \in DOMAIN Again /\ DOMAIN Again = 1..1 /\ Again[1].kind = "subscribe"
  BY <1>1 DEF Again, Watched
<1>5. Watched => LastRoom(Again, 1)
  BY <1>4 DEF LastRoom
<1> QED
  BY <1>2, <1>3, <1>4, <1>5


(* What is under way to a view is kept when nothing of it is lost and no   *)
(* call given up.                                                          *)
LEMMA CoveredKept ==
  ASSUME NEW v, Covered(v), UNCHANGED <<value, queued, tasks>>,
         top'[v] = top[v], asked'[v] = asked[v], pending \subseteq pending',
         Content(down) \union Content(working)
           \subseteq Content(down') \union Content(working')
  PROVE  Covered(v)'
<1>1. \A p : Brings(p, v) => Brings(p, v)'
  BY DEF Brings
<1>2. \A t : Tells(t, v) => Tells(t, v)'
  BY DEF Tells
<1> QED
  BY <1>1, <1>2 DEF Covered

LEMMA QueryingKept ==
  ASSUME NEW v, Querying(v), asked'[v] = asked[v], pending \subseteq pending',
         Content(up) \subseteq Content(up')
  PROVE  Querying(v)'
  BY DEF Querying

LEMMA MakeKeeps ==
  ASSUME TypeOK, NEW reqs \in Seq(Request), Make(reqs)
  PROVE  /\ Content(up') = Content(up) \union Content(reqs)
         /\ pending \subseteq pending'
<1>1. /\ Len(up) \in Nat /\ Len(reqs) \in Nat
      /\ DOMAIN up = 1..Len(up) /\ DOMAIN reqs = 1..Len(reqs)
      /\ DOMAIN up' = 1..(Len(up) + Len(reqs))
      /\ \A i \in 1..Len(up) : up'[i] = up[i]
      /\ \A i \in 1..Len(reqs) : up'[Len(up) + i] = reqs[i]
      /\ \A i \in 1..(Len(up) + Len(reqs)) : i > Len(up) => i - Len(up) \in 1..Len(reqs)
      /\ pending' = pending \union (calls + 1)..(calls + Len(reqs))
  BY ConcatOf DEF Make, TypeOK
<1>2. ASSUME NEW i \in DOMAIN up'
      PROVE  up'[i] \in Content(up) \union Content(reqs)
  <2>1. CASE i > Len(up)
    <3>1. i - Len(up) \in 1..Len(reqs) /\ Len(up) + (i - Len(up)) = i
      BY <1>1, <2>1
    <3>2. up'[i] = reqs[i - Len(up)]
      BY <1>1, <3>1
    <3> QED
      BY <1>1, <3>1, <3>2 DEF Content
  <2>2. CASE ~(i > Len(up))
    <3>1. i \in 1..Len(up)
      BY <1>1, <2>2
    <3> QED
      BY <1>1, <3>1 DEF Content
  <2> QED
    BY <2>1, <2>2
<1>3. \A i \in 1..Len(up) : up[i] \in Content(up')
  <2>1. \A i \in 1..Len(up) : i \in DOMAIN up' /\ up'[i] = up[i]
    BY <1>1
  <2> QED
    BY <2>1 DEF Content
<1>4. \A i \in 1..Len(reqs) : reqs[i] \in Content(up')
  <2>1. \A i \in 1..Len(reqs) : Len(up) + i \in DOMAIN up' /\ up'[Len(up) + i] = reqs[i]
    BY <1>1
  <2> QED
    BY <2>1 DEF Content
<1> QED
  BY <1>1, <1>2, <1>3, <1>4 DEF Content

-----------------------------------------------------------------------------
(* The steps that move what is under way.                                  *)
LEMMA InformedChange ==
  ASSUME TypeOK, Informing, Change
  PROVE  Informing'
<1>1. /\ UNCHANGED <<link, handlers, past, up, pending, joined>> /\ value' = value + 1
      /\ down' = IF joined THEN Append(down, Event(value + 1)) ELSE down
  BY DEF Change, entry, rpcs
<1>2. CASE Fetching
  BY <1>1, <1>2 DEF Informing, Informed, Fetching, Watched, Unfailed
<1>3. CASE NoRoom(up) /\ joined
  <2>1. Event(value + 1) \in Packet /\ down \in Seq(Packet)
    <3>1. [id |-> 0, kind |-> "query"] \in Request
      BY DEF Request, Kinds
    <3> QED
      BY <3>1, MirrorAssumption, PacketsTyped DEF Change, TypeOK
  <2>2. Event(value + 1) \in Content(down')
    BY <1>1, <1>3, <2>1, ContentOf
  <2>3. Event(value + 1).ver = value' /\ IsEvent(Event(value + 1))
    BY <1>1 DEF Event, IsEvent
  <2>4. \A v \in handlers' : Served(v)'
    BY <2>2, <2>3 DEF Covered, Brings, Served
  <2> QED
    BY <1>1, <1>3, <2>4 DEF Informing, Informed, NoRoom
<1> QED
  BY <1>1, <1>2, <1>3 DEF Informing, Informed, Watched, Unfailed

LEMMA InformedAnswer ==
  ASSUME TypeOK, Informing, Take \/ Refuse
  PROVE  Informing'
<1> DEFINE r == Head(up)
<1> SUFFICES ASSUME link' # "down", Watched', Unfailed' PROVE Informed'
  BY DEF Informing
<1>1. /\ up # <<>> /\ up \in Seq(Request) /\ up' = Tail(up) /\ working \in Seq(Packet)
      /\ r \in Request
      /\ UNCHANGED <<value, down, link, handlers, pending, queued, tasks, top, asked>>
  BY NextAnswer
<1>2. Take /\ Unfailed /\ joined' = Joins(r)
  <2>1. Refuse => "unanswered" \in past' \/ "refused" \in past'
    BY DEF Refuse
  <2>2. "unanswered" \notin past' /\ "refused" \notin past'
    BY DEF Unfailed
  <2>3. Take
    BY <2>1, <2>2
  <2> QED
    BY <2>3 DEF Take, Unfailed
<1>3. Informed
  BY <1>1, <1>2 DEF Informing, Watched
<1>4. PICK a \in Packet : /\ working' = Append(working, a) /\ a.id = r.id
                          /\ a = Answer(r)
  BY <1>2, NextAnswer
<1> HIDE DEF r
<1>5. Content(working') = Content(working) \union {a}
  BY <1>1, <1>4, ContentOf
<1>6. CASE Fetching
  <2>1. PICK i \in DOMAIN up : /\ LastRoom(up, i) /\ up[i].kind = "subscribe"
                               /\ up[i].id \in pending
    BY <1>6 DEF Fetching
  <2>2. CASE i - 1 \in DOMAIN up' /\ up'[i - 1] = up[i] /\ LastRoom(up', i - 1)
    BY <1>1, <2>1, <2>2 DEF Informed, Fetching
  <2>3. CASE up[i] = r /\ r.kind # "query" /\ NoRoom(up')
    <3>1. joined' /\ a = Snapshot(r)
      BY <1>2, <1>4, <2>1, <2>3 DEF Joins, Answer
    <3>2. a.ver = value /\ IsSnapshot(a) /\ a.id \in pending
      BY <2>1, <2>3, <3>1 DEF Snapshot, IsSnapshot
    <3>3. \A v \in handlers' : Served(v)'
      BY <1>1, <1>5, <3>2 DEF Covered, Brings, Served
    <3> QED
      BY <2>3, <3>1, <3>3 DEF Informed
  <2> QED
    BY <1>1, <2>1, <2>2, <2>3, RoomTail DEF r
<1>7. CASE NoRoom(up) /\ joined /\ \A v \in handlers : Served(v)
  <2>1. NoRoom(up') /\ r.kind = "query"
    BY <1>1, <1>7, RoomTail DEF r
  <2>2. joined' /\ a = Status(r)
    BY <1>2, <1>4, <1>7, <2>1 DEF Joins, Answer
  <2>3. a.ver = value /\ a.type = "status"
    BY <2>2 DEF Status
  <2>4. Content(up) = Content(up') \union {r}
    BY <1>1, ContentOf DEF r
  <2>5. ASSUME NEW v \in handlers
        PROVE  Served(v)'
    <3>1. CASE Covered(v)
      BY <1>1, <1>5, <3>1, CoveredKept DEF Served
    <3>2. CASE Querying(v)
      <4>1. PICK q \in Content(up) : q.kind = "query" /\ q.id = asked[v] /\ q.id \in pending
        BY <3>2 DEF Querying
      <4>2. CASE q = r
        <5>1. Brings(a, v)'
          BY <1>1, <1>4, <2>3, <4>1, <4>2 DEF Brings
        <5> QED
          BY <1>5, <5>1 DEF Covered, Served
      <4>3. CASE q \in Content(up')
        BY <1>1, <4>1, <4>3 DEF Querying, Served
      <4> QED
        BY <2>4, <4>1, <4>2, <4>3
    <3> QED
      BY <1>7, <3>1, <3>2 DEF Served
  <2> QED
    BY <1>1, <2>1, <2>2, <2>5 DEF Informed
<1> QED
  BY <1>3, <1>6, <1>7 DEF Informed

LEMMA InformedReply ==
  ASSUME TypeOK, Informing, Reply
  PROVE  Informing'
<1>1. /\ working # <<>> /\ working \in Seq(Packet) /\ working' = Tail(working)
      /\ down' = Append(down, Head(working)) /\ down \in Seq(Packet)
      /\ Head(working) \in Packet
      /\ UNCHANGED <<value, joined, up, link, handlers, past, pending, queued, tasks,
                     top, asked>>
  BY HeadTailProperties DEF Reply, TypeOK, entry, views, rpcs, micro
<1>2. Content(down') = Content(down) \union {Head(working)}
  BY <1>1, ContentOf
<1>3. Content(working) = Content(working') \union {Head(working)}
  BY <1>1, ContentOf
<1>4. ASSUME NEW v \in handlers, Served(v)
      PROVE  Served(v)'
  BY <1>1, <1>2, <1>3, <1>4, CoveredKept, QueryingKept DEF Served
<1> QED
  BY <1>1, <1>4 DEF Informing, Informed, Fetching, NoRoom, Watched, Unfailed

LEMMA InformedReceive ==
  ASSUME TypeOK, Shape, Fresh, InOrder, ToldNoNewer, Informing, Receive
  PROVE  Informing'
<1> SUFFICES ASSUME link # "down", Watched, Unfailed, Informed PROVE Informed'
  BY Received DEF Informing, Watched, Unfailed
<1>1. PICK p \in Packet : p = Head(down)
  BY Received
<1>2. /\ down # <<>> /\ down \in Seq(Packet) /\ down' = Tail(down)
      /\ UNCHANGED <<value, joined, working, up, handlers, ready, asked>>
      /\ handlers # {} /\ handlers \subseteq Views
  BY Received DEF Watched, TypeOK
<1>3. /\ Content(down) = Content(down') \union {p}
      /\ p.ver \in Versions /\ p.ver \in Int /\ value \in Int /\ p.ver <= value
  <2>1. p.ver <= value
    BY <1>1, DownTail DEF Fresh
  <2> QED
    BY <1>1, <1>2, <2>1, DownTail, ContentOf, VersionsAreInts
<1>4. CASE IsEvent(p)
  <2>1. /\ UNCHANGED <<pending, tasks>>
        /\ ready => queued' = queued /\ Told(handlers, p.ver, p.ver)
        /\ ~ready => UNCHANGED <<heard, top>> /\ queued' = Append(queued, p.ver)
    BY <1>1, <1>2, <1>4, Received
  <2>2. Fetching => Fetching'
    BY <1>2, <2>1 DEF Fetching
  <2>3. ASSUME NEW v \in handlers, Served(v)
        PROVE  Served(v)'
    <3>1. /\ \A q : Brings(q, v) => Brings(q, v)'
          /\ \A t : Tells(t, v) => Tells(t, v)'
          /\ Querying(v) => Querying(v)'
      BY <1>2, <2>1 DEF Brings, Tells, Querying
    <3>2. CASE ready
      <4>1. top'[v] = Newest(top[v], p.ver) /\ top[v] \in Int /\ top[v] <= value
        BY <1>2, <2>1, <3>2, ToldIs, VersionsAreInts DEF ToldNoNewer
      <4>2. top[v] = value \/ p.ver = value => top'[v] = value'
        BY <1>2, <1>3, <4>1 DEF Newest
      <4>3. Brings(p, v) => p.ver = value
        BY DEF Brings
      <4> QED
        BY <1>2, <1>3, <2>1, <2>3, <3>1, <3>2, <4>2, <4>3 DEF Covered, Served
    <3>3. CASE ~ready
      <4>1. queued \in Seq(Versions) /\ queued' = Append(queued, p.ver)
        BY <2>1, <3>3 DEF TypeOK
      <4>2. Content(queued') = Content(queued) \union {p.ver}
        BY <1>3, <4>1, ContentOf
      <4>3. Brings(p, v) => p.ver = value
        BY DEF Brings
      <4> QED
        BY <1>2, <1>3, <2>1, <2>3, <3>1, <3>3, <4>2, <4>3 DEF Covered, Served
    <3> QED
      BY <3>2, <3>3
  <2> QED
    BY <1>2, <2>2, <2>3 DEF Informed, NoRoom
<1>5. CASE ~IsEvent(p)
  <2>1. /\ pending' = pending \ {p.id} /\ UNCHANGED <<heard, top, queued>>
        /\ tasks' = IF p.type # "ack" /\ p.id \in pending THEN Append(tasks, Continues(p))
                    ELSE tasks
    BY <1>1, <1>5, Received
  <2>2. /\ p.id # 0 /\ p.id \in Nat
        /\ \A i \in DOMAIN down' : Precedes(p, down'[i])
        /\ \A i \in DOMAIN working : Precedes(p, working[i])
        /\ \A i \in DOMAIN up : Precedes(p, up[i])
    <3>1. p.id # 0 /\ p.id \in Nat
      BY <1>1, <1>5, DownTail DEF InOrder, Packet
    <3> QED
      BY <1>1, <1>2, <3>1, OrderTail DEF InOrder
  <2>3. \A i \in DOMAIN up : up[i].id # p.id
    BY <2>2 DEF Precedes, InOrder, Numbered
  <2>4. Fetching => Fetching'
    BY <1>2, <2>1, <2>3 DEF Fetching
  <2>5. \A q \in Content(down') \union Content(working) : q.id # p.id
    BY <2>2 DEF Content, Precedes
  <2>6. ASSUME NEW v \in handlers, Served(v)
        PROVE  Served(v)'
    <3>1. /\ \A q \in Content(down') \union Content(working) : Brings(q, v) => Brings(q, v)'
          /\ \A t : Tells(t, v) => Tells(t, v)'
      BY <1>2, <2>1, <2>5 DEF Brings, Tells
    <3>2. Querying(v) => Querying(v)'
      <4>1. \A q \in Content(up) : q.id # p.id
        BY <2>3 DEF Content
      <4> QED
        BY <1>2, <2>1, <4>1 DEF Querying
    <3>3. Content(tasks) \subseteq Content(tasks')
      <4>1. Continues(p) \in Task /\ tasks \in Seq(Task)
        BY ContinuesTyped DEF TypeOK
      <4> QED
        BY <2>1, <4>1, ContentOf
    <3>4. CASE Brings(p, v)
      <4>1. /\ p.ver = value /\ p.id \in pending /\ p.type # "ack"
            /\ p.type = "snapshot" \/ p.id = asked[v]
        BY <1>5, <3>4 DEF Brings, IsSnapshot
      <4>2. PICK t \in Task : t = Continues(p)
        BY ContinuesTyped
      <4>3. t.ver = value /\ (t.does = "apply" \/ t.id = asked[v])
        BY <4>1, <4>2, ContinuesTyped
      <4>4. Tells(t, v)'
        BY <1>2, <4>3 DEF Tells
      <4>5. t \in Content(tasks')
        BY <2>1, <4>1, <4>2, ContentOf DEF TypeOK
      <4> QED
        BY <4>4, <4>5 DEF Covered, Served
    <3>5. CASE Covered(v) /\ ~Brings(p, v)
      <4>1. CASE \E q \in Content(down) \union Content(working) : Brings(q, v)
        <5>1. \E q \in Content(down') \union Content(working) : Brings(q, v)
          BY <1>3, <3>5, <4>1
        <5> QED
          BY <1>2, <3>1, <5>1 DEF Covered, Served
      <4>2. CASE \E t \in Content(tasks) : Tells(t, v)
        BY <3>1, <3>3, <4>2 DEF Covered, Served
      <4>3. CASE top[v] = value \/ value \in Content(queued)
        BY <1>2, <2>1, <4>3 DEF Covered, Served
      <4> QED
        BY <3>5, <4>1, <4>2, <4>3 DEF Covered
    <3> QED
      BY <2>6, <3>2, <3>4, <3>5 DEF Served
  <2> QED
    BY <1>2, <2>4, <2>6 DEF Informed, NoRoom
<1> QED
  BY <1>4, <1>5

LEMMA InformedApply ==
  ASSUME TypeOK, Fresh, ToldNoNewer, Apply, NEW v \in handlers, Covered(v)
  PROVE  Covered(v)'
<1>1. PICK t \in Task : t = Head(tasks)
  BY MicrotaskTyped
<1>2. PICK l : l = LastOf(queued, t.ver)
  OBVIOUS
<1>3. /\ tasks # <<>> /\ tasks \in Seq(Task) /\ tasks' = Tail(tasks)
      /\ t.does = "apply" /\ v \in Views
      /\ UNCHANGED <<value, working, down, pending, asked>>
  BY <1>1, MicrotaskTyped DEF TypeOK, daemon, wire, rpcs
<1>4. Told(handlers, l, Newest(t.ver, l)) /\ queued' = <<>>
  BY <1>1, <1>2 DEF Apply
<1>5. top'[v] = Newest(top[v], Newest(t.ver, l))
  BY <1>3, <1>4, ToldIs
<1>6. Content(tasks) = Content(tasks') \union {t}
  BY <1>1, <1>3, ContentOf
<1>7. /\ t.ver <= value /\ l <= value /\ t.ver \in Int /\ l \in Int /\ value \in Int
      /\ top[v] \in Int /\ top[v] <= value
  <2>1. /\ 1 \in DOMAIN tasks /\ t = tasks[1]
        /\ \/ l = tasks[1].ver
           \/ Len(queued) \in DOMAIN queued /\ l = queued[Len(queued)]
    BY <1>1, <1>2, <1>3, LastIsOf
  <2> QED
    BY <1>3, <2>1, VersionsAreInts DEF Fresh, ToldNoNewer
<1>8. ASSUME value \in Content(queued) PROVE l = value
  <2>1. PICK k \in DOMAIN queued : queued[k] = value
    BY <1>8 DEF Content
  <2>2. queued # <<>>
    BY <2>1
  <2>3. l = queued[Len(queued)]
    BY <1>2, <2>2 DEF LastOf
  <2>4. value <= l
    BY <2>1, <2>3 DEF Fresh
  <2> QED
    BY <1>7, <2>4
<1>9. top[v] = value \/ t.ver = value \/ l = value => top'[v] = value'
  BY <1>3, <1>5, <1>7 DEF Newest
<1>10. /\ \A q : Brings(q, v) => Brings(q, v)'
       /\ \A s : Tells(s, v) => Tells(s, v)' /\ s.ver = value
  BY <1>3 DEF Brings, Tells
<1> QED
  BY <1>3, <1>6, <1>8, <1>9, <1>10 DEF Covered

LEMMA InformedFetch ==
  ASSUME TypeOK, Fetch, NEW v, Covered(v)
  PROVE  Covered(v)'
<1>1. PICK t \in Task : t = Head(tasks)
  BY MicrotaskTyped
<1>2. PICK s \in Task : s = [t EXCEPT !.does = "show"]
  BY <1>1, MicrotaskTyped
<1>3. /\ tasks # <<>> /\ tasks \in Seq(Task) /\ tasks' = Append(Tail(tasks), s)
      /\ Tail(tasks) \in Seq(Task) /\ t.does = "fetch"
      /\ UNCHANGED <<value, working, down, pending, asked>>
  BY <1>1, <1>2, MicrotaskTyped DEF TypeOK, daemon, wire, rpcs
<1>4. UNCHANGED <<queued, top>>
  BY DEF Fetch
<1>5. /\ Content(tasks) = Content(Tail(tasks)) \union {t}
      /\ Content(tasks') = Content(Tail(tasks)) \union {s}
  <2>1. Content(tasks) = Content(Tail(tasks)) \union {t}
    BY <1>1, <1>3, ContentOf
  <2>2. Content(Append(Tail(tasks), s)) = Content(Tail(tasks)) \union {s}
    <3>1. PICK q \in Seq(Task) : q = Tail(tasks)
      BY <1>3
    <3>2. Content(Append(q, s)) = Content(q) \union {s}
      BY ContentOf
    <3> QED
      BY <3>1, <3>2
  <2> QED
    BY <1>3, <2>1, <2>2
<1>6. /\ \A q : Brings(q, v) => Brings(q, v)'
      /\ \A q : Tells(q, v) => Tells(q, v)'
  BY <1>3 DEF Brings, Tells
<1>7. s.ver = t.ver /\ s.id = t.id
  BY <1>2 DEF Task
<1>8. Tells(t, v) => Tells(s, v)'
  BY <1>3, <1>7 DEF Tells
<1> QED
  BY <1>3, <1>4, <1>5, <1>6, <1>8 DEF Covered

LEMMA InformedShow ==
  ASSUME TypeOK, Fresh, ToldNoNewer, Show, NEW v \in handlers, Covered(v)
  PROVE  Covered(v)'
<1>1. PICK t \in Task : t = Head(tasks)
  BY MicrotaskTyped
<1>2. /\ tasks # <<>> /\ tasks \in Seq(Task) /\ tasks' = Tail(tasks)
      /\ t.does = "show" /\ v \in Views
      /\ UNCHANGED <<value, working, down, pending, asked>>
  BY <1>1, MicrotaskTyped DEF TypeOK, daemon, wire, rpcs
<1>3. Told(Asking(t.id), t.ver, t.ver) /\ queued' = queued
  BY <1>1 DEF Show
<1>4. top'[v] = IF asked[v] = t.id THEN Newest(top[v], t.ver) ELSE top[v]
  BY <1>2, <1>3, ToldIs DEF Asking
<1>5. Content(tasks) = Content(tasks') \union {t}
  BY <1>1, <1>2, ContentOf
<1>6. /\ t.ver <= value /\ t.ver \in Int /\ value \in Int
      /\ top[v] \in Int /\ top[v] <= value
  <2>1. 1 \in DOMAIN tasks /\ t = tasks[1]
    BY <1>1, <1>2, LastIsOf
  <2> QED
    BY <1>2, <2>1, VersionsAreInts DEF Fresh, ToldNoNewer
<1>7. /\ top[v] = value => top'[v] = value'
      /\ t.ver = value /\ asked[v] = t.id => top'[v] = value'
  BY <1>2, <1>4, <1>6 DEF Newest
<1>8. /\ \A q : Brings(q, v) => Brings(q, v)'
      /\ \A s : Tells(s, v) => Tells(s, v)'
      /\ Tells(t, v) => t.ver = value /\ asked[v] = t.id
  BY <1>2 DEF Brings, Tells
<1> QED
  BY <1>2, <1>3, <1>5, <1>7, <1>8 DEF Covered

LEMMA InformedMicrotask ==
  ASSUME TypeOK, Fresh, ToldNoNewer, Informing, Apply \/ Fetch \/ Show
  PROVE  Informing'
<1>1. UNCHANGED <<link, handlers, past, up, joined, pending, asked>>
  BY MicrotaskTyped DEF daemon, wire, rpcs
<1>2. \A v \in handlers : Covered(v) => Covered(v)'
  BY InformedApply, InformedFetch, InformedShow
<1>3. \A v : Querying(v) => Querying(v)'
  BY <1>1 DEF Querying
<1> QED
  BY <1>1, <1>2, <1>3
     DEF Informing, Informed, Served, Fetching, NoRoom, Watched, Unfailed

LEMMA InformedStep ==
  ASSUME TypeOK, Shape, Fresh, InOrder, ToldNoNewer, Informing, [Next]_vars
  PROVE  Informing'
<1> USE DEF daemon, wire, entry, views, rpcs, micro, Idle
<1>0. /\ FirstView \in Seq(Request) /\ NextView \in Seq(Request)
      /\ LastView \in Seq(Request) /\ Again \in Seq(Request)
      /\ FALSE \in BOOLEAN
  BY CallsAreRequests DEF TypeOK
<1>1. CASE Change
  BY <1>1, InformedChange
<1>2. CASE Take \/ Refuse
  BY <1>2, InformedAnswer
<1>3. CASE Reply
  BY <1>3, InformedReply
<1>4. CASE Receive
  BY <1>4, InformedReceive
<1>5. CASE Apply \/ Fetch \/ Show
  BY <1>5, InformedMicrotask
<1>6. ASSUME NEW v \in Views, Mount(v)
      PROVE  Informing'
  <2>1. CASE handlers = {}
    <3>1. Make(FirstView)
      BY <1>6, <2>1 DEF Mount
    <3>2. Fetching'
      BY <1>0, <3>1, FetchMake, CallsAreNext, SubscriptionsFetch
    <3> QED
      BY <3>2 DEF Informing, Informed
  <2>2. CASE handlers # {}
    <3>1. /\ Make(NextView)
          /\ handlers' = handlers \union {v} /\ v \notin handlers
          /\ asked' = [asked EXCEPT ![v] = calls + 1]
          /\ UNCHANGED <<value, joined, down, working, queued, tasks, link, past>>
      BY <1>6, <2>2 DEF Mount
    <3>2. NoRoom(NextView)
      BY <1>0, CallsLead DEF TypeOK
    <3>3. (Fetching => Fetching') /\ (NoRoom(up) => NoRoom(up'))
      BY <1>0, <3>1, <3>2, FetchMake, CallsAreNext
    <3>4. Content(up') = Content(up) \union Content(NextView) /\ pending \subseteq pending'
      BY <1>0, <3>1, MakeKeeps
    <3>5. ASSUME NEW w \in handlers, Served(w)
          PROVE  Served(w)'
      <4>1. w # v /\ asked'[w] = asked[w] /\ w \in Views
        BY <3>1 DEF TypeOK
      <4>2. top'[w] = top[w]
        <5>1. CASE ready /\ cache # None
          BY <1>6, <4>1, <5>1, ToldIs DEF Mount, ToldCached
        <5>2. CASE ~(ready /\ cache # None)
          BY <1>6, <5>2 DEF Mount, ToldCached
        <5> QED
          BY <5>1, <5>2
      <4> QED
        BY <3>1, <3>4, <3>5, <4>1, <4>2, CoveredKept, QueryingKept DEF Served
    <3>6. Served(v)'
      <4>1. Asked("query", 1) \in Content(up')
        <5>1. 1 \in DOMAIN NextView /\ NextView[1] = Asked("query", 1)
          BY DEF NextView
        <5>2. Asked("query", 1) \in Content(NextView)
          BY <5>1 DEF Content
        <5> QED
          BY <3>4, <5>2
      <4>2. Asked("query", 1).kind = "query" /\ Asked("query", 1).id = calls + 1
        BY DEF Asked
      <4>3. calls + 1 \in pending' /\ asked'[v] = calls + 1
        <5>1. Len(NextView) = 1 /\ calls \in Nat
          BY CallsAreRequests DEF TypeOK
        <5>2. calls + 1 \in (calls + 1)..(calls + Len(NextView))
          BY <5>1
        <5> QED
          BY <1>6, <3>1, <5>2 DEF Make, TypeOK
      <4>4. PICK q \in Content(up') : q.kind = "query" /\ q.id = calls + 1
        BY <4>1, <4>2
      <4>5. Querying(v)'
        BY <4>3, <4>4 DEF Querying
      <4> QED
        BY <4>5 DEF Served
    <3> QED
      BY <2>2, <3>1, <3>3, <3>5, <3>6 DEF Informing, Informed, Watched, Unfailed
  <2> QED
    BY <2>1, <2>2
<1>7. ASSUME NEW v \in Views, Unmount(v)
      PROVE  Informing'
  <2>1. CASE handlers = {v}
    <3>1. ~Watched'
      BY <1>7, <2>1 DEF Unmount, Watched
    <3> QED
      BY <3>1 DEF Informing
  <2>2. CASE handlers # {v}
    <3>1. /\ UNCHANGED <<value, joined, down, working, queued, tasks, link, past, up,
                         pending>>
          /\ Watched /\ handlers' = handlers \ {v}
          /\ asked' = [asked EXCEPT ![v] = 0] /\ top' = [top EXCEPT ![v] = None]
      BY <1>7, <2>2 DEF Unmount, Watched
    <3>2. ASSUME NEW w \in handlers', Served(w)
          PROVE  Served(w)'
      <4>1. asked'[w] = asked[w] /\ top'[w] = top[w]
        BY <3>1 DEF TypeOK
      <4> QED
        BY <3>1, <3>2, <4>1, CoveredKept, QueryingKept DEF Served
    <3>3. handlers' \subseteq handlers
      BY <3>1
    <3> QED
      BY <3>1, <3>2, <3>3 DEF Informing, Informed, Fetching, NoRoom, Unfailed
  <2> QED
    BY <2>1, <2>2
<1>8. CASE Expire
  <2>1. "lapsed" \in past'
    BY <1>8 DEF Expire
  <2> QED
    BY <2>1 DEF Informing, Unfailed
<1>9. CASE FirstFails \/ Disconnect
  BY <1>9 DEF FirstFails, Disconnect, Informing
<1>10. ASSUME Resync, UNCHANGED handlers
       PROVE  Informing'
  <2>1. Watched => Fetching'
    BY <1>0, <1>10, FetchMake, CallsAreNext, SubscriptionsFetch DEF Resync
  <2>2. Watched' = Watched
    BY <1>10 DEF Watched
  <2> QED
    BY <2>1, <2>2 DEF Informing, Informed
<1>11. CASE ManagerReconnect
  BY <1>10, <1>11 DEF ManagerReconnect
<1>12. CASE SocketConnect /\ known
  BY <1>10, <1>12 DEF SocketConnect
<1>13. CASE FirstConnect \/ (SocketConnect /\ ~known) \/ UNCHANGED vars
  <2>1. /\ UNCHANGED <<value, joined, down, working, queued, tasks, top, past, up,
                       pending, handlers, asked>>
        /\ link' = link \/ link # "down"
    BY <1>13 DEF FirstConnect, SocketConnect, vars
  <2>2. ASSUME NEW v \in handlers, Served(v)
        PROVE  Served(v)'
    BY <2>1, <2>2, CoveredKept, QueryingKept DEF Served
  <2> QED
    BY <2>1, <2>2 DEF Informing, Informed, Fetching, NoRoom, Watched, Unfailed
<1> QED
  BY <1>1, <1>2, <1>3, <1>4, <1>5, <1>6, <1>7, <1>8, <1>9, <1>11, <1>12, <1>13
     DEF Next

(* No change is missed: with nothing under way, each view of an entry that *)
(* is ready has been told the newest version of the charge point, through  *)
(* any leaving, returning and reconnecting, whatever the cache held when   *)
(* it joined, unless a call was refused or timed out.                      *)
THEOREM NoChangeMissed == Spec => []NothingMissed
<1>1. Init => MissInv
  <2> SUFFICES ASSUME Init PROVE MissInv
    OBVIOUS
  <2>1. InOrder
    BY DEF Init, InOrder, Rising, Before, UpTo, Numbered
  <2>2. ToldNoNewer /\ ~Watched
    BY DEF Init, None, Watched, ToldNoNewer
  <2> QED
    BY <2>1, <2>2 DEF MissInv, Informing
<1>2. MissInv /\ StreamInv /\ [Next]_vars => MissInv'
  <2> SUFFICES ASSUME MissInv, StreamInv, [Next]_vars PROVE MissInv'
    OBVIOUS
  <2>1. TypeOK /\ Shape /\ Fresh /\ InOrder /\ ToldNoNewer /\ Informing
    BY DEF StreamInv, BaseInv, MissInv
  <2> QED
    BY <2>1, OrderStep, TopStep, InformedStep DEF MissInv
<1>3. MissInv /\ StreamInv => NothingMissed
  <2> SUFFICES ASSUME MissInv, StreamInv, link = "up", ready, Settled, Unfailed,
                      NEW v \in handlers
               PROVE  top[v] = value
    BY DEF NothingMissed, Unfailed
  <2>1. Watched /\ queued = <<>> /\ tasks = <<>> /\ down = <<>> /\ working = <<>>
        /\ up = <<>>
    BY DEF StreamInv, BaseInv, Shape, Settled
  <2>2. Content(<<>>) = {}
    BY DEF Content
  <2>3. Served(v) /\ ~Querying(v)
    BY <2>1, <2>2 DEF MissInv, Informing, Informed, Fetching, Querying
  <2> QED
    BY <2>1, <2>2, <2>3 DEF Served, Covered
<1> QED
  BY <1>1, <1>2, <1>3, StreamInvariant, PTL DEF Spec
=============================================================================
