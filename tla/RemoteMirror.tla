----------------------------- MODULE RemoteMirror ----------------------------
(***************************************************************************)
(* The web console following one charge point of the daemon: the socket.io *)
(* client RemoteChargePointService, whose views subscribe to the events of *)
(* the charge point, and socketServer.ts, which joins the socket to the    *)
(* room of that charge point, answers with a snapshot, and pushes events.  *)
(*                                                                         *)
(* What the charge point is, is a version number: a snapshot carries the   *)
(* version it was taken at and an event the one it brings.  The connection *)
(* keeps the order of packets in each direction and loses what is under    *)
(* way when it breaks; calls made without a connection wait in the buffer. *)
(* The packets of one poll are handled one after the other, and the calls  *)
(* they answer continue only then ("draining").                            *)
(*                                                                         *)
(* A view (useChargePointView) asks for the charge point and subscribes.   *)
(* It shows three things: the snapshots and the events of the subscription *)
(* entry it shares with the others, the answer to its own question, and,   *)
(* if it joins an entry that is ready, the snapshot kept in snapshotCache, *)
(* which the answers replace and no event does.  A name F_Word is F with a *)
(* plausible bug.                                                          *)
(***************************************************************************)
EXTENDS Integers, Sequences, FiniteSets

CONSTANTS
  Views,       \* components showing the charge point
  MaxChanges,  \* bound: changes of the charge point
  MaxCalls,    \* bound: calls to the daemon, after which no view is mounted
  MaxDrops,    \* bound: connections lost
  MaxFailures  \* bound: calls refused by the daemon or timed out

ASSUME MirrorAssumption ==
  /\ MaxChanges \in Nat /\ MaxCalls \in Nat
  /\ MaxDrops \in Nat /\ MaxFailures \in Nat

VARIABLES
  value,     \* the charge point, as a version
  joined,    \* the daemon has the socket in the room of the charge point
  working,   \* answers of the daemon computed and not sent yet, in order
  link,      \* the connection, see Links
  known,     \* hasConnected
  up,        \* requests on their way, or buffered, in order
  down,      \* packets on their way to the client, in order
  handlers,  \* the views subscribed; the entry in subs exists while there is one
  ready,     \* ready of that entry
  queued,    \* queued of that entry
  pending,   \* pendingRpc
  timers,    \* calls whose time limit is running
  tasks,     \* microtasks of answered calls, in order, see Task
  draining,  \* those microtasks have begun
  cache,     \* snapshotCache, as a version
  asked,     \* the call by which a mounted view asked, 0 for the others
  heard,     \* history: the version a view was told last
  top,       \* history: the newest version it was told
  past,      \* history: what has happened on this connection, see Marks
  calls, drops, failures  \* counters

daemon == <<value, joined, working>>
wire == <<link, known, up, down>>
entry == <<handlers, ready, queued>>
views == <<asked, heard, top>>
rpcs == <<pending, timers, calls>>
micro == <<tasks, draining, cache>>
vars == <<daemon, wire, entry, views, rpcs, micro, past, drops, failures>>

(* "connecting": the first attempt; "down": lost, or the first attempt     *)
(* failed, and the manager retries; "open": the manager has reconnected    *)
(* and the namespace has not; "up": connected.                             *)
Links == {"connecting", "down", "open", "up"}
Kinds == {"subscribe", "unsubscribe", "query"}

(* A subscription or its end that the daemon refused, calls that timed     *)
(* out, the question of a view refused, the room left.                     *)
Failures == {"refused", "lapsed"}
Marks == Failures \union {"unanswered", "left"}

None == -1
Versions == 0..MaxChanges

Request == [id : Nat, kind : Kinds]
Packet == [type : {"event", "snapshot", "status", "ack"}, id : Nat, ver : Versions]
Event(n) == [type |-> "event", id |-> 0, ver |-> n]
Snapshot(r) == [type |-> "snapshot", id |-> r.id, ver |-> value]
Status(r) == [type |-> "status", id |-> r.id, ver |-> value]
Ack(r) == [type |-> "ack", id |-> r.id, ver |-> 0]

(* What continues when a call is answered: applySubscribeResult; the rest  *)
(* of getChargePoint; and what the view does with the result of that.      *)
Task == [does : {"apply", "fetch", "show"}, id : Nat, ver : Versions]

Newest(a, b) == IF a < b THEN b ELSE a

(* No microtask of the client is left.                                     *)
Idle == tasks = <<>>

Init ==
  /\ value = 0 /\ joined = FALSE /\ working = <<>>
  /\ link = "connecting" /\ known = FALSE /\ up = <<>> /\ down = <<>>
  /\ handlers = {} /\ ready = FALSE /\ queued = <<>>
  /\ asked = [v \in Views |-> 0]
  /\ heard = [v \in Views |-> None] /\ top = [v \in Views |-> None]
  /\ pending = {} /\ timers = {} /\ calls = 0
  /\ tasks = <<>> /\ draining = FALSE /\ cache = None
  /\ past = {} /\ drops = 0 /\ failures = 0

-----------------------------------------------------------------------------
(* The daemon.                                                             *)

(* Something changes the charge point: its room is told.                   *)
Change ==
  /\ value < MaxChanges
  /\ value' = value + 1
  /\ down' = IF joined THEN Append(down, Event(value + 1)) ELSE down
  /\ UNCHANGED <<joined, working, link, known, up, entry, views, rpcs, micro,
                 past, drops, failures>>

(* The daemon takes the next request: a subscription joins the room and    *)
(* captures the snapshot without a pause, the answer goes out later.       *)
Joins(r) == r.kind = "subscribe" \/ (r.kind = "query" /\ joined)
Answer(r) == CASE r.kind = "subscribe" -> Snapshot(r)
               [] r.kind = "query" -> Status(r)
               [] OTHER -> Ack(r)
Take ==
  /\ link = "up" /\ up # <<>>
  /\ joined' = Joins(Head(up))
  /\ working' = Append(working, Answer(Head(up)))
  /\ up' = Tail(up)
  /\ UNCHANGED <<value, link, known, down, entry, views, rpcs, micro, past, drops,
                 failures>>

(* The request is over the rate or the number in flight, or names a charge *)
(* point the daemon does not have: it is answered with an error.           *)
Refuse ==
  /\ link = "up" /\ up # <<>> /\ failures < MaxFailures
  /\ working' = Append(working, Ack(Head(up)))
  /\ up' = Tail(up)
  /\ past' = past \union {IF Head(up).kind = "query" THEN "unanswered"
                           ELSE "refused"}
  /\ failures' = failures + 1
  /\ UNCHANGED <<value, joined, link, known, down, entry, views, rpcs, micro, drops>>

Reply ==
  /\ working # <<>>
  /\ down' = Append(down, Head(working))
  /\ working' = Tail(working)
  /\ UNCHANGED <<value, joined, link, known, up, entry, views, rpcs, micro, past,
                 drops, failures>>

-----------------------------------------------------------------------------
(* Calls and what the views do.                                            *)

(* The n-th call from now, and the calls made in their order.              *)
Asked(kind, n) == [id |-> calls + n, kind |-> kind]
Make(reqs) ==
  /\ up' = up \o reqs
  /\ pending' = pending \union (calls + 1)..(calls + Len(reqs))
  /\ timers' = timers \union (calls + 1)..(calls + Len(reqs))
  /\ calls' = calls + Len(reqs)

(* The views in S are told: last, and at the newest top.                   *)
Told(S, last, newest) ==
  /\ heard' = [v \in Views |-> IF v \in S THEN last ELSE heard[v]]
  /\ top' = [v \in Views |-> IF v \in S THEN Newest(top[v], newest) ELSE top[v]]

(* A view asks for the charge point and subscribes; the first to do so     *)
(* makes the entry.  One that finds the entry ready is told the cached     *)
(* snapshot, by a microtask that no other step of the client precedes.     *)
FirstView == <<Asked("query", 1), Asked("subscribe", 2)>>
NextView_Unasked == <<>>
NextView == <<Asked("query", 1)>>
ToldCached(v) ==
  IF ready /\ cache # None THEN Told({v}, cache, cache)
  ELSE UNCHANGED <<heard, top>>
Mount(v) ==
  /\ Idle /\ v \notin handlers /\ calls < MaxCalls
  /\ Make(IF handlers = {} THEN FirstView ELSE NextView)
  /\ handlers' = handlers \union {v}
  /\ asked' = [asked EXCEPT ![v] = calls + 1]
  /\ ToldCached(v)
  /\ UNCHANGED <<daemon, link, known, down, ready, queued, micro, past, drops,
                 failures>>

(* A view that leaves ignores the answer to its question.  The last one to *)
(* leave drops the entry and leaves the room.                              *)
LastView_Silent == <<>>
LastView == <<Asked("unsubscribe", 1)>>
Unmount(v) ==
  /\ Idle /\ v \in handlers
  /\ handlers' = handlers \ {v}
  /\ asked' = [asked EXCEPT ![v] = 0]
  /\ heard' = [heard EXCEPT ![v] = None] /\ top' = [top EXCEPT ![v] = None]
  /\ IF handlers = {v}
       THEN /\ Make(LastView)
            /\ ready' = FALSE /\ queued' = <<>>
            /\ past' = past \union {"left"}
       ELSE UNCHANGED <<up, rpcs, ready, queued, past>>
  /\ UNCHANGED <<daemon, link, known, down, micro, drops, failures>>

(* The oldest time limit expires: every call that waits is rejected.  A    *)
(* call that is not sent leaves the buffer, where the oldest comes first.  *)
(* Reaching "up" from "open" takes a round trip, far less than the limit.  *)
Oldest(id) == id \in timers /\ \A other \in timers : id <= other
Expire ==
  /\ Idle /\ failures < MaxFailures
  /\ \E id \in timers :
       /\ Oldest(id)
       /\ timers' = timers \ {id}
       /\ \/ link = "up" /\ UNCHANGED up
          \/ link = "down" /\ up # <<>> /\ Head(up).id = id /\ up' = Tail(up)
  /\ pending' = {}
  /\ past' = past \union {"lapsed"}
  /\ failures' = failures + 1
  /\ UNCHANGED <<daemon, link, known, down, entry, views, calls, micro, drops>>

-----------------------------------------------------------------------------
(* The client's packets and the microtasks they leave.                     *)

(* handleEnvelope: without an entry the event is ignored, and queued while *)
(* the entry is not ready.                                                 *)
HandleEvent_Early(n) ==
  /\ Told(handlers, n, n)
  /\ UNCHANGED <<queued, rpcs, tasks>>
HandleEvent(n) ==
  /\ IF ready THEN Told(handlers, n, n) /\ UNCHANGED queued
     ELSE /\ queued' = IF handlers = {} THEN queued ELSE Append(queued, n)
          /\ UNCHANGED <<heard, top>>
  /\ UNCHANGED <<rpcs, tasks>>

(* An answer settles its call, unless the call was rejected before.        *)
Continues(p) ==
  [does |-> IF p.type = "snapshot" THEN "apply" ELSE "fetch",
   id |-> p.id, ver |-> p.ver]
HandleAnswer_Unapplied(p) ==
  /\ timers' = timers \ {p.id}
  /\ pending' = pending \ {p.id}
  /\ UNCHANGED <<tasks, calls, queued, heard, top>>
HandleAnswer(p) ==
  /\ timers' = timers \ {p.id}
  /\ pending' = pending \ {p.id}
  /\ tasks' = IF p.type # "ack" /\ p.id \in pending
                THEN Append(tasks, Continues(p)) ELSE tasks
  /\ UNCHANGED <<calls, queued, heard, top>>

Receive ==
  /\ ~draining /\ down # <<>>
  /\ down' = Tail(down)
  /\ IF Head(down).type = "event" THEN HandleEvent(Head(down).ver)
     ELSE HandleAnswer(Head(down))
  /\ UNCHANGED <<daemon, link, known, up, handlers, ready, asked, draining,
                 cache, past, drops, failures>>

(* The next microtask, and those it leaves.                                *)
Continue(does, then) ==
  /\ tasks # <<>> /\ Head(tasks).does = does
  /\ tasks' = Tail(tasks) \o then
  /\ draining' = (tasks' # <<>>)
  /\ UNCHANGED <<daemon, wire, handlers, asked, rpcs, past, drops, failures>>

(* applySubscribeResult: the snapshot is kept, and the handlers are told   *)
(* it, then the events queued before it.                                   *)
LastOf(s, n) == IF s = <<>> THEN n ELSE s[Len(s)]
Apply ==
  /\ Continue("apply", <<>>)
  /\ cache' = Head(tasks).ver
  /\ IF handlers = {} THEN UNCHANGED <<ready, queued, heard, top>>
     ELSE LET last == LastOf(queued, Head(tasks).ver)
          IN  /\ ready' = TRUE
              /\ Told(handlers, last, Newest(Head(tasks).ver, last))
              /\ queued' = <<>>

(* getChargePoint: the snapshot is kept, and the view continues with it in *)
(* a microtask of its own, behind those that wait.                         *)
Fetch ==
  /\ Continue("fetch", <<[Head(tasks) EXCEPT !.does = "show"]>>)
  /\ cache' = Head(tasks).ver
  /\ UNCHANGED <<ready, queued, heard, top>>

(* applySnapshot of the view that asked, if it is still there.             *)
Asking(id) == {v \in handlers : asked[v] = id}
Show ==
  /\ Continue("show", <<>>)
  /\ Told(Asking(Head(tasks).id), Head(tasks).ver, Head(tasks).ver)
  /\ UNCHANGED <<cache, ready, queued>>

-----------------------------------------------------------------------------
(* The connection.                                                         *)

(* resyncAfterReconnect: the entry is subscribed again.                    *)
NotReady == ready' = FALSE /\ queued' = <<>>
Again == IF handlers = {} THEN <<>> ELSE <<Asked("subscribe", 1)>>
Resync == NotReady /\ Make(Again)

(* The first attempt succeeds: what was buffered goes out.                 *)
FirstConnect ==
  /\ Idle /\ link = "connecting"
  /\ link' = "up" /\ known' = TRUE
  /\ UNCHANGED <<daemon, up, down, entry, views, rpcs, micro, past, drops,
                 failures>>

FirstFails ==
  /\ Idle /\ link = "connecting" /\ drops < MaxDrops
  /\ link' = "down" /\ drops' = drops + 1
  /\ UNCHANGED <<daemon, known, up, down, entry, views, rpcs, micro, past,
                 failures>>

(* The connection is lost with all that is under way; the daemon forgets   *)
(* the rooms of the socket.  The buffer and its time limits stay.          *)
Disconnect ==
  /\ Idle /\ link \in {"open", "up"} /\ drops < MaxDrops
  /\ link' = "down" /\ drops' = drops + 1
  /\ joined' = FALSE /\ working' = <<>> /\ down' = <<>>
  /\ IF link = "up" THEN up' = <<>> /\ timers' = {}
     ELSE UNCHANGED <<up, timers>>
  /\ pending' = {}
  /\ NotReady
  /\ UNCHANGED <<value, known, handlers, views, calls, micro, past, failures>>

(* "reconnect" of the manager: a first resync, into the buffer.  What    *)
(* happened before is past, unless it left calls in the buffer.            *)
ManagerReconnect ==
  /\ Idle /\ link = "down"
  /\ link' = "open"
  /\ Resync
  /\ past' = IF up = <<>> THEN {} ELSE past
  /\ UNCHANGED <<daemon, known, down, handlers, views, micro, drops,
                 failures>>

(* "connect" of the socket: the buffer goes out, and a second resync.      *)
SocketConnect ==
  /\ Idle /\ link = "open"
  /\ link' = "up" /\ known' = TRUE
  /\ IF known THEN Resync ELSE UNCHANGED <<up, rpcs, ready, queued>>
  /\ UNCHANGED <<daemon, down, handlers, views, micro, past, drops,
                 failures>>

-----------------------------------------------------------------------------
Next ==
  \/ Change \/ Take \/ Refuse \/ Reply
  \/ \E v \in Views : Mount(v) \/ Unmount(v)
  \/ Expire \/ Receive \/ Apply \/ Fetch \/ Show
  \/ FirstConnect \/ FirstFails \/ Disconnect
  \/ ManagerReconnect \/ SocketConnect

(* The daemon serves; what it sends arrives, and the client runs its       *)
(* microtasks; socket.io keeps trying to connect.                          *)
Fairness ==
  /\ WF_vars(Take \/ Reply)
  /\ WF_vars(Receive \/ Apply \/ Fetch \/ Show)
  /\ WF_vars(FirstConnect \/ ManagerReconnect \/ SocketConnect)

Spec == Init /\ [][Next]_vars
FairSpec == Spec /\ Fairness

-----------------------------------------------------------------------------
(* Properties.                                                             *)

TypeOK ==
  /\ value \in Versions /\ joined \in BOOLEAN
  /\ working \in Seq(Packet) /\ down \in Seq(Packet) /\ up \in Seq(Request)
  /\ link \in Links /\ known \in BOOLEAN
  /\ handlers \subseteq Views /\ ready \in BOOLEAN
  /\ queued \in Seq(Versions) /\ tasks \in Seq(Task)
  /\ cache \in Versions \union {None} /\ asked \in [Views -> Nat]
  /\ heard \in [Views -> Versions \union {None}]
  /\ top \in [Views -> Versions \union {None}]
  /\ pending \subseteq Nat /\ timers \subseteq Nat /\ calls \in Nat
  /\ draining \in BOOLEAN
  /\ past \subseteq Marks
  /\ drops \in 0..MaxDrops /\ failures \in 0..MaxFailures

(* The room follows the views: when the requests under way have been taken *)
(* the daemon has the socket in the room exactly if some view is           *)
(* subscribed.  Neither leaving and coming back, nor subscribing without a *)
(* connection, nor a reconnection may leave a view without events or a     *)
(* socket in a room nobody watches, unless the daemon refused a request    *)
(* (subscribe :1297-1328, resyncAfterReconnect :1610-1634).                *)
Watched == handlers # {}
LastRoom(s, i) ==
  s[i].kind # "query" /\ \A j \in DOMAIN s : j > i => s[j].kind = "query"
NoRoom(s) == \A i \in DOMAIN s : s[i].kind = "query"
LeadsTo(s, in, wanted) ==
  /\ \A i \in DOMAIN s : LastRoom(s, i) => (s[i].kind = "subscribe" <=> wanted)
  /\ NoRoom(s) => (in <=> wanted)
RoomFollows ==
  link # "down" /\ "refused" \notin past => LeadsTo(up, joined, Watched)

(* No change is missed: once nothing is under way and the entry is ready,  *)
(* each view has been told the newest version, on every path by which the  *)
(* snapshots and the events reach it: the entry, queued or not             *)
(* (handleEnvelope, flushCpQueue), and its own question, which is all that *)
(* makes up for the cached snapshot told to a view that joins late         *)
(* (subscribe :1311-1317), unless a call was refused or timed out.         *)
Sound == past \cap Failures = {}
Settled == up = <<>> /\ working = <<>> /\ down = <<>> /\ tasks = <<>>
NothingMissed ==
  link = "up" /\ ready /\ Settled /\ past \subseteq {"left"} =>
    \A v \in handlers : top[v] = value

(* What a view is told goes back to an older version only when a second    *)
(* snapshot is applied to an entry that is ready already, or the answer to *)
(* the view's own question is shown, which an event or a snapshot may have *)
(* overtaken.  An event never does it, nor does the snapshot that makes    *)
(* the entry ready, even after the answer to a question, nor the events    *)
(* queued before it, whatever was queued or under way when the connection  *)
(* broke.  This is for a connection on which the room was never left (an   *)
(* event of the stay before is queued for the entry that follows, and told *)
(* after a newer snapshot) and no subscription failed.                     *)
Runs(does) ==
  tasks # <<>> /\ Head(tasks).does = does /\ Len(tasks') < Len(tasks)
GoesBack(v) ==
  \/ heard'[v] < heard[v]
  \/ Runs("apply") /\ heard'[v] < Head(tasks).ver
OnlySnapshotsGoBack ==
  [][\A v \in handlers \cap handlers' : GoesBack(v) =>
       \/ past \ {"unanswered"} # {}
       \/ ready /\ Runs("apply")
       \/ Runs("show")]_vars

(* A view that is not told events comes to be: its entry becomes ready,    *)
(* through any reconnection, unless it leaves or a call is refused or      *)
(* times out.  Without such a failure no subscription is forgotten.        *)
GetsReady == (Watched /\ ~ready) ~> (ready \/ ~Watched \/ ~Sound)
=============================================================================
