------------------------ MODULE ConnectionLifecycle ------------------------
(***************************************************************************)
(* The WebSocket of a charge point and its reconnection (OCPPWebSocket.ts),*)
(* with the connect, disconnect and hard reset of ChargePoint.ts on top.   *)
(*                                                                         *)
(* The code keeps one reference, _ws, but several sockets can be alive:    *)
(* disconnect() drops the reference before the close event, and connect()  *)
(* overwrites it.  Every socket keeps its callbacks, which do not look     *)
(* whether it is still the current one.                                    *)
(*                                                                         *)
(* A socket here is a slot that is used again once closed.  The delay of   *)
(* a reconnection is not modelled, only that its timer fires; of the status*)
(* of the charge point, not what ChangeAvailability does to it.            *)
(*                                                                         *)
(* A definition F_Word is F with a plausible bug.                          *)
(***************************************************************************)
EXTENDS Integers

CONSTANT Sockets  \* bound: sockets alive at a time

ASSUME SocketsAssumption == Sockets \subseteq Nat \ {0}

VARIABLES
  sock,      \* per socket, "closed", "connecting", "open" or "closing"
  ws,        \* _ws: the current socket, or Null
  manual,    \* _isManualDisconnect
  timer,     \* _reconnectTimer is armed
  booting,   \* sockets a BootNotification.req is outstanding on
  available, \* _status is Available: boot accepted, not torn down since
  wanted,    \* history: the last command was a connect or a reset
  accepted,  \* history: sockets a boot was accepted on
  raced      \* history: a connect came before the close event of an earlier
             \* socket, or while a reconnection was pending

vars == <<sock, ws, manual, timer, booting, available, wanted, accepted, raced>>

-----------------------------------------------------------------------------
Null == 0
Alive == {s \in Sockets : sock[s] \in {"connecting", "open"}}
Closing == {s \in Sockets : sock[s] = "closing"}

Init ==
  /\ sock = [s \in Sockets |-> "closed"]
  /\ ws = Null
  /\ manual = FALSE
  /\ timer = FALSE
  /\ booting = {}
  /\ available = FALSE
  /\ wanted = FALSE
  /\ accepted = {}
  /\ raced = FALSE

(* OCPPWebSocket.connect: a new socket becomes the current one.            *)
Open(states) ==
  \E s \in Sockets :
    /\ states[s] = "closed"
    /\ sock' = [states EXCEPT ![s] = "connecting"]
    /\ ws' = s
    /\ manual' = FALSE
    /\ booting' = booting \ {s}
    /\ accepted' = accepted \ {s}

(* OCPPWebSocket.disconnect closes the current socket and forgets it.      *)
ClosedCurrent ==
  [s \in Sockets |-> IF s = ws /\ sock[s] # "closed" THEN "closing" ELSE sock[s]]

(* ChargePoint.connect, a no-op while the current socket is alive.         *)
IsOpenOrConnecting_OpenOnly == ws # Null /\ sock[ws] = "open"

IsOpenOrConnecting == ws # Null /\ sock[ws] \in {"connecting", "open"}

Connect ==
  /\ ~IsOpenOrConnecting
  /\ Open(sock)
  /\ wanted' = TRUE
  /\ raced' = (raced \/ timer \/ Closing # {})
  /\ UNCHANGED <<timer, available>>

(* ChargePoint.disconnect: teardown, then the socket.                      *)
Disconnect ==
  /\ manual' = TRUE
  /\ timer' = FALSE
  /\ sock' = ClosedCurrent
  /\ ws' = Null
  /\ available' = FALSE
  /\ wanted' = FALSE
  /\ UNCHANGED <<booting, accepted, raced>>

(* ChargePoint.reset, by the operator or a hard Reset.req: disconnect() and*)
(* connect() without a pause.                                              *)
HardReset ==
  /\ timer' = FALSE
  /\ available' = FALSE
  /\ Open(ClosedCurrent)
  /\ wanted' = TRUE
  /\ raced' = (raced \/ \E s \in Sockets : ClosedCurrent[s] = "closing")

(* onopen calls boot(), which sends on the current socket.                 *)
SocketOpens(s) ==
  /\ sock[s] = "connecting"
  /\ sock' = [sock EXCEPT ![s] = "open"]
  /\ booting' = booting \cup {r \in {ws} \ {Null} : sock'[r] = "open"}
  /\ UNCHANGED <<ws, manual, timer, available, wanted, accepted, raced>>

(* BootNotification.conf: accepted, the charge point becomes Available;    *)
(* otherwise it keeps its status.                                          *)
BootAccepted(s) ==
  /\ sock[s] = "open"
  /\ s \in booting
  /\ booting' = booting \ {s}
  /\ accepted' = accepted \cup {s}
  /\ available' = TRUE
  /\ UNCHANGED <<sock, ws, manual, timer, wanted, raced>>

BootRefused(s) ==
  /\ sock[s] = "open"
  /\ s \in booting
  /\ booting' = booting \ {s}
  /\ UNCHANGED <<sock, ws, manual, timer, available, wanted, accepted, raced>>

(* boot() again, by a soft Reset.req, a TriggerMessage.req or the retry    *)
(* after a rejection: its CALL is dropped unless the socket is open.       *)
BootAgain ==
  /\ ws # Null
  /\ sock[ws] = "open"
  /\ booting' = booting \cup {ws}
  /\ UNCHANGED <<sock, ws, manual, timer, available, wanted, accepted, raced>>

CsmsCloses(s) ==
  /\ sock[s] = "open"
  /\ sock' = [sock EXCEPT ![s] = "closing"]
  /\ UNCHANGED <<ws, manual, timer, booting, available, wanted, accepted, raced>>

(* onclose of any socket: reconnect unless disconnected by hand, teardown. *)
WillReconnect_OnlyOpened(s) == ~manual /\ sock[s] # "connecting"
WillReconnect_Always(s) == TRUE
WillReconnect(s) == ~manual

SocketClosed(s) ==
  /\ sock[s] # "closed"
  /\ sock' = [sock EXCEPT ![s] = "closed"]
  /\ timer' = (timer \/ WillReconnect(s))
  /\ available' = FALSE
  /\ booting' = booting \ {s}
  /\ accepted' = accepted \ {s}
  /\ UNCHANGED <<ws, manual, wanted, raced>>

CloseEvent(s) == sock[s] = "closing" /\ SocketClosed(s)

(* The timer opens a socket without looking at the current one.            *)
ReconnectFires ==
  /\ timer
  /\ timer' = FALSE
  /\ Open(sock)
  /\ UNCHANGED <<available, wanted, raced>>

Next ==
  \/ Connect \/ Disconnect \/ HardReset
  \/ \E s \in Sockets : \/ SocketOpens(s) \/ BootAccepted(s) \/ BootRefused(s)
                        \/ CsmsCloses(s) \/ SocketClosed(s)
  \/ BootAgain \/ ReconnectFires

Spec == Init /\ [][Next]_vars

(* The armed timer fires, and a closing socket has its close event: the    *)
(* WebSocket library gives up on the handshake in the end.                 *)
Fairness ==
  /\ WF_vars(ReconnectFires)
  /\ \A s \in Sockets : WF_vars(CloseEvent(s))

FairSpec == Spec /\ Fairness

-----------------------------------------------------------------------------
TypeOK ==
  /\ sock \in [Sockets -> {"closed", "connecting", "open", "closing"}]
  /\ ws \in Sockets \cup {Null}
  /\ manual \in BOOLEAN
  /\ timer \in BOOLEAN
  /\ booting \subseteq Sockets
  /\ available \in BOOLEAN
  /\ wanted \in BOOLEAN
  /\ accepted \subseteq Sockets
  /\ raced \in BOOLEAN

(* A connection somebody asked for is never given up: something is alive,  *)
(* closing, or due to reconnect, through resets, failures and orphans.     *)
NeverAbandoned == wanted => timer \/ Alive # {} \/ Closing # {}

(* After disconnect() no socket comes alive until somebody asks, whatever  *)
(* close events and timers of earlier sockets are still to come.           *)
DisconnectSticks == [][~wanted /\ ~wanted' => Alive' \subseteq Alive]_vars

(* Without a race at most one socket is alive, the current one, and the    *)
(* charge point is Available exactly while it serves an accepted boot: no  *)
(* teardown of another socket makes it Unavailable.                        *)
CalmIsSingle ==
  ~raced =>
    /\ Alive \subseteq {ws}
    /\ available <=> ws \in accepted /\ sock[ws] \in {"open", "closing"}

(* A wanted connection is attempted again after every loss.                *)
Recovers == wanted /\ Alive = {} ~> Alive # {} \/ ~wanted

-----------------------------------------------------------------------------
(* The inductive invariant.                                                *)
AllClosed == \A s \in Sockets : sock[s] = "closed"

(* What the flag and the reference say of the last command.                *)
Intent ==
  /\ wanted => ~manual
  /\ ~wanted => ~timer /\ (manual \/ AllClosed)
  /\ ws = Null => manual \/ AllClosed

AcceptedServed == \A s \in accepted : sock[s] \in {"open", "closing"}

(* Without a race a reconnection waits for the last socket to be gone.     *)
CalmIsQuiet ==
  ~raced =>
    /\ timer => AllClosed
    /\ ws # Null => Closing \subseteq {ws}

InductiveInv ==
  /\ TypeOK /\ NeverAbandoned /\ CalmIsSingle
  /\ Intent /\ AcceptedServed /\ CalmIsQuiet
=============================================================================
