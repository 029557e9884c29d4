---------------------- MODULE ConnectionLifecycleProofs ----------------------
(***************************************************************************)
(* What TLAPS proves of ConnectionLifecycle, for any set of sockets: a     *)
(* wanted connection is never given up, a disconnect sticks, and without a *)
(* race there is a single socket, whose service nobody else ends.          *)
(***************************************************************************)
EXTENDS ConnectionLifecycle, TLAPS

(* Init establishes the invariant.                                         *)
LEMMA InitInductive == Init => InductiveInv
  BY SocketsAssumption
  DEF Init, InductiveInv, TypeOK, NeverAbandoned, CalmIsSingle, Intent,
      AcceptedServed, CalmIsQuiet, AllClosed, Alive, Closing, Null

(* Every step keeps the types.                                             *)
LEMMA StepTypes == TypeOK /\ [Next]_vars => TypeOK'
<1> SUFFICES ASSUME TypeOK, [Next]_vars PROVE TypeOK'
  OBVIOUS
<1> USE DEF TypeOK
<1>1. CASE Connect
  BY <1>1 DEF Connect, Open
<1>2. CASE Disconnect
  BY <1>2 DEF Disconnect, ClosedCurrent
<1>3. CASE HardReset
  <2>1. ClosedCurrent \in [Sockets -> {"closed", "connecting", "open", "closing"}]
    BY DEF ClosedCurrent
  <2> QED
    BY <1>3, <2>1 DEF HardReset, Open
<1>4. ASSUME NEW s \in Sockets, SocketOpens(s) PROVE TypeOK'
  <2>1. {r \in {ws} \ {Null} : sock'[r] = "open"} \subseteq Sockets
    OBVIOUS
  <2> QED
    BY <1>4, <2>1 DEF SocketOpens
<1>5. ASSUME NEW s \in Sockets, BootAccepted(s) PROVE TypeOK'
  BY <1>5 DEF BootAccepted
<1>6. ASSUME NEW s \in Sockets, CsmsCloses(s) PROVE TypeOK'
  BY <1>6 DEF CsmsCloses
<1>7. ASSUME NEW s \in Sockets, SocketClosed(s) PROVE TypeOK'
  BY <1>7 DEF SocketClosed, WillReconnect
<1>8. CASE ReconnectFires
  BY <1>8 DEF ReconnectFires, Open
<1>9. ASSUME NEW s \in Sockets, BootRefused(s) PROVE TypeOK'
  BY <1>9 DEF BootRefused
<1>10. CASE BootAgain
  BY <1>10, SocketsAssumption DEF BootAgain
<1>11. CASE UNCHANGED vars
  BY <1>11 DEF vars
<1> QED
  BY <1>1, <1>2, <1>3, <1>4, <1>5, <1>6, <1>7, <1>8, <1>9, <1>10, <1>11 DEF Next

(* A new socket on top of sockets that are all closed or closing restores  *)
(* the invariant, if it is wanted and, without a race, alone.              *)
LEMMA OpenInductive ==
  ASSUME TypeOK, TypeOK', wanted', NEW states,
         states \in [Sockets -> {"closed", "connecting", "open", "closing"}],
         Open(states),
         \A s \in accepted : states[s] \in {"open", "closing"},
         ~raced' => /\ \A s \in Sockets : states[s] = "closed"
                    /\ ~timer' /\ ~available'
  PROVE  InductiveInv'
<1>1. PICK s \in Sockets :
        /\ states[s] = "closed"
        /\ sock' = [states EXCEPT ![s] = "connecting"]
        /\ ws' = s
        /\ manual' = FALSE
        /\ accepted' = accepted \ {s}
  BY DEF Open
<1>2. /\ sock'[s] = "connecting"
      /\ \A r \in Sockets : r # s => sock'[r] = states[r]
  BY <1>1
<1>3. s # Null
  BY SocketsAssumption DEF Null
<1>4. NeverAbandoned'
  BY <1>2 DEF NeverAbandoned, Alive
<1>5. Intent'
  BY <1>1, <1>3 DEF Intent
<1>6. AcceptedServed'
  BY <1>1, <1>2 DEF AcceptedServed, TypeOK
<1>7. CASE raced'
  BY <1>4, <1>5, <1>6, <1>7 DEF InductiveInv, CalmIsSingle, CalmIsQuiet
<1>8. CASE ~raced'
  <2>1. Alive' = {s} /\ Closing' = {}
    BY <1>2, <1>8 DEF Alive, Closing
  <2>2. CalmIsSingle' /\ CalmIsQuiet'
    BY <1>1, <1>8, <2>1 DEF CalmIsSingle, CalmIsQuiet
  <2> QED
    BY <1>4, <1>5, <1>6, <2>2 DEF InductiveInv
<1> QED
  BY <1>7, <1>8

(* The three ways a socket becomes the current one keep the invariant.     *)
LEMMA OpeningInductive ==
  ASSUME InductiveInv, TypeOK', Connect \/ HardReset \/ ReconnectFires
  PROVE  InductiveInv'
<1> USE DEF InductiveInv
<1>0. ClosedCurrent \in [Sockets -> {"closed", "connecting", "open", "closing"}]
  BY DEF ClosedCurrent, TypeOK
<1>1. CASE Connect
  <2>1. ASSUME ~raced' PROVE AllClosed /\ ~timer /\ ~available
    <3>1. ~IsOpenOrConnecting /\ ~raced /\ ~timer /\ Closing = {}
      BY <1>1, <2>1 DEF Connect
    <3>2. Alive \subseteq {ws}
      BY <3>1 DEF CalmIsSingle
    <3>3. Alive = {}
      BY <3>1, <3>2, SocketsAssumption DEF Alive, IsOpenOrConnecting, Null
    <3>4. AllClosed
      BY <3>1, <3>3 DEF AllClosed, Alive, Closing, TypeOK
    <3> QED
      BY <3>1, <3>4 DEF AllClosed, CalmIsSingle, TypeOK
  <2>2. Open(sock) /\ wanted' /\ timer' = timer /\ available' = available
    BY <1>1 DEF Connect
  <2> QED
    BY <2>1, <2>2, OpenInductive DEF AllClosed, AcceptedServed, TypeOK
<1>2. CASE HardReset
  <2>1. ASSUME ~raced' PROVE \A s \in Sockets : ClosedCurrent[s] = "closed"
    <3>1. Alive \subseteq {ws} /\ \A s \in Sockets : ClosedCurrent[s] # "closing"
      BY <1>2, <2>1 DEF HardReset, CalmIsSingle
    <3> QED
      BY <3>1 DEF ClosedCurrent, Alive, TypeOK
  <2>2. \A s \in accepted : ClosedCurrent[s] \in {"open", "closing"}
    BY DEF ClosedCurrent, AcceptedServed, TypeOK
  <2>3. Open(ClosedCurrent) /\ wanted' /\ ~timer' /\ ~available'
    BY <1>2 DEF HardReset
  <2> QED
    BY <1>0, <2>1, <2>2, <2>3, OpenInductive
<1>3. CASE ReconnectFires
  <2>1. wanted /\ timer
    BY <1>3 DEF ReconnectFires, Intent
  <2>2. ASSUME ~raced' PROVE AllClosed /\ ~available
    <3>1. ~raced /\ AllClosed
      BY <1>3, <2>1, <2>2 DEF ReconnectFires, CalmIsQuiet
    <3> QED
      BY <3>1 DEF AllClosed, CalmIsSingle, TypeOK
  <2>3. Open(sock) /\ wanted' /\ ~timer' /\ available' = available
    BY <1>3, <2>1 DEF ReconnectFires
  <2> QED
    BY <2>2, <2>3, OpenInductive DEF AllClosed, AcceptedServed, TypeOK
<1> QED
  BY <1>1, <1>2, <1>3

(* The current socket is forgotten, its close event still to come.         *)
LEMMA DisconnectInductive ==
  ASSUME InductiveInv, TypeOK', Disconnect
  PROVE  InductiveInv'
<1> USE DEF InductiveInv, Disconnect
<1>1. sock' = ClosedCurrent /\ accepted' = accepted /\ raced' = raced
  OBVIOUS
<1>2. NeverAbandoned' /\ Intent'
  BY DEF NeverAbandoned, Intent
<1>3. AcceptedServed'
  BY <1>1 DEF AcceptedServed, ClosedCurrent, TypeOK
<1>4. CalmIsSingle'
  <2>1. ASSUME ~raced PROVE Alive' = {}
    BY <1>1, <2>1 DEF CalmIsSingle, Alive, ClosedCurrent, TypeOK
  <2> QED
    BY <2>1, SocketsAssumption DEF CalmIsSingle, TypeOK, Null
<1>5. CalmIsQuiet'
  BY DEF CalmIsQuiet
<1> QED
  BY <1>2, <1>3, <1>4, <1>5

(* What a socket does while it lives.                                      *)
LEMMA LivingInductive ==
  ASSUME InductiveInv, TypeOK', NEW s \in Sockets,
         SocketOpens(s) \/ BootAccepted(s) \/ CsmsCloses(s)
  PROVE  InductiveInv'
<1> USE DEF InductiveInv
<1>1. CASE SocketOpens(s)
  <2>1. /\ sock[s] = "connecting" /\ sock'[s] = "open"
        /\ \A r \in Sockets : r # s => sock'[r] = sock[r]
        /\ UNCHANGED <<ws, manual, timer, available, wanted, accepted, raced>>
    BY <1>1 DEF SocketOpens, TypeOK
  <2>2. Alive' = Alive /\ Closing' = Closing /\ ~AllClosed /\ s \notin accepted
    BY <2>1 DEF Alive, Closing, AllClosed, AcceptedServed
  <2>3. NeverAbandoned' /\ Intent' /\ CalmIsQuiet'
    BY <2>1, <2>2 DEF NeverAbandoned, Intent, CalmIsQuiet
  <2>4. AcceptedServed'
    BY <2>1, <2>2 DEF AcceptedServed, TypeOK
  <2>5. CalmIsSingle'
    BY <2>1, <2>2 DEF CalmIsSingle, TypeOK
  <2> QED
    BY <2>3, <2>4, <2>5
<1>2. CASE BootAccepted(s)
  <2>1. /\ sock[s] = "open" /\ accepted' = accepted \cup {s} /\ available'
        /\ UNCHANGED <<sock, ws, manual, timer, wanted, raced>>
    BY <1>2 DEF BootAccepted
  <2>2. Alive' = Alive /\ Closing' = Closing /\ AllClosed' = AllClosed
    BY <2>1 DEF Alive, Closing, AllClosed
  <2>3. NeverAbandoned' /\ Intent' /\ CalmIsQuiet'
    BY <2>1, <2>2 DEF NeverAbandoned, Intent, CalmIsQuiet
  <2>4. AcceptedServed'
    BY <2>1 DEF AcceptedServed
  <2>5. ~raced => s = ws
    BY <2>1 DEF CalmIsSingle, Alive
  <2>6. CalmIsSingle'
    BY <2>1, <2>2, <2>5 DEF CalmIsSingle
  <2> QED
    BY <2>3, <2>4, <2>6
<1>3. CASE CsmsCloses(s)
  <2>1. /\ sock[s] = "open" /\ sock'[s] = "closing"
        /\ \A r \in Sockets : r # s => sock'[r] = sock[r]
        /\ UNCHANGED <<ws, manual, timer, available, wanted, accepted, raced>>
    BY <1>3 DEF CsmsCloses, TypeOK
  <2>2. /\ Alive' = Alive \ {s} /\ Closing' = Closing \cup {s}
        /\ ~AllClosed /\ (~raced => s = ws)
    BY <2>1 DEF Alive, Closing, AllClosed, CalmIsSingle
  <2>3. NeverAbandoned' /\ Intent' /\ CalmIsQuiet'
    BY <2>1, <2>2 DEF NeverAbandoned, Intent, CalmIsQuiet
  <2>4. AcceptedServed'
    BY <2>1 DEF AcceptedServed, TypeOK
  <2>5. CalmIsSingle'
    BY <2>1, <2>2 DEF CalmIsSingle, TypeOK
  <2> QED
    BY <2>3, <2>4, <2>5
<1> QED
  BY <1>1, <1>2, <1>3

(* A boot that is refused or repeated changes nothing the invariant reads. *)
LEMMA RebootInductive ==
  ASSUME InductiveInv, TypeOK',
         UNCHANGED <<sock, ws, manual, timer, available, wanted, accepted, raced>>
  PROVE  InductiveInv'
<1>1. Alive' = Alive /\ Closing' = Closing /\ AllClosed' = AllClosed
  BY DEF Alive, Closing, AllClosed
<1> QED
  BY <1>1 DEF InductiveInv, NeverAbandoned, CalmIsSingle, Intent, AcceptedServed,
              CalmIsQuiet

(* The close event: without a race it is the current socket that closes.   *)
LEMMA ClosedInductive ==
  ASSUME InductiveInv, TypeOK', NEW s \in Sockets, SocketClosed(s)
  PROVE  InductiveInv'
<1> USE DEF InductiveInv
<1>1. /\ sock[s] # "closed" /\ sock'[s] = "closed"
      /\ \A r \in Sockets : r # s => sock'[r] = sock[r]
      /\ timer' = (timer \/ ~manual) /\ ~available' /\ accepted' = accepted \ {s}
      /\ UNCHANGED <<ws, manual, wanted, raced>>
  BY DEF SocketClosed, WillReconnect, TypeOK
<1>2. Alive' = Alive \ {s} /\ s \in Alive \cup Closing /\ ~AllClosed
  BY <1>1 DEF Alive, Closing, AllClosed, TypeOK
<1>3. NeverAbandoned' /\ Intent'
  BY <1>1, <1>2 DEF NeverAbandoned, Intent
<1>4. AcceptedServed'
  BY <1>1 DEF AcceptedServed, TypeOK
<1>5. ~raced /\ ws # Null => s = ws
  BY <1>2 DEF CalmIsSingle, CalmIsQuiet
<1>6. CalmIsSingle'
  <2>1. Null \notin accepted'
    BY <1>1, SocketsAssumption DEF TypeOK, Null
  <2> QED
    BY <1>1, <1>2, <1>5, <2>1 DEF CalmIsSingle
<1>7. CalmIsQuiet'
  <2> SUFFICES ASSUME ~raced
               PROVE  (timer' => AllClosed') /\ (ws # Null => Closing' \subseteq {ws})
    BY <1>1 DEF CalmIsQuiet
  <2>1. Closing' \subseteq Closing
    BY <1>1 DEF Closing
  <2>2. ASSUME timer' PROVE AllClosed'
    <3>1. ws # Null
      BY <1>1, <1>2, <2>2 DEF CalmIsQuiet, Intent
    <3>2. Alive \subseteq {s} /\ Closing \subseteq {s}
      BY <1>5, <3>1 DEF CalmIsSingle, CalmIsQuiet
    <3>3. \A r \in Sockets : r # s => sock[r] = "closed"
      BY <3>2 DEF Alive, Closing, TypeOK
    <3> QED
      BY <1>1, <3>3 DEF AllClosed
  <2> QED
    BY <2>1, <2>2 DEF CalmIsQuiet
<1> QED
  BY <1>3, <1>4, <1>6, <1>7

(* Every step keeps the invariant.                                         *)
LEMMA StepInductive == InductiveInv /\ [Next]_vars => InductiveInv'
<1> SUFFICES ASSUME InductiveInv, [Next]_vars PROVE InductiveInv'
  OBVIOUS
<1>1. TypeOK'
  BY StepTypes DEF InductiveInv
<1>2. CASE Connect \/ HardReset \/ ReconnectFires
  BY <1>1, <1>2, OpeningInductive
<1>3. CASE Disconnect
  BY <1>1, <1>3, DisconnectInductive
<1>4. ASSUME NEW s \in Sockets, SocketOpens(s) \/ BootAccepted(s) \/ CsmsCloses(s)
      PROVE  InductiveInv'
  BY <1>1, <1>4, LivingInductive
<1>5. ASSUME NEW s \in Sockets, SocketClosed(s)
      PROVE  InductiveInv'
  BY <1>1, <1>5, ClosedInductive
<1>6. ASSUME NEW s \in Sockets, BootRefused(s)
      PROVE  InductiveInv'
  BY <1>1, <1>6, RebootInductive DEF BootRefused
<1>7. CASE BootAgain \/ UNCHANGED vars
  BY <1>1, <1>7, RebootInductive DEF BootAgain, vars
<1> QED
  BY <1>2, <1>3, <1>4, <1>5, <1>6, <1>7 DEF Next

-----------------------------------------------------------------------------
(* The flags and the sockets agree on what was asked for last, and without *)
(* a race on which socket serves (OCPPWebSocket.ts, ChargePoint.connect).  *)
THEOREM ConnectionInvariant == Spec => []InductiveInv
  BY InitInductive, StepInductive, PTL DEF Spec

(* A connection somebody asked for is never given up, whatever mix of      *)
(* resets, losses and orphaned sockets (handleClose, attemptReconnect).    *)
THEOREM WantedIsKept == Spec => []NeverAbandoned
<1>1. InductiveInv => NeverAbandoned
  BY DEF InductiveInv
<1> QED
  BY <1>1, ConnectionInvariant, PTL

(* Without a race a single socket is alive, and no teardown of another one *)
(* makes the charge point Unavailable (ChargePoint.teardownAfterClose).    *)
THEOREM CalmHasOneSocket == Spec => []CalmIsSingle
<1>1. InductiveInv => CalmIsSingle
  BY DEF InductiveInv
<1> QED
  BY <1>1, ConnectionInvariant, PTL

(* After a disconnect no socket comes alive until somebody asks: the close *)
(* events still to come do not reconnect (OCPPWebSocket.disconnect).       *)
THEOREM DisconnectHolds == Spec => DisconnectSticks
<1>1. InductiveInv /\ [Next]_vars
        => [~wanted /\ ~wanted' => Alive' \subseteq Alive]_vars
  <2> SUFFICES ASSUME InductiveInv, Next, ~wanted, ~wanted'
               PROVE  Alive' \subseteq Alive
    OBVIOUS
  <2> USE DEF InductiveInv
  <2>1. ~(Connect \/ HardReset \/ ReconnectFires)
    BY DEF Connect, HardReset, ReconnectFires, Intent
  <2>2. CASE Disconnect
    BY <2>2 DEF Disconnect, ClosedCurrent, Alive, TypeOK
  <2>3. ASSUME NEW s \in Sockets,
               \/ SocketOpens(s) \/ BootAccepted(s) \/ BootRefused(s)
               \/ CsmsCloses(s) \/ SocketClosed(s)
        PROVE  Alive' \subseteq Alive
    BY <2>3 DEF SocketOpens, BootAccepted, BootRefused, CsmsCloses, SocketClosed,
                Alive, TypeOK
  <2>4. CASE BootAgain
    BY <2>4 DEF BootAgain, Alive
  <2> QED
    BY <2>1, <2>2, <2>3, <2>4 DEF Next
<1> QED
  BY <1>1, ConnectionInvariant, PTL DEF Spec, DisconnectSticks
=============================================================================
