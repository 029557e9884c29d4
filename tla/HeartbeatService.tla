-------------------------- MODULE HeartbeatService --------------------------
(***************************************************************************)
(* The heartbeat of the charge point (HeartbeatService.ts) composed with   *)
(* the outgoing-CALL path: an idle timer every CALL that leaves re-arms,   *)
(* and nothing else but a new interval does.  A heartbeat that is queued,  *)
(* suppressed by the gate or refused by the socket does not.               *)
(*                                                                         *)
(* Every step is a step of OCPPMessageHandler together with what it does   *)
(* to the timer; the heartbeat itself is one more CALL issued there.       *)
(***************************************************************************)
EXTENDS OCPPMessageHandler

CONSTANT Intervals  \* values of BootNotification.conf.interval and of the
                    \* key HeartbeatInterval; 0 disables the heartbeat

ASSUME IntervalsAssumption == Intervals \subseteq Nat /\ 0 \in Intervals

VARIABLES
  interval,  \* _intervalSeconds
  timer      \* the idle timer is armed

beatVars == <<interval, timer>>
allVars == <<vars, beatVars>>

BeatInit == Init /\ interval = 0 /\ timer = FALSE

-----------------------------------------------------------------------------
(* startHeartbeat for a positive period, stopHeartbeat for 0.              *)
SetHeartbeat(period) == interval' = period /\ timer' = (period > 0)

(* notifyOutgoingCall, from the pump once the socket took the CALL.        *)
Rearmed_NotByItself ==
  timer \/ (interval > 0 /\ Head(serialQueue).action # "Heartbeat")
Rearmed == timer \/ interval > 0

CallLeaves ==
  /\ PumpSends
  /\ timer' = Rearmed
  /\ UNCHANGED interval

(* onBootNotificationAccepted, -Pending and -Rejected.                     *)
BootAnswered ==
  \E call \in Range(wire) :
    \/ BootAccepted(call) /\ \E period \in Intervals : SetHeartbeat(period)
    \/ (BootPending(call) \/ BootRejected(call)) /\ SetHeartbeat(0)

(* The idle timer fires: it is spent, whatever becomes of the Heartbeat.   *)
HeartbeatDue ==
  /\ timer
  /\ timer' = FALSE
  /\ UserSends("Heartbeat")
  /\ UNCHANGED interval

(* ChangeConfiguration of HeartbeatInterval, or the command of a user.     *)
ChangeInterval ==
  /\ Idle
  /\ \E period \in Intervals : SetHeartbeat(period)
  /\ UNCHANGED vars

(* teardownAfterClose clears the timer and keeps the interval.             *)
TornDown ==
  /\ WebSocketClosed
  /\ timer' = FALSE
  /\ UNCHANGED interval

(* Everything else leaves the heartbeat alone.                             *)
OtherStep ==
  /\ \/ RunSendRequest \/ PumpReturns \/ PumpFails
     \/ FlushReturns \/ FlushHandsOver
     \/ SettleSerialInFlight \/ SendCallResult
     \/ \E a \in UserCalls : UserSends(a)
     \/ \E a \in TriggerCalls : HandleTrigger(a)
     \/ SocketOpens \/ SocketCloses
     \/ BootRetryFires \/ RetryAfterElapses
     \/ \E call \in Range(wire) : CallResult(call) \/ CallError(call)
     \/ SerialTimeout
  /\ UNCHANGED beatVars

BeatNext ==
  \/ CallLeaves \/ BootAnswered \/ HeartbeatDue \/ ChangeInterval \/ TornDown
  \/ OtherStep

BeatSpec == BeatInit /\ [][BeatNext]_allVars

(* The fairness of the handler.  The heartbeat needs none: what is checked *)
(* of it is that its timer is armed.                                       *)
FairBeatSpec == BeatSpec /\ Fairness

-----------------------------------------------------------------------------
(* The state of both variables; a disabled heartbeat has no armed timer.   *)
BeatTypeOK ==
  /\ interval \in Intervals
  /\ timer \in BOOLEAN
  /\ timer => interval > 0

(* The chain of heartbeats never breaks while the charge point is accepted *)
(* and connected: the timer is armed, or a CALL waits that will re-arm it  *)
(* as it leaves.  So a missed, queued, refused or torn down heartbeat never*)
(* leaves an open connection silent.                                       *)
HeartbeatKept ==
  socket = "open" /\ gate = "Accepted" /\ interval > 0
    => timer \/ serialQueue # <<>>
=============================================================================
