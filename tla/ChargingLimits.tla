---------------------------- MODULE ChargingLimits ---------------------------
(***************************************************************************)
(* Smart charging and metering of one connector: the charging profiles the *)
(* CSMS installs on the connector and on the station (SmartChargingHandlers*)
(* .ts for 1.6, smartChargingV201.ts), the limit they impose at an instant *)
(* and over a window (ChargingScheduleResolver.ts), the meter timer that   *)
(* looks at it (MeterValueScheduler.ts), and the status that shows a pause *)
(* (Connector.ts, ChargePoint.ts).                                         *)
(*                                                                         *)
(* Time is counted in units in which every period, cycle and validity is a *)
(* whole number; limits are watts, converted already.  A step is a         *)
(* macrotask: what it does to the connector, in order, is a composition of *)
(* operators on the record "connector".  F_Word is F with a plausible bug. *)
(***************************************************************************)
EXTENDS Integers, Sequences

CONSTANTS
  Profiles,     \* the charging profiles the CSMS may install
  Protocols,    \* "1.6", "2.0.1": whose handlers run
  AutoReset,    \* values of autoResetToAvailable
  UserStatuses, \* statuses a user or a scenario sets
  Horizon,      \* duration of the composite schedules asked for
  MaxTime,      \* bound: the clock
  MaxTx,        \* bound: transactions begun
  MaxProfiles   \* bound: profiles installed on the connector, on the station

Purposes == {"TxProfile", "TxDefaultProfile", "ChargePointMaxProfile"}
None == -1
Uncapped == 1000000  \* Infinity

(* from, to: validFrom and validTo, or None; cycle: a day or a week.       *)
Period == [start : Nat, limit : 0..(Uncapped - 1)]
Profile == [id : Nat, purpose : Purposes, stackLevel : Nat,
            kind : {"Absolute", "Recurring", "Relative"}, cycle : Nat \ {0},
            from : Nat \cup {None}, to : Nat \cup {None}, periods : Seq(Period)]

(* A schedule begins at 0, as the protocol demands of its first period.    *)
ASSUME LimitsAssumption ==
  /\ \A p \in Profiles :
       p \in Profile /\ \E i \in DOMAIN p.periods : p.periods[i].start = 0
  /\ Protocols \subseteq {"1.6", "2.0.1"} /\ AutoReset \subseteq BOOLEAN
  /\ UserStatuses \subseteq {"Charging", "SuspendedEV", "SuspendedEVSE"}
  /\ {Horizon, MaxTime, MaxTx, MaxProfiles} \subseteq Nat

VARIABLES
  protocol,   \* fixed
  autoReset,  \* autoResetToAvailable, fixed
  clock,
  connector,  \* see Connector
  station,    \* the profiles of ChargingProfileStore, in order
  online,     \* connected, and a boot accepted
  awaiting,   \* "start", "stop": an answer may still come (1.6)
  begun,      \* history: transactions begun
  since,      \* history: per profile id, the transaction it was installed in
  overtaken   \* history: Stop.conf found a newer transaction

vars == <<protocol, autoReset, clock, connector, station, online, awaiting,
          begun, since, overtaken>>
fixed == <<protocol, autoReset>>
history == <<begun, since, overtaken>>

NoTx == [no |-> 0, start |-> 0]
Statuses == {"Available", "Preparing", "Charging", "SuspendedEV",
             "SuspendedEVSE", "Finishing", "Unavailable"}

(* own: the connector's profiles in order; paused: lastSchedulePaused, with*)
(* "unknown" for null; metering: the scheduler's timer runs.               *)
Connector == [own : Seq(Profiles), tx : [no : Nat, start : Nat],
              status : Statuses, paused : {"unknown", "yes", "no"},
              metering : BOOLEAN]

Init ==
  /\ protocol \in Protocols /\ autoReset \in AutoReset
  /\ clock = 0
  /\ connector = [own |-> <<>>, tx |-> NoTx, status |-> "Unavailable",
                  paused |-> "unknown", metering |-> FALSE]
  /\ station = <<>>
  /\ online = FALSE
  /\ awaiting = {}
  /\ begun = 0 /\ since = [i \in {p.id : p \in Profiles} |-> 0]
  /\ overtaken = FALSE

-----------------------------------------------------------------------------
(* The limit of one profile (ChargingScheduleResolver.ts).                 *)

Positive(n) == IF n < 0 THEN 0 ELSE n

(* Since when a profile counts, for a transaction begun at "start".        *)
Reference(p, start) ==
  IF p.kind = "Relative" \/ p.from = None THEN start ELSE p.from

Elapsed(p, start, now) ==
  LET e == Positive(now - Reference(p, start)) IN
    IF p.kind = "Recurring" THEN e % p.cycle ELSE e

(* The period begun last, and of those begun together the last one listed. *)
Begun(p, elapsed) == {i \in DOMAIN p.periods : p.periods[i].start <= elapsed}
Later(p, i, j) ==
  \/ p.periods[i].start > p.periods[j].start
  \/ p.periods[i].start = p.periods[j].start /\ i >= j

Limit(p, start, now) ==
  LET B == Begun(p, Elapsed(p, start, now)) IN
    IF B = {} THEN Uncapped
    ELSE p.periods[CHOOSE i \in B : \A j \in B : Later(p, i, j)].limit

-----------------------------------------------------------------------------
(* Which profiles count (Connector.getActiveChargingProfile and            *)
(* ChargingProfileStore.getActive): of the valid ones with the purpose the *)
(* first of the highest stack level.  The result has at most one member.   *)

Valid(p, now) == (p.from # None => p.from <= now) /\ (p.to # None => now <= p.to)

Of(s, purpose, now) ==
  {i \in DOMAIN s : s[i].purpose = purpose /\ Valid(s[i], now)}

Highest(s, I) ==
  {s[i] : i \in {i \in I : \A j \in I :
                   \/ s[i].stackLevel > s[j].stackLevel
                   \/ s[i].stackLevel = s[j].stackLevel /\ i <= j}}

Active(own, st, now) ==
  LET tx  == Of(own, "TxProfile", now)
      all == own \o st
  IN IF tx # {} THEN Highest(own, tx)
     ELSE Highest(all, Of(all, "TxDefaultProfile", now))

StationMax(st, now) == Highest(st, Of(st, "ChargePointMaxProfile", now))

(* The tightest of the limits of a set of profiles.                        *)
Tightest(P, start, now) ==
  LET L == {Limit(p, start, now) : p \in P} \cup {Uncapped} IN
    CHOOSE l \in L : \A k \in L : l <= k

Effective(c, st, now) ==
  IF c.tx = NoTx THEN Uncapped
  ELSE Tightest(Active(c.own, st, now) \cup StationMax(st, now), c.tx.start, now)

-----------------------------------------------------------------------------
(* The composite schedule of the profiles P over a window of d units from  *)
(* "anchor" (buildCompositeWattsSchedule): the limit is looked up where it *)
(* may change, and slices with the limit of the one before are merged.     *)

FirstCycle(p, anchor) ==
  LET ref == Reference(p, anchor) IN
    IF ref > anchor THEN anchor
    ELSE ref + ((anchor - ref) \div p.cycle) * p.cycle

(* Only the cycle the window begins in is expanded.                        *)
Cycles_FirstOnly(p, anchor, d) ==
  {FirstCycle(p, anchor)} \cap 0..(anchor + d - 1)

Cycles(p, anchor, d) ==
  {FirstCycle(p, anchor) + k * p.cycle : k \in 0..d} \cap 0..(anchor + d - 1)

Offsets(p, anchor, d) ==
  LET origins == IF p.kind = "Recurring" THEN Cycles(p, anchor, d)
                 ELSE {Reference(p, anchor)}
  IN {o - anchor + p.periods[i].start : o \in origins, i \in DOMAIN p.periods}
       \cap 0..(d - 1)

Boundaries(P, anchor, d) ==
  ({0} \cap 0..(d - 1)) \cup UNION {Offsets(p, anchor, d) : p \in P}

LastUpTo(S, t) == CHOOSE b \in S : b <= t /\ \A s \in S : s <= t => s <= b

Slices(P, anchor, d) ==
  LET B == Boundaries(P, anchor, d)
      L(b) == Tightest(P, anchor, anchor + b)
  IN {[start |-> b, limit |-> L(b)] :
        b \in {b \in B : b = 0 \/ L(b) # L(LastUpTo(B, b - 1))}}

(* What the slices S say of the instant t.                                 *)
Promised(S, t) ==
  LET from == LastUpTo({s.start : s \in S}, t) IN
    (CHOOSE s \in S : s.start = from).limit

-----------------------------------------------------------------------------
(* What happens to the connector in the course of a macrotask.             *)

(* The listener of scheduleLimitChange: the pause is shown as a status.    *)
ShowPause(c, paused) ==
  IF c.tx = NoTx THEN c
  ELSE IF paused /\ c.status = "Charging" THEN [c EXCEPT !.status = "SuspendedEVSE"]
  ELSE IF ~paused /\ c.status = "SuspendedEVSE" THEN [c EXCEPT !.status = "Charging"]
  ELSE c

(* currentScheduleLimitWatts: a flip since the last look is announced.     *)
Looked(c, st) ==
  LET limit == Effective(c, st, clock)
      paused == IF limit = 0 THEN "yes" ELSE "no"
  IN IF limit = Uncapped THEN [c EXCEPT !.paused = "unknown"]
     ELSE IF c.paused = paused THEN c
     ELSE ShowPause([c EXCEPT !.paused = paused], limit = 0)

(* sendMeterValue: the power is estimated only if the status is Charging.  *)
Sampled(c, st) == IF c.status = "Charging" THEN Looked(c, st) ELSE c

(* 1.6: applyProfileStatus looks at all periods, whatever the time.        *)
AllZero(c, st) ==
  \E p \in Active(c.own, st, clock) :
    \A i \in DOMAIN p.periods : p.periods[i].limit = 0

Applied16(c, st) ==
  IF AllZero(c, st) /\ c.status = "Charging"
    THEN [c EXCEPT !.status = "SuspendedEVSE"]
  ELSE IF ~AllZero(c, st) /\ c.status = "SuspendedEVSE" /\ c.tx # NoTx
    THEN [c EXCEPT !.status = "Charging"]
  ELSE c

(* 2.0.1: applyProfileStatusV201 looks at the limit in force.              *)
Applied201(c, st) ==
  IF c.tx = NoTx THEN c
  ELSE ShowPause(Looked(c, st), Effective(c, st, clock) = 0)

Applied(c, st) ==
  IF protocol = "1.6" THEN Applied16(c, st) ELSE Applied201(c, st)

(* What is left of s, in its order, without the profiles of P.             *)
Without(s, P) ==
  LET kept[n \in 0..Len(s)] ==
        IF n = 0 THEN <<>>
        ELSE IF s[n] \in P THEN kept[n - 1]
        ELSE Append(kept[n - 1], s[n])
  IN kept[Len(s)]

TxProfiles == {p \in Profiles : p.purpose = "TxProfile"}

Stopped_KeepsProfiles(c) ==
  [c EXCEPT !.tx = NoTx, !.metering = FALSE,
            !.status = IF autoReset THEN "Available" ELSE "Finishing"]

(* ChargePoint.stopTransaction.                                            *)
Stopped(c) ==
  [c EXCEPT !.own = Without(c.own, TxProfiles), !.tx = NoTx, !.metering = FALSE,
            !.status = IF autoReset THEN "Available" ELSE "Finishing"]

StopAsked == IF protocol = "1.6" THEN {"stop"} ELSE {}

-----------------------------------------------------------------------------
(* The CSMS.                                                               *)

(* An installed profile replaces the one with its id.                      *)
Added(s, p) == Append(Without(s, {q \in Profiles : q.id = p.id}), p)

SetChargingProfile(p) ==
  /\ online
  /\ \/ /\ p.purpose # "TxProfile"
        /\ Len(Added(station, p)) <= MaxProfiles
        /\ station' = Added(station, p)
        /\ connector' = Applied(connector, station')
        /\ UNCHANGED since
     \/ /\ p.purpose # "ChargePointMaxProfile"
        /\ Len(Added(connector.own, p)) <= MaxProfiles
        /\ connector' =
             Applied([connector EXCEPT !.own = Added(@, p)], station)
        /\ since' = [since EXCEPT ![p.id] = connector.tx.no]
        /\ UNCHANGED station
  /\ UNCHANGED <<fixed, clock, online, awaiting, begun, overtaken>>

(* The selections a request can make: by id, purpose, stack level, or all. *)
Selections ==
  {Profiles} \cup {{q \in Profiles : q[f] = p[f]} :
                     p \in Profiles, f \in {"id", "purpose", "stackLevel"}}

Cleared(s, P, chosen) == IF chosen THEN Without(s, P) ELSE s

(* 1.6 looks at the status after each store it took profiles from, 2.0.1   *)
(* once in the end if it took any.                                         *)
ClearChargingProfile(P, onStation, onConnector) ==
  LET st == Cleared(station, P, onStation)
      c == IF protocol = "1.6" /\ st # station THEN Applied(connector, st)
           ELSE connector
      own == Cleared(c.own, P, onConnector)
      cleared == [c EXCEPT !.own = own]
  IN /\ online
     /\ onStation \/ onConnector
     /\ st # station \/ own # c.own
     /\ station' = st
     /\ connector' = IF protocol = "1.6" /\ own = c.own THEN cleared
                     ELSE Applied(cleared, st)
     /\ UNCHANGED <<fixed, clock, online, awaiting, history>>

(* 1.6: Start.conf, accepted, whatever the connector does by now.          *)
StartConfirmed ==
  /\ online /\ "start" \in awaiting
  /\ awaiting' = awaiting \ {"start"}
  /\ connector' = [connector EXCEPT !.status = "Charging"]
  /\ UNCHANGED <<fixed, clock, station, online, history>>

(* 1.6: the CALLERROR to a start closes the transaction and keeps it.      *)
StartFails ==
  /\ online /\ "start" \in awaiting
  /\ awaiting' = awaiting \ {"start"}
  /\ connector' = [connector EXCEPT !.status = "Available", !.metering = FALSE]
  /\ UNCHANGED <<fixed, clock, station, online, history>>

(* 1.6: Stop.conf.                                                         *)
StopConfirmed ==
  /\ online /\ "stop" \in awaiting
  /\ awaiting' = awaiting \ {"stop"}
  /\ connector' = [connector EXCEPT !.tx = NoTx, !.metering = FALSE,
                                    !.status = IF autoReset THEN "Available" ELSE @]
  /\ overtaken' = (overtaken \/ connector.tx # NoTx)
  /\ UNCHANGED <<fixed, clock, station, online, begun, since>>

-----------------------------------------------------------------------------
(* The user, the scenario, the timer, the connection, the clock.           *)

(* startTransaction; whether a meter is configured varies.                 *)
StartTransaction ==
  /\ connector.tx = NoTx /\ begun < MaxTx
  /\ begun' = begun + 1
  /\ \E m \in BOOLEAN :
       connector' = [connector EXCEPT !.tx = [no |-> begun', start |-> clock],
                                      !.metering = m, !.status = "Preparing"]
  /\ awaiting' = awaiting \cup (IF protocol = "1.6" THEN {"start"} ELSE {})
  /\ UNCHANGED <<fixed, clock, station, online, since, overtaken>>

StopTransaction ==
  /\ connector.tx # NoTx
  /\ connector' = Stopped(connector)
  /\ awaiting' = awaiting \cup StopAsked
  /\ UNCHANGED <<fixed, clock, station, online, history>>

(* A new meter configuration, or a node that starts or stops the meter.    *)
ConfigureMeter ==
  /\ connector' = [connector EXCEPT !.metering = ~@]
  /\ UNCHANGED <<fixed, clock, station, online, awaiting, history>>

SetStatus(s) ==
  /\ connector.tx # NoTx
  /\ connector' = [connector EXCEPT !.status = s]
  /\ UNCHANGED <<fixed, clock, station, online, awaiting, history>>

(* TriggerMessage or the user: a sample outside of the timer.              *)
SendMeterValue ==
  /\ connector' = Sampled(connector, station)
  /\ UNCHANGED <<fixed, clock, station, online, awaiting, history>>

(* A tick of the scheduler: the limit is looked up, the register rises and *)
(* may reach the target that stops the transaction, and a sample is sent.  *)
Tick ==
  /\ connector.metering
  /\ LET c == Looked(connector, station) IN
       \/ /\ connector' = Sampled(c, station)
          /\ UNCHANGED awaiting
       \/ /\ c.tx # NoTx
          /\ connector' = Sampled(Stopped(c), station)
          /\ awaiting' = awaiting \cup StopAsked
  /\ UNCHANGED <<fixed, clock, station, online, history>>

(* teardownAfterClose.                                                     *)
ConnectionLost ==
  /\ online /\ online' = FALSE
  /\ station' = <<>>
  /\ connector' = [connector EXCEPT !.metering = FALSE,
                     !.status = IF connector.tx = NoTx THEN "Unavailable" ELSE @]
  /\ UNCHANGED <<fixed, clock, awaiting, history>>

BootAccepted ==
  /\ ~online /\ online' = TRUE
  /\ connector' = [connector EXCEPT !.status =
                     IF autoReset /\ connector.tx = NoTx THEN "Available" ELSE @]
  /\ UNCHANGED <<fixed, clock, station, awaiting, history>>

TimePasses ==
  /\ clock < MaxTime /\ clock' = clock + 1
  /\ UNCHANGED <<fixed, connector, station, online, awaiting, history>>

Next ==
  \/ \E p \in Profiles : SetChargingProfile(p)
  \/ \E P \in Selections, s, c \in BOOLEAN : ClearChargingProfile(P, s, c)
  \/ StartConfirmed \/ StartFails \/ StopConfirmed
  \/ StartTransaction \/ StopTransaction
  \/ ConfigureMeter \/ \E s \in UserStatuses : SetStatus(s)
  \/ SendMeterValue \/ Tick
  \/ ConnectionLost \/ BootAccepted \/ TimePasses

Spec == Init /\ [][Next]_vars

TypeOK ==
  /\ protocol \in Protocols /\ autoReset \in AutoReset /\ clock \in 0..MaxTime
  /\ connector \in Connector /\ station \in Seq(Profiles)
  /\ online \in BOOLEAN /\ awaiting \subseteq {"start", "stop"}
  /\ begun \in 0..MaxTx /\ overtaken \in BOOLEAN
  /\ since \in [{p.id : p \in Profiles} -> 0..MaxTx]

-----------------------------------------------------------------------------
(* What the composite schedule says of an instant is the tightest limit of *)
(* the profiles it is built from at that instant, wherever in their periods*)
(* and cycles the window begins and however many it spans: looking only    *)
(* at the boundaries, and merging, loses nothing.                          *)
CompositeIsExact ==
  \A P \in {Active(connector.own, station, clock) \cup StationMax(station, clock),
            StationMax(station, clock)} :
    P # {} =>
      LET S == Slices(P, clock, Horizon) IN
        \A t \in 0..(Horizon - 1) : Promised(S, t) = Tightest(P, clock, clock + t)

(* A TxProfile never outlives the transaction it was installed in to limit *)
(* the next one, whoever stops it, the meter inside of its own tick too,   *)
(* unless the Stop.conf of an older transaction dropped it unnoticed.      *)
TxProfileEnds ==
  \A i \in DOMAIN connector.own :
    LET p == connector.own[i] IN
      p.purpose = "TxProfile" /\ since[p.id] # 0
        => since[p.id] = connector.tx.no \/ overtaken
=============================================================================
