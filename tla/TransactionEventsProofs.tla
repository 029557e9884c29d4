----------------------- MODULE TransactionEventsProofs -----------------------
(***************************************************************************)
(* Proofs about TransactionEvents, for any connectors and any bounds.      *)
(*                                                                         *)
(* Neither property is inductive: what a crash makes of them depends on    *)
(* the row, and on what the row and the object say of the events issued.   *)
(* Fitting is that relation, the same for the object and for the row; Log  *)
(* is what holds of the events of a connector.  An event is issued from a  *)
(* fitting transaction only (Logged), and no step leaves a row behind.     *)
(***************************************************************************)
EXTENDS TransactionEvents, TLAPS

Log(E, m) ==
  /\ E \in Seq(Event) /\ m \in Nat
  /\ \A i \in DOMAIN E : E[i].id \in 1..m
  /\ \A i \in DOMAIN E :
       /\ E[i].seq # 0 => \E j \in 1..(i - 1) : /\ E[j].id = E[i].id
                                               /\ E[j].seq = E[i].seq - 1
       /\ \A j \in 1..(i - 1) : E[j].id = E[i].id => /\ E[j].seq < E[i].seq
                                                    /\ E[j].type # "Ended"

Fitting(t, m, E) ==
  /\ t \in Tx /\ t.id <= m
  /\ t.id = 0 => t.seq = 0
  /\ t.id # 0 => \A i \in DOMAIN E : E[i].id = t.id =>
       E[i].no = t.no /\ E[i].seq < t.seq /\ E[i].type # "Ended"
  /\ t.seq # 0 => \E j \in DOMAIN E : E[j].id = t.id /\ E[j].seq = t.seq - 1

SoundAt(c) ==
  /\ Log(events[c], minted[c])
  /\ Fitting(runtime[c].tx, minted[c], events[c])
  /\ Fitting(disk[c].tx, minted[c], events[c])

EventsInv == TypeOK /\ \A c \in Connectors : SoundAt(c)
-----------------------------------------------------------------------------
(* The transaction a number was used up for.                               *)
Used(t, id, state) == [t EXCEPT !.id = id, !.seq = t.seq + 1, !.last = state]

LEMMA UsedFields ==
  ASSUME NEW t \in Tx, NEW id \in Nat, NEW state \in ChargingStates
  PROVE  /\ Used(t, id, state) \in Tx
         /\ Used(t, id, state).id = id /\ Used(t, id, state).no = t.no
         /\ Used(t, id, state).seq = t.seq + 1 /\ Used(t, id, state).last = state
<1>1. t.seq + 1 \in Nat
  BY DEF Tx
<1>2. Used(t, id, state) \in Tx
  BY <1>1 DEF Used, Tx
<1>3. Used(t, id, state).id = id /\ Used(t, id, state).no = t.no
  BY DEF Used, Tx
<1>4. Used(t, id, state).seq = t.seq + 1
  BY DEF Used, Tx
<1>5. Used(t, id, state).last = state
  BY DEF Used, Tx
<1> QED
  BY <1>2, <1>3, <1>4, <1>5

(* The event list after one more event.                                    *)
LEMMA Appended ==
  ASSUME NEW E \in Seq(Event), NEW e \in Event
  PROVE  /\ Append(E, e) \in Seq(Event)
         /\ DOMAIN E = 1..Len(E) /\ Len(E) \in Nat
         /\ DOMAIN Append(E, e) = 1..(Len(E) + 1)
         /\ \A i \in 1..Len(E) : Append(E, e)[i] = E[i]
         /\ Append(E, e)[Len(E) + 1] = e
         /\ \A i \in 1..Len(E) : E[i] \in Event
  OBVIOUS

LEMMA EventFields ==
  ASSUME NEW e \in Event
  PROVE  e.no \in Nat /\ e.id \in Nat /\ e.seq \in Nat
  BY DEF Event

(* An event issued from a fitting transaction continues the log, and the   *)
(* transaction fits what is then issued unless the event was its last.     *)
LEMMA Logged ==
  ASSUME NEW E, NEW m, NEW t, NEW e \in Event, NEW m2, NEW s \in ChargingStates,
         Log(E, m), Fitting(t, m, E),
         e.id = IF t.id = 0 THEN m + 1 ELSE t.id, e.seq = t.seq, e.no = t.no,
         m2 = IF e.id > m THEN e.id ELSE m
  PROVE  /\ Log(Append(E, e), m2)
         /\ e.type # "Ended" => Fitting(Used(t, e.id, s), m2, Append(E, e))
<1> DEFINE F == Append(E, e)
<1>1. /\ E \in Seq(Event) /\ m \in Nat /\ t \in Tx /\ t.id \in Nat /\ t.seq \in Nat
      /\ t.id <= m
  BY DEF Log, Fitting, Tx
<1>2. /\ F \in Seq(Event)
      /\ DOMAIN E = 1..Len(E) /\ Len(E) \in Nat
      /\ DOMAIN F = 1..(Len(E) + 1)
      /\ \A i \in 1..Len(E) : F[i] = E[i]
      /\ F[Len(E) + 1] = e
      /\ \A i \in 1..Len(E) : E[i] \in Event
  BY <1>1, Appended
<1>3. /\ m2 \in Nat /\ m <= m2 /\ e.id \in 1..m2
      /\ e.id \in Nat /\ e.seq \in Nat /\ e.id # 0
  BY <1>1
<1>4. \A i \in 1..Len(E) : E[i].id \in 1..m
  BY <1>2 DEF Log
<1>5. \A i \in 1..Len(E) : E[i].id = e.id =>
        t.id = e.id /\ E[i].no = t.no /\ E[i].seq < e.seq /\ E[i].type # "Ended"
  <2> SUFFICES ASSUME NEW i \in 1..Len(E), E[i].id = e.id
               PROVE  t.id = e.id /\ E[i].no = t.no /\ E[i].seq < e.seq
                      /\ E[i].type # "Ended"
    OBVIOUS
  <2>1. t.id # 0
    BY <1>1, <1>4
  <2> QED
    BY <2>1, <1>1, <1>2 DEF Fitting
<1>6. Log(F, m2)
  <2>1. \A i \in DOMAIN F : F[i].id \in 1..m2
    BY <1>1, <1>2, <1>3, <1>4
  <2>2. ASSUME NEW i \in 1..Len(E)
        PROVE  /\ F[i].seq # 0 => \E j \in 1..(i - 1) : /\ F[j].id = F[i].id
                                                       /\ F[j].seq = F[i].seq - 1
               /\ \A j \in 1..(i - 1) : F[j].id = F[i].id =>
                    F[j].seq < F[i].seq /\ F[j].type # "Ended"
    <3>1. \A j \in 1..(i - 1) : j \in 1..Len(E) /\ F[j] = E[j]
      BY <1>2
    <3> QED
      BY <3>1, <1>2 DEF Log
  <2>3. e.seq # 0 => \E j \in 1..Len(E) : F[j].id = e.id /\ F[j].seq = e.seq - 1
    BY <1>1, <1>2 DEF Fitting
  <2>4. \A j \in 1..Len(E) : F[j].id = e.id => F[j].seq < e.seq /\ F[j].type # "Ended"
    BY <1>2, <1>5
  <2>5. Len(E) = (Len(E) + 1) - 1
    BY <1>2
  <2>6. \A i \in DOMAIN F : i \in 1..Len(E) \/ i = Len(E) + 1
    BY <1>2
  <2>7. \A i \in DOMAIN F :
          /\ F[i].seq # 0 => \E j \in 1..(i - 1) : /\ F[j].id = F[i].id
                                                  /\ F[j].seq = F[i].seq - 1
          /\ \A j \in 1..(i - 1) : F[j].id = F[i].id => /\ F[j].seq < F[i].seq
                                                       /\ F[j].type # "Ended"
    BY <2>2, <2>3, <2>4, <2>5, <2>6, <1>2
  <2> QED
    BY <2>1, <2>7, <1>2, <1>3 DEF Log
<1>7. ASSUME e.type # "Ended"
      PROVE  Fitting(Used(t, e.id, s), m2, F)
  <2> DEFINE u == Used(t, e.id, s)
  <2>0. /\ Used(t, e.id, s) \in Tx /\ Used(t, e.id, s).id = e.id
        /\ Used(t, e.id, s).no = t.no /\ Used(t, e.id, s).seq = t.seq + 1
    BY <1>1, <1>3, UsedFields
  <2>1. u \in Tx /\ u.id = e.id /\ u.seq = e.seq + 1 /\ u.no = t.no
    BY <2>0
  <2> HIDE DEF u
  <2>2. u.id <= m2 /\ u.id # 0
    BY <2>1, <1>3
  <2>3. \A i \in DOMAIN F : F[i].id = u.id =>
          F[i].no = u.no /\ F[i].seq < u.seq /\ F[i].type # "Ended"
    <3>1. ASSUME NEW i \in 1..Len(E), F[i].id = e.id
          PROVE  F[i].no = u.no /\ F[i].seq < u.seq /\ F[i].type # "Ended"
      <4>1. F[i] = E[i] /\ E[i].seq < e.seq /\ E[i].seq \in Nat /\ E[i].no = t.no
            /\ E[i].type # "Ended"
        BY <1>2, <1>5, <3>1, EventFields
      <4> QED
        BY <4>1, <2>1, <1>3
    <3>2. F[Len(E) + 1] = e /\ e.seq < e.seq + 1
      BY <1>2, <1>3
    <3> QED
      BY <3>1, <3>2, <2>1, <1>2, <1>7
  <2>4. \E j \in DOMAIN F : F[j].id = u.id /\ F[j].seq = u.seq - 1
    BY <2>1, <1>2, <1>3
  <2> QED
    BY <2>1, <2>2, <2>3, <2>4 DEF Fitting, u
<1> QED
  BY <1>6, <1>7

(* A transaction without an id fits every log: it was not told yet.        *)
LEMMA Unminted ==
  ASSUME NEW t \in Tx, NEW m \in Nat, NEW E, t.id = 0, t.seq = 0
  PROVE  Fitting(t, m, E)
  BY DEF Fitting

-----------------------------------------------------------------------------
(* What a step may do to one connector: issue nothing, and move the        *)
(* transaction between the object and the row; or issue one event, after   *)
(* which neither holds the transaction as it was before.                   *)
Stays(c) ==
  /\ events'[c] = events[c] /\ minted'[c] = minted[c]
  /\ runtime'[c] \in Runtime /\ disk'[c] \in Runtime
  /\ runtime'[c].tx \in {runtime[c].tx, disk[c].tx, NoTx}
  /\ disk'[c].tx \in {runtime[c].tx, disk[c].tx, NoTx}

Issues(c, t, e, s) ==
  /\ Fitting(t, minted[c], events[c])
  /\ e \in Event /\ s \in ChargingStates
  /\ e.id = IdOf(c, t) /\ e.seq = t.seq /\ e.no = t.no
  /\ events'[c] = Append(events[c], e)
  /\ minted'[c] = IF e.id > minted[c] THEN e.id ELSE minted[c]
  /\ runtime'[c] \in Runtime /\ disk'[c] \in Runtime
  /\ \A u \in {runtime'[c].tx, disk'[c].tx} :
       \/ u = Used(t, e.id, s) /\ e.type # "Ended"
       \/ u.id = 0 /\ u.seq = 0

Moves(c) == Stays(c) \/ \E t, e, s : Issues(c, t, e, s)

Shaped(f) == f' = [c \in Connectors |-> f'[c]]

LEMMA NoTxTyped == NoTx \in Tx /\ NoTx.id = 0 /\ NoTx.seq = 0
  BY DEF NoTx, Tx, ChargingStates

LEMMA StaysSound ==
  ASSUME NEW c \in Connectors, SoundAt(c), Stays(c)
  PROVE  SoundAt(c)'
<1>1. minted[c] \in Nat
  BY DEF SoundAt, Log
<1>2. Fitting(NoTx, minted[c], events[c])
  BY <1>1, NoTxTyped, Unminted
<1>3. \A t \in {runtime[c].tx, disk[c].tx, NoTx} : Fitting(t, minted[c], events[c])
  BY <1>2 DEF SoundAt
<1>4. SoundAt(c)' = (/\ Log(events'[c], minted'[c])
                     /\ Fitting(runtime'[c].tx, minted'[c], events'[c])
                     /\ Fitting(disk'[c].tx, minted'[c], events'[c]))
  BY DEF SoundAt, Log, Fitting
<1> QED
  BY <1>3, <1>4 DEF SoundAt, Stays

LEMMA IssuesSound ==
  ASSUME NEW c \in Connectors, SoundAt(c), NEW t, NEW e, NEW s, Issues(c, t, e, s)
  PROVE  SoundAt(c)'
<1>1. /\ Log(events[c], minted[c]) /\ e \in Event /\ s \in ChargingStates
      /\ e.id = IF t.id = 0 THEN minted[c] + 1 ELSE t.id
  BY DEF SoundAt, Issues, IdOf, Mints
<1>2. /\ Log(events'[c], minted'[c])
      /\ e.type # "Ended" => Fitting(Used(t, e.id, s), minted'[c], events'[c])
  BY <1>1, Logged DEF Issues
<1>3. minted'[c] \in Nat
  BY <1>2 DEF Log
<1>4. \A u \in {runtime'[c].tx, disk'[c].tx} : Fitting(u, minted'[c], events'[c])
  <2>1. \A u \in {runtime'[c].tx, disk'[c].tx} : u \in Tx
    BY DEF Issues, Runtime
  <2> QED
    BY <2>1, <1>2, <1>3, Unminted DEF Issues
<1>5. SoundAt(c)' = (/\ Log(events'[c], minted'[c])
                     /\ Fitting(runtime'[c].tx, minted'[c], events'[c])
                     /\ Fitting(disk'[c].tx, minted'[c], events'[c]))
  BY DEF SoundAt, Log, Fitting
<1> QED
  BY <1>2, <1>4, <1>5

(* A step that moves every connector so keeps the invariant.               *)
LEMMA Carried ==
  ASSUME EventsInv,
         Shaped(runtime), Shaped(disk), Shaped(events), Shaped(minted),
         link' \in {"down", "up", "closing"}, parked' \in [Connectors -> Nat],
         begun' \in [Connectors -> Nat], restarts' \in Nat,
         \A c \in Connectors : Moves(c)
  PROVE  EventsInv'
<1>1. \A c \in Connectors : SoundAt(c)'
  BY StaysSound, IssuesSound DEF EventsInv, Moves
<1>2. \A c \in Connectors : runtime'[c] \in Runtime /\ disk'[c] \in Runtime
  BY DEF Moves, Stays, Issues
<1>3. \A c \in Connectors : events'[c] \in Seq(Event) /\ minted'[c] \in Nat
  BY <1>1 DEF SoundAt, Log
<1>4. TypeOK'
  BY <1>2, <1>3 DEF TypeOK, Shaped
<1> QED
  BY <1>1, <1>4 DEF EventsInv
-----------------------------------------------------------------------------
(* What the operators of several actions come to at a connector.           *)

LEMMA IssuedAt ==
  ASSUME EventsInv, NEW S \in SUBSET Connectors, NEW told, Issue(S, told)
  PROVE  /\ Shaped(events) /\ Shaped(minted)
         /\ \A c \in S : /\ events'[c] = Append(events[c], told[c])
                         /\ minted'[c] = IF told[c].id > minted[c]
                                         THEN told[c].id ELSE minted[c]
         /\ \A c \in Connectors \ S : /\ events'[c] = events[c]
                                      /\ minted'[c] = minted[c]
  BY DEF Issue, Shaped

LEMMA EventMade ==
  ASSUME NEW c \in Connectors, NEW t, NEW state \in ChargingStates,
         NEW type \in {"Started", "Updated", "Ended"},
         minted[c] \in Nat, t \in Tx
  PROVE  /\ EventOf(c, t, type, state) \in Event
         /\ EventOf(c, t, type, state).id = IdOf(c, t)
         /\ EventOf(c, t, type, state).seq = t.seq
         /\ EventOf(c, t, type, state).no = t.no
         /\ EventOf(c, t, type, state).type = type
         /\ Numbered(c, t, state) = Used(t, IdOf(c, t), state)
         /\ Numbered(c, t, state) \in Tx
<1>1. IdOf(c, t) \in Nat
  BY DEF IdOf, Mints, Tx
<1>2. Numbered(c, t, state) = Used(t, IdOf(c, t), state)
  BY DEF Numbered, Used
<1>3. Numbered(c, t, state) \in Tx
  BY <1>1, <1>2, UsedFields
<1>4. EventOf(c, t, type, state) \in Event
  BY <1>1 DEF EventOf, Event, Tx
<1> QED
  BY <1>2, <1>3, <1>4 DEF EventOf

LEMMA SoundParts ==
  ASSUME EventsInv, NEW c \in Connectors
  PROVE  /\ minted[c] \in Nat
         /\ runtime[c] \in Runtime /\ disk[c] \in Runtime
         /\ runtime[c].tx \in Tx /\ disk[c].tx \in Tx
         /\ Fitting(runtime[c].tx, minted[c], events[c])
  BY DEF EventsInv, TypeOK, SoundAt, Runtime

(* Told either leaves the connector as it is or issues one Updated event.  *)
LEMMA ToldTyped ==
  ASSUME EventsInv, NEW c \in Connectors, NEW s
  PROVE  /\ Told(c, s) \in Runtime
         /\ ~Tells(runtime[c].tx, s) => Told(c, s) = runtime[c]
         /\ Tells(runtime[c].tx, s) =>
              /\ s \in ChargingStates
              /\ Told(c, s).tx = Used(runtime[c].tx, IdOf(c, runtime[c].tx), s)
<1>1. CASE ~Tells(runtime[c].tx, s)
  BY <1>1, SoundParts DEF Told
<1>2. CASE Tells(runtime[c].tx, s)
  <2>1. s \in ChargingStates
    BY <1>2 DEF Tells
  <2>2. /\ Numbered(c, runtime[c].tx, s) \in Tx
        /\ Numbered(c, runtime[c].tx, s) = Used(runtime[c].tx, IdOf(c, runtime[c].tx), s)
    BY <2>1, SoundParts, EventMade
  <2>3. Told(c, s) = [runtime[c] EXCEPT !.tx = Numbered(c, runtime[c].tx, s)]
    BY <1>2 DEF Told
  <2>4. runtime[c] \in Runtime
    BY SoundParts
  <2>5. Told(c, s) \in Runtime /\ Told(c, s).tx = Numbered(c, runtime[c].tx, s)
    BY <2>2, <2>3, <2>4 DEF Runtime
  <2> QED
    BY <1>2, <2>1, <2>2, <2>5
<1> QED
  BY <1>1, <1>2

(* Any step that tells c the state s, if need be, and saves it.            *)
LEMMA ToldMoves ==
  ASSUME EventsInv, NEW c \in Connectors, NEW s,
         runtime'[c] \in Runtime, disk'[c] \in Runtime,
         runtime'[c].tx = Told(c, s).tx, disk'[c].tx = Told(c, s).tx,
         Tells(runtime[c].tx, s) =>
           /\ events'[c] = Append(events[c], EventOf(c, runtime[c].tx, "Updated", s))
           /\ minted'[c] = IF EventOf(c, runtime[c].tx, "Updated", s).id > minted[c]
                           THEN EventOf(c, runtime[c].tx, "Updated", s).id
                           ELSE minted[c],
         ~Tells(runtime[c].tx, s) =>
           events'[c] = events[c] /\ minted'[c] = minted[c]
  PROVE  Moves(c)
<1>1. CASE ~Tells(runtime[c].tx, s)
  BY <1>1, ToldTyped DEF Moves, Stays
<1>2. CASE Tells(runtime[c].tx, s)
  <2> DEFINE e == EventOf(c, runtime[c].tx, "Updated", s)
  <2>1. s \in ChargingStates
    BY <1>2 DEF Tells
  <2>2. /\ e \in Event /\ e.id = IdOf(c, runtime[c].tx)
        /\ e.seq = runtime[c].tx.seq /\ e.no = runtime[c].tx.no
        /\ e.type = "Updated"
    BY <2>1, SoundParts, EventMade
  <2>3. Told(c, s).tx = Used(runtime[c].tx, e.id, s)
    BY <1>2, <2>2, ToldTyped
  <2> HIDE DEF e
  <2>4. events'[c] = Append(events[c], e)
        /\ minted'[c] = IF e.id > minted[c] THEN e.id ELSE minted[c]
    BY <1>2 DEF e
  <2>5. Issues(c, runtime[c].tx, e, s)
    BY <2>1, <2>2, <2>3, <2>4, SoundParts DEF Issues
  <2> QED
    BY <2>5 DEF Moves
<1> QED
  BY <1>1, <1>2

(* Setting a field that is not the transaction.                            *)
LEMMA StatusSet ==
  ASSUME NEW r \in Runtime, NEW s \in Statuses
  PROVE  /\ [r EXCEPT !.status = s] \in Runtime
         /\ [r EXCEPT !.status = s].tx = r.tx
  BY DEF Runtime
-----------------------------------------------------------------------------
(* The steps.                                                              *)

(* What a step that leaves a part alone needs of it.                       *)
LEMMA Still ==
  ASSUME EventsInv
  PROVE  /\ link \in {"down", "up", "closing"} /\ parked \in [Connectors -> Nat]
         /\ begun \in [Connectors -> Nat] /\ restarts \in Nat
         /\ runtime = [c \in Connectors |-> runtime[c]]
         /\ disk = [c \in Connectors |-> disk[c]]
         /\ events = [c \in Connectors |-> events[c]]
         /\ minted = [c \in Connectors |-> minted[c]]
  BY DEF EventsInv, TypeOK

LEMMA ShowStep ==
  ASSUME EventsInv, NEW S \in SUBSET Connectors, NEW now,
         \A c \in S : now[c] \in Statuses,
         Show(S, now), UNCHANGED <<link, parked, begun, restarts>>
  PROVE  EventsInv'
<1> DEFINE telling == {c \in S : Tells(runtime[c].tx, now[c])}
           told == [c \in telling |-> EventOf(c, runtime[c].tx, "Updated", now[c])]
<1>1. /\ runtime' = [c \in Connectors |->
            IF c \in S THEN [Told(c, now[c]) EXCEPT !.status = now[c]]
            ELSE runtime[c]]
      /\ disk' = [c \in Connectors |-> IF c \in S THEN Row(c, now[c]) ELSE disk[c]]
      /\ Issue(telling, told)
  BY DEF Show
<1>2. telling \in SUBSET Connectors
  OBVIOUS
<1>3. \A c \in telling : told[c] = EventOf(c, runtime[c].tx, "Updated", now[c])
  OBVIOUS
<1> HIDE DEF told
<1>4. /\ Shaped(events) /\ Shaped(minted)
      /\ \A c \in telling : /\ events'[c] = Append(events[c], told[c])
                            /\ minted'[c] = IF told[c].id > minted[c]
                                            THEN told[c].id ELSE minted[c]
      /\ \A c \in Connectors \ telling : /\ events'[c] = events[c]
                                         /\ minted'[c] = minted[c]
  BY <1>1, <1>2, IssuedAt
<1>5. Shaped(runtime) /\ Shaped(disk)
  BY <1>1 DEF Shaped
<1>6. ASSUME NEW c \in Connectors
      PROVE  Moves(c)
  <2>1. CASE c \in S
    <3>1. /\ runtime'[c] = [Told(c, now[c]) EXCEPT !.status = now[c]]
          /\ disk'[c] = [Told(c, now[c]) EXCEPT !.status = now[c]]
      BY <1>1, <2>1 DEF Row
    <3>2. /\ runtime'[c] \in Runtime /\ disk'[c] \in Runtime
          /\ runtime'[c].tx = Told(c, now[c]).tx /\ disk'[c].tx = Told(c, now[c]).tx
      BY <2>1, <3>1, ToldTyped, StatusSet
    <3> QED
      BY <1>3, <1>4, <2>1, <3>2, ToldMoves
  <2>2. CASE c \notin S
    <3>1. runtime'[c] = runtime[c] /\ disk'[c] = disk[c]
      BY <1>1, <2>2
    <3> QED
      BY <1>4, <2>2, <3>1, SoundParts DEF Moves, Stays
  <2> QED
    BY <2>1, <2>2
<1> QED
  BY <1>4, <1>5, <1>6, Still, Carried

LEMMA BeginStep ==
  ASSUME EventsInv, NEW c \in Connectors, BeginTransaction(c),
         parked' \in [Connectors -> Nat]
  PROVE  EventsInv'
<1> DEFINE t == [NoTx EXCEPT !.no = begun[c] + 1]
           shown == [runtime[c] EXCEPT !.status = "Preparing", !.tx = t]
           e == EventOf(c, t, "Started", "Charging")
           told == [d \in {c} |-> e]
<1>1. /\ begun' = [begun EXCEPT ![c] = @ + 1]
      /\ runtime' = [runtime EXCEPT ![c] =
                       [shown EXCEPT !.tx = Numbered(c, t, "Charging")]]
      /\ disk' = [disk EXCEPT ![c] = shown]
      /\ Issue({c}, told)
      /\ UNCHANGED <<link, restarts>>
  BY DEF BeginTransaction
<1>2. begun' \in [Connectors -> Nat] /\ begun[c] + 1 \in Nat
  BY <1>1, Still
<1>3. t \in Tx /\ t.id = 0 /\ t.seq = 0
  BY <1>2 DEF NoTx, Tx, ChargingStates
<1> HIDE DEF t
<1>4. "Preparing" \in Statuses /\ "Charging" \in ChargingStates
  BY DEF Statuses, ChargingStates
<1>5. Fitting(t, minted[c], events[c])
  BY <1>3, Unminted, SoundParts
<1>6. /\ e \in Event /\ e.id = IdOf(c, t) /\ e.seq = t.seq /\ e.no = t.no
      /\ e.type = "Started"
      /\ Numbered(c, t, "Charging") = Used(t, e.id, "Charging")
      /\ Numbered(c, t, "Charging") \in Tx
  BY <1>3, <1>4, SoundParts, EventMade
<1> HIDE DEF e
<1>7. runtime[c] \in Runtime
  BY SoundParts
<1>8. shown \in Runtime /\ shown.tx = t
  BY <1>3, <1>4, <1>7 DEF Runtime
<1> HIDE DEF shown
<1>9. /\ [shown EXCEPT !.tx = Numbered(c, t, "Charging")] \in Runtime
      /\ [shown EXCEPT !.tx = Numbered(c, t, "Charging")].tx = Numbered(c, t, "Charging")
  BY <1>6, <1>8 DEF Runtime
<1>10. runtime'[c] \in Runtime /\ runtime'[c].tx = Used(t, e.id, "Charging")
  BY <1>1, <1>6, <1>9, Still
<1>11. disk'[c] = shown
  BY <1>1, Still
<1>12. told[c] = e
  OBVIOUS
<1> HIDE DEF told
<1>13. /\ Shaped(events) /\ Shaped(minted)
       /\ events'[c] = Append(events[c], e)
       /\ minted'[c] = IF e.id > minted[c] THEN e.id ELSE minted[c]
       /\ \A d \in Connectors \ {c} : events'[d] = events[d] /\ minted'[d] = minted[d]
  BY <1>1, <1>12, IssuedAt
<1>14. Issues(c, t, e, "Charging")
  BY <1>3, <1>4, <1>5, <1>6, <1>8, <1>10, <1>11, <1>13 DEF Issues
<1>15. ASSUME NEW d \in Connectors, d # c
       PROVE  Moves(d)
  BY <1>1, <1>13, <1>15, Still, SoundParts DEF Moves, Stays
<1>16. \A d \in Connectors : Moves(d)
  BY <1>14, <1>15 DEF Moves
<1>17. Shaped(runtime) /\ Shaped(disk)
  BY <1>1, Still DEF Shaped
<1> QED
  BY <1>1, <1>2, <1>13, <1>16, <1>17, Still, Carried

(* What a stop leaves of c, and what it saves.                             *)
LEMMA StoppedTyped ==
  ASSUME EventsInv, NEW c \in Connectors
  PROVE  /\ Stopped(c) \in Runtime /\ Stopped(c).tx = NoTx
         /\ StoppedRow(c) \in Runtime /\ StoppedRow(c).tx = NoTx
<1>1. runtime[c] \in Runtime /\ NoTx \in Tx
  BY SoundParts, NoTxTyped
<1>2. Stopped(c) \in Runtime /\ Stopped(c).tx = NoTx
  BY <1>1 DEF Stopped, Runtime, ShownAs, Deferred, Statuses, ChargingStates
<1> QED
  BY <1>1, <1>2 DEF StoppedRow, Runtime

LEMMA StopStep ==
  ASSUME EventsInv, NEW S \in SUBSET Connectors, StopTransactions(S)
  PROVE  EventsInv'
<1> DEFINE told == [c \in S |-> EventOf(c, runtime[c].tx, "Ended",
                                       runtime[c].tx.last)]
<1>1. /\ runtime' = [c \in Connectors |-> IF c \in S THEN Stopped(c) ELSE runtime[c]]
      /\ disk' = [c \in Connectors |-> IF c \in S THEN StoppedRow(c) ELSE disk[c]]
      /\ Issue(S, told)
      /\ UNCHANGED <<link, parked, begun, restarts>>
  BY DEF StopTransactions
<1>2. \A c \in S : told[c] = EventOf(c, runtime[c].tx, "Ended", runtime[c].tx.last)
  OBVIOUS
<1> HIDE DEF told
<1>3. /\ Shaped(events) /\ Shaped(minted)
      /\ \A c \in S : /\ events'[c] = Append(events[c], told[c])
                      /\ minted'[c] = IF told[c].id > minted[c]
                                      THEN told[c].id ELSE minted[c]
      /\ \A c \in Connectors \ S : /\ events'[c] = events[c]
                                   /\ minted'[c] = minted[c]
  BY <1>1, IssuedAt
<1>4. Shaped(runtime) /\ Shaped(disk)
  BY <1>1 DEF Shaped
<1>5. ASSUME NEW c \in Connectors, c \in S
      PROVE  Moves(c)
  <2>1. /\ runtime'[c] \in Runtime /\ disk'[c] \in Runtime
        /\ runtime'[c].tx = NoTx /\ disk'[c].tx = NoTx
    BY <1>1, <1>5, StoppedTyped
  <2>2. runtime[c].tx.last \in ChargingStates
    BY SoundParts DEF Tx
  <2>3. /\ told[c] \in Event /\ told[c].id = IdOf(c, runtime[c].tx)
        /\ told[c].seq = runtime[c].tx.seq /\ told[c].no = runtime[c].tx.no
    BY <1>2, <1>5, <2>2, SoundParts, EventMade
  <2>4. Issues(c, runtime[c].tx, told[c], runtime[c].tx.last)
    BY <1>3, <1>5, <2>1, <2>2, <2>3, SoundParts, NoTxTyped DEF Issues
  <2> QED
    BY <2>4 DEF Moves
<1>6. ASSUME NEW c \in Connectors, c \notin S
      PROVE  Moves(c)
  BY <1>1, <1>3, <1>6, SoundParts DEF Moves, Stays
<1> QED
  BY <1>1, <1>3, <1>4, <1>5, <1>6, Still, Carried

LEMMA NotifyStep ==
  ASSUME EventsInv, NEW c \in Connectors, NEW s, NotifyStatus(c, s)
  PROVE  EventsInv'
<1> DEFINE told == [d \in {c} |-> EventOf(c, runtime[c].tx, "Updated", s)]
<1>1. /\ Tells(runtime[c].tx, s)
      /\ runtime' = [runtime EXCEPT ![c] = Told(c, s)]
      /\ disk' = [disk EXCEPT ![c] = Told(c, s)]
      /\ Issue({c}, told)
      /\ UNCHANGED <<link, parked, begun, restarts>>
  BY DEF NotifyStatus
<1>2. told[c] = EventOf(c, runtime[c].tx, "Updated", s)
  OBVIOUS
<1> HIDE DEF told
<1>3. /\ Shaped(events) /\ Shaped(minted)
      /\ events'[c] = Append(events[c], told[c])
      /\ minted'[c] = IF told[c].id > minted[c] THEN told[c].id ELSE minted[c]
      /\ \A d \in Connectors \ {c} : events'[d] = events[d] /\ minted'[d] = minted[d]
  BY <1>1, IssuedAt
<1>4. Shaped(runtime) /\ Shaped(disk)
  BY <1>1, Still DEF Shaped
<1>5. runtime'[c] = Told(c, s) /\ disk'[c] = Told(c, s)
  BY <1>1, Still
<1>6. Moves(c)
  BY <1>1, <1>2, <1>3, <1>5, ToldTyped, ToldMoves
<1>7. ASSUME NEW d \in Connectors, d # c
      PROVE  Moves(d)
  BY <1>1, <1>3, <1>7, Still, SoundParts DEF Moves, Stays
<1> QED
  BY <1>1, <1>3, <1>4, <1>6, <1>7, Still, Carried

(* A step that issues nothing.                                             *)
LEMMA SilentStep ==
  ASSUME EventsInv, UNCHANGED <<minted, events>>,
         Shaped(runtime), Shaped(disk),
         link' \in {"down", "up", "closing"}, parked' \in [Connectors -> Nat],
         begun' \in [Connectors -> Nat], restarts' \in Nat,
         \A c \in Connectors :
           /\ runtime'[c] \in Runtime /\ disk'[c] \in Runtime
           /\ runtime'[c].tx \in {runtime[c].tx, disk[c].tx, NoTx}
           /\ disk'[c].tx \in {runtime[c].tx, disk[c].tx, NoTx}
  PROVE  EventsInv'
<1>1. \A c \in Connectors : Moves(c)
  BY DEF Moves, Stays
<1>2. Shaped(events) /\ Shaped(minted)
  BY Still DEF Shaped
<1> QED
  BY <1>1, <1>2, Carried

LEMMA FreshTyped == Fresh \in Runtime /\ Fresh.tx = NoTx
  BY NoTxTyped DEF Fresh, Runtime, Statuses

LEMMA TornTyped ==
  ASSUME EventsInv, NEW c \in Connectors
  PROVE  TornDown(c) \in Runtime /\ TornDown(c).tx = runtime[c].tx
  BY SoundParts, StatusSet DEF TornDown, Statuses

LEMMA AvailabilityStep ==
  ASSUME EventsInv, NEW S \in SUBSET Connectors, NEW target \in Targets,
         ChangeAvailability(S, target)
  PROVE  EventsInv'
<1>1. target \in {"Operative", "Inoperative"}
  BY EventsAssumption
<1>2. ShownAs(target) \in Statuses
  BY DEF ShownAs, Statuses
<1>3. /\ \A r \in Runtime : LET q == [r EXCEPT !.availability = target,
                                            !.status = ShownAs(target)] IN
             q \in Runtime /\ q.tx = r.tx
      /\ \A r \in Runtime : LET q == [r EXCEPT !.scheduled = target] IN
             q \in Runtime /\ q.tx = r.tx
  BY <1>1, <1>2 DEF Runtime
<1>4. /\ Shaped(runtime) /\ Shaped(disk)
  BY <1>1, Still DEF ChangeAvailability, Shaped
<1>5. UNCHANGED <<link, parked, begun, minted, events, restarts>>
  BY DEF ChangeAvailability
<1>6. ASSUME NEW c \in Connectors
      PROVE  /\ runtime'[c] \in Runtime /\ disk'[c] \in Runtime
             /\ runtime'[c].tx \in {runtime[c].tx, disk[c].tx, NoTx}
             /\ disk'[c].tx \in {runtime[c].tx, disk[c].tx, NoTx}
  <2>1. /\ runtime'[c] \in {runtime[c],
              [runtime[c] EXCEPT !.availability = target, !.status = ShownAs(target)],
              [runtime[c] EXCEPT !.scheduled = target]}
        /\ disk'[c] \in {disk[c],
              [runtime[c] EXCEPT !.availability = target, !.status = ShownAs(target)]}
    BY DEF ChangeAvailability
  <2> QED
    BY <1>3, <2>1, SoundParts
<1> QED
  BY <1>4, <1>5, <1>6, Still, SilentStep

LEMMA TearDownStep ==
  ASSUME EventsInv, Disconnected \/ Crash \/ Replace
  PROVE  EventsInv'
<1>1. parked' \in [Connectors -> Nat] /\ link' \in {"down", "up", "closing"}
      /\ restarts' \in Nat /\ UNCHANGED <<begun, minted, events>>
  BY Still DEF Disconnected, Crash, Replace
<1>2. Shaped(runtime) /\ Shaped(disk)
  BY Still DEF Disconnected, Crash, Replace, TearDown, Shaped
<1>3. ASSUME NEW c \in Connectors
      PROVE  /\ runtime'[c] \in Runtime /\ disk'[c] \in Runtime
             /\ runtime'[c].tx \in {runtime[c].tx, disk[c].tx, NoTx}
             /\ disk'[c].tx \in {runtime[c].tx, disk[c].tx, NoTx}
  <2>1. [Fresh EXCEPT !.availability = runtime[c].availability] \in Runtime
        /\ [Fresh EXCEPT !.availability = runtime[c].availability].tx = NoTx
    BY FreshTyped, SoundParts DEF Runtime
  <2>2. CASE Disconnected
    <3>1. runtime'[c] = TornDown(c) /\ disk'[c] \in {disk[c], TornDown(c)}
      BY <2>2 DEF Disconnected, TearDown
    <3> QED
      BY <3>1, TornTyped, SoundParts
  <2>3. CASE Crash
    <3>1. runtime'[c] = disk[c] /\ disk'[c] = disk[c]
      BY <2>3 DEF Crash, Restored
    <3> QED
      BY <3>1, SoundParts
  <2>4. CASE Replace
    <3>1. runtime'[c] = [Fresh EXCEPT !.availability = runtime[c].availability]
          /\ disk'[c] \in {disk[c], TornDown(c)}
      BY <2>4 DEF Replace, TearDown
    <3> QED
      BY <2>1, <3>1, TornTyped, SoundParts
  <2> QED
    BY <2>2, <2>3, <2>4
<1> QED
  BY <1>1, <1>2, <1>3, Still, SilentStep

-----------------------------------------------------------------------------
(* The invariant and what follows from it.                                 *)

LEMMA EventsInit == Init => EventsInv
<1> SUFFICES ASSUME Init PROVE EventsInv
  OBVIOUS
<1>1. Fresh \in Runtime /\ Fresh.tx = NoTx
  BY FreshTyped
<1>2. TypeOK
  BY <1>1 DEF Init, TypeOK
<1>3. ASSUME NEW c \in Connectors
      PROVE  SoundAt(c)
  <2>1. /\ events[c] = <<>> /\ minted[c] = 0
        /\ runtime[c].tx = NoTx /\ disk[c].tx = NoTx
    BY <1>1 DEF Init
  <2>2. Log(<<>>, 0)
    BY DEF Log
  <2> QED
    BY <2>1, <2>2, NoTxTyped, Unminted DEF SoundAt
<1> QED
  BY <1>2, <1>3 DEF EventsInv

LEMMA EventsStep == EventsInv /\ [Next]_vars => EventsInv'
<1> SUFFICES ASSUME EventsInv, [Next]_vars PROVE EventsInv'
  OBVIOUS
<1>1. ASSUME NEW c \in Connectors, LocalStart(c)
      PROVE  EventsInv'
  <2>0. parked' = parked \/ parked' = [parked EXCEPT ![c] = @ + 1]
    BY <1>1 DEF LocalStart
  <2>1. parked' \in [Connectors -> Nat]
    BY <2>0, Still
  <2>2. CASE BeginTransaction(c)
    BY <2>1, <2>2, BeginStep
  <2>3. CASE UNCHANGED <<link, runtime, disk, begun, minted, events,
                         restarts>>
    BY <2>1, <2>3, Still, SoundParts, SilentStep DEF Shaped
  <2> QED
    BY <1>1, <2>2, <2>3 DEF LocalStart
<1>2. ASSUME NEW c \in Connectors, ResumeStart(c)
      PROVE  EventsInv'
  <2>0. parked' = [parked EXCEPT ![c] = @ - 1] /\ parked[c] > 0
    BY <1>2 DEF ResumeStart
  <2>1. parked' \in [Connectors -> Nat]
    BY <2>0, Still
  <2> QED
    BY <1>2, <2>1, BeginStep DEF ResumeStart
<1>3. ASSUME NEW c \in Connectors, RequestStartTransaction(c)
      PROVE  EventsInv'
  BY <1>3, Still, BeginStep DEF RequestStartTransaction
<1>4. ASSUME NEW c \in Connectors, RefuseStart(c)
      PROVE  EventsInv'
  <2>1. parked' \in [Connectors -> Nat]
        /\ UNCHANGED <<link, runtime, disk, begun, minted, events, restarts>>
    BY <1>4, Still DEF RefuseStart
  <2> QED
    BY <2>1, Still, SoundParts, SilentStep DEF Shaped
<1>5. ASSUME NEW c \in Connectors, LocalStop(c) \/ RequestStopTransaction(c)
      PROVE  EventsInv'
  BY <1>5, StopStep DEF LocalStop, RequestStopTransaction
<1>6. ASSUME NEW S \in SUBSET Connectors, Reset(S)
      PROVE  EventsInv'
  BY <1>6, StopStep DEF Reset
<1>7. ASSUME NEW c \in Connectors, SaveRuntime(c)
      PROVE  EventsInv'
  <2>1. disk' = [disk EXCEPT ![c] = runtime[c]]
        /\ UNCHANGED <<link, runtime, parked, begun, minted, events, restarts>>
    BY <1>7 DEF SaveRuntime
  <2>2. Shaped(disk) /\ Shaped(runtime)
    BY <2>1, Still DEF Shaped
  <2>3. \A d \in Connectors : disk'[d] \in {disk[d], runtime[d]}
    BY <2>1, Still
  <2> QED
    BY <2>1, <2>2, <2>3, Still, SoundParts, SilentStep
<1>8. ASSUME NEW c \in Connectors, NEW s \in UserStatuses, SetStatus(c, s)
      PROVE  EventsInv'
  <2>1. s \in Statuses
    BY EventsAssumption DEF Statuses, ChargingStates
  <2> QED
    BY <1>8, <2>1, ShowStep DEF SetStatus
<1>9. ASSUME BootAccepted
      PROVE  EventsInv'
  <2> DEFINE now == [c \in Connectors |->
               IF c \in AutoReset /\ ~Busy(c) THEN "Available" ELSE runtime[c].status]
  <2>1. \A c \in Connectors : now[c] \in Statuses
    BY SoundParts DEF Runtime, Statuses
  <2>2. Show(Connectors, now) /\ UNCHANGED <<link, parked, begun, restarts>>
    BY <1>9 DEF BootAccepted
  <2> HIDE DEF now
  <2> QED
    BY <2>1, <2>2, ShowStep
<1>10. ASSUME SocketOpens \/ SocketCloses \/ UNCHANGED vars
       PROVE  EventsInv'
  <2>1. link' \in {"down", "up", "closing"}
        /\ UNCHANGED <<runtime, disk, parked, begun, minted, events, restarts>>
    BY <1>10, Still DEF SocketOpens, SocketCloses, vars
  <2> QED
    BY <2>1, Still, SoundParts, SilentStep DEF Shaped
<1>11. \A S \in {Connectors} \cup {{c} : c \in Connectors} : S \in SUBSET Connectors
  OBVIOUS
<1> QED
  BY <1>1, <1>2, <1>3, <1>4, <1>5, <1>6, <1>7, <1>8, <1>9, <1>10, <1>11,
     NotifyStep, AvailabilityStep, TearDownStep DEF Next

THEOREM EventsInvariant == Spec => []EventsInv
  BY EventsInit, EventsStep, PTL DEF Spec

(* Every variable of the 2.0.1 event model keeps its type: no event        *)
(* without an id, no charging state outside the protocol's.                *)
THEOREM EventsTypeCorrect == Spec => []TypeOK
  BY EventsInvariant, PTL DEF EventsInv

(* cpNextSeqNo: whatever crashes, the numbers of an id run 0, 1, 2, ...    *)
THEOREM NumbersAlwaysRun == Spec => []NumbersRun
<1>1. EventsInv => NumbersRun
  BY DEF EventsInv, SoundAt, Log, NumbersRun
<1> QED
  BY <1>1, EventsInvariant, PTL

(* No restart brings back a transaction whose Ended was issued.            *)
THEOREM EndedStaysLast == Spec => []EndedIsLast
<1>1. EventsInv => EndedIsLast
  BY DEF EventsInv, SoundAt, Log, EndedIsLast
<1> QED
  BY <1>1, EventsInvariant, PTL

(* A row that has an id has seen every event of that id.                   *)
THEOREM RowStaysCurrent == Spec => []RowIsCurrent
<1>1. EventsInv => RowIsCurrent
  BY DEF EventsInv, SoundAt, Fitting, RowIsCurrent
<1> QED
  BY <1>1, EventsInvariant, PTL
=============================================================================
