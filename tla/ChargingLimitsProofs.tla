------------------------ MODULE ChargingLimitsProofs -------------------------
(***************************************************************************)
(* What TLAPS proves of ChargingLimits, for any profiles, horizon and      *)
(* bounds: its types, that a TxProfile ends with its transaction, that the *)
(* resolver finds one limit, and that a composite schedule is exact.       *)
(***************************************************************************)
EXTENDS ChargingLimits, SequenceTheorems, WellFoundedInduction, TLAPS

-----------------------------------------------------------------------------
(* Numbers and sequences.                                                  *)

(* A set of naturals has a least member: what an induction over the        *)
(* instants of a window, or over the members of a sequence, starts from.   *)
LEMMA Least ==
  ASSUME NEW T \in SUBSET Nat, T # {}
  PROVE  \E m \in T : \A n \in T : m <= n
<1> DEFINE R == {ss \in Nat \X Nat : ss[1] < ss[2]}
<1>1. IsWellFoundedOn(R, Nat)
  BY NatLessThanWellFounded DEF OpToRel
<1>2. \A n \in T, m \in T : <<n, m>> \notin R => m <= n
  OBVIOUS
<1> HIDE DEF R
<1>3. \E m \in T : \A n \in T : <<n, m>> \notin R
  BY <1>1, WFMin
<1> QED BY <1>2, <1>3

(* A bounded one has a greatest.                                           *)
LEMMA Greatest ==
  ASSUME NEW T \in SUBSET Nat, T # {}, NEW b \in Nat, \A n \in T : n <= b
  PROVE  \E m \in T : \A n \in T : n <= m
<1> DEFINE D == {b - n : n \in T}
<1>0. \A n \in T : n \in Nat /\ b - n \in Nat
  OBVIOUS
<1>1. D \in SUBSET Nat /\ D # {}
  <2>1. D \subseteq Nat
    BY <1>0
  <2> QED BY <2>1
<1>2. PICK e \in D : \A n \in D : e <= n
  BY <1>1, Least
<1>3. PICK m \in T : e = b - m
  BY <1>2
<1>4. \A n \in T : b - m <= b - n
  BY <1>2, <1>3
<1> QED BY <1>4

(* Division with remainder: it exists, and is unique.                      *)
LEMMA Remainder ==
  ASSUME NEW n \in Nat, NEW c \in Nat \ {0}
  PROVE  /\ n \div c \in Nat /\ n % c \in 0..(c - 1)
         /\ n = (n \div c) * c + (n % c)
OBVIOUS

LEMMA RemainderUnique ==
  ASSUME NEW c \in Nat \ {0}, NEW q \in Nat, NEW r \in 0..(c - 1)
  PROVE  (q * c + r) % c = r /\ (q * c + r) \div c = q
OBVIOUS

-----------------------------------------------------------------------------
(* What removing profiles leaves of a sequence.                            *)
Members(s) == {s[i] : i \in DOMAIN s}

(* k is the function that Without defines, as far as m.                    *)
Keeps(s, P, m, k) ==
  k = [n \in 0..m |-> IF n = 0 THEN <<>>
                      ELSE IF s[n] \in P THEN k[n - 1]
                      ELSE Append(k[n - 1], s[n])]

LEMMA KeepsExists ==
  ASSUME NEW s, NEW P, NEW l \in Nat
  PROVE  \E k : Keeps(s, P, l, k)
<1> DEFINE Bad == {m \in Nat : ~ \E k : Keeps(s, P, m, k)}
<1> SUFFICES ASSUME Bad # {} PROVE FALSE
  OBVIOUS
<1>1. PICK m \in Bad : \A n \in Bad : m <= n
  <2>1. Bad \in SUBSET Nat
    OBVIOUS
  <2> HIDE DEF Bad
  <2> QED BY <2>1, Least
<1>2. m # 0
  <2>1. Keeps(s, P, 0, [n \in 0..0 |-> <<>>])
    BY DEF Keeps
  <2> QED BY <1>1, <2>1
<1>3. m - 1 \in Nat /\ m - 1 \notin Bad
  BY <1>1, <1>2
<1>4. PICK k : Keeps(s, P, m - 1, k)
  BY <1>3
<1> DEFINE new == IF s[m] \in P THEN k[m - 1] ELSE Append(k[m - 1], s[m])
           j == [n \in 0..m |-> IF n = m THEN new ELSE k[n]]
<1>5. \A n \in 0..m : j[n] = IF n = 0 THEN <<>>
                             ELSE IF s[n] \in P THEN j[n - 1]
                             ELSE Append(j[n - 1], s[n])
  <2> SUFFICES ASSUME NEW n \in 0..m
               PROVE  j[n] = IF n = 0 THEN <<>>
                             ELSE IF s[n] \in P THEN j[n - 1]
                             ELSE Append(j[n - 1], s[n])
    OBVIOUS
  <2>1. CASE n = m
    <3>1. j[m] = new /\ j[m - 1] = k[m - 1]
      BY <1>2, <1>3
    <3> QED BY <1>2, <2>1, <3>1
  <2>2. CASE n # m
    <3>1. n \in 0..(m - 1) /\ j[n] = k[n] /\ (n # 0 => j[n - 1] = k[n - 1])
      BY <1>3, <2>2
    <3>2. k[n] = IF n = 0 THEN <<>>
                 ELSE IF s[n] \in P THEN k[n - 1]
                 ELSE Append(k[n - 1], s[n])
      BY <1>4, <3>1 DEF Keeps
    <3> QED BY <3>1, <3>2
  <2> QED BY <2>1, <2>2
<1>6. Keeps(s, P, m, j)
  <2> HIDE DEF new
  <2>1. j = [n \in 0..m |-> j[n]]
    OBVIOUS
  <2> HIDE DEF j
  <2> QED BY <1>5, <2>1 DEF Keeps
<1> QED BY <1>1, <1>6

LEMMA MembersAppend ==
  ASSUME NEW S, NEW q \in Seq(S), NEW c \in S
  PROVE  /\ Append(q, c) \in Seq(S)
         /\ Members(Append(q, c)) = Members(q) \cup {c}
<1>1. /\ DOMAIN Append(q, c) = 1..(Len(q) + 1) /\ DOMAIN q = 1..Len(q)
      /\ Len(q) \in Nat /\ Append(q, c) \in Seq(S)
      /\ \A i \in 1..Len(q) : Append(q, c)[i] = q[i]
      /\ Append(q, c)[Len(q) + 1] = c
  OBVIOUS
<1>2. Members(Append(q, c)) \subseteq Members(q) \cup {c}
  BY <1>1 DEF Members
<1>3. Members(q) \subseteq Members(Append(q, c))
  BY <1>1 DEF Members
<1>4. c \in Members(Append(q, c))
  BY <1>1 DEF Members
<1> QED BY <1>1, <1>2, <1>3, <1>4

LEMMA WithoutFacts ==
  ASSUME NEW S, NEW s \in Seq(S), NEW P
  PROVE  /\ Without(s, P) \in Seq(S)
         /\ Members(Without(s, P)) = Members(s) \ P
<1>0. Len(s) \in Nat /\ DOMAIN s = 1..Len(s) /\ \A n \in 1..Len(s) : s[n] \in S
  OBVIOUS
<1> DEFINE K == CHOOSE k : Keeps(s, P, Len(s), k)
<1>1. Keeps(s, P, Len(s), K)
  BY <1>0, KeepsExists
<1>2. Without(s, P) = K[Len(s)]
  BY DEF Without, Keeps
<1> HIDE DEF K
<1>3. \A n \in 0..Len(s) :
        K[n] = IF n = 0 THEN <<>> ELSE IF s[n] \in P THEN K[n - 1]
                                  ELSE Append(K[n - 1], s[n])
  BY <1>1 DEF Keeps
<1> DEFINE Good(n) == /\ K[n] \in Seq(S)
                      /\ Members(K[n]) = {s[i] : i \in 1..n} \ P
           Bad == {n \in 0..Len(s) : ~Good(n)}
<1>4. Bad = {}
  <2> SUFFICES ASSUME Bad # {} PROVE FALSE
    OBVIOUS
  <2>1. PICK m \in Bad : \A n \in Bad : m <= n
    <3>1. Bad \in SUBSET Nat
      BY <1>0
    <3> HIDE DEF Bad
    <3> QED BY <3>1, Least
  <2>2. m # 0
    <3>1. K[0] = <<>> /\ Members(<<>>) = {}
      BY <1>0, <1>3 DEF Members
    <3>2. Good(0)
      BY <3>1
    <3> QED BY <2>1, <3>2
  <2>3. m \in 1..Len(s) /\ m - 1 \in 0..Len(s) /\ Good(m - 1)
    <3>1. m \in 0..Len(s)
      BY <2>1
    <3>2. m \in 1..Len(s) /\ m - 1 \in 0..Len(s) /\ ~(m <= m - 1)
      BY <1>0, <2>2, <3>1
    <3>3. m - 1 \notin Bad
      <4> HIDE DEF Bad
      <4> QED BY <2>1, <3>2
    <3> QED BY <3>2, <3>3
  <2>4. {s[i] : i \in 1..m} = {s[i] : i \in 1..(m - 1)} \cup {s[m]}
    BY <2>3
  <2>5. CASE s[m] \in P
    <3>1. K[m] = K[m - 1]
      BY <1>3, <2>3, <2>5
    <3>2. Good(m)
      BY <2>3, <2>4, <2>5, <3>1
    <3> QED BY <2>1, <3>2
  <2>6. CASE s[m] \notin P
    <3>0. m \in 0..Len(s) /\ m # 0
      BY <1>0, <2>2, <2>3
    <3>1. K[m] = Append(K[m - 1], s[m]) /\ K[m - 1] \in Seq(S) /\ s[m] \in S
      <4> HIDE DEF Bad
      <4> QED BY <1>0, <1>3, <2>3, <2>6, <3>0
    <3>2. Members(K[m]) = Members(K[m - 1]) \cup {s[m]} /\ K[m] \in Seq(S)
      BY <3>1, MembersAppend
    <3>3. Good(m)
      BY <2>3, <2>4, <2>6, <3>2
    <3> QED BY <2>1, <3>3
  <2> QED BY <2>5, <2>6
<1>5. Good(Len(s))
  <2>1. Len(s) \in 0..Len(s)
    BY <1>0
  <2> HIDE DEF Good
  <2> QED BY <1>4, <2>1
<1> QED BY <1>0, <1>2, <1>5 DEF Members

-----------------------------------------------------------------------------
(* What the parts of a macrotask do to the connector: looking at the limit *)
(* changes the status and the pause shown, never a profile, a transaction  *)
(* or the meter.                                                           *)
Watches(c, d) ==
  d \in Connector /\ d.own = c.own /\ d.tx = c.tx /\ d.metering = c.metering

LEMMA ShowPauseWatches ==
  ASSUME NEW c \in Connector, NEW paused \in BOOLEAN
  PROVE  Watches(c, ShowPause(c, paused))
BY DEF Watches, ShowPause, Connector, Statuses

LEMMA LookedWatches ==
  ASSUME NEW c \in Connector, NEW st
  PROVE  Watches(c, Looked(c, st))
<1> DEFINE limit == Effective(c, st, clock)
           paused == IF limit = 0 THEN "yes" ELSE "no"
           d == [c EXCEPT !.paused = paused]
<1>1. paused \in {"yes", "no"}
  OBVIOUS
<1>2. d \in Connector /\ d.own = c.own /\ d.tx = c.tx /\ d.metering = c.metering
  BY <1>1 DEF Connector
<1>3. Watches(d, ShowPause(d, limit = 0))
  BY <1>2, ShowPauseWatches
<1>4. Watches(c, [c EXCEPT !.paused = "unknown"])
  BY DEF Watches, Connector
<1>5. Watches(c, c)
  BY DEF Watches
<1>6. Looked(c, st) \in {[c EXCEPT !.paused = "unknown"], c, ShowPause(d, limit = 0)}
  BY DEF Looked
<1> QED BY <1>2, <1>3, <1>4, <1>5, <1>6 DEF Watches

LEMMA SampledWatches ==
  ASSUME NEW c \in Connector, NEW st
  PROVE  Watches(c, Sampled(c, st))
BY LookedWatches DEF Sampled, Watches

LEMMA AppliedWatches ==
  ASSUME NEW c \in Connector, NEW st
  PROVE  Watches(c, Applied(c, st))
<1>1. Watches(c, Applied16(c, st))
  BY DEF Applied16, Watches, Connector, Statuses
<1>2. Watches(c, Applied201(c, st))
  <2>1. Watches(c, Looked(c, st))
    BY LookedWatches
  <2>2. Watches(Looked(c, st), ShowPause(Looked(c, st), Effective(c, st, clock) = 0))
    BY <2>1, ShowPauseWatches DEF Watches
  <2> QED BY <2>1, <2>2 DEF Applied201, Watches
<1> QED BY <1>1, <1>2 DEF Applied

(* A stop ends the transaction and drops its profiles.                     *)
LEMMA StoppedFacts ==
  ASSUME NEW c \in Connector
  PROVE  /\ Stopped(c) \in Connector /\ Stopped(c).tx = NoTx
         /\ \A p \in Members(Stopped(c).own) : p.purpose # "TxProfile"
<1>1. c.own \in Seq(Profiles)
  BY DEF Connector
<1>2. /\ Without(c.own, TxProfiles) \in Seq(Profiles)
      /\ Members(Without(c.own, TxProfiles)) = Members(c.own) \ TxProfiles
  BY <1>1, WithoutFacts
<1>3. Members(c.own) \subseteq Profiles
  BY <1>1 DEF Members
<1>4. Stopped(c) \in Connector /\ Stopped(c).tx = NoTx
      /\ Stopped(c).own = Without(c.own, TxProfiles)
  BY <1>2 DEF Stopped, Connector, Statuses, NoTx
<1> QED BY <1>2, <1>3, <1>4 DEF TxProfiles

LEMMA AddedFacts ==
  ASSUME NEW s \in Seq(Profiles), NEW p \in Profiles
  PROVE  /\ Added(s, p) \in Seq(Profiles)
         /\ Members(Added(s, p)) = {q \in Members(s) : q.id # p.id} \cup {p}
<1> DEFINE P == {q \in Profiles : q.id = p.id}
           w == Without(s, P)
<1>1. w \in Seq(Profiles) /\ Members(w) = Members(s) \ P
  BY WithoutFacts
<1>2. Members(s) \subseteq Profiles
  BY DEF Members
<1>3. Added(s, p) = Append(w, p)
  BY DEF Added
<1>4. Members(w) = {q \in Members(s) : q.id # p.id}
  BY <1>1, <1>2
<1> HIDE DEF w
<1> QED BY <1>1, <1>3, <1>4, MembersAppend

LEMMA ClearedFacts ==
  ASSUME NEW s \in Seq(Profiles), NEW P, NEW chosen \in BOOLEAN
  PROVE  /\ Cleared(s, P, chosen) \in Seq(Profiles)
         /\ Members(Cleared(s, P, chosen)) \subseteq Members(s)
BY WithoutFacts DEF Cleared

-----------------------------------------------------------------------------
(* Types, and TxProfiles that end with their transaction.                  *)

(* A running transaction was begun here.                                   *)
LimitsInv == TypeOK /\ connector.tx.no <= begun /\ TxProfileEnds

(* TxProfileEnds of the profiles "own" beside the transaction "no".        *)
Ends(own, no) ==
  \A p \in Members(own) :
    p.purpose = "TxProfile" /\ since[p.id] # 0 => since[p.id] = no \/ overtaken

LEMMA EndsIs ==
  /\ TxProfileEnds <=> Ends(connector.own, connector.tx.no)
  /\ TxProfileEnds' <=> Ends(connector.own, connector.tx.no)'
BY DEF TxProfileEnds, Ends, Members

LEMMA LimitsInit == Init => LimitsInv
<1> SUFFICES ASSUME Init PROVE LimitsInv
  OBVIOUS
<1>1. connector \in Connector /\ connector.tx.no = 0 /\ connector.own = <<>>
  BY DEF Init, Connector, Statuses, NoTx
<1>2. TxProfileEnds
  BY <1>1 DEF TxProfileEnds
<1>3. /\ clock \in 0..MaxTime /\ begun \in 0..MaxTx
      /\ since \in [{p.id : p \in Profiles} -> 0..MaxTx]
  BY LimitsAssumption DEF Init, LimitsAssumption
<1>4. begun = 0 /\ station \in Seq(Profiles) /\ online \in BOOLEAN
      /\ overtaken \in BOOLEAN /\ awaiting \subseteq {"start", "stop"}
      /\ protocol \in Protocols /\ autoReset \in AutoReset
  <2>1. station \in Seq(Profiles)
    BY DEF Init
  <2>2. begun = 0 /\ online \in BOOLEAN /\ overtaken \in BOOLEAN /\ awaiting = {}
    BY DEF Init
  <2>3. protocol \in Protocols /\ autoReset \in AutoReset
    BY DEF Init
  <2> QED BY <2>1, <2>2, <2>3
<1>5. connector.tx.no <= begun
  BY <1>1, <1>4
<1> QED BY <1>1, <1>2, <1>3, <1>4, <1>5 DEF LimitsInv, TypeOK

(* A step that only watches, or forgets profiles, keeps the invariant.     *)
LEMMA WatchingKeeps ==
  ASSUME LimitsInv, connector' \in Connector, connector'.tx = connector.tx,
         Members(connector'.own) \subseteq Members(connector.own),
         UNCHANGED <<protocol, autoReset, clock, begun, since, overtaken>>,
         station' \in Seq(Profiles), online' \in BOOLEAN,
         awaiting' \subseteq {"start", "stop"}
  PROVE  LimitsInv'
<1>1. TxProfileEnds'
  BY EndsIs DEF LimitsInv, Ends
<1> QED BY <1>1 DEF LimitsInv, TypeOK

(* A step that ends the transaction and drops its profiles.                *)
LEMMA StoppingKeeps ==
  ASSUME LimitsInv, connector' \in Connector, connector'.tx = NoTx,
         \A p \in Members(connector'.own) : p.purpose # "TxProfile",
         UNCHANGED <<protocol, autoReset, clock, begun, since, overtaken, station,
                     online>>,
         awaiting' \subseteq {"start", "stop"}
  PROVE  LimitsInv'
<1>1. TxProfileEnds'
  BY EndsIs DEF Ends
<1>2. connector'.tx.no <= begun'
  BY DEF LimitsInv, TypeOK, NoTx
<1> QED BY <1>1, <1>2 DEF LimitsInv, TypeOK

LEMMA ProfileInstalled ==
  ASSUME LimitsInv, NEW p \in Profiles, SetChargingProfile(p)
  PROVE  LimitsInv'
<1>0. /\ connector \in Connector /\ connector.own \in Seq(Profiles)
      /\ station \in Seq(Profiles) /\ p.id \in DOMAIN since
  BY DEF LimitsInv, TypeOK, Connector
<1>1. CASE station' = Added(station, p) /\ UNCHANGED since
             /\ connector' = Applied(connector, station')
  <2>1. station' \in Seq(Profiles)
    BY <1>0, <1>1, AddedFacts
  <2>2. Watches(connector, connector')
    BY <1>0, <1>1, AppliedWatches
  <2> QED BY <1>1, <2>1, <2>2, WatchingKeeps
          DEF SetChargingProfile, Watches, fixed, LimitsInv, TypeOK
<1>2. CASE /\ connector' = Applied([connector EXCEPT !.own = Added(@, p)], station)
           /\ since' = [since EXCEPT ![p.id] = connector.tx.no]
           /\ UNCHANGED station
  <2> DEFINE c == [connector EXCEPT !.own = Added(@, p)]
  <2>1. /\ Added(connector.own, p) \in Seq(Profiles)
        /\ Members(Added(connector.own, p))
             = {q \in Members(connector.own) : q.id # p.id} \cup {p}
    BY <1>0, AddedFacts
  <2>2. c \in Connector /\ c.own = Added(connector.own, p) /\ c.tx = connector.tx
    BY <1>0, <2>1 DEF Connector
  <2>3. Watches(c, connector')
    BY <1>2, <2>2, AppliedWatches
  <2>4. connector' \in Connector /\ connector'.tx = connector.tx
        /\ Members(connector'.own)
             = {q \in Members(connector.own) : q.id # p.id} \cup {p}
    BY <2>1, <2>2, <2>3 DEF Watches
  <2>5. UNCHANGED <<protocol, autoReset, clock, online, awaiting, begun, overtaken>>
    BY DEF SetChargingProfile, fixed
  <2>6. /\ since'[p.id] = connector.tx.no
        /\ \A i \in DOMAIN since : i # p.id => since'[i] = since[i]
    BY <1>0, <1>2 DEF LimitsInv, TypeOK
  <2>7. Members(connector.own) \subseteq Profiles
    BY <1>0 DEF Members
  <2>8. \A q \in Members(connector.own) : q.id \in DOMAIN since
    BY <2>7 DEF LimitsInv, TypeOK
  <2>9. TxProfileEnds'
    BY <2>4, <2>5, <2>6, <2>8, EndsIs DEF LimitsInv, Ends
  <2>10. connector.tx.no \in 0..MaxTx
    BY <1>0, LimitsAssumption DEF LimitsInv, TypeOK, Connector, LimitsAssumption
  <2>11. since' \in [{q.id : q \in Profiles} -> 0..MaxTx]
    BY <1>2, <2>10 DEF LimitsInv, TypeOK
  <2> QED BY <1>2, <2>4, <2>5, <2>9, <2>11 DEF LimitsInv, TypeOK
<1> QED BY <1>1, <1>2 DEF SetChargingProfile

LEMMA ProfilesCleared ==
  ASSUME LimitsInv, NEW P, NEW s \in BOOLEAN, NEW c \in BOOLEAN,
         ClearChargingProfile(P, s, c)
  PROVE  LimitsInv'
<1> DEFINE st == Cleared(station, P, s)
           d == IF protocol = "1.6" /\ st # station THEN Applied(connector, st)
                ELSE connector
           own == Cleared(d.own, P, c)
           e == [d EXCEPT !.own = own]
<1>0. /\ connector \in Connector /\ connector.own \in Seq(Profiles)
      /\ station \in Seq(Profiles)
  BY DEF LimitsInv, TypeOK, Connector
<1>1. st \in Seq(Profiles)
  BY <1>0, ClearedFacts
<1>2. Watches(connector, d)
  <2>1. Watches(connector, connector)
    BY <1>0 DEF Watches
  <2> QED BY <1>0, <2>1, AppliedWatches
<1>3. /\ station' = st
      /\ connector' = IF protocol = "1.6" /\ own = d.own THEN e ELSE Applied(e, st)
      /\ UNCHANGED <<protocol, autoReset, clock, online, awaiting, begun, since,
                     overtaken>>
  BY DEF ClearChargingProfile, fixed, history
<1> HIDE DEF st, d
<1>4. own \in Seq(Profiles) /\ Members(own) \subseteq Members(connector.own)
  BY <1>0, <1>2, ClearedFacts DEF Watches
<1> HIDE DEF own
<1>5. e \in Connector /\ e.own = own /\ e.tx = connector.tx
  BY <1>2, <1>4 DEF Watches, Connector
<1>6. Watches(e, connector')
  <2>1. Watches(e, e)
    BY <1>5 DEF Watches
  <2> HIDE DEF e
  <2> QED BY <1>3, <1>5, <2>1, AppliedWatches
<1> HIDE DEF e
<1> QED BY <1>1, <1>3, <1>4, <1>5, <1>6, WatchingKeeps
        DEF Watches, LimitsInv, TypeOK

(* The transaction a Stop.conf ends may be the newer one: it is noted.     *)
LEMMA StopAnswered ==
  ASSUME LimitsInv, StopConfirmed
  PROVE  LimitsInv'
<1>1. /\ connector' \in Connector /\ connector'.tx = NoTx
      /\ connector'.own = connector.own
  BY DEF LimitsInv, TypeOK, StopConfirmed, Connector, Statuses, NoTx
<1>2. /\ UNCHANGED <<protocol, autoReset, clock, station, online, begun, since>>
      /\ overtaken' = (overtaken \/ connector.tx # NoTx)
      /\ awaiting' \subseteq {"start", "stop"}
  BY DEF LimitsInv, TypeOK, StopConfirmed, fixed
<1>3. TxProfileEnds'
  <2>1. connector.tx # NoTx => overtaken'
    BY <1>2
  <2>2. connector.tx = NoTx => overtaken' = overtaken
    BY <1>2 DEF LimitsInv, TypeOK
  <2> QED BY <1>1, <1>2, <2>1, <2>2, EndsIs DEF LimitsInv, Ends
<1>4. connector'.tx.no <= begun'
  BY <1>1, <1>2 DEF LimitsInv, TypeOK, NoTx
<1>5. overtaken' \in BOOLEAN
  BY <1>2
<1> QED BY <1>1, <1>2, <1>3, <1>4, <1>5 DEF LimitsInv, TypeOK

(* A new transaction finds no TxProfile of an earlier one.                 *)
LEMMA TransactionBegins ==
  ASSUME LimitsInv, StartTransaction
  PROVE  LimitsInv'
<1>1. /\ connector' \in Connector /\ connector'.tx.no = begun + 1
      /\ connector'.own = connector.own /\ connector.tx = NoTx
  <2>1. PICK m \in BOOLEAN :
          connector' = [connector EXCEPT !.tx = [no |-> begun + 1, start |-> clock],
                                         !.metering = m, !.status = "Preparing"]
    BY DEF StartTransaction
  <2>2. [no |-> begun + 1, start |-> clock] \in [no : Nat, start : Nat]
    BY LimitsAssumption DEF LimitsInv, TypeOK, LimitsAssumption
  <2>3. connector \in Connector /\ connector.tx = NoTx
    BY DEF LimitsInv, TypeOK, StartTransaction
  <2> QED BY <2>1, <2>2, <2>3 DEF Connector, Statuses
<1>2. /\ UNCHANGED <<protocol, autoReset, clock, station, online, since, overtaken>>
      /\ begun' = begun + 1 /\ begun < MaxTx
  BY DEF StartTransaction, fixed
<1>3. awaiting' \subseteq {"start", "stop"}
  BY DEF LimitsInv, TypeOK, StartTransaction
<1>4. TxProfileEnds'
  BY <1>1, <1>2, EndsIs DEF LimitsInv, Ends, NoTx
<1>5. begun' \in 0..MaxTx /\ connector'.tx.no <= begun'
  BY <1>1, <1>2, LimitsAssumption DEF LimitsInv, TypeOK, LimitsAssumption
<1> QED BY <1>1, <1>2, <1>3, <1>4, <1>5 DEF LimitsInv, TypeOK

(* The meter's own tick may stop the transaction, and samples after that.  *)
LEMMA MeterTicks ==
  ASSUME LimitsInv, Tick
  PROVE  LimitsInv'
<1> DEFINE c == Looked(connector, station)
<1>0. /\ connector \in Connector /\ Watches(connector, c)
      /\ UNCHANGED <<protocol, autoReset, clock, begun, since, overtaken, station,
                     online>>
  BY LookedWatches DEF LimitsInv, TypeOK, Tick, fixed, history
<1>1. \/ connector' = Sampled(c, station) /\ UNCHANGED awaiting
      \/ /\ connector' = Sampled(Stopped(c), station)
         /\ awaiting' = awaiting \cup StopAsked
  BY DEF Tick
<1>2. awaiting' \subseteq {"start", "stop"}
  BY <1>1 DEF LimitsInv, TypeOK, StopAsked
<1> HIDE DEF c
<1>3. CASE connector' = Sampled(c, station)
  <2>1. Watches(c, connector')
    BY <1>0, <1>3, SampledWatches DEF Watches
  <2> QED BY <1>0, <1>2, <2>1, WatchingKeeps DEF Watches, LimitsInv, TypeOK
<1>4. CASE connector' = Sampled(Stopped(c), station)
  <2>1. /\ Stopped(c) \in Connector /\ Stopped(c).tx = NoTx
        /\ \A p \in Members(Stopped(c).own) : p.purpose # "TxProfile"
    BY <1>0, StoppedFacts DEF Watches
  <2>2. Watches(Stopped(c), connector')
    BY <1>4, <2>1, SampledWatches
  <2> QED BY <1>0, <1>2, <2>1, <2>2, StoppingKeeps DEF Watches
<1> QED BY <1>1, <1>3, <1>4

LEMMA LimitsStep ==
  ASSUME LimitsInv, [Next]_vars
  PROVE  LimitsInv'
<1>0. connector \in Connector /\ station \in Seq(Profiles) /\ online \in BOOLEAN
      /\ awaiting \subseteq {"start", "stop"}
  BY DEF LimitsInv, TypeOK
<1>1. ASSUME NEW p \in Profiles, SetChargingProfile(p)
      PROVE  LimitsInv'
  BY <1>1, ProfileInstalled
<1>2. ASSUME NEW P \in Selections, NEW s \in BOOLEAN, NEW c \in BOOLEAN,
             ClearChargingProfile(P, s, c)
      PROVE  LimitsInv'
  BY <1>2, ProfilesCleared
<1>3. CASE StartConfirmed \/ StartFails
  <2>1. connector' \in Connector /\ connector'.tx = connector.tx
        /\ connector'.own = connector.own
    BY <1>0, <1>3 DEF StartConfirmed, StartFails, Connector, Statuses
  <2> QED BY <1>0, <1>3, <2>1, WatchingKeeps
          DEF StartConfirmed, StartFails, fixed, history
<1>4. CASE StopConfirmed
  BY <1>4, StopAnswered
<1>5. CASE StartTransaction
  BY <1>5, TransactionBegins
<1>6. CASE StopTransaction
  <2>1. /\ connector' \in Connector /\ connector'.tx = NoTx
        /\ \A p \in Members(connector'.own) : p.purpose # "TxProfile"
    BY <1>0, <1>6, StoppedFacts DEF StopTransaction
  <2>2. awaiting' \subseteq {"start", "stop"}
    BY <1>0, <1>6 DEF StopTransaction, StopAsked
  <2> QED BY <1>6, <2>1, <2>2, StoppingKeeps DEF StopTransaction, fixed, history
<1>7. CASE ConfigureMeter
  <2>1. connector' \in Connector /\ connector'.tx = connector.tx
        /\ connector'.own = connector.own
    BY <1>0, <1>7 DEF ConfigureMeter, Connector
  <2> QED BY <1>0, <1>7, <2>1, WatchingKeeps DEF ConfigureMeter, fixed, history
<1>8. ASSUME NEW s \in UserStatuses, SetStatus(s)
      PROVE  LimitsInv'
  <2>1. connector' \in Connector /\ connector'.tx = connector.tx
        /\ connector'.own = connector.own
    BY <1>0, <1>8, LimitsAssumption DEF SetStatus, Connector, Statuses, LimitsAssumption
  <2> QED BY <1>0, <1>8, <2>1, WatchingKeeps DEF SetStatus, fixed, history
<1>9. CASE SendMeterValue
  <2>1. Watches(connector, connector')
    BY <1>0, <1>9, SampledWatches DEF SendMeterValue
  <2> QED BY <1>0, <1>9, <2>1, WatchingKeeps
          DEF Watches, SendMeterValue, fixed, history
<1>10. CASE Tick
  BY <1>10, MeterTicks
<1>11. CASE ConnectionLost \/ BootAccepted
  <2>1. connector' \in Connector /\ connector'.tx = connector.tx
        /\ connector'.own = connector.own
    BY <1>0, <1>11 DEF ConnectionLost, BootAccepted, Connector, Statuses
  <2>2. station' \in Seq(Profiles) /\ online' \in BOOLEAN
    <3>1. CASE ConnectionLost
      <4>1. station' = <<>> /\ online' = FALSE
        BY <3>1 DEF ConnectionLost
      <4>2. <<>> \in Seq(Profiles)
        OBVIOUS
      <4>3. station' \in Seq(Profiles)
        BY <4>1, <4>2
      <4>4. online' \in BOOLEAN
        BY <4>1
      <4> QED BY <4>3, <4>4
    <3>2. CASE BootAccepted
      BY <1>0, <3>2 DEF BootAccepted
    <3> QED BY <1>11, <3>1, <3>2
  <2> QED BY <1>0, <1>11, <2>1, <2>2, WatchingKeeps
          DEF ConnectionLost, BootAccepted, fixed, history
<1>12. CASE TimePasses
  <2>1. /\ clock' \in 0..MaxTime
        /\ UNCHANGED <<protocol, autoReset, connector, station, online, awaiting,
                       begun, since, overtaken>>
    BY <1>12, LimitsAssumption
       DEF TimePasses, fixed, history, LimitsInv, TypeOK, LimitsAssumption
  <2> QED BY <2>1 DEF LimitsInv, TypeOK, TxProfileEnds
<1>13. CASE UNCHANGED vars
  BY <1>13 DEF vars, LimitsInv, TypeOK, TxProfileEnds
<1> QED BY <1>1, <1>2, <1>3, <1>4, <1>5, <1>6, <1>7, <1>8, <1>9, <1>10, <1>11,
           <1>12, <1>13 DEF Next

(* The station, the connector and the clock stay within their types: no    *)
(* install, clear, tick or connection loss leaves a malformed record.      *)
THEOREM LimitsTypeCorrect == Spec => []TypeOK
<1>1. LimitsInv => TypeOK
  BY DEF LimitsInv
<1> QED BY <1>1, LimitsInit, LimitsStep, PTL DEF Spec

(* A TxProfile never limits the transaction after the one it was installed *)
(* in, whoever stops that one, the meter within its own tick too, unless   *)
(* the Stop.conf of an older transaction dropped the newer one unnoticed.  *)
THEOREM TxProfilesEnd == Spec => []TxProfileEnds
<1>1. LimitsInv => TxProfileEnds
  BY DEF LimitsInv
<1> QED BY <1>1, LimitsInit, LimitsStep, PTL DEF Spec
-----------------------------------------------------------------------------
(* One limit at an instant: the choices the resolver makes have an answer. *)

LEMMA ProfileFacts ==
  ASSUME NEW p \in Profiles
  PROVE  /\ p \in Profile /\ p.cycle \in Nat \ {0}
         /\ p.from \in Nat \cup {None} /\ p.stackLevel \in Nat
         /\ p.periods \in Seq(Period) /\ Len(p.periods) \in Nat
         /\ DOMAIN p.periods = 1..Len(p.periods)
         /\ \A i \in DOMAIN p.periods : p.periods[i] \in Period
         /\ \E i \in DOMAIN p.periods : p.periods[i].start = 0
<1>1. p \in Profile /\ \E i \in DOMAIN p.periods : p.periods[i].start = 0
  BY LimitsAssumption DEF LimitsAssumption
<1>2. /\ p.cycle \in Nat \ {0} /\ p.from \in Nat \cup {None}
      /\ p.stackLevel \in Nat /\ p.periods \in Seq(Period)
  BY <1>1 DEF Profile
<1>3. /\ Len(p.periods) \in Nat /\ DOMAIN p.periods = 1..Len(p.periods)
      /\ \A i \in DOMAIN p.periods : p.periods[i] \in Period
  BY <1>2
<1> QED BY <1>1, <1>2, <1>3

LEMMA StartIsNat ==
  ASSUME NEW p \in Profiles, NEW i \in DOMAIN p.periods
  PROVE  p.periods[i].start \in Nat /\ p.periods[i].limit \in 0..(Uncapped - 1)
<1>1. p.periods[i] \in Period
  BY ProfileFacts
<1> QED BY <1>1 DEF Period

LEMMA UncappedIsNat == Uncapped \in Nat
BY SMT DEF Uncapped

(* Among the periods begun one is the latest: its limit is what counts.    *)
THEOREM LatestPeriodLimits ==
  ASSUME NEW p \in Profiles, NEW start \in Nat, NEW now \in Nat
  PROVE  \E i \in Begun(p, Elapsed(p, start, now)) :
           /\ \A j \in Begun(p, Elapsed(p, start, now)) : Later(p, i, j)
           /\ Limit(p, start, now) = p.periods[i].limit
<1> DEFINE e == Elapsed(p, start, now)
           B == Begun(p, e)
           S == {p.periods[i].start : i \in B}
<1>0. /\ p.cycle \in Nat \ {0} /\ p.from \in Nat \cup {None}
      /\ Len(p.periods) \in Nat /\ DOMAIN p.periods = 1..Len(p.periods)
      /\ \E i \in DOMAIN p.periods : p.periods[i].start = 0
      /\ \A i \in DOMAIN p.periods : p.periods[i].start \in Nat
  BY ProfileFacts, StartIsNat
<1>1. e \in Nat
  <2>1. Reference(p, start) \in Nat
    BY <1>0 DEF Reference, None
  <2>2. Positive(now - Reference(p, start)) \in Nat
    BY <2>1 DEF Positive
  <2>3. \A n \in Nat : n % p.cycle \in Nat
    BY <1>0
  <2> QED BY <2>2, <2>3 DEF Elapsed
<1> HIDE DEF e
<1>2. B # {} /\ B \subseteq 1..Len(p.periods)
  BY <1>0, <1>1 DEF Begun
<1>3. S \in SUBSET Nat /\ S # {} /\ \A n \in S : n <= e
  <2>1. \A i \in B : p.periods[i].start \in Nat /\ p.periods[i].start <= e
    BY <1>0 DEF Begun
  <2>2. S \subseteq Nat /\ \A n \in S : n <= e
    <3> HIDE DEF B
    <3> QED BY <2>1
  <2> QED BY <1>2, <2>2
<1>4. PICK m \in S : \A n \in S : n <= m
  <2> HIDE DEF S
  <2> QED BY <1>1, <1>3, Greatest
<1> DEFINE I == {i \in B : p.periods[i].start = m}
<1>5. I \in SUBSET Nat /\ I # {} /\ \A i \in I : i <= Len(p.periods)
  <2>1. I # {}
    BY <1>4
  <2>2. \A i \in I : i \in 1..Len(p.periods)
    BY <1>2
  <2> HIDE DEF I
  <2> QED BY <2>1, <2>2, <1>0
<1>6. PICK i \in I : \A j \in I : j <= i
  <2> HIDE DEF I
  <2> QED BY <1>0, <1>5, Greatest
<1>7. i \in B /\ \A j \in B : Later(p, i, j)
  <2>1. i \in B /\ p.periods[i].start = m
    BY <1>6
  <2>2. ASSUME NEW j \in B PROVE Later(p, i, j)
    <3>1. p.periods[j].start \in Nat /\ m \in Nat /\ p.periods[j].start <= m
          /\ i \in Nat /\ j \in Nat
      <4>1. p.periods[j].start \in S
        OBVIOUS
      <4> HIDE DEF S, B
      <4> QED BY <1>0, <1>2, <1>3, <1>4, <2>1, <2>2, <4>1
    <3>2. p.periods[j].start = m => j <= i
      <4> HIDE DEF B
      <4> QED BY <1>6, <2>2
    <3> QED BY <2>1, <3>1, <3>2 DEF Later
  <2> QED BY <2>1, <2>2
<1> DEFINE c == CHOOSE i_1 \in B : \A j \in B : Later(p, i_1, j)
<1>8. c \in B /\ \A j \in B : Later(p, c, j)
  <2> HIDE DEF B
  <2> QED BY <1>7
<1>9. Limit(p, start, now) = p.periods[c].limit
  BY <1>2 DEF Limit, e
<1> HIDE DEF c
<1> QED BY <1>8, <1>9 DEF e

(* If any profile of a store counts, one does: the first of the highest    *)
(* stack level.                                                            *)
THEOREM HighestIsOne ==
  ASSUME NEW s \in Seq(Profiles), NEW I \in SUBSET DOMAIN s, I # {}
  PROVE  \E i \in I : /\ Highest(s, I) = {s[i]}
                      /\ \A j \in I : s[j].stackLevel <= s[i].stackLevel
<1> DEFINE Beats(i, j) == \/ s[i].stackLevel > s[j].stackLevel
                          \/ s[i].stackLevel = s[j].stackLevel /\ i <= j
           Won(n) == \/ \A j \in I : j > n
                     \/ \E i \in I : i <= n /\ \A j \in I : j <= n => Beats(i, j)
           Bad == {n \in 0..Len(s) : ~Won(n)}
<1>0. /\ Len(s) \in Nat /\ DOMAIN s = 1..Len(s)
      /\ \A i \in I : i \in 1..Len(s) /\ s[i].stackLevel \in Nat
  <2>1. Len(s) \in Nat /\ DOMAIN s = 1..Len(s) /\ \A i \in DOMAIN s : s[i] \in Profiles
    OBVIOUS
  <2> QED BY <2>1, ProfileFacts
<1>1. Bad = {}
  <2> SUFFICES ASSUME Bad # {} PROVE FALSE
    OBVIOUS
  <2>1. PICK m \in Bad : \A n \in Bad : m <= n
    <3>1. Bad \in SUBSET Nat
      BY <1>0
    <3> HIDE DEF Bad
    <3> QED BY <3>1, Least
  <2>2. m \in 0..Len(s) /\ ~Won(m)
    BY <2>1
  <2>3. m # 0
    <3>1. Won(0)
      BY <1>0
    <3> QED BY <2>2, <3>1
  <2>4. m - 1 \in 0..Len(s) /\ m - 1 \notin Bad
    <3>1. m - 1 \in 0..Len(s) /\ ~(m <= m - 1)
      BY <1>0, <2>2, <2>3
    <3> HIDE DEF Bad
    <3> QED BY <2>1, <3>1
  <2>5. Won(m - 1)
    BY <2>4
  <2>6. \A j \in I : j > m - 1 <=> j >= m
    BY <1>0, <2>2
  <2>7. Won(m)
    <3>1. CASE m \notin I
      <4>1. \A j \in I : (j > m - 1 <=> j > m) /\ (j <= m <=> j <= m - 1)
        BY <1>0, <2>2, <3>1
      <4> HIDE DEF Beats
      <4> QED BY <2>5, <4>1
    <3>2. CASE m \in I /\ \A j \in I : j > m - 1
      <4>1. m <= m /\ \A j \in I : j <= m => Beats(m, j)
        BY <1>0, <2>2, <2>6, <3>2
      <4> QED BY <3>2, <4>1
    <3>3. CASE /\ m \in I
               /\ \E i \in I : i <= m - 1 /\ \A j \in I : j <= m - 1 => Beats(i, j)
      <4>1. PICK i \in I : i <= m - 1 /\ \A j \in I : j <= m - 1 => Beats(i, j)
        BY <3>3
      <4>2. CASE s[m].stackLevel <= s[i].stackLevel
        <5>1. Beats(i, m)
          BY <1>0, <3>3, <4>1, <4>2
        <5>2. \A j \in I : j <= m => j <= m - 1 \/ j = m
          BY <1>0, <3>3
        <5>3. i <= m
          BY <1>0, <3>3, <4>1
        <5> HIDE DEF Beats
        <5> QED BY <4>1, <5>1, <5>2, <5>3
      <4>3. CASE s[m].stackLevel > s[i].stackLevel
        <5>1. ASSUME NEW j \in I, j <= m PROVE Beats(m, j)
          <6>1. /\ s[j].stackLevel \in Nat /\ s[i].stackLevel \in Nat
                /\ s[m].stackLevel \in Nat /\ m <= m
            BY <1>0, <3>3
          <6>2. j = m \/ Beats(i, j)
            BY <1>0, <3>3, <4>1, <5>1
          <6>3. j = m \/ s[j].stackLevel <= s[i].stackLevel
            BY <6>1, <6>2
          <6>4. j = m \/ s[m].stackLevel > s[j].stackLevel
            BY <4>3, <6>1, <6>3
          <6> QED BY <6>1, <6>4
        <5>2. m <= m
          BY <1>0, <3>3
        <5> HIDE DEF Beats
        <5> QED BY <3>3, <5>1, <5>2
      <4> QED BY <1>0, <3>3, <4>1, <4>2, <4>3
    <3> QED BY <2>5, <3>1, <3>2, <3>3
  <2> QED BY <2>2, <2>7
<1>2. Won(Len(s))
  <2>1. Len(s) \in 0..Len(s)
    BY <1>0
  <2> HIDE DEF Won
  <2> QED BY <1>1, <2>1
<1>3. PICK i \in I : \A j \in I : Beats(i, j)
  <2>1. \A j \in I : j <= Len(s) /\ ~(j > Len(s))
    BY <1>0
  <2> HIDE DEF Beats
  <2> QED BY <1>2, <2>1
<1>4. \A k \in I : (\A j \in I : Beats(k, j)) => k = i
  BY <1>0, <1>3
<1>5. {k \in I : \A j \in I : Beats(k, j)} = {i}
  <2> HIDE DEF Beats
  <2> QED BY <1>3, <1>4
<1>6. Highest(s, I) = {s[k] : k \in {k \in I : \A j \in I : Beats(k, j)}}
  BY DEF Highest
<1>7. Highest(s, I) = {s[i]}
  <2> HIDE DEF Beats
  <2> QED BY <1>5, <1>6
<1> QED BY <1>0, <1>3, <1>7

(* The profiles that count belong to the stores, have the purpose asked    *)
(* for and are valid.                                                      *)
LEMMA HighestCounts ==
  ASSUME NEW s \in Seq(Profiles), NEW purpose, NEW now
  PROVE  \A p \in Highest(s, Of(s, purpose, now)) :
           p \in Members(s) /\ p \in Profiles /\ Valid(p, now)
<1>1. \A i \in Of(s, purpose, now) : i \in DOMAIN s /\ Valid(s[i], now)
  BY DEF Of
<1>2. \A i \in DOMAIN s : s[i] \in Profiles
  OBVIOUS
<1> QED BY <1>1, <1>2 DEF Highest, Members

LEMMA ActiveCounts ==
  ASSUME NEW own \in Seq(Profiles), NEW st \in Seq(Profiles), NEW now
  PROVE  \A p \in Active(own, st, now) \cup StationMax(st, now) :
           p \in Profiles /\ Valid(p, now)
<1>1. own \o st \in Seq(Profiles)
  OBVIOUS
<1>2. \A p \in Active(own, st, now) : p \in Profiles /\ Valid(p, now)
  BY <1>1, HighestCounts DEF Active
<1>3. \A p \in StationMax(st, now) : p \in Profiles /\ Valid(p, now)
  BY HighestCounts DEF StationMax
<1> QED BY <1>2, <1>3

(* The limit in force is that of one of the profiles, or none, and no      *)
(* profile that counts has a lower one.                                    *)
THEOREM TightestLimits ==
  ASSUME NEW P \in SUBSET Profiles, NEW start \in Nat, NEW now \in Nat
  PROVE  /\ Tightest(P, start, now)
              \in {Limit(p, start, now) : p \in P} \cup {Uncapped}
         /\ \A p \in P : Tightest(P, start, now) <= Limit(p, start, now)
         /\ Tightest(P, start, now) = Uncapped <=> P = {}
<1> DEFINE L == {Limit(p, start, now) : p \in P} \cup {Uncapped}
<1>1. ASSUME NEW p \in P PROVE Limit(p, start, now) \in 0..(Uncapped - 1)
  <2>1. PICK i \in Begun(p, Elapsed(p, start, now)) :
          Limit(p, start, now) = p.periods[i].limit
    BY LatestPeriodLimits
  <2>2. i \in DOMAIN p.periods
    BY DEF Begun
  <2> QED BY <2>1, <2>2, StartIsNat
<1>2. L \in SUBSET Nat /\ L # {}
  <2>1. L \subseteq Nat
    BY <1>1, UncappedIsNat
  <2> QED BY <2>1
<1> DEFINE m == CHOOSE l \in L : \A k \in L : l <= k
<1>3. m \in L /\ \A k \in L : m <= k
  <2> HIDE DEF L
  <2> QED BY <1>2, Least
<1>4. Tightest(P, start, now) = m
  BY DEF Tightest
<1> HIDE DEF m
<1>5. m = Uncapped <=> P = {}
  BY <1>1, <1>3, UncappedIsNat
<1> QED BY <1>3, <1>4, <1>5
-----------------------------------------------------------------------------
(* The composite schedule.                                                 *)

LEMMA ProductGrows ==
  ASSUME NEW x \in Nat, NEW y \in Nat, NEW c \in Nat \ {0}, x < y
  PROVE  x * c + c <= y * c
<1>1. PICK k \in Nat : y = x + 1 + k
  <2>1. y - x - 1 \in Nat /\ y = x + 1 + (y - x - 1)
    OBVIOUS
  <2> QED BY <2>1
<1>2. y * c = x * c + c + k * c
  BY <1>1
<1>3. k * c \in Nat /\ x * c \in Nat
  OBVIOUS
<1> QED BY <1>2, <1>3

(* The cycle an instant n units after the reference is in begins at one of *)
(* the origins, if the window began m <= n units after it.                 *)
LEMMA CyclesBetween ==
  ASSUME NEW m \in Nat, NEW t \in Nat \ {0}, NEW c \in Nat \ {0}
  PROVE  (m + t) \div c - m \div c \in 0..t
<1> DEFINE n == m + t
           q == n \div c
           q0 == m \div c
<1>1. /\ q \in Nat /\ n % c \in 0..(c - 1) /\ n = q * c + (n % c)
      /\ q0 \in Nat /\ m % c \in 0..(c - 1) /\ m = q0 * c + (m % c)
  <2>1. n \in Nat
    OBVIOUS
  <2> HIDE DEF n
  <2> QED BY <2>1, Remainder
<1>2. q * c \in Nat /\ q0 * c \in Nat
  BY <1>1
<1> HIDE DEF q, q0
<1>3. q >= q0
  <2> SUFFICES ASSUME q < q0 PROVE FALSE
    BY <1>1
  <2>1. q * c + c <= q0 * c
    BY <1>1, ProductGrows
  <2> QED BY <1>1, <1>2, <2>1
<1>4. q <= q0 + t
  <2> SUFFICES ASSUME q0 + t < q PROVE FALSE
    BY <1>1
  <2>1. (q0 + t) * c + c <= q * c
    BY <1>1, ProductGrows
  <2>2. (q0 + t) * c = q0 * c + t * c
    BY <1>1
  <2>3. t * c \in Nat /\ t <= t * c
    <3>1. c = 1 \/ 1 < c
      OBVIOUS
    <3>2. t * c = t + t * (c - 1)
      OBVIOUS
    <3>3. t * (c - 1) \in Nat
      OBVIOUS
    <3> QED BY <3>2, <3>3
  <2> QED BY <1>1, <1>2, <2>1, <2>2, <2>3
<1> QED BY <1>1, <1>3, <1>4 DEF q, q0

(* A recurring profile's time falls back to 0 at the beginning of a cycle  *)
(* and rises by one at any other instant.                                  *)
LEMMA CycleStep ==
  ASSUME NEW n \in Nat \ {0}, NEW c \in Nat \ {0}, n % c # 0
  PROVE  (n - 1) % c = (n % c) - 1
<1>1. n \div c \in Nat /\ n % c \in 0..(c - 1) /\ n = (n \div c) * c + (n % c)
  BY Remainder
<1>2. PICK q \in Nat, r \in 0..(c - 1) : q = n \div c /\ r = n % c
  BY <1>1
<1>3. r - 1 \in 0..(c - 1) /\ q * c \in Nat
  BY <1>2
<1>4. n - 1 = q * c + (r - 1)
  BY <1>1, <1>2, <1>3
<1>5. (q * c + (r - 1)) % c = r - 1
  BY <1>3, RemainderUnique
<1> QED BY <1>2, <1>4, <1>5

(* Off its boundaries a profile's limit does not change.                   *)
LEMMA LimitSteady ==
  ASSUME NEW p \in Profiles, NEW a \in Nat, NEW d \in Nat, Valid(p, a),
         NEW t \in 1..(d - 1), t \notin Offsets(p, a, d)
  PROVE  Limit(p, a, a + t) = Limit(p, a, a + (t - 1))
<1> DEFINE ref == Reference(p, a)
           e1 == Elapsed(p, a, a + t)
           e0 == Elapsed(p, a, a + (t - 1))
<1>0. /\ p.cycle \in Nat \ {0} /\ p.from \in Nat \cup {None}
      /\ DOMAIN p.periods = 1..Len(p.periods)
      /\ \E i \in DOMAIN p.periods : p.periods[i].start = 0
      /\ \A i \in DOMAIN p.periods : p.periods[i].start \in Nat
  BY ProfileFacts, StartIsNat
<1>1. ref \in Nat /\ ref <= a
  BY <1>0 DEF Reference, None, Valid
<1>2. t \in Nat \ {0} /\ t <= d - 1
  OBVIOUS
<1> DEFINE LimitOf(X) == IF X = {} THEN Uncapped
                    ELSE p.periods[CHOOSE i \in X : \A j \in X : Later(p, i, j)].limit
<1>a. Limit(p, a, a + t) = LimitOf(Begun(p, e1))
  BY DEF Limit
<1>b. Limit(p, a, a + (t - 1)) = LimitOf(Begun(p, e0))
  BY DEF Limit
<1> HIDE DEF LimitOf
<1> SUFFICES Begun(p, e1) = Begun(p, e0)
  BY <1>a, <1>b
<1>3. CASE p.kind # "Recurring"
  <2>1. e1 = a + t - ref /\ e0 = a + t - ref - 1
    BY <1>1, <1>2, <1>3 DEF Elapsed, Positive
  <2>2. ASSUME NEW i \in DOMAIN p.periods PROVE p.periods[i].start # e1
    <3>1. ref - a + p.periods[i].start \in 0..(d - 1) => 
             ref - a + p.periods[i].start \in Offsets(p, a, d)
      BY <1>3 DEF Offsets
    <3>2. p.periods[i].start = e1 => ref - a + p.periods[i].start = t
      BY <1>1, <1>2, <2>1
    <3> QED BY <1>2, <3>1, <3>2
  <2>3. \A i \in DOMAIN p.periods : p.periods[i].start <= e1 <=> p.periods[i].start <= e0
    <3>1. e1 \in Int /\ e0 = e1 - 1
      BY <1>1, <1>2, <2>1
    <3> HIDE DEF e1, e0
    <3> QED BY <1>0, <2>2, <3>1
  <2> HIDE DEF e1, e0
  <2> QED BY <2>3 DEF Begun
<1>4. CASE p.kind = "Recurring"
  <2> DEFINE m == a - ref
             c == p.cycle
  <2>0. m \in Nat /\ c \in Nat \ {0}
    BY <1>0, <1>1
  <2>1. PICK n \in Nat \ {0} : n = m + t
    BY <1>2, <2>0
  <2>2. e1 = n % c /\ e0 = (n - 1) % c
    <3>1. a + t - ref = n /\ a + (t - 1) - ref = n - 1 /\ ~(n < 0) /\ ~(n - 1 < 0)
      BY <1>1, <1>2, <2>1
    <3>2. Positive(n) = n /\ Positive(n - 1) = n - 1
      BY DEF Positive
    <3>3. \A now \in Nat : Elapsed(p, a, now) = Positive(now - ref) % c
      BY <1>4 DEF Elapsed
    <3>4. a + t \in Nat /\ a + (t - 1) \in Nat
      BY <1>2
    <3>5. PICK x \in Nat, y \in Nat : x = a + t /\ y = a + (t - 1)
      BY <3>4
    <3>6. e1 = Elapsed(p, a, x) /\ e0 = Elapsed(p, a, y)
      BY <3>5
    <3>7. x - ref = n /\ y - ref = n - 1
      <4> HIDE DEF ref
      <4> QED BY <1>1, <1>2, <2>1, <3>5
    <3> HIDE DEF e1, e0, ref, c
    <3> QED BY <3>2, <3>3, <3>6, <3>7
  <2>3. /\ n \div c \in Nat /\ n % c \in 0..(c - 1) /\ n = (n \div c) * c + (n % c)
        /\ m \div c \in Nat /\ n \div c - m \div c \in 0..t
    BY <1>2, <2>0, <2>1, Remainder, CyclesBetween
  <2>4. PICK q \in Nat, q0 \in Nat, r \in 0..(c - 1) :
          q = n \div c /\ q0 = m \div c /\ r = n % c
    BY <2>3
  <2> DEFINE o == ref + q * c
  <2>5. o = a + t - r /\ o \in 0..(a + d - 1)
    <3>1. q * c \in Nat /\ q * c = n - r
      <4>1. n = q * c + r
        BY <2>3, <2>4
      <4>2. q * c \in Nat
        BY <2>0
      <4> QED BY <2>0, <2>4, <4>1, <4>2
    <3> QED BY <1>1, <1>2, <2>0, <2>1, <2>4, <3>1
  <2>6. o \in Cycles(p, a, d)
    <3>1. FirstCycle(p, a) = ref + q0 * c
      BY <1>1, <2>4 DEF FirstCycle
    <3>2. PICK k \in 0..d : k = q - q0
      BY <1>2, <2>3, <2>4
    <3>3. q = q0 + k
      BY <3>2
    <3>4. q * c = q0 * c + k * c
      BY <2>0, <3>3
    <3>5. q0 * c \in Nat /\ k * c \in Nat
      BY <2>0, <3>2
    <3>6. o = FirstCycle(p, a) + k * p.cycle
      BY <1>1, <3>1, <3>4, <3>5
    <3> HIDE DEF o
    <3> QED BY <2>5, <3>6 DEF Cycles
  <2>7. ASSUME NEW i \in DOMAIN p.periods PROVE p.periods[i].start # r
    <3>1. o - a + p.periods[i].start \in 0..(d - 1) =>
             o - a + p.periods[i].start \in Offsets(p, a, d)
      <4> HIDE DEF o
      <4> QED BY <1>4, <2>6 DEF Offsets
    <3>2. p.periods[i].start = r => o - a + p.periods[i].start = t
      <4> HIDE DEF o
      <4> QED BY <1>1, <1>2, <2>0, <2>4, <2>5
    <3> QED BY <1>2, <3>1, <3>2
  <2>8. r # 0
    BY <1>0, <2>7
  <2>9. e1 = r /\ e0 = r - 1
    BY <2>0, <2>2, <2>4, <2>8, CycleStep
  <2>10. \A i \in DOMAIN p.periods : p.periods[i].start <= e1 <=> p.periods[i].start <= e0
    <3>1. r \in Int
      BY <2>0, <2>4
    <3> HIDE DEF e1, e0
    <3> QED BY <1>0, <2>7, <2>9, <3>1
  <2> HIDE DEF e1, e0
  <2> QED BY <2>10 DEF Begun
<1> QED BY <1>3, <1>4

LEMMA TightestSteady ==
  ASSUME NEW P \in SUBSET Profiles, NEW a \in Nat, NEW d \in Nat,
         \A p \in P : Valid(p, a),
         NEW t \in 1..(d - 1), t \notin Boundaries(P, a, d)
  PROVE  Tightest(P, a, a + t) = Tightest(P, a, a + (t - 1))
<1>1. \A p \in P : t \notin Offsets(p, a, d)
  BY DEF Boundaries
<1>2. \A p \in P : Limit(p, a, a + t) = Limit(p, a, a + (t - 1))
  BY <1>1, LimitSteady
<1>3. {Limit(p, a, a + t) : p \in P} = {Limit(p, a, a + (t - 1)) : p \in P}
  BY <1>2
<1> QED BY <1>3 DEF Tightest

LEMMA LastFacts ==
  ASSUME NEW S \in SUBSET Nat, 0 \in S, NEW t \in Nat
  PROVE  /\ LastUpTo(S, t) \in S /\ LastUpTo(S, t) <= t
         /\ \A s \in S : s <= t => s <= LastUpTo(S, t)
<1> DEFINE T == {s \in S : s <= t}
<1>1. T \in SUBSET Nat /\ T # {} /\ \A n \in T : n <= t
  <2>1. 0 \in T
    OBVIOUS
  <2>2. T \subseteq Nat /\ \A n \in T : n <= t
    OBVIOUS
  <2> QED BY <2>1, <2>2
<1>2. \E b \in T : \A s \in T : s <= b
  <2> HIDE DEF T
  <2> QED BY <1>1, Greatest
<1>3. \E b \in S : b <= t /\ \A s \in S : s <= t => s <= b
  BY <1>2
<1> QED BY <1>3 DEF LastUpTo

(* What changes at the members of S only is known from its value there.    *)
LEMMA StepWise ==
  ASSUME NEW d \in Nat, NEW S \in SUBSET Nat, 0 \in S, NEW f,
         \A t \in 1..(d - 1) : t \notin S => f[t] = f[t - 1]
  PROVE  \A t \in 0..(d - 1) : f[LastUpTo(S, t)] = f[t]
<1> DEFINE Bad == {t \in 0..(d - 1) : f[LastUpTo(S, t)] # f[t]}
<1> SUFFICES ASSUME Bad # {} PROVE FALSE
  OBVIOUS
<1>1. PICK m \in Bad : \A n \in Bad : m <= n
  <2>1. Bad \in SUBSET Nat
    OBVIOUS
  <2> HIDE DEF Bad
  <2> QED BY <2>1, Least
<1>2. m \in 0..(d - 1) /\ m \in Nat /\ f[LastUpTo(S, m)] # f[m]
  BY <1>1
<1>3. /\ LastUpTo(S, m) \in S /\ LastUpTo(S, m) \in Nat /\ LastUpTo(S, m) <= m
      /\ \A s \in S : s <= m => s <= LastUpTo(S, m)
  BY <1>2, LastFacts
<1>4. m \notin S
  <2>1. m \in S => LastUpTo(S, m) = m
    BY <1>2, <1>3
  <2> QED BY <1>2, <2>1
<1>5. m - 1 \in 0..(d - 1) /\ m - 1 \in Nat /\ m \in 1..(d - 1)
  BY <1>2, <1>4
<1>6. /\ LastUpTo(S, m - 1) \in S /\ LastUpTo(S, m - 1) \in Nat
      /\ LastUpTo(S, m - 1) <= m - 1
      /\ \A s \in S : s <= m - 1 => s <= LastUpTo(S, m - 1)
  BY <1>5, LastFacts
<1>7. LastUpTo(S, m - 1) = LastUpTo(S, m)
  <2>1. LastUpTo(S, m) <= m - 1
    BY <1>2, <1>3, <1>4
  <2> QED BY <1>2, <1>3, <1>6, <2>1
<1>8. f[LastUpTo(S, m - 1)] = f[m - 1]
  <2>1. m - 1 \notin Bad
    <3>1. ~(m <= m - 1)
      BY <1>2
    <3> HIDE DEF Bad
    <3> QED BY <1>1, <3>1
  <2> QED BY <1>5, <2>1
<1> QED BY <1>2, <1>4, <1>5, <1>7, <1>8

(* Merging loses nothing, whatever the profiles and the window: what the   *)
(* slices of a composite schedule say of an instant is the tightest limit  *)
(* at that instant.                                                        *)
THEOREM SlicesAreExact ==
  ASSUME NEW P \in SUBSET Profiles, NEW a \in Nat, NEW d \in Nat,
         \A p \in P : Valid(p, a), NEW t \in 0..(d - 1)
  PROVE  Promised(Slices(P, a, d), t) = Tightest(P, a, a + t)
<1> DEFINE B == Boundaries(P, a, d)
           f == [u \in 0..(d - 1) |-> Tightest(P, a, a + u)]
           C == {b \in B : \/ b = 0
                           \/ Tightest(P, a, a + b)
                                # Tightest(P, a, a + LastUpTo(B, b - 1))}
           S == Slices(P, a, d)
<1>1. B \subseteq 0..(d - 1) /\ 0 \in B /\ B \in SUBSET Nat
  <2>1. B \subseteq 0..(d - 1)
    BY DEF Boundaries, Offsets
  <2>2. 0 \in B
    BY DEF Boundaries
  <2> QED BY <2>1, <2>2
<1>2. \A u \in 0..(d - 1) : f[u] = Tightest(P, a, a + u)
  OBVIOUS
<1>3. \A u \in 1..(d - 1) : u \notin B => f[u] = f[u - 1]
  <2> SUFFICES ASSUME NEW u \in 1..(d - 1), u \notin B PROVE f[u] = f[u - 1]
    OBVIOUS
  <2>1. u \in 0..(d - 1) /\ u - 1 \in 0..(d - 1)
    OBVIOUS
  <2>2. Tightest(P, a, a + u) = Tightest(P, a, a + (u - 1))
    BY TightestSteady
  <2> QED BY <2>1, <2>2
<1> HIDE DEF B, f
<1>4. \A u \in 0..(d - 1) : f[LastUpTo(B, u)] = f[u]
  BY <1>1, <1>3, StepWise
<1>5. C \subseteq 0..(d - 1) /\ 0 \in C /\ C \in SUBSET Nat
  BY <1>1
<1>6. \A u \in 1..(d - 1) : u \notin C => f[u] = f[u - 1]
  <2> SUFFICES ASSUME NEW u \in 1..(d - 1), u \notin C PROVE f[u] = f[u - 1]
    OBVIOUS
  <2>1. u \in 0..(d - 1) /\ u - 1 \in 0..(d - 1) /\ u - 1 \in Nat
    OBVIOUS
  <2>2. LastUpTo(B, u - 1) \in 0..(d - 1)
    BY <1>1, <2>1, LastFacts
  <2>3. CASE u \in B
    <3>1. Tightest(P, a, a + u) = Tightest(P, a, a + LastUpTo(B, u - 1))
      BY <2>3
    <3>2. f[u] = f[LastUpTo(B, u - 1)]
      BY <1>2, <2>1, <2>2, <3>1
    <3> QED BY <1>4, <2>1, <3>2
  <2>4. CASE u \notin B
    BY <1>3, <2>4
  <2> QED BY <2>3, <2>4
<1>7. S = {[start |-> b, limit |-> Tightest(P, a, a + b)] : b \in C}
  BY DEF Slices, B
<1> HIDE DEF C, S
<1>8. {s.start : s \in S} = C
  <2>1. ASSUME NEW b \in C PROVE \E s \in S : s.start = b
    <3>1. [start |-> b, limit |-> Tightest(P, a, a + b)] \in S
      BY <1>7
    <3> QED BY <3>1
  <2>2. \A s \in S : s.start \in C
    BY <1>7
  <2> QED BY <2>1, <2>2
<1> DEFINE b == LastUpTo(C, t)
<1>9. b \in C /\ b \in 0..(d - 1)
  <2>1. t \in Nat
    OBVIOUS
  <2> QED BY <1>5, <2>1, LastFacts
<1>10. f[b] = f[t]
  BY <1>5, <1>6, StepWise
<1>11. \E s \in S : s.start = b
  BY <1>8, <1>9
<1>12. \A s \in S : s.start = b => s.limit = Tightest(P, a, a + b)
  BY <1>7
<1> DEFINE s == CHOOSE s_1 \in S : s_1.start = b
<1>13. Promised(S, t) = s.limit
  BY <1>8 DEF Promised
<1>14. s.limit = Tightest(P, a, a + b)
  <2> HIDE DEF b
  <2> QED BY <1>11, <1>12
<1>15. Tightest(P, a, a + b) = Tightest(P, a, a + t)
  <2> HIDE DEF b
  <2> QED BY <1>2, <1>9, <1>10
<1> HIDE DEF s
<1> QED BY <1>13, <1>14, <1>15 DEF S

(* Whatever profiles are in force, a composite schedule says of every      *)
(* instant of its window the tightest of their limits: looking only where  *)
(* a period or a cycle begins, and merging equal slices, loses nothing.    *)
THEOREM CompositeExact == Spec => []CompositeIsExact
<1>1. LimitsInv => CompositeIsExact
  <2> SUFFICES ASSUME LimitsInv PROVE CompositeIsExact
    OBVIOUS
  <2>1. /\ clock \in Nat /\ Horizon \in Nat /\ station \in Seq(Profiles)
        /\ connector.own \in Seq(Profiles)
    BY LimitsAssumption DEF LimitsInv, TypeOK, Connector, LimitsAssumption
  <2>2. \A p \in Active(connector.own, station, clock) \cup StationMax(station, clock) :
          p \in Profiles /\ Valid(p, clock)
    BY <2>1, ActiveCounts
  <2>3. ASSUME NEW P \in SUBSET (Active(connector.own, station, clock)
                                   \cup StationMax(station, clock)),
               NEW t \in 0..(Horizon - 1)
        PROVE  Promised(Slices(P, clock, Horizon), t) = Tightest(P, clock, clock + t)
    <3>1. P \in SUBSET Profiles /\ \A p \in P : Valid(p, clock)
      BY <2>2
    <3> QED BY <2>1, <3>1, SlicesAreExact
  <2> QED BY <2>3 DEF CompositeIsExact
<1> QED BY <1>1, LimitsInit, LimitsStep, PTL DEF Spec
=============================================================================
