-------------------------- MODULE Admission_proofs --------------------------
(***************************************************************************)
(* Theorems of Admission, for any requests, capacities, reserves and        *)
(* windows: the seats of the lanes are those their holders have, no line    *)
(* waits while a seat it could take is free, the lanes are closed by those  *)
(* who hold the closure, and the closed lanes seat nobody meanwhile.        *)
(*                                                                          *)
(* The invariant (AInv) says, with who is at which stage: the counts of     *)
(* every lane are those of its holders, class by class (Fits); the three    *)
(* lines hold just the requests that wait, each once (Waiters); LONG's own  *)
(* stages and the closure belong to requests that have LONG's one seat.     *)
(* The pumps are loops, so what a pump ends with is shown by the rounds it  *)
(* takes: each keeps Fits and shortens a line, so a last one comes, and     *)
(* after the last no line has a head that could be seated (PumpEnds).       *)
(***************************************************************************)
EXTENDS Admission, DataInduction

ClassOf == {"chat", "v1"}

LEMMA RequestTypes ==
  ASSUME NEW r \in Request
  PROVE  LaneOf[r] \in Lane /\ Origin[r] \in ClassOf /\ (Chat(r) <=> ~V1(r)) /\ r # NoRequest
BY AdmissionAssumption DEF ClassOf, Chat, V1

-----------------------------------------------------------------------------
(* Seats and their holders.                                                 *)

\* H are the requests that have the seats that a counts.
Of(H, l, o) == {r \in H : LaneOf[r] = l /\ Origin[r] = o}
Counts(a, H) == IsFiniteSet(H) /\ \A l \in Lane : \A o \in ClassOf : a[l][o] = Cardinality(Of(H, l, o))

SeatTable == [Lane -> [chat : Int, v1 : Int]]

\* d more seats of r's lane and origin.
SeatsAt(a, l, o, d) == [a EXCEPT ![l][o] = @ + d]
Reseat(a, r, d) == SeatsAt(a, LaneOf[r], Origin[r], d)

LEMMA SeatsAtIs ==
  ASSUME NEW a \in SeatTable, NEW l \in Lane, NEW o \in ClassOf, NEW d \in Int
  PROVE  /\ SeatsAt(a, l, o, d) \in SeatTable
         /\ \A m \in Lane : \A p \in ClassOf :
              SeatsAt(a, l, o, d)[m][p] = IF m = l /\ p = o THEN a[m][p] + d ELSE a[m][p]
<1>1. CASE o = "chat"
  <2>1. SeatsAt(a, l, o, d) = [a EXCEPT ![l].chat = @ + d]
    BY <1>1 DEF SeatsAt
  <2> QED
    BY <1>1, <2>1 DEF SeatTable, ClassOf
<1>2. CASE o = "v1"
  <2>1. SeatsAt(a, l, o, d) = [a EXCEPT ![l].v1 = @ + d]
    BY <1>2 DEF SeatsAt
  <2> QED
    BY <1>2, <2>1 DEF SeatTable, ClassOf
<1> QED
  BY <1>1, <1>2 DEF ClassOf

LEMMA ReseatIs ==
  ASSUME NEW a \in SeatTable, NEW r \in Request, NEW d \in Int
  PROVE  /\ Reseat(a, r, d) \in SeatTable
         /\ \A l \in Lane : \A o \in ClassOf :
              /\ a[l][o] \in Int
              /\ Reseat(a, r, d)[l][o] = IF l = LaneOf[r] /\ o = Origin[r] THEN a[l][o] + d ELSE a[l][o]
<1>1. PICK m \in Lane : m = LaneOf[r]
  BY RequestTypes
<1>2. PICK p \in ClassOf : p = Origin[r]
  BY RequestTypes
<1>3. Reseat(a, r, d) = SeatsAt(a, m, p, d)
  BY <1>1, <1>2 DEF Reseat
<1>4. \A l \in Lane : \A o \in ClassOf : a[l][o] \in Int
  BY DEF SeatTable, ClassOf
<1>5. /\ Reseat(a, r, d) \in SeatTable
      /\ \A l \in Lane : \A o \in ClassOf : Reseat(a, r, d)[l][o] = IF l = m /\ o = p THEN a[l][o] + d ELSE a[l][o]
  BY <1>3, SeatsAtIs
<1> QED
  BY <1>1, <1>2, <1>4, <1>5

LEMMA SeatsAreCounted ==
  ASSUME NEW s \in Lanes
  PROVE  s.active \in SeatTable /\ \A l \in Lane : Active(s, l) \in Int /\ Active(s, l) = s.active[l]["chat"] + s.active[l]["v1"]
BY DEF Lanes, SeatTable, Active

LEMMA TakenIs ==
  ASSUME NEW s \in Lanes, NEW r \in Request
  PROVE  Taken(s, r) = [s EXCEPT !.active = Reseat(s.active, r, 1)] /\ Reseat(s.active, r, 1) \in SeatTable
<1>1. [s.active EXCEPT ![LaneOf[r]][Origin[r]] = @ + 1] = Reseat(s.active, r, 1)
  BY DEF Reseat, SeatsAt
<1>2. Reseat(s.active, r, 1) \in SeatTable
  BY SeatsAreCounted, ReseatIs
<1>3. Taken(s, r) = [s EXCEPT !.active = [s.active EXCEPT ![LaneOf[r]][Origin[r]] = @ + 1]]
  BY DEF Taken, Lanes
<1> QED
  BY <1>1, <1>2, <1>3

LEMMA UnseatedIs ==
  ASSUME NEW s \in Lanes, NEW r \in Request
  PROVE  Unseated(s, r) = [s EXCEPT !.active = Reseat(s.active, r, -1)] /\ Reseat(s.active, r, -1) \in SeatTable
<1>1. [s.active EXCEPT ![LaneOf[r]][Origin[r]] = @ - 1] = Reseat(s.active, r, -1)
  BY DEF Reseat, SeatsAt
<1>2. Reseat(s.active, r, -1) \in SeatTable
  BY SeatsAreCounted, ReseatIs
<1>3. Unseated(s, r) = [s EXCEPT !.active = [s.active EXCEPT ![LaneOf[r]][Origin[r]] = @ - 1]]
  BY DEF Unseated, Lanes
<1> QED
  BY <1>1, <1>2, <1>3

LEMMA CountsType ==
  ASSUME NEW a \in SeatTable, NEW H \in SUBSET Request, Counts(a, H)
  PROVE  a \in [Lane -> [chat : Nat, v1 : Nat]] /\ \A l \in Lane : \A o \in ClassOf : a[l][o] \in Nat
<1>1. \A l \in Lane : \A o \in ClassOf : IsFiniteSet(Of(H, l, o)) /\ Cardinality(Of(H, l, o)) \in Nat
  BY FS_Subset, FS_CardinalityType DEF Counts, Of
<1>2. \A l \in Lane : \A o \in ClassOf : a[l][o] \in Nat
  BY <1>1 DEF Counts
<1>3. \A l \in Lane : a[l]["chat"] \in Nat /\ a[l]["v1"] \in Nat
  BY <1>2 DEF ClassOf
<1> QED
  BY <1>2, <1>3 DEF SeatTable

LEMMA CountsTake ==
  ASSUME NEW a \in SeatTable, NEW H \in SUBSET Request, Counts(a, H), NEW r \in Request \ H
  PROVE  Counts(Reseat(a, r, 1), H \cup {r})
<1> DEFINE b == Reseat(a, r, 1)
<1>1. \A l \in Lane : \A o \in ClassOf :
        b[l][o] = IF l = LaneOf[r] /\ o = Origin[r] THEN a[l][o] + 1 ELSE a[l][o]
  BY ReseatIs
<1> HIDE DEF b
<1>2. IsFiniteSet(H) /\ IsFiniteSet(H \cup {r})
  BY FS_AddElement DEF Counts
<1>3. ASSUME NEW l \in Lane, NEW o \in ClassOf PROVE b[l][o] = Cardinality(Of(H \cup {r}, l, o))
  <2>1. IsFiniteSet(Of(H, l, o)) /\ r \notin Of(H, l, o) /\ a[l][o] = Cardinality(Of(H, l, o))
    BY <1>2, FS_Subset DEF Counts, Of
  <2>2. CASE l = LaneOf[r] /\ o = Origin[r]
    <3>1. Of(H \cup {r}, l, o) = Of(H, l, o) \cup {r}
      BY <2>2 DEF Of
    <3>2. Cardinality(Of(H, l, o) \cup {r}) = Cardinality(Of(H, l, o)) + 1
      BY <2>1, FS_AddElement
    <3> QED
      BY <1>1, <2>1, <2>2, <3>1, <3>2
  <2>3. CASE ~(l = LaneOf[r] /\ o = Origin[r])
    <3>1. Of(H \cup {r}, l, o) = Of(H, l, o)
      BY <2>3 DEF Of
    <3>2. b[l][o] = a[l][o]
      BY <1>1, <2>3
    <3> QED
      BY <2>1, <3>1, <3>2
  <2> QED
    BY <2>2, <2>3
<1>4. Counts(b, H \cup {r})
  BY <1>2, <1>3 DEF Counts
<1> QED
  BY <1>4 DEF b

LEMMA CountsGiveBack ==
  ASSUME NEW a \in SeatTable, NEW H \in SUBSET Request, Counts(a, H), NEW r \in H
  PROVE  Counts(Reseat(a, r, -1), H \ {r})
<1> DEFINE b == Reseat(a, r, -1)
<1>1. \A l \in Lane : \A o \in ClassOf :
        a[l][o] \in Int /\ b[l][o] = IF l = LaneOf[r] /\ o = Origin[r] THEN a[l][o] - 1 ELSE a[l][o]
  BY ReseatIs
<1> HIDE DEF b
<1>2. IsFiniteSet(H) /\ IsFiniteSet(H \ {r})
  BY FS_RemoveElement DEF Counts
<1>3. ASSUME NEW l \in Lane, NEW o \in ClassOf PROVE b[l][o] = Cardinality(Of(H \ {r}, l, o))
  <2>1. IsFiniteSet(Of(H, l, o)) /\ a[l][o] = Cardinality(Of(H, l, o))
    BY <1>2, FS_Subset DEF Counts, Of
  <2>2. CASE l = LaneOf[r] /\ o = Origin[r]
    <3>1. Of(H \ {r}, l, o) = Of(H, l, o) \ {r} /\ r \in Of(H, l, o)
      BY <2>2 DEF Of
    <3>2. Cardinality(Of(H, l, o) \ {r}) = Cardinality(Of(H, l, o)) - 1
      BY <2>1, <3>1, FS_RemoveElement
    <3> QED
      BY <1>1, <2>1, <2>2, <3>1, <3>2
  <2>3. CASE ~(l = LaneOf[r] /\ o = Origin[r])
    <3>1. Of(H \ {r}, l, o) = Of(H, l, o)
      BY <2>3 DEF Of
    <3>2. b[l][o] = a[l][o]
      BY <1>1, <2>3
    <3> QED
      BY <2>1, <3>1, <3>2
  <2> QED
    BY <2>2, <2>3
<1>4. Counts(b, H \ {r})
  BY <1>2, <1>3 DEF Counts
<1> QED
  BY <1>4 DEF b

-----------------------------------------------------------------------------
(* Lines.                                                                   *)

\* A line of members of S, each in it once at most.
Stands(q, S) == q \in Seq(S) /\ IsInjective(q)

LEMMA StandsType ==
  ASSUME NEW S \in SUBSET Request, NEW q, Stands(q, S)
  PROVE  q \in Seq(Request) /\ ToSet(q) \subseteq S
<1>1. \A i \in DOMAIN q : q[i] \in S
  BY LenProperties DEF Stands
<1> QED
  BY <1>1 DEF Stands, ToSet

LEMMA Shorter ==
  ASSUME NEW S, NEW q \in Seq(S), NEW u \in ToSet(q)
  PROVE  RemoveFirst(q, u) \in Seq(S) /\ Len(RemoveFirst(q, u)) = Len(q) - 1 /\ Len(q) \in Nat
<1> DEFINE P == {i \in 1..Len(q) : q[i] = u}
<1>1. Len(q) \in Nat /\ DOMAIN q = 1..Len(q)
  BY LenProperties
<1>2. P \in SUBSET Nat /\ P # {}
  BY <1>1 DEF ToSet
<1>3. PICK p \in P : \A i \in P : p <= i
  <2> HIDE DEF P
  <2> QED BY <1>2, LeastNumber
<1> QED
  BY <1>1, <1>3, RemoveFirstMoves

LEMMA Unmoved ==
  ASSUME NEW S, NEW q \in Seq(S), NEW u, u \notin ToSet(q)
  PROVE  RemoveFirst(q, u) = q
BY LenProperties DEF RemoveFirst, ToSet

LEMMA LeavesLine ==
  ASSUME NEW S \in SUBSET Request, NEW q, Stands(q, S), NEW u
  PROVE  Stands(RemoveFirst(q, u), S) /\ ToSet(RemoveFirst(q, u)) = ToSet(q) \ {u}
<1>1. CASE u \in ToSet(q)
  BY <1>1, RemoveFirstKeeps DEF Stands
<1>2. CASE u \notin ToSet(q)
  BY <1>2, Unmoved DEF Stands
<1> QED
  BY <1>1, <1>2

LEMMA JoinsLine ==
  ASSUME NEW S \in SUBSET Request, NEW q, Stands(q, S), NEW u \in S, u \notin ToSet(q)
  PROVE  Stands(Append(q, u), S) /\ ToSet(Append(q, u)) = ToSet(q) \cup {u}
BY AppendJoins DEF Stands

LEMMA HeadServed ==
  ASSUME NEW S, NEW q \in Seq(S), q # <<>>
  PROVE  /\ Head(q) \in S /\ Head(q) \in ToSet(q)
         /\ Tail(q) \in Seq(S) /\ Len(Tail(q)) = Len(q) - 1 /\ Len(q) \in Nat
         /\ IsInjective(q) => IsInjective(Tail(q)) /\ ToSet(Tail(q)) = ToSet(q) \ {Head(q)}
<1>1. Len(q) \in Nat \ {0} /\ DOMAIN q = 1..Len(q)
  BY EmptySeq, LenProperties
<1>2. Tail(q) \in Seq(S) /\ Len(Tail(q)) = Len(q) - 1 /\ Head(q) \in S /\ Head(q) = q[1]
      /\ \A i \in 1..(Len(q) - 1) : Tail(q)[i] = q[i + 1]
  BY <1>1, HeadTailProperties
<1>3. DOMAIN Tail(q) = 1..(Len(q) - 1)
  BY <1>2, LenProperties
<1>4. Head(q) \in ToSet(q)
  <2>1. 1 \in DOMAIN q
    BY <1>1
  <2> QED
    BY <1>2, <2>1 DEF ToSet
<1> DEFINE t == Tail(q)
<1> HIDE DEF t
<1>5. ASSUME IsInjective(q) PROVE IsInjective(t) /\ ToSet(t) = ToSet(q) \ {q[1]}
  <2>0. \A i \in DOMAIN t : i + 1 \in DOMAIN q /\ i + 1 # 1 /\ t[i] = q[i + 1] /\ i \in Int
    BY <1>1, <1>2, <1>3 DEF t
  <2>1. IsInjective(t)
    <3> SUFFICES ASSUME NEW i \in DOMAIN t, NEW j \in DOMAIN t, t[i] = t[j] PROVE i = j
      BY DEF IsInjective
    <3>1. i + 1 = j + 1
      BY <1>5, <2>0 DEF IsInjective
    <3> QED
      BY <3>1, <2>0
  <2>2. ASSUME NEW i \in DOMAIN t PROVE t[i] \in ToSet(q) \ {q[1]}
    <3>1. 1 \in DOMAIN q
      BY <1>1
    <3>2. q[i + 1] # q[1]
      BY <1>5, <2>0, <3>1 DEF IsInjective
    <3> QED
      BY <2>0, <3>2 DEF ToSet
  <2>3. ASSUME NEW i \in DOMAIN q, q[i] # q[1] PROVE q[i] \in ToSet(t)
    <3>1. i - 1 \in DOMAIN t /\ t[i - 1] = q[i]
      <4>1. i \in 1..Len(q) /\ i # 1
        BY <1>1, <2>3
      <4>2. i - 1 \in 1..(Len(q) - 1) /\ (i - 1) + 1 = i
        BY <4>1, <1>1
      <4> QED
        BY <4>2, <1>2, <1>3 DEF t
    <3> QED
      BY <3>1 DEF ToSet
  <2> QED
    BY <2>1, <2>2, <2>3 DEF ToSet
<1> QED
  BY <1>1, <1>2, <1>4, <1>5 DEF t

-----------------------------------------------------------------------------
(* The seats, the lines and the requests that have a seat, together.        *)

LongWork == {r \in Request : LaneOf[r] # "normal"}
NormalOf(o) == {r \in Request : LaneOf[r] = "normal" /\ Origin[r] = o}

Lined(s) == Stands(s.kv, LongWork) /\ Stands(s.chat, NormalOf("chat")) /\ Stands(s.v1, NormalOf("v1"))
Within(s) == \A l \in Lane : Active(s, l) <= Capacity[l]

Fits(s, H) ==
  /\ s \in Lanes /\ s.streak <= ChatWeight /\ Lined(s)
  /\ H \in SUBSET Request /\ Counts(s.active, H) /\ Within(s)
  /\ H \cap Waiters(s) = {}

\* What a grant leaves alone.
Kept(t, s) ==
  /\ t.closed = s.closed /\ t.closers = s.closers /\ t.idle = s.idle /\ t.spent = s.spent /\ t.held = s.held
  /\ t.prefill = s.prefill

Granted(t, s) == Waiters(s) \ Waiters(t)

LEMMA LinesApart ==
  ASSUME NEW s, Lined(s)
  PROVE  /\ Waiters(s) \subseteq Request
         /\ ToSet(s.kv) = {r \in Waiters(s) : LaneOf[r] # "normal"}
         /\ ToSet(s.chat) = {r \in Waiters(s) : LaneOf[r] = "normal" /\ Chat(r)}
         /\ ToSet(s.v1) = {r \in Waiters(s) : LaneOf[r] = "normal" /\ V1(r)}
<1>1. ToSet(s.kv) \subseteq LongWork /\ ToSet(s.chat) \subseteq NormalOf("chat") /\ ToSet(s.v1) \subseteq NormalOf("v1")
  BY StandsType DEF Lined, LongWork, NormalOf
<1> QED
  BY <1>1, RequestTypes DEF LongWork, NormalOf, Waiters, Chat, V1

\* s gets other seats and lines.
With(s, a, kv, ripe, chat, v1, streak) ==
  [s EXCEPT !.active = a, !.kv = kv, !.ripe = ripe, !.chat = chat, !.v1 = v1, !.streak = streak]

LEMMA WithIs ==
  ASSUME NEW s \in Lanes, NEW a \in SeatTable, NEW kv \in Seq(Request), NEW ripe \in SUBSET Request,
         NEW chat \in Seq(Request), NEW v1 \in Seq(Request), NEW streak \in Nat
  PROVE  LET t == With(s, a, kv, ripe, chat, v1, streak)
         IN t \in Lanes /\ t.active = a /\ t.kv = kv /\ t.ripe = ripe /\ t.chat = chat /\ t.v1 = v1
            /\ t.streak = streak /\ Kept(t, s) /\ t.decode = s.decode /\ t.asked = s.asked /\ t.yields = s.yields
            /\ t.calls = s.calls
BY DEF Lanes, With, Kept, SeatTable

\* A seat is given to r, who leaves his line.
LEMMA Seat ==
  ASSUME NEW s, NEW H, Fits(s, H), NEW r \in Waiters(s), Active(s, LaneOf[r]) < Capacity[LaneOf[r]],
         NEW t \in Lanes, t.streak <= ChatWeight, Lined(t), Waiters(t) = Waiters(s) \ {r},
         t.active = Reseat(s.active, r, 1)
  PROVE  Fits(t, H \cup {r})
<1>1. s \in Lanes /\ r \in Request \ H /\ H \in SUBSET Request /\ s.active \in SeatTable
  BY LinesApart, SeatsAreCounted DEF Fits
<1>2. Counts(t.active, H \cup {r})
  BY <1>1, CountsTake DEF Fits
<1>3. ASSUME NEW l \in Lane PROVE Active(t, l) <= Capacity[l]
  <2>1. Active(t, l) = t.active[l]["chat"] + t.active[l]["v1"] /\ Active(s, l) = s.active[l]["chat"] + s.active[l]["v1"]
        /\ s.active[l]["chat"] \in Int /\ s.active[l]["v1"] \in Int
    BY <1>1, SeatsAreCounted, ReseatIs DEF ClassOf
  <2>2. \A o \in ClassOf : t.active[l][o] = IF l = LaneOf[r] /\ o = Origin[r] THEN s.active[l][o] + 1 ELSE s.active[l][o]
    BY <1>1, ReseatIs
  <2>3. l # LaneOf[r] => Active(t, l) = Active(s, l)
    BY <2>1, <2>2 DEF ClassOf
  <2>4. l = LaneOf[r] => Active(t, l) = Active(s, l) + 1
    BY <2>1, <2>2, <1>1, RequestTypes DEF ClassOf
  <2>5. Capacity[l] \in Nat /\ Active(s, l) <= Capacity[l] /\ Active(s, l) \in Int
    BY <2>1, AdmissionAssumption DEF Fits, Within
  <2> QED
    BY <2>3, <2>4, <2>5
<1> QED
  BY <1>1, <1>2, <1>3 DEF Fits, Within

\* What the pumps keep, from s with the holders H on: those who leave the lines
\* have a seat now, and behind a closure they are LONG.
AfterGrants(s, H) ==
  {t \in Lanes : /\ Waiters(t) \subseteq Waiters(s) /\ Fits(t, H \cup Granted(t, s)) /\ Kept(t, s)
                 /\ s.closed => \A r \in Granted(t, s) : LaneOf[r] = "long"}

LEMMA GrantsBegin ==
  ASSUME NEW s, NEW H, Fits(s, H)
  PROVE  s \in AfterGrants(s, H)
<1>1. Granted(s, s) = {} /\ H \cup {} = H
  BY DEF Granted
<1>2. Kept(s, s) /\ s \in Lanes
  BY DEF Kept, Fits
<1> QED
  BY <1>1, <1>2 DEF AfterGrants

LEMMA GrantsGoOn ==
  ASSUME NEW s, NEW H, Fits(s, H), NEW t \in AfterGrants(s, H), NEW r \in Waiters(t),
         Active(t, LaneOf[r]) < Capacity[LaneOf[r]], t.closed => LaneOf[r] = "long",
         NEW u \in Lanes, u.streak <= ChatWeight, Lined(u), Waiters(u) = Waiters(t) \ {r},
         u.active = Reseat(t.active, r, 1), Kept(u, t)
  PROVE  u \in AfterGrants(s, H)
<1>1. Waiters(t) \subseteq Waiters(s) /\ Fits(t, H \cup Granted(t, s)) /\ Kept(t, s)
      /\ (s.closed => \A q \in Granted(t, s) : LaneOf[q] = "long")
  BY DEF AfterGrants
<1>2. Granted(u, s) = Granted(t, s) \cup {r}
  BY <1>1 DEF Granted
<1>3. Fits(u, (H \cup Granted(t, s)) \cup {r})
  BY <1>1, Seat
<1>4. (H \cup Granted(t, s)) \cup {r} = H \cup Granted(u, s)
  BY <1>2
<1>5. Kept(u, s) /\ (s.closed => t.closed)
  BY <1>1 DEF Kept
<1>6. Waiters(u) \subseteq Waiters(s)
  BY <1>1
<1> QED
  BY <1>1, <1>2, <1>3, <1>4, <1>5, <1>6 DEF AfterGrants

-----------------------------------------------------------------------------
(* The arbiter of long work.                                                *)

LEMMA RankType ==
  ASSUME NEW s \in Lanes, NEW i \in DOMAIN s.kv
  PROVE  Rank(s, i) \in Nat
<1>1. Len(s.kv) \in Nat /\ i \in 1..Len(s.kv)
  BY LenProperties DEF Lanes
<1> QED
  BY <1>1 DEF Rank

\* The choice is a waiter that nothing blocks; without one all are blocked.
LEMMA ChoiceIs ==
  ASSUME NEW s \in Lanes
  PROVE  IF Choice(s) = NoRequest THEN \A r \in ToSet(s.kv) : Blocked(s, r)
         ELSE Choice(s) \in ToSet(s.kv) /\ Choice(s) \in Request /\ ~Blocked(s, Choice(s))
<1> DEFINE able == {i \in DOMAIN s.kv : ~Blocked(s, s.kv[i])}
           rank == [i \in DOMAIN s.kv |-> Rank(s, i)]
<1>1. rank \in [DOMAIN s.kv -> Nat] /\ able \in SUBSET DOMAIN s.kv
  BY RankType
<1>2. \A i \in DOMAIN s.kv : s.kv[i] \in Request /\ s.kv[i] # NoRequest
  BY LenProperties, RequestTypes DEF Lanes
<1>3. CASE able = {}
  <2>1. Choice(s) = NoRequest
    BY <1>3 DEF Choice
  <2>2. \A r \in ToSet(s.kv) : Blocked(s, r)
    BY <1>3 DEF ToSet
  <2> QED
    BY <2>1, <2>2
<1>4. CASE able # {}
  <2>1. \E i \in able : \A j \in able : rank[i] <= rank[j]
    <3> HIDE DEF able, rank
    <3> QED BY <1>1, <1>4, LeastElement
  <2>2. \E i \in able : \A j \in able : Rank(s, i) <= Rank(s, j)
    BY <2>1
  <2>3. PICK i \in able : i = CHOOSE x \in able : \A j \in able : Rank(s, x) <= Rank(s, j)
    BY <2>2
  <2>4. Choice(s) = s.kv[i]
    BY <1>4, <2>3 DEF Choice
  <2>5. s.kv[i] \in ToSet(s.kv)
    BY DEF ToSet
  <2> QED
    BY <1>2, <2>4, <2>5
<1> QED
  BY <1>3, <1>4

\* One round of the arbiter.
LEMMA KvRoundIs ==
  ASSUME NEW s \in Lanes
  PROVE  LET r == Choice(s) IN
         IF r = NoRequest THEN KvRound(s) = s
         ELSE /\ KvRound(s) = With(s, Reseat(s.active, r, 1), RemoveFirst(s.kv, r), s.ripe \ {r}, s.chat, s.v1, s.streak)
              /\ KvRound(s) \in Lanes /\ Len(KvRound(s).kv) < Len(s.kv)
              /\ KvRound(s).kv = RemoveFirst(s.kv, r) /\ KvRound(s).chat = s.chat /\ KvRound(s).v1 = s.v1
              /\ KvRound(s).streak = s.streak /\ KvRound(s).active = Reseat(s.active, r, 1) /\ Kept(KvRound(s), s)
<1>1. CASE Choice(s) = NoRequest
  BY <1>1 DEF KvRound
<1>2. CASE Choice(s) # NoRequest
  <2>1. PICK r \in Request : r = Choice(s) /\ r # NoRequest /\ r \in ToSet(s.kv)
    BY <1>2, ChoiceIs
  <2>2. s.kv \in Seq(Request) /\ s.ripe \ {r} \in SUBSET Request /\ s.chat \in Seq(Request) /\ s.v1 \in Seq(Request)
        /\ s.streak \in Nat
    BY DEF Lanes
  <2>3. RemoveFirst(s.kv, r) \in Seq(Request) /\ Len(RemoveFirst(s.kv, r)) < Len(s.kv)
    BY <2>1, <2>2, Shorter
  <2>4. PICK a \in SeatTable : a = Reseat(s.active, r, 1) /\ Taken(s, r) = [s EXCEPT !.active = a]
    BY TakenIs
  <2>5. KvRound(s) = [Taken(s, r) EXCEPT !.kv = RemoveFirst(@, r), !.ripe = @ \ {r}]
    BY <2>1 DEF KvRound
  <2>6. PICK kv \in Seq(Request) : kv = RemoveFirst(s.kv, r)
    BY <2>3
  <2>7. [s EXCEPT !.active = a].kv = s.kv /\ [s EXCEPT !.active = a].ripe = s.ripe
    BY DEF Lanes
  <2>8. KvRound(s) = [[s EXCEPT !.active = a] EXCEPT !.kv = kv, !.ripe = s.ripe \ {r}]
    BY <2>4, <2>5, <2>6, <2>7
  <2>9. KvRound(s) = With(s, a, kv, s.ripe \ {r}, s.chat, s.v1, s.streak)
    BY <2>8 DEF With, Lanes
  <2> QED
    BY <2>1, <2>2, <2>3, <2>4, <2>6, <2>9, WithIs
<1> QED
  BY <1>1, <1>2

LEMMA KvRoundKeeps ==
  ASSUME NEW s, NEW H, Fits(s, H), NEW t \in AfterGrants(s, H)
  PROVE  KvRound(t) \in AfterGrants(s, H)
<1>0. t \in Lanes /\ Fits(t, H \cup Granted(t, s))
  BY DEF AfterGrants
<1>1. CASE Choice(t) = NoRequest
  BY <1>0, <1>1, KvRoundIs
<1>2. CASE Choice(t) # NoRequest
  <2> DEFINE u == KvRound(t)
  <2>1. PICK r \in Request : r = Choice(t) /\ r \in ToSet(t.kv) /\ ~Blocked(t, r)
    BY <1>0, <1>2, ChoiceIs
  <2>2. u \in Lanes /\ u.kv = RemoveFirst(t.kv, r) /\ u.chat = t.chat /\ u.v1 = t.v1
        /\ u.streak = t.streak /\ u.active = Reseat(t.active, r, 1) /\ Kept(u, t)
    BY <1>0, <1>2, <2>1, KvRoundIs
  <2> HIDE DEF u
  <2>3. LongWork \in SUBSET Request /\ Stands(t.kv, LongWork)
    BY <1>0 DEF Fits, Lined, LongWork
  <2>4. Stands(u.kv, LongWork) /\ ToSet(u.kv) = ToSet(t.kv) \ {r}
    BY <2>2, <2>3, LeavesLine
  <2>5. Lined(u)
    BY <1>0, <2>2, <2>4 DEF Fits, Lined
  <2>6. r \in Waiters(t) /\ LaneOf[r] # "normal" /\ r \notin ToSet(t.chat) /\ r \notin ToSet(t.v1)
    BY <1>0, <2>1, LinesApart DEF Fits, Waiters
  <2>7. Waiters(u) = Waiters(t) \ {r}
    BY <2>2, <2>4, <2>6 DEF Waiters
  <2>8. Active(t, LaneOf[r]) < Capacity[LaneOf[r]] /\ (t.closed => LaneOf[r] = "long")
    <3>1. LaneOf[r] \in Lane /\ Active(t, LaneOf[r]) \in Int /\ Capacity[LaneOf[r]] \in Nat
      BY <1>0, RequestTypes, SeatsAreCounted, AdmissionAssumption
    <3> QED
      BY <2>1, <2>6, <3>1 DEF Blocked, Lane
  <2>9. u.streak <= ChatWeight
    BY <1>0, <2>2 DEF Fits
  <2>10. u \in AfterGrants(s, H)
    BY <2>2, <2>5, <2>6, <2>7, <2>8, <2>9, GrantsGoOn
  <2> QED
    BY <2>10 DEF u
<1> QED
  BY <1>1, <1>2

\* The arbiter's pump ends, with every waiter of long work blocked.
LEMMA KvPumpEnds ==
  ASSUME NEW s, NEW H, Fits(s, H)
  PROVE  /\ KvPump[s] \in AfterGrants(s, H)
         /\ \A r \in ToSet(KvPump[s].kv) : Blocked(KvPump[s], r)
<1> DEFINE round == [x \in Lanes |-> KvRound(x)]
           size == [x \in Lanes |-> Len(x.kv)]
           Is(f) == f = [x \in Lanes |-> LET t == KvRound(x) IN IF t = x THEN x ELSE f[t]]
<1>1. round \in [Lanes -> Lanes] /\ size \in [Lanes -> Nat]
  <2>1. \A x \in Lanes : KvRound(x) \in Lanes
    BY KvRoundIs
  <2>2. \A x \in Lanes : Len(x.kv) \in Nat
    BY LenProperties DEF Lanes
  <2> QED
    BY <2>1, <2>2
<1>2. \A x \in Lanes : round[x] # x => size[round[x]] < size[x]
  <2> SUFFICES ASSUME NEW x \in Lanes, KvRound(x) # x PROVE size[KvRound(x)] < size[x]
    OBVIOUS
  <2> QED
    BY KvRoundIs
<1>3. \A f : Is(f) <=> f = [x \in Lanes |-> IF round[x] = x THEN x ELSE f[round[x]]]
  <2>1. \A x \in Lanes : round[x] = KvRound(x)
    OBVIOUS
  <2> HIDE DEF round
  <2> QED BY <2>1
<1>4. KvPump = [x \in Lanes |-> IF round[x] = x THEN x ELSE KvPump[round[x]]]
  <2>1. \E f : Is(f)
    <3> HIDE DEF Is, round
    <3> QED BY <1>1, <1>3, PumpExists
  <2>2. KvPump = CHOOSE f : Is(f)
    BY DEF KvPump
  <2>3. Is(KvPump)
    <3> HIDE DEF Is
    <3> QED BY <2>1, <2>2
  <2> HIDE DEF Is, round
  <2> QED BY <1>3, <2>3
<1> DEFINE I == AfterGrants(s, H)
<1>5. I \in SUBSET Lanes /\ s \in I
  BY GrantsBegin DEF AfterGrants
<1>6. ClosedUnder(round, I)
  <2>1. \A t \in I : KvRound(t) \in I
    BY KvRoundKeeps
  <2> QED
    BY <1>5, <2>1 DEF ClosedUnder
<1> HIDE DEF I
<1>7. KvPump[s] \in I /\ round[KvPump[s]] = KvPump[s]
  <2> HIDE DEF round, size
  <2> QED BY <1>1, <1>2, <1>4, <1>5, <1>6, PumpEnds
<1>8. PICK t \in Lanes : t = KvPump[s] /\ KvRound(t) = t
  BY <1>5, <1>7
<1>9. \A r \in ToSet(t.kv) : Blocked(t, r)
  <2>1. Len(t.kv) \in Nat
    BY LenProperties DEF Lanes
  <2>2. Choice(t) = NoRequest
    <3> SUFFICES ASSUME Choice(t) # NoRequest PROVE FALSE
      OBVIOUS
    <3>1. Len(KvRound(t).kv) < Len(t.kv)
      BY KvRoundIs
    <3> QED
      BY <1>8, <2>1, <3>1
  <2> QED
    BY <2>2, ChoiceIs
<1> QED
  BY <1>7, <1>8, <1>9 DEF I

-----------------------------------------------------------------------------
(* NORMAL's pump.                                                           *)

\* The chat streak counts only while /v1 waits.
Settled(q) == IF q.v1 = <<>> /\ q.chat # <<>> THEN [q EXCEPT !.streak = 0] ELSE q

LEMMA SettledIs ==
  ASSUME NEW q \in Lanes
  PROVE  /\ Settled(q) \in Lanes /\ Settled(q).active = q.active /\ Settled(q).kv = q.kv
         /\ Settled(q).chat = q.chat /\ Settled(q).v1 = q.v1 /\ Kept(Settled(q), q)
         /\ Settled(q).streak \in {0, q.streak} /\ (Settled(q).streak = q.streak => Settled(q) = q)
BY DEF Settled, Lanes, Kept

NormalSize(q) == 2 * (Len(q.chat) + Len(q.v1)) + (IF q.streak # 0 THEN 1 ELSE 0)

LEMMA NormalSizeType ==
  ASSUME NEW q \in Lanes
  PROVE  \E n \in Nat :
           /\ Len(q.chat) \in Nat /\ Len(q.v1) \in Nat /\ n = Len(q.chat) + Len(q.v1) 
           /\ NormalSize(q) = IF q.streak # 0 THEN 2 * n + 1 ELSE 2 * n
<1>1. Len(q.chat) \in Nat /\ Len(q.v1) \in Nat
  BY LenProperties DEF Lanes
<1> DEFINE n == Len(q.chat) + Len(q.v1)
<1>2. n \in Nat
  <2>1. PICK a \in Nat : a = Len(q.chat)
    BY <1>1
  <2>2. PICK b \in Nat : b = Len(q.v1)
    BY <1>1
  <2>3. a + b \in Nat
    OBVIOUS
  <2> QED
    BY <2>1, <2>2, <2>3, Zenon
<1>3. NormalSize(q) = 2 * n + (IF q.streak # 0 THEN 1 ELSE 0)
  BY DEF NormalSize
<1>4. n = Len(q.chat) + Len(q.v1)
  OBVIOUS
<1> HIDE DEF n
<1>5. NormalSize(q) = IF q.streak # 0 THEN 2 * n + 1 ELSE 2 * n
  BY <1>2, <1>3
<1> QED
  BY <1>1, <1>2, <1>4, <1>5

\* One round of Lane._pump: from the settled s, a chat waiter, a /v1 waiter or
\* nobody is let in.
ChatFirst(s) == Free(s) /\ s.chat # <<>> /\ ~(SeatFreeForV1(s) /\ s.v1 # <<>> /\ V1sTurn(s))
V1Next(s) == SeatFreeForV1(s) /\ s.v1 # <<>>

LEMMA NormalRoundIs ==
  ASSUME NEW q \in Lanes
  PROVE  LET s == Settled(q)
             t == NormalRound(q)
         IN /\ t \in Lanes /\ t.kv = q.kv /\ Kept(t, q)
            /\ IF ChatFirst(s)
               THEN /\ t.chat = Tail(q.chat) /\ t.v1 = q.v1 /\ t.active = Reseat(q.active, Head(q.chat), 1)
                    /\ t.streak = IF CountsForV1(s) THEN s.streak + 1 ELSE s.streak
               ELSE IF V1Next(s)
               THEN /\ t.chat = q.chat /\ t.v1 = Tail(q.v1) /\ t.active = Reseat(q.active, Head(q.v1), 1)
                    /\ t.streak = 0
               ELSE t = s
<1> DEFINE s == Settled(q)
           t == NormalRound(q)
<1>1. t = IF ChatFirst(s)
          THEN [Taken(s, Head(s.chat)) EXCEPT !.chat = Tail(@), !.streak = IF CountsForV1(s) THEN @ + 1 ELSE @]
          ELSE IF V1Next(s) THEN [Taken(s, Head(s.v1)) EXCEPT !.v1 = Tail(@), !.streak = 0]
          ELSE s
  <2>1. NormalRound(q) =
          IF (Free(s) /\ s.chat # <<>>) /\ ~((SeatFreeForV1(s) /\ s.v1 # <<>>) /\ V1sTurn(s))
          THEN [Taken(s, Head(s.chat)) EXCEPT !.chat = Tail(@), !.streak = IF CountsForV1(s) THEN @ + 1 ELSE @]
          ELSE IF SeatFreeForV1(s) /\ s.v1 # <<>> THEN [Taken(s, Head(s.v1)) EXCEPT !.v1 = Tail(@), !.streak = 0]
          ELSE s
    BY Zenon DEF NormalRound, Settled
  <2> HIDE DEF s
  <2> QED BY <2>1, Zenon DEF ChatFirst, V1Next
<1>2. /\ s \in Lanes /\ s.active = q.active /\ s.kv = q.kv /\ s.chat = q.chat /\ s.v1 = q.v1 /\ Kept(s, q)
  BY SettledIs
<1>3. s.chat \in Seq(Request) /\ s.v1 \in Seq(Request) /\ s.kv \in Seq(Request) /\ s.ripe \in SUBSET Request
      /\ s.streak \in Nat
  BY <1>2 DEF Lanes
<1> HIDE DEF s, t
<1>4. CASE ChatFirst(s)
  <2>1. PICK r \in Request : r = Head(s.chat)
    BY <1>3, <1>4, HeadServed DEF ChatFirst
  <2>2. PICK tail \in Seq(Request) : tail = Tail(s.chat)
    BY <1>3, <1>4, HeadServed DEF ChatFirst
  <2>3. PICK a \in SeatTable : a = Reseat(s.active, r, 1) /\ Taken(s, r) = [s EXCEPT !.active = a]
    BY <1>2, TakenIs
  <2>4. PICK n \in Nat : n = IF CountsForV1(s) THEN s.streak + 1 ELSE s.streak
    BY <1>3
  <2>5. [s EXCEPT !.active = a].chat = s.chat /\ [s EXCEPT !.active = a].streak = s.streak
    BY <1>2 DEF Lanes
  <2>6. t = [[s EXCEPT !.active = a] EXCEPT !.chat = tail, !.streak = n]
    BY <1>1, <1>4, <2>1, <2>2, <2>3, <2>4, <2>5
  <2>7. t = With(s, a, s.kv, s.ripe, tail, s.v1, n)
    BY <1>2, <2>6 DEF With, Lanes
  <2>8. t \in Lanes /\ t.active = a /\ t.kv = s.kv /\ t.chat = tail /\ t.v1 = s.v1 /\ t.streak = n /\ Kept(t, s)
    BY <1>2, <1>3, <2>7, WithIs
  <2>9. Kept(t, q)
    BY <1>2, <2>8 DEF Kept
  <2> QED
    BY <1>2, <1>4, <2>1, <2>2, <2>3, <2>4, <2>8, <2>9 DEF s, t
<1>5. CASE ~ChatFirst(s) /\ V1Next(s)
  <2>1. PICK r \in Request : r = Head(s.v1)
    BY <1>3, <1>5, HeadServed DEF V1Next
  <2>2. PICK tail \in Seq(Request) : tail = Tail(s.v1)
    BY <1>3, <1>5, HeadServed DEF V1Next
  <2>3. PICK a \in SeatTable : a = Reseat(s.active, r, 1) /\ Taken(s, r) = [s EXCEPT !.active = a]
    BY <1>2, TakenIs
  <2>5. [s EXCEPT !.active = a].v1 = s.v1
    BY <1>2 DEF Lanes
  <2>6. t = [[s EXCEPT !.active = a] EXCEPT !.v1 = tail, !.streak = 0]
    BY <1>1, <1>5, <2>1, <2>2, <2>3, <2>5
  <2>7. t = With(s, a, s.kv, s.ripe, s.chat, tail, 0)
    BY <1>2, <2>6 DEF With, Lanes
  <2>8. t \in Lanes /\ t.active = a /\ t.kv = s.kv /\ t.chat = s.chat /\ t.v1 = tail /\ t.streak = 0 /\ Kept(t, s)
    BY <1>2, <1>3, <2>7, WithIs
  <2>9. Kept(t, q)
    BY <1>2, <2>8 DEF Kept
  <2> QED
    BY <1>2, <1>5, <2>1, <2>2, <2>3, <2>8, <2>9 DEF s, t
<1>6. CASE ~ChatFirst(s) /\ ~V1Next(s)
  BY <1>1, <1>2, <1>6 DEF s, t
<1> QED
  BY <1>4, <1>5, <1>6

\* A round that changes something shortens a line, or only drops the streak.
LEMMA NormalRoundShrinks ==
  ASSUME NEW q \in Lanes, NormalRound(q) # q
  PROVE  NormalSize(NormalRound(q)) < NormalSize(q)
<1> DEFINE s == Settled(q)
           t == NormalRound(q)
<1>0. s \in Lanes /\ s.chat = q.chat /\ s.v1 = q.v1 /\ s.streak \in {0, q.streak} /\ (s.streak = q.streak => s = q)
  BY SettledIs
<1>1. q.chat \in Seq(Request) /\ q.v1 \in Seq(Request) /\ Len(q.chat) \in Nat /\ Len(q.v1) \in Nat
      /\ q.streak \in Nat
  BY NormalSizeType DEF Lanes
<1>2. t \in Lanes
  BY NormalRoundIs
<1>6. PICK n \in Nat : n = Len(q.chat) + Len(q.v1) /\ NormalSize(q) = IF q.streak # 0 THEN 2 * n + 1 ELSE 2 * n
  BY NormalSizeType
<1>7. PICK m \in Nat : Len(t.chat) \in Nat /\ Len(t.v1) \in Nat /\ m = Len(t.chat) + Len(t.v1)
                       /\ NormalSize(t) = IF t.streak # 0 THEN 2 * m + 1 ELSE 2 * m
  BY <1>2, NormalSizeType
<1>3. CASE ChatFirst(s)
  <2>1. t.chat = Tail(q.chat) /\ t.v1 = q.v1
    BY <1>3, NormalRoundIs
  <2>2. Len(t.v1) = Len(q.v1)
    BY <2>1
  <2>3. Len(t.chat) = Len(q.chat) - 1
    BY <1>0, <1>1, <1>3, <2>1, HeadServed DEF ChatFirst
  <2> HIDE DEF s, t
  <2>4. n = m + 1
    BY <1>1, <1>6, <1>7, <2>2, <2>3
  <2>5. NormalSize(t) \in {2 * m, 2 * m + 1} /\ NormalSize(q) \in {2 * n, 2 * n + 1}
    BY <1>6, <1>7
  <2>6. NormalSize(t) < NormalSize(q)
    BY <2>4, <2>5
  <2> QED
    BY <2>6 DEF t
<1>4. CASE ~ChatFirst(s) /\ V1Next(s)
  <2>1. t.chat = q.chat /\ t.v1 = Tail(q.v1)
    BY <1>4, NormalRoundIs
  <2>2. Len(t.chat) = Len(q.chat)
    BY <2>1
  <2>3. Len(t.v1) = Len(q.v1) - 1
    BY <1>0, <1>1, <1>4, <2>1, HeadServed DEF V1Next
  <2> HIDE DEF s, t
  <2>4. n = m + 1
    BY <1>1, <1>6, <1>7, <2>2, <2>3
  <2>5. NormalSize(t) \in {2 * m, 2 * m + 1} /\ NormalSize(q) \in {2 * n, 2 * n + 1}
    BY <1>6, <1>7
  <2>6. NormalSize(t) < NormalSize(q)
    BY <2>4, <2>5
  <2> QED
    BY <2>6 DEF t
<1>5. CASE ~ChatFirst(s) /\ ~V1Next(s)
  <2>1. t = s
    BY <1>5, NormalRoundIs
  <2>2. s # q
    BY <2>1
  <2> HIDE DEF s
  <2>3. s.streak = 0 /\ q.streak # 0
    BY <1>0, <2>2
  <2>4. NormalSize(s) = 2 * n /\ NormalSize(q) = 2 * n + 1
    BY <1>0, <1>1, <1>6, <2>3 DEF NormalSize
  <2> QED
    BY <2>1, <2>4
<1> QED
  BY <1>3, <1>4, <1>5

\* A state that a round leaves alone lets nobody wait for a free seat.
LEMMA NormalRoundEnds ==
  ASSUME NEW q \in Lanes, NormalRound(q) = q
  PROVE  (q.chat # <<>> => ~Free(q)) /\ (q.v1 # <<>> => ~SeatFreeForV1(q))
<1> DEFINE s == Settled(q)
<1>1. q.chat \in Seq(Request) /\ q.v1 \in Seq(Request)
  BY DEF Lanes
<1>2. s.chat = q.chat /\ s.v1 = q.v1
  BY SettledIs
<1>3. ~ChatFirst(s)
  <2> SUFFICES ASSUME ChatFirst(s) PROVE FALSE
    OBVIOUS
  <2>1. q.chat = Tail(q.chat)
    BY NormalRoundIs
  <2>2. Len(Tail(q.chat)) = Len(q.chat)
    BY <2>1
  <2>3. Len(Tail(q.chat)) = Len(q.chat) - 1 /\ Len(q.chat) \in Nat
    BY <1>1, <1>2, HeadServed DEF ChatFirst
  <2> QED
    BY <2>2, <2>3
<1>4. ~V1Next(s)
  <2> SUFFICES ASSUME V1Next(s) PROVE FALSE
    OBVIOUS
  <2>1. q.v1 = Tail(q.v1)
    BY <1>3, NormalRoundIs
  <2>2. Len(Tail(q.v1)) = Len(q.v1)
    BY <2>1
  <2>3. Len(Tail(q.v1)) = Len(q.v1) - 1 /\ Len(q.v1) \in Nat
    BY <1>1, <1>2, HeadServed DEF V1Next
  <2> QED
    BY <2>2, <2>3
<1>5. s = q
  BY <1>3, <1>4, NormalRoundIs
<1> QED
  BY <1>3, <1>4, <1>5 DEF ChatFirst, V1Next

LongBlocked(s) == \A r \in ToSet(s.kv) : Blocked(s, r)
NormalBusy(s) == (s.chat # <<>> => ~Free(s)) /\ (s.v1 # <<>> => ~SeatFreeForV1(s))

\* Whether long work is blocked does not depend on NORMAL's seats.
LEMMA BlockedAlike ==
  ASSUME NEW s \in Lanes, NEW t \in Lanes, Kept(t, s), NEW r \in Request,
         t.active["long"] = s.active["long"], t.active["long_output"] = s.active["long_output"]
  PROVE  Blocked(t, r) <=> Blocked(s, r)
<1>1. Active(t, "long") = Active(s, "long") /\ Active(t, "long_output") = Active(s, "long_output")
  BY DEF Active
<1> QED
  BY <1>1 DEF Blocked, Kept

LEMMA NormalRoundKeeps ==
  ASSUME NEW s, NEW H, Fits(s, H), NEW q \in AfterGrants(s, H), LongBlocked(q)
  PROVE  NormalRound(q) \in AfterGrants(s, H) /\ LongBlocked(NormalRound(q))
<1> DEFINE w == Settled(q)
           t == NormalRound(q)
<1>0. q \in Lanes /\ Fits(q, H \cup Granted(q, s))
  BY DEF AfterGrants
<1>1. w \in Lanes /\ w.active = q.active /\ w.kv = q.kv /\ w.chat = q.chat /\ w.v1 = q.v1 /\ Kept(w, q)
      /\ w.streak \in {0, q.streak}
  BY <1>0, SettledIs
<1>2. t \in Lanes /\ t.kv = q.kv /\ Kept(t, q)
  BY <1>0, NormalRoundIs
<1>3. q.chat \in Seq(Request) /\ q.v1 \in Seq(Request) /\ q.streak \in Nat /\ q.streak <= ChatWeight /\ ChatWeight \in Nat
  BY <1>0, AdmissionAssumption DEF Lanes, Fits
<1>4. /\ Stands(q.chat, NormalOf("chat")) /\ Stands(q.v1, NormalOf("v1")) /\ Stands(q.kv, LongWork)
      /\ ToSet(q.kv) = {r \in Waiters(q) : LaneOf[r] # "normal"}
      /\ ToSet(q.chat) = {r \in Waiters(q) : LaneOf[r] = "normal" /\ Chat(r)}
      /\ ToSet(q.v1) = {r \in Waiters(q) : LaneOf[r] = "normal" /\ V1(r)}
      /\ Waiters(q) \subseteq Request
  BY <1>0, LinesApart DEF Fits, Lined
<1>5. Free(w) => ~q.closed /\ Active(q, "normal") < Capacity["normal"]
  <2>1. Active(w, "normal") = Active(q, "normal")
    BY <1>1 DEF Active
  <2> QED
    BY <1>1, <2>1 DEF Free, Kept
<1>6. ASSUME NEW r \in Waiters(q), LaneOf[r] = "normal", Free(w),
             t.active = Reseat(q.active, r, 1), Lined(t), Waiters(t) = Waiters(q) \ {r}, t.streak <= ChatWeight
      PROVE  t \in AfterGrants(s, H) /\ LongBlocked(t)
  <2>1. t \in AfterGrants(s, H)
    <3> HIDE DEF t, w
    <3> QED BY <1>2, <1>5, <1>6, GrantsGoOn
  <2>2. ASSUME NEW l \in Lane, l # "normal" PROVE t.active[l] = q.active[l]
    <3>1. r \in Request /\ q.active \in SeatTable /\ t.active \in SeatTable
      BY <1>0, <1>2, <1>4, SeatsAreCounted
    <3>2. t.active[l]["chat"] = q.active[l]["chat"] /\ t.active[l]["v1"] = q.active[l]["v1"]
      <4> HIDE DEF t, w
      <4> QED BY <1>6, <2>2, <3>1, ReseatIs DEF ClassOf
    <3> HIDE DEF t, w
    <3> QED BY <3>1, <3>2 DEF SeatTable
  <2>3. t.active["long"] = q.active["long"] /\ t.active["long_output"] = q.active["long_output"]
    BY <2>2 DEF Lane
  <2> HIDE DEF t, w
  <2>4. LongBlocked(t)
    <3>1. \A r1 \in ToSet(q.kv) : r1 \in Request
      BY <1>4
    <3> QED
      BY <1>0, <1>2, <2>3, <3>1, BlockedAlike DEF LongBlocked
  <2> QED
    BY <2>1, <2>4
<1>7. CASE ChatFirst(w)
  <2>1. t.chat = Tail(q.chat) /\ t.v1 = q.v1 /\ t.active = Reseat(q.active, Head(q.chat), 1)
        /\ t.streak = IF CountsForV1(w) THEN w.streak + 1 ELSE w.streak
    BY <1>0, <1>7, NormalRoundIs
  <2> HIDE DEF t, w
  <2>2. Free(w) /\ q.chat # <<>> /\ ~(SeatFreeForV1(w) /\ w.v1 # <<>> /\ V1sTurn(w))
    BY <1>1, <1>7 DEF ChatFirst
  <2>3. PICK r \in Request : r = Head(q.chat) /\ r \in ToSet(q.chat)
    BY <1>3, <2>2, HeadServed
  <2>4. Stands(t.chat, NormalOf("chat")) /\ ToSet(t.chat) = ToSet(q.chat) \ {r}
    BY <1>4, <2>1, <2>2, <2>3, HeadServed DEF Stands
  <2>5. r \in Waiters(q) /\ LaneOf[r] = "normal" /\ r \notin ToSet(q.kv) /\ r \notin ToSet(q.v1)
    BY <1>4, <2>3, RequestTypes
  <2>6. Waiters(t) = Waiters(q) \ {r} /\ Lined(t)
    BY <1>2, <1>4, <2>1, <2>4, <2>5 DEF Waiters, Lined
  <2>7. t.streak <= ChatWeight
    <3>1. CASE CountsForV1(w)
      <4>1. w.active["normal"].v1 < V1Share /\ SeatFreeForV1(w) /\ w.v1 # <<>>
        BY <3>1 DEF CountsForV1
      <4>2. ~(w.streak >= ChatWeight)
        BY <2>2, <4>1 DEF V1sTurn
      <4>3. w.streak \in Nat
        BY <1>1, <1>3
      <4> QED
        BY <1>3, <2>1, <3>1, <4>2, <4>3
    <3>2. CASE ~CountsForV1(w)
      <4>1. t.streak = w.streak
        BY <2>1, <3>2
      <4> QED
        BY <1>1, <1>3, <4>1
    <3> QED
      BY <3>1, <3>2
  <2> QED
    BY <1>6, <2>1, <2>2, <2>3, <2>5, <2>6, <2>7 DEF t
<1>8. CASE ~ChatFirst(w) /\ V1Next(w)
  <2>1. t.chat = q.chat /\ t.v1 = Tail(q.v1) /\ t.active = Reseat(q.active, Head(q.v1), 1) /\ t.streak = 0
    BY <1>0, <1>8, NormalRoundIs
  <2> HIDE DEF t, w
  <2>2. Free(w) /\ q.v1 # <<>>
    BY <1>1, <1>8 DEF V1Next, SeatFreeForV1
  <2>3. PICK r \in Request : r = Head(q.v1) /\ r \in ToSet(q.v1)
    BY <1>3, <2>2, HeadServed
  <2>4. Stands(t.v1, NormalOf("v1")) /\ ToSet(t.v1) = ToSet(q.v1) \ {r}
    BY <1>4, <2>1, <2>2, <2>3, HeadServed DEF Stands
  <2>5. r \in Waiters(q) /\ LaneOf[r] = "normal" /\ r \notin ToSet(q.kv) /\ r \notin ToSet(q.chat)
    BY <1>4, <2>3, RequestTypes
  <2>6. Waiters(t) = Waiters(q) \ {r} /\ Lined(t)
    BY <1>2, <1>4, <2>1, <2>4, <2>5 DEF Waiters, Lined
  <2>7. t.streak <= ChatWeight
    BY <1>3, <2>1
  <2> QED
    BY <1>6, <2>1, <2>2, <2>3, <2>5, <2>6, <2>7 DEF t
<1>9. CASE ~ChatFirst(w) /\ ~V1Next(w)
  <2>1. t = w
    BY <1>0, <1>9, NormalRoundIs
  <2>2. w.streak <= ChatWeight
    BY <1>1, <1>3
  <2> HIDE DEF w
  <2>3. Waiters(w) = Waiters(q) /\ Lined(w) /\ Granted(w, s) = Granted(q, s) /\ Within(w)
    BY <1>0, <1>1 DEF Waiters, Lined, Granted, Fits, Within, Active
  <2>4. Fits(w, H \cup Granted(w, s))
    BY <1>0, <1>1, <2>2, <2>3 DEF Fits
  <2>5. Kept(w, s)
    BY <1>1 DEF Kept, AfterGrants
  <2>6. w \in AfterGrants(s, H)
    BY <1>1, <2>3, <2>4, <2>5 DEF AfterGrants
  <2>7. LongBlocked(w)
    <3>1. \A r1 \in ToSet(q.kv) : r1 \in Request
      BY <1>4
    <3> QED
      BY <1>0, <1>1, <3>1, BlockedAlike DEF LongBlocked
  <2> HIDE DEF t
  <2> QED
    BY <2>1, <2>6, <2>7 DEF t
<1> QED
  BY <1>7, <1>8, <1>9

LEMMA NormalPumpEnds ==
  ASSUME NEW s, NEW H, Fits(s, H), NEW x \in AfterGrants(s, H), LongBlocked(x)
  PROVE  NormalPump[x] \in AfterGrants(s, H) /\ LongBlocked(NormalPump[x]) /\ NormalBusy(NormalPump[x])
<1> DEFINE round == [y \in Lanes |-> NormalRound(y)]
           size == [y \in Lanes |-> NormalSize(y)]
           Is(f) == f = [y \in Lanes |-> LET t == NormalRound(y) IN IF t = y THEN y ELSE f[t]]
<1>1. round \in [Lanes -> Lanes] /\ size \in [Lanes -> Nat]
  <2>1. \A y \in Lanes : NormalRound(y) \in Lanes
    BY NormalRoundIs
  <2>2. \A y \in Lanes : NormalSize(y) \in Nat
    <3> SUFFICES ASSUME NEW y \in Lanes PROVE NormalSize(y) \in Nat
      OBVIOUS
    <3>1. PICK n \in Nat : NormalSize(y) = IF y.streak # 0 THEN 2 * n + 1 ELSE 2 * n
      BY NormalSizeType
    <3> QED
      BY <3>1
  <2> QED
    BY <2>1, <2>2
<1>2. \A y \in Lanes : round[y] # y => size[round[y]] < size[y]
  <2> SUFFICES ASSUME NEW y \in Lanes, NormalRound(y) # y PROVE size[NormalRound(y)] < size[y]
    OBVIOUS
  <2>1. NormalRound(y) \in Lanes
    BY NormalRoundIs
  <2> QED
    BY <2>1, NormalRoundShrinks
<1>3. \A f : Is(f) <=> f = [y \in Lanes |-> IF round[y] = y THEN y ELSE f[round[y]]]
  <2>1. \A y \in Lanes : round[y] = NormalRound(y)
    OBVIOUS
  <2> HIDE DEF round
  <2> QED BY <2>1
<1>4. NormalPump = [y \in Lanes |-> IF round[y] = y THEN y ELSE NormalPump[round[y]]]
  <2>1. \E f : Is(f)
    <3> HIDE DEF Is, round
    <3> QED BY <1>1, <1>3, PumpExists
  <2>2. NormalPump = CHOOSE f : Is(f)
    BY DEF NormalPump
  <2>3. Is(NormalPump)
    <3> HIDE DEF Is
    <3> QED BY <2>1, <2>2
  <2> HIDE DEF Is, round
  <2> QED BY <1>3, <2>3
<1> DEFINE I == {y \in AfterGrants(s, H) : LongBlocked(y)}
<1>5. I \in SUBSET Lanes /\ x \in I
  BY DEF AfterGrants
<1>6. ClosedUnder(round, I)
  <2>1. \A t \in I : NormalRound(t) \in I
    BY NormalRoundKeeps
  <2> HIDE DEF I
  <2> QED
    BY <1>5, <2>1 DEF ClosedUnder
<1>7. NormalPump[x] \in I /\ round[NormalPump[x]] = NormalPump[x]
  <2> HIDE DEF round, size, I
  <2> QED BY <1>1, <1>2, <1>4, <1>5, <1>6, PumpEnds
<1>8. PICK t \in Lanes : t = NormalPump[x] /\ NormalRound(t) = t
  BY <1>5, <1>7
<1>9. NormalBusy(t)
  BY <1>8, NormalRoundEnds DEF NormalBusy
<1> QED
  BY <1>7, <1>8, <1>9

LEMMA AskedIs ==
  ASSUME NEW s \in Lanes, NEW e \in SUBSET Patient
  PROVE  /\ Asked(s, e) \in Lanes /\ Kept(Asked(s, e), s) /\ Asked(s, e).active = s.active
         /\ Asked(s, e).kv = s.kv /\ Asked(s, e).chat = s.chat /\ Asked(s, e).v1 = s.v1
         /\ Asked(s, e).streak = s.streak
BY DEF Asked, Lanes, Kept

\* The pump of the lanes: nobody waits for what is free, and all that is new is
\* that waiters have been given seats.
LEMMA PumpedIs ==
  ASSUME NEW s, NEW H, Fits(s, H)
  PROVE  Pumped[s] \in AfterGrants(s, H) /\ LongBlocked(Pumped[s]) /\ NormalBusy(Pumped[s])
<1> DEFINE x == KvPump[s]
           y == AskedForChat[x]
<1>0. s \in Lanes
  BY DEF Fits
<1>1. x \in AfterGrants(s, H) /\ LongBlocked(x)
  BY KvPumpEnds DEF LongBlocked
<1>2. x \in Lanes /\ Fits(x, H \cup Granted(x, s)) /\ Kept(x, s) /\ x.prefill \in SUBSET Patient
  BY <1>1 DEF AfterGrants, Lanes
<1> HIDE DEF x
<1>3. y \in {x, Asked(x, x.prefill)}
  BY <1>2 DEF AskedForChat
<1>4. y \in Lanes /\ Kept(y, x) /\ y.active = x.active /\ y.kv = x.kv /\ y.chat = x.chat /\ y.v1 = x.v1
      /\ y.streak = x.streak
  BY <1>2, <1>3, AskedIs DEF Kept
<1> HIDE DEF y
<1>5. Waiters(y) = Waiters(x) /\ Lined(y) /\ Granted(y, s) = Granted(x, s) /\ Within(y)
  BY <1>2, <1>4 DEF Waiters, Lined, Granted, Fits, Within, Active
<1>6. Fits(y, H \cup Granted(y, s))
  BY <1>2, <1>4, <1>5 DEF Fits
<1>7. Kept(y, s)
  BY <1>2, <1>4 DEF Kept
<1>8. y \in AfterGrants(s, H)
  BY <1>1, <1>4, <1>5, <1>6, <1>7 DEF AfterGrants
<1>9. LongBlocked(y)
  <2>1. \A r1 \in ToSet(x.kv) : r1 \in Request
    BY <1>2, LinesApart DEF Fits
  <2> QED
    BY <1>1, <1>2, <1>4, <2>1, BlockedAlike DEF LongBlocked
<1>10. Pumped[s] = NormalPump[y]
  BY <1>0 DEF Pumped, x, y
<1> QED
  BY <1>8, <1>9, <1>10, NormalPumpEnds

-----------------------------------------------------------------------------
(* Coming and going.                                                        *)

\* t has the seats and the lines of s.
SameSeats(t, s) ==
  t.active = s.active /\ t.kv = s.kv /\ t.chat = s.chat /\ t.v1 = s.v1 /\ t.streak = s.streak

LEMMA FitsAlike ==
  ASSUME NEW s, NEW H, Fits(s, H), NEW t \in Lanes, SameSeats(t, s)
  PROVE  Fits(t, H) /\ Waiters(t) = Waiters(s)
BY DEF Fits, SameSeats, Waiters, Lined, Within, Active

LEMMA JoinedFits ==
  ASSUME NEW s, NEW H, Fits(s, H), NEW r \in Request, r \notin Waiters(s), r \notin H
  PROVE  /\ Fits(Joined(s, r), H) /\ Waiters(Joined(s, r)) = Waiters(s) \cup {r} /\ Kept(Joined(s, r), s)
<1> DEFINE t == Joined(s, r)
<1>1. s \in Lanes /\ s.active \in SeatTable
      /\ Stands(s.kv, LongWork) /\ Stands(s.chat, NormalOf("chat")) /\ Stands(s.v1, NormalOf("v1"))
  BY SeatsAreCounted DEF Fits, Lined
<1>2. s.kv \in Seq(Request) /\ s.chat \in Seq(Request) /\ s.v1 \in Seq(Request) /\ s.ripe \in SUBSET Request
      /\ s.streak \in Nat
  BY <1>1 DEF Lanes
<1>3. r \notin ToSet(s.kv) /\ r \notin ToSet(s.chat) /\ r \notin ToSet(s.v1)
  BY DEF Waiters
<1>4. LongWork \in SUBSET Request /\ NormalOf("chat") \in SUBSET Request /\ NormalOf("v1") \in SUBSET Request
  BY DEF LongWork, NormalOf
<1>5. CASE LaneOf[r] # "normal"
  <2>0. r \in LongWork
    BY <1>5 DEF LongWork
  <2>1. Stands(Append(s.kv, r), LongWork) /\ ToSet(Append(s.kv, r)) = ToSet(s.kv) \cup {r}
    BY <1>1, <1>3, <1>4, <2>0, JoinsLine
  <2>2. PICK q \in Seq(Request) : q = Append(s.kv, r)
    BY <1>2, AppendProperties
  <2>3. t = With(s, s.active, q, s.ripe, s.chat, s.v1, s.streak)
    BY <1>1, <1>5, <2>2 DEF Joined, With, Lanes
  <2>4. t \in Lanes /\ t.active = s.active /\ t.kv = q /\ t.chat = s.chat /\ t.v1 = s.v1 /\ t.streak = s.streak
        /\ Kept(t, s)
    BY <1>1, <1>2, <2>3, WithIs
  <2> HIDE DEF t
  <2>5. Waiters(t) = Waiters(s) \cup {r} /\ Lined(t) /\ Within(t)
    BY <1>1, <2>1, <2>2, <2>4 DEF Waiters, Lined, Within, Active, Fits
  <2> QED
    BY <2>4, <2>5 DEF Fits, t
<1>6. CASE LaneOf[r] = "normal" /\ Chat(r)
  <2>0. r \in NormalOf("chat")
    BY <1>6 DEF NormalOf, Chat
  <2>1. Stands(Append(s.chat, r), NormalOf("chat")) /\ ToSet(Append(s.chat, r)) = ToSet(s.chat) \cup {r}
    BY <1>1, <1>3, <1>4, <2>0, JoinsLine
  <2>2. PICK q \in Seq(Request) : q = Append(s.chat, r)
    BY <1>2, AppendProperties
  <2>3. t = With(s, s.active, s.kv, s.ripe, q, s.v1, s.streak)
    BY <1>1, <1>6, <2>2 DEF Joined, With, Lanes
  <2>4. t \in Lanes /\ t.active = s.active /\ t.kv = s.kv /\ t.chat = q /\ t.v1 = s.v1 /\ t.streak = s.streak
        /\ Kept(t, s)
    BY <1>1, <1>2, <2>3, WithIs
  <2> HIDE DEF t
  <2>5. Waiters(t) = Waiters(s) \cup {r} /\ Lined(t) /\ Within(t)
    BY <1>1, <2>1, <2>2, <2>4 DEF Waiters, Lined, Within, Active, Fits
  <2> QED
    BY <2>4, <2>5 DEF Fits, t
<1>7. CASE LaneOf[r] = "normal" /\ ~Chat(r)
  <2>0. r \in NormalOf("v1")
    BY <1>7, RequestTypes DEF NormalOf, V1
  <2>1. Stands(Append(s.v1, r), NormalOf("v1")) /\ ToSet(Append(s.v1, r)) = ToSet(s.v1) \cup {r}
    BY <1>1, <1>3, <1>4, <2>0, JoinsLine
  <2>2. PICK q \in Seq(Request) : q = Append(s.v1, r)
    BY <1>2, AppendProperties
  <2>3. t = With(s, s.active, s.kv, s.ripe, s.chat, q, s.streak)
    BY <1>1, <1>7, <2>2 DEF Joined, With, Lanes
  <2>4. t \in Lanes /\ t.active = s.active /\ t.kv = s.kv /\ t.chat = s.chat /\ t.v1 = q /\ t.streak = s.streak
        /\ Kept(t, s)
    BY <1>1, <1>2, <2>3, WithIs
  <2> HIDE DEF t
  <2>5. Waiters(t) = Waiters(s) \cup {r} /\ Lined(t) /\ Within(t)
    BY <1>1, <2>1, <2>2, <2>4 DEF Waiters, Lined, Within, Active, Fits
  <2> QED
    BY <2>4, <2>5 DEF Fits, t
<1> QED
  BY <1>5, <1>6, <1>7

LEMMA LeftFits ==
  ASSUME NEW s, NEW H, Fits(s, H), NEW r \in Request
  PROVE  /\ Fits(Left(s, r), H) /\ Waiters(Left(s, r)) = Waiters(s) \ {r} /\ Kept(Left(s, r), s)
         /\ LongBlocked(s) => LongBlocked(Left(s, r))
         /\ NormalBusy(s) => NormalBusy(Left(s, r))
<1> DEFINE t == Left(s, r)
<1>1. s \in Lanes /\ s.active \in SeatTable
      /\ Stands(s.kv, LongWork) /\ Stands(s.chat, NormalOf("chat")) /\ Stands(s.v1, NormalOf("v1"))
  BY SeatsAreCounted DEF Fits, Lined
<1>2. s.ripe \in SUBSET Request /\ s.streak \in Nat
  BY <1>1 DEF Lanes
<1>3. LongWork \in SUBSET Request /\ NormalOf("chat") \in SUBSET Request /\ NormalOf("v1") \in SUBSET Request
  BY DEF LongWork, NormalOf
<1>4. /\ Stands(RemoveFirst(s.kv, r), LongWork) /\ ToSet(RemoveFirst(s.kv, r)) = ToSet(s.kv) \ {r}
      /\ Stands(RemoveFirst(s.chat, r), NormalOf("chat")) /\ ToSet(RemoveFirst(s.chat, r)) = ToSet(s.chat) \ {r}
      /\ Stands(RemoveFirst(s.v1, r), NormalOf("v1")) /\ ToSet(RemoveFirst(s.v1, r)) = ToSet(s.v1) \ {r}
  BY <1>1, <1>3, LeavesLine
<1>5. PICK kv \in Seq(Request) : kv = RemoveFirst(s.kv, r)
  BY <1>3, <1>4, StandsType
<1>6. PICK chat \in Seq(Request) : chat = RemoveFirst(s.chat, r)
  BY <1>3, <1>4, StandsType
<1>7. PICK v1 \in Seq(Request) : v1 = RemoveFirst(s.v1, r)
  BY <1>3, <1>4, StandsType
<1>8. PICK ripe \in SUBSET Request : ripe = s.ripe \ {r}
  BY <1>2
<1>9. t = With(s, s.active, kv, ripe, chat, v1, s.streak)
  BY <1>1, <1>5, <1>6, <1>7, <1>8 DEF Left, With, Lanes
<1>10. t \in Lanes /\ t.active = s.active /\ t.kv = kv /\ t.chat = chat /\ t.v1 = v1 /\ t.streak = s.streak
       /\ Kept(t, s)
  BY <1>1, <1>2, <1>9, WithIs
<1> HIDE DEF t
<1>11. Waiters(t) = Waiters(s) \ {r} /\ Lined(t) /\ Within(t)
  BY <1>1, <1>4, <1>5, <1>6, <1>7, <1>10 DEF Waiters, Lined, Within, Active, Fits
<1>12. Fits(t, H)
  BY <1>10, <1>11 DEF Fits
<1>13. LongBlocked(s) => LongBlocked(t)
  <2>1. \A q \in ToSet(t.kv) : q \in ToSet(s.kv) /\ q \in Request
    BY <1>1, <1>3, <1>4, <1>5, <1>10, StandsType
  <2> QED
    BY <1>1, <1>10, <2>1, BlockedAlike DEF LongBlocked
<1>14. NormalBusy(s) => NormalBusy(t)
  <2>1. (t.chat # <<>> => s.chat # <<>>) /\ (t.v1 # <<>> => s.v1 # <<>>)
    <3>1. ToSet(<<>>) = {}
      BY DEF ToSet
    <3>2. \A q \in Seq(Request) : q # <<>> => ToSet(q) # {}
      BY HeadServed
    <3> QED
      BY <1>4, <1>5, <1>6, <1>7, <1>10, <3>1, <3>2
  <2> QED
    BY <1>10, <2>1 DEF NormalBusy, Free, SeatFreeForV1, Active, Kept
<1> QED
  BY <1>10, <1>11, <1>12, <1>13, <1>14 DEF t

LEMMA RefusedIs ==
  ASSUME NEW s \in Lanes, NEW r
  PROVE  /\ Refused(s, r) \in Lanes /\ SameSeats(Refused(s, r), s)
         /\ Refused(s, r).closed = s.closed /\ Refused(s, r).closers = s.closers
         /\ Refused(s, r).prefill = s.prefill
         /\ LongBlocked(s) => LongBlocked(Refused(s, r))
         /\ NormalBusy(s) => NormalBusy(Refused(s, r))
<1>1. PICK t \in Lanes : t = Refused(s, r) /\ t \in {s, [s EXCEPT !.held = TRUE]}
  BY DEF Refused, Lanes
<1>2. SameSeats(t, s) /\ t.closed = s.closed /\ t.closers = s.closers /\ t.prefill = s.prefill
      /\ t.idle = s.idle /\ t.spent = s.spent /\ (s.held => t.held)
  BY <1>1 DEF Lanes, SameSeats
<1>3. LongBlocked(s) => LongBlocked(t)
  BY <1>2 DEF LongBlocked, Blocked, Active, SameSeats
<1>4. NormalBusy(s) => NormalBusy(t)
  BY <1>2 DEF NormalBusy, Free, SeatFreeForV1, Active, SameSeats
<1> QED
  BY <1>1, <1>2, <1>3, <1>4

LEMMA ReopenedIs ==
  ASSUME NEW s \in Lanes, NEW r
  PROVE  /\ Reopened(s, r) \in Lanes /\ SameSeats(Reopened(s, r), s)
         /\ Reopened(s, r).closers = s.closers \ {r} /\ Reopened(s, r).prefill = s.prefill
         /\ Reopened(s, r).decode = s.decode
         /\ Reopened(s, r).closed = (s.closed /\ r \notin s.closers)
BY DEF Reopened, Lanes, SameSeats

LEMMA UnseatedFits ==
  ASSUME NEW s, NEW H, Fits(s, H), NEW r \in H
  PROVE  /\ Fits(Unseated(s, r), H \ {r}) /\ Waiters(Unseated(s, r)) = Waiters(s) /\ Kept(Unseated(s, r), s)
         /\ Unseated(s, r).decode = s.decode
<1> DEFINE t == Unseated(s, r)
<1>0. s \in Lanes /\ r \in Request /\ s.active \in SeatTable /\ H \in SUBSET Request
  BY SeatsAreCounted DEF Fits
<1>1. PICK a \in SeatTable : a = Reseat(s.active, r, -1) /\ t = [s EXCEPT !.active = a]
  BY <1>0, UnseatedIs
<1>2. t \in Lanes /\ t.active = a /\ t.kv = s.kv /\ t.chat = s.chat /\ t.v1 = s.v1 /\ t.streak = s.streak
      /\ Kept(t, s) /\ t.decode = s.decode
  BY <1>0, <1>1 DEF Lanes, Kept, SeatTable
<1> HIDE DEF t
<1>3. Counts(t.active, H \ {r})
  BY <1>0, <1>1, <1>2, CountsGiveBack DEF Fits
<1>4. ASSUME NEW l \in Lane PROVE Active(t, l) <= Capacity[l]
  <2>1. Active(t, l) = t.active[l]["chat"] + t.active[l]["v1"] /\ Active(s, l) = s.active[l]["chat"] + s.active[l]["v1"]
        /\ s.active[l]["chat"] \in Int /\ s.active[l]["v1"] \in Int
    BY <1>0, <1>2, SeatsAreCounted, ReseatIs DEF ClassOf
  <2>2. \A o \in ClassOf : t.active[l][o] \in {s.active[l][o], s.active[l][o] - 1}
    BY <1>0, <1>1, <1>2, ReseatIs
  <2>3. Active(t, l) <= Active(s, l) /\ Active(t, l) \in Int /\ Active(s, l) \in Int
    BY <2>1, <2>2 DEF ClassOf
  <2>4. Capacity[l] \in Nat /\ Active(s, l) <= Capacity[l]
    BY AdmissionAssumption DEF Fits, Within
  <2> QED
    BY <2>3, <2>4
<1>5. Waiters(t) = Waiters(s) /\ Lined(t) /\ Within(t)
  BY <1>2, <1>4 DEF Waiters, Lined, Fits, Within
<1>6. Fits(t, H \ {r})
  BY <1>0, <1>2, <1>3, <1>5 DEF Fits
<1> QED
  BY <1>2, <1>5, <1>6 DEF t

LEMMA ReleasedFits ==
  ASSUME NEW s, NEW H, Fits(s, H), NEW r \in Request, Seated(r) <=> r \in H
  PROVE  LET t == Released(s, r)
         IN /\ Fits(t, H \ {r}) /\ Waiters(t) = Waiters(s)
            /\ t.closers = s.closers \ {r} /\ t.closed = (s.closed /\ r \notin s.closers)
            /\ t.prefill = s.prefill \ {r}
<1> DEFINE u == IF Seated(r) THEN Unseated(s, r) ELSE s
           v == Reopened(u, r)
           t == Released(s, r)
<1>1. u \in Lanes /\ Fits(u, H \ {r}) /\ Waiters(u) = Waiters(s) /\ Kept(u, s)
  <2>1. CASE r \in H
    BY <2>1, UnseatedFits DEF Fits
  <2>2. CASE r \notin H
    <3>1. H \ {r} = H
      BY <2>2
    <3> QED
      BY <2>2, <3>1 DEF Fits, Kept
  <2> QED
    BY <2>1, <2>2
<1> HIDE DEF u
<1>2. v \in Lanes /\ SameSeats(v, u) /\ v.closers = u.closers \ {r} /\ v.prefill = u.prefill
      /\ v.closed = (u.closed /\ r \notin u.closers)
  BY <1>1, ReopenedIs
<1>3. t = [v EXCEPT !.idle = @ \ {r}, !.prefill = @ \ {r}, !.decode = @ \ {r}, !.asked = @ \ {r}]
  BY DEF Released, u
<1> HIDE DEF v, t
<1>4. t \in Lanes /\ SameSeats(t, v) /\ t.closers = v.closers /\ t.closed = v.closed /\ t.prefill = v.prefill \ {r}
  BY <1>2, <1>3 DEF Lanes, SameSeats
<1>5. SameSeats(t, u)
  BY <1>2, <1>4 DEF SameSeats
<1>6. Fits(t, H \ {r}) /\ Waiters(t) = Waiters(s)
  BY <1>1, <1>4, <1>5, FitsAlike
<1> QED
  BY <1>1, <1>2, <1>4, <1>6 DEF Kept, t

-----------------------------------------------------------------------------
(* The invariant.                                                           *)

Stage == {"new", "queue", "granted", "preadmitted", "parked", "idle", "engine", "decoding", "away", "done"}

SeatedAt(r, p) == p \in {"granted", "preadmitted", "parked", "idle", "engine"}
                  \/ (p = "decoding" /\ ~(r \in Patient /\ LaneOf[r] = "long"))
SeatHolders == {r \in Request : Seated(r)}
Queued == {r \in Request : pc[r] = "queue"}

Closure ==
  /\ ls.closed <=> ls.closers # {}
  /\ \A p, q \in ls.closers : p = q
  /\ \A r \in ls.closers : pc[r] = "engine" /\ LaneOf[r] = "long"

LongStages ==
  /\ \A r \in Request : pc[r] = "idle" => LaneOf[r] = "long"
  /\ \A r \in Request : pc[r] \in {"preadmitted", "parked"} => LaneOf[r] # "long"
  /\ ls.prefill = {r \in Patient : LaneOf[r] = "long" /\ pc[r] \in {"idle", "engine"}}

AInv ==
  /\ pc \in [Request -> Stage]
  /\ Fits(ls, SeatHolders) /\ Waiters(ls) = Queued
  /\ NoSeatIdles /\ Closure /\ LongStages

\* Behind a closure a step lets nobody into the closed lanes.
NobodyLetIn ==
  ls.closed /\ ls'.closed =>
    \A r \in Request : pc[r] \in {"new", "queue"} /\ pc'[r] = "granted" => LaneOf[r] = "long"

LEMMA SeatedIs == \A r : Seated(r) <=> SeatedAt(r, pc[r])
BY DEF Seated, SeatedAt

LEMMA PatientsAreRequests == Patient \subseteq Request
BY AdmissionAssumption

LEMMA InitAInv == Init => AInv
<1> SUFFICES ASSUME Init PROVE AInv
  OBVIOUS
<1>1. pc = [r \in Request |-> "new"] /\ pc \in [Request -> Stage] /\ SeatHolders = {} /\ Queued = {}
  BY DEF Init, SeatHolders, Seated, Queued, Stage
<1>2. ls \in Lanes
  <2>1. <<>> \in Seq(Request) /\ 0 \in 0..DecodeYields
    BY AdmissionAssumption
  <2> QED
    BY <2>1 DEF Init, Lanes, Lane
<1>3. ls.kv = <<>> /\ ls.chat = <<>> /\ ls.v1 = <<>> /\ ls.streak = 0 /\ ls.closed = FALSE /\ ls.closers = {}
      /\ ls.prefill = {} /\ \A l \in Lane : ls.active[l]["chat"] = 0 /\ ls.active[l]["v1"] = 0
  BY DEF Init
<1>4. ToSet(<<>>) = {} /\ \A S : Stands(<<>>, S)
  <2>1. DOMAIN <<>> = {} /\ \A S : <<>> \in Seq(S)
    OBVIOUS
  <2> QED
    BY <2>1 DEF ToSet, Stands, IsInjective
<1>5. Lined(ls) /\ Waiters(ls) = {}
  BY <1>3, <1>4 DEF Lined, Waiters
<1>6. Counts(ls.active, {})
  <2>1. \A l \in Lane : \A o \in ClassOf : Of({}, l, o) = {} /\ ls.active[l][o] = 0
    BY <1>3 DEF Of, ClassOf
  <2> QED
    BY <2>1, FS_EmptySet DEF Counts
<1>7. Within(ls)
  BY <1>3, AdmissionAssumption DEF Within, Active
<1>8. Fits(ls, SeatHolders)
  BY <1>1, <1>2, <1>3, <1>5, <1>6, <1>7, AdmissionAssumption DEF Fits
<1>9. NoSeatIdles
  BY <1>3, <1>4 DEF NoSeatIdles
<1>10. Closure /\ LongStages
  BY <1>1, <1>3, PatientsAreRequests DEF Closure, LongStages
<1> QED
  BY <1>1, <1>5, <1>8, <1>9, <1>10 DEF AInv

\* What a step does to the requests.
LEMMA BecomeIs ==
  ASSUME pc \in [Request -> Stage], NEW t \in Lanes, NEW r, NEW where \in Stage, Become(t, r, where)
  PROVE  /\ ls' = t /\ pc' \in [Request -> Stage]
         /\ \A q \in Request : pc'[q] = IF q = r THEN where
              ELSE IF q \in Queued \ Waiters(t) THEN "granted" ELSE pc[q]
         /\ SeatHolders' = (SeatHolders \ {r}) \cup ((Queued \ {r}) \ Waiters(t))
                           \cup {q \in Request : q = r /\ SeatedAt(r, where)}
         /\ Queued' = ((Queued \ {r}) \cap Waiters(t)) \cup {q \in Request : q = r /\ where = "queue"}
<1>1. ls' = t /\ pc' = [q \in Request |-> IF q = r THEN where
                              ELSE IF pc[q] = "queue" /\ q \notin Waiters(t) THEN "granted" ELSE pc[q]]
  BY DEF Become
<1>2. \A q \in Request : pc'[q] = IF q = r THEN where
              ELSE IF q \in Queued \ Waiters(t) THEN "granted" ELSE pc[q]
  BY <1>1 DEF Queued
<1>3. pc' \in [Request -> Stage]
  BY <1>1 DEF Stage
<1>4. SeatHolders' = {q \in Request : SeatedAt(q, pc'[q])}
  BY DEF SeatHolders, Seated, SeatedAt
<1>5. SeatHolders = {q \in Request : SeatedAt(q, pc[q])}
  BY DEF SeatHolders, Seated, SeatedAt
<1>6. \A q \in Request : SeatedAt(q, "granted") /\ ~SeatedAt(q, "queue")
  BY DEF SeatedAt
<1>7. \A q \in Request : q \in Queued <=> pc[q] = "queue"
  BY DEF Queued
<1>8. Queued' = {q \in Request : pc'[q] = "queue"}
  BY DEF Queued
<1>9. SeatHolders' = (SeatHolders \ {r}) \cup ((Queued \ {r}) \ Waiters(t))
                     \cup {q \in Request : q = r /\ SeatedAt(r, where)}
  <2> DEFINE R == (SeatHolders \ {r}) \cup ((Queued \ {r}) \ Waiters(t)) \cup {q \in Request : q = r /\ SeatedAt(r, where)}
  <2>1. ASSUME NEW q \in Request PROVE SeatedAt(q, pc'[q]) <=> q \in R
    <3>1. CASE q = r
      BY <1>2, <3>1
    <3>2. CASE q # r /\ q \in Queued \ Waiters(t)
      BY <1>2, <1>6, <3>2
    <3>3. CASE q # r /\ q \notin Queued \ Waiters(t)
      BY <1>2, <1>5, <3>3
    <3> QED
      BY <3>1, <3>2, <3>3
  <2>2. R \subseteq Request
    BY <1>5, <1>7 DEF Queued
  <2> HIDE DEF R
  <2>3. SeatHolders' = R
    BY <1>4, <2>1, <2>2
  <2> QED
    BY <2>3 DEF R
<1>10. Queued' = ((Queued \ {r}) \cap Waiters(t)) \cup {q \in Request : q = r /\ where = "queue"}
  <2> DEFINE R == ((Queued \ {r}) \cap Waiters(t)) \cup {q \in Request : q = r /\ where = "queue"}
  <2>1. ASSUME NEW q \in Request PROVE pc'[q] = "queue" <=> q \in R
    <3>1. CASE q = r
      BY <1>2, <3>1
    <3>2. CASE q # r /\ q \in Queued \ Waiters(t)
      BY <1>2, <3>2
    <3>3. CASE q # r /\ q \notin Queued \ Waiters(t)
      BY <1>2, <1>7, <3>3
    <3> QED
      BY <3>1, <3>2, <3>3
  <2>2. R \subseteq Request
    BY DEF Queued
  <2> HIDE DEF R
  <2>3. Queued' = R
    BY <1>8, <2>1, <2>2
  <2> QED
    BY <2>3 DEF R
<1> QED
  BY <1>1, <1>2, <1>3, <1>9, <1>10

\* The lanes t come from s, whose seats H has, by grants: nobody is left to wait
\* for what is free.
Served(t, s, H) ==
  /\ Waiters(t) \subseteq Waiters(s) /\ Fits(t, H \cup Granted(t, s))
  /\ t.closed = s.closed /\ t.closers = s.closers /\ t.prefill = s.prefill
  /\ LongBlocked(t) /\ NormalBusy(t)
  /\ s.closed => \A r \in Granted(t, s) : LaneOf[r] = "long"

LEMMA PumpedServed ==
  ASSUME NEW s, NEW H, Fits(s, H)
  PROVE  Served(Pumped[s], s, H)
BY PumpedIs DEF Served, AfterGrants, Kept

LEMMA RefusedServed ==
  ASSUME NEW s, NEW H, NEW t, Served(t, s, H), NEW r
  PROVE  Served(Refused(t, r), s, H)
<1>1. t \in Lanes /\ Fits(t, H \cup Granted(t, s))
  BY DEF Served, Fits
<1> DEFINE u == Refused(t, r)
<1>2. u \in Lanes /\ SameSeats(u, t) /\ u.closed = t.closed /\ u.closers = t.closers /\ u.prefill = t.prefill
      /\ LongBlocked(u) /\ NormalBusy(u)
  BY <1>1, RefusedIs DEF Served
<1> HIDE DEF u
<1>3. Fits(u, H \cup Granted(t, s)) /\ Waiters(u) = Waiters(t)
  BY <1>1, <1>2, FitsAlike
<1>4. Granted(u, s) = Granted(t, s)
  BY <1>3 DEF Granted
<1> QED
  BY <1>2, <1>3, <1>4 DEF Served, u

\* NoSeatIdles of lanes that leave nobody waiting for what is free.
LEMMA NobodyIdles ==
  ASSUME NEW t, LongBlocked(t), NormalBusy(t), ls' = t
  PROVE  NoSeatIdles'
BY DEF LongBlocked, NormalBusy, NoSeatIdles, Blocked, Free, SeatFreeForV1, Active

\* Closures and stages of a step that may close the stage r was at.
LEMMA StagesKept ==
  ASSUME AInv, NEW t \in Lanes, NEW r, NEW where \in Stage \ {"preadmitted", "parked"}, Become(t, r, where),
         t.closers = ls.closers \ {r}, t.closed = (ls.closed /\ r \notin ls.closers),
         IF where \in {"idle", "engine"} THEN r \in Request /\ pc[r] = where /\ t.prefill = ls.prefill
         ELSE t.prefill = ls.prefill \ {r}
  PROVE  Closure' /\ LongStages'
<1>1. /\ ls' = t
      /\ \A q \in Request : pc'[q] = IF q = r THEN where ELSE IF q \in Queued \ Waiters(t) THEN "granted" ELSE pc[q]
  BY BecomeIs DEF AInv
<1>2. \A q \in Request : q \in Queued => pc[q] = "queue"
  BY DEF Queued
<1>3. ls.closers \subseteq Request
  BY DEF AInv, Fits, Lanes
<1>4. Closure'
  <2>1. ls'.closed <=> ls'.closers # {}
    BY <1>1 DEF AInv, Closure
  <2>2. \A p, q \in ls'.closers : p = q
    BY <1>1 DEF AInv, Closure
  <2>3. \A q \in ls'.closers : pc'[q] = "engine" /\ LaneOf[q] = "long"
    BY <1>1, <1>2, <1>3 DEF AInv, Closure
  <2> QED
    BY <2>1, <2>2, <2>3 DEF Closure
<1>5. LongStages'
  <2>1. \A q \in Request : pc'[q] = "idle" => LaneOf[q] = "long"
    BY <1>1 DEF AInv, LongStages
  <2>5. \A q \in Request : pc'[q] \in {"preadmitted", "parked"} => LaneOf[q] # "long"
    BY <1>1 DEF AInv, LongStages
  <2>2. \A q \in Request : q # r => (pc'[q] \in {"idle", "engine"} <=> pc[q] \in {"idle", "engine"})
    BY <1>1, <1>2
  <2>3. \A q \in Patient : q \in ls'.prefill <=> LaneOf[q] = "long" /\ pc'[q] \in {"idle", "engine"}
    BY <1>1, <2>2, PatientsAreRequests DEF AInv, LongStages
  <2>4. ls'.prefill \subseteq Patient
    BY <1>1 DEF Lanes
  <2> QED
    BY <2>1, <2>3, <2>4, <2>5 DEF LongStages
<1> QED
  BY <1>4, <1>5

\* A step that ends with the pump and leaves r outside of every line.
LEMMA PumpStep ==
  ASSUME AInv, NEW r, NEW where \in Stage \ {"granted", "preadmitted", "parked"}, r \in Request => where # "queue",
         NEW s, NEW H, NEW t, Served(t, s, H), Waiters(s) = Queued \ {r},
         H = (SeatHolders \ {r}) \cup {q \in Request : q = r /\ SeatedAt(r, where)}, Become(t, r, where),
         s.closers = ls.closers \ {r}, s.closed = (ls.closed /\ r \notin ls.closers),
         IF where \in {"idle", "engine"} THEN r \in Request /\ pc[r] = where /\ s.prefill = ls.prefill
         ELSE s.prefill = ls.prefill \ {r}
  PROVE  AInv' /\ NobodyLetIn
<1>1. t \in Lanes /\ Waiters(t) \subseteq Queued \ {r} /\ Fits(t, H \cup Granted(t, s)) /\ LongBlocked(t) /\ NormalBusy(t)
      /\ t.closed = s.closed /\ t.closers = s.closers /\ t.prefill = s.prefill
  BY DEF Served, Fits
<1>2. /\ ls' = t /\ pc' \in [Request -> Stage]
      /\ \A q \in Request : pc'[q] = IF q = r THEN where
           ELSE IF q \in Queued \ Waiters(t) THEN "granted" ELSE pc[q]
      /\ SeatHolders' = (SeatHolders \ {r}) \cup ((Queued \ {r}) \ Waiters(t))
                        \cup {q \in Request : q = r /\ SeatedAt(r, where)}
      /\ Queued' = ((Queued \ {r}) \cap Waiters(t)) \cup {q \in Request : q = r /\ where = "queue"}
  BY <1>1, BecomeIs DEF AInv
<1>3. Granted(t, s) = (Queued \ {r}) \ Waiters(t)
  BY DEF Granted
<1>4. H \cup Granted(t, s) = SeatHolders'
  BY <1>2, <1>3
<1>5. Fits(ls, SeatHolders)'
  BY <1>1, <1>2, <1>4 DEF Fits, Lined, Within, Waiters, Active
<1>6. (Waiters(ls) = Queued)'
  <2>1. {q \in Request : q = r /\ where = "queue"} = {}
    OBVIOUS
  <2>2. Queued' = Waiters(t)
    BY <1>1, <1>2, <2>1
  <2> QED
    BY <1>2, <2>2 DEF Waiters
<1>7. NoSeatIdles'
  BY <1>1, <1>2, NobodyIdles
<1>8. Closure' /\ LongStages'
  BY <1>1, StagesKept
<1>9. NobodyLetIn
  <2> SUFFICES ASSUME ls.closed, ls'.closed, NEW q \in Request, pc[q] \in {"new", "queue"}, pc'[q] = "granted"
               PROVE  LaneOf[q] = "long"
    BY DEF NobodyLetIn
  <2>1. q # r /\ q \in Queued \ Waiters(t)
    BY <1>2
  <2>2. q \in Granted(t, s) /\ s.closed
    BY <1>1, <1>2, <1>3, <2>1
  <2> QED
    BY <2>2 DEF Served
<1> QED
  BY <1>2, <1>5, <1>6, <1>7, <1>8, <1>9 DEF AInv

\* A step in which r joins a line and the pump runs.
LEMMA JoinStep ==
  ASSUME AInv, NEW r \in Request, pc[r] \in {"new", "idle"},
         NEW s, NEW H, NEW t, Served(t, s, H), Waiters(s) = Queued \cup {r}, H = SeatHolders \ {r},
         Become(t, r, Place(t, r)),
         s.closers = ls.closers \ {r}, s.closed = (ls.closed /\ r \notin ls.closers), s.prefill = ls.prefill \ {r}
  PROVE  AInv' /\ NobodyLetIn
<1> DEFINE where == Place(t, r)
<1>0. where = (IF r \in Waiters(t) THEN "queue" ELSE "granted") /\ where \in Stage \ {"preadmitted", "parked"}
      /\ where \notin {"idle", "engine"}
  BY DEF Place, Stage
<1> HIDE DEF where
<1>1. t \in Lanes /\ Waiters(t) \subseteq Queued \cup {r} /\ Fits(t, H \cup Granted(t, s)) /\ LongBlocked(t) /\ NormalBusy(t)
      /\ t.closed = s.closed /\ t.closers = s.closers /\ t.prefill = s.prefill
  BY DEF Served, Fits
<1>B. Become(t, r, where)
  BY DEF where
<1>2. /\ ls' = t /\ pc' \in [Request -> Stage]
      /\ \A q \in Request : pc'[q] = IF q = r THEN where
           ELSE IF q \in Queued \ Waiters(t) THEN "granted" ELSE pc[q]
      /\ SeatHolders' = (SeatHolders \ {r}) \cup ((Queued \ {r}) \ Waiters(t))
                        \cup {q \in Request : q = r /\ SeatedAt(r, where)}
      /\ Queued' = ((Queued \ {r}) \cap Waiters(t)) \cup {q \in Request : q = r /\ where = "queue"}
  BY <1>0, <1>1, <1>B, BecomeIs DEF AInv
<1>3. r \notin Queued /\ Granted(t, s) = (Queued \cup {r}) \ Waiters(t)
  BY DEF Granted, Queued
<1>4. H \cup Granted(t, s) = SeatHolders'
  <2>1. CASE r \in Waiters(t)
    <3>1. {q \in Request : q = r /\ SeatedAt(r, where)} = {}
      BY <1>0, <2>1 DEF SeatedAt
    <3> QED
      BY <1>2, <1>3, <2>1, <3>1
  <2>2. CASE r \notin Waiters(t)
    <3>1. {q \in Request : q = r /\ SeatedAt(r, where)} = {r}
      BY <1>0, <2>2 DEF SeatedAt
    <3> QED
      BY <1>2, <1>3, <2>2, <3>1
  <2> QED
    BY <2>1, <2>2
<1>5. Fits(ls, SeatHolders)'
  BY <1>1, <1>2, <1>4 DEF Fits, Lined, Within, Waiters, Active
<1>6. (Waiters(ls) = Queued)'
  <2>1. {q \in Request : q = r /\ where = "queue"} = {r} \cap Waiters(t)
    BY <1>0
  <2>2. Queued' = Waiters(t)
    BY <1>1, <1>2, <1>3, <2>1
  <2> QED
    BY <1>2, <2>2 DEF Waiters
<1>7. NoSeatIdles'
  BY <1>1, <1>2, NobodyIdles
<1>8. Closure' /\ LongStages'
  BY <1>0, <1>1, <1>B, StagesKept
<1>9. NobodyLetIn
  <2> SUFFICES ASSUME ls.closed, ls'.closed, NEW q \in Request, pc[q] \in {"new", "queue"}, pc'[q] = "granted"
               PROVE  LaneOf[q] = "long"
    BY DEF NobodyLetIn
  <2>1. q \in Granted(t, s)
    BY <1>0, <1>2, <1>3
  <2>2. s.closed
    BY <1>1, <1>2
  <2> QED
    BY <2>1, <2>2 DEF Served
<1> QED
  BY <1>2, <1>5, <1>6, <1>7, <1>8, <1>9 DEF AInv

\* A step that leaves the seats and the lines alone.
LEMMA QuietStep ==
  ASSUME AInv, NEW r \in Request, NEW where \in Stage, pc' = [pc EXCEPT ![r] = where],
         pc[r] = "queue" <=> where = "queue", SeatedAt(r, where) <=> Seated(r), ls' \in Lanes, SameSeats(ls', ls),
         NoSeatIdles', Closure', LongStages', where = "granted" => pc[r] = "granted"
  PROVE  AInv' /\ NobodyLetIn
<1>1. pc \in [Request -> Stage] /\ pc' \in [Request -> Stage]
      /\ \A q \in Request : pc'[q] = IF q = r THEN where ELSE pc[q]
  BY DEF AInv
<1>2. SeatHolders' = SeatHolders
  BY <1>1, SeatedIs DEF SeatHolders, Seated, SeatedAt
<1>3. Queued' = Queued
  BY <1>1 DEF Queued
<1>4. Fits(ls', SeatHolders) /\ Waiters(ls') = Waiters(ls)
  BY FitsAlike DEF AInv
<1>5. Fits(ls, SeatHolders)'
  BY <1>2, <1>4 DEF Fits, Lined, Within, Waiters, Active
<1>6. (Waiters(ls) = Queued)'
  BY <1>3, <1>4 DEF Waiters, AInv
<1>7. NobodyLetIn
  BY <1>1 DEF NobodyLetIn
<1> QED
  BY <1>1, <1>5, <1>6, <1>7 DEF AInv

\* Become without anybody granted.
LEMMA BecomeQuiet ==
  ASSUME AInv, NEW t \in Lanes, SameSeats(t, ls), NEW r \in Request, NEW where \in Stage, Become(t, r, where)
  PROVE  ls' = t /\ pc' = [pc EXCEPT ![r] = where] /\ SameSeats(ls', ls) /\ ls' \in Lanes
<1>1. Waiters(t) = Queued
  BY FitsAlike DEF AInv
<1>2. ls' = t /\ pc' = [q \in Request |-> IF q = r THEN where
                              ELSE IF pc[q] = "queue" /\ q \notin Waiters(t) THEN "granted" ELSE pc[q]]
  BY DEF Become
<1>3. \A q \in Request : pc[q] = "queue" => q \in Waiters(t)
  BY <1>1 DEF Queued
<1>4. pc' = [pc EXCEPT ![r] = where]
  BY <1>2, <1>3 DEF AInv
<1> QED
  BY <1>2, <1>4

\* Nobody idles for what is closed or taken further.
LEMMA IdlesKept ==
  ASSUME AInv, ls' \in Lanes, SameSeats(ls', ls),
         ls'.closed \/ ((ls.closed => ls'.closed) /\ ls.idle \subseteq ls'.idle)
  PROVE  NoSeatIdles'
<1>0. \A l \in Lane : Active(ls', l) = Active(ls, l)
  BY DEF SameSeats, Active
<1>1. \A l \in Lane : Active(ls, l)' = Active(ls', l)
  BY DEF Active
<1>2. /\ (ls.chat # <<>> => ~Free(ls)) /\ (ls.v1 # <<>> => ~SeatFreeForV1(ls))
      /\ \A r \in ToSet(ls.kv) : ~Blocked(ls, r) => V1(r)
  BY DEF AInv, NoSeatIdles
<1>3. ~Free(ls) => ~Free(ls)'
  BY <1>0, <1>1 DEF Free, Lane
<1>4. ~SeatFreeForV1(ls) => ~SeatFreeForV1(ls)'
  BY <1>0, <1>1 DEF Free, SeatFreeForV1, Lane, SameSeats
<1>5. ASSUME NEW r \in ToSet(ls'.kv), ~Blocked(ls, r)' PROVE V1(r)
  <2>1. r \in ToSet(ls.kv) /\ r \in Request
    BY LinesApart DEF SameSeats, AInv, Fits
  <2>2. CASE V1(r)
    BY <2>2
  <2>3. CASE ~V1(r)
    <3>1. Blocked(ls, r)
      BY <1>2, <2>1, <2>3
    <3>2. Chat(r)
      BY <2>1, <2>3, RequestTypes
    <3>3. Blocked(ls, r)'
      <4>1. CASE LaneOf[r] = "long_output"
        BY <1>0, <1>1, <2>3, <3>1, <3>2, <4>1 DEF Blocked, Lane
      <4>2. CASE LaneOf[r] # "long_output"
        BY <1>0, <1>1, <2>3, <3>1, <3>2, <4>2 DEF Blocked, Lane
      <4> QED
        BY <4>1, <4>2
    <3> QED
      BY <1>5, <3>3
  <2> QED
    BY <2>2, <2>3
<1> QED
  BY <1>2, <1>3, <1>4, <1>5 DEF NoSeatIdles, SameSeats

\* A step of one request, from the grant to the engine or after the call.
LEMMA PcStep ==
  ASSUME AInv, NEW r \in Request, NEW where \in Stage, pc' = [pc EXCEPT ![r] = where], ls' = ls,
         SeatedAt(r, where) <=> Seated(r), pc[r] \notin {"queue", "idle", "engine"},
         where \notin {"queue", "granted", "idle"},
         where \in {"engine", "preadmitted", "parked"} => LaneOf[r] # "long"
  PROVE  AInv' /\ NobodyLetIn
<1>1. SameSeats(ls', ls) /\ ls' \in Lanes
  BY DEF SameSeats, AInv, Fits
<1>2. NoSeatIdles'
  BY <1>1, IdlesKept
<1>3. pc \in [Request -> Stage] /\ \A q \in Request : pc'[q] = IF q = r THEN where ELSE pc[q]
  BY DEF AInv
<1>4. Closure'
  <2>1. ls.closers \subseteq Request /\ r \notin ls.closers
    BY DEF AInv, Closure, Fits, Lanes
  <2> QED
    BY <1>3, <2>1 DEF AInv, Closure
<1>5. LongStages'
  BY <1>3, PatientsAreRequests DEF AInv, LongStages
<1> QED
  BY <1>1, <1>2, <1>4, <1>5, QuietStep

LEMMA ResumeStep == ASSUME AInv, NEW r \in Request, Resume(r) PROVE AInv' /\ NobodyLetIn
<1>1. PICK where \in {"preadmitted", "engine"} : pc' = [pc EXCEPT ![r] = where] /\ ls' = ls
  BY DEF Resume
<1>2. SeatedAt(r, where) <=> Seated(r)
  BY DEF Resume, SeatedAt, Seated
<1> QED
  BY <1>1, <1>2, PcStep DEF Resume, Stage

LEMMA SendStep == ASSUME AInv, NEW r \in Request, Send(r) PROVE AInv' /\ NobodyLetIn
<1>1. PICK where \in {"parked", "engine"} : pc' = [pc EXCEPT ![r] = where] /\ ls' = ls
  BY DEF Send
<1>2. SeatedAt(r, where) <=> Seated(r)
  BY DEF Send, SeatedAt, Seated
<1>3. LaneOf[r] # "long"
  BY DEF Send, AInv, LongStages
<1> QED
  BY <1>1, <1>2, <1>3, PcStep DEF Send, Stage

LEMMA UnparkStep == ASSUME AInv, NEW r \in Request, Unpark(r) PROVE AInv' /\ NobodyLetIn
<1>1. SeatedAt(r, "engine") <=> Seated(r)
  BY DEF Unpark, SeatedAt, Seated
<1>2. LaneOf[r] # "long"
  BY DEF Unpark, AInv, LongStages
<1> QED
  BY <1>1, <1>2, PcStep DEF Unpark, Stage

LEMMA AgainStep == ASSUME AInv, NEW r \in Request, Again(r) PROVE AInv' /\ NobodyLetIn
<1>1. SeatedAt(r, "new") <=> Seated(r)
  BY DEF Again, SeatedAt, Seated
<1> QED
  BY <1>1, PcStep DEF Again, Stage

LEMMA ComesBackStep == ASSUME AInv, NEW r \in Request, ComesBack(r) PROVE AInv' /\ NobodyLetIn
<1>1. SeatedAt(r, "new") <=> Seated(r)
  BY DEF ComesBack, SeatedAt, Seated
<1> QED
  BY <1>1, PcStep DEF ComesBack, Stage

-----------------------------------------------------------------------------
(* Coming, waiting and leaving.                                             *)

LEMMA ArriveStep == ASSUME AInv, NEW r \in Request, Arrive(r) PROVE AInv' /\ NobodyLetIn
<1> DEFINE s == Joined(ls, r)
           t == Pumped[s]
           u == Left(t, r)
<1>1. pc[r] = "new" /\ r \notin Queued /\ r \notin SeatHolders /\ r \notin ls.closers /\ r \notin ls.prefill
  BY DEF Arrive, Queued, SeatHolders, Seated, AInv, Closure, LongStages
<1>2. Fits(s, SeatHolders) /\ Waiters(s) = Queued \cup {r} /\ Kept(s, ls)
  BY <1>1, JoinedFits DEF AInv
<1> HIDE DEF s
<1>3. Served(t, s, SeatHolders)
  BY <1>2, PumpedServed
<1> HIDE DEF t
<1>4. s.closers = ls.closers \ {r} /\ s.closed = (ls.closed /\ r \notin ls.closers) /\ s.prefill = ls.prefill \ {r}
      /\ SeatHolders = SeatHolders \ {r}
  BY <1>1, <1>2 DEF Kept, AInv, Fits, Lanes
<1>5. CASE Become(t, r, Place(t, r))
  BY <1>1, <1>2, <1>3, <1>4, <1>5, JoinStep
<1>6. CASE r \in Waiters(t) /\ Become(Refused(u, r), r, "done")
  <2>1. Fits(t, SeatHolders \cup Granted(t, s)) /\ Waiters(t) \subseteq Waiters(s)
    BY <1>3 DEF Served
  <2>2. Fits(u, SeatHolders \cup Granted(t, s)) /\ Waiters(u) = Waiters(t) \ {r} /\ Kept(u, t)
        /\ LongBlocked(u) /\ NormalBusy(u)
    BY <1>3, <2>1, LeftFits DEF Served
  <2> HIDE DEF u
  <2>3. Granted(u, ls) = Granted(t, s) /\ Waiters(u) \subseteq Waiters(ls) /\ Waiters(ls) = Queued
    BY <1>1, <1>2, <1>6, <2>1, <2>2 DEF Granted, AInv
  <2>4. Served(u, ls, SeatHolders)
    BY <1>2, <1>3, <2>2, <2>3 DEF Served, Kept
  <2>5. Served(Refused(u, r), ls, SeatHolders)
    BY <2>4, RefusedServed
  <2>6. SeatHolders = (SeatHolders \ {r}) \cup {q \in Request : q = r /\ SeatedAt(r, "done")}
    BY <1>4 DEF SeatedAt
  <2>7. ls.closers = ls.closers \ {r} /\ ls.closed = (ls.closed /\ r \notin ls.closers) /\ ls.prefill = ls.prefill \ {r}
        /\ Queued = Queued \ {r}
    BY <1>1 DEF AInv, Fits, Lanes
  <2> QED
    BY <1>6, <2>3, <2>5, <2>6, <2>7, PumpStep DEF Stage
<1>7. QED
  BY <1>5, <1>6 DEF Arrive, s, t, u

\* A waiter leaves: t are the lanes after it.
LEMMA LeaveStep ==
  ASSUME AInv, NEW r \in Request, pc[r] = "queue", NEW where \in {"done", "away"}, NEW s \in Lanes,
         SameSeats(s, ls), s.closed = ls.closed, s.closers = ls.closers, s.prefill = ls.prefill,
         NEW t, t \in {Pumped[Left(s, r)], Refused(Pumped[Left(s, r)], r)}, Become(t, r, where)
  PROVE  AInv' /\ NobodyLetIn
<1> DEFINE u == Left(s, r)
<1>1. r \notin SeatHolders /\ r \notin ls.closers /\ r \notin ls.prefill
  BY DEF SeatHolders, Seated, AInv, Closure, LongStages
<1>2. Fits(s, SeatHolders) /\ Waiters(s) = Queued
  BY FitsAlike DEF AInv
<1>3. Fits(u, SeatHolders) /\ Waiters(u) = Queued \ {r} /\ Kept(u, s)
  BY <1>2, LeftFits
<1> HIDE DEF u
<1>4. Served(Pumped[u], u, SeatHolders)
  BY <1>3, PumpedServed
<1>5. Served(t, u, SeatHolders)
  BY <1>4, RefusedServed DEF u
<1>6. SeatHolders = (SeatHolders \ {r}) \cup {q \in Request : q = r /\ SeatedAt(r, where)}
  BY <1>1 DEF SeatedAt
<1>7. u.closers = ls.closers \ {r} /\ u.closed = (ls.closed /\ r \notin ls.closers) /\ u.prefill = ls.prefill \ {r}
  BY <1>1, <1>3 DEF Kept, AInv, Fits, Lanes
<1> QED
  BY <1>3, <1>5, <1>6, <1>7, PumpStep DEF Stage

LEMMA SameLanes == ASSUME AInv PROVE ls \in Lanes /\ SameSeats(ls, ls)
BY DEF AInv, Fits, SameSeats

LEMMA TimeOutStep == ASSUME AInv, NEW r \in Request, TimeOut(r) PROVE AInv' /\ NobodyLetIn
BY SameLanes, LeaveStep DEF TimeOut

LEMMA CancelledStep == ASSUME AInv, NEW r \in Request, Cancelled(r) PROVE AInv' /\ NobodyLetIn
BY SameLanes, LeaveStep DEF Cancelled

\* A ticket gives everything back.
LEMMA ReleaseStep ==
  ASSUME AInv, NEW r \in Request, Holder(r), NEW where \in {"done", "away"}, NEW s \in Lanes,
         SameSeats(s, ls), s.closed = ls.closed, s.closers = ls.closers, s.prefill = ls.prefill,
         Become(Pumped[Released(s, r)], r, where)
  PROVE  AInv' /\ NobodyLetIn
<1> DEFINE u == Released(s, r)
<1>1. r \notin Queued
  BY DEF Holder, Seated, Queued
<1>2. Fits(s, SeatHolders) /\ Waiters(s) = Queued /\ (Seated(r) <=> r \in SeatHolders)
  BY FitsAlike DEF AInv, SeatHolders
<1>3. Fits(u, SeatHolders \ {r}) /\ Waiters(u) = Queued \ {r} /\ u.closers = ls.closers \ {r}
      /\ u.closed = (ls.closed /\ r \notin ls.closers) /\ u.prefill = ls.prefill \ {r}
  BY <1>1, <1>2, ReleasedFits
<1> HIDE DEF u
<1>4. Served(Pumped[u], u, SeatHolders \ {r})
  BY <1>3, PumpedServed
<1>5. SeatHolders \ {r} = (SeatHolders \ {r}) \cup {q \in Request : q = r /\ SeatedAt(r, where)}
  BY DEF SeatedAt
<1> QED
  BY <1>3, <1>4, <1>5, PumpStep DEF Stage, u

LEMMA EndsStep == ASSUME AInv, NEW r \in Request, Ends(r) PROVE AInv' /\ NobodyLetIn
BY SameLanes, ReleaseStep DEF Ends

\* The yield callback.
LEMMA YieldsStep == ASSUME AInv, NEW r \in Request, Yields(r) PROVE AInv' /\ NobodyLetIn
<1> DEFINE s == [ls EXCEPT !.calls = @ \ {r}]
<1>1. s \in Lanes /\ SameSeats(s, ls) /\ s.closed = ls.closed /\ s.closers = ls.closers /\ s.prefill = ls.prefill
      /\ s.idle = ls.idle
  <2>1. ls \in Lanes
    BY DEF AInv, Fits
  <2> QED
    BY <2>1 DEF Lanes, SameSeats
<1>2. IF pc[r] = "queue" THEN Become(Pumped[Left(s, r)], r, "away")
      ELSE IF Holder(r) THEN Become(Pumped[Released(s, r)], r, "away")
      ELSE Become(s, r, pc[r])
  BY DEF Yields
<1> HIDE DEF s
<1>3. CASE pc[r] = "queue"
  BY <1>1, <1>2, <1>3, LeaveStep
<1>4. CASE pc[r] # "queue" /\ Holder(r)
  BY <1>1, <1>2, <1>4, ReleaseStep
<1>5. CASE pc[r] # "queue" /\ ~Holder(r)
  <2>0. pc[r] \in Stage \ {"preadmitted", "parked", "idle", "engine", "granted", "queue"}
        /\ (SeatedAt(r, pc[r]) <=> Seated(r))
    BY <1>5, SeatedIs DEF AInv, Holder, Seated, Stage
  <2>1. Become(s, r, pc[r])
    BY <1>2, <1>5
  <2>2. ls' = s /\ pc' = [pc EXCEPT ![r] = pc[r]] /\ SameSeats(ls', ls) /\ ls' \in Lanes
    BY <1>1, <2>0, <2>1, BecomeQuiet
  <2>3. NoSeatIdles'
    BY <1>1, <2>2, IdlesKept
  <2>4. r \notin ls.closers /\ r \notin ls.prefill
    BY <2>0 DEF AInv, Closure, LongStages
  <2>5. s.closers = ls.closers \ {r} /\ s.closed = (ls.closed /\ r \notin ls.closers) /\ s.prefill = ls.prefill \ {r}
    BY <1>1, <2>4 DEF Lanes
  <2>6. Closure' /\ LongStages'
    BY <1>1, <2>0, <2>1, <2>5, StagesKept
  <2> QED
    BY <2>0, <2>2, <2>3, <2>6, QuietStep
<1> QED
  BY <1>3, <1>4, <1>5

-----------------------------------------------------------------------------
(* LONG work: the idle wait, the closure, the first token.                  *)

\* Two requests never have the LONG seat at once.
LEMMA OneLongSeat ==
  ASSUME AInv, NEW p \in SeatHolders, NEW q \in SeatHolders, LaneOf[p] = "long", LaneOf[q] = "long"
  PROVE  p = q
<1> DEFINE C == Of(SeatHolders, "long", "chat")
           V == Of(SeatHolders, "long", "v1")
<1>1. Fits(ls, SeatHolders)
  BY DEF AInv
<1>2. IsFiniteSet(SeatHolders)
  BY <1>1 DEF Fits, Counts
<1>3. IsFiniteSet(C) /\ IsFiniteSet(V) /\ C \cap V = {} /\ p \in C \cup V /\ q \in C \cup V
  <2>1. Origin[p] \in ClassOf /\ Origin[q] \in ClassOf
    BY RequestTypes DEF SeatHolders
  <2> QED
    BY <1>2, <2>1, FS_Subset DEF Of, ClassOf
<1>4. Cardinality(C) + Cardinality(V) <= 1
  <2>1. "long" \in Lane /\ ls.active["long"]["chat"] = Cardinality(C) /\ ls.active["long"]["v1"] = Cardinality(V)
    BY <1>1 DEF Fits, Counts, Lane, ClassOf
  <2>2. Active(ls, "long") = ls.active["long"]["chat"] + ls.active["long"]["v1"] /\ Active(ls, "long") <= Capacity["long"]
    BY <1>1, <2>1, SeatsAreCounted DEF Fits, Within
  <2> QED
    BY <2>1, <2>2, AdmissionAssumption
<1> DEFINE U == C \cup V
<1>5. IsFiniteSet(U) /\ Cardinality(U) <= 1 /\ Cardinality(U) \in Nat
  <2>1. IsFiniteSet(U) /\ Cardinality(U) = Cardinality(C) + Cardinality(V) - Cardinality(C \cap V)
    BY <1>3, FS_Union
  <2>2. Cardinality(C \cap V) = 0
    BY <1>3, FS_EmptySet
  <2>3. Cardinality(C) \in Nat /\ Cardinality(V) \in Nat
    BY <1>3, FS_CardinalityType
  <2> QED
    BY <1>4, <2>1, <2>2, <2>3, FS_CardinalityType
<1> HIDE DEF C, V, U
<1>6. ASSUME p # q PROVE FALSE
  <2>1. p \in U /\ q \in U \ {p}
    BY <1>3, <1>6 DEF U
  <2>2. IsFiniteSet(U \ {p}) /\ Cardinality(U \ {p}) = Cardinality(U) - 1
    BY <1>5, <2>1, FS_RemoveElement
  <2>3. Cardinality(U \ {p}) = 0 /\ Cardinality(U \ {p}) \in Nat
    BY <1>5, <2>2, FS_CardinalityType
  <2> QED
    BY <2>1, <2>2, <2>3, FS_EmptySet
<1> QED
  BY <1>6

LEMMA IdleWaitStep == ASSUME AInv, NEW r \in Request, IdleWait(r) PROVE AInv' /\ NobodyLetIn
<1> DEFINE s == [ls EXCEPT !.idle = @ \cup {r}, !.prefill = IF r \in Patient THEN @ \cup {r} ELSE @]
           due == {q \in s.decode \ s.asked : s.yields[q] < DecodeYields}
           u == [Asked(s, due) EXCEPT !.yields = [q \in Patient |-> IF q \in due THEN @[q] + 1 ELSE @[q]]]
<1>0. ls \in Lanes /\ pc[r] = "granted" /\ LaneOf[r] = "long"
  BY DEF AInv, Fits, IdleWait
<1>1. s \in Lanes /\ SameSeats(s, ls) /\ s.closed = ls.closed /\ s.closers = ls.closers /\ s.idle = ls.idle \cup {r}
      /\ s.prefill = IF r \in Patient THEN ls.prefill \cup {r} ELSE ls.prefill
  BY <1>0 DEF Lanes, SameSeats
<1>2. PICK t : t \in {s, u} /\ Become(t, r, "idle")
  BY DEF IdleWait
<1> HIDE DEF s
<1>3. due \in SUBSET Patient /\ \A q \in due : s.yields[q] + 1 \in 0..DecodeYields
  BY <1>1, AdmissionAssumption DEF Lanes
<1>4. PICK e \in SUBSET Patient : e = due
  BY <1>3
<1>5. [q \in Patient |-> IF q \in due THEN s.yields[q] + 1 ELSE s.yields[q]] \in [Patient -> 0..DecodeYields]
  BY <1>1, <1>3 DEF Lanes
<1>6. PICK y \in [Patient -> 0..DecodeYields] : y = [q \in Patient |-> IF q \in due THEN s.yields[q] + 1 ELSE s.yields[q]]
  BY <1>5
<1>7. Asked(s, e) \in Lanes /\ SameSeats(Asked(s, e), s) /\ Kept(Asked(s, e), s) /\ Asked(s, e).yields = s.yields
  BY <1>1, AskedIs DEF SameSeats, Asked, Lanes
<1>8. u = [Asked(s, e) EXCEPT !.yields = y]
  BY <1>4, <1>6, <1>7
<1> HIDE DEF u, due
<1>9. u \in Lanes /\ SameSeats(u, Asked(s, e)) /\ Kept(u, Asked(s, e))
  BY <1>7, <1>8 DEF Lanes, SameSeats, Kept
<1>10. t \in Lanes /\ SameSeats(t, ls) /\ t.closed = ls.closed /\ t.closers = ls.closers /\ t.idle = ls.idle \cup {r}
       /\ t.prefill = IF r \in Patient THEN ls.prefill \cup {r} ELSE ls.prefill
  BY <1>1, <1>2, <1>7, <1>9 DEF SameSeats, Kept
<1>11. ls' = t /\ pc' = [pc EXCEPT ![r] = "idle"] /\ SameSeats(ls', ls) /\ ls' \in Lanes
  BY <1>2, <1>10, BecomeQuiet DEF Stage
<1>12. NoSeatIdles'
  BY <1>10, <1>11, IdlesKept
<1>13. pc \in [Request -> Stage] /\ \A q \in Request : pc'[q] = IF q = r THEN "idle" ELSE pc[q]
  BY <1>11 DEF AInv
<1>14. Closure'
  <2>1. ls.closers \subseteq Request /\ r \notin ls.closers
    BY <1>0 DEF AInv, Closure, Lanes
  <2> QED
    BY <1>10, <1>11, <1>13, <2>1 DEF AInv, Closure
<1>15. LongStages'
  BY <1>0, <1>10, <1>11, <1>13, PatientsAreRequests DEF AInv, LongStages
<1>16. SeatedAt(r, "idle") <=> Seated(r)
  BY <1>0 DEF SeatedAt, Seated
<1> QED
  BY <1>0, <1>11, <1>12, <1>14, <1>15, <1>16, QuietStep DEF Stage

LEMMA ProceedsStep == ASSUME AInv, NEW r \in Request, pc[r] = "idle", Proceeds(r) PROVE AInv' /\ NobodyLetIn
<1> DEFINE t == [ls EXCEPT !.idle = @ \ {r}, !.closed = TRUE, !.closers = @ \cup {r},
                           !.held = @ /\ V1(r), !.spent = @ \/ V1(r)]
<1>0. ls \in Lanes /\ LaneOf[r] = "long" /\ r \in SeatHolders
  BY DEF AInv, Fits, LongStages, SeatHolders, Seated
<1>1. t \in Lanes /\ SameSeats(t, ls) /\ t.closed = TRUE /\ t.closers = ls.closers \cup {r} /\ t.prefill = ls.prefill
  BY <1>0 DEF Lanes, SameSeats, V1
<1>2. Become(t, r, "engine")
  BY DEF Proceeds
<1> HIDE DEF t
<1>3. ls' = t /\ pc' = [pc EXCEPT ![r] = "engine"] /\ SameSeats(ls', ls) /\ ls' \in Lanes
  BY <1>1, <1>2, BecomeQuiet DEF Stage
<1>4. NoSeatIdles'
  BY <1>1, <1>3, IdlesKept
<1>5. pc \in [Request -> Stage] /\ \A q \in Request : pc'[q] = IF q = r THEN "engine" ELSE pc[q]
  BY <1>3 DEF AInv
<1>6. ls.closers = {}
  <2> SUFFICES ASSUME NEW q \in ls.closers PROVE FALSE
    OBVIOUS
  <2>1. q \in Request /\ pc[q] = "engine" /\ LaneOf[q] = "long"
    BY <1>0 DEF AInv, Closure, Lanes
  <2>2. q \in SeatHolders /\ q # r
    BY <2>1 DEF SeatHolders, Seated
  <2> QED
    BY <1>0, <2>1, <2>2, OneLongSeat
<1>7. Closure'
  BY <1>0, <1>1, <1>3, <1>5, <1>6 DEF Closure
<1>8. LongStages'
  BY <1>0, <1>1, <1>3, <1>5, PatientsAreRequests DEF AInv, LongStages
<1>9. SeatedAt(r, "engine") <=> Seated(r)
  BY DEF SeatedAt, Seated
<1> QED
  BY <1>3, <1>4, <1>7, <1>8, <1>9, QuietStep DEF Stage

LEMMA EngineIdleStep == ASSUME AInv, NEW r \in Request, EngineIdle(r) PROVE AInv' /\ NobodyLetIn
BY ProceedsStep DEF EngineIdle

LEMMA IdleBoundEndsStep == ASSUME AInv, NEW r \in Request, IdleBoundEnds(r) PROVE AInv' /\ NobodyLetIn
<1>1. CASE AnswersHold \/ ChatHolds(r)
  <2> DEFINE s == IF AnswersHold THEN Refused(ls, r) ELSE ls
  <2>1. Holder(r) /\ Become(Pumped[Released(s, r)], r, "done")
    BY <1>1 DEF IdleBoundEnds, Holder, Seated
  <2>2. s \in Lanes /\ SameSeats(s, ls) /\ s.closed = ls.closed /\ s.closers = ls.closers /\ s.prefill = ls.prefill
    BY SameLanes, RefusedIs
  <2> HIDE DEF s
  <2> QED
    BY <2>1, <2>2, ReleaseStep
<1>2. CASE ~(AnswersHold \/ ChatHolds(r))
  BY <1>2, ProceedsStep DEF IdleBoundEnds
<1> QED
  BY <1>1, <1>2

LEMMA GivesWayStep == ASSUME AInv, NEW r \in Request, GivesWay(r) PROVE AInv' /\ NobodyLetIn
<1> DEFINE s1 == Released(ls, r)
           t1 == Pumped[s1]
           s2 == Joined(t1, r)
           t2 == Pumped[s2]
           s == Joined(s1, r)
           H == SeatHolders \ {r}
           H1 == H \cup Granted(t1, s1)
<1>1. pc[r] = "idle" /\ r \notin Queued /\ (Seated(r) <=> r \in SeatHolders)
  BY DEF GivesWay, Queued, SeatHolders
<1>2. Fits(s1, H) /\ Waiters(s1) = Queued /\ s1.closers = ls.closers \ {r}
      /\ s1.closed = (ls.closed /\ r \notin ls.closers) /\ s1.prefill = ls.prefill \ {r}
  BY <1>1, ReleasedFits DEF AInv
<1>3. Become(t2, r, Place(t2, r))
  BY DEF GivesWay
<1> HIDE DEF s1
<1>4. Served(t1, s1, H)
  BY <1>2, PumpedServed
<1> HIDE DEF t1
<1>5. Fits(t1, H1) /\ Waiters(t1) \subseteq Queued /\ t1.closers = s1.closers /\ t1.closed = s1.closed
      /\ t1.prefill = s1.prefill /\ (s1.closed => \A q \in Granted(t1, s1) : LaneOf[q] = "long")
  BY <1>2, <1>4 DEF Served
<1>6. r \notin Waiters(t1) /\ r \notin H1
  BY <1>1, <1>2, <1>5 DEF Granted
<1>7. Fits(s2, H1) /\ Waiters(s2) = Waiters(t1) \cup {r} /\ Kept(s2, t1)
  BY <1>5, <1>6, JoinedFits
<1> HIDE DEF s2
<1>8. Served(t2, s2, H1)
  BY <1>7, PumpedServed
<1> HIDE DEF t2
<1>9. Fits(s, H) /\ Waiters(s) = Queued \cup {r} /\ Kept(s, s1)
  BY <1>1, <1>2, JoinedFits
<1> HIDE DEF s
<1>10. Waiters(t2) \subseteq Waiters(s2) /\ Fits(t2, H1 \cup Granted(t2, s2)) /\ LongBlocked(t2) /\ NormalBusy(t2)
       /\ t2.closed = s2.closed /\ t2.closers = s2.closers /\ t2.prefill = s2.prefill
       /\ (s2.closed => \A q \in Granted(t2, s2) : LaneOf[q] = "long")
  BY <1>8 DEF Served
<1>11. Granted(t2, s) = Granted(t1, s1) \cup Granted(t2, s2)
  BY <1>1, <1>2, <1>5, <1>7, <1>9, <1>10 DEF Granted
<1>12. H1 \cup Granted(t2, s2) = H \cup Granted(t2, s)
  BY <1>11
<1>13. s.closed = s1.closed /\ s.closers = s1.closers /\ s.prefill = s1.prefill
       /\ s2.closed = s1.closed /\ s2.closers = s1.closers /\ s2.prefill = s1.prefill
  BY <1>5, <1>7, <1>9 DEF Kept
<1>14. Served(t2, s, H)
  BY <1>5, <1>7, <1>9, <1>10, <1>11, <1>12, <1>13 DEF Served
<1> HIDE DEF H
<1> QED
  BY <1>1, <1>2, <1>3, <1>9, <1>13, <1>14, JoinStep DEF H

LEMMA FirstTokenStep == ASSUME AInv, NEW r \in Request, FirstToken(r) PROVE AInv' /\ NobodyLetIn
<1> DEFINE s == Reopened(ls, r)
           u == Unseated(s, r)
           t == IF r \in s.prefill THEN [u EXCEPT !.prefill = @ \ {r}, !.decode = @ \cup {r}] ELSE s
           H == (SeatHolders \ {r}) \cup {q \in Request : q = r /\ SeatedAt(r, "decoding")}
<1>0. ls \in Lanes /\ pc[r] = "engine" /\ r \in SeatHolders /\ r \notin Queued /\ Fits(ls, SeatHolders)
      /\ Waiters(ls) = Queued
  BY DEF AInv, Fits, FirstToken, SeatHolders, Seated, Queued
<1>1. s \in Lanes /\ SameSeats(s, ls) /\ s.closers = ls.closers \ {r} /\ s.prefill = ls.prefill
      /\ s.closed = (ls.closed /\ r \notin ls.closers)
  BY <1>0, ReopenedIs
<1>2. Become(IF t = ls THEN ls ELSE Pumped[t], r, "decoding")
  BY DEF FirstToken
<1> HIDE DEF s
<1>3. Fits(s, SeatHolders) /\ Waiters(s) = Queued
  BY <1>0, <1>1, FitsAlike
<1>4. r \in ls.prefill <=> r \in Patient /\ LaneOf[r] = "long"
  BY <1>0 DEF AInv, LongStages
<1>5. Fits(t, H) /\ Waiters(t) = Queued /\ t.closers = s.closers /\ t.closed = s.closed /\ t.prefill = ls.prefill \ {r}
  <2>1. CASE r \in s.prefill
    <3>1. H = SeatHolders \ {r}
      BY <1>1, <1>4, <2>1 DEF SeatedAt
    <3>2. Fits(u, SeatHolders \ {r}) /\ Waiters(u) = Queued /\ Kept(u, s) /\ u \in Lanes
      BY <1>0, <1>3, UnseatedFits DEF Fits
    <3>3. r \in Patient
      BY <1>1, <1>4, <2>1
    <3>4. t = [u EXCEPT !.prefill = @ \ {r}, !.decode = @ \cup {r}]
      BY <2>1
    <3> HIDE DEF t, u
    <3>5. t \in Lanes /\ SameSeats(t, u) /\ t.closers = u.closers /\ t.closed = u.closed /\ t.prefill = u.prefill \ {r}
      BY <3>2, <3>3, <3>4 DEF Lanes, SameSeats
    <3>6. Fits(t, SeatHolders \ {r}) /\ Waiters(t) = Queued
      BY <3>2, <3>5, FitsAlike
    <3> HIDE DEF H
    <3> QED
      BY <1>1, <3>1, <3>2, <3>5, <3>6 DEF Kept
  <2>2. CASE r \notin s.prefill
    <3>1. SeatedAt(r, "decoding")
      BY <1>1, <1>4, <2>2 DEF SeatedAt
    <3>2. H = SeatHolders
      BY <1>0, <3>1
    <3>3. s.prefill = ls.prefill \ {r} /\ t = s
      BY <1>1, <2>2
    <3> HIDE DEF H, t
    <3> QED
      BY <1>3, <3>2, <3>3
  <2> QED
    BY <2>1, <2>2
<1> HIDE DEF t
<1>6. H = (SeatHolders \ {r}) \cup {q \in Request : q = r /\ SeatedAt(r, "decoding")}
  OBVIOUS
<1> HIDE DEF H
<1>7. CASE t = ls
  <2>1. Become(ls, r, "decoding") /\ SameSeats(ls, ls)
    BY <1>2, <1>7 DEF SameSeats
  <2>2. ls' = ls /\ pc' = [pc EXCEPT ![r] = "decoding"] /\ SameSeats(ls', ls) /\ ls' \in Lanes
    BY <1>0, <2>1, BecomeQuiet DEF Stage
  <2>3. NoSeatIdles'
    BY <2>2, IdlesKept
  <2>4. Closure' /\ LongStages'
    BY <1>0, <1>1, <1>5, <1>7, <2>1, StagesKept DEF Stage
  <2>5. SeatedAt(r, "decoding") <=> Seated(r)
    <3>1. r \notin ls.prefill
      BY <1>5, <1>7
    <3> QED
      BY <1>0, <1>4, <3>1 DEF SeatedAt, Seated
  <2> QED
    BY <1>0, <2>2, <2>3, <2>4, <2>5, QuietStep DEF Stage
<1>8. CASE t # ls
  <2>1. Become(Pumped[t], r, "decoding")
    BY <1>2, <1>8
  <2>2. Served(Pumped[t], t, H)
    BY <1>5, PumpedServed
  <2>3. Queued = Queued \ {r}
    BY <1>0
  <2> QED
    BY <1>1, <1>5, <1>6, <2>1, <2>2, <2>3, PumpStep DEF Stage
<1> QED
  BY <1>7, <1>8

LEMMA GraceEndsStep == ASSUME AInv, NEW r \in Request, GraceEnds(r) PROVE AInv' /\ NobodyLetIn
<1> DEFINE s == Reopened(ls, r)
<1>0. ls \in Lanes /\ pc[r] = "engine" /\ r \in SeatHolders /\ r \notin Queued /\ Fits(ls, SeatHolders)
      /\ Waiters(ls) = Queued
  BY DEF AInv, Fits, GraceEnds, Closure, SeatHolders, Seated, Queued
<1>1. s \in Lanes /\ SameSeats(s, ls) /\ s.closers = ls.closers \ {r} /\ s.prefill = ls.prefill
      /\ s.closed = (ls.closed /\ r \notin ls.closers)
  BY <1>0, ReopenedIs
<1>2. Become(Pumped[s], r, "engine")
  BY <1>0 DEF GraceEnds
<1> HIDE DEF s
<1>3. Fits(s, SeatHolders) /\ Waiters(s) = Queued \ {r}
  BY <1>0, <1>1, FitsAlike
<1>4. Served(Pumped[s], s, SeatHolders)
  BY <1>3, PumpedServed
<1>5. SeatHolders = (SeatHolders \ {r}) \cup {q \in Request : q = r /\ SeatedAt(r, "engine")}
  BY <1>0 DEF SeatedAt
<1> QED
  BY <1>0, <1>1, <1>2, <1>3, <1>4, <1>5, PumpStep DEF Stage

-----------------------------------------------------------------------------
(* Time.                                                                    *)

LEMMA TickStep == ASSUME AInv, Tick PROVE AInv' /\ NobodyLetIn
<1>0. NoRequest \notin Request /\ ls \in Lanes /\ Fits(ls, SeatHolders) /\ Waiters(ls) = Queued
  BY AdmissionAssumption DEF AInv, Fits
<1>1. Become(Pumped[ls], NoRequest, "queue")
  BY DEF Tick
<1>2. Served(Pumped[ls], ls, SeatHolders)
  BY <1>0, PumpedServed
<1>3. SeatHolders = (SeatHolders \ {NoRequest}) \cup {q \in Request : q = NoRequest /\ SeatedAt(NoRequest, "queue")}
  BY <1>0 DEF SeatHolders
<1>4. Queued = Queued \ {NoRequest} /\ ls.closers = ls.closers \ {NoRequest} /\ NoRequest \notin ls.closers
      /\ ls.prefill = ls.prefill \ {NoRequest} /\ ls.closed = (ls.closed /\ NoRequest \notin ls.closers)
  BY <1>0, PatientsAreRequests DEF Queued, Lanes
<1> QED
  BY <1>0, <1>1, <1>2, <1>3, <1>4, PumpStep DEF Stage

LEMMA ClockStep ==
  ASSUME AInv, (\E r \in Request : Ripens(r)) \/ WindowSlides \/ HoldEnds
  PROVE  AInv' /\ NobodyLetIn
<1>0. ls \in Lanes
  BY DEF AInv, Fits
<1>1. /\ pc' = pc /\ ls' \in Lanes /\ SameSeats(ls', ls)
      /\ ls'.closed = ls.closed /\ ls'.closers = ls.closers /\ ls'.idle = ls.idle /\ ls'.prefill = ls.prefill
  <2>1. ASSUME NEW r \in Request, Ripens(r)
        PROVE  pc' = pc /\ ls' = [ls EXCEPT !.ripe = @ \cup {r}]
    BY <2>1 DEF Ripens
  <2>2. ASSUME WindowSlides PROVE pc' = pc /\ ls' = [ls EXCEPT !.spent = FALSE]
    BY <2>2 DEF WindowSlides
  <2>3. ASSUME HoldEnds PROVE pc' = pc /\ ls' = [ls EXCEPT !.held = FALSE]
    BY <2>3 DEF HoldEnds
  <2>4. PICK u : u \in Lanes /\ u = ls
    BY <1>0
  <2>5. \A r \in Request : LET v == [u EXCEPT !.ripe = @ \cup {r}] IN
          v \in Lanes /\ SameSeats(v, u) /\ v.closed = u.closed /\ v.closers = u.closers /\ v.idle = u.idle
          /\ v.prefill = u.prefill
    BY <2>4 DEF Lanes, SameSeats
  <2>6. LET v == [u EXCEPT !.spent = FALSE] IN
          v \in Lanes /\ SameSeats(v, u) /\ v.closed = u.closed /\ v.closers = u.closers /\ v.idle = u.idle
          /\ v.prefill = u.prefill
    BY <2>4 DEF Lanes, SameSeats
  <2>7. LET v == [u EXCEPT !.held = FALSE] IN
          v \in Lanes /\ SameSeats(v, u) /\ v.closed = u.closed /\ v.closers = u.closers /\ v.idle = u.idle
          /\ v.prefill = u.prefill
    BY <2>4 DEF Lanes, SameSeats
  <2>8. CASE \E r \in Request : Ripens(r)
    BY <2>1, <2>4, <2>5, <2>8
  <2>9. CASE WindowSlides
    BY <2>2, <2>4, <2>6, <2>9
  <2>10. CASE HoldEnds
    BY <2>3, <2>4, <2>7, <2>10
  <2> QED
    BY <2>8, <2>9, <2>10
<1>2. NoSeatIdles'
  BY <1>1, IdlesKept
<1>3. Closure' /\ LongStages'
  BY <1>1 DEF AInv, Closure, LongStages
<1>4. SeatHolders' = SeatHolders /\ Queued' = Queued
  BY <1>1 DEF SeatHolders, Queued, Seated
<1>5. Fits(ls', SeatHolders) /\ Waiters(ls') = Waiters(ls)
  BY <1>1, FitsAlike DEF AInv
<1>6. Fits(ls, SeatHolders)'
  BY <1>4, <1>5 DEF Fits, Lined, Within, Waiters, Active
<1>7. (Waiters(ls) = Queued)'
  BY <1>4, <1>5 DEF Waiters, AInv
<1>8. NobodyLetIn
  BY <1>1 DEF NobodyLetIn
<1> QED
  BY <1>1, <1>2, <1>3, <1>6, <1>7, <1>8 DEF AInv

LEMMA NextKeeps == ASSUME AInv, [Next]_vars PROVE AInv' /\ (NobodyLetIn \/ UNCHANGED vars)
<1>1. CASE UNCHANGED vars
  BY <1>1 DEF vars, AInv, Fits, Lined, Within, Waiters, Active, SeatHolders, Queued, Seated, NoSeatIdles, Closure, LongStages,
              Free, SeatFreeForV1, Blocked
<1>2. CASE Next
  <2>1. ASSUME NEW r \in Request,
               \/ Arrive(r) \/ TimeOut(r) \/ Cancelled(r) \/ Ends(r) \/ Again(r)
               \/ Resume(r) \/ Send(r) \/ Unpark(r)
               \/ IdleWait(r) \/ EngineIdle(r) \/ IdleBoundEnds(r) \/ GivesWay(r)
               \/ FirstToken(r) \/ GraceEnds(r) \/ Yields(r) \/ ComesBack(r)
        PROVE  AInv' /\ NobodyLetIn
    BY <2>1, ArriveStep, TimeOutStep, CancelledStep, EndsStep, AgainStep, ResumeStep, SendStep, UnparkStep,
       IdleWaitStep, EngineIdleStep, IdleBoundEndsStep, GivesWayStep, FirstTokenStep, GraceEndsStep, YieldsStep,
       ComesBackStep
  <2> QED
    BY <1>2, <2>1, ClockStep, TickStep DEF Next
<1> QED
  BY <1>1, <1>2

LEMMA AInvAlways == Spec => []AInv
<1>1. Init => AInv
  BY InitAInv
<1>2. AInv /\ [Next]_vars => AInv'
  BY NextKeeps
<1> QED
  BY <1>1, <1>2, PTL DEF Spec

\* Lane._take, release_nowait: at every moment each lane counts just those who
\* hold its seats, chat and /v1 apart, within its capacity, whatever was granted
\* in a pump, refused, cancelled, handed over or released at the first token.
THEOREM SeatsAreHeldAlways == Spec => []SeatsAreHeld
<1>1. AInv => SeatsAreHeld
  <2> SUFFICES ASSUME AInv PROVE SeatsAreHeld
    OBVIOUS
  <2>1. ls \in Lanes /\ Counts(ls.active, SeatHolders) /\ Within(ls) /\ ls.streak <= ChatWeight
    BY DEF AInv, Fits
  <2>2. ls.active \in [Lane -> [chat : Nat, v1 : Nat]]
    BY <2>1, SeatsAreCounted, CountsType DEF SeatHolders
  <2>3. AdmissionTypeOK
    BY <2>1, <2>2 DEF AdmissionTypeOK, AInv, Stage
  <2>4. ASSUME NEW l \in Lane, NEW o \in {"chat", "v1"}
        PROVE  ls.active[l][o] = Cardinality({r \in Request : Seated(r) /\ LaneOf[r] = l /\ Origin[r] = o})
    <3>1. {r \in Request : Seated(r) /\ LaneOf[r] = l /\ Origin[r] = o} = Of(SeatHolders, l, o)
      BY DEF Of, SeatHolders
    <3> QED
      BY <2>1, <3>1 DEF Counts, ClassOf
  <2> QED
    BY <2>1, <2>3, <2>4 DEF SeatsAreHeld, Within
<1> QED
  BY <1>1, AInvAlways, PTL

\* close_lanes, _reopen_closure: the lanes are closed just while somebody who
\* holds the closure has LONG's seat and has not sent the first token.
THEOREM ClosedByItsHolderAlways == Spec => []ClosedByItsHolder
<1>1. AInv => ClosedByItsHolder
  <2> SUFFICES ASSUME AInv PROVE ClosedByItsHolder
    OBVIOUS
  <2>1. Cardinality(ls.closers) <= 1
    <3>1. CASE ls.closers = {}
      <4>1. Cardinality(ls.closers) = 0
        BY <3>1, FS_EmptySet
      <4> QED
        BY <4>1
    <3>2. CASE ls.closers # {}
      <4>1. PICK r \in ls.closers : ls.closers = {r}
        BY <3>2 DEF AInv, Closure
      <4>2. Cardinality(ls.closers) = 1
        BY <4>1, FS_Singleton
      <4> QED
        BY <4>2
    <3> QED
      BY <3>1, <3>2
  <2> QED
    BY <2>1 DEF AInv, Closure, ClosedByItsHolder
<1> QED
  BY <1>1, AInvAlways, PTL

\* Lane._pump, _KvArbiter._pump: no request waits in NORMAL's lines, and no chat
\* turn in the long one, while a seat it may take is free: whatever step freed
\* it has handed it on.
THEOREM NoSeatIdlesAlways == Spec => []NoSeatIdles
<1>1. AInv => NoSeatIdles
  BY DEF AInv
<1> QED
  BY <1>1, AInvAlways, PTL

\* _gate_blocked and the pumps: a step that finds the lanes closed and leaves
\* them closed seats nobody in NORMAL or LONG_OUTPUT.
THEOREM ClosureAdmitsNobodyAlways == Spec => ClosureAdmitsNobody
<1>1. AInv /\ [Next]_vars =>
        [ls.closed /\ ls'.closed =>
           \A r \in Request : pc[r] \in {"new", "queue"} /\ pc'[r] = "granted" => LaneOf[r] = "long"]_vars
  BY NextKeeps DEF NobodyLetIn
<1> QED
  BY <1>1, AInvAlways, PTL DEF Spec, ClosureAdmitsNobody

=============================================================================
