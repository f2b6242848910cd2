--------------------------- MODULE DataInduction ---------------------------
(***************************************************************************)
(* Induction over numbers and finite sets in first-order form, with sets in *)
(* the place of predicates, and what it says of two recursive functions: a  *)
(* pump (a loop that repeats a round until the round changes nothing) and   *)
(* the sum over a finite set.                                               *)
(***************************************************************************)
EXTENDS Integers, FiniteSets, SequencesExt, FiniteSetTheorems, SequenceTheorems, WellFoundedInduction, TLAPS

LEMMA LeastNumber ==
  ASSUME NEW T \in SUBSET Nat, T # {}
  PROVE  \E n \in T : \A m \in T : n <= m
<1>1. PICK n \in T : \A m \in T : ~(<<m, n>> \in OpToRel(<, Nat))
  BY NatLessThanWellFounded, WFMin
<1>2. ASSUME NEW m \in T PROVE n <= m
  <2>1. m \in Nat /\ n \in Nat
    OBVIOUS
  <2>2. ~(m < n)
    BY <1>1, <2>1 DEF OpToRel
  <2> QED
    BY <2>1, <2>2
<1> QED
  BY <1>2

LEMMA LeastElement ==
  ASSUME NEW A, NEW size \in [A -> Nat], NEW T \in SUBSET A, T # {}
  PROVE  \E x \in T : \A y \in T : size[x] <= size[y]
<1> DEFINE N == {size[x] : x \in T}
<1>1. N \in SUBSET Nat /\ N # {}
  OBVIOUS
<1>2. PICK n \in N : \A m \in N : n <= m
  <2> HIDE DEF N
  <2> QED BY <1>1, LeastNumber
<1> QED
  BY <1>2

LEMMA NatInduct ==
  ASSUME NEW S, 0 \in S, \A n \in Nat : n \in S => n + 1 \in S
  PROVE  Nat \subseteq S
<1> SUFFICES ASSUME Nat \ S # {} PROVE FALSE
  OBVIOUS
<1>1. PICK n \in Nat \ S : \A m \in Nat \ S : n <= m
  BY LeastNumber
<1>2. n # 0 /\ n - 1 \in Nat
  BY <1>1
<1>3. n - 1 \in S
  BY <1>1, <1>2
<1> QED
  BY <1>2, <1>3

-----------------------------------------------------------------------------
(* A pump.                                                                  *)

\* What the rounds lead to from s, and the set of it.
ClosedUnder(round, T) == \A t \in T : round[t] \in T
Reach(A, round, s) == {t \in A : \A T \in SUBSET A : s \in T /\ ClosedUnder(round, T) => t \in T}

LEMMA ReachUnfolds ==
  ASSUME NEW A, NEW round \in [A -> A], NEW s \in A
  PROVE  Reach(A, round, s) = {s} \cup Reach(A, round, round[s])
<1> DEFINE R == Reach(A, round, round[s])
<1>1. s \in Reach(A, round, s)
  BY DEF Reach
<1>2. R \subseteq Reach(A, round, s)
  BY DEF Reach, ClosedUnder
<1>3. ClosedUnder(round, {s} \cup R) /\ {s} \cup R \in SUBSET A
  BY DEF Reach, ClosedUnder
<1>4. Reach(A, round, s) \subseteq {s} \cup R
  <2> HIDE DEF R
  <2> QED BY <1>3 DEF Reach
<1> QED
  BY <1>1, <1>2, <1>4

\* The recursive function that a pump is defined by exists.
LEMMA PumpExists ==
  ASSUME NEW A, NEW round \in [A -> A]
  PROVE  \E h : h = [s \in A |-> IF round[s] = s THEN s ELSE h[round[s]]]
<1> DEFINE h == [s \in A |-> CHOOSE t \in A : t \in Reach(A, round, s) /\ round[t] = t]
<1>1. ASSUME NEW s \in A, round[s] = s PROVE h[s] = s
  <2>1. ClosedUnder(round, {s})
    BY <1>1 DEF ClosedUnder
  <2>2. Reach(A, round, s) = {s}
    BY <2>1 DEF Reach
  <2> QED
    BY <2>2, <1>1
<1>2. ASSUME NEW s \in A, round[s] # s PROVE h[s] = h[round[s]]
  <2>1. \A t \in A : (t \in Reach(A, round, s) /\ round[t] = t) <=> (t \in Reach(A, round, round[s]) /\ round[t] = t)
    BY <1>2, ReachUnfolds
  <2> QED
    BY <2>1
<1>3. h = [s \in A |-> IF round[s] = s THEN s ELSE h[round[s]]]
  <2> HIDE DEF h
  <2>1. h = [s \in A |-> h[s]]
    BY DEF h
  <2> QED
    BY <2>1, <1>1, <1>2
<1> QED
  BY <1>3

\* Where every round that changes something makes the state smaller, the pump
\* ends in a state that no round changes, and in every set that the rounds keep.
LEMMA PumpEnds ==
  ASSUME NEW A, NEW round \in [A -> A], NEW size \in [A -> Nat],
         \A s \in A : round[s] # s => size[round[s]] < size[s],
         NEW h, h = [s \in A |-> IF round[s] = s THEN s ELSE h[round[s]]],
         NEW I \in SUBSET A, ClosedUnder(round, I), NEW s \in I
  PROVE  h[s] \in I /\ round[h[s]] = h[s]
<1> DEFINE Bad == {t \in I : ~(h[t] \in I /\ round[h[t]] = h[t])}
<1>1. ASSUME Bad # {} PROVE FALSE
  <2>1. Bad \in SUBSET A
    OBVIOUS
  <2>2. PICK t \in Bad : \A u \in Bad : size[t] <= size[u]
    <3> HIDE DEF Bad
    <3> QED BY <1>1, <2>1, LeastElement
  <2>3. t \in A /\ round[t] \in I /\ h[t] = IF round[t] = t THEN t ELSE h[round[t]]
    BY DEF ClosedUnder
  <2>4. round[t] # t
    BY <2>2, <2>3
  <2>5. size[round[t]] < size[t] /\ size[round[t]] \in Nat /\ size[t] \in Nat
    BY <2>3, <2>4
  <2>6. round[t] \in Bad
    BY <2>2, <2>3, <2>4
  <2> HIDE DEF Bad
  <2> QED
    BY <2>2, <2>5, <2>6
<1> QED
  BY <1>1

-----------------------------------------------------------------------------
(* A sum.                                                                   *)

\* F gives each subset of S the sum of the weights of its elements.
Sums(F, S, w) ==
  /\ F \in [SUBSET S -> Nat] /\ F[{}] = 0
  /\ \A T \in SUBSET S : \A x \in S \ T : F[T \cup {x}] = F[T] + w[x]

LEMMA SumsExtend ==
  ASSUME NEW S, NEW a \in S, NEW w \in [S -> Nat], NEW E, Sums(E, S \ {a}, w)
  PROVE  \E F : Sums(F, S, w)
<1> DEFINE F == [T \in SUBSET S |-> IF a \in T THEN E[T \ {a}] + w[a] ELSE E[T]]
<1>1. E \in [SUBSET (S \ {a}) -> Nat] /\ E[{}] = 0
      /\ \A T \in SUBSET (S \ {a}) : \A x \in (S \ {a}) \ T : E[T \cup {x}] = E[T] + w[x]
  BY DEF Sums
<1>2. F \in [SUBSET S -> Nat]
  <2>1. ASSUME NEW T \in SUBSET S, a \in T PROVE E[T \ {a}] + w[a] \in Nat
    <3>1. T \ {a} \in SUBSET (S \ {a}) /\ w[a] \in Nat
      OBVIOUS
    <3>2. E[T \ {a}] \in Nat
      BY <3>1, <1>1
    <3> QED
      BY <3>1, <3>2
  <2>2. ASSUME NEW T \in SUBSET S, a \notin T PROVE E[T] \in Nat
    BY <2>2, <1>1
  <2> QED
    BY <2>1, <2>2
<1>3. F[{}] = 0
  BY <1>1
<1>4. ASSUME NEW T \in SUBSET S, NEW x \in S \ T PROVE F[T \cup {x}] = F[T] + w[x]
  <2>0. T \cup {x} \in SUBSET S
    OBVIOUS
  <2>1. CASE x = a
    <3>1. (T \cup {x}) \ {a} = T /\ T \in SUBSET (S \ {a}) /\ a \in T \cup {x} /\ a \notin T
      BY <2>1
    <3> QED
      BY <2>0, <2>1, <3>1
  <2>2. CASE x # a /\ a \notin T
    <3>1. T \in SUBSET (S \ {a}) /\ x \in (S \ {a}) \ T /\ a \notin T \cup {x}
      BY <2>2
    <3>2. E[T \cup {x}] = E[T] + w[x]
      BY <3>1, <1>1
    <3> QED
      BY <2>0, <2>2, <3>1, <3>2
  <2>3. CASE x # a /\ a \in T
    <3>1. T \ {a} \in SUBSET (S \ {a}) /\ x \in (S \ {a}) \ (T \ {a}) /\ a \in T \cup {x}
          /\ (T \cup {x}) \ {a} = (T \ {a}) \cup {x}
      BY <2>3
    <3>2. E[(T \ {a}) \cup {x}] = E[T \ {a}] + w[x]
      BY <3>1, <1>1
    <3>3. E[T \ {a}] \in Nat /\ w[x] \in Nat /\ w[a] \in Nat
      BY <3>1, <1>1
    <3>4. F[T \cup {x}] = E[(T \ {a}) \cup {x}] + w[a] /\ F[T] = E[T \ {a}] + w[a]
      BY <2>0, <2>3, <3>1
    <3> QED
      BY <3>2, <3>3, <3>4
  <2> QED
    BY <2>1, <2>2, <2>3
<1>5. Sums(F, S, w)
  <2> HIDE DEF F
  <2> QED BY <1>2, <1>3, <1>4 DEF Sums
<1> QED
  BY <1>5

LEMMA SumsExist ==
  ASSUME NEW S, IsFiniteSet(S), NEW w \in [S -> Nat]
  PROVE  \E F : Sums(F, S, w)
<1> DEFINE Sized(n) == {T \in SUBSET S : IsFiniteSet(T) /\ Cardinality(T) = n}
           N == {n \in Nat : \A T \in Sized(n) : \E F : Sums(F, T, [x \in T |-> w[x]])}
<1>1. 0 \in N
  <2>1. ASSUME NEW T \in Sized(0) PROVE \E F : Sums(F, T, [x \in T |-> w[x]])
    <3>1. T = {}
      BY <2>1, FS_EmptySet
    <3>2. Sums([U \in {{}} |-> 0], {}, [x \in {} |-> w[x]])
      BY DEF Sums
    <3> QED
      BY <3>1, <3>2
  <2> QED
    BY <2>1
<1>2. ASSUME NEW n \in Nat, n \in N PROVE n + 1 \in N
  <2>1. ASSUME NEW T \in Sized(n + 1) PROVE \E F : Sums(F, T, [x \in T |-> w[x]])
    <3>1. IsFiniteSet(T) /\ Cardinality(T) = n + 1 /\ T # {} /\ T \in SUBSET S
      BY <2>1, FS_EmptySet
    <3>2. PICK a \in T : TRUE
      BY <3>1
    <3>3. T \ {a} \in Sized(n)
      <4>1. IsFiniteSet(T \ {a}) /\ Cardinality(T \ {a}) = (n + 1) - 1
        BY <3>1, <3>2, FS_RemoveElement
      <4>2. (n + 1) - 1 = n
        OBVIOUS
      <4> QED
        BY <3>1, <4>1, <4>2
    <3>4. PICK E : Sums(E, T \ {a}, [x \in T \ {a} |-> w[x]])
      BY <1>2, <3>3
    <3>5. Sums(E, T \ {a}, [x \in T |-> w[x]])
      BY <3>4 DEF Sums
    <3>6. [x \in T |-> w[x]] \in [T -> Nat]
      BY <3>1
    <3> QED
      BY <3>2, <3>5, <3>6, SumsExtend
  <2> QED
    BY <2>1
<1>3. Nat \subseteq N
  <2> HIDE DEF N
  <2> QED BY <1>1, <1>2, NatInduct
<1>4. Cardinality(S) \in Nat /\ S \in Sized(Cardinality(S))
  BY FS_CardinalityType
<1>5. \E F : Sums(F, S, [x \in S |-> w[x]])
  BY <1>3, <1>4
<1>6. [x \in S |-> w[x]] = w
  OBVIOUS
<1> QED
  BY <1>5, <1>6

\* The recursive function that a sum is defined by: one element after another.
SumLoop(f, S, w) ==
  f = [T \in SUBSET S |-> IF T = {} THEN 0 ELSE w[CHOOSE x \in T : TRUE] + f[T \ {CHOOSE x \in T : TRUE}]]

LEMMA SumLoopIs ==
  ASSUME NEW S, IsFiniteSet(S), NEW w \in [S -> Nat], NEW F, Sums(F, S, w)
  PROVE  /\ SumLoop(F, S, w)
         /\ \A f : SumLoop(f, S, w) => f = F
<1>1. /\ F \in [SUBSET S -> Nat] /\ F[{}] = 0
      /\ \A T \in SUBSET S : \A x \in S \ T : F[T \cup {x}] = F[T] + w[x]
  BY DEF Sums
<1>2. ASSUME NEW T \in SUBSET S, T # {}, NEW x \in T PROVE F[T] = w[x] + F[T \ {x}]
  <2>1. T \ {x} \in SUBSET S /\ x \in S \ (T \ {x}) /\ (T \ {x}) \cup {x} = T
    OBVIOUS
  <2>2. F[T] = F[T \ {x}] + w[x]
    BY <2>1, <1>1
  <2>3. F[T \ {x}] \in Nat /\ w[x] \in Nat
    BY <2>1, <1>1
  <2> QED
    BY <2>2, <2>3
<1>3. SumLoop(F, S, w)
  <2> DEFINE c(T) == CHOOSE x \in T : TRUE
  <2>1. \A T \in SUBSET S : T # {} => c(T) \in T
    OBVIOUS
  <2>2. \A T \in SUBSET S : T # {} => F[T] = w[c(T)] + F[T \ {c(T)}]
    <3> HIDE DEF c
    <3> QED BY <1>2, <2>1
  <2>3. F = [T \in SUBSET S |-> F[T]]
    BY <1>1
  <2>4. F = [T \in SUBSET S |-> IF T = {} THEN 0 ELSE w[c(T)] + F[T \ {c(T)}]]
    <3> HIDE DEF c
    <3> QED BY <1>1, <2>2, <2>3
  <2> QED
    BY <2>4 DEF SumLoop
<1>4. ASSUME NEW f, SumLoop(f, S, w) PROVE f = F
  <2> DEFINE size == [T \in SUBSET S |-> Cardinality(T)]
             Bad == {T \in SUBSET S : f[T] # F[T]}
  <2>1. size \in [SUBSET S -> Nat] /\ Bad \in SUBSET SUBSET S
    BY FS_Subset, FS_CardinalityType
  <2>2. ASSUME Bad # {} PROVE FALSE
    <3>1. PICK T \in Bad : \A U \in Bad : size[T] <= size[U]
      <4> HIDE DEF Bad, size
      <4> QED BY <2>1, <2>2, LeastElement
    <3>2. T # {}
      BY <3>1, <1>1, <1>4 DEF SumLoop
    <3>3. PICK x \in T : x = CHOOSE y \in T : TRUE
      BY <3>2
    <3>4. f[T] = w[x] + f[T \ {x}] /\ F[T] = w[x] + F[T \ {x}]
      BY <3>2, <3>3, <1>2, <1>4 DEF SumLoop
    <3>5. T \ {x} \in Bad
      BY <3>4, <3>1
    <3>6. IsFiniteSet(T) /\ Cardinality(T \ {x}) = Cardinality(T) - 1 /\ Cardinality(T) \in Nat
      BY FS_Subset, FS_RemoveElement, FS_CardinalityType
    <3>7. size[T] <= size[T \ {x}]
      BY <3>1, <3>5
    <3> QED
      BY <3>6, <3>7
  <2>3. \A T \in SUBSET S : f[T] = F[T]
    BY <2>2
  <2>4. f = [T \in SUBSET S |-> f[T]]
    BY <1>4 DEF SumLoop
  <2>5. F = [T \in SUBSET S |-> F[T]]
    BY <1>1
  <2> QED
    BY <2>3, <2>4, <2>5
<1> QED
  BY <1>3, <1>4

-----------------------------------------------------------------------------
(* A line that is served from its head.                                     *)

\* t is what is left of s without its first n.
Suffix(t, s, n) == Len(t) = Len(s) - n /\ \A i \in 1..Len(t) : t[i] = s[n + i]

LEMMA SuffixTail ==
  ASSUME NEW S, NEW s \in Seq(S), NEW t \in Seq(S), NEW n \in 0..Len(s), Suffix(t, s, n), t # <<>>
  PROVE  /\ n + 1 \in 1..Len(s) /\ Head(t) = s[n + 1] /\ Head(t) \in S
         /\ Tail(t) \in Seq(S) /\ Len(Tail(t)) = Len(t) - 1 /\ Suffix(Tail(t), s, n + 1)
<1>1. Len(t) \in Nat \ {0} /\ Len(s) \in Nat
  BY EmptySeq, LenProperties
<1>2. Tail(t) \in Seq(S) /\ Len(Tail(t)) = Len(t) - 1 /\ Head(t) \in S /\ Head(t) = t[1]
      /\ \A i \in 1..(Len(t) - 1) : Tail(t)[i] = t[i + 1]
  BY <1>1, HeadTailProperties
<1>3. Head(t) = s[n + 1] /\ n + 1 \in 1..Len(s)
  BY <1>1, <1>2 DEF Suffix
<1>4. \A i \in 1..Len(Tail(t)) : Tail(t)[i] = s[(n + 1) + i]
  <2> SUFFICES ASSUME NEW i \in 1..Len(Tail(t)) PROVE Tail(t)[i] = s[(n + 1) + i]
    OBVIOUS
  <2>1. i + 1 \in 1..Len(t) /\ Tail(t)[i] = t[i + 1] /\ n + (i + 1) = (n + 1) + i
    BY <1>1, <1>2
  <2> QED
    BY <2>1 DEF Suffix
<1> QED
  BY <1>1, <1>2, <1>3, <1>4 DEF Suffix

\* A waiter leaves a line: everybody behind it moves up.
LEMMA RemoveFirstMoves ==
  ASSUME NEW S, NEW s \in Seq(S), NEW u, NEW p \in 1..Len(s), s[p] = u, \A i \in 1..Len(s) : s[i] = u => p <= i
  PROVE  /\ RemoveFirst(s, u) \in Seq(S) /\ Len(RemoveFirst(s, u)) = Len(s) - 1
         /\ \A i \in 1..(Len(s) - 1) : RemoveFirst(s, u)[i] = IF i < p THEN s[i] ELSE s[i + 1]
<1>1. Len(s) \in Nat
  BY LenProperties
<1>2. SelectInSeq(s, LAMBDA v : v = u) = p
  <2> DEFINE P == {i \in 1..Len(s) : s[i] = u}
  <2>1. p \in P /\ P \in SUBSET Int
    BY <1>1
  <2>2. \A i \in P : p <= i
    BY <1>1
  <2>3. Min(P) = p
    <3> HIDE DEF P
    <3>1. \A x \in P : (\A y \in P : x =< y) => x = p
      BY <2>1, <2>2
    <3> QED BY <2>1, <2>2, <3>1 DEF Min
  <2>4. P # {}
    BY <2>1
  <2> QED
    BY <2>3, <2>4 DEF SelectInSeq
<1> DEFINE a == SubSeq(s, 1, p - 1)
           b == SubSeq(s, p + 1, Len(s))
<1>3. RemoveFirst(s, u) = a \o b
  <2>1. \E i \in 1..Len(s) : s[i] = u
    OBVIOUS
  <2> QED
    BY <1>2, <2>1 DEF RemoveFirst, RemoveAt
<1>4. a \in Seq(S) /\ Len(a) = p - 1 /\ \A i \in 1..(p - 1) : a[i] = s[i]
  BY <1>1, SubSeqProperties
<1>5. b \in Seq(S) /\ Len(b) = Len(s) - p /\ \A i \in 1..(Len(s) - p) : b[i] = s[p + i]
  BY <1>1, SubSeqProperties
<1> HIDE DEF a, b
<1>6. /\ a \o b \in Seq(S) /\ Len(a \o b) = Len(s) - 1
      /\ \A i \in 1..(Len(s) - 1) : (a \o b)[i] = IF i <= p - 1 THEN a[i] ELSE b[i - (p - 1)]
  <2>1. Len(a) + Len(b) = Len(s) - 1
    BY <1>1, <1>4, <1>5
  <2>2. /\ a \o b \in Seq(S) /\ Len(a \o b) = Len(a) + Len(b)
        /\ \A i \in 1..(Len(a) + Len(b)) : (a \o b)[i] = IF i <= Len(a) THEN a[i] ELSE b[i - Len(a)]
    BY <1>4, <1>5, ConcatProperties
  <2> QED
    BY <1>4, <2>1, <2>2
<1>7. ASSUME NEW i \in 1..(Len(s) - 1) PROVE (a \o b)[i] = IF i < p THEN s[i] ELSE s[i + 1]
  <2>1. CASE i < p
    BY <2>1, <1>1, <1>4, <1>6
  <2>2. CASE ~(i < p)
    <3>1. i - (p - 1) \in 1..(Len(s) - p) /\ p + (i - (p - 1)) = i + 1 /\ ~(i <= p - 1)
      BY <2>2, <1>1
    <3> QED
      BY <2>2, <3>1, <1>5, <1>6
  <2> QED
    BY <2>1, <2>2
<1> QED
  BY <1>3, <1>6, <1>7

\* From a line where everybody stands once: who is left, and in what order.
LEMMA RemoveFirstKeeps ==
  ASSUME NEW S, NEW s \in Seq(S), IsInjective(s), NEW u \in ToSet(s)
  PROVE  /\ RemoveFirst(s, u) \in Seq(S) /\ IsInjective(RemoveFirst(s, u))
         /\ ToSet(RemoveFirst(s, u)) = ToSet(s) \ {u}
         /\ \A i, j \in DOMAIN s : i < j /\ s[i] # u /\ s[j] # u =>
              \E x, y \in DOMAIN RemoveFirst(s, u) :
                x < y /\ RemoveFirst(s, u)[x] = s[i] /\ RemoveFirst(s, u)[y] = s[j]
<1>1. DOMAIN s = 1..Len(s) /\ Len(s) \in Nat
  BY LenProperties
<1>2. PICK p \in 1..Len(s) : s[p] = u /\ \A i \in 1..Len(s) : s[i] = u => p <= i
  BY <1>1 DEF ToSet, IsInjective
<1> DEFINE r == RemoveFirst(s, u)
<1>3. /\ r \in Seq(S) /\ Len(r) = Len(s) - 1
      /\ \A i \in 1..(Len(s) - 1) : r[i] = IF i < p THEN s[i] ELSE s[i + 1]
  BY <1>2, RemoveFirstMoves
<1> HIDE DEF r
<1>4. DOMAIN r = 1..(Len(s) - 1)
  BY <1>3, LenProperties
<1> DEFINE At(i) == IF i < p THEN i ELSE i - 1
<1>5. \A i \in 1..Len(s) : i # p => At(i) \in DOMAIN r /\ r[At(i)] = s[i]
  BY <1>1, <1>3, <1>4
<1>6. IsInjective(r)
  <2> SUFFICES ASSUME NEW i \in DOMAIN r, NEW j \in DOMAIN r, r[i] = r[j] PROVE i = j
    BY DEF IsInjective
  <2>1. PICK x \in DOMAIN s : r[i] = s[x] /\ x = IF i < p THEN i ELSE i + 1
    BY <1>1, <1>3, <1>4
  <2>2. PICK y \in DOMAIN s : r[j] = s[y] /\ y = IF j < p THEN j ELSE j + 1
    BY <1>1, <1>3, <1>4
  <2>3. x = y
    BY <2>1, <2>2 DEF IsInjective
  <2> QED
    BY <1>1, <1>4, <2>1, <2>2, <2>3
<1>7. ToSet(r) = ToSet(s) \ {u}
  <2>1. ASSUME NEW i \in DOMAIN r PROVE r[i] \in ToSet(s) \ {u}
    <3>1. PICK x \in DOMAIN s : r[i] = s[x] /\ x # p
      BY <1>1, <1>3, <1>4
    <3> QED
      BY <3>1, <1>1, <1>2 DEF ToSet, IsInjective
  <2>2. ASSUME NEW i \in DOMAIN s, s[i] # u PROVE s[i] \in ToSet(r)
    <3>1. i # p
      BY <1>2, <2>2
    <3> QED
      BY <3>1, <1>1, <1>5 DEF ToSet
  <2> QED
    BY <2>1, <2>2 DEF ToSet
<1>8. ASSUME NEW i \in DOMAIN s, NEW j \in DOMAIN s, i < j, s[i] # u, s[j] # u
      PROVE  At(i) < At(j) /\ At(i) \in DOMAIN r /\ At(j) \in DOMAIN r /\ r[At(i)] = s[i] /\ r[At(j)] = s[j]
  <2>1. i # p /\ j # p /\ i \in 1..Len(s) /\ j \in 1..Len(s)
    BY <1>1, <1>2, <1>8
  <2> QED
    BY <2>1, <1>5, <1>8
<1> HIDE DEF At
<1>9. \A i, j \in DOMAIN s : i < j /\ s[i] # u /\ s[j] # u => \E x, y \in DOMAIN r : x < y /\ r[x] = s[i] /\ r[y] = s[j]
  BY <1>8
<1> QED
  BY <1>3, <1>6, <1>7, <1>9 DEF r

\* Somebody joins a line in which he does not stand, at its end or its head.
LEMMA AppendJoins ==
  ASSUME NEW S, NEW s \in Seq(S), IsInjective(s), NEW u \in S, u \notin ToSet(s)
  PROVE  /\ Append(s, u) \in Seq(S) /\ IsInjective(Append(s, u)) /\ Append(s, u) # <<>>
         /\ ToSet(Append(s, u)) = ToSet(s) \cup {u}
         /\ s # <<>> => Head(Append(s, u)) = Head(s)
         /\ s = <<>> => Head(Append(s, u)) = u
<1> DEFINE r == Append(s, u)
<1>1. DOMAIN s = 1..Len(s) /\ Len(s) \in Nat /\ (s # <<>> => Len(s) # 0) /\ (s = <<>> => Len(s) = 0)
  BY LenProperties, EmptySeq
<1>2. /\ r \in Seq(S) /\ Len(r) = Len(s) + 1 /\ r # <<>>
      /\ \A i \in 1..Len(s) : r[i] = s[i]
      /\ r[Len(s) + 1] = u
  BY AppendProperties
<1>3. DOMAIN r = 1..(Len(s) + 1)
  BY <1>2, LenProperties
<1> HIDE DEF r
<1>4. IsInjective(r)
  <2>1. \A i \in DOMAIN s : s[i] # u
    BY DEF ToSet
  <2> QED
    BY <1>1, <1>2, <1>3, <2>1 DEF IsInjective
<1>5. ToSet(r) = ToSet(s) \cup {u}
  <2>1. \A i \in DOMAIN r : r[i] \in ToSet(s) \cup {u}
    BY <1>1, <1>2, <1>3 DEF ToSet
  <2>2. \A i \in DOMAIN s : s[i] \in ToSet(r)
    BY <1>1, <1>2, <1>3 DEF ToSet
  <2>3. u \in ToSet(r)
    BY <1>1, <1>2, <1>3 DEF ToSet
  <2> QED
    BY <2>1, <2>2, <2>3 DEF ToSet
<1>6. Head(r) = r[1] /\ (s # <<>> => Head(s) = s[1])
  BY <1>2, HeadTailProperties
<1>7. (s # <<>> => Head(r) = Head(s)) /\ (s = <<>> => Head(r) = u)
  BY <1>1, <1>2, <1>6
<1> QED
  BY <1>2, <1>4, <1>5, <1>7 DEF r

LEMMA HeadJoins ==
  ASSUME NEW S, NEW s \in Seq(S), IsInjective(s), NEW u \in S, u \notin ToSet(s)
  PROVE  /\ <<u>> \o s \in Seq(S) /\ IsInjective(<<u>> \o s) /\ <<u>> \o s # <<>>
         /\ ToSet(<<u>> \o s) = ToSet(s) \cup {u}
         /\ Head(<<u>> \o s) = u
<1> DEFINE r == <<u>> \o s
<1>1. DOMAIN s = 1..Len(s) /\ Len(s) \in Nat
  BY LenProperties
<1>2. /\ r \in Seq(S) /\ Len(r) = 1 + Len(s)
      /\ \A i \in 1..(1 + Len(s)) : r[i] = IF i <= 1 THEN u ELSE s[i - 1]
  <2>1. <<u>> \in Seq(S) /\ Len(<<u>>) = 1 /\ <<u>>[1] = u
    OBVIOUS
  <2>2. /\ r \in Seq(S) /\ Len(r) = Len(<<u>>) + Len(s)
        /\ \A i \in 1..(Len(<<u>>) + Len(s)) : r[i] = IF i <= Len(<<u>>) THEN <<u>>[i] ELSE s[i - Len(<<u>>)]
    BY <2>1, ConcatProperties
  <2> HIDE DEF r
  <2>3. \A i \in 1..(1 + Len(s)) : i <= 1 => i = 1
    BY <1>1
  <2> QED
    BY <2>1, <2>2, <2>3
<1>3. DOMAIN r = 1..(1 + Len(s))
  BY <1>2, LenProperties
<1> HIDE DEF r
<1>4. IsInjective(r)
  <2>1. \A i \in DOMAIN s : s[i] # u
    BY DEF ToSet
  <2> SUFFICES ASSUME NEW i \in DOMAIN r, NEW j \in DOMAIN r, r[i] = r[j] PROVE i = j
    BY DEF IsInjective
  <2>2. ASSUME NEW x \in DOMAIN r PROVE (x = 1 /\ r[x] = u) \/ (x - 1 \in DOMAIN s /\ r[x] = s[x - 1])
    BY <1>1, <1>2, <1>3
  <2>3. CASE i = 1 \/ j = 1
    BY <2>1, <2>2, <2>3, <1>1, <1>2, <1>3
  <2>4. CASE i # 1 /\ j # 1
    <3>1. i - 1 \in DOMAIN s /\ j - 1 \in DOMAIN s /\ s[i - 1] = s[j - 1]
      BY <2>2, <2>4
    <3>2. i - 1 = j - 1
      BY <3>1 DEF IsInjective
    <3> QED
      BY <3>2, <1>1, <1>3
  <2> QED
    BY <2>3, <2>4
<1>5. ToSet(r) = ToSet(s) \cup {u}
  <2>1. \A i \in DOMAIN r : r[i] \in ToSet(s) \cup {u}
    BY <1>1, <1>2, <1>3 DEF ToSet
  <2>2. ASSUME NEW i \in DOMAIN s PROVE s[i] \in ToSet(r)
    <3>1. i + 1 \in DOMAIN r /\ r[i + 1] = s[i]
      BY <1>1, <1>2, <1>3
    <3> QED
      BY <3>1 DEF ToSet
  <2>3. u \in ToSet(r)
    <3>1. 1 \in DOMAIN r /\ r[1] = u
      BY <1>1, <1>2, <1>3
    <3> QED
      BY <3>1 DEF ToSet
  <2> QED
    BY <2>1, <2>2, <2>3 DEF ToSet
<1>6. r # <<>> /\ Head(r) = u
  <2>1. r # <<>>
    BY <1>1, <1>2, EmptySeq
  <2> QED
    BY <1>1, <1>2, <2>1, HeadTailProperties
<1> QED
  BY <1>2, <1>4, <1>5, <1>6 DEF r
=============================================================================
