------------------------ MODULE GateDispatch_proofs ------------------------
(***************************************************************************)
(* Proofs about GateDispatch, for any rows, callers, gates and paths.       *)
(*                                                                          *)
(* A run that has its dispatch_key, and a row whose claim is awaited, is the*)
(* one _gate_waiters names for its group (RepresentInv): the table is       *)
(* written for another row only when the named one is neither, and a row    *)
(* leaves it only once it is neither.                                       *)
(*                                                                          *)
(* A gate counts just its holders, and the charges of those its own count   *)
(* let in; its line holds just those who wait at it, each once, and its     *)
(* head does not fit, unless holders with a ticket are only tallied there:  *)
(* they leave without a grant (GateFits).                                   *)
(* That holds again after _grant_waiters, a loop: each of its rounds lets   *)
(* the head in and counts it, so what is let in is a first part of the line *)
(* and the loop ends with a head that does not fit (GrantingServes).        *)
(***************************************************************************)
EXTENDS GateDispatch, DataInduction

USE DEF Stage

DispatchTypeOK ==
  /\ pass \in [on : BOOLEAN, todo : SUBSET Row, placed : SUBSET Group, claiming : Row \cup {NoRow}]
  /\ waiter \in [Group -> Row \cup {NoRow}]
  /\ key \in [Row -> BOOLEAN]
  /\ pc \in [User -> Stage]

RepresentInv ==
  /\ \A r \in Row : key[r] => Running(r) /\ waiter[Path[r]] = r
  /\ pass.claiming # NoRow => ~Running(pass.claiming) /\ waiter[Path[pass.claiming]] = pass.claiming

RInv == DispatchTypeOK /\ RepresentInv
-----------------------------------------------------------------------------
LEMMA InitRInv == Init => RInv
  BY GateAssumption DEF Init, RInv, DispatchTypeOK, RepresentInv, NoPass, User

\* Giving gates back moves a runner to where, and others from the line at most.
LEMMA Withdrawing ==
  ASSUME DispatchTypeOK, NEW u \in User, NEW where \in {"between", "over"}, Withdraw(u, where)
  PROVE  /\ pc' \in [User -> Stage]
         /\ pc'[u] = where
         /\ \A v \in User : v # u => (Running(v)' <=> Running(v))
  BY DEF DispatchTypeOK, Withdraw, Woken, Running

\* Leaving the group gives the key up with the place.
LEMMA Leaving ==
  ASSUME DispatchTypeOK, NEW u \in User, LeaveGroup(u)
  PROVE  /\ key' \in [Row -> BOOLEAN] /\ waiter' \in [Group -> Row \cup {NoRow}]
         /\ \A r \in Row : key'[r] => key[r]
         /\ \A g \in Group : waiter'[g] = waiter[g] \/ (u \in Row /\ waiter[g] = u /\ key[u] /\ ~key'[u])
<1>1. CASE u \in Row /\ key[u]
  BY <1>1 DEF LeaveGroup, DispatchTypeOK
<1>2. CASE ~(u \in Row /\ key[u])
  BY <1>2 DEF LeaveGroup, DispatchTypeOK
<1> QED
  BY <1>1, <1>2

\* A step that keeps whose run is alive, or ends it together with its key.
LEMMA RunnersGoOn ==
  ASSUME RInv, UNCHANGED pass,
         pc' \in [User -> Stage],
         key' \in [Row -> BOOLEAN], waiter' \in [Group -> Row \cup {NoRow}],
         \A r \in Row : key'[r] => key[r] /\ Running(r)',
         pass.claiming # NoRow => ~Running(pass.claiming)',
         \A g \in Group : waiter'[g] = waiter[g]
                          \/ (waiter[g] \in Row /\ waiter[g] # pass.claiming /\ ~key'[waiter[g]])
  PROVE  RInv'
<1>1. \A r \in Row : Path[r] \in Group
  BY DEF Group
<1> QED
  BY <1>1 DEF RInv, DispatchTypeOK, RepresentInv

LEMMA RInvStep == RInv /\ [Next]_vars => RInv'
<1> SUFFICES ASSUME RInv, [Next]_vars PROVE RInv'
  OBVIOUS
<1>t. DispatchTypeOK /\ RepresentInv
  BY DEF RInv
<1>g. \A r \in Row : Path[r] \in Group
  BY DEF Group
<1>u. Row \subseteq User /\ Caller \subseteq User /\ Row \cap Caller = {} /\ NoRow \notin Row
  BY GateAssumption DEF User
<1>1. ASSUME UNCHANGED <<pass, waiter, key, pc>> PROVE RInv'
  BY <1>1, <1>t DEF RInv, DispatchTypeOK, RepresentInv, Running
<1>2. ASSUME NEW u \in User, Defer(u) \/ Enter(u) \/ Tally(u) \/ Knock(u) \/ Admitted(u) \/ Wake(u)
      PROVE  RInv'
  <2>1. UNCHANGED pass /\ Running(u) /\ Running(u)'
        /\ \A v \in User : v # u => pc'[v] = pc[v]
    BY <1>2, <1>t DEF Defer, Enter, Tally, Knock, Admitted, Wake, GoesOn, Advance, Running, DispatchTypeOK, dvars
  <2>2. pc' \in [User -> Stage]
    BY <1>2, <1>t DEF Defer, Enter, Tally, Knock, Admitted, Wake, Advance, DispatchTypeOK
  <2>3. UNCHANGED <<key, waiter>> \/ LeaveGroup(u)
    BY <1>2 DEF Defer, Enter, Tally, Knock, Admitted, Wake, Advance, dvars
  <2> QED
    BY <2>1, <2>2, <2>3, <1>t, <1>u, Leaving, RunnersGoOn DEF RepresentInv, DispatchTypeOK, Running
<1>3. ASSUME NEW u \in User, GiveUp(u)
      PROVE  RInv'
  <2>1. UNCHANGED pass /\ Running(u) /\ Withdraw(u, "between") /\ LeaveGroup(u)
    BY <1>3 DEF GiveUp, Running
  <2> QED
    BY <2>1, <1>t, <1>u, Withdrawing, Leaving, RunnersGoOn DEF RepresentInv, DispatchTypeOK, Running
<1>4. ASSUME NEW u \in User, Retry(u)
      PROVE  RInv'
  BY <1>4, <1>t, <1>u, RunnersGoOn DEF Retry, dvars, RepresentInv, DispatchTypeOK, Running
<1>5. ASSUME NEW u \in User, Interrupted(u)
      PROVE  RInv'
  <2>1. UNCHANGED <<pass, key, waiter>> /\ Running(u) /\ Withdraw(u, "between")
    BY <1>5 DEF Interrupted, dvars, Running
  <2> QED
    BY <2>1, <1>t, <1>u, Withdrawing, RunnersGoOn DEF RepresentInv, DispatchTypeOK, Running
\* A run that is dropped: forget_local, and its key with it.
<1>d. ASSUME NEW r \in Row, Running(r), UNCHANGED pass,
             pc' \in [User -> Stage],
             \A v \in User : v # r => (Running(v)' <=> Running(v)), ~Running(r)',
             Forget(r), key' = [key EXCEPT ![r] = FALSE]
      PROVE  RInv'
  <2>1. key' \in [Row -> BOOLEAN] /\ ~key'[r] /\ \A x \in Row : key'[x] => key[x]
    BY <1>d, <1>t DEF DispatchTypeOK
  <2>2. waiter' \in [Group -> Row \cup {NoRow}]
        /\ \A g \in Group : waiter'[g] = waiter[g] \/ waiter[g] = r
    BY <1>d, <1>t DEF DispatchTypeOK, Forget
  <2>3. pass.claiming # r
    BY <1>d, <1>t, <1>u DEF RepresentInv
  <2>4. \A x \in Row : key'[x] => Running(x)'
    BY <2>1, <1>d, <1>t, <1>u DEF RepresentInv
  <2>5. pass.claiming # NoRow => ~Running(pass.claiming)'
    BY <2>3, <1>d, <1>t, <1>u DEF RepresentInv, DispatchTypeOK
  <2> QED
    BY <1>d, <2>1, <2>2, <2>3, <2>4, <2>5, RunnersGoOn
\* A caller that ends has neither key nor place.
<1>c. ASSUME NEW c \in Caller, UNCHANGED <<pass, key, waiter>>,
             pc' \in [User -> Stage],
             \A v \in User : v # c => (Running(v)' <=> Running(v))
      PROVE  RInv'
  BY <1>c, <1>t, <1>u, RunnersGoOn DEF RepresentInv, DispatchTypeOK
<1>6. ASSUME NEW u \in User, Answered(u) \/ Refused(u)
      PROVE  RInv'
  <2>1. Running(u) /\ UNCHANGED pass /\ Withdraw(u, "over") /\ Leaves(u, TRUE)
    BY <1>6 DEF Answered, Refused, Running
  <2>2. ~Running(u)'
    BY <2>1, <1>t, Withdrawing DEF Running
  <2>3. CASE u \in Row
    BY <2>1, <2>2, <2>3, <1>t, <1>d, Withdrawing DEF Leaves
  <2>4. CASE u \notin Row
    BY <2>1, <2>4, <1>t, <1>c, Withdrawing DEF Leaves, User
  <2> QED
    BY <2>3, <2>4
<1>7. ASSUME NEW u \in User, HandleStop(u)
      PROVE  RInv'
  <2>1. Running(u) /\ UNCHANGED pass
    BY <1>7 DEF HandleStop, dvars, Running
  <2>2. /\ pc' \in [User -> Stage]
        /\ \A v \in User : v # u => (Running(v)' <=> Running(v))
    BY <1>7, <1>t DEF HandleStop, DispatchTypeOK, Running
  <2>3. CASE stop[u] = "yield"
    <3>1. UNCHANGED <<key, waiter>> /\ Running(u)'
      BY <1>7, <2>3, <1>t DEF HandleStop, dvars, Running, DispatchTypeOK
    <3> QED
      BY <2>1, <2>2, <3>1, <1>t, <1>u, RunnersGoOn DEF RepresentInv, DispatchTypeOK
  <2>4. CASE stop[u] # "yield"
    <3>1. ~Running(u)' /\ Leaves(u, stop[u] = "cancel")
      BY <1>7, <2>4, <1>t DEF HandleStop, Running, DispatchTypeOK
    <3>2. CASE u \in Row
      BY <2>1, <2>2, <3>1, <3>2, <1>d DEF Leaves
    <3>3. CASE u \notin Row
      BY <2>1, <2>2, <3>1, <3>3, <1>c DEF Leaves, User
    <3> QED
      BY <3>2, <3>3
  <2> QED
    BY <2>3, <2>4
<1>9. ASSUME NEW r \in Row, CancelQueued(r)
      PROVE  RInv'
  <2>1. /\ ~Running(r) /\ pass.claiming # r /\ Forget(r) /\ UNCHANGED <<pass, key, pc>>
    BY <1>9 DEF CancelQueued, gvars
  <2>2. ~key[r]
    BY <2>1, <1>t DEF RepresentInv
  <2>3. waiter' \in [Group -> Row \cup {NoRow}]
        /\ \A g \in Group : waiter'[g] = waiter[g] \/ waiter[g] = r
    BY <2>1, <1>t DEF DispatchTypeOK, Forget
  <2> QED
    BY <2>1, <2>2, <2>3, <1>t, RunnersGoOn DEF DispatchTypeOK, RepresentInv, Running
<1>10. ASSUME NEW c \in Caller, Arrive(c) \/ CallerGone(c)
       PROVE  RInv'
  <2>1. UNCHANGED <<pass, key, waiter>>
    BY <1>10 DEF Arrive, CallerGone, dvars
  <2>2. CASE Arrive(c)
    BY <2>1, <2>2, <1>t, <1>u, <1>c DEF Arrive, DispatchTypeOK, Running
  <2>3. CASE CallerGone(c)
    BY <2>1, <2>3, <1>t, <1>u, <1>c, Withdrawing DEF CallerGone
  <2> QED
    BY <1>10, <2>2, <2>3
<1>11. ASSUME PassStarts \/ PassEnds
       PROVE  RInv'
  <2>1. UNCHANGED <<waiter, key, pc>>
    BY <1>11 DEF PassStarts, PassEnds, gvars
  <2>2. Scanned \subseteq Row
    BY DEF Scanned, Due
  <2>3. \/ pass' = [on |-> TRUE, todo |-> Scanned, placed |-> {}, claiming |-> NoRow]
        \/ pass' = [on |-> FALSE, todo |-> {}, placed |-> {}, claiming |-> NoRow]
    BY <1>11 DEF PassStarts, PassEnds, NoPass
  <2>4. pass' \in [on : BOOLEAN, todo : SUBSET Row, placed : SUBSET Group, claiming : Row \cup {NoRow}]
        /\ pass'.claiming = NoRow
    <3>1. CASE pass' = [on |-> TRUE, todo |-> Scanned, placed |-> {}, claiming |-> NoRow]
      BY <2>2, <3>1
    <3>2. CASE pass' = [on |-> FALSE, todo |-> {}, placed |-> {}, claiming |-> NoRow]
      BY <3>2
    <3> QED
      BY <2>3, <3>1, <3>2
  <2> QED
    BY <2>1, <2>4, <1>t DEF RInv, DispatchTypeOK, RepresentInv, Running
<1>12. ASSUME PassClaims
       PROVE  RInv'
  <2>1. PICK r \in pass.todo :
          /\ ~Skipped(r)
          /\ pass' = [pass EXCEPT
               !.claiming = r, !.todo = {s \in @ : s > r},
               !.placed = @ \cup {Path[s] : s \in {x \in pass.todo : x < r /\ ~Running(x)
                                                         /\ Represented(Path[x])}} \cup {Path[r]}]
          /\ waiter' = [waiter EXCEPT ![Path[r]] = r]
    BY <1>12 DEF PassClaims
  <2>2. r \in Row /\ ~Running(r) /\ ~Represented(Path[r]) /\ Path[r] \in Group
    BY <2>1, <1>t, <1>g DEF Skipped, DispatchTypeOK
  <2>3. pass'.claiming = r /\ UNCHANGED <<key, pc>>
    BY <1>12, <2>1, <1>t DEF PassClaims, gvars, DispatchTypeOK
  <2>4. pass' \in [on : BOOLEAN, todo : SUBSET Row, placed : SUBSET Group, claiming : Row \cup {NoRow}]
    <3> DEFINE p == {Path[s] : s \in {x \in pass.todo : x < r /\ ~Running(x) /\ Represented(Path[x])}}
    <3>1. p \subseteq Group /\ pass.todo \subseteq Row
      BY <1>t, <1>g DEF DispatchTypeOK
    <3>2. pass' = [pass EXCEPT !.claiming = r, !.todo = {s \in @ : s > r},
                               !.placed = @ \cup p \cup {Path[r]}]
      BY <2>1
    <3> HIDE DEF p
    <3>3. pass' = [on |-> pass.on, todo |-> {s \in pass.todo : s > r},
                   placed |-> pass.placed \cup p \cup {Path[r]}, claiming |-> r]
      BY <3>2, <1>t DEF DispatchTypeOK
    <3>4. pass.placed \subseteq Group /\ pass.on \in BOOLEAN
      BY <1>t DEF DispatchTypeOK
    <3> QED
      BY <2>2, <3>1, <3>3, <3>4
  <2>5. \A x \in Row : key[x] => Path[x] # Path[r]
    BY <2>2, <1>t, <1>u DEF RepresentInv, Represented
  <2>6. waiter' \in [Group -> Row \cup {NoRow}] /\ waiter'[Path[r]] = r
        /\ \A g \in Group : g # Path[r] => waiter'[g] = waiter[g]
    BY <2>1, <2>2, <1>t DEF DispatchTypeOK
  <2> QED
    BY <2>2, <2>3, <2>4, <2>5, <2>6, <1>t, <1>g DEF RInv, DispatchTypeOK, RepresentInv, Running
<1>13. ASSUME ClaimAnswered
       PROVE  RInv'
  <2> DEFINE r == pass.claiming
  <2>1. r # NoRow /\ r \in Row /\ ~Running(r) /\ waiter[Path[r]] = r /\ ~key[r]
    BY <1>13, <1>t DEF ClaimAnswered, RepresentInv, DispatchTypeOK
  <2>2. CASE UNCHANGED waiter /\ pc' = [pc EXCEPT ![r] = "start"] /\ key' = [key EXCEPT ![r] = TRUE]
             /\ pass' = [pass EXCEPT !.claiming = NoRow]
    <3>1. pass'.claiming = NoRow /\ DispatchTypeOK'
      BY <2>1, <2>2, <1>t, <1>u DEF DispatchTypeOK
    <3>2. \A x \in Row : key'[x] => Running(x)' /\ waiter[Path[x]] = x
      BY <2>1, <2>2, <1>t, <1>u DEF DispatchTypeOK, RepresentInv, Running
    <3> QED
      BY <2>2, <3>1, <3>2 DEF RInv, RepresentInv
  <2>3. CASE Forget(r) /\ UNCHANGED <<pc, key>>
             /\ pass' = [pass EXCEPT !.claiming = NoRow, !.placed = @ \ {Path[r]}]
    <3>1. pass'.claiming = NoRow
          /\ pass' \in [on : BOOLEAN, todo : SUBSET Row, placed : SUBSET Group, claiming : Row \cup {NoRow}]
      BY <2>3, <1>t DEF DispatchTypeOK
    <3>2. waiter' \in [Group -> Row \cup {NoRow}]
          /\ \A g \in Group : waiter'[g] = waiter[g] \/ waiter[g] = r
      BY <2>3, <1>t DEF DispatchTypeOK, Forget
    <3> QED
      BY <2>1, <2>3, <3>1, <3>2, <1>t, <1>g DEF RInv, DispatchTypeOK, RepresentInv, Running
  <2>4. CASE UNCHANGED <<pc, key, waiter>> /\ pass' = NoPass
    BY <2>4, <1>t DEF NoPass, RInv, DispatchTypeOK, RepresentInv, Running
  <2> QED
    BY <1>13, <2>2, <2>3, <2>4 DEF ClaimAnswered
<1>14. CASE UNCHANGED vars
  BY <1>14, <1>1 DEF vars
<1>8. ASSUME NEW u \in User, CancelRun(u) \/ Yield(u) PROVE RInv'
  BY <1>8, <1>1 DEF CancelRun, Yield, Stop
<1>15. ASSUME NEW r \in Row,
              LeaseLost(r) \/ Launch(r) \/ TakenElsewhere(r) \/ BackFromElsewhere(r)
       PROVE  RInv'
  BY <1>15, <1>1 DEF LeaseLost, Stop, Launch, TakenElsewhere, BackFromElsewhere, gvars
<1>16. ASSUME StaggerEnds \/ ChatTurns PROVE RInv'
  BY <1>16, <1>1 DEF StaggerEnds, ChatTurns, dvars, gvars
<1> QED
  BY <1>2, <1>3, <1>4, <1>5, <1>6, <1>7, <1>9, <1>10, <1>11, <1>12, <1>13, <1>14, <1>8, <1>15, <1>16
     DEF Next, Runs, Passes

LEMMA RInvAlways == Spec => []RInv
  BY InitRInv, RInvStep, PTL DEF Spec

-----------------------------------------------------------------------------
\* dispatch_once: of the background runs of a gate group that were never
\* admitted, at most one is being claimed or waits for its gates.
THEOREM OneRepresentativeAlways == Spec => []OneRepresentative
<1>1. RInv => OneRepresentative
  <2> SUFFICES ASSUME RInv, NEW g \in Group
               PROVE  Cardinality({r \in Row : Path[r] = g /\ (key[r] \/ pass.claiming = r)}) <= 1
    BY DEF OneRepresentative
  <2> DEFINE T == {r \in Row : Path[r] = g /\ (key[r] \/ pass.claiming = r)}
  <2>1. T \subseteq {waiter[g]}
    BY GateAssumption DEF RInv, RepresentInv
  <2>2. IsFiniteSet({waiter[g]}) /\ Cardinality({waiter[g]}) = 1
    BY FS_Singleton
  <2> HIDE DEF T
  <2>3. Cardinality(T) <= 1
    BY <2>1, <2>2, FS_Subset
  <2> QED
    BY <2>3 DEF T
<1> QED
  BY <1>1, RInvAlways, PTL

-----------------------------------------------------------------------------
(* What the holders of a gate are charged.                                  *)

SumOf(k, S) == MapThenSumSet(LAMBDA u : Charge(k, u), S)

LEMMA ChargeType == ASSUME NEW k \in Gate, NEW u \in User PROVE Charge(k, u) \in Nat /\ Charge(k, u) <= Budget[k]
  BY GateAssumption DEF Charge

\* The sum of the charges, one holder after another.
LEMMA SumOfLoop ==
  ASSUME NEW k \in Gate, NEW S \in SUBSET User, IsFiniteSet(S),
         NEW F, Sums(F, S, [u \in S |-> Charge(k, u)])
  PROVE  SumOf(k, S) = F[S]
<1> DEFINE c(T) == CHOOSE x \in T : TRUE
           w == [u \in S |-> Charge(k, u)]
           Is(f) == f = [T \in SUBSET S |-> IF T = {} THEN 0 ELSE Charge(k, c(T)) + f[T \ {c(T)}]]
           g == CHOOSE f : Is(f)
<1>1. w \in [S -> Nat] /\ Sums(F, S, w)
  BY ChargeType
<1>2. \A T \in SUBSET S : T # {} => c(T) \in S
  OBVIOUS
<1>3. ASSUME NEW f PROVE Is(f) <=> SumLoop(f, S, w)
  <2>1. \A T \in SUBSET S : T # {} => w[c(T)] = Charge(k, c(T))
    BY <1>2
  <2>2. SumLoop(f, S, w) <=> f = [T \in SUBSET S |-> IF T = {} THEN 0 ELSE w[c(T)] + f[T \ {c(T)}]]
    BY DEF SumLoop
  <2> HIDE DEF w, c
  <2> QED BY <2>1, <2>2
<1> HIDE DEF Is, w
<1>4. SumLoop(F, S, w) /\ \A f : SumLoop(f, S, w) => f = F
  BY <1>1, SumLoopIs
<1>5. Is(g)
  BY <1>3, <1>4
<1>6. g[S] = F[S]
  <2> HIDE DEF g
  <2> QED BY <1>3, <1>4, <1>5
<1>7. SumOf(k, S) = g[S]
  BY DEF SumOf, MapThenSumSet, MapThenFoldSet, Is
<1> QED
  BY <1>6, <1>7

LEMMA SumOfAdd ==
  ASSUME NEW k \in Gate, NEW S \in SUBSET User, IsFiniteSet(S)
  PROVE  /\ SumOf(k, {}) = 0
         /\ SumOf(k, S) \in Nat
         /\ \A u \in User \ S : SumOf(k, S \cup {u}) = SumOf(k, S) + Charge(k, u)
<1>1. PICK E : Sums(E, S, [u \in S |-> Charge(k, u)])
  <2>1. [u \in S |-> Charge(k, u)] \in [S -> Nat]
    BY ChargeType
  <2> QED BY <2>1, SumsExist
<1>2. SumOf(k, S) = E[S] /\ E[S] \in Nat
  BY <1>1, SumOfLoop DEF Sums
<1>3. SumOf(k, {}) = 0
  <2>1. Sums([T \in {{}} |-> 0], {}, [u \in {} |-> Charge(k, u)])
    BY DEF Sums
  <2> QED
    BY <2>1, SumOfLoop, FS_EmptySet
<1>4. ASSUME NEW u \in User \ S PROVE SumOf(k, S \cup {u}) = SumOf(k, S) + Charge(k, u)
  <2> DEFINE W == S \cup {u}
  <2>1. IsFiniteSet(W) /\ [x \in W |-> Charge(k, x)] \in [W -> Nat]
    BY ChargeType, FS_AddElement
  <2>2. PICK F : Sums(F, W, [x \in W |-> Charge(k, x)])
    BY <2>1, SumsExist
  <2>3. SumOf(k, W) = F[W]
    BY <2>1, <2>2, SumOfLoop
  <2>4. F[W] = F[S] + Charge(k, u)
    BY <2>2 DEF Sums
  <2>5. Sums([T \in SUBSET S |-> F[T]], S, [x \in S |-> Charge(k, x)])
    BY <2>2 DEF Sums
  <2>6. SumOf(k, S) = F[S]
    BY <2>5, SumOfLoop
  <2> QED
    BY <2>3, <2>4, <2>6
<1> QED
  BY <1>2, <1>3, <1>4

-----------------------------------------------------------------------------
\* Those of H whom the gate's own count lets in.
CountedOf(k, H) == {u \in H : ~Tallied(k, u)}

\* The gate counts the users H, and those it let in by its count fit its limits.
Counts(k, g, H) ==
  /\ H \in SUBSET User /\ IsFiniteSet(H)
  /\ g.inFlight = Cardinality(H) /\ Cardinality(CountedOf(k, H)) <= Concurrent[k]
  /\ g.used = SumOf(k, CountedOf(k, H)) /\ (Budget[k] > 0 => g.used <= Budget[k])

\* Nobody in front can be let in.
Stuck(k, g) == g.line # <<>> => ~Admissible(k, g, Head(g.line))

LEMMA CountedIs ==
  ASSUME NEW k \in Gate, NEW g \in GateState, NEW u \in User
  PROVE  /\ Counted(k, g, u) \in GateState
         /\ Counted(k, g, u).line = g.line
         /\ Counted(k, g, u).inFlight = g.inFlight + 1
         /\ Counted(k, g, u).used = g.used + Charge(k, u)
<1>1. PICK c \in Nat : c = Charge(k, u)
  BY ChargeType
<1>2. g.line \in Seq(User) /\ g.inFlight \in Int /\ g.used \in Int
  BY DEF GateState
<1>3. Counted(k, g, u) = [g EXCEPT !.inFlight = @ + 1, !.used = @ + c]
  BY <1>1 DEF Counted
<1>4. Counted(k, g, u) = [line |-> g.line, inFlight |-> g.inFlight + 1, used |-> g.used + c]
  BY <1>3 DEF GateState
<1>5. g.inFlight + 1 \in Int /\ g.used + c \in Int
  BY <1>2
<1> QED
  BY <1>1, <1>2, <1>4, <1>5 DEF GateState

LEMMA CountedOfIs ==
  ASSUME NEW k \in Gate, NEW H \in SUBSET User, IsFiniteSet(H), NEW u \in User \ H
  PROVE  /\ CountedOf(k, H) \in SUBSET User /\ IsFiniteSet(CountedOf(k, H)) /\ u \notin CountedOf(k, H)
         /\ Cardinality(CountedOf(k, H)) \in Nat /\ Cardinality(CountedOf(k, H)) <= Cardinality(H)
         /\ Cardinality(H) \in Nat
         /\ IsFiniteSet(H \cup {u}) /\ Cardinality(H \cup {u}) = Cardinality(H) + 1
         /\ Cardinality(CountedOf(k, H) \cup {u}) = Cardinality(CountedOf(k, H)) + 1
         /\ CountedOf(k, H \cup {u}) = IF Tallied(k, u) THEN CountedOf(k, H) ELSE CountedOf(k, H) \cup {u}
<1>1. CountedOf(k, H) \subseteq H /\ u \notin CountedOf(k, H)
  BY DEF CountedOf
<1>2. IsFiniteSet(CountedOf(k, H)) /\ Cardinality(CountedOf(k, H)) <= Cardinality(H)
  BY <1>1, FS_Subset
<1>3. CountedOf(k, H \cup {u}) = IF Tallied(k, u) THEN CountedOf(k, H) ELSE CountedOf(k, H) \cup {u}
  BY DEF CountedOf
<1> QED
  BY <1>1, <1>2, <1>3, FS_AddElement, FS_CardinalityType

LEMMA CountsType ==
  ASSUME NEW k \in Gate, NEW g, NEW H, Counts(k, g, H)
  PROVE  g.inFlight \in Nat /\ g.used \in Nat
<1>1. CountedOf(k, H) \in SUBSET User /\ IsFiniteSet(CountedOf(k, H))
  <2>1. CountedOf(k, H) \subseteq H /\ H \subseteq User /\ IsFiniteSet(H)
    BY DEF Counts, CountedOf
  <2> QED BY <2>1, FS_Subset
<1>2. Cardinality(H) \in Nat /\ SumOf(k, CountedOf(k, H)) \in Nat
  BY <1>1, FS_CardinalityType, SumOfAdd DEF Counts
<1> QED
  BY <1>2 DEF Counts

LEMMA CountsOneMore ==
  ASSUME NEW k \in Gate, NEW g \in GateState, NEW H, Counts(k, g, H),
         NEW u \in User \ H, ~Tallied(k, u), Admissible(k, g, u)
  PROVE  Counts(k, Counted(k, g, u), H \cup {u})
<1>1. Charge(k, u) \in Nat /\ Charge(k, u) <= Budget[k] /\ Concurrent[k] \in Nat /\ Budget[k] \in Nat
  BY ChargeType, GateAssumption
<1> DEFINE h == Counted(k, g, u)
           O == CountedOf(k, H)
<1>2. h.inFlight = g.inFlight + 1 /\ h.used = g.used + Charge(k, u) /\ H \cup {u} \in SUBSET User
  BY CountedIs DEF Counts
<1>3. /\ O \in SUBSET User /\ IsFiniteSet(O) /\ u \notin O /\ Cardinality(O) \in Nat
      /\ Cardinality(O) <= Cardinality(H) /\ Cardinality(H) \in Nat
      /\ IsFiniteSet(H \cup {u}) /\ Cardinality(H \cup {u}) = Cardinality(H) + 1
      /\ Cardinality(O \cup {u}) = Cardinality(O) + 1 /\ CountedOf(k, H \cup {u}) = O \cup {u}
  <2>1. H \in SUBSET User /\ IsFiniteSet(H)
    BY DEF Counts
  <2>2. CountedOf(k, H \cup {u}) = O \cup {u}
    BY DEF CountedOf
  <2> QED BY <2>1, <2>2, CountedOfIs
<1>4. SumOf(k, O \cup {u}) = SumOf(k, O) + Charge(k, u) /\ SumOf(k, O) \in Nat
  <2> HIDE DEF O
  <2> QED BY <1>3, SumOfAdd
<1>5. g.inFlight < Concurrent[k] /\ (Budget[k] > 0 => g.used + Charge(k, u) <= Budget[k])
  <2>1. CASE g.inFlight > 0
    BY <2>1 DEF Admissible
  <2>2. CASE ~(g.inFlight > 0)
    <3>1. O = {}
      BY <1>3, <2>2, FS_EmptySet DEF Counts
    <3>2. g.used = 0
      BY <3>1, SumOfAdd, FS_EmptySet DEF Counts
    <3> QED
      BY <1>1, <3>2 DEF Admissible
  <2> QED
    BY <2>1, <2>2
<1>6. g.inFlight = Cardinality(H) /\ g.used = SumOf(k, O)
  BY DEF Counts
<1> HIDE DEF h, O
<1>7. /\ h.inFlight = Cardinality(H \cup {u}) /\ Cardinality(O \cup {u}) <= Concurrent[k]
      /\ h.used = SumOf(k, O \cup {u}) /\ (Budget[k] > 0 => h.used <= Budget[k])
  BY <1>1, <1>2, <1>3, <1>4, <1>5, <1>6
<1> QED
  BY <1>2, <1>3, <1>7 DEF Counts, h

\* One round of _grant_waiters.
LEMMA GrantHeadIs ==
  ASSUME NEW k \in Gate, NEW h \in GateState
  PROVE  /\ GrantHead(k, h) \in GateState
         /\ IF h.line # <<>> /\ Admissible(k, h, Head(h.line))
            THEN /\ Head(h.line) \in User
                 /\ GrantHead(k, h).line = Tail(h.line)
                 /\ GrantHead(k, h).inFlight = Counted(k, h, Head(h.line)).inFlight
                 /\ GrantHead(k, h).used = Counted(k, h, Head(h.line)).used
                 /\ Len(GrantHead(k, h).line) < Len(h.line)
            ELSE GrantHead(k, h) = h
<1>1. CASE h.line # <<>> /\ Admissible(k, h, Head(h.line))
  <2>1. h.line \in Seq(User)
    BY DEF GateState
  <2>2. Head(h.line) \in User /\ Tail(h.line) \in Seq(User) /\ Len(Tail(h.line)) < Len(h.line)
    BY <1>1, <2>1, HeadTailProperties, EmptySeq
  <2> DEFINE c == Counted(k, h, Head(h.line))
  <2>3. c \in GateState /\ c.line = h.line
    BY <2>2, CountedIs
  <2>4. GrantHead(k, h) = [c EXCEPT !.line = Tail(@)]
    BY <1>1 DEF GrantHead
  <2> HIDE DEF c
  <2>5. GrantHead(k, h) \in GateState /\ GrantHead(k, h).line = Tail(h.line)
        /\ GrantHead(k, h).inFlight = c.inFlight /\ GrantHead(k, h).used = c.used
    BY <2>2, <2>3, <2>4 DEF GateState
  <2> QED
    BY <1>1, <2>2, <2>5 DEF c
<1>2. CASE ~(h.line # <<>> /\ Admissible(k, h, Head(h.line)))
  BY <1>2 DEF GrantHead
<1> QED
  BY <1>1, <1>2

\* The loop ends, in a state that one more round leaves alone, and in every set
\* of states that the rounds keep.
LEMMA GrantingEnds ==
  ASSUME NEW k \in Gate, NEW g \in GateState,
         NEW I \in SUBSET GateState, g \in I, \A h \in I : GrantHead(k, h) \in I
  PROVE  Granting(k, g) \in I /\ GrantHead(k, Granting(k, g)) = Granting(k, g)
<1> DEFINE round == [h \in GateState |-> GrantHead(k, h)]
           size == [h \in GateState |-> Len(h.line)]
           Is(f) == f = [h \in GateState |-> LET t == GrantHead(k, h) IN IF t = h THEN h ELSE f[t]]
           Pump == CHOOSE f : Is(f)
<1>1. round \in [GateState -> GateState] /\ size \in [GateState -> Nat]
  <2>1. \A h \in GateState : GrantHead(k, h) \in GateState
    BY GrantHeadIs
  <2>2. \A h \in GateState : Len(h.line) \in Nat
    BY LenProperties DEF GateState
  <2> QED
    BY <2>1, <2>2
<1>2. \A h \in GateState : round[h] # h => size[round[h]] < size[h]
  <2> SUFFICES ASSUME NEW h \in GateState, GrantHead(k, h) # h PROVE size[GrantHead(k, h)] < size[h]
    OBVIOUS
  <2> QED
    BY GrantHeadIs
<1>3. \A f : Is(f) <=> f = [h \in GateState |-> IF round[h] = h THEN h ELSE f[round[h]]]
  <2>1. \A h \in GateState : round[h] = GrantHead(k, h)
    OBVIOUS
  <2> HIDE DEF round
  <2> QED BY <2>1
<1>4. Pump = [h \in GateState |-> IF round[h] = h THEN h ELSE Pump[round[h]]]
  <2>1. \E f : Is(f)
    <3> HIDE DEF Is, round
    <3> QED BY <1>1, <1>3, PumpExists
  <2>2. Is(Pump)
    <3> HIDE DEF Is
    <3> QED BY <2>1
  <2> HIDE DEF Is, round, Pump
  <2> QED BY <1>3, <2>2
<1>5. ClosedUnder(round, I)
  BY DEF ClosedUnder
<1>6. Pump[g] \in I /\ round[Pump[g]] = Pump[g]
  <2> HIDE DEF round, Pump, size
  <2> QED BY <1>1, <1>2, <1>4, <1>5, PumpEnds
<1>7. Pump[g] = Granting(k, g)
  BY DEF Granting
<1> HIDE DEF Pump
<1> QED
  BY <1>6, <1>7

\* _grant_waiters on a gate that counts H: it ends with a head that cannot be
\* let in, has let in a first part of the line, and counts it too.
LEMMA GrantingServes ==
  ASSUME NEW k \in Gate, NEW g \in GateState, NEW H, Counts(k, g, H),
         H \cap ToSet(g.line) = {}, IsInjective(g.line), \A v \in ToSet(g.line) : ~Tallied(k, v)
  PROVE  /\ Granting(k, g) \in GateState /\ Stuck(k, Granting(k, g))
         /\ \E n \in 0..Len(g.line) :
              /\ Suffix(Granting(k, g).line, g.line, n)
              /\ Counts(k, Granting(k, g), H \cup {g.line[i] : i \in 1..n})
<1> DEFINE Foremost(n) == {g.line[i] : i \in 1..n}
           I == {h \in GateState : \E n \in 0..Len(g.line) :
                   Suffix(h.line, g.line, n) /\ Counts(k, h, H \cup Foremost(n))}
<1>1. g.line \in Seq(User) /\ Len(g.line) \in Nat /\ DOMAIN g.line = 1..Len(g.line)
  BY LenProperties DEF GateState
<1>2. g \in I
  <2>1. Foremost(0) = {}
    OBVIOUS
  <2>2. Suffix(g.line, g.line, 0) /\ 0 \in 0..Len(g.line)
    BY <1>1 DEF Suffix
  <2>3. Counts(k, g, H \cup Foremost(0))
    BY <2>1
  <2> HIDE DEF Foremost
  <2> QED
    BY <2>2, <2>3
<1>3. ASSUME NEW h \in I PROVE GrantHead(k, h) \in I
  <2>0. h \in GateState
    OBVIOUS
  <2>1. PICK n \in 0..Len(g.line) : Suffix(h.line, g.line, n) /\ Counts(k, h, H \cup Foremost(n))
    OBVIOUS
  <2>2. CASE h.line # <<>> /\ Admissible(k, h, Head(h.line))
    <3> DEFINE u == Head(h.line)
               G == GrantHead(k, h)
    <3>1. h.line \in Seq(User)
      BY <2>0 DEF GateState
    <3>2. n + 1 \in 1..Len(g.line) /\ u = g.line[n + 1] /\ Suffix(Tail(h.line), g.line, n + 1)
      BY <1>1, <2>1, <2>2, <3>1, SuffixTail
    <3>3. u \in User /\ G \in GateState /\ G.line = Tail(h.line)
          /\ G.inFlight = Counted(k, h, u).inFlight /\ G.used = Counted(k, h, u).used
      BY <2>0, <2>2, GrantHeadIs
    <3>4. u \notin H /\ u \notin Foremost(n) /\ ~Tallied(k, u)
      <4>1. u \in ToSet(g.line)
        BY <1>1, <3>2 DEF ToSet
      <4>2. ASSUME NEW i \in 1..n, g.line[i] = u PROVE FALSE
        <5>1. i \in DOMAIN g.line /\ n + 1 \in DOMAIN g.line /\ i # n + 1
          BY <1>1, <3>2
        <5> QED
          BY <3>2, <4>2, <5>1 DEF IsInjective
      <4> QED
        BY <4>1, <4>2
    <3>5. (H \cup Foremost(n)) \cup {u} = H \cup Foremost(n + 1)
      <4>1. 1..(n + 1) = (1..n) \cup {n + 1}
        BY <3>2
      <4> QED
        BY <4>1, <3>2
    <3> HIDE DEF u, Foremost
    <3>6. Counts(k, Counted(k, h, u), H \cup Foremost(n + 1))
      BY <2>0, <2>1, <2>2, <3>3, <3>4, <3>5, CountsOneMore DEF u
    <3>7. Counts(k, G, H \cup Foremost(n + 1))
      BY <3>3, <3>6 DEF Counts
    <3>8. n + 1 \in 0..Len(g.line) /\ Suffix(G.line, g.line, n + 1) /\ G \in GateState
      BY <1>1, <3>2, <3>3
    <3> HIDE DEF G
    <3>9. G \in I
      BY <3>7, <3>8
    <3> QED
      BY <3>9 DEF G
  <2>3. CASE ~(h.line # <<>> /\ Admissible(k, h, Head(h.line)))
    BY <2>0, <2>3, GrantHeadIs
  <2> QED
    BY <2>2, <2>3
<1>4. Granting(k, g) \in I /\ GrantHead(k, Granting(k, g)) = Granting(k, g)
  <2> I \in SUBSET GateState
    OBVIOUS
  <2> HIDE DEF I
  <2> QED BY <1>2, <1>3, GrantingEnds
<1>5. Stuck(k, Granting(k, g))
  <2>1. Granting(k, g) \in GateState
    BY <1>4
  <2>2. Len(Granting(k, g).line) \in Nat
    BY <2>1, LenProperties DEF GateState
  <2> QED
    BY <1>4, <2>1, <2>2, GrantHeadIs DEF Stuck
<1> QED
  BY <1>4, <1>5

LEMMA JustReleasedIs ==
  ASSUME NEW k \in Gate, NEW u \in User, NEW g \in GateState
  PROVE  /\ JustReleased(k, g, u) \in GateState
         /\ JustReleased(k, g, u).line = g.line
         /\ JustReleased(k, g, u).inFlight = g.inFlight - 1
         /\ JustReleased(k, g, u).used = g.used - Charge(k, u)
<1>1. PICK c \in Nat : c = Charge(k, u)
  BY ChargeType
<1>2. g.line \in Seq(User) /\ g.inFlight \in Int /\ g.used \in Int
  BY DEF GateState
<1>3. JustReleased(k, g, u) = [g EXCEPT !.inFlight = @ - 1, !.used = @ - c]
  BY <1>1 DEF JustReleased
<1>4. JustReleased(k, g, u) = [line |-> g.line, inFlight |-> g.inFlight - 1, used |-> g.used - c]
  BY <1>3 DEF GateState
<1>5. g.inFlight - 1 \in Int /\ g.used - c \in Int
  BY <1>2
<1> QED
  BY <1>1, <1>2, <1>4, <1>5 DEF GateState

LEMMA TallyIs ==
  ASSUME NEW g \in GateState
  PROVE  /\ TallyEnters(g) \in GateState /\ TallyEnters(g).line = g.line
         /\ TallyEnters(g).inFlight = g.inFlight + 1 /\ TallyEnters(g).used = g.used
         /\ TallyLeaves(g) \in GateState /\ TallyLeaves(g).line = g.line
         /\ TallyLeaves(g).inFlight = g.inFlight - 1 /\ TallyLeaves(g).used = g.used
<1>1. /\ TallyEnters(g) = [line |-> g.line, inFlight |-> g.inFlight + 1, used |-> g.used]
      /\ TallyLeaves(g) = [line |-> g.line, inFlight |-> g.inFlight - 1, used |-> g.used]
  BY DEF TallyEnters, TallyLeaves, GateState
<1>2. g.line \in Seq(User) /\ g.inFlight \in Int /\ g.used \in Int
  BY DEF GateState
<1> QED
  BY <1>1, <1>2 DEF GateState

LEMMA CountsOneLess ==
  ASSUME NEW k \in Gate, NEW g \in GateState, NEW H, Counts(k, g, H), NEW u \in H,
         NEW h \in GateState, h.inFlight = g.inFlight - 1,
         h.used = IF Tallied(k, u) THEN g.used ELSE g.used - Charge(k, u)
  PROVE  Counts(k, h, H \ {u})
<1> DEFINE I == H \ {u}
           O == CountedOf(k, I)
<1>1. I \in SUBSET User /\ u \in User \ I /\ I \cup {u} = H /\ IsFiniteSet(I)
  BY FS_RemoveElement DEF Counts
<1>2. /\ O \in SUBSET User /\ IsFiniteSet(O) /\ u \notin O /\ Cardinality(O) \in Nat
      /\ Cardinality(H) = Cardinality(I) + 1 /\ Cardinality(I) \in Nat
      /\ Cardinality(O \cup {u}) = Cardinality(O) + 1
      /\ CountedOf(k, H) = IF Tallied(k, u) THEN O ELSE O \cup {u}
  <2> HIDE DEF I
  <2> QED BY <1>1, CountedOfIs
<1>3. SumOf(k, O \cup {u}) = SumOf(k, O) + Charge(k, u) /\ SumOf(k, O) \in Nat
  <2> HIDE DEF O, I
  <2> QED BY <1>1, <1>2, SumOfAdd
<1>4. Charge(k, u) \in Nat /\ Concurrent[k] \in Nat /\ Budget[k] \in Nat
  BY <1>1, ChargeType, GateAssumption
<1>5. /\ g.inFlight = Cardinality(H) /\ Cardinality(CountedOf(k, H)) <= Concurrent[k]
      /\ g.used = SumOf(k, CountedOf(k, H)) /\ (Budget[k] > 0 => g.used <= Budget[k])
  BY DEF Counts
<1> HIDE DEF I, O
<1>6. h.inFlight = Cardinality(I) /\ Cardinality(O) <= Concurrent[k] /\ h.used = SumOf(k, O)
      /\ (Budget[k] > 0 => h.used <= Budget[k])
  <2> DEFINE c == Charge(k, u)
             s == SumOf(k, O)
  <2>1. CASE Tallied(k, u)
    BY <1>2, <1>3, <1>4, <1>5, <2>1
  <2>2. CASE ~Tallied(k, u)
    <3>1. /\ h.used = g.used - c /\ g.used = s + c /\ h.inFlight = g.inFlight - 1
          /\ g.inFlight = Cardinality(I) + 1 /\ Cardinality(O) + 1 <= Concurrent[k]
          /\ Budget[k] > 0 => g.used <= Budget[k]
      BY <1>2, <1>3, <1>5, <2>2
    <3>2. s \in Nat /\ c \in Nat /\ Cardinality(O) \in Nat /\ Cardinality(I) \in Nat
          /\ Concurrent[k] \in Nat /\ Budget[k] \in Nat
      BY <1>2, <1>3, <1>4
    <3> HIDE DEF c, s
    <3>3. h.used = s /\ h.inFlight = Cardinality(I) /\ Cardinality(O) <= Concurrent[k]
      BY <3>1, <3>2
    <3>4. Budget[k] > 0 => h.used <= Budget[k]
      BY <3>1, <3>2, <3>3
    <3> QED
      BY <3>3, <3>4 DEF s
  <2> QED
    BY <2>1, <2>2
<1>7. Counts(k, h, I)
  BY <1>1, <1>6 DEF Counts, O
<1> QED
  BY <1>7 DEF I

-----------------------------------------------------------------------------
(* The invariant of the gates.                                              *)

Waiting(k) == {u \in User : pc[u] = "line" /\ k = NextGate(u)}

LevelInv ==
  \A u \in User :
    /\ level[u] \in 0..Len(Path[u])
    /\ pc[u] \in {"out", "between", "over"} => level[u] = 0
    /\ pc[u] \in {"start", "chat", "door", "line", "granted"} => level[u] < Len(Path[u])
    /\ pc[u] = "door" => NextGate(u) = Door
    /\ pc[u] \in {"line", "granted"} => NextGate(u) \in Gate /\ ~Tallied(NextGate(u), u)

GateFits(k) ==
  /\ Counts(k, gate[k], Holders(k)) /\ (k \notin Seated => Stuck(k, gate[k]))
  /\ IsInjective(gate[k].line) /\ ToSet(gate[k].line) = Waiting(k)

GatesInv ==
  /\ level \in [User -> Nat]
  /\ gate \in [Gate -> [line : Seq(User), inFlight : Nat, used : Nat]]
  /\ LevelInv /\ \A k \in Gate : GateFits(k)

LEMMA PathGates ==
  ASSUME NEW u \in User, NEW l \in 0..Len(Path[u])
  PROVE  /\ {Path[u][i] : i \in 1..l} \subseteq Gate \cup {Door}
         /\ l < Len(Path[u]) => Path[u][l + 1] \in Gate \cup {Door} /\ Path[u][l + 1] \notin {Path[u][i] : i \in 1..l}
         /\ {Path[u][i] : i \in 1..(l + 1)} = {Path[u][i] : i \in 1..l} \cup {Path[u][l + 1]}
         /\ Len(Path[u]) \in Nat \ {0}
<1>1. Path[u] \in Seq(Gate \cup {Door}) /\ IsInjective(Path[u]) /\ Path[u] # <<>>
  BY GateAssumption
<1>2. Len(Path[u]) \in Nat \ {0} /\ DOMAIN Path[u] = 1..Len(Path[u])
  BY <1>1, LenProperties, EmptySeq
<1>3. \A i \in 1..Len(Path[u]) : Path[u][i] \in Gate \cup {Door}
  BY <1>1, ElementOfSeq
<1>4. 1..(l + 1) = (1..l) \cup {l + 1}
  BY <1>2
<1>5. l < Len(Path[u]) => \A i \in 1..l : Path[u][i] # Path[u][l + 1]
  BY <1>1, <1>2 DEF IsInjective
<1> QED
  BY <1>2, <1>3, <1>4, <1>5

LEMMA UserGates ==
  ASSUME GatesInv, NEW u \in User
  PROVE  /\ HeldBy(u) \subseteq Gate \cup {Door}
         /\ level[u] < Len(Path[u]) => NextGate(u) \in Gate \cup {Door} /\ NextGate(u) \notin HeldBy(u)
         /\ Len(Path[u]) \in Nat \ {0} /\ level[u] \in Nat
<1>1. level[u] \in 0..Len(Path[u])
  BY DEF GatesInv, LevelInv
<1> QED
  BY <1>1, PathGates DEF HeldBy, NextGate

\* Who waits at a gate has not got it.
LEMMA WaitersHoldNot ==
  ASSUME GatesInv, NEW k \in Gate
  PROVE  /\ Holders(k) \cap Waiting(k) = {} /\ gate[k] \in GateState /\ gate[k].line \in Seq(User)
         /\ \A u \in Waiting(k) : ~Tallied(k, u)
         /\ DOMAIN gate[k].line = 1..Len(gate[k].line) /\ Len(gate[k].line) \in Nat
<1>1. ASSUME NEW u \in Waiting(k) PROVE u \notin Holders(k)
  <2>1. u \in User /\ pc[u] = "line" /\ k = NextGate(u) /\ level[u] < Len(Path[u])
    BY DEF Waiting, GatesInv, LevelInv
  <2> QED
    BY <2>1, UserGates DEF Holders
<1>2. gate[k] \in GateState /\ gate[k].line \in Seq(User)
  BY DEF GatesInv, GateState
<1>3. \A u \in Waiting(k) : ~Tallied(k, u)
  BY DEF GatesInv, LevelInv, Waiting
<1>4. Holders(k) \cap Waiting(k) = {}
  BY <1>1
<1> QED
  BY <1>2, <1>3, <1>4, LenProperties

-----------------------------------------------------------------------------
(* Giving back.                                                             *)

\* r is s without u, in the same order.
LineWithout(r, s, u) ==
  /\ ToSet(r) = ToSet(s) \ {u} /\ IsInjective(r) /\ r \in Seq(User)
  /\ \A i, j \in DOMAIN s : i < j /\ s[i] # u /\ s[j] # u =>
       \E x, y \in DOMAIN r : x < y /\ r[x] = s[i] /\ r[y] = s[j]

LEMMA LineWithoutNobody ==
  ASSUME NEW s \in Seq(User), IsInjective(s), NEW u, u \notin ToSet(s)
  PROVE  LineWithout(s, s, u)
  BY DEF LineWithout

LEMMA WithdrawGate ==
  ASSUME DispatchTypeOK, GatesInv, NEW u \in User, NEW k \in Gate
  PROVE  \E g \in GateState : \E n \in 0..Len(g.line) :
           /\ LineWithout(g.line, gate[k].line, u)
           /\ Withdrawn(u)[k] \in GateState /\ (k \notin Seated => Stuck(k, Withdrawn(u)[k]))
           /\ Suffix(Withdrawn(u)[k].line, g.line, n)
           /\ Counts(k, Withdrawn(u)[k], (Holders(k) \ {u}) \cup {g.line[i] : i \in 1..n})
<1> DEFINE Done(g, h) ==
      \E n \in 0..Len(g.line) :
        /\ LineWithout(g.line, gate[k].line, u)
        /\ h \in GateState /\ (k \notin Seated => Stuck(k, h))
        /\ Suffix(h.line, g.line, n)
        /\ Counts(k, h, (Holders(k) \ {u}) \cup {g.line[i] : i \in 1..n})
<1>1. /\ gate[k] \in GateState /\ gate[k].line \in Seq(User) /\ IsInjective(gate[k].line)
      /\ Counts(k, gate[k], Holders(k)) /\ (k \notin Seated => Stuck(k, gate[k]))
      /\ ToSet(gate[k].line) = Waiting(k) /\ Holders(k) \cap Waiting(k) = {}
      /\ \A v \in ToSet(gate[k].line) : ~Tallied(k, v)
  BY WaitersHoldNot DEF GatesInv, GateFits
<1>2. ASSUME NEW g \in GateState, LineWithout(g.line, gate[k].line, u), Counts(k, g, Holders(k) \ {u})
      PROVE  Done(g, Granting(k, g))
  <2>1. /\ (Holders(k) \ {u}) \cap ToSet(g.line) = {} /\ IsInjective(g.line)
        /\ \A v \in ToSet(g.line) : ~Tallied(k, v)
    BY <1>1, <1>2 DEF LineWithout
  <2> QED
    BY <1>2, <2>1, GrantingServes
<1>3. ASSUME u \in Holders(k), ~Tallied(k, u) PROVE \E g \in GateState : Done(g, Released(k, gate[k], u))
  <2> DEFINE g == JustReleased(k, gate[k], u)
  <2>1. g \in GateState /\ g.line = gate[k].line /\ g.inFlight = gate[k].inFlight - 1
        /\ g.used = gate[k].used - Charge(k, u)
    BY <1>1, JustReleasedIs
  <2>2. u \notin ToSet(gate[k].line)
    BY <1>1, <1>3
  <2>3. Released(k, gate[k], u) = Granting(k, g)
    BY DEF Released
  <2> HIDE DEF g
  <2>4. LineWithout(g.line, gate[k].line, u)
    BY <1>1, <2>1, <2>2, LineWithoutNobody
  <2>5. Counts(k, g, Holders(k) \ {u})
    BY <1>1, <1>3, <2>1, CountsOneLess
  <2> HIDE DEF Done
  <2> QED
    BY <1>2, <2>1, <2>3, <2>4, <2>5
<1>4. CASE k \in HeldBy(u)
  <2>1. u \in Holders(k)
    BY <1>4 DEF Holders
  <2>2. CASE ~Tallied(k, u)
    <3>1. Withdrawn(u)[k] = Released(k, gate[k], u)
      BY <1>4, <2>2 DEF Withdrawn
    <3> QED
      BY <1>3, <2>1, <2>2, <3>1
  \* Only tallied: the line is left as it was.
  <2>3. CASE Tallied(k, u)
    <3> DEFINE h == TallyLeaves(gate[k])
    <3>1. Withdrawn(u)[k] = h
      BY <1>4, <2>3 DEF Withdrawn
    <3>2. h \in GateState /\ h.line = gate[k].line /\ h.inFlight = gate[k].inFlight - 1 /\ h.used = gate[k].used
      BY <1>1, TallyIs
    <3> HIDE DEF h
    <3>3. Counts(k, h, Holders(k) \ {u})
      BY <1>1, <2>1, <2>3, <3>2, CountsOneLess
    <3>4. LineWithout(h.line, gate[k].line, u)
      BY <1>1, <2>1, <3>2, LineWithoutNobody
    <3>5. Len(h.line) \in Nat /\ Suffix(h.line, h.line, 0) /\ k \in Seated
      BY <1>1, <2>3, <3>2, LenProperties DEF Suffix, Tallied
    <3>6. (Holders(k) \ {u}) \cup {h.line[i] : i \in 1..0} = Holders(k) \ {u}
      OBVIOUS
    <3>7. Done(h, h)
      <4>1. 0 \in 0..Len(h.line)
        BY <3>5
      <4> QED
        BY <3>2, <3>3, <3>4, <3>5, <3>6, <4>1
    <3> QED
      BY <3>1, <3>2, <3>7
  <2> QED
    BY <2>2, <2>3
<1>5. CASE k \notin HeldBy(u) /\ InLine(u) /\ k = NextGate(u)
  <2>1. Withdrawn(u)[k] = Forgotten(k, gate[k], u)
    BY <1>5 DEF Withdrawn
  <2>2. CASE pc[u] = "granted"
    <3>1. u \in Holders(k) /\ u \notin ToSet(gate[k].line) /\ ~Tallied(k, u)
      BY <1>1, <1>5, <2>2 DEF Holders, GatesInv, LevelInv
    <3>2. Withdrawn(u)[k] = Released(k, gate[k], u)
      BY <2>1, <3>1 DEF Forgotten
    <3> QED
      BY <1>3, <3>1, <3>2
  <2>3. CASE pc[u] = "line"
    <3>1. u \in ToSet(gate[k].line) /\ u \notin Holders(k)
      BY <1>1, <1>5, <2>3 DEF Waiting
    <3> DEFINE r == RemoveFirst(gate[k].line, u)
               g == [gate[k] EXCEPT !.line = r]
    <3>2. LineWithout(r, gate[k].line, u)
      BY <1>1, <3>1, RemoveFirstKeeps DEF LineWithout
    <3>3. Withdrawn(u)[k] = Granting(k, g)
      BY <2>1, <3>1 DEF Forgotten
    <3> HIDE DEF r
    <3>4. g \in GateState /\ g.line = r /\ g.inFlight = gate[k].inFlight /\ g.used = gate[k].used
      BY <1>1, <3>2 DEF GateState, LineWithout
    <3> HIDE DEF g
    <3>5. Holders(k) \ {u} = Holders(k)
      BY <3>1
    <3>6. Counts(k, g, Holders(k) \ {u})
      BY <1>1, <3>4, <3>5 DEF Counts
    <3>7. Done(g, Granting(k, g))
      <4> HIDE DEF Done
      <4> QED BY <1>2, <3>2, <3>4, <3>6
    <3> QED
      BY <3>3, <3>4, <3>7
  <2> QED
    BY <1>5, <2>2, <2>3 DEF InLine
<1>6. CASE k \notin HeldBy(u) /\ ~(InLine(u) /\ k = NextGate(u))
  <2>1. Withdrawn(u)[k] = gate[k]
    BY <1>6 DEF Withdrawn
  <2>2. u \notin Holders(k) /\ u \notin ToSet(gate[k].line)
    BY <1>1, <1>6 DEF Holders, Waiting, InLine
  <2>3. LineWithout(gate[k].line, gate[k].line, u)
    BY <1>1, <2>2, LineWithoutNobody
  <2>4. Len(gate[k].line) \in Nat /\ Suffix(gate[k].line, gate[k].line, 0)
    BY <1>1, LenProperties DEF Suffix
  <2>5. (Holders(k) \ {u}) \cup {gate[k].line[i] : i \in 1..0} = Holders(k)
    BY <2>2
  <2>6. Done(gate[k], gate[k])
    <3>1. 0 \in 0..Len(gate[k].line)
      BY <2>4
    <3> QED BY <1>1, <2>3, <2>4, <2>5, <3>1
  <2> QED
    BY <1>1, <2>1, <2>6
<1> QED
  BY <1>4, <1>5, <1>6

\* What a withdrawal does at a gate: the others in the line are as before, the
\* first of them have it.
LEMMA WithdrawServes ==
  ASSUME DispatchTypeOK, GatesInv, NEW u \in User, NEW where \in {"between", "over"}, Withdraw(u, where),
         NEW k \in Gate
  PROVE  /\ GateFits(k)' /\ gate'[k] \in [line : Seq(User), inFlight : Nat, used : Nat]
         /\ \A v \in Holders(k)' \ Holders(k) :
              /\ v \in ToSet(gate[k].line)
              /\ \A i, j \in DOMAIN gate[k].line :
                   i < j /\ gate[k].line[j] = v => gate[k].line[i] \notin ToSet(gate'[k].line)
<1> DEFINE h == Withdrawn(u)[k]
<1>0. PICK g \in GateState : \E n \in 0..Len(g.line) :
        /\ LineWithout(g.line, gate[k].line, u)
        /\ h \in GateState /\ (k \notin Seated => Stuck(k, h))
        /\ Suffix(h.line, g.line, n)
        /\ Counts(k, h, (Holders(k) \ {u}) \cup {g.line[i] : i \in 1..n})
  BY WithdrawGate
<1>1. PICK n \in 0..Len(g.line) :
        /\ LineWithout(g.line, gate[k].line, u)
        /\ h \in GateState /\ (k \notin Seated => Stuck(k, h))
        /\ Suffix(h.line, g.line, n)
        /\ Counts(k, h, (Holders(k) \ {u}) \cup {g.line[i] : i \in 1..n})
  BY <1>0
<1>2. gate'[k] = h
  BY DEF Withdraw
<1> HIDE DEF h
<1>3. /\ ToSet(gate[k].line) = Waiting(k) /\ Holders(k) \cap Waiting(k) = {}
      /\ gate[k].line \in Seq(User)
  BY WaitersHoldNot DEF GatesInv, GateFits
<1>4. /\ g.line \in Seq(User) /\ h.line \in Seq(User) /\ Len(g.line) \in Nat
      /\ Len(h.line) = Len(g.line) - n /\ \A i \in 1..Len(h.line) : h.line[i] = g.line[n + i]
      /\ DOMAIN g.line = 1..Len(g.line) /\ DOMAIN h.line = 1..Len(h.line)
      /\ IsInjective(g.line) /\ ToSet(g.line) = Waiting(k) \ {u}
  BY <1>1, <1>3, LenProperties DEF Suffix, GateState, LineWithout
<1> DEFINE Foremost == {g.line[i] : i \in 1..n}
<1>5. /\ Foremost \cup ToSet(h.line) = Waiting(k) \ {u} /\ Foremost \cap ToSet(h.line) = {}
  <2>1. ASSUME NEW i \in 1..n, NEW j \in 1..Len(h.line) PROVE g.line[i] # h.line[j]
    <3>1. i \in DOMAIN g.line /\ n + j \in DOMAIN g.line /\ i # n + j /\ h.line[j] = g.line[n + j]
      BY <1>4
    <3> QED
      BY <1>4, <3>1 DEF IsInjective
  <2>2. ASSUME NEW i \in DOMAIN g.line PROVE g.line[i] \in Foremost \cup ToSet(h.line)
    <3>1. CASE i <= n
      BY <1>4, <3>1
    <3>2. CASE ~(i <= n)
      <4>1. i - n \in 1..Len(h.line) /\ n + (i - n) = i
        BY <1>4, <3>2
      <4>2. h.line[i - n] = g.line[i]
        BY <1>4, <4>1
      <4> QED
        BY <1>4, <4>1, <4>2 DEF ToSet
    <3> QED
      BY <3>1, <3>2
  <2>3. ASSUME NEW i \in 1..n PROVE g.line[i] \in ToSet(g.line)
    BY <1>4 DEF ToSet
  <2>4. ASSUME NEW i \in 1..Len(h.line) PROVE h.line[i] \in ToSet(g.line)
    <3>1. n + i \in DOMAIN g.line /\ h.line[i] = g.line[n + i]
      BY <1>4
    <3> QED
      BY <3>1 DEF ToSet
  <2>5. Foremost \subseteq ToSet(g.line) /\ ToSet(h.line) \subseteq ToSet(g.line)
    BY <1>4, <2>3, <2>4 DEF ToSet
  <2>6. ToSet(g.line) \subseteq Foremost \cup ToSet(h.line)
    BY <2>2 DEF ToSet
  <2>7. Foremost \cap ToSet(h.line) = {}
    BY <2>1, <1>4 DEF ToSet
  <2> HIDE DEF Foremost
  <2> QED
    BY <1>4, <2>5, <2>6, <2>7
<1>6. IsInjective(h.line)
  <2> SUFFICES ASSUME NEW i \in DOMAIN h.line, NEW j \in DOMAIN h.line, h.line[i] = h.line[j]
               PROVE  i = j
    BY DEF IsInjective
  <2>0. \A x \in DOMAIN h.line : n + x \in DOMAIN g.line /\ h.line[x] = g.line[n + x] /\ x \in Int
    BY <1>4
  <2>1. n + i \in DOMAIN g.line /\ n + j \in DOMAIN g.line /\ g.line[n + i] = g.line[n + j]
        /\ i \in Int /\ j \in Int /\ n \in Int
    BY <2>0
  <2>2. n + i = n + j
    BY <1>4, <2>1 DEF IsInjective
  <2> QED
    BY <2>1, <2>2
<1>7. /\ level'[u] = 0 /\ \A v \in User : v # u => level'[v] = level[v]
      /\ pc'[u] = where
      /\ \A v \in User : v # u => pc'[v] = IF v \in Woken(gate') THEN "granted" ELSE pc[v]
  BY DEF Withdraw, GatesInv, DispatchTypeOK
<1>8. \A v \in User : v # u => HeldBy(v)' = HeldBy(v) /\ NextGate(v)' = NextGate(v)
  BY <1>7 DEF HeldBy, NextGate
<1>9. \A v \in User : pc[v] = "line" /\ k = NextGate(v) => (v \in Woken(gate') <=> v \notin ToSet(h.line))
  BY <1>2 DEF Woken
<1>10. HeldBy(u)' = {}
  BY <1>7 DEF HeldBy
<1>11. Waiting(k)' = ToSet(h.line)
  <2>1. ASSUME NEW v \in User, v # u PROVE v \in Waiting(k)' <=> v \in ToSet(h.line)
    <3>1. v \in Waiting(k)' <=> (pc'[v] = "line" /\ k = NextGate(v))
      BY <1>8, <2>1 DEF Waiting
    <3>2. v \in Waiting(k) <=> (pc[v] = "line" /\ k = NextGate(v))
      BY DEF Waiting
    <3>3. v \in ToSet(h.line) => v \in Waiting(k)
      BY <1>5
    <3> QED
      BY <1>7, <1>9, <2>1, <3>1, <3>2, <3>3
  <2>2. u \notin Waiting(k)' /\ u \notin ToSet(h.line)
    BY <1>5, <1>7 DEF Waiting
  <2>3. Waiting(k)' \subseteq User /\ ToSet(h.line) \subseteq User
    BY <1>5 DEF Waiting
  <2> QED
    BY <2>1, <2>2, <2>3
<1>12. Holders(k)' = (Holders(k) \ {u}) \cup Foremost
  <2>1. ASSUME NEW v \in User, v # u PROVE v \in Holders(k)' <=> (v \in Holders(k) \/ v \in Foremost)
    <3>1. v \in Holders(k)' <=> (k \in HeldBy(v) \/ (pc'[v] = "granted" /\ k = NextGate(v)))
      BY <1>8, <2>1 DEF Holders
    <3>2. v \in Holders(k) <=> (k \in HeldBy(v) \/ (pc[v] = "granted" /\ k = NextGate(v)))
      BY DEF Holders
    <3>3. v \in Foremost <=> (pc[v] = "line" /\ k = NextGate(v) /\ v \notin ToSet(h.line))
      BY <1>5, <2>1 DEF Waiting
    <3>4. pc'[v] = "granted" <=> (pc[v] = "granted" \/ v \in Woken(gate'))
      BY <1>7, <2>1
    <3>5. v \in Woken(gate') => pc[v] = "line"
      BY DEF Woken
    <3> HIDE DEF Foremost
    <3> QED
      BY <1>9, <3>1, <3>2, <3>3, <3>4, <3>5
  <2>2. u \notin Holders(k)' /\ u \notin Foremost
    BY <1>5, <1>7, <1>10 DEF Holders
  <2>3. Holders(k)' \subseteq User /\ Holders(k) \subseteq User /\ Foremost \subseteq User
    BY <1>5 DEF Holders, Waiting
  <2> HIDE DEF Foremost
  <2> QED
    BY <2>1, <2>2, <2>3
<1>13. GateFits(k)'
  <2>1. Counts(k, h, Holders(k)')
    BY <1>1, <1>12
  <2>2. Counts(k, gate[k], Holders(k))'
    BY <1>2, <2>1 DEF Counts
  <2>3. k \notin Seated => Stuck(k, gate[k])'
    BY <1>1, <1>2 DEF Stuck
  <2> QED
    BY <1>2, <1>6, <1>11, <2>2, <2>3 DEF GateFits
<1>14. gate'[k] \in [line : Seq(User), inFlight : Nat, used : Nat]
  <2>1. Counts(k, h, Holders(k)')
    BY <1>1, <1>12
  <2>2. h.inFlight \in Nat /\ h.used \in Nat
    BY <2>1, CountsType
  <2> QED
    BY <1>1, <1>2, <2>2 DEF GateState
<1>15. ASSUME NEW v \in Holders(k)' \ Holders(k)
       PROVE  /\ v \in ToSet(gate[k].line)
              /\ \A i, j \in DOMAIN gate[k].line :
                   i < j /\ gate[k].line[j] = v => gate[k].line[i] \notin ToSet(gate'[k].line)
  <2>1. v \in Foremost /\ v # u
    BY <1>5, <1>12
  <2>2. v \in ToSet(gate[k].line)
    BY <1>3, <1>5, <2>1
  <2>3. ASSUME NEW i \in DOMAIN gate[k].line, NEW j \in DOMAIN gate[k].line, i < j, gate[k].line[j] = v,
               gate[k].line[i] \in ToSet(h.line)
        PROVE  FALSE
    <3>1. gate[k].line[i] # u
      BY <1>5, <2>3
    <3>2. PICK x, y \in DOMAIN g.line : x < y /\ g.line[x] = gate[k].line[i] /\ g.line[y] = v
      BY <1>1, <2>1, <2>3, <3>1 DEF LineWithout
    <3>3. PICK z \in 1..n : g.line[z] = v
      BY <2>1
    <3>4. y = z
      <4>1. z \in DOMAIN g.line /\ g.line[y] = g.line[z]
        BY <1>4, <3>2, <3>3
      <4> QED
        BY <1>4, <3>2, <4>1 DEF IsInjective
    <3>5. x \in 1..n
      BY <1>4, <3>2, <3>4
    <3> QED
      BY <1>5, <2>3, <3>2, <3>5
  <2> QED
    BY <1>2, <2>2, <2>3
<1> QED
  BY <1>13, <1>14, <1>15

LEMMA WithdrawKeeps ==
  ASSUME DispatchTypeOK, GatesInv, NEW u \in User, NEW where \in {"between", "over"}, Withdraw(u, where)
  PROVE  GatesInv'
<1>1. level' \in [User -> Nat]
  BY DEF Withdraw, GatesInv
<1>2. gate' \in [Gate -> [line : Seq(User), inFlight : Nat, used : Nat]]
  <2>1. DOMAIN gate' = Gate /\ gate' = [k \in Gate |-> gate'[k]]
    BY DEF Withdraw, Withdrawn
  <2> QED
    BY <2>1, WithdrawServes
<1>3. LevelInv'
  <2> SUFFICES ASSUME NEW v \in User
               PROVE  /\ level'[v] \in 0..Len(Path[v])
                      /\ pc'[v] \in {"out", "between", "over"} => level'[v] = 0
                      /\ pc'[v] \in {"start", "chat", "door", "line", "granted"} => level'[v] < Len(Path[v])
                      /\ pc'[v] = "door" => NextGate(v)' = Door
                      /\ pc'[v] \in {"line", "granted"} => NextGate(v)' \in Gate /\ ~Tallied(NextGate(v), v)'
    BY DEF LevelInv, Tallied
  <2>1. Len(Path[v]) \in Nat /\ Len(Path[v]) # 0
    BY UserGates
  <2>2. CASE v = u
    BY <2>1, <2>2 DEF Withdraw, GatesInv, DispatchTypeOK
  <2>3. CASE v # u
    <3>1. level'[v] = level[v] /\ (pc'[v] = pc[v] \/ (pc[v] = "line" /\ pc'[v] = "granted"))
      BY <2>3 DEF Withdraw, Woken, GatesInv, DispatchTypeOK
    <3>2. NextGate(v)' = NextGate(v) /\ (Tallied(NextGate(v), v)' <=> Tallied(NextGate(v), v))
      BY <3>1 DEF NextGate, Tallied
    <3> QED
      BY <3>1, <3>2 DEF GatesInv, LevelInv
  <2> QED
    BY <2>2, <2>3
<1> QED
  BY <1>1, <1>2, <1>3, WithdrawServes DEF GatesInv

-----------------------------------------------------------------------------
(* The other steps.                                                         *)

\* A gate where nothing changed fits as before.
LEMMA FitsAsBefore ==
  ASSUME NEW k \in Gate, GateFits(k), gate'[k] = gate[k],
         Holders(k)' = Holders(k), Waiting(k)' = Waiting(k)
  PROVE  GateFits(k)'
<1>1. Counts(k, gate[k], Holders(k))'
  BY DEF GateFits, Counts
<1>2. k \notin Seated => Stuck(k, gate[k])'
  BY DEF GateFits, Stuck
<1> QED
  BY <1>1, <1>2 DEF GateFits

\* A step that lets nobody in and out, and puts nobody into a line.
LEMMA GatesAsBefore ==
  ASSUME DispatchTypeOK, GatesInv, UNCHANGED <<gate, level>>,
         \A u \in User : \/ pc'[u] = pc[u]
                         \/ /\ pc[u] \notin {"line", "granted"}
                            /\ pc'[u] \in {"out", "between", "over", "start"} /\ level[u] = 0
                         \/ /\ pc[u] \in {"start", "chat"}
                            /\ pc'[u] = "chat" \/ (pc'[u] = "door" /\ NextGate(u) = Door)
  PROVE  GatesInv' /\ \A k \in Gate : Holders(k)' = Holders(k)
<1>1. \A u \in User : HeldBy(u)' = HeldBy(u) /\ NextGate(u)' = NextGate(u)
  BY DEF HeldBy, NextGate
<1>2. \A u \in User : /\ pc'[u] = "line" <=> pc[u] = "line"
                      /\ pc'[u] = "granted" <=> pc[u] = "granted"
  BY DEF DispatchTypeOK
<1>3. \A k \in Gate : Holders(k)' = Holders(k) /\ Waiting(k)' = Waiting(k)
  BY <1>1, <1>2 DEF Holders, Waiting
<1>4. LevelInv'
  <2>1. \A u \in User : Len(Path[u]) \in Nat \ {0}
    BY UserGates
  <2>2. \A u \in User : Tallied(NextGate(u), u)' <=> Tallied(NextGate(u), u)
    BY <1>1 DEF Tallied
  <2> QED
    BY <1>1, <2>1, <2>2 DEF GatesInv, LevelInv
<1>5. \A k \in Gate : GateFits(k)'
  BY <1>3, FitsAsBefore DEF GatesInv
<1> QED
  BY <1>3, <1>4, <1>5 DEF GatesInv

\* One step further along the path, past a gate or the door.
LEMMA AdvanceMoves ==
  ASSUME DispatchTypeOK, GatesInv, NEW u \in User, pc[u] \in {"start", "chat", "door", "granted"}, Advance(u)
  PROVE  /\ level' \in [User -> Nat] /\ LevelInv'
         /\ NextGate(u) \in Gate \cup {Door}
         /\ \A k \in Gate :
              /\ Waiting(k)' = Waiting(k)
              /\ Holders(k)' = IF k = NextGate(u) THEN Holders(k) \cup {u} ELSE Holders(k)
              /\ k = NextGate(u) /\ pc[u] # "granted" => u \notin Holders(k)
<1> DEFINE k0 == NextGate(u)
<1>1. /\ level' = [level EXCEPT ![u] = @ + 1]
      /\ pc' = [pc EXCEPT ![u] = IF level[u] + 1 = Len(Path[u]) THEN "attempt" ELSE "start"]
  BY DEF Advance
<1>2. /\ level[u] \in Nat /\ level[u] \in 0..Len(Path[u]) /\ level[u] < Len(Path[u]) /\ Len(Path[u]) \in Nat
      /\ level'[u] = level[u] + 1 /\ pc'[u] \in {"attempt", "start"}
      /\ (pc'[u] = "start" => level[u] + 1 # Len(Path[u]))
      /\ \A v \in User : v # u => level'[v] = level[v] /\ pc'[v] = pc[v]
  BY <1>1, UserGates DEF GatesInv, LevelInv, DispatchTypeOK
<1>3. HeldBy(u)' = HeldBy(u) \cup {k0} /\ k0 \in Gate \cup {Door} /\ k0 \notin HeldBy(u)
  BY <1>2, PathGates, UserGates DEF HeldBy, NextGate
<1>4. \A v \in User : v # u => HeldBy(v)' = HeldBy(v) /\ NextGate(v)' = NextGate(v)
  BY <1>2 DEF HeldBy, NextGate
<1>5. ASSUME NEW k \in Gate
      PROVE  /\ Waiting(k)' = Waiting(k)
             /\ Holders(k)' = IF k = k0 THEN Holders(k) \cup {u} ELSE Holders(k)
             /\ k = k0 /\ pc[u] # "granted" => u \notin Holders(k)
  <2>1. ASSUME NEW v \in User, v # u PROVE v \in Holders(k)' <=> v \in Holders(k)
    BY <1>2, <1>4, <2>1 DEF Holders
  <2>2. /\ u \in Holders(k)' <=> u \in Holders(k) \/ k = k0
        /\ k = k0 /\ pc[u] # "granted" => u \notin Holders(k)
    <3>1. pc'[u] # "granted"
      BY <1>2
    <3>2. u \in Holders(k) <=> k \in HeldBy(u) \/ (pc[u] = "granted" /\ k = k0)
      BY DEF Holders
    <3>3. u \in Holders(k)' <=> k \in HeldBy(u)'
      BY <3>1 DEF Holders
    <3> HIDE DEF k0
    <3> QED
      BY <3>2, <3>3, <1>3
  <2>3. ASSUME NEW v \in User PROVE v \in Waiting(k)' <=> v \in Waiting(k)
    BY <1>2, <1>4 DEF Waiting
  <2>4. Holders(k)' \subseteq User /\ Holders(k) \subseteq User /\ Waiting(k)' \subseteq User /\ Waiting(k) \subseteq User
    BY DEF Holders, Waiting
  <2> HIDE DEF k0
  <2> QED
    BY <2>1, <2>2, <2>3, <2>4
<1>6. LevelInv'
  <2>1. \A v \in User : v # u => (Tallied(NextGate(v), v)' <=> Tallied(NextGate(v), v))
    BY <1>4 DEF Tallied
  <2> QED
    BY <1>2, <1>4, <2>1 DEF GatesInv, LevelInv
<1>7. level' \in [User -> Nat]
  BY <1>1, <1>2 DEF GatesInv
<1> QED
  BY <1>3, <1>5, <1>6, <1>7

\* A granted waiter runs and holds what it was granted; or admission lets in.
LEMMA GoingOnKeeps ==
  ASSUME DispatchTypeOK, GatesInv, NEW u \in User, Wake(u) \/ Admitted(u)
  PROVE  GatesInv' /\ \A k \in Gate : Holders(k)' = Holders(k)
<1>1. pc[u] \in {"door", "granted"} /\ Advance(u) /\ UNCHANGED gate
  BY DEF Wake, Admitted
<1>2. ASSUME NEW k \in Gate, k = NextGate(u) PROVE u \in Holders(k)
  <2>1. pc[u] # "door"
    BY <1>2, GateAssumption DEF GatesInv, LevelInv
  <2> QED
    BY <1>1, <1>2, <2>1 DEF Holders
<1>3. /\ level' \in [User -> Nat] /\ LevelInv'
      /\ \A k \in Gate : Waiting(k)' = Waiting(k) /\ Holders(k)' = Holders(k)
  BY <1>1, <1>2, AdvanceMoves
<1>4. \A k \in Gate : GateFits(k)'
  BY <1>1, <1>3, FitsAsBefore DEF GatesInv
<1> QED
  BY <1>1, <1>3, <1>4 DEF GatesInv

\* One more is let in, as the gate g of k0 says.
LEMMA OneMoreIn ==
  ASSUME DispatchTypeOK, GatesInv, NEW u \in User, pc[u] \in {"start", "chat"}, Advance(u),
         NEW k0 \in Gate, k0 = NextGate(u), NEW g \in GateState,
         g.line = gate[k0].line, Counts(k0, g, Holders(k0) \cup {u}), k0 \notin Seated => Stuck(k0, g),
         gate' = [gate EXCEPT ![k0] = g]
  PROVE  /\ GatesInv'
         /\ \A k \in Gate : \A v \in Holders(k)' \ Holders(k) : v = u /\ k = k0
<1>1. /\ level' \in [User -> Nat] /\ LevelInv'
      /\ \A k \in Gate : /\ Waiting(k)' = Waiting(k)
                         /\ Holders(k)' = IF k = k0 THEN Holders(k) \cup {u} ELSE Holders(k)
  BY AdvanceMoves
<1>2. gate'[k0] = g /\ \A k \in Gate : k # k0 => gate'[k] = gate[k]
  BY DEF GatesInv
<1>3. ASSUME NEW k \in Gate PROVE GateFits(k)' /\ gate'[k] \in [line : Seq(User), inFlight : Nat, used : Nat]
  <2>1. CASE k = k0
    <3>1. gate'[k] = g /\ Holders(k)' = Holders(k0) \cup {u} /\ Waiting(k)' = Waiting(k0)
      BY <1>1, <1>2, <2>1
    <3>2. IsInjective(gate[k0].line) /\ ToSet(gate[k0].line) = Waiting(k0)
      BY DEF GatesInv, GateFits
    <3>3. Counts(k, gate[k], Holders(k))'
      BY <2>1, <3>1 DEF Counts
    <3>4. k \notin Seated => Stuck(k, gate[k])'
      BY <2>1, <3>1 DEF Stuck
    <3>5. g.inFlight \in Nat /\ g.used \in Nat
      BY CountsType
    <3> QED
      BY <2>1, <3>1, <3>2, <3>3, <3>4, <3>5 DEF GateFits, GateState
  <2>2. CASE k # k0
    BY <1>1, <1>2, <2>2, FitsAsBefore DEF GatesInv
  <2> QED
    BY <2>1, <2>2
<1>4. gate' \in [Gate -> [line : Seq(User), inFlight : Nat, used : Nat]]
  <2>1. gate' = [k \in Gate |-> gate'[k]]
    BY DEF GatesInv
  <2> QED
    BY <2>1, <1>3
<1>5. \A k \in Gate : \A v \in Holders(k)' \ Holders(k) : v = u /\ k = k0
  BY <1>1
<1> QED
  BY <1>1, <1>3, <1>4, <1>5 DEF GatesInv

\* Let in at once: the gate counts one more.
LEMMA AtOnceKeeps ==
  ASSUME DispatchTypeOK, GatesInv, NEW u \in User, pc[u] \in {"start", "chat"},
         NEW k0 \in Gate, k0 = NextGate(u), ~Tallied(k0, u), AtOnce(k0, u),
         gate' = [gate EXCEPT ![k0] = Counted(k0, @, u)], Advance(u)
  PROVE  /\ GatesInv'
         /\ \A k \in Gate : \A v \in Holders(k)' \ Holders(k) : v = u /\ k = k0
<1>1. /\ gate[k0] \in GateState /\ gate[k0].line \in Seq(User) /\ u \in User \ Holders(k0)
      /\ Counts(k0, gate[k0], Holders(k0)) /\ (k0 \notin Seated => Stuck(k0, gate[k0]))
      /\ Admissible(k0, gate[k0], u)
  BY AdvanceMoves, WaitersHoldNot DEF GatesInv, GateFits, AtOnce
<1> DEFINE g == Counted(k0, gate[k0], u)
<1>2. Counts(k0, g, Holders(k0) \cup {u})
  BY <1>1, CountsOneMore
<1>3. /\ g \in GateState /\ g.line = gate[k0].line
      /\ g.inFlight = gate[k0].inFlight + 1 /\ g.used = gate[k0].used + Charge(k0, u)
      /\ Charge(k0, u) \in Nat
  BY <1>1, CountedIs, ChargeType
<1>4. gate' = [gate EXCEPT ![k0] = g]
  BY DEF GatesInv
<1> HIDE DEF g
<1>5. k0 \notin Seated => Stuck(k0, g)
  <2> SUFFICES ASSUME k0 \notin Seated, g.line # <<>> PROVE ~Admissible(k0, g, Head(g.line))
    BY DEF Stuck
  <2>1. Head(gate[k0].line) \in User
    BY <1>1, <1>3, HeadTailProperties
  <2>2. ~Admissible(k0, gate[k0], Head(gate[k0].line))
    BY <1>1, <1>3 DEF Stuck
  <2>3. PICK c \in Nat : c = Charge(k0, Head(gate[k0].line))
    BY <2>1, ChargeType
  <2>4. gate[k0].inFlight \in Nat /\ gate[k0].used \in Nat /\ Concurrent[k0] \in Nat /\ Budget[k0] \in Nat
    BY GateAssumption DEF GatesInv
  <2>5. PICK d \in Nat : d = Charge(k0, u)
    BY <1>3
  <2>6. Charge(k0, Head(g.line)) = c /\ g.inFlight = gate[k0].inFlight + 1 /\ g.used = gate[k0].used + d
    BY <1>3, <2>3, <2>5
  <2>7. \A a, b, m, n \in Nat : ~(a < m /\ (n > 0 /\ a > 0 => b + c <= n))
          => ~(a + 1 < m /\ (n > 0 /\ a + 1 > 0 => (b + d) + c <= n))
    OBVIOUS
  <2>8. ~(/\ gate[k0].inFlight < Concurrent[k0]
          /\ Budget[k0] > 0 /\ gate[k0].inFlight > 0 => gate[k0].used + c <= Budget[k0])
    BY <2>2, <2>3 DEF Admissible
  <2>9. ~(/\ gate[k0].inFlight + 1 < Concurrent[k0]
          /\ Budget[k0] > 0 /\ gate[k0].inFlight + 1 > 0 => (gate[k0].used + d) + c <= Budget[k0])
    BY ONLY <2>4, <2>7, <2>8
  <2> QED
    BY <2>6, <2>9 DEF Admissible
<1> QED
  BY <1>2, <1>3, <1>4, <1>5, OneMoreIn

\* With a ticket: in flight, and counted by nobody.
LEMMA TallyKeeps ==
  ASSUME DispatchTypeOK, GatesInv, NEW u \in User, pc[u] \in {"start", "chat"},
         NEW k0 \in Gate, k0 = NextGate(u), Tallied(k0, u),
         gate' = [gate EXCEPT ![k0] = TallyEnters(@)], Advance(u)
  PROVE  /\ GatesInv'
         /\ \A k \in Gate : \A v \in Holders(k)' \ Holders(k) : v = u /\ k = k0
<1> DEFINE g == TallyEnters(gate[k0])
           H == Holders(k0)
<1>1. /\ gate[k0] \in GateState /\ u \in User \ H /\ Counts(k0, gate[k0], H) /\ k0 \in Seated
  BY AdvanceMoves, WaitersHoldNot DEF GatesInv, GateFits, Tallied
<1>2. g \in GateState /\ g.line = gate[k0].line /\ g.inFlight = gate[k0].inFlight + 1 /\ g.used = gate[k0].used
  BY <1>1, TallyIs
<1>3. gate' = [gate EXCEPT ![k0] = g]
  BY DEF GatesInv
<1> HIDE DEF g, H
<1>4. H \in SUBSET User /\ IsFiniteSet(H)
  BY <1>1 DEF Counts
<1>5. CountedOf(k0, H \cup {u}) = CountedOf(k0, H)
  BY DEF CountedOf
<1>6. IsFiniteSet(H \cup {u}) /\ Cardinality(H \cup {u}) = Cardinality(H) + 1 /\ H \cup {u} \in SUBSET User
  BY <1>1, <1>4, FS_AddElement
<1>7. Counts(k0, g, H \cup {u})
  BY <1>1, <1>2, <1>5, <1>6 DEF Counts
<1> QED
  BY <1>1, <1>2, <1>3, <1>7, OneMoreIn DEF H

\* Into the line: at its end, or at its head after a yield.
LEMMA QueueingKeeps ==
  ASSUME DispatchTypeOK, GatesInv, NEW u \in User, pc[u] \in {"start", "chat"},
         NEW k0 \in Gate, k0 = NextGate(u), ~Tallied(k0, u), ~AtOnce(k0, u),
         gate' = [gate EXCEPT ![k0].line = IF front[u] THEN <<u>> \o @ ELSE Append(@, u)],
         pc' = [pc EXCEPT ![u] = "line"], UNCHANGED level
  PROVE  GatesInv' /\ \A k \in Gate : Holders(k)' = Holders(k)
<1> DEFINE r == IF front[u] THEN <<u>> \o gate[k0].line ELSE Append(gate[k0].line, u)
<1>1. /\ level[u] < Len(Path[u]) /\ pc'[u] = "line" /\ pc[u] \notin {"line", "granted"}
      /\ \A v \in User : v # u => pc'[v] = pc[v]
  BY DEF GatesInv, LevelInv, DispatchTypeOK
<1>2. \A v \in User : HeldBy(v)' = HeldBy(v) /\ NextGate(v)' = NextGate(v)
  BY DEF HeldBy, NextGate
<1>3. ASSUME NEW k \in Gate
      PROVE  Holders(k)' = Holders(k) /\ Waiting(k)' = IF k = k0 THEN Waiting(k) \cup {u} ELSE Waiting(k)
  <2>1. ASSUME NEW v \in User PROVE v \in Holders(k)' <=> v \in Holders(k)
    BY <1>1, <1>2 DEF Holders
  <2>2. ASSUME NEW v \in User, v # u PROVE v \in Waiting(k)' <=> v \in Waiting(k)
    BY <1>1, <1>2, <2>2 DEF Waiting
  <2>3. (u \in Waiting(k)' <=> k = k0) /\ u \notin Waiting(k)
    BY <1>1, <1>2 DEF Waiting
  <2>4. Holders(k)' \subseteq User /\ Holders(k) \subseteq User /\ Waiting(k)' \subseteq User /\ Waiting(k) \subseteq User
    BY DEF Holders, Waiting
  <2> QED
    BY <2>1, <2>2, <2>3, <2>4
<1>4. /\ gate[k0].line \in Seq(User) /\ IsInjective(gate[k0].line) /\ u \notin ToSet(gate[k0].line)
      /\ ToSet(gate[k0].line) = Waiting(k0) /\ (k0 \notin Seated => Stuck(k0, gate[k0]))
  BY <1>1, WaitersHoldNot DEF GatesInv, GateFits, Waiting
<1>5. /\ r \in Seq(User) /\ IsInjective(r) /\ r # <<>> /\ ToSet(r) = ToSet(gate[k0].line) \cup {u}
      /\ Head(r) = IF front[u] \/ gate[k0].line = <<>> THEN u ELSE Head(gate[k0].line)
  <2>1. CASE front[u]
    BY <1>4, <2>1, HeadJoins
  <2>2. CASE ~front[u]
    BY <1>4, <2>2, AppendJoins
  <2> QED
    BY <2>1, <2>2
<1>6. k0 \notin Seated => ~Admissible(k0, gate[k0], Head(r))
  <2> HIDE DEF r
  <2> QED BY <1>4, <1>5 DEF AtOnce, Stuck
<1>7. /\ gate'[k0] = [gate[k0] EXCEPT !.line = r]
      /\ \A k \in Gate : k # k0 => gate'[k] = gate[k]
  BY <1>1 DEF GatesInv
<1>8. /\ gate'[k0] \in [line : Seq(User), inFlight : Nat, used : Nat]
      /\ gate'[k0].line = r /\ gate'[k0].inFlight = gate[k0].inFlight /\ gate'[k0].used = gate[k0].used
  <2>1. PICK g \in [line : Seq(User), inFlight : Nat, used : Nat] : g = gate[k0]
    BY <1>1 DEF GatesInv
  <2>2. gate'[k0] = [g EXCEPT !.line = r]
    BY <1>7, <2>1
  <2> HIDE DEF r
  <2>3. gate'[k0] = [line |-> r, inFlight |-> g.inFlight, used |-> g.used]
    BY <2>2
  <2> QED
    BY <1>5, <2>1, <2>3
<1> HIDE DEF r
<1>9. ASSUME NEW k \in Gate PROVE GateFits(k)' /\ gate'[k] \in [line : Seq(User), inFlight : Nat, used : Nat]
  <2>1. CASE k = k0
    <3>1. GateFits(k) /\ Holders(k)' = Holders(k) /\ Waiting(k)' = Waiting(k) \cup {u}
      BY <1>3, <2>1 DEF GatesInv
    <3>2. Counts(k, gate[k], Holders(k))'
      BY <1>8, <2>1, <3>1 DEF GateFits, Counts
    <3>3. k \notin Seated => Stuck(k, gate[k])'
      BY <1>6, <1>8, <2>1 DEF Stuck, Admissible
    <3> QED
      BY <1>4, <1>5, <1>8, <2>1, <3>1, <3>2, <3>3 DEF GateFits
  <2>2. CASE k # k0
    BY <1>3, <1>7, <2>2, FitsAsBefore DEF GatesInv
  <2> QED
    BY <2>1, <2>2
<1>10. LevelInv'
  <2>1. \A v \in User : Tallied(NextGate(v), v)' <=> Tallied(NextGate(v), v)
    BY <1>2 DEF Tallied
  <2> QED
    BY <1>1, <1>2, <2>1 DEF GatesInv, LevelInv
<1>11. gate' \in [Gate -> [line : Seq(User), inFlight : Nat, used : Nat]]
  <2>1. gate' = [k \in Gate |-> gate'[k]]
    BY DEF GatesInv
  <2> QED
    BY <2>1, <1>9
<1> QED
  BY <1>3, <1>9, <1>10, <1>11 DEF GatesInv

-----------------------------------------------------------------------------
(* Every step.                                                              *)

PlainTypes ==
  /\ row \in [Row -> {"new", "queued", "here", "elsewhere", "settled"}]
  /\ launchedHere \subseteq Row /\ staggered \in BOOLEAN
  /\ stop \in [User -> {"none", "yield", "cancel", "lease_lost"}]
  /\ front \in [User -> BOOLEAN] /\ chat \in BOOLEAN /\ faults \in Nat

GInv == RInv /\ PlainTypes /\ GatesInv

LEMMA PlainTypesStep == RInv /\ PlainTypes /\ [Next]_vars => PlainTypes'
<1> SUFFICES ASSUME RInv, PlainTypes, [Next]_vars PROVE PlainTypes'
  OBVIOUS
<1> USE DEF PlainTypes
<1>u. Row \subseteq User
  BY DEF User
<1>1. CASE UNCHANGED vars
  BY <1>1 DEF vars
<1>2. ASSUME NEW u \in User, Runs(u) PROVE PlainTypes'
  <2>1. CASE HandleStop(u)
    BY <2>1 DEF HandleStop, Leaves, Forget, dvars
  <2>2. CASE Defer(u) \/ Enter(u) \/ Tally(u) \/ Knock(u) \/ Wake(u) \/ GiveUp(u) \/ Retry(u)
    BY <2>2 DEF Defer, Enter, Tally, Knock, Wake, GiveUp, Retry, dvars
  <2> QED
    BY <1>2, <2>1, <2>2 DEF Runs
<1>3. ASSUME NEW u \in User, \/ Admitted(u) \/ Refused(u)
                              \/ Interrupted(u) \/ Answered(u) \/ CancelRun(u) \/ Yield(u)
      PROVE  PlainTypes'
  BY <1>3 DEF Admitted, Refused, Interrupted, Answered, CancelRun, Yield, Fault, Stop, Leaves, Forget, dvars
<1>4. ASSUME NEW r \in Row, Launch(r) \/ CancelQueued(r) \/ LeaseLost(r) \/ TakenElsewhere(r)
                            \/ BackFromElsewhere(r) PROVE PlainTypes'
  BY <1>4, <1>u DEF Launch, CancelQueued, LeaseLost, TakenElsewhere, BackFromElsewhere, Fault, Stop, Forget, gvars
<1>5. ASSUME NEW c \in Caller, Arrive(c) \/ CallerGone(c) PROVE PlainTypes'
  BY <1>5 DEF Arrive, CallerGone, dvars
<1>6. CASE ChatTurns \/ StaggerEnds \/ PassStarts \/ PassEnds
  BY <1>6 DEF ChatTurns, StaggerEnds, PassStarts, PassEnds, dvars, gvars
<1>7. CASE PassClaims
  BY <1>7 DEF PassClaims, gvars
<1>8. CASE ClaimAnswered
  <2>1. pass.claiming \in Row
    BY <1>8 DEF ClaimAnswered, RInv, DispatchTypeOK
  <2> QED
    BY <1>8, <2>1 DEF ClaimAnswered, Fault, Forget
<1> QED
  BY <1>1, <1>2, <1>3, <1>4, <1>5, <1>6, <1>7, <1>8 DEF Next, Passes

\* What ServedInOrder says of a step.
InOrder ==
  \A k \in Gate : \A u \in User :
    u \in Own(k)' \ Own(k) /\ ~front[u] =>
      IF u \in ToSet(gate[k].line)
      THEN \A i, j \in DOMAIN gate[k].line :
             i < j /\ gate[k].line[j] = u => gate[k].line[i] \notin ToSet(gate'[k].line)
      ELSE gate[k].line = <<>>

LEMMA GatesStep == RInv /\ GatesInv /\ [Next]_vars => GatesInv' /\ InOrder
<1> SUFFICES ASSUME RInv, GatesInv, [Next]_vars PROVE GatesInv' /\ InOrder
  OBVIOUS
<1>t. DispatchTypeOK /\ RepresentInv
  BY DEF RInv
<1>u. Row \subseteq User /\ Caller \subseteq User
  BY DEF User
<1>z. \A u \in User : pc[u] \in {"out", "between", "over"} => level[u] = 0
  BY DEF GatesInv, LevelInv
<1>o. \A k \in Gate : \A u \in Own(k)' \ Own(k) : u \in Holders(k)' \ Holders(k) /\ ~Tallied(k, u)
  BY DEF Own, Tallied
\* Nobody gets a gate, nobody loses one.
<1>a. ASSUME UNCHANGED <<gate, level>>,
             \A u \in User : \/ pc'[u] = pc[u]
                             \/ /\ pc[u] \notin {"line", "granted"}
                                /\ pc'[u] \in {"out", "between", "over", "start"} /\ level[u] = 0
                             \/ /\ pc[u] \in {"start", "chat"}
                                /\ pc'[u] = "chat" \/ (pc'[u] = "door" /\ NextGate(u) = Door)
      PROVE  GatesInv' /\ InOrder
  BY <1>a, <1>t, <1>o, GatesAsBefore DEF InOrder
<1>b. ASSUME NEW u \in User, NEW where \in {"between", "over"}, Withdraw(u, where)
      PROVE  GatesInv' /\ InOrder
  BY <1>b, <1>t, <1>o, WithdrawKeeps, WithdrawServes DEF InOrder
<1>1. CASE UNCHANGED vars
  BY <1>1, <1>a DEF vars
<1>2. ASSUME NEW u \in User, Enter(u) PROVE GatesInv' /\ InOrder
  <2> DEFINE k == NextGate(u)
  <2>0. pc[u] \in {"start", "chat"} /\ k \in Gate /\ ~Tallied(k, u)
    BY <1>2 DEF Enter, GoesOn
  <2>1. CASE AtOnce(k, u)
    <3>1. gate' = [gate EXCEPT ![k] = Counted(k, @, u)] /\ Advance(u)
      BY <1>2, <2>1 DEF Enter
    <3> HIDE DEF k
    <3>2. k = NextGate(u)
      BY DEF k
    <3>3. GatesInv' /\ \A x \in Gate : \A v \in Holders(x)' \ Holders(x) : v = u /\ x = k
      BY <1>t, <2>0, <2>1, <3>1, <3>2, AtOnceKeeps
    <3>4. gate[k].line = <<>> \/ front[u]
      BY <2>1 DEF AtOnce
    <3>5. gate[k].line = <<>> => u \notin ToSet(gate[k].line)
      BY DEF ToSet
    <3> QED
      BY <1>o, <3>3, <3>4, <3>5 DEF InOrder
  <2>2. CASE ~AtOnce(k, u)
    <3>1. /\ pc' = [pc EXCEPT ![u] = "line"] /\ UNCHANGED level
          /\ gate' = [gate EXCEPT ![k].line = IF front[u] THEN <<u>> \o @ ELSE Append(@, u)]
      BY <1>2, <2>2 DEF Enter
    <3>2. GatesInv' /\ \A x \in Gate : Holders(x)' = Holders(x)
      BY <1>t, <2>0, <2>2, <3>1, QueueingKeeps
    <3> QED
      BY <1>o, <3>2 DEF InOrder
  <2> QED
    BY <2>1, <2>2
<1>13. ASSUME NEW u \in User, Tally(u) PROVE GatesInv' /\ InOrder
  <2> DEFINE k == NextGate(u)
  <2>1. /\ pc[u] \in {"start", "chat"} /\ k \in Gate /\ Tallied(k, u)
        /\ gate' = [gate EXCEPT ![k] = TallyEnters(@)] /\ Advance(u)
    BY <1>13 DEF Tally, GoesOn
  <2>2. GatesInv' /\ \A x \in Gate : \A v \in Holders(x)' \ Holders(x) : v = u /\ x = k
    BY <1>t, <2>1, TallyKeeps
  <2> HIDE DEF k
  <2> QED
    BY <1>o, <2>1, <2>2 DEF InOrder
<1>14. ASSUME NEW u \in User, Defer(u) \/ Knock(u) PROVE GatesInv' /\ InOrder
  <2>1. UNCHANGED <<gate, level>> /\ \A v \in User : v # u => pc'[v] = pc[v]
    BY <1>14, <1>t DEF Defer, Knock, DispatchTypeOK
  <2>2. pc[u] \in {"start", "chat"} /\ (pc'[u] = "chat" \/ (pc'[u] = "door" /\ NextGate(u) = Door))
    BY <1>14, <1>t DEF Defer, Knock, GoesOn, DispatchTypeOK
  <2> QED
    BY <2>1, <2>2, <1>a
<1>3. ASSUME NEW u \in User, Wake(u) \/ Admitted(u) PROVE GatesInv' /\ InOrder
  BY <1>3, <1>t, <1>o, GoingOnKeeps DEF InOrder
<1>4. ASSUME NEW u \in User, GiveUp(u) \/ Interrupted(u) \/ Answered(u) \/ Refused(u) PROVE GatesInv' /\ InOrder
  BY <1>4, <1>b DEF GiveUp, Interrupted, Answered, Refused
<1>5. ASSUME NEW c \in Caller, CallerGone(c) PROVE GatesInv' /\ InOrder
  BY <1>5, <1>b, <1>u DEF CallerGone
<1>6. ASSUME NEW u \in User, Retry(u) \/ HandleStop(u) PROVE GatesInv' /\ InOrder
  <2>1. UNCHANGED <<gate, level>> /\ \A v \in User : v # u => pc'[v] = pc[v]
    BY <1>6, <1>t DEF Retry, HandleStop, DispatchTypeOK
  <2>2. /\ pc[u] \in {"between", "start"} /\ pc'[u] \in {"out", "over", "start"} /\ level[u] = 0
    BY <1>6, <1>t, <1>z DEF Retry, HandleStop, DispatchTypeOK
  <2> QED
    BY <2>1, <2>2, <1>a
<1>7. ASSUME NEW c \in Caller, Arrive(c) PROVE GatesInv' /\ InOrder
  <2>1. UNCHANGED <<gate, level>> /\ pc[c] = "out" /\ pc'[c] = "start" /\ \A v \in User : v # c => pc'[v] = pc[v]
    BY <1>7, <1>t, <1>u DEF Arrive, DispatchTypeOK
  <2> QED
    BY <2>1, <1>a, <1>z, <1>u
<1>8. CASE ClaimAnswered
  <2>1. UNCHANGED <<gate, level>> /\ pass.claiming \in Row /\ pc[pass.claiming] \in {"out", "over"}
    BY <1>8, <1>t, <1>u DEF ClaimAnswered, DispatchTypeOK, RepresentInv, Running
  <2>2. pc' = pc \/ pc' = [pc EXCEPT ![pass.claiming] = "start"]
    BY <1>8 DEF ClaimAnswered
  <2>3. \A v \in User : pc'[v] = pc[v] \/ (v = pass.claiming /\ pc'[v] = "start")
    BY <2>2, <1>t DEF DispatchTypeOK
  <2> QED
    BY <2>1, <2>3, <1>a, <1>z, <1>u
<1>9. ASSUME UNCHANGED <<pc, gate, level>> PROVE GatesInv' /\ InOrder
  BY <1>9, <1>a
<1>10. ASSUME NEW u \in User, CancelRun(u) \/ Yield(u) PROVE GatesInv' /\ InOrder
  BY <1>10, <1>9 DEF CancelRun, Yield, Stop
<1>11. ASSUME NEW r \in Row, Launch(r) \/ CancelQueued(r) \/ LeaseLost(r) \/ TakenElsewhere(r) \/ BackFromElsewhere(r)
       PROVE  GatesInv' /\ InOrder
  BY <1>11, <1>9 DEF Launch, CancelQueued, LeaseLost, Stop, TakenElsewhere, BackFromElsewhere, gvars
<1>12. CASE ChatTurns \/ StaggerEnds \/ PassStarts \/ PassClaims \/ PassEnds
  <2>1. ChatTurns \/ StaggerEnds => UNCHANGED <<pc, gate, level>>
    BY DEF ChatTurns, StaggerEnds, gvars
  <2>2. PassStarts \/ PassEnds => UNCHANGED <<pc, gate, level>>
    BY DEF PassStarts, PassEnds, gvars
  <2>3. PassClaims => UNCHANGED <<pc, gate, level>>
    BY DEF PassClaims, gvars
  <2> QED
    BY <1>12, <2>1, <2>2, <2>3, <1>9
<1> QED
  BY <1>1, <1>2, <1>3, <1>4, <1>5, <1>6, <1>7, <1>8, <1>10, <1>11, <1>12, <1>13, <1>14
     DEF Next, Runs, Passes

LEMMA InitGInv == Init => GInv
<1> SUFFICES ASSUME Init PROVE PlainTypes /\ GatesInv
  BY InitRInv DEF GInv
<1>1. PlainTypes
  BY GateAssumption DEF Init, PlainTypes
<1>2. level \in [User -> Nat] /\ LevelInv
  <2>1. \A u \in User : Len(Path[u]) \in Nat \ {0}
    <3> SUFFICES ASSUME NEW u \in User PROVE Len(Path[u]) \in Nat \ {0}
      OBVIOUS
    <3>1. Path[u] \in Seq(Gate \cup {Door}) /\ Path[u] # <<>>
      BY GateAssumption
    <3> QED
      BY <3>1, LenProperties, EmptySeq
  <2> QED
    BY <2>1 DEF Init, LevelInv
<1>3. ASSUME NEW k \in Gate PROVE GateFits(k) /\ gate[k] \in [line : Seq(User), inFlight : Nat, used : Nat]
  <2>1. gate[k] = [line |-> <<>>, inFlight |-> 0, used |-> 0]
    BY DEF Init
  <2>2. Holders(k) = {} /\ Waiting(k) = {}
    BY DEF Init, Holders, HeldBy, Waiting
  <2>3. Counts(k, gate[k], Holders(k))
    <3>1. SumOf(k, {}) = 0 /\ IsFiniteSet({}) /\ Cardinality({}) = 0 /\ CountedOf(k, {}) = {}
      BY FS_EmptySet, SumOfAdd DEF CountedOf
    <3>2. Concurrent[k] \in Nat /\ Budget[k] \in Nat
      BY GateAssumption
    <3>3. Counts(k, gate[k], {})
      <4>1. gate[k].inFlight = 0 /\ gate[k].used = 0
        BY <2>1
      <4> QED
        BY <3>1, <3>2, <4>1 DEF Counts
    <3> QED
      BY <2>2, <3>3
  <2>4. Stuck(k, gate[k]) /\ IsInjective(gate[k].line) /\ ToSet(gate[k].line) = {}
        /\ gate[k] \in [line : Seq(User), inFlight : Nat, used : Nat]
    BY <2>1 DEF Stuck, IsInjective, ToSet
  <2> QED
    BY <2>2, <2>3, <2>4 DEF GateFits
<1>4. gate \in [Gate -> [line : Seq(User), inFlight : Nat, used : Nat]]
  <2>1. gate = [k \in Gate |-> gate[k]]
    BY DEF Init
  <2> QED
    BY <2>1, <1>3
<1> QED
  BY <1>1, <1>2, <1>3, <1>4 DEF GatesInv

LEMMA GInvAlways == Spec => []GInv
<1>1. GInv /\ [Next]_vars => GInv'
  BY RInvStep, PlainTypesStep, GatesStep DEF GInv
<1> QED
  BY <1>1, InitGInv, PTL DEF Spec

-----------------------------------------------------------------------------
\* _counted, _release, _forget, _grant_waiters, _tallied: however waits and
\* holds end, a gate has in flight just those who hold it, tallied ones too, and
\* those its own count let in are within its limits.
THEOREM GateCountsAlways == Spec => []GateCountsItsHolders
<1>1. GInv => GateCountsItsHolders
  <2> SUFFICES ASSUME GInv PROVE GateCountsItsHolders
    OBVIOUS
  <2>1. GateTypeOK
    BY UserGates DEF GInv, RInv, DispatchTypeOK, PlainTypes, GatesInv, LevelInv, GateTypeOK
  <2>2. ASSUME NEW k \in Gate
        PROVE  /\ gate[k].inFlight = Cardinality(Holders(k)) /\ Cardinality(Own(k)) <= Concurrent[k]
               /\ gate[k].used = SumOf(k, Own(k))
               /\ Budget[k] > 0 => gate[k].used <= Budget[k]
    <3>1. Own(k) = CountedOf(k, Holders(k))
      BY DEF Own, CountedOf
    <3> QED
      BY <3>1 DEF GInv, GatesInv, GateFits, Counts
  <2> QED
    BY <2>1, <2>2 DEF GateCountsItsHolders, SumOf
<1> QED
  BY <1>1, GInvAlways, PTL

\* _grant_waiters: every gate's line holds just those who wait at it, each once,
\* and at a gate without tallied holders (all but main.extended) nobody waits
\* while there is room for the head of the line.
THEOREM NoGrantMissedAlways == Spec => []NoGrantMissed
<1>1. GInv => NoGrantMissed
  BY DEF GInv, GatesInv, GateFits, Stuck, Waiting, NoGrantMissed
<1> QED
  BY <1>1, GInvAlways, PTL

\* _counted, _grant_waiters: nobody is counted in at a gate before those who
\* stood in its line before, but who comes back from a yield; whom _tallied lets
\* past the line of main.extended is not counted in.
THEOREM ServedInOrderAlways == Spec => ServedInOrder
<1>1. GInv /\ [Next]_vars => [InOrder]_vars
  BY GatesStep DEF GInv
<1> QED
  BY <1>1, GInvAlways, PTL DEF Spec, ServedInOrder, InOrder

=============================================================================
