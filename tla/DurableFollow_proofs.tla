------------------------ MODULE DurableFollow_proofs ------------------------
(***************************************************************************)
(* Proofs about DurableFollow, for any responses, clients, caps, tails and  *)
(* pages: a follower gets every record after its position, and a stream     *)
(* that ends without an error has ended after the last record of a settled  *)
(* response, but for those the two properties name.                         *)
(*                                                                          *)
(* A follower of the log has been queued everything up to `queued`, and     *)
(* what a poll under way brings begins there or before (Fits): a follower   *)
(* that joins later has the flag `late`.                                    *)
(*                                                                          *)
(* The follower cap needs little of that: whoever follows has started after *)
(* some and before others, and that is an order (CapInv), so of a finite    *)
(* set of readers one is the oldest.                                        *)
(***************************************************************************)
EXTENDS DurableFollow, SequenceTheorems, FiniteSetTheorems, WellFoundedInduction, TLAPS

Page == [upto : Nat, settled : BOOLEAN, free : BOOLEAN]
Poll(S, T) == [st : {"idle", "sent", "read", "apply", "claim"}, after : [S -> Nat],
               res : [T -> Page], todo : SUBSET Resp, rid : Resp \cup {"none"}]

StoreType ==
  /\ last \in [Resp -> Nat] /\ settled \in [Resp -> BOOLEAN]
  /\ owner \in [Resp -> {"here", "there", "none"}]
  /\ obj \in [Resp -> Seq(RunObject)] /\ runs \in [Resp -> Nat] /\ leaving \in [Resp -> Nat]
  /\ \A r \in Resp : runs[r] <= Len(obj[r]) /\ leaving[r] <= Len(obj[r])

\* A Run has not more than the store, all of it once it settled the row, and
\* its memory has all of it once it is terminal, unless it was refused.
RunOK(o, n, s) ==
  /\ o.committed <= o.sent /\ o.sent <= n
  /\ o.fin => s /\ o.sent = n
  /\ o.terminal => o.refused \/ (o.fin /\ o.committed = o.sent)

StoreInv ==
  /\ StoreType
  /\ \A r \in Resp : /\ settled[r] => owner[r] = "none"
                     /\ \A k \in 1..Len(obj[r]) : RunOK(obj[r][k], last[r], settled[r])

FollowerOK(f) ==
  /\ f \in Follower
  /\ f.st # "idle" => f.rid \in Resp /\ f.k <= Len(obj[f.rid]) /\ f.pos <= last[f.rid]
  /\ f.start <= f.pos
  /\ ~f.late => Unbroken(f)
  /\ f.st \in {"local", "reading"} => f.k # 0
  /\ f.st = "remote" =>
       /\ f.queued <= last[f.rid] /\ \A n \in f.q : n <= f.queued
       /\ ~f.late => /\ f.pos <= f.queued
                     /\ f.pos + 1..f.queued \subseteq f.q
                     /\ f.mark = "end" => settled[f.rid] /\ f.queued = last[f.rid]
  /\ f.st = "ended" => f.late \/ Misled(f) \/ (settled[f.rid] /\ f.pos = last[f.rid])

\* What a poll under way will bring.
PageOK(r) ==
  /\ poll.res[r].upto <= last[r]
  /\ poll.res[r].settled =>
       settled[r] /\ poll.res[r].upto = Least(last[r], poll.after[r] + PollLimit)

PollInv ==
  /\ \E S, T \in SUBSET Resp : poll \in Poll(S, T)
  /\ \A r \in DOMAIN poll.after : poll.after[r] <= last[r]
  /\ poll.st \in {"read", "apply", "claim"} =>
       DOMAIN poll.res = DOMAIN poll.after /\ \A r \in DOMAIN poll.res : PageOK(r)
  /\ poll.st = "claim" => poll.rid \in Resp

\* It fits what this follower was queued before, or is not for it.
Fits(f) ==
  f.st = "remote" /\ ~f.late /\ PollUnderWay(f.rid) =>
    /\ f.rid \in DOMAIN poll.after => poll.after[f.rid] <= f.queued
    /\ f.mark = "none" => f.rid \in DOMAIN poll.after

ClientInv == /\ client \in [Client -> Follower]
             /\ \A c \in Client : FollowerOK(client[c]) /\ Fits(client[c])

FInv == StoreInv /\ PollInv /\ ClientInv
-----------------------------------------------------------------------------
(* The least and the greatest of a set of numbers.                          *)

LEMMA LeastIsThere ==
  ASSUME NEW S \in SUBSET Nat, S # {}
  PROVE  LeastOf(S) \in S /\ \A k \in S : LeastOf(S) <= k
<1> DEFINE Below == {p \in Nat \X Nat : p[1] < p[2]}
<1>1. IsWellFoundedOn(Below, Nat)
  BY NatLessThanWellFounded, Zenon DEF OpToRel
<1>2. PICK n \in S : \A k \in S : ~ (<<k, n>> \in Below)
  <2> HIDE DEF Below
  <2> QED
    BY <1>1, WFMin
<1>3. \A k \in S : n <= k
  <2> SUFFICES ASSUME NEW k \in S, ~ (n <= k) PROVE FALSE
    OBVIOUS
  <2>1. n \in Nat /\ k \in Nat /\ k < n
    OBVIOUS
  <2>2. <<k, n>> \in Below
    BY <2>1
  <2> QED
    BY <1>2, <2>2
<1>4. QED
  BY <1>2, <1>3 DEF LeastOf

LEMMA MostOfRange ==
  ASSUME NEW m \in Nat, NEW n \in Nat, m < n
  PROVE  MostOf(m + 1..n) = n
<1>1. n \in m + 1..n /\ \A k \in m + 1..n : k <= n
  OBVIOUS
<1>2. \A x \in m + 1..n : (\A k \in m + 1..n : k <= x) => x = n
  BY <1>1
<1>3. QED
  BY <1>1, <1>2 DEF MostOf

LEMMA MostOfOne ==
  ASSUME NEW n \in Nat
  PROVE  MostOf({n}) = n
  BY DEF MostOf

\* A follower that is handed the next records, up to n, has all up to n.
LEMMA GivenNext ==
  ASSUME NEW f \in Follower, NEW n \in Nat, f.pos < n
  PROVE  LET g == Given(f, f.pos + 1..n)
         IN /\ g = [f EXCEPT !.got = f.got \cup (f.pos + 1..n), !.pos = n]
            /\ f.start <= f.pos /\ Unbroken(f) => Unbroken(g)
<1>1. f.pos \in Nat /\ f.start \in Nat
  BY DEF Follower
<1>2. n \in f.pos + 1..n
  BY <1>1
<1>3. Given(f, f.pos + 1..n) = [f EXCEPT !.got = f.got \cup (f.pos + 1..n), !.pos = n]
  BY <1>1, <1>2, MostOfRange DEF Given, Follower
<1>4. ASSUME f.start <= f.pos PROVE (f.start + 1..f.pos) \cup (f.pos + 1..n) = f.start + 1..n
  BY <1>1, <1>4
<1>5. QED
  BY <1>1, <1>3, <1>4 DEF Unbroken, Follower

-----------------------------------------------------------------------------
LEMMA InitFInv == Init => FInv
<1> SUFFICES ASSUME Init PROVE FInv
  OBVIOUS
<1>1. StoreInv
  BY DEF Init, StoreInv, StoreType
<1>2. PollInv
  <2>1. NoPoll \in Poll({}, {})
    BY DEF NoPoll, Poll
  <2>2. QED
    BY <2>1 DEF Init, PollInv, NoPoll
<1>3. ClientInv
  <2>1. Idle \in Follower
    BY DEF Idle, Follower
  <2>2. Unbroken(Idle)
    BY DEF Idle, Unbroken
  <2>3. FollowerOK(Idle) /\ Fits(Idle)
    BY <2>1, <2>2 DEF FollowerOK, Fits, Idle
  <2>4. QED
    BY <2>1, <2>3 DEF Init, ClientInv
<1>4. QED
  BY <1>1, <1>2, <1>3 DEF FInv

-----------------------------------------------------------------------------
(* The store and the Runs go on.                                            *)

\* What followers rely on: the log grows, a settled one does not, and a Run
\* that was refused stays so.
Forward ==
  \A r \in Resp :
    /\ last[r] <= last'[r]
    /\ settled[r] => settled'[r] /\ last'[r] = last[r]
    /\ Len(obj[r]) <= Len(obj'[r])
    /\ \A k \in 1..Len(obj[r]) : obj[r][k].refused => obj'[r][k].refused

LEMMA FollowerKept ==
  ASSUME StoreType, StoreType', Forward, NEW f, FollowerOK(f)
  PROVE  FollowerOK(f)'
<1>1. f \in Follower
  BY DEF FollowerOK
<1>2. f.st = "idle" \/ (f.rid \in Resp /\ f.k <= Len(obj[f.rid]) /\ f.pos <= last[f.rid])
  BY DEF FollowerOK
<1>3. CASE f.st = "idle"
  BY <1>1, <1>3 DEF FollowerOK, Unbroken
<1>4. CASE f.rid \in Resp /\ f.k <= Len(obj[f.rid]) /\ f.pos <= last[f.rid]
  <2> DEFINE r == f.rid
  <2>1. /\ last[r] \in Nat /\ last'[r] \in Nat /\ Len(obj[r]) \in Nat /\ Len(obj'[r]) \in Nat
        /\ f.k \in Nat /\ f.pos \in Nat /\ f.queued \in Nat /\ f.q \subseteq Nat
    BY <1>1, <1>4 DEF StoreType, Follower
  <2>2. f.k <= Len(obj'[r]) /\ f.pos <= last'[r]
    BY <1>4, <2>1 DEF Forward
  <2>3. Misled(f) => Misled(f)'
    <3>1. f.k # 0 => f.k \in 1..Len(obj[r])
      BY <1>4, <2>1
    <3>2. QED
      BY <1>4, <3>1 DEF Misled, Forward
  <2>4. f.st = "remote" => f.queued <= last'[r] /\ \A n \in f.q : n <= f.queued
    <3>1. f.st = "remote" => f.queued <= last[r] /\ \A n \in f.q : n <= f.queued
      BY <1>4 DEF FollowerOK
    <3>2. last[r] <= last'[r]
      BY <1>4 DEF Forward
    <3>3. QED
      BY <2>1, <3>1, <3>2
  <2>5. f.st = "remote" /\ ~f.late =>
          /\ f.pos <= f.queued /\ f.pos + 1..f.queued \subseteq f.q
          /\ f.mark = "end" => settled'[r] /\ f.queued = last'[r]
    BY <1>4, <2>1 DEF FollowerOK, Forward
  <2>6. f.st = "ended" => f.late \/ Misled(f)' \/ (settled'[r] /\ f.pos = last'[r])
    BY <1>4, <2>3 DEF FollowerOK, Forward
  <2>7. QED
    BY <1>1, <1>4, <2>2, <2>4, <2>5, <2>6 DEF FollowerOK, Unbroken
<1>5. QED
  BY <1>2, <1>3, <1>4

LEMMA PagesKept ==
  ASSUME StoreType, StoreType', Forward, PollInv, poll' = poll
  PROVE  PollInv'
<1>1. PICK S \in SUBSET Resp, T \in SUBSET Resp : poll \in Poll(S, T)
  BY DEF PollInv
<1>2. DOMAIN poll.after = S /\ DOMAIN poll.res = T
  BY <1>1 DEF Poll
<1>3. \A r \in S : poll.after[r] <= last'[r]
  <2> SUFFICES ASSUME NEW r \in S PROVE poll.after[r] <= last'[r]
    OBVIOUS
  <2>1. poll.after[r] \in Nat /\ last[r] \in Nat /\ last'[r] \in Nat /\ r \in Resp
    BY <1>1 DEF Poll, StoreType
  <2>2. poll.after[r] <= last[r] /\ last[r] <= last'[r]
    BY <1>2, <2>1 DEF PollInv, Forward
  <2>3. QED
    BY <2>1, <2>2
<1>4. ASSUME NEW r \in T, PageOK(r) PROVE PageOK(r)'
  <2>1. poll.res[r].upto \in Nat /\ last[r] \in Nat /\ last'[r] \in Nat /\ r \in Resp
    BY <1>1 DEF Poll, Page, StoreType
  <2>2. last[r] <= last'[r] /\ (settled[r] => settled'[r] /\ last'[r] = last[r])
    BY <2>1 DEF Forward
  <2>3. QED
    BY <1>4, <2>1, <2>2 DEF PageOK
<1>5. QED
  BY <1>1, <1>2, <1>3, <1>4 DEF PollInv

LEMMA FollowersKept ==
  ASSUME FInv, StoreInv', Forward, UNCHANGED Readers
  PROVE  FInv'
<1>1. PollInv'
  BY PagesKept DEF FInv, StoreInv, Readers
<1>2. ASSUME NEW c \in Client PROVE FollowerOK(client[c])'
  <2>1. FollowerOK(client[c])
    BY DEF FInv, ClientInv
  <2>2. \A f : FollowerOK(f) => FollowerOK(f)'
    BY FollowerKept DEF FInv, StoreInv
  <2>3. client'[c] = client[c]
    BY DEF Readers
  <2>4. QED
    BY <2>1, <2>2, <2>3 DEF FollowerOK, Misled, Unbroken
<1>3. ASSUME NEW c \in Client PROVE Fits(client[c])'
  BY DEF FInv, ClientInv, Fits, PollUnderWay, Readers
<1>4. QED
  BY <1>1, <1>2, <1>3 DEF FInv, ClientInv, Readers

-----------------------------------------------------------------------------
(* The steps of the Runs and of the other processes.                        *)

\* The k-th Run of r becomes o.
Replaced(r, k, o) == obj' = [obj EXCEPT ![r][k] = o]

LEMMA OneRun ==
  ASSUME StoreType, NEW r \in Resp, NEW k \in 1..Len(obj[r]), NEW o \in RunObject,
         Replaced(r, k, o)
  PROVE  /\ obj' \in [Resp -> Seq(RunObject)]
         /\ \A q \in Resp : Len(obj'[q]) = Len(obj[q])
         /\ \A q \in Resp : \A j \in 1..Len(obj[q]) :
              obj'[q][j] = IF q = r /\ j = k THEN o ELSE obj[q][j]
<1>1. obj[r] \in Seq(RunObject)
  BY DEF StoreType
<1>2. /\ [obj[r] EXCEPT ![k] = o] \in Seq(RunObject)
      /\ Len([obj[r] EXCEPT ![k] = o]) = Len(obj[r])
      /\ \A j \in 1..Len(obj[r]) : [obj[r] EXCEPT ![k] = o][j] = IF j = k THEN o ELSE obj[r][j]
  BY <1>1, ExceptSeq
<1>3. obj' = [obj EXCEPT ![r] = [obj[r] EXCEPT ![k] = o]]
  BY DEF Replaced
<1>4. QED
  BY <1>2, <1>3 DEF StoreType

\* The row of r stays as it is, is extended or settles: n records, settled or not.
RowGoesTo(r, n, s) ==
  /\ last' = [last EXCEPT ![r] = n] /\ last[r] <= n
  /\ settled' = [settled EXCEPT ![r] = s] /\ (settled[r] => s /\ n = last[r])
  /\ owner' = owner \/ (s /\ owner' = [owner EXCEPT ![r] = "none"])
  /\ s => owner'[r] = "none"

RunsStayOrLeave ==
  /\ runs' \in [Resp -> Nat] /\ \A q \in Resp : runs'[q] \in {0, runs[q]}
  /\ leaving' = leaving

LEMMA RowIs ==
  ASSUME StoreInv, NEW r \in Resp, NEW n \in Nat, NEW s \in BOOLEAN, RowGoesTo(r, n, s)
  PROVE  /\ last' \in [Resp -> Nat] /\ settled' \in [Resp -> BOOLEAN]
         /\ owner' \in [Resp -> {"here", "there", "none"}]
         /\ \A q \in Resp : /\ last'[q] = IF q = r THEN n ELSE last[q]
                            /\ settled'[q] = IF q = r THEN s ELSE settled[q]
                            /\ settled'[q] => owner'[q] = "none"
                            /\ last[q] <= last'[q]
                            /\ settled[q] => settled'[q] /\ last'[q] = last[q]
<1>1. /\ last \in [Resp -> Nat] /\ settled \in [Resp -> BOOLEAN]
      /\ owner \in [Resp -> {"here", "there", "none"}]
      /\ \A q \in Resp : settled[q] => owner[q] = "none"
  BY DEF StoreInv, StoreType
<1>2. /\ last' = [last EXCEPT ![r] = n] /\ last[r] <= n
      /\ settled' = [settled EXCEPT ![r] = s] /\ (settled[r] => s /\ n = last[r])
      /\ owner' = owner \/ owner' = [owner EXCEPT ![r] = "none"]
      /\ s => owner'[r] = "none"
  BY DEF RowGoesTo
<1>3. ASSUME NEW q \in Resp, settled'[q] PROVE owner'[q] = "none"
  BY <1>1, <1>2, <1>3
<1>4. owner' \in [Resp -> {"here", "there", "none"}]
  BY <1>1, <1>2
<1>5. last' \in [Resp -> Nat] /\ settled' \in [Resp -> BOOLEAN]
  BY <1>1, <1>2
<1>6. ASSUME NEW q \in Resp
      PROVE  /\ last'[q] = IF q = r THEN n ELSE last[q]
             /\ settled'[q] = IF q = r THEN s ELSE settled[q]
             /\ last[q] <= last'[q]
  BY <1>1, <1>2
<1>7. ASSUME NEW q \in Resp, settled[q] PROVE settled'[q] /\ last'[q] = last[q]
  BY <1>1, <1>2, <1>7
<1>8. QED
  BY <1>3, <1>4, <1>5, <1>6, <1>7

LEMMA OneRunKeeps ==
  ASSUME StoreInv, NEW r \in Resp, NEW k \in 1..Len(obj[r]), NEW o \in RunObject,
         Replaced(r, k, o), obj[r][k].refused => o.refused,
         NEW n \in Nat, NEW s \in BOOLEAN, RowGoesTo(r, n, s), RunOK(o, n, s),
         RunsStayOrLeave
  PROVE  StoreInv' /\ Forward
<1>1. /\ obj' \in [Resp -> Seq(RunObject)]
      /\ \A q \in Resp : Len(obj'[q]) = Len(obj[q])
      /\ \A q \in Resp : \A j \in 1..Len(obj[q]) :
           obj'[q][j] = IF q = r /\ j = k THEN o ELSE obj[q][j]
  <2>1. StoreType
    BY DEF StoreInv
  <2> QED BY <2>1, OneRun
<1>2. /\ last' \in [Resp -> Nat] /\ settled' \in [Resp -> BOOLEAN]
      /\ owner' \in [Resp -> {"here", "there", "none"}]
      /\ \A q \in Resp : /\ last'[q] = IF q = r THEN n ELSE last[q]
                         /\ settled'[q] = IF q = r THEN s ELSE settled[q]
                         /\ settled'[q] => owner'[q] = "none"
                         /\ last[q] <= last'[q]
                         /\ settled[q] => settled'[q] /\ last'[q] = last[q]
  BY RowIs
<1>3. /\ runs' \in [Resp -> Nat] /\ \A q \in Resp : runs'[q] \in {0, runs[q]}
      /\ leaving' = leaving
  BY DEF RunsStayOrLeave
<1>4. /\ \A q \in Resp : /\ obj[q] \in Seq(RunObject) /\ Len(obj[q]) \in Nat
                         /\ runs[q] <= Len(obj[q]) /\ leaving[q] <= Len(obj[q])
                         /\ \A j \in 1..Len(obj[q]) : RunOK(obj[q][j], last[q], settled[q])
      /\ leaving \in [Resp -> Nat] /\ last \in [Resp -> Nat]
  BY DEF StoreInv, StoreType
<1>5. StoreType'
  <2>1. ASSUME NEW q \in Resp PROVE runs'[q] <= Len(obj'[q]) /\ leaving'[q] <= Len(obj'[q])
    <3>1. /\ Len(obj'[q]) = Len(obj[q]) /\ runs'[q] \in {0, runs[q]} /\ leaving'[q] = leaving[q]
          /\ Len(obj[q]) \in Nat /\ runs[q] <= Len(obj[q]) /\ leaving[q] <= Len(obj[q])
      BY <1>1, <1>3, <1>4
    <3>2. QED
      BY <3>1
  <2>2. QED
    BY <1>1, <1>2, <1>3, <1>4, <2>1 DEF StoreType
<1>6. ASSUME NEW q \in Resp, NEW j \in 1..Len(obj[q])
      PROVE  RunOK(obj'[q][j], last'[q], settled'[q])
  <2>1. CASE q = r /\ j = k
    BY <1>1, <1>2, <2>1
  <2>2. CASE q = r /\ j # k
    <3>1. obj'[q][j] = obj[q][j] /\ last'[q] = n /\ settled'[q] = s
      BY <1>1, <1>2, <2>2
    <3>2. obj[q][j] \in RunObject /\ last[q] \in Nat /\ RunOK(obj[q][j], last[q], settled[q])
      BY <1>4, ElementOfSeq
    <3>3. last[q] <= n /\ (settled[q] => s /\ n = last[q])
      BY <1>2, <2>2
    <3>4. QED
      BY <3>1, <3>2, <3>3 DEF RunOK, RunObject
  <2>3. CASE q # r
    <3>1. obj'[q][j] = obj[q][j] /\ last'[q] = last[q] /\ settled'[q] = settled[q]
      BY <1>1, <1>2, <2>3
    <3>2. QED
      BY <3>1, <1>4
  <2>4. QED
    BY <2>1, <2>2, <2>3
<1>7. Forward
  <2>1. ASSUME NEW q \in Resp, NEW j \in 1..Len(obj[q]), obj[q][j].refused
        PROVE  obj'[q][j].refused
    BY <1>1, <2>1
  <2>2. QED
    BY <1>1, <1>2, <1>4, <2>1 DEF Forward
<1>8. QED
  BY <1>1, <1>2, <1>5, <1>6, <1>7 DEF StoreInv

\* Runs leave, or a new one is entered; the log and the objects stay.
LEMMA RunsMoveKeeps ==
  ASSUME StoreInv, UNCHANGED <<last, settled, owner, obj, leaving>>,
         runs' \in [Resp -> Nat], \A q \in Resp : runs'[q] <= Len(obj[q])
  PROVE  StoreInv' /\ Forward
  BY DEF StoreInv, StoreType, Forward

LEMMA LocalIs ==
  ASSUME StoreInv, NEW r \in Resp, LiveHere(r)
  PROVE  /\ runs[r] \in 1..Len(obj[r]) /\ Local(r) \in RunObject /\ ~Local(r).terminal
         /\ Local(r) = obj[r][runs[r]] /\ RunOK(Local(r), last[r], settled[r])
<1>1. runs[r] \in Nat /\ runs[r] # 0 /\ runs[r] <= Len(obj[r]) /\ obj[r] \in Seq(RunObject)
  BY DEF StoreInv, StoreType, LiveHere
<1>2. runs[r] \in 1..Len(obj[r])
  BY <1>1
<1>3. QED
  BY <1>1, <1>2 DEF Local, LiveHere, StoreInv

LEMMA StartsKeeps ==
  ASSUME StoreInv, NEW r \in Resp, Starts(r)
  PROVE  StoreInv' /\ Forward
<1> DEFINE new == RunAt(last[r])
<1>1. new \in RunObject /\ RunOK(new, last[r], settled[r])
  BY DEF RunAt, RunObject, RunOK, StoreInv, StoreType
<1>2. obj[r] \in Seq(RunObject) /\ Len(obj[r]) \in Nat /\ obj' = [obj EXCEPT ![r] = Append(obj[r], new)]
  BY DEF StoreInv, StoreType, Starts
<1>3. /\ Append(obj[r], new) \in Seq(RunObject)
      /\ Len(Append(obj[r], new)) = Len(obj[r]) + 1
      /\ \A k \in 1..Len(obj[r]) : Append(obj[r], new)[k] = obj[r][k]
      /\ Append(obj[r], new)[Len(obj[r]) + 1] = new
  BY <1>1, <1>2, AppendProperties
<1> HIDE DEF new
<1>4. ASSUME NEW q \in Resp
      PROVE  /\ Len(obj[q]) \in Nat /\ Len(obj'[q]) \in Nat /\ Len(obj[q]) <= Len(obj'[q])
             /\ runs'[q] <= Len(obj'[q]) /\ leaving'[q] <= Len(obj'[q])
             /\ \A k \in 1..Len(obj[q]) : obj'[q][k] = obj[q][k]
             /\ settled'[q] => owner'[q] = "none"
             /\ \A k \in 1..Len(obj'[q]) : RunOK(obj'[q][k], last'[q], settled'[q])
  <2>1. /\ Len(obj[q]) \in Nat /\ runs[q] \in Nat /\ leaving[q] \in Nat
        /\ runs[q] <= Len(obj[q]) /\ leaving[q] <= Len(obj[q])
        /\ \A k \in 1..Len(obj[q]) : RunOK(obj[q][k], last[q], settled[q])
        /\ settled[q] => owner[q] = "none"
    BY DEF StoreInv, StoreType
  <2>2. /\ last' = last /\ settled' = settled /\ leaving' = leaving /\ ~settled[r]
        /\ owner' = [owner EXCEPT ![r] = "here"] /\ runs' = [runs EXCEPT ![r] = Len(obj[r]) + 1]
    BY DEF Starts
  <2>3. CASE q = r
    <3>1. obj'[q] = Append(obj[r], new) /\ runs'[q] = Len(obj[r]) + 1
      BY <1>2, <2>2, <2>3 DEF StoreInv, StoreType
    <3>2. ASSUME NEW k \in 1..Len(obj[r]) + 1 PROVE RunOK(obj'[q][k], last[q], settled[q])
      <4>1. k \in 1..Len(obj[r]) \/ k = Len(obj[r]) + 1
        BY <1>2
      <4>2. QED
        BY <4>1, <3>1, <1>1, <1>3, <2>1, <2>3
    <3>3. QED
      BY <1>3, <2>1, <2>2, <2>3, <3>1, <3>2
  <2>4. CASE q # r
    BY <1>2, <2>1, <2>2, <2>4 DEF StoreInv, StoreType
  <2>5. QED
    BY <2>3, <2>4
<1>5. StoreType'
  <2>1. obj' \in [Resp -> Seq(RunObject)]
    BY <1>2, <1>3 DEF StoreInv, StoreType
  <2>2. QED
    BY <2>1, <1>2, <1>4 DEF StoreInv, StoreType, Starts
<1>6. Forward
  BY <1>4 DEF Forward, StoreInv, StoreType, Starts
<1>7. QED
  BY <1>4, <1>5, <1>6 DEF StoreInv

\* A row that stays.
LEMMA RowStays ==
  ASSUME StoreInv, NEW r \in Resp, UNCHANGED store
  PROVE  last[r] \in Nat /\ settled[r] \in BOOLEAN /\ RowGoesTo(r, last[r], settled[r])
  BY DEF StoreInv, StoreType, RowGoesTo, store

LEMMA RunsStay ==
  ASSUME StoreInv, UNCHANGED <<runs, leaving>>
  PROVE  RunsStayOrLeave
  BY DEF StoreInv, StoreType, RunsStayOrLeave

LEMMA OneLeaves ==
  ASSUME StoreInv, NEW r \in Resp, runs' = [runs EXCEPT ![r] = 0], leaving' = leaving
  PROVE  RunsStayOrLeave
  BY DEF StoreInv, StoreType, RunsStayOrLeave

LEMMA RunAppendsKeeps ==
  ASSUME StoreInv, NEW r \in Resp, RunAppends(r)
  PROVE  StoreInv' /\ Forward
<1> DEFINE o == [Local(r) EXCEPT !.sent = last[r] + 1]
<1>1. /\ runs[r] \in 1..Len(obj[r]) /\ Local(r) \in RunObject /\ ~Local(r).terminal
      /\ Local(r) = obj[r][runs[r]] /\ RunOK(Local(r), last[r], settled[r])
  BY LocalIs DEF RunAppends
<1>2. last[r] \in Nat /\ settled[r] = FALSE /\ last[r] + 1 \in Nat
  BY DEF StoreInv, StoreType, RunAppends
<1>3. o \in RunObject /\ RunOK(o, last[r] + 1, FALSE)
  BY <1>1, <1>2 DEF RunObject, RunOK, RunAppends
<1>4. Replaced(r, runs[r], o)
  BY DEF Replaced, RunAppends, Changed
<1>5. obj[r][runs[r]].refused => o.refused
  BY <1>1 DEF RunObject
<1>6. RowGoesTo(r, last[r] + 1, FALSE)
  BY <1>2 DEF RowGoesTo, RunAppends, StoreInv, StoreType
<1>7. RunsStayOrLeave
  BY RunsStay DEF RunAppends
<1> HIDE DEF o
<1>8. QED
  BY <1>1, <1>2, <1>3, <1>4, <1>5, <1>6, <1>7, OneRunKeeps

\* commit_inflight gives the memory what the store has.
LEMMA CommittedIs ==
  ASSUME NEW o \in RunObject, NEW n \in Nat, NEW s \in BOOLEAN, RunOK(o, n, s)
  PROVE  /\ Committed(o) \in RunObject /\ Committed(o).committed = o.sent
         /\ Committed(o).sent = o.sent /\ Committed(o).fin = o.fin
         /\ Committed(o).terminal = o.terminal /\ Committed(o).refused = o.refused
         /\ Committed(o).aborted = o.aborted /\ Committed(o).stop = o.stop
<1>1. o.sent \in Nat /\ o.first \in Nat /\ TailRecords \in Nat \ {0}
  BY FollowConstants DEF RunObject
<1>2. (IF o.sent < TailRecords THEN o.first ELSE Most(o.first, o.sent + 1 - TailRecords)) \in Nat
  BY <1>1 DEF Most
<1>3. QED
  BY <1>1, <1>2 DEF Committed, RunObject

LEMMA RunCommitsKeeps ==
  ASSUME StoreInv, NEW r \in Resp, RunCommits(r)
  PROVE  StoreInv' /\ Forward
<1> DEFINE o == Committed(Local(r))
<1>1. /\ runs[r] \in 1..Len(obj[r]) /\ Local(r) \in RunObject /\ ~Local(r).terminal
      /\ Local(r) = obj[r][runs[r]] /\ RunOK(Local(r), last[r], settled[r])
  BY LocalIs DEF RunCommits
<1>2. last[r] \in Nat /\ settled[r] \in BOOLEAN /\ RowGoesTo(r, last[r], settled[r])
  BY RowStays DEF RunCommits
<1>3. o \in RunObject /\ RunOK(o, last[r], settled[r]) /\ (obj[r][runs[r]].refused => o.refused)
  BY <1>1, <1>2, CommittedIs DEF RunOK, RunObject
<1>4. Replaced(r, runs[r], o)
  BY DEF Replaced, RunCommits, Changed
<1>5. RunsStayOrLeave
  BY RunsStay DEF RunCommits
<1> HIDE DEF o
<1>6. QED
  BY <1>1, <1>2, <1>3, <1>4, <1>5, OneRunKeeps

LEMMA RunSettledKeeps ==
  ASSUME StoreInv, NEW r \in Resp, RunSettled(r)
  PROVE  StoreInv' /\ Forward
<1> DEFINE o == [Committed(Local(r)) EXCEPT !.terminal = TRUE]
<1>1. /\ runs[r] \in 1..Len(obj[r]) /\ Local(r) \in RunObject /\ ~Local(r).terminal
      /\ Local(r) = obj[r][runs[r]] /\ RunOK(Local(r), last[r], settled[r])
  BY LocalIs DEF RunSettled
<1>2. last[r] \in Nat /\ settled[r] \in BOOLEAN /\ RowGoesTo(r, last[r], settled[r])
  BY RowStays DEF RunSettled
<1>3. /\ Committed(Local(r)) \in RunObject /\ Committed(Local(r)).committed = Local(r).sent
      /\ Committed(Local(r)).sent = Local(r).sent /\ Committed(Local(r)).fin = Local(r).fin
      /\ Committed(Local(r)).refused = Local(r).refused
  BY <1>1, <1>2, CommittedIs
<1>4. o \in RunObject /\ o.committed = Local(r).sent /\ o.sent = Local(r).sent
      /\ o.fin = Local(r).fin /\ o.refused = Local(r).refused /\ o.terminal
  BY <1>3 DEF RunObject
<1>5. Local(r).fin
  BY DEF RunSettled
<1>6. Replaced(r, runs[r], o)
  BY DEF Replaced, RunSettled, Changed
<1>7. RunsStayOrLeave
  BY RunsStay DEF RunSettled
<1> HIDE DEF o
<1>8. RunOK(o, last[r], settled[r])
  BY <1>1, <1>4, <1>5 DEF RunOK, RunObject
<1>9. QED
  BY <1>1, <1>2, <1>4, <1>6, <1>7, <1>8, OneRunKeeps

LEMMA RunRefusedKeeps ==
  ASSUME StoreInv, NEW r \in Resp, RunRefused(r)
  PROVE  StoreInv' /\ Forward
<1> DEFINE o == [Local(r) EXCEPT !.terminal = TRUE, !.refused = TRUE]
<1>1. /\ runs[r] \in 1..Len(obj[r]) /\ Local(r) \in RunObject /\ ~Local(r).terminal
      /\ Local(r) = obj[r][runs[r]] /\ RunOK(Local(r), last[r], settled[r])
  BY LocalIs DEF RunRefused
<1>2. last[r] \in Nat /\ settled[r] \in BOOLEAN /\ RowGoesTo(r, last[r], settled[r])
  BY RowStays DEF RunRefused
<1>3. o \in RunObject /\ o.refused
  BY <1>1 DEF RunObject
<1>4. RunOK(o, last[r], settled[r])
  BY <1>1 DEF RunObject, RunOK
<1>5. Replaced(r, runs[r], o)
  BY DEF Replaced, RunRefused, Changed
<1>6. RunsStayOrLeave
  BY OneLeaves DEF RunRefused
<1> HIDE DEF o
<1>7. QED
  BY <1>1, <1>2, <1>3, <1>4, <1>5, <1>6, OneRunKeeps

LEMMA LeaseLostKeeps ==
  ASSUME StoreInv, NEW r \in Resp, LeaseLost(r)
  PROVE  StoreInv' /\ Forward
<1> DEFINE o == [Local(r) EXCEPT !.stop = "lease_lost", !.aborted = TRUE]
<1>1. /\ runs[r] \in 1..Len(obj[r]) /\ Local(r) \in RunObject /\ ~Local(r).terminal
      /\ Local(r) = obj[r][runs[r]] /\ RunOK(Local(r), last[r], settled[r])
  BY LocalIs DEF LeaseLost
<1>2. last[r] \in Nat /\ settled[r] \in BOOLEAN /\ RowGoesTo(r, last[r], settled[r])
  BY RowStays DEF LeaseLost
<1>3. o \in RunObject /\ o.refused = Local(r).refused
  BY <1>1 DEF RunObject
<1>4. RunOK(o, last[r], settled[r])
  BY <1>1 DEF RunObject, RunOK
<1>5. Replaced(r, runs[r], o)
  BY DEF Replaced, LeaseLost, Changed
<1>6. RunsStayOrLeave
  BY RunsStay DEF LeaseLost
<1> HIDE DEF o
<1>7. QED
  BY <1>1, <1>2, <1>3, <1>4, <1>5, <1>6, OneRunKeeps

LEMMA RunFinishesKeeps ==
  ASSUME StoreInv, NEW r \in Resp, RunFinishes(r)
  PROVE  StoreInv' /\ Forward
<1>1. /\ runs[r] \in 1..Len(obj[r]) /\ Local(r) \in RunObject /\ ~Local(r).terminal
      /\ Local(r) = obj[r][runs[r]] /\ RunOK(Local(r), last[r], settled[r])
  BY LocalIs DEF RunFinishes
<1>2. PICK m \in {0, 1} :
        /\ last' = [last EXCEPT ![r] = last[r] + m]
        /\ obj' = Changed(r, [Local(r) EXCEPT !.sent = last[r] + m, !.fin = TRUE])
  BY DEF RunFinishes
<1> DEFINE o == [Local(r) EXCEPT !.sent = last[r] + m, !.fin = TRUE]
<1>3. last[r] \in Nat /\ settled[r] = FALSE /\ last[r] + m \in Nat /\ last[r] <= last[r] + m
  BY DEF StoreInv, StoreType, RunFinishes
<1>4. o \in RunObject /\ o.refused = Local(r).refused
  BY <1>1, <1>3 DEF RunObject
<1>5. RunOK(o, last[r] + m, TRUE)
  BY <1>1, <1>3 DEF RunObject, RunOK
<1>6. Replaced(r, runs[r], o)
  BY <1>2 DEF Replaced, Changed
<1>7. RowGoesTo(r, last[r] + m, TRUE)
  BY <1>2, <1>3 DEF RowGoesTo, RunFinishes, StoreInv, StoreType
<1>8. RunsStayOrLeave
  BY RunsStay DEF RunFinishes
<1> HIDE DEF o
<1>9. QED
  BY <1>1, <1>3, <1>4, <1>5, <1>6, <1>7, <1>8, OneRunKeeps

LEMMA RunDroppedKeeps ==
  ASSUME StoreInv, NEW r \in Resp, RunDropped(r)
  PROVE  StoreInv' /\ Forward
<1>1. runs' \in [Resp -> Nat] /\ \A q \in Resp : runs'[q] <= Len(obj[q])
  <2>1. \A q \in Resp : Len(obj[q]) \in Nat /\ runs[q] <= Len(obj[q])
    BY DEF StoreInv, StoreType
  <2>2. runs' = [runs EXCEPT ![r] = 0] /\ runs \in [Resp -> Nat]
    BY DEF RunDropped, StoreInv, StoreType
  <2>3. QED
    BY <2>1, <2>2
<1>2. QED
  BY <1>1, RunsMoveKeeps DEF RunDropped, store

\* Runs are told to stop, or aborted: what they have written stays.
SameRecords(o, p) ==
  /\ p.sent = o.sent /\ p.committed = o.committed /\ p.fin = o.fin
  /\ p.terminal = o.terminal /\ p.refused = o.refused

LEMMA StopsKeep ==
  ASSUME StoreInv, last' = last, settled' = settled,
         owner' \in [Resp -> {"here", "there", "none"}],
         \A q \in Resp : settled[q] => owner'[q] = "none",
         runs' \in [Resp -> Nat], leaving' \in [Resp -> Nat],
         \A q \in Resp : runs'[q] <= Len(obj[q]) /\ leaving'[q] <= Len(obj[q]),
         obj' \in [Resp -> Seq(RunObject)],
         \A q \in Resp : Len(obj'[q]) = Len(obj[q]),
         \A q \in Resp : \A j \in 1..Len(obj[q]) : SameRecords(obj[q][j], obj'[q][j])
  PROVE  StoreInv' /\ Forward
<1>1. /\ last \in [Resp -> Nat] /\ settled \in [Resp -> BOOLEAN]
      /\ \A q \in Resp : /\ Len(obj[q]) \in Nat
                         /\ \A j \in 1..Len(obj[q]) : RunOK(obj[q][j], last[q], settled[q])
  BY DEF StoreInv, StoreType
<1>2. StoreType'
  BY <1>1 DEF StoreType
<1>3. ASSUME NEW q \in Resp, NEW j \in 1..Len(obj[q])
      PROVE  RunOK(obj'[q][j], last[q], settled[q]) /\ obj'[q][j].refused = obj[q][j].refused
  <2>1. RunOK(obj[q][j], last[q], settled[q]) /\ SameRecords(obj[q][j], obj'[q][j])
    BY <1>1
  <2>2. QED
    BY <2>1 DEF RunOK, SameRecords
<1>4. Forward
  BY <1>1, <1>3 DEF Forward
<1>5. QED
  BY <1>1, <1>2, <1>3, <1>4 DEF StoreInv

\* One field of the k-th Run of a response that is not about its records.
LEMMA StoppedIs ==
  ASSUME NEW s \in Seq(RunObject), NEW k \in 1..Len(s), NEW t, NEW p \in RunObject,
         t = [s EXCEPT ![k] = p], SameRecords(s[k], p)
  PROVE  /\ t \in Seq(RunObject) /\ Len(t) = Len(s)
         /\ \A j \in 1..Len(s) : SameRecords(s[j], t[j])
<1>1. t \in Seq(RunObject) /\ Len(t) = Len(s)
      /\ \A j \in 1..Len(s) : t[j] = IF j = k THEN p ELSE s[j]
  BY ExceptSeq
<1>2. QED
  BY <1>1 DEF SameRecords

LEMMA SuspendKeeps ==
  ASSUME StoreInv, Suspend
  PROVE  StoreInv' /\ Forward
<1>1. ASSUME NEW q \in Resp
      PROVE  /\ obj'[q] \in Seq(RunObject) /\ Len(obj'[q]) = Len(obj[q])
             /\ \A j \in 1..Len(obj[q]) : SameRecords(obj[q][j], obj'[q][j])
  <2>1. obj[q] \in Seq(RunObject) /\ runs[q] \in Nat /\ runs[q] <= Len(obj[q]) /\ Len(obj[q]) \in Nat
    BY DEF StoreInv, StoreType
  <2>2. CASE LiveHere(q) /\ Local(q).stop = "none"
    <3> DEFINE p == [obj[q][runs[q]] EXCEPT !.stop = "restart"]
    <3>1. runs[q] \in 1..Len(obj[q])
      BY <2>1, <2>2 DEF LiveHere
    <3>2. p \in RunObject /\ SameRecords(obj[q][runs[q]], p)
      <4>1. obj[q][runs[q]] \in RunObject
        BY <2>1, <3>1, ElementOfSeq
      <4>2. QED
        BY <4>1 DEF RunObject, SameRecords
    <3>3. obj'[q] = [obj[q] EXCEPT ![runs[q]] = p]
      BY <2>2 DEF Suspend
    <3> HIDE DEF p
    <3>4. QED
      BY <2>1, <3>1, <3>2, <3>3, StoppedIs
  <2>3. CASE ~(LiveHere(q) /\ Local(q).stop = "none")
    <3>1. obj'[q] = obj[q]
      BY <2>3 DEF Suspend
    <3>2. QED
      BY <2>1, <3>1 DEF SameRecords
  <2>4. QED
    BY <2>2, <2>3
<1>2. obj' \in [Resp -> Seq(RunObject)]
  <2>1. obj' = [r \in Resp |-> obj'[r]]
    BY DEF Suspend
  <2>2. QED
    BY <1>1, <2>1
<1>3. last' = last /\ settled' = settled /\ owner' = owner /\ runs' = runs
  BY DEF Suspend, store
<1>4. leaving' \in [Resp -> Nat] /\ \A q \in Resp : leaving'[q] <= Len(obj[q])
  BY DEF Suspend, StoreInv, StoreType
<1>5. QED
  BY <1>1, <1>2, <1>3, <1>4, StopsKeep DEF StoreInv, StoreType

LEMMA SuspendEndsKeeps ==
  ASSUME StoreInv, SuspendEnds
  PROVE  StoreInv' /\ Forward
<1> DEFINE left == {r \in Resp : leaving[r] # 0}
<1>1. ASSUME NEW q \in Resp
      PROVE  /\ obj'[q] \in Seq(RunObject) /\ Len(obj'[q]) = Len(obj[q])
             /\ \A j \in 1..Len(obj[q]) : SameRecords(obj[q][j], obj'[q][j])
  <2>1. obj[q] \in Seq(RunObject) /\ leaving[q] \in Nat /\ leaving[q] <= Len(obj[q]) /\ Len(obj[q]) \in Nat
    BY DEF StoreInv, StoreType
  <2>2. CASE leaving[q] # 0
    <3> DEFINE p == [obj[q][leaving[q]] EXCEPT !.aborted = TRUE]
    <3>1. leaving[q] \in 1..Len(obj[q])
      BY <2>1, <2>2
    <3>2. p \in RunObject /\ SameRecords(obj[q][leaving[q]], p)
      <4>1. obj[q][leaving[q]] \in RunObject
        BY <2>1, <3>1, ElementOfSeq
      <4>2. QED
        BY <4>1 DEF RunObject, SameRecords
    <3>3. obj'[q] = [obj[q] EXCEPT ![leaving[q]] = p]
      BY <2>2 DEF SuspendEnds
    <3> HIDE DEF p
    <3>4. QED
      BY <2>1, <3>1, <3>2, <3>3, StoppedIs
  <2>3. CASE leaving[q] = 0
    <3>1. obj'[q] = obj[q]
      BY <2>3 DEF SuspendEnds
    <3>2. QED
      BY <2>1, <3>1 DEF SameRecords
  <2>4. QED
    BY <2>2, <2>3
<1>2. obj' \in [Resp -> Seq(RunObject)]
  <2>1. obj' = [r \in Resp |-> obj'[r]]
    BY DEF SuspendEnds
  <2>2. QED
    BY <1>1, <2>1
<1>3. last' = last /\ settled' = settled
  BY DEF SuspendEnds
<1>4. owner' \in [Resp -> {"here", "there", "none"}] /\ \A q \in Resp : settled[q] => owner'[q] = "none"
  BY DEF SuspendEnds, StoreInv, StoreType
<1>5. /\ runs' \in [Resp -> Nat] /\ leaving' \in [Resp -> Nat]
      /\ \A q \in Resp : runs'[q] <= Len(obj[q]) /\ leaving'[q] <= Len(obj[q])
  <2>1. /\ runs' = [r \in Resp |-> IF r \in left THEN 0 ELSE runs[r]]
        /\ leaving' = [r \in Resp |-> 0]
    BY DEF SuspendEnds
  <2>2. runs \in [Resp -> Nat] /\ \A q \in Resp : Len(obj[q]) \in Nat /\ runs[q] <= Len(obj[q])
    BY DEF StoreInv, StoreType
  <2> HIDE DEF left
  <2>3. QED
    BY <2>1, <2>2
<1>6. QED
  BY <1>1, <1>2, <1>3, <1>4, <1>5, StopsKeep

\* Nothing changes here.
LEMMA ElsewhereKeeps ==
  ASSUME StoreInv, UNCHANGED <<obj, runs, leaving>>, NEW r \in Resp,
         NEW n \in Nat, NEW s \in BOOLEAN, last[r] <= n, settled[r] => s /\ n = last[r],
         last' = [last EXCEPT ![r] = n], settled' = [settled EXCEPT ![r] = s],
         NEW h \in {"here", "there", "none"}, owner' = [owner EXCEPT ![r] = h], s => h = "none"
  PROVE  StoreInv' /\ Forward
<1>1. /\ last \in [Resp -> Nat] /\ settled \in [Resp -> BOOLEAN] /\ owner \in [Resp -> {"here", "there", "none"}]
      /\ obj \in [Resp -> Seq(RunObject)]
      /\ \A q \in Resp : /\ Len(obj[q]) \in Nat /\ (settled[q] => owner[q] = "none")
                         /\ \A j \in 1..Len(obj[q]) : RunOK(obj[q][j], last[q], settled[q])
  BY DEF StoreInv, StoreType
<1>2. ASSUME NEW q \in Resp
      PROVE  /\ last[q] <= last'[q] /\ (settled[q] => settled'[q] /\ last'[q] = last[q])
             /\ settled'[q] => owner'[q] = "none"
  BY <1>1
<1>3. ASSUME NEW q \in Resp, NEW j \in 1..Len(obj[q]) PROVE RunOK(obj[q][j], last'[q], settled'[q])
  <2>1. obj[q][j] \in RunObject /\ RunOK(obj[q][j], last[q], settled[q])
    BY <1>1, ElementOfSeq
  <2>2. last[q] \in Nat /\ last'[q] \in Nat
    BY <1>1
  <2>3. QED
    BY <2>1, <2>2, <1>2 DEF RunOK, RunObject
<1>4. StoreType'
  <2>1. last' \in [Resp -> Nat] /\ settled' \in [Resp -> BOOLEAN]
    BY <1>1
  <2>2. owner' \in [Resp -> {"here", "there", "none"}]
    BY <1>1
  <2>3. QED
    BY <2>1, <2>2 DEF StoreInv, StoreType
<1>5. Forward
  BY <1>1, <1>2 DEF Forward
<1>6. QED
  BY <1>1, <1>2, <1>3, <1>4, <1>5 DEF StoreInv

LEMMA OthersKeep ==
  ASSUME StoreInv, NEW r \in Resp, LeaseMoves(r) \/ OtherAppends(r) \/ OtherSettles(r)
  PROVE  StoreInv' /\ Forward
<1>1. /\ last \in [Resp -> Nat] /\ settled \in [Resp -> BOOLEAN] /\ owner \in [Resp -> {"here", "there", "none"}]
      /\ settled[r] => owner[r] = "none"
  BY DEF StoreInv, StoreType
<1>2. UNCHANGED <<obj, runs, leaving>>
  BY DEF LeaseMoves, OtherAppends, OtherSettles, here
<1>3. CASE LeaseMoves(r)
  <2>1. /\ ~settled[r] /\ last' = last /\ settled' = settled
        /\ \E h \in {"here", "there", "none"} : owner' = [owner EXCEPT ![r] = h]
    BY <1>3 DEF LeaseMoves
  <2>2. last' = [last EXCEPT ![r] = last[r]] /\ settled' = [settled EXCEPT ![r] = FALSE]
    BY <1>1, <2>1
  <2>3. last[r] \in Nat /\ last[r] <= last[r]
    BY <1>1
  <2>4. QED
    BY <1>2, <2>1, <2>2, <2>3, ElsewhereKeeps
<1>4. CASE OtherAppends(r)
  <2>1. /\ ~settled[r] /\ last' = [last EXCEPT ![r] = last[r] + 1] /\ settled' = settled /\ owner' = owner
    BY <1>1, <1>4 DEF OtherAppends
  <2>2. settled' = [settled EXCEPT ![r] = FALSE] /\ owner' = [owner EXCEPT ![r] = owner[r]]
    BY <1>1, <2>1
  <2>3. last[r] + 1 \in Nat /\ last[r] <= last[r] + 1 /\ owner[r] \in {"here", "there", "none"}
    BY <1>1
  <2>4. QED
    BY <1>2, <2>1, <2>2, <2>3, ElsewhereKeeps
<1>5. CASE OtherSettles(r)
  <2>1. PICK m \in {0, 1} : last' = [last EXCEPT ![r] = last[r] + m]
    BY <1>5 DEF OtherSettles
  <2>2. ~settled[r] /\ settled' = [settled EXCEPT ![r] = TRUE] /\ owner' = [owner EXCEPT ![r] = "none"]
    BY <1>5 DEF OtherSettles
  <2>3. last[r] + m \in Nat /\ last[r] <= last[r] + m
    BY <1>1
  <2>4. QED
    BY <1>2, <2>1, <2>2, <2>3, ElsewhereKeeps
<1>6. QED
  BY <1>3, <1>4, <1>5

\* The steps no follower and no poll takes.
RunsStep(r) ==
  RunStarts(r) \/ RunAppends(r) \/ RunCommits(r) \/ RunFinishes(r) \/ RunSettled(r) \/ RunRefused(r)
  \/ LeaseLost(r) \/ RunDropped(r) \/ LeaseMoves(r) \/ OtherAppends(r) \/ OtherSettles(r)

LEMMA RunsStepKeeps ==
  ASSUME FInv, (\E r \in Resp : RunsStep(r)) \/ Suspend \/ SuspendEnds
  PROVE  FInv'
<1>1. StoreInv
  BY DEF FInv
<1>2. ASSUME NEW r \in Resp, RunsStep(r) PROVE StoreInv' /\ Forward /\ UNCHANGED Readers
  <2>1. CASE RunStarts(r)
    BY <1>1, <2>1, StartsKeeps DEF RunStarts
  <2>2. CASE RunAppends(r)
    BY <1>1, <2>2, RunAppendsKeeps DEF RunAppends
  <2>3. CASE RunCommits(r)
    BY <1>1, <2>3, RunCommitsKeeps DEF RunCommits
  <2>4. CASE RunFinishes(r)
    BY <1>1, <2>4, RunFinishesKeeps DEF RunFinishes
  <2>5. CASE RunSettled(r)
    BY <1>1, <2>5, RunSettledKeeps DEF RunSettled
  <2>6. CASE RunRefused(r)
    BY <1>1, <2>6, RunRefusedKeeps DEF RunRefused
  <2>7. CASE LeaseLost(r)
    BY <1>1, <2>7, LeaseLostKeeps DEF LeaseLost
  <2>8. CASE RunDropped(r)
    BY <1>1, <2>8, RunDroppedKeeps DEF RunDropped
  <2>9. CASE LeaseMoves(r) \/ OtherAppends(r) \/ OtherSettles(r)
    BY <1>1, <2>9, OthersKeep DEF LeaseMoves, OtherAppends, OtherSettles
  <2>10. QED
    BY <1>2, <2>1, <2>2, <2>3, <2>4, <2>5, <2>6, <2>7, <2>8, <2>9 DEF RunsStep
<1>3. Suspend => StoreInv' /\ Forward /\ UNCHANGED Readers
  BY <1>1, SuspendKeeps DEF Suspend
<1>4. SuspendEnds => StoreInv' /\ Forward /\ UNCHANGED Readers
  BY <1>1, SuspendEndsKeeps DEF SuspendEnds
<1>5. QED
  BY <1>2, <1>3, <1>4, FollowersKept

-----------------------------------------------------------------------------
(* The steps of the followers.                                              *)

LEMMA ClientsMove ==
  ASSUME FInv, UNCHANGED <<store, here, poll>>,
         client' \in [Client -> Follower],
         \A c \in Client : FollowerOK(client'[c]) /\ Fits(client'[c])
  PROVE  FInv'
<1>1. StoreInv' /\ PollInv'
  BY DEF FInv, StoreInv, StoreType, PollInv, PageOK, store, here
<1>2. ASSUME NEW c \in Client PROVE FollowerOK(client[c])' /\ Fits(client[c])'
  <2>1. FollowerOK(client'[c]) /\ Fits(client'[c])
    OBVIOUS
  <2>2. FollowerOK(client[c])'
    BY <2>1 DEF FollowerOK, Misled, Unbroken, store, here
  <2>3. Fits(client[c])'
    BY <2>1 DEF Fits, PollUnderWay
  <2>4. QED
    BY <2>2, <2>3
<1>3. QED
  BY <1>1, <1>2 DEF FInv, ClientInv

LEMMA OneClientMoves ==
  ASSUME FInv, UNCHANGED <<store, here, poll>>, NEW c \in Client, NEW f,
         FollowerOK(f), Fits(f), client' = Set(c, f)
  PROVE  FInv'
<1>1. client \in [Client -> Follower] /\ \A d \in Client : FollowerOK(client[d]) /\ Fits(client[d])
  BY DEF FInv, ClientInv
<1>2. f \in Follower
  BY DEF FollowerOK
<1>3. \A d \in Client : client'[d] = IF d = c THEN f ELSE client[d]
  BY <1>1 DEF Set
<1>4. client' \in [Client -> Follower]
  BY <1>1, <1>2 DEF Set
<1>5. QED
  BY <1>1, <1>3, <1>4, ClientsMove

\* What is known of a follower.
LEMMA FollowerIs ==
  ASSUME FInv, NEW c \in Client
  PROVE  /\ client[c] \in Follower /\ FollowerOK(client[c]) /\ Fits(client[c])
         /\ client[c].pos \in Nat /\ client[c].start \in Nat /\ client[c].queued \in Nat
         /\ client[c].st # "idle" =>
              /\ client[c].rid \in Resp /\ last[client[c].rid] \in Nat
              /\ client[c].pos <= last[client[c].rid]
  BY DEF FInv, ClientInv, FollowerOK, StoreInv, StoreType, Follower

LEMMA GoneIs ==
  ASSUME FInv, NEW c \in Client, client[c].st # "idle",
         NEW st \in {"aborted", "evicted", "left"}
  PROVE  LET f == [Idle EXCEPT !.st = st, !.rid = client[c].rid] IN FollowerOK(f) /\ Fits(f)
<1> DEFINE r == client[c].rid
           f == [Idle EXCEPT !.st = st, !.rid = r]
<1>1. r \in Resp /\ last[r] \in Nat
  BY FollowerIs
<1>2. Len(obj[r]) \in Nat
  BY <1>1 DEF FInv, StoreInv, StoreType
<1>3. f \in Follower /\ f.st = st /\ f.rid = r /\ f.k = 0 /\ f.pos = 0 /\ f.start = 0 /\ f.got = {}
  BY <1>1 DEF Idle, Follower
<1> HIDE DEF f
<1>4. FollowerOK(f)
  BY <1>1, <1>2, <1>3 DEF FollowerOK, Unbroken
<1>5. Fits(f)
  BY <1>3 DEF Fits
<1>6. QED
  BY <1>4, <1>5 DEF f

LEMMA GoneKeeps ==
  ASSUME FInv, UNCHANGED <<store, here, poll>>, NEW c \in Client, client[c].st # "idle",
         NEW st \in {"aborted", "evicted", "left"}, client' = Gone(c, st)
  PROVE  FInv'
  BY GoneIs, OneClientMoves DEF Gone

LEMMA AttachKeeps ==
  ASSUME FInv, NEW c \in Client, Attach(c)
  PROVE  FInv'
<1>0. PICK r \in Resp : \E n \in 0..last[r] :
        client' = Set(c, [Idle EXCEPT !.st = "loop", !.rid = r, !.start = n, !.pos = n])
  BY DEF Attach
<1>1. PICK n \in 0..last[r] :
        client' = Set(c, [Idle EXCEPT !.st = "loop", !.rid = r, !.start = n, !.pos = n])
  BY <1>0
<1> DEFINE f == [Idle EXCEPT !.st = "loop", !.rid = r, !.start = n, !.pos = n]
<1>2. last[r] \in Nat /\ Len(obj[r]) \in Nat /\ n \in Nat /\ n <= last[r]
  BY DEF FInv, StoreInv, StoreType
<1>3. f \in Follower /\ f.st = "loop" /\ f.rid = r /\ f.k = 0 /\ f.pos = n /\ f.start = n /\ f.got = {}
  BY <1>2 DEF Idle, Follower
<1> HIDE DEF f
<1>4. FollowerOK(f) /\ Fits(f)
  BY <1>2, <1>3 DEF FollowerOK, Unbroken, Fits
<1>5. client' = Set(c, f)
  BY <1>1 DEF f
<1>6. QED
  BY <1>4, <1>5, OneClientMoves DEF Attach

\* Evicted followers, and marked ones, are what they were.
LEMMA EvictedIs ==
  ASSUME NEW f, FollowerOK(f), Fits(f)
  PROVE  LET g == [f EXCEPT !.evicted = TRUE] IN FollowerOK(g) /\ Fits(g)
<1> DEFINE g == [f EXCEPT !.evicted = TRUE]
<1>1. f \in Follower
  BY DEF FollowerOK
<1>2. /\ g \in Follower /\ g.st = f.st /\ g.rid = f.rid /\ g.k = f.k /\ g.pos = f.pos
      /\ g.start = f.start /\ g.got = f.got /\ g.late = f.late /\ g.q = f.q
      /\ g.queued = f.queued /\ g.mark = f.mark
  BY <1>1 DEF Follower
<1> HIDE DEF g
<1>3. FollowerOK(g)
  BY <1>2 DEF FollowerOK, Unbroken, Misled
<1>4. Fits(g)
  BY <1>2 DEF Fits
<1>5. QED
  BY <1>3, <1>4 DEF g

LEMMA MarkedIs ==
  ASSUME NEW f, FollowerOK(f), Fits(f), NEW m \in {"end", "switch", "evict"},
         f.st = "remote" /\ ~f.late /\ f.mark = "none" /\ m = "end" =>
           settled[f.rid] /\ f.queued = last[f.rid]
  PROVE  FollowerOK(Marked(f, m)) /\ Fits(Marked(f, m))
<1>1. CASE f.mark # "none"
  BY <1>1 DEF Marked
<1>2. CASE f.mark = "none"
  <2> DEFINE g == [f EXCEPT !.mark = m]
  <2>1. f \in Follower
    BY DEF FollowerOK
  <2>2. /\ g \in Follower /\ g.st = f.st /\ g.rid = f.rid /\ g.k = f.k /\ g.pos = f.pos
        /\ g.start = f.start /\ g.got = f.got /\ g.late = f.late /\ g.q = f.q
        /\ g.queued = f.queued /\ g.mark = m
    BY <2>1 DEF Follower
  <2>3. Marked(f, m) = g
    BY <1>2 DEF Marked
  <2> HIDE DEF g
  <2>4. FollowerOK(g)
    BY <1>2, <2>2 DEF FollowerOK, Unbroken, Misled
  <2>5. Fits(g)
    BY <1>2, <2>2 DEF Fits
  <2>6. QED
    BY <2>3, <2>4, <2>5
<1>3. QED
  BY <1>1, <1>2

LEMMA FollowLocalKeeps ==
  ASSUME FInv, NEW c \in Client, FollowLocal(c)
  PROVE  FInv'
<1> DEFINE r == client[c].rid
           out == Evicts(LocalReaders(r, runs[r]))
           f == [client[c] EXCEPT !.st = "local", !.k = runs[r], !.evicted = FALSE]
<1>1. /\ client[c].st = "loop" /\ runs[r] # 0
      /\ client' = [d \in Client |-> CASE d = c     -> f
                                       [] d \in out -> [client[d] EXCEPT !.evicted = TRUE]
                                       [] OTHER     -> client[d]]
      /\ UNCHANGED <<store, here, poll>>
  BY DEF FollowLocal
<1>2. FollowerOK(f) /\ Fits(f)
  <2>1. client[c] \in Follower /\ FollowerOK(client[c]) /\ r \in Resp
    BY <1>1, FollowerIs
  <2>2. runs[r] \in Nat /\ runs[r] <= Len(obj[r])
    BY <2>1 DEF FInv, StoreInv, StoreType
  <2>3. /\ f \in Follower /\ f.st = "local" /\ f.rid = r /\ f.k = runs[r] /\ f.pos = client[c].pos
        /\ f.start = client[c].start /\ f.got = client[c].got /\ f.late = client[c].late
    BY <2>1, <2>2 DEF Follower
  <2> HIDE DEF f
  <2>4. FollowerOK(f)
    BY <1>1, <2>1, <2>2, <2>3 DEF FollowerOK, Unbroken
  <2>5. Fits(f)
    BY <2>3 DEF Fits
  <2>6. QED
    BY <2>4, <2>5
<1> HIDE DEF f, out
<1>3. ASSUME NEW d \in Client PROVE FollowerOK(client'[d]) /\ Fits(client'[d])
  <2>1. FollowerOK(client[d]) /\ Fits(client[d])
    BY FollowerIs
  <2>2. client'[d] = f \/ client'[d] = [client[d] EXCEPT !.evicted = TRUE] \/ client'[d] = client[d]
    BY <1>1
  <2>3. QED
    BY <1>2, <2>1, <2>2, EvictedIs
<1>4. client' \in [Client -> Follower]
  <2>1. \A d \in Client : client'[d] \in Follower
    BY <1>3 DEF FollowerOK
  <2>2. client' = [d \in Client |-> client'[d]]
    BY <1>1
  <2>3. QED
    BY <2>1, <2>2
<1>5. QED
  BY <1>1, <1>3, <1>4, ClientsMove

LEMMA FollowRemoteKeeps ==
  ASSUME FInv, NEW c \in Client, FollowRemote(c)
  PROVE  FInv'
<1> DEFINE r == client[c].rid
           out == Evicts(RemoteReaders(r))
           f == [client[c] EXCEPT !.st = "remote", !.k = 0, !.evicted = FALSE,
                   !.q = {}, !.queued = client[c].pos, !.mark = "none",
                   !.late = client[c].late \/ PollUnderWay(r)]
<1>1. /\ client[c].st = "loop"
      /\ client' = [d \in Client |-> CASE d = c     -> f
                                       [] d \in out -> [Marked(client[d], "evict") EXCEPT !.evicted = TRUE]
                                       [] OTHER     -> client[d]]
      /\ UNCHANGED <<store, here, poll>>
  BY DEF FollowRemote
<1>2. FollowerOK(f) /\ Fits(f)
  <2>1. /\ client[c] \in Follower /\ FollowerOK(client[c]) /\ r \in Resp
        /\ client[c].pos \in Nat /\ last[r] \in Nat /\ client[c].pos <= last[r]
    BY <1>1, FollowerIs
  <2>2. Len(obj[r]) \in Nat
    BY <2>1 DEF FInv, StoreInv, StoreType
  <2>3. PollUnderWay(r) \in BOOLEAN /\ client[c].late \in BOOLEAN
    BY <2>1 DEF PollUnderWay, Follower
  <2>4. (client[c].late \/ PollUnderWay(r)) \in BOOLEAN
    OBVIOUS
  <2>5. /\ f \in Follower /\ f.st = "remote" /\ f.rid = r /\ f.k = 0 /\ f.pos = client[c].pos
        /\ f.start = client[c].start /\ f.got = client[c].got /\ f.q = {}
        /\ f.queued = client[c].pos /\ f.mark = "none"
        /\ f.late = (client[c].late \/ PollUnderWay(r))
    BY <2>1, <2>4 DEF Follower
  <2> HIDE DEF f
  <2>6. f.pos + 1..f.queued \subseteq f.q
    BY <2>1, <2>5
  <2>7. ~f.late => ~client[c].late /\ ~PollUnderWay(r)
    BY <2>5
  <2>8. FollowerOK(f)
    BY <2>1, <2>2, <2>5, <2>6, <2>7, <1>1 DEF FollowerOK, Unbroken
  <2>9. Fits(f)
    BY <2>5, <2>7 DEF Fits
  <2>10. QED
    BY <2>8, <2>9
<1> HIDE DEF f, out
<1>3. ASSUME NEW d \in Client PROVE FollowerOK(client'[d]) /\ Fits(client'[d])
  <2>1. FollowerOK(client[d]) /\ Fits(client[d])
    BY FollowerIs
  <2>2. FollowerOK(Marked(client[d], "evict")) /\ Fits(Marked(client[d], "evict"))
    BY <2>1, MarkedIs
  <2>3. \/ client'[d] = f \/ client'[d] = [Marked(client[d], "evict") EXCEPT !.evicted = TRUE]
        \/ client'[d] = client[d]
    BY <1>1
  <2>4. QED
    BY <1>2, <2>1, <2>2, <2>3, EvictedIs
<1>4. client' \in [Client -> Follower]
  <2>1. \A d \in Client : client'[d] \in Follower
    BY <1>3 DEF FollowerOK
  <2>2. client' = [d \in Client |-> client'[d]]
    BY <1>1
  <2>3. QED
    BY <2>1, <2>2
<1>5. QED
  BY <1>1, <1>3, <1>4, ClientsMove

\* A follower that goes on from the loop, or at the Run it began with, or ends.
LEMMA GoesOnIs ==
  ASSUME FInv, NEW c \in Client, client[c].st # "idle", NEW g \in Follower,
         g.rid = client[c].rid, g.k = client[c].k, g.start = client[c].start,
         g.late = client[c].late, g.st \in {"loop", "local", "reading", "ended"},
         client[c].pos <= g.pos, g.pos <= last[client[c].rid],
         ~g.late => Unbroken(g),
         g.st \in {"local", "reading"} => g.k # 0,
         g.st = "ended" => g.late \/ Misled(g) \/ (settled[g.rid] /\ g.pos = last[g.rid])
  PROVE  FollowerOK(g) /\ Fits(g)
<1>1. /\ client[c] \in Follower /\ FollowerOK(client[c]) /\ client[c].rid \in Resp
      /\ client[c].pos \in Nat /\ client[c].start \in Nat
  BY FollowerIs
<1>2. g.pos \in Nat /\ client[c].start <= client[c].pos /\ client[c].k <= Len(obj[client[c].rid])
  BY <1>1 DEF FollowerOK, Follower
<1>3. FollowerOK(g)
  BY <1>1, <1>2 DEF FollowerOK
<1>4. Fits(g)
  BY DEF Fits
<1>5. QED
  BY <1>3, <1>4

LEMMA LocalTurnKeeps ==
  ASSUME FInv, NEW c \in Client, LocalTurn(c)
  PROVE  FInv'
<1> DEFINE f == client[c]
           r == f.rid
           o == obj[r][f.k]
           gone == o.aborted /\ ~o.terminal
           more == o.committed > f.pos
<1>1. f.st = "local" /\ UNCHANGED <<store, here, poll>>
  BY DEF LocalTurn
<1>2. /\ f \in Follower /\ FollowerOK(f) /\ r \in Resp /\ f.pos \in Nat /\ f.start \in Nat
      /\ last[r] \in Nat /\ f.pos <= last[r]
  BY <1>1, FollowerIs
<1>3. f.k \in 1..Len(obj[r]) /\ f.start <= f.pos /\ (~f.late => Unbroken(f))
  <2>1. f.k \in Nat /\ f.k # 0 /\ f.k <= Len(obj[r])
    BY <1>1, <1>2 DEF FollowerOK, Follower
  <2>2. Len(obj[r]) \in Nat
    BY <1>2 DEF FInv, StoreInv, StoreType
  <2>3. QED
    BY <1>2, <2>1, <2>2 DEF FollowerOK
<1>4. o \in RunObject /\ RunOK(o, last[r], settled[r])
  <2>1. obj[r] \in Seq(RunObject)
    BY <1>2 DEF FInv, StoreInv, StoreType
  <2>2. QED
    BY <1>2, <1>3, <2>1, ElementOfSeq DEF FInv, StoreInv
<1>5. o.committed \in Nat /\ o.sent \in Nat /\ o.first \in Nat
  BY <1>4 DEF RunObject
<1>6. CASE f.evicted /\ client' = Gone(c, "evicted")
  BY <1>1, <1>6, GoneKeeps
<1>7. CASE client' = Gone(c, "aborted")
  BY <1>1, <1>7, GoneKeeps
<1>8. CASE more /\ TailReaches(o, f.pos)
           /\ client' = Set(c, Given(f, {n \in f.pos + 1..o.committed : n >= o.first}))
  <2> DEFINE g == Given(f, f.pos + 1..o.committed)
  <2>0. f.pos < o.committed /\ o.first <= f.pos + 1
    BY <1>2, <1>5, <1>8 DEF TailReaches
  <2>1. {n \in f.pos + 1..o.committed : n >= o.first} = f.pos + 1..o.committed
    BY <1>2, <1>5, <2>0
  <2>2. g = [f EXCEPT !.got = f.got \cup (f.pos + 1..o.committed), !.pos = o.committed]
        /\ (f.start <= f.pos /\ Unbroken(f) => Unbroken(g))
    BY <1>2, <1>5, <2>0, GivenNext
  <2>3. f.got \cup (f.pos + 1..o.committed) \in SUBSET Nat
    BY <1>2, <1>5 DEF Follower
  <2>4. /\ g \in Follower /\ g.rid = r /\ g.k = f.k /\ g.start = f.start /\ g.late = f.late
        /\ g.st = "local" /\ g.pos = o.committed
    BY <1>1, <1>2, <1>5, <2>2, <2>3 DEF Follower
  <2> HIDE DEF g
  <2>5. f.pos <= g.pos /\ g.pos <= last[r] /\ (~g.late => Unbroken(g)) /\ g.k # 0
    <3>1. o.committed <= last[r]
      BY <1>2, <1>4, <1>5 DEF RunOK
    <3>2. ~g.late => Unbroken(g)
      BY <1>3, <2>2, <2>4
    <3>3. g.k # 0
      BY <1>3, <2>4
    <3>4. QED
      BY <1>2, <1>5, <2>0, <2>4, <3>1, <3>2, <3>3
  <2>6. FollowerOK(g) /\ Fits(g)
    BY <1>1, <2>4, <2>5, GoesOnIs
  <2>7. client' = Set(c, g)
    BY <1>8, <2>1 DEF g
  <2>8. QED
    BY <1>1, <2>6, <2>7, OneClientMoves
<1>9. CASE client' = Set(c, [f EXCEPT !.st = "reading"]) \/ client' = Set(c, [f EXCEPT !.st = "loop"])
  <2>1. PICK st \in {"reading", "loop"} : client' = Set(c, [f EXCEPT !.st = st])
    BY <1>9
  <2> DEFINE g == [f EXCEPT !.st = st]
  <2>2. /\ g \in Follower /\ g.rid = r /\ g.k = f.k /\ g.start = f.start /\ g.late = f.late
        /\ g.st = st /\ g.pos = f.pos /\ g.got = f.got
    BY <1>2 DEF Follower
  <2> HIDE DEF g
  <2>3. f.pos <= g.pos /\ g.pos <= last[r] /\ (~g.late => Unbroken(g)) /\ g.k # 0
    BY <1>2, <1>3, <2>2 DEF Unbroken
  <2>4. FollowerOK(g) /\ Fits(g)
    BY <1>1, <2>2, <2>3, GoesOnIs
  <2>5. QED
    BY <1>1, <2>1, <2>4, OneClientMoves DEF g
<1>10. CASE ~more /\ o.terminal /\ client' = Set(c, [f EXCEPT !.st = "ended"])
  <2> DEFINE g == [f EXCEPT !.st = "ended"]
  <2>1. /\ g \in Follower /\ g.rid = r /\ g.k = f.k /\ g.start = f.start /\ g.late = f.late
        /\ g.st = "ended" /\ g.pos = f.pos /\ g.got = f.got
    BY <1>2 DEF Follower
  <2> HIDE DEF g
  <2>2. o.refused \/ (settled[r] /\ f.pos = last[r])
    BY <1>2, <1>4, <1>5, <1>10 DEF RunOK
  <2>3. Misled(g) \/ (settled[r] /\ g.pos = last[r])
    BY <1>3, <2>1, <2>2 DEF Misled
  <2>4. f.pos <= g.pos /\ g.pos <= last[r] /\ (~g.late => Unbroken(g))
    BY <1>2, <1>3, <2>1 DEF Unbroken
  <2>5. FollowerOK(g) /\ Fits(g)
    BY <1>1, <2>1, <2>3, <2>4, GoesOnIs
  <2>6. QED
    BY <1>1, <1>10, <2>5, OneClientMoves DEF g
<1>11. QED
  BY <1>6, <1>7, <1>8, <1>9, <1>10 DEF LocalTurn

LEMMA ReadLogKeeps ==
  ASSUME FInv, NEW c \in Client, ReadLog(c)
  PROVE  FInv'
<1> DEFINE f == client[c]
           r == f.rid
           upto == Least(last[r], f.pos + ListLimit)
           h == Given(f, f.pos + 1..upto)
           g == [h EXCEPT !.st = "local"]
<1>1. f.st = "reading" /\ UNCHANGED <<store, here, poll>> /\ client' = Set(c, g)
  BY DEF ReadLog
<1>2. /\ f \in Follower /\ FollowerOK(f) /\ r \in Resp /\ f.pos \in Nat /\ f.start \in Nat
      /\ last[r] \in Nat /\ f.pos <= last[r]
  BY <1>1, FollowerIs
<1>3. f.start <= f.pos /\ (~f.late => Unbroken(f)) /\ f.k # 0
  BY <1>1, <1>2 DEF FollowerOK
<1>4. upto \in Nat /\ f.pos <= upto /\ upto <= last[r]
  BY <1>2, FollowConstants DEF Least
<1> HIDE DEF upto
<1>5. /\ h \in Follower /\ h.rid = r /\ h.k = f.k /\ h.start = f.start /\ h.late = f.late
      /\ h.pos = upto /\ (~f.late => Unbroken(h))
  <2>1. CASE upto = f.pos
    <3>1. f.pos + 1..upto = {}
      BY <1>2, <2>1
    <3>2. h = f
      BY <3>1 DEF Given
    <3> HIDE DEF h
    <3>3. QED
      BY <1>2, <1>3, <2>1, <3>2
  <2>2. CASE f.pos < upto
    <3>1. h = [f EXCEPT !.got = f.got \cup (f.pos + 1..upto), !.pos = upto]
          /\ (f.start <= f.pos /\ Unbroken(f) => Unbroken(h))
      BY <1>2, <1>4, <2>2, GivenNext
    <3>2. f.got \cup (f.pos + 1..upto) \in SUBSET Nat
      BY <1>2, <1>4 DEF Follower
    <3> HIDE DEF h
    <3>3. /\ h \in Follower /\ h.rid = r /\ h.k = f.k /\ h.start = f.start /\ h.late = f.late
          /\ h.pos = upto
      BY <1>2, <1>4, <3>1, <3>2 DEF Follower
    <3>4. QED
      BY <1>3, <3>1, <3>3
  <2>3. QED
    BY <1>2, <1>4, <2>1, <2>2
<1> HIDE DEF h
<1>6. /\ g \in Follower /\ g.rid = r /\ g.k = f.k /\ g.start = f.start /\ g.late = f.late
      /\ g.st = "local" /\ g.pos = upto /\ (~f.late => Unbroken(g))
  BY <1>5 DEF Follower, Unbroken
<1> HIDE DEF g
<1>7. FollowerOK(g) /\ Fits(g)
  BY <1>1, <1>3, <1>4, <1>6, GoesOnIs
<1>8. QED
  BY <1>1, <1>7, OneClientMoves

\* A record is taken from the queue.
LEMMA TakenIs ==
  ASSUME FInv, NEW c \in Client, client[c].st = "remote", client[c].q # {}
  PROVE  LET f == client[c]
             n == LeastOf(f.q)
             g == [Given(f, IF n > f.pos THEN {n} ELSE {}) EXCEPT !.q = f.q \ {n}]
         IN FollowerOK(g) /\ Fits(g)
<1> DEFINE f == client[c]
           r == f.rid
           n == LeastOf(f.q)
           g == [Given(f, IF n > f.pos THEN {n} ELSE {}) EXCEPT !.q = f.q \ {n}]
<1>1. /\ f \in Follower /\ FollowerOK(f) /\ Fits(f) /\ r \in Resp /\ f.pos \in Nat
      /\ f.start \in Nat /\ f.queued \in Nat /\ last[r] \in Nat /\ f.pos <= last[r]
  BY FollowerIs
<1>2. f.q \in SUBSET Nat /\ f.got \in SUBSET Nat
  BY <1>1 DEF Follower
<1>3. n \in f.q /\ n \in Nat /\ \A m \in f.q : n <= m
  BY <1>2, LeastIsThere
<1> HIDE DEF n
<1>4. n <= f.queued /\ f.queued <= last[r]
  BY <1>1, <1>3 DEF FollowerOK
<1>5. f.start <= f.pos /\ f.k <= Len(obj[r]) /\ \A m \in f.q : m <= f.queued
  BY <1>1 DEF FollowerOK
<1>6. ~f.late => /\ Unbroken(f) /\ f.pos <= f.queued /\ f.pos + 1..f.queued \subseteq f.q
                 /\ f.mark = "end" => settled[r] /\ f.queued = last[r]
  BY <1>1 DEF FollowerOK
<1>7. CASE n > f.pos
  <2>1. Given(f, {n}) = [f EXCEPT !.got = f.got \cup {n}, !.pos = n]
    BY <1>3, MostOfOne DEF Given
  <2>2. g = [Given(f, {n}) EXCEPT !.q = f.q \ {n}]
    BY <1>7
  <2>3. /\ g \in Follower /\ g.st = "remote" /\ g.rid = r /\ g.k = f.k /\ g.start = f.start
        /\ g.pos = n /\ g.got = f.got \cup {n} /\ g.late = f.late /\ g.q = f.q \ {n}
        /\ g.queued = f.queued /\ g.mark = f.mark
    <3>1. f.got \cup {n} \in SUBSET Nat /\ f.q \ {n} \in SUBSET Nat
      BY <1>2, <1>3
    <3> DEFINE h == Given(f, {n})
    <3>2. /\ h \in Follower /\ h.st = "remote" /\ h.rid = r /\ h.k = f.k /\ h.start = f.start
          /\ h.pos = n /\ h.got = f.got \cup {n} /\ h.late = f.late
          /\ h.queued = f.queued /\ h.mark = f.mark
      <4> HIDE DEF h
      <4>1. h = [f EXCEPT !.got = f.got \cup {n}, !.pos = n]
        BY <2>1 DEF h
      <4>2. f \in Follower /\ f.st = "remote"
        BY <1>1
      <4>3. QED
        BY <1>3, <3>1, <4>1, <4>2 DEF Follower
    <3> HIDE DEF h
    <3>3. g = [h EXCEPT !.q = f.q \ {n}]
      BY <2>2 DEF h
    <3> HIDE DEF g
    <3>4. QED
      BY <3>1, <3>2, <3>3 DEF Follower
  <2> HIDE DEF g
  <2>4. ASSUME ~f.late PROVE n = f.pos + 1 /\ Unbroken(g)
    <3>1. f.pos + 1 \in f.q
      BY <1>1, <1>3, <1>4, <1>6, <1>7, <2>4
    <3>2. n = f.pos + 1
      BY <1>1, <1>3, <1>7, <3>1
    <3>3. (f.start + 1..f.pos) \cup {n} = f.start + 1..n
      BY <1>1, <1>5, <3>2
    <3>4. QED
      BY <1>6, <2>3, <2>4, <3>2, <3>3 DEF Unbroken
  <2>5. ~g.late => g.pos <= g.queued /\ g.pos + 1..g.queued \subseteq g.q
    BY <1>1, <1>3, <1>4, <1>6, <2>3, <2>4
  <2>6. g.start <= g.pos /\ g.pos <= last[r] /\ g.queued <= last[r] /\ \A m \in g.q : m <= g.queued
    BY <1>1, <1>3, <1>4, <1>5, <1>7, <2>3
  <2>7. FollowerOK(g)
    BY <1>1, <1>5, <1>6, <2>3, <2>4, <2>5, <2>6 DEF FollowerOK
  <2>8. Fits(g)
    BY <1>1, <2>3 DEF Fits
  <2>9. QED
    BY <2>7, <2>8 DEF g, n
<1>8. CASE ~(n > f.pos)
  <2>1. g = [f EXCEPT !.q = f.q \ {n}]
    BY <1>8 DEF Given
  <2>2. /\ g \in Follower /\ g.st = "remote" /\ g.rid = r /\ g.k = f.k /\ g.start = f.start
        /\ g.pos = f.pos /\ g.got = f.got /\ g.late = f.late /\ g.q = f.q \ {n}
        /\ g.queued = f.queued /\ g.mark = f.mark
    <3>1. f.q \ {n} \in SUBSET Nat
      BY <1>2, <1>3
    <3>2. QED
      BY <1>1, <2>1, <3>1 DEF Follower
  <2> HIDE DEF g
  <2>3. ~g.late => g.pos + 1..g.queued \subseteq g.q
    BY <1>1, <1>3, <1>6, <1>8, <2>2
  <2>4. FollowerOK(g)
    BY <1>1, <1>4, <1>5, <1>6, <2>2, <2>3 DEF FollowerOK, Unbroken
  <2>5. Fits(g)
    BY <1>1, <2>2 DEF Fits
  <2>6. QED
    BY <2>4, <2>5 DEF g, n
<1>9. QED
  BY <1>7, <1>8

LEMMA RemoteTurnKeeps ==
  ASSUME FInv, NEW c \in Client, RemoteTurn(c)
  PROVE  FInv'
<1> DEFINE f == client[c]
           r == f.rid
<1>1. f.st = "remote" /\ UNCHANGED <<store, here, poll>>
  BY DEF RemoteTurn
<1>2. /\ f \in Follower /\ FollowerOK(f) /\ r \in Resp /\ f.pos \in Nat /\ f.queued \in Nat
      /\ last[r] \in Nat /\ f.pos <= last[r]
  BY <1>1, FollowerIs
<1>3. CASE f.q # {} /\ client' = Set(c, [Given(f, IF LeastOf(f.q) > f.pos THEN {LeastOf(f.q)} ELSE {})
                                            EXCEPT !.q = f.q \ {LeastOf(f.q)}])
  BY <1>1, <1>3, TakenIs, OneClientMoves
<1>4. CASE f.q = {} /\ f.mark = "end" /\ client' = Set(c, [f EXCEPT !.st = "ended"])
  <2> DEFINE g == [f EXCEPT !.st = "ended"]
  <2>1. /\ g \in Follower /\ g.rid = r /\ g.k = f.k /\ g.start = f.start /\ g.late = f.late
        /\ g.st = "ended" /\ g.pos = f.pos /\ g.got = f.got
    BY <1>2 DEF Follower
  <2> HIDE DEF g
  <2>2. ~f.late => Unbroken(f) /\ f.pos <= f.queued /\ f.pos + 1..f.queued \subseteq {}
                   /\ settled[r] /\ f.queued = last[r]
    BY <1>1, <1>2, <1>4 DEF FollowerOK
  <2>3. ~f.late => settled[r] /\ f.pos = last[r]
    BY <1>2, <2>2
  <2>4. ~g.late => Unbroken(g)
    BY <2>1, <2>2 DEF Unbroken
  <2>5. f.pos <= g.pos /\ g.pos <= last[r]
    BY <1>2, <2>1
  <2>6. FollowerOK(g) /\ Fits(g)
    BY <1>1, <2>1, <2>3, <2>4, <2>5, GoesOnIs
  <2>7. QED
    BY <1>1, <1>4, <2>6, OneClientMoves DEF g
<1>5. CASE client' = Gone(c, "evicted")
  BY <1>1, <1>5, GoneKeeps
<1>6. CASE client' = Set(c, [f EXCEPT !.st = "loop", !.mark = "none"])
  <2> DEFINE g == [f EXCEPT !.st = "loop", !.mark = "none"]
  <2>1. /\ g \in Follower /\ g.rid = r /\ g.k = f.k /\ g.start = f.start /\ g.late = f.late
        /\ g.st = "loop" /\ g.pos = f.pos /\ g.got = f.got
    BY <1>2 DEF Follower
  <2> HIDE DEF g
  <2>2. ~g.late => Unbroken(g)
    BY <1>2, <2>1 DEF FollowerOK, Unbroken
  <2>3. f.pos <= g.pos /\ g.pos <= last[r]
    BY <1>2, <2>1
  <2>4. FollowerOK(g) /\ Fits(g)
    BY <1>1, <2>1, <2>2, <2>3, GoesOnIs
  <2>5. QED
    BY <1>1, <1>6, <2>4, OneClientMoves DEF g
<1>7. QED
  BY <1>3, <1>4, <1>5, <1>6 DEF RemoteTurn

\* The steps of one follower.
FollowerStep(c) ==
  Attach(c) \/ FollowLocal(c) \/ FollowRemote(c) \/ FollowStopping(c) \/ LocalTurn(c)
  \/ ReadLog(c) \/ RemoteTurn(c) \/ Leave(c)

LEMMA FollowerStepKeeps ==
  ASSUME FInv, NEW c \in Client, FollowerStep(c)
  PROVE  FInv'
<1>1. FollowStopping(c) => FInv'
  BY GoneKeeps DEF FollowStopping
<1>2. Leave(c) => FInv'
  BY GoneKeeps DEF Leave
<1>3. QED
  BY <1>1, <1>2, AttachKeeps, FollowLocalKeeps, FollowRemoteKeeps, LocalTurnKeeps,
     ReadLogKeeps, RemoteTurnKeeps DEF FollowerStep

-----------------------------------------------------------------------------
(* The steps of the shared poll.                                            *)

LEMMA PollIs ==
  ASSUME PollInv
  PROVE  LET S == DOMAIN poll.after
             T == DOMAIN poll.res
         IN /\ S \in SUBSET Resp /\ T \in SUBSET Resp /\ poll \in Poll(S, T)
            /\ \A r \in S : poll.after[r] \in Nat /\ poll.after[r] <= last[r]
            /\ poll.st \in {"read", "apply", "claim"} =>
                 T = S /\ \A r \in S : PageOK(r) /\ poll.res[r] \in Page
<1>1. PICK S \in SUBSET Resp, T \in SUBSET Resp : poll \in Poll(S, T)
  BY DEF PollInv
<1>2. DOMAIN poll.after = S /\ DOMAIN poll.res = T /\ poll.after \in [S -> Nat] /\ poll.res \in [T -> Page]
  BY <1>1 DEF Poll
<1>3. QED
  BY <1>1, <1>2 DEF PollInv

LEMMA PollMoves ==
  ASSUME FInv, UNCHANGED <<store, here>>, PollInv', client' \in [Client -> Follower],
         \A c \in Client : FollowerOK(client'[c]), \A c \in Client : Fits(client[c])'
  PROVE  FInv'
<1>1. StoreInv'
  BY DEF FInv, StoreInv, StoreType, store, here
<1>2. ASSUME NEW c \in Client PROVE FollowerOK(client[c])'
  <2>1. FollowerOK(client'[c])
    OBVIOUS
  <2>2. QED
    BY <2>1 DEF FollowerOK, Misled, Unbroken, store, here
<1>3. QED
  BY <1>1, <1>2 DEF FInv, ClientInv

\* A poll that is over brings nothing.
LEMMA NoPollInv ==
  ASSUME StoreType', poll' = NoPoll
  PROVE  PollInv' /\ \A f : (f \in Follower => Fits(f)')
<1>1. NoPoll \in Poll({}, {})
  BY DEF NoPoll, Poll
<1>2. PollInv'
  BY <1>1 DEF PollInv, NoPoll
<1>3. \A r : ~PollUnderWay(r)'
  BY DEF PollUnderWay, NoPoll
<1>4. QED
  BY <1>2, <1>3 DEF Fits

LEMMA PollOver ==
  ASSUME FInv, UNCHANGED <<store, here, client>>, poll' = NoPoll
  PROVE  FInv'
<1>1. StoreType'
  BY DEF FInv, StoreInv, StoreType, store, here
<1>2. PollInv' /\ \A r : ~PollUnderWay(r)'
  BY <1>1, NoPollInv DEF PollUnderWay, NoPoll
<1>3. client' \in [Client -> Follower] /\ \A c \in Client : FollowerOK(client'[c])
  BY FollowerIs DEF FInv, ClientInv
<1>4. \A c \in Client : Fits(client[c])'
  BY <1>2 DEF Fits
<1>5. QED
  BY <1>2, <1>3, <1>4, PollMoves

\* A poll asks from no further than any of the followers is.
LEMMA AskedIs ==
  ASSUME FInv, NEW r \in Resp, Remote(r) # {}
  PROVE  /\ AskedFrom(r) \in Nat /\ AskedFrom(r) <= last[r]
         /\ \A c \in Remote(r) : AskedFrom(r) <= client[c].pos
<1> DEFINE S == {client[c].pos : c \in Remote(r)}
<1>1. ASSUME NEW c \in Remote(r)
      PROVE  client[c].pos \in Nat /\ client[c].pos <= last[r]
  <2>1. c \in Client /\ client[c].st = "remote" /\ client[c].rid = r
    BY DEF Remote
  <2>2. QED
    BY <2>1, FollowerIs
<1>2. S \in SUBSET Nat /\ S # {}
  BY <1>1
<1>3. LeastOf(S) \in S /\ \A k \in S : LeastOf(S) <= k
  <2> HIDE DEF S
  <2>1. QED
    BY <1>2, LeastIsThere
<1>4. QED
  BY <1>1, <1>3 DEF AskedFrom

\* Markers for the followers of some responses.
LEMMA MarkAllIs ==
  ASSUME FInv, NEW S \in SUBSET Client, NEW m \in {"switch", "evict"}, client' = MarkAll(S, m)
  PROVE  /\ client' \in [Client -> Follower]
         /\ \A c \in Client :
              /\ FollowerOK(client'[c]) /\ Fits(client'[c])
              /\ client'[c].st = client[c].st /\ client'[c].rid = client[c].rid
              /\ client'[c].late = client[c].late /\ client'[c].queued = client[c].queued
              /\ client[c].mark # "none" => client'[c].mark # "none"
              /\ c \in S => client'[c].mark # "none"
<1>1. ASSUME NEW c \in Client
      PROVE  /\ FollowerOK(client'[c]) /\ Fits(client'[c])
             /\ client'[c].st = client[c].st /\ client'[c].rid = client[c].rid
             /\ client'[c].late = client[c].late /\ client'[c].queued = client[c].queued
             /\ client[c].mark # "none" => client'[c].mark # "none"
             /\ c \in S => client'[c].mark # "none"
  <2>1. client[c] \in Follower /\ FollowerOK(client[c]) /\ Fits(client[c])
    BY FollowerIs
  <2>2. CASE c \in S
    <3>1. client'[c] = Marked(client[c], m)
      BY <2>2 DEF MarkAll
    <3>2. FollowerOK(Marked(client[c], m)) /\ Fits(Marked(client[c], m))
      BY <2>1, MarkedIs
    <3>3. QED
      BY <2>1, <3>1, <3>2 DEF Marked, Follower
  <2>3. CASE c \notin S
    <3>1. client'[c] = client[c]
      BY <2>3 DEF MarkAll
    <3>2. QED
      BY <2>1, <2>3, <3>1
  <2>4. QED
    BY <2>2, <2>3
<1>2. client' = [c \in Client |-> client'[c]]
  BY DEF MarkAll
<1>3. \A c \in Client : client'[c] \in Follower
  BY <1>1 DEF FollowerOK
<1>4. client' \in [Client -> Follower]
  BY <1>2, <1>3
<1>5. QED
  BY <1>1, <1>4

LEMMA PollIssueKeeps ==
  ASSUME FInv, PollIssue
  PROVE  FInv'
<1> DEFINE followed == {r \in Resp : Remote(r) # {}}
           asked == {r \in followed : runs[r] = 0}
           S == UNION {Remote(r) : r \in followed \ asked}
<1>1. /\ poll.st = "idle" /\ client' = MarkAll(S, "switch") /\ UNCHANGED <<store, here>>
      /\ poll' = IF asked = {} THEN poll
                 ELSE [NoPoll EXCEPT !.st = "sent", !.after = [r \in asked |-> AskedFrom(r)]]
  BY DEF PollIssue
<1>2. S \in SUBSET Client
  BY DEF Remote
<1>3. /\ client' \in [Client -> Follower]
      /\ \A c \in Client :
           /\ FollowerOK(client'[c]) /\ Fits(client'[c])
           /\ client'[c].st = client[c].st /\ client'[c].rid = client[c].rid
           /\ client'[c].late = client[c].late /\ client'[c].queued = client[c].queued
           /\ client[c].mark # "none" => client'[c].mark # "none"
           /\ c \in S => client'[c].mark # "none"
  <2> HIDE DEF S
  <2>1. QED
    BY <1>1, <1>2, MarkAllIs
<1>4. CASE asked = {}
  <2>1. PollInv'
    BY <1>1, <1>4 DEF FInv, PollInv, PageOK, store, here
  <2>2. ASSUME NEW c \in Client PROVE Fits(client[c])'
    <3>1. Fits(client'[c]) /\ poll' = poll
      BY <1>1, <1>3, <1>4
    <3>2. QED
      BY <3>1 DEF Fits, PollUnderWay
  <2>3. QED
    BY <1>1, <1>3, <2>1, <2>2, PollMoves
<1>5. CASE asked # {}
  <2> DEFINE after == [r \in asked |-> AskedFrom(r)]
  <2>1. poll' = [NoPoll EXCEPT !.st = "sent", !.after = after]
    BY <1>1, <1>5
  <2>2. asked \in SUBSET Resp
    OBVIOUS
  <2>3. \A r \in asked : /\ after[r] \in Nat /\ after[r] <= last[r]
                         /\ \A c \in Remote(r) : after[r] <= client[c].pos
    BY AskedIs
  <2>4. after \in [asked -> Nat] /\ DOMAIN after = asked
    BY <2>3
  <2>5. poll'.st = "sent" /\ poll'.after = after
    BY <2>1 DEF NoPoll
  <2>6. PollInv'
    <3>1. poll' \in Poll(asked, {})
      <4> HIDE DEF after, asked
      <4>1. poll' = [st |-> "sent", after |-> after, res |-> <<>>, todo |-> {}, rid |-> "none"]
        BY <2>1 DEF NoPoll
      <4>2. <<>> \in [{} -> Page]
        OBVIOUS
      <4>3. QED
        BY <2>4, <4>1, <4>2 DEF Poll
    <3>2. \A r \in DOMAIN poll'.after : poll'.after[r] <= last'[r]
      BY <1>1, <2>3, <2>4, <2>5 DEF store
    <3> HIDE DEF asked, after
    <3>3. {} \in SUBSET Resp
      OBVIOUS
    <3>4. \E U, T \in SUBSET Resp : poll' \in Poll(U, T)
      BY <2>2, <3>1, <3>3
    <3>5. QED
      BY <2>5, <3>2, <3>4 DEF PollInv, Poll
  <2>7. ASSUME NEW c \in Client PROVE Fits(client[c])'
    <3> SUFFICES ASSUME client'[c].st = "remote", ~client'[c].late
                 PROVE  /\ client'[c].rid \in DOMAIN after => after[client'[c].rid] <= client'[c].queued
                        /\ client'[c].mark = "none" => client'[c].rid \in DOMAIN after
      BY <2>5 DEF Fits
    <3> DEFINE r == client[c].rid
    <3>1. /\ client[c].st = "remote" /\ ~client[c].late /\ client'[c].rid = r
          /\ client'[c].queued = client[c].queued
      BY <1>3
    <3>2. r \in Resp /\ c \in Remote(r) /\ client[c].pos \in Nat /\ client[c].queued \in Nat
          /\ client[c].pos <= client[c].queued
      BY <3>1, FollowerIs DEF Remote, FollowerOK
    <3>3. ASSUME r \in asked PROVE after[r] <= client[c].queued
      <4>1. after[r] \in Nat /\ after[r] <= client[c].pos
        BY <2>3, <3>2, <3>3
      <4> HIDE DEF after
      <4>2. QED
        BY <3>2, <4>1
    <3>4. ASSUME r \notin asked PROVE client'[c].mark # "none"
      BY <1>3, <3>2, <3>4
    <3> HIDE DEF after, asked
    <3>5. QED
      BY <2>4, <3>1, <3>3, <3>4
  <2>8. QED
    BY <1>1, <1>3, <2>6, <2>7, PollMoves
<1>6. QED
  BY <1>4, <1>5

LEMMA PollReadKeeps ==
  ASSUME FInv, PollRead
  PROVE  FInv'
<1> DEFINE S == DOMAIN poll.after
           page(r) == [upto |-> Least(last[r], poll.after[r] + PollLimit),
                       settled |-> settled[r], free |-> owner[r] = "none"]
           res == [r \in S |-> page(r)]
<1>1. /\ poll.st = "sent" /\ poll' = [poll EXCEPT !.st = "read", !.res = res]
      /\ UNCHANGED <<store, here, client>>
  BY DEF PollRead
<1>2. /\ S \in SUBSET Resp /\ poll \in Poll(S, DOMAIN poll.res)
      /\ \A r \in S : poll.after[r] \in Nat /\ poll.after[r] <= last[r]
  BY PollIs DEF FInv
<1>3. ASSUME NEW r \in S PROVE page(r) \in Page /\ res[r] = page(r) /\ res[r].upto <= last[r]
  <2>1. last[r] \in Nat /\ settled[r] \in BOOLEAN
    BY <1>2 DEF FInv, StoreInv, StoreType
  <2>2. Least(last[r], poll.after[r] + PollLimit) \in Nat
        /\ Least(last[r], poll.after[r] + PollLimit) <= last[r]
    BY <1>2, <2>1, FollowConstants DEF Least
  <2>3. QED
    BY <2>1, <2>2 DEF Page
<1>4. /\ poll' \in Poll(S, S) /\ poll'.st = "read" /\ poll'.after = poll.after
      /\ poll'.res = res /\ poll'.todo = poll.todo
  <2>1. res \in [S -> Page]
    BY <1>3
  <2> HIDE DEF res, S
  <2>2. QED
    BY <1>1, <1>2, <2>1 DEF Poll
<1>5. PollInv'
  <2>1. \A r \in S : poll'.after[r] <= last'[r]
    BY <1>1, <1>2, <1>4 DEF store
  <2>2. \A r \in S : PageOK(r)'
    <3> SUFFICES ASSUME NEW r \in S PROVE PageOK(r)'
      OBVIOUS
    <3>1. /\ poll'.res[r] = page(r) /\ res[r].upto <= last[r] /\ last' = last /\ settled' = settled
          /\ poll'.after[r] = poll.after[r]
      BY <1>1, <1>3, <1>4 DEF store
    <3>2. /\ poll'.res[r].upto = Least(last[r], poll.after[r] + PollLimit)
          /\ poll'.res[r].settled = settled[r] /\ poll'.res[r].upto <= last[r]
      BY <1>3, <3>1
    <3> HIDE DEF page, res
    <3>3. QED
      BY <3>1, <3>2 DEF PageOK
  <2>3. DOMAIN poll'.res = S
    BY <1>4
  <2> HIDE DEF res, page
  <2>4. \E U, T \in SUBSET Resp : poll' \in Poll(U, T)
    BY <1>2, <1>4
  <2>5. QED
    BY <1>4, <2>1, <2>2, <2>3, <2>4 DEF PollInv
<1>6. ASSUME NEW c \in Client PROVE FollowerOK(client'[c]) /\ Fits(client[c])'
  <2>1. FollowerOK(client[c]) /\ Fits(client[c]) /\ client'[c] = client[c]
    BY <1>1, FollowerIs
  <2> HIDE DEF res, page
  <2>2. QED
    BY <1>1, <1>4, <2>1 DEF Fits, PollUnderWay
<1>7. client' \in [Client -> Follower]
  BY <1>1 DEF FInv, ClientInv
<1>8. QED
  BY <1>1, <1>5, <1>6, <1>7, PollMoves

LEMMA PollReplyKeeps ==
  ASSUME FInv, PollReply
  PROVE  FInv'
<1> DEFINE todo == {r \in Resp : Remote(r) # {}}
<1>1. poll.st = "read" /\ UNCHANGED <<store, here, client>>
      /\ poll' = IF todo = {} THEN NoPoll ELSE [poll EXCEPT !.st = "apply", !.todo = todo]
  BY DEF PollReply
<1>2. CASE poll' = NoPoll
  BY <1>1, <1>2, PollOver
<1>3. CASE poll' = [poll EXCEPT !.st = "apply", !.todo = todo]
  <2> DEFINE S == DOMAIN poll.after
  <2>1. /\ S \in SUBSET Resp /\ poll \in Poll(S, S) /\ DOMAIN poll.res = S
        /\ \A r \in S : poll.after[r] <= last[r] /\ PageOK(r)
    BY <1>1, PollIs DEF FInv
  <2>2. todo \in SUBSET Resp
    OBVIOUS
  <2> HIDE DEF todo, S
  <2>3. /\ poll' \in Poll(S, S) /\ poll'.st = "apply" /\ poll'.after = poll.after
        /\ poll'.res = poll.res
    BY <1>3, <2>1, <2>2 DEF Poll
  <2>4. PollInv'
    <3>1. \A r \in S : PageOK(r)'
      BY <1>1, <2>1, <2>3 DEF PageOK, store
    <3>2. \A r \in S : poll'.after[r] <= last'[r]
      BY <1>1, <2>1, <2>3 DEF store
    <3>3. \E U, T \in SUBSET Resp : poll' \in Poll(U, T)
      BY <2>1, <2>3
    <3>4. QED
      BY <2>1, <2>3, <3>1, <3>2, <3>3 DEF PollInv, S
  <2>5. ASSUME NEW c \in Client PROVE FollowerOK(client'[c]) /\ Fits(client[c])'
    <3>1. FollowerOK(client[c]) /\ Fits(client[c]) /\ client'[c] = client[c]
      BY <1>1, FollowerIs
    <3>2. QED
      BY <1>1, <2>3, <3>1 DEF Fits, PollUnderWay
  <2>6. client' \in [Client -> Follower]
    BY <1>1 DEF FInv, ClientInv
  <2>7. QED
    BY <1>1, <2>4, <2>5, <2>6, PollMoves
<1>4. QED
  BY <1>1, <1>2, <1>3

\* What a poll brings a follower: the records above what was queued before.
LEMMA QueuedIs ==
  ASSUME FInv, NEW c \in Client, client[c].st = "remote", PollInv,
         poll.st = "apply", client[c].rid \in poll.todo, client[c].rid \in DOMAIN poll.after
  PROVE  LET r == client[c].rid
             f == Queued(client[c], poll.after[r], poll.res[r].upto)
         IN /\ FollowerOK(f) /\ Fits(f) /\ f.st = "remote" /\ f.rid = r
            /\ f.late = client[c].late /\ f.mark = client[c].mark
            /\ ~f.late /\ f.mark = "none" /\ poll.res[r].upto = last[r] => f.queued = last[r]
<1> DEFINE e == client[c]
           r == e.rid
           after == poll.after[r]
           upto == poll.res[r].upto
           new == {n \in after + 1..upto : n > e.queued}
           f == [e EXCEPT !.q = e.q \cup new, !.queued = Most(e.queued, upto)]
<1>1. /\ e \in Follower /\ FollowerOK(e) /\ Fits(e) /\ e.pos \in Nat /\ e.start \in Nat
      /\ e.queued \in Nat /\ r \in Resp /\ last[r] \in Nat /\ e.pos <= last[r]
  BY FollowerIs
<1>2. CASE e.mark # "none"
  BY <1>1, <1>2 DEF Queued
<1>3. CASE e.mark = "none"
  <2>1. after \in Nat /\ upto \in Nat /\ upto <= last[r]
    BY PollIs DEF Page, PageOK
  <2>2. e.queued <= last[r] /\ (\A n \in e.q : n <= e.queued) /\ e.start <= e.pos /\ e.k <= Len(obj[r])
    BY <1>1 DEF FollowerOK
  <2>3. ~e.late => Unbroken(e) /\ e.pos <= e.queued /\ e.pos + 1..e.queued \subseteq e.q
                   /\ after <= e.queued
    <3>1. PollUnderWay(r)
      BY DEF PollUnderWay
    <3>2. QED
      BY <1>1, <3>1 DEF FollowerOK, Fits
  <2> HIDE DEF after, upto
  <2>4. Most(e.queued, upto) \in Nat /\ Most(e.queued, upto) <= last[r] /\ e.queued <= Most(e.queued, upto)
        /\ upto <= Most(e.queued, upto) /\ Most(e.queued, upto) \in {e.queued, upto}
    BY <1>1, <2>1, <2>2 DEF Most
  <2>5. e.q \cup new \in SUBSET Nat
    BY <1>1, <2>1 DEF Follower
  <2>6. /\ f \in Follower /\ f.st = "remote" /\ f.rid = r /\ f.k = e.k /\ f.start = e.start
        /\ f.pos = e.pos /\ f.got = e.got /\ f.late = e.late /\ f.q = e.q \cup new
        /\ f.queued = Most(e.queued, upto) /\ f.mark = "none"
    BY <1>1, <1>3, <2>4, <2>5 DEF Follower
  <2>7. Queued(e, after, upto) = f
    BY <1>3 DEF Queued
  <2> HIDE DEF f
  <2>8. \A n \in f.q : n <= f.queued
    <3> SUFFICES ASSUME NEW n \in f.q PROVE n <= f.queued
      OBVIOUS
    <3>1. CASE n \in e.q
      <4>1. n \in Nat /\ n <= e.queued
        BY <1>1, <2>2, <3>1 DEF Follower
      <4>2. QED
        BY <1>1, <2>4, <2>6, <4>1
    <3>2. CASE n \in new
      <4>1. n \in Nat /\ n <= upto
        BY <2>1, <3>2
      <4>2. QED
        BY <2>1, <2>4, <2>6, <4>1
    <3>3. QED
      BY <2>6, <3>1, <3>2
  <2>9. ~f.late => f.pos <= f.queued /\ f.pos + 1..f.queued \subseteq f.q
    <3> SUFFICES ASSUME ~f.late PROVE f.pos <= f.queued /\ f.pos + 1..f.queued \subseteq f.q
      OBVIOUS
    <3>1. e.pos <= e.queued /\ e.pos + 1..e.queued \subseteq e.q /\ after <= e.queued
      BY <2>3, <2>6
    <3>2. f.pos <= f.queued
      BY <1>1, <2>4, <2>6, <3>1
    <3>3. ASSUME NEW n \in f.pos + 1..f.queued PROVE n \in f.q
      <4>1. n \in Nat /\ e.pos + 1 <= n /\ n <= Most(e.queued, upto)
        BY <1>1, <2>4, <2>6
      <4>2. CASE n <= e.queued
        BY <1>1, <2>6, <3>1, <4>1, <4>2
      <4>3. CASE n > e.queued
        <5>1. n <= upto /\ after + 1 <= n
          BY <1>1, <2>1, <2>4, <3>1, <4>1, <4>3
        <5>2. n \in new
          BY <2>1, <4>1, <4>3, <5>1
        <5>3. QED
          BY <2>6, <5>2
      <4>4. QED
        BY <1>1, <4>1, <4>2, <4>3
    <3>4. QED
      BY <3>2, <3>3
  <2>10. FollowerOK(f)
    <3>1. ~f.late => Unbroken(f)
      BY <2>3, <2>6 DEF Unbroken
    <3> HIDE DEF new
    <3>2. QED
      BY <1>1, <2>2, <2>4, <2>6, <2>8, <2>9, <3>1 DEF FollowerOK
  <2>11. Fits(f)
    <3> HIDE DEF new
    <3>1. ~f.late => after <= f.queued
      BY <1>1, <2>1, <2>3, <2>4, <2>6
    <3>2. QED
      BY <2>6, <3>1 DEF Fits, after
  <2>12. upto = last[r] => f.queued = last[r]
    BY <1>1, <2>4, <2>6
  <2> HIDE DEF new
  <2>13. QED
    BY <1>3, <2>6, <2>7, <2>10, <2>11, <2>12 DEF after, upto
<1>4. QED
  BY <1>2, <1>3

\* What PollApply leaves of the poll.
LEMMA PollGoesOn ==
  ASSUME FInv, UNCHANGED <<store, here>>, NEW r \in Resp, poll.st = "apply",
         \/ poll' = NoPoll
         \/ poll' = [poll EXCEPT !.todo = poll.todo \ {r}]
         \/ poll' = [poll EXCEPT !.todo = poll.todo \ {r}, !.st = "claim", !.rid = r]
  PROVE  /\ PollInv' /\ ~PollUnderWay(r)'
         /\ \A q : PollUnderWay(q)' => PollUnderWay(q) /\ poll'.after = poll.after
<1>1. StoreType'
  BY DEF FInv, StoreInv, StoreType, store, here
<1>2. CASE poll' = NoPoll
  BY <1>1, <1>2, NoPollInv DEF PollUnderWay, NoPoll
<1>3. CASE poll' # NoPoll
  <2> DEFINE S == DOMAIN poll.after
  <2>1. /\ S \in SUBSET Resp /\ poll \in Poll(S, S) /\ DOMAIN poll.res = S
        /\ \A q \in S : poll.after[q] <= last[q] /\ PageOK(q)
    BY PollIs DEF FInv
  <2> HIDE DEF S
  <2>2. poll.todo \ {r} \in SUBSET Resp
    BY <2>1 DEF Poll
  <2>3. /\ poll' \in Poll(S, S) /\ poll'.st \in {"apply", "claim"} /\ poll'.after = poll.after
        /\ poll'.res = poll.res /\ poll'.todo = poll.todo \ {r}
        /\ (poll'.st = "claim" => poll'.rid \in Resp)
    <3>1. CASE poll' = [poll EXCEPT !.todo = poll.todo \ {r}]
      BY <2>1, <2>2, <3>1 DEF Poll
    <3>2. CASE poll' = [poll EXCEPT !.todo = poll.todo \ {r}, !.st = "claim", !.rid = r]
      BY <2>1, <2>2, <3>2 DEF Poll
    <3>3. QED
      BY <1>3, <3>1, <3>2
  <2>4. PollInv'
    <3>1. \A q \in S : PageOK(q)'
      BY <2>1, <2>3 DEF PageOK, store
    <3>2. \A q \in S : poll'.after[q] <= last'[q]
      BY <2>1, <2>3 DEF store
    <3>3. \E U, T \in SUBSET Resp : poll' \in Poll(U, T)
      BY <2>1, <2>3
    <3>4. QED
      BY <2>1, <2>3, <3>1, <3>2, <3>3 DEF PollInv, S
  <2>5. ~PollUnderWay(r)' /\ \A q : PollUnderWay(q)' => PollUnderWay(q)
    BY <2>3 DEF PollUnderWay
  <2>6. QED
    BY <2>3, <2>4, <2>5
<1>4. QED
  BY <1>2, <1>3

LEMMA PollApplyKeeps ==
  ASSUME FInv, NEW r \in Resp, PollApply(r)
  PROVE  FInv'
<1> DEFINE asked == r \in DOMAIN poll.res
           res == poll.res[r]
           after == poll.after[r]
           queued(c) == Queued(client[c], after, res.upto)
           filled(c) == IF EndsNow(res, after) THEN Marked(queued(c), "end") ELSE queued(c)
           left == poll.todo \ {r}
<1>1. /\ poll.st = "apply" /\ r \in poll.todo /\ UNCHANGED <<store, here>>
      /\ client' = IF ~asked THEN MarkAll(Remote(r), "end")
                   ELSE [c \in Client |-> IF c \in Remote(r) THEN filled(c) ELSE client[c]]
  BY DEF PollApply
<1>2. \/ poll' = NoPoll \/ poll' = [poll EXCEPT !.todo = left]
      \/ poll' = [poll EXCEPT !.todo = left, !.st = "claim", !.rid = r]
  BY DEF PollApply
<1>3. /\ PollInv' /\ ~PollUnderWay(r)'
      /\ \A q : PollUnderWay(q)' => PollUnderWay(q) /\ poll'.after = poll.after
  BY <1>1, <1>2, PollGoesOn
<1>4. PollInv /\ DOMAIN poll.res = DOMAIN poll.after
  BY <1>1, PollIs DEF FInv
<1>5. ASSUME NEW c \in Client
      PROVE  FollowerOK(client'[c]) /\ Fits(client'[c])
  <2>1. FollowerOK(client[c]) /\ Fits(client[c])
    BY FollowerIs
  <2>2. CASE c \notin Remote(r)
    <3>1. client'[c] = client[c]
      BY <1>1, <2>2 DEF MarkAll
    <3>2. QED
      BY <2>1, <3>1
  <2>3. CASE c \in Remote(r) /\ ~asked
    <3>1. client'[c] = Marked(client[c], "end") /\ client[c].st = "remote" /\ client[c].rid = r
      BY <1>1, <2>3 DEF MarkAll, Remote
    <3>2. client[c].late \/ client[c].mark # "none"
      BY <1>1, <1>4, <2>1, <2>3, <3>1 DEF Fits, PollUnderWay
    <3>3. QED
      BY <2>1, <3>1, <3>2, MarkedIs
  <2>4. CASE c \in Remote(r) /\ asked
    <3>1. client'[c] = filled(c) /\ client[c].st = "remote" /\ client[c].rid = r
      BY <1>1, <2>4 DEF Remote
    <3>2. /\ FollowerOK(queued(c)) /\ Fits(queued(c)) /\ queued(c).st = "remote" /\ queued(c).rid = r
          /\ queued(c).late = client[c].late /\ queued(c).mark = client[c].mark
          /\ ~queued(c).late /\ queued(c).mark = "none" /\ res.upto = last[r] => queued(c).queued = last[r]
      BY <1>1, <1>4, <2>4, <3>1, QueuedIs
    <3>3. EndsNow(res, after) => settled[r] /\ res.upto = last[r]
      <4>1. /\ res \in Page /\ PageOK(r) /\ after \in Nat /\ last[r] \in Nat /\ PollLimit \in Nat
        BY <1>1, <1>4, <2>4, PollIs, FollowConstants DEF FInv, StoreInv, StoreType
      <4>2. EndsNow(res, after) => settled[r] /\ res.upto = Least(last[r], after + PollLimit)
                                   /\ res.upto - after < PollLimit
        BY <4>1 DEF EndsNow, PageOK
      <4>3. res.upto \in Nat
        BY <4>1 DEF Page
      <4> HIDE DEF res, after
      <4>4. QED
        BY <4>1, <4>2, <4>3 DEF Least
    <3> HIDE DEF queued, res, after
    <3>4. QED
      BY <3>1, <3>2, <3>3, MarkedIs
  <2>5. QED
    BY <2>2, <2>3, <2>4
<1>6. ASSUME NEW c \in Client PROVE Fits(client[c])'
  <2>1. client'[c].st = "remote" => client'[c].rid = r \/ client'[c].rid # r
    OBVIOUS
  <2>2. QED
    BY <1>3, <1>5 DEF Fits
<1>7. client' \in [Client -> Follower]
  <2>1. \A c \in Client : client'[c] \in Follower
    BY <1>5 DEF FollowerOK
  <2>2. client' = [c \in Client |-> client'[c]]
    BY <1>1 DEF MarkAll
  <2>3. QED
    BY <2>1, <2>2
<1>8. QED
  BY <1>1, <1>3, <1>5, <1>6, <1>7, PollMoves

LEMMA PollClaimKeeps ==
  ASSUME FInv, PollClaim
  PROVE  FInv'
<1> DEFINE r == poll.rid
           S == DOMAIN poll.after
<1>1. /\ poll.st = "claim" /\ poll' = [poll EXCEPT !.st = "apply"]
      /\ Starts(r) \/ UNCHANGED <<store, here>>
      /\ client' = MarkAll(Remote(r), "switch") \/ client' = client
  BY DEF PollClaim
<1>2. r \in Resp
  BY <1>1 DEF FInv, PollInv
<1>3. StoreInv' /\ Forward
  <2>1. CASE Starts(r)
    BY <1>2, <2>1, StartsKeeps DEF FInv
  <2>2. CASE UNCHANGED <<store, here>>
    BY <2>2 DEF FInv, StoreInv, StoreType, Forward, store, here
  <2>3. QED
    BY <1>1, <2>1, <2>2
<1>4. client' \in [Client -> Follower] /\ \A c \in Client : FollowerOK(client'[c]) /\ Fits(client'[c])
  <2>1. Remote(r) \in SUBSET Client
    BY DEF Remote
  <2>2. CASE client' = client
    BY <2>2, FollowerIs DEF FInv, ClientInv
  <2>3. QED
    BY <1>1, <2>1, <2>2, MarkAllIs
<1>5. /\ S \in SUBSET Resp /\ poll \in Poll(S, S) /\ DOMAIN poll.res = S
      /\ \A q \in S : poll.after[q] \in Nat /\ poll.after[q] <= last[q]
      /\ \A q \in S : PageOK(q) /\ poll.res[q] \in Page
  BY <1>1, PollIs DEF FInv
<1> HIDE DEF S
<1>6. /\ poll' \in Poll(S, S) /\ poll'.st = "apply" /\ poll'.after = poll.after
      /\ poll'.res = poll.res /\ poll'.todo = poll.todo
  BY <1>1, <1>5 DEF Poll
<1>7. PollInv'
  <2>1. ASSUME NEW q \in S PROVE poll'.after[q] <= last'[q] /\ PageOK(q)'
    <3>1. /\ poll.after[q] \in Nat /\ poll.after[q] <= last[q] /\ PageOK(q)
          /\ poll.res[q].upto \in Nat /\ last[q] \in Nat /\ last'[q] \in Nat
      BY <1>3, <1>5 DEF Page, FInv, StoreInv, StoreType
    <3>2. last[q] <= last'[q] /\ (settled[q] => settled'[q] /\ last'[q] = last[q])
      BY <1>3, <1>5 DEF Forward
    <3>3. QED
      BY <1>6, <3>1, <3>2 DEF PageOK
  <2>2. \E U, T \in SUBSET Resp : poll' \in Poll(U, T)
    BY <1>5, <1>6
  <2>3. QED
    BY <1>5, <1>6, <2>1, <2>2 DEF PollInv, S
<1>8. ASSUME NEW c \in Client PROVE FollowerOK(client[c])' /\ Fits(client[c])'
  <2>1. FollowerOK(client'[c]) /\ Fits(client'[c])
    BY <1>4
  <2>2. FollowerOK(client[c])'
    <3>1. StoreType /\ StoreType'
      BY <1>3 DEF FInv, StoreInv
    <3>2. \A f : FollowerOK(f) => FollowerOK(f)'
      BY <1>3, <3>1, FollowerKept
    <3>3. QED
      BY <2>1, <3>2 DEF FollowerOK, Misled, Unbroken
  <2>3. Fits(client[c])'
    BY <1>1, <1>6, <2>1 DEF Fits, PollUnderWay
  <2>4. QED
    BY <2>2, <2>3
<1>9. QED
  BY <1>3, <1>4, <1>7, <1>8 DEF FInv, ClientInv

-----------------------------------------------------------------------------
LEMMA FInvStep == FInv /\ [Next]_vars => FInv'
<1> SUFFICES ASSUME FInv, [Next]_vars PROVE FInv'
  OBVIOUS
<1>1. CASE UNCHANGED vars
  <2>1. UNCHANGED <<store, here, poll, client>>
    BY <1>1 DEF vars, store, here
  <2>2. client' \in [Client -> Follower] /\ \A c \in Client : FollowerOK(client'[c]) /\ Fits(client'[c])
    BY <2>1, FollowerIs DEF FInv, ClientInv
  <2>3. QED
    BY <2>1, <2>2, ClientsMove
<1>2. CASE (\E r \in Resp : RunsStep(r)) \/ Suspend \/ SuspendEnds
  BY <1>2, RunsStepKeeps
<1>3. CASE \E c \in Client : FollowerStep(c)
  BY <1>3, FollowerStepKeeps
<1>4. CASE \E r \in Resp : PollApply(r)
  BY <1>4, PollApplyKeeps
<1>5. CASE PollIssue
  BY <1>5, PollIssueKeeps
<1>6. CASE PollRead
  BY <1>6, PollReadKeeps
<1>7. CASE PollReply
  BY <1>7, PollReplyKeeps
<1>8. CASE PollClaim
  BY <1>8, PollClaimKeeps
<1>9. CASE PollDone \/ PollFails
  BY <1>9, PollOver DEF PollDone, PollFails
<1>10. QED
  BY <1>1, <1>2, <1>3, <1>4, <1>5, <1>6, <1>7, <1>8, <1>9 DEF Next, RunsStep, FollowerStep

\* Whatever a follower is moved through (the Run's memory, the log, the shared
\* poll of _poller_loop and back), it is given every record after its position,
\* in order, unless it joined the shared poll while one was under way.
THEOREM FollowersInOrder == Spec => []FollowsInOrder
<1>1. FInv => FollowsInOrder
  BY DEF FInv, ClientInv, FollowerOK, FollowsInOrder
<1>2. QED
  BY <1>1, InitFInv, FInvStep, PTL DEF Spec

\* A stream of follow that ends without an error has given the last record of
\* a settled response, unless it is of those FollowersInOrder leaves out, or
\* its Run took a refused finish for a settled one.
THEOREM StreamsEndComplete == Spec => []EndsComplete
<1>1. FInv => EndsComplete
  BY DEF FInv, ClientInv, FollowerOK, EndsComplete
<1>2. QED
  BY <1>1, InitFInv, FInvStep, PTL DEF Spec

-----------------------------------------------------------------------------
(* The follower cap. Of any readers that are few enough to be counted one   *)
(* started before all others, so at the cap a reader leaves for the one     *)
(* that comes; no other step makes a reader.                                *)

Few(S) == IsFiniteSet(S) /\ Cardinality(S) <= MaxFollowers

CapInv ==
  /\ stopping \in BOOLEAN /\ faults \in Nat
  /\ before \in [Client -> SUBSET Client]
  /\ \A c \in Client : c \notin before[c]
  /\ \A c \in Client : \A d \in before[c] : before[d] \subseteq before[c]
  /\ \A r \in Resp : Few(RemoteReaders(r)) /\ \A k \in Nat : Few(LocalReaders(r, k))

LEMMA OldestIs ==
  ASSUME CapInv, NEW S \in SUBSET Client, IsFiniteSet(S), S # {}
  PROVE  Oldest(S) \in S
<1> DEFINE T == {before[d] \cap S : d \in S}
<1>1. IsWellFoundedOn(StrictSubsetOrdering(S), FiniteSubsetsOf(S))
  BY FS_StrictSubsetOrderingWellFounded
<1>2. T \subseteq FiniteSubsetsOf(S)
  <2>1. T \subseteq SUBSET S
    OBVIOUS
  <2> QED BY <2>1, FS_FiniteSubsetsOfFinite
<1>3. T # {}
  OBVIOUS
<1>4. PICK D \in T : \A E \in T : ~(<<E, D>> \in StrictSubsetOrdering(S))
  <2> HIDE DEF T
  <2> QED BY <1>1, <1>2, <1>3, WFMin
<1>5. PICK d \in S : D = before[d] \cap S
  OBVIOUS
<1>6. ASSUME NEW e \in before[d] \cap S PROVE FALSE
  <2>1. before[e] \cap S \subseteq D /\ e \in D /\ e \notin before[e] \cap S
    BY <1>5, <1>6 DEF CapInv
  <2>2. <<before[e] \cap S, D>> \in StrictSubsetOrdering(S)
    BY <1>5, <2>1 DEF StrictSubsetOrdering
  <2> QED BY <1>4, <1>6, <2>2
<1> QED BY <1>6 DEF Oldest

LEMMA OneMore ==
  ASSUME NEW S, IsFiniteSet(S), NEW c
  PROVE  /\ IsFiniteSet(S \cup {c}) /\ Cardinality(S) \in Nat
         /\ Cardinality(S \cup {c}) \in Nat /\ Cardinality(S \cup {c}) <= Cardinality(S) + 1
<1>1. Cardinality(S) \in Nat
  BY FS_CardinalityType
<1>2. IsFiniteSet(S \cup {c})
        /\ (Cardinality(S \cup {c}) = Cardinality(S) \/ Cardinality(S \cup {c}) = Cardinality(S) + 1)
  BY FS_AddElement
<1> QED BY <1>1, <1>2

LEMMA EvictsOneOfThem ==
  ASSUME CapInv, NEW S \in SUBSET Client, Few(S)
  PROVE  Evicts(S) \subseteq S
<1>1. Cardinality(S) \in Nat /\ MaxFollowers \in Nat \ {0}
  BY FS_CardinalityType, FollowConstants DEF Few
<1>2. CASE Cardinality(S) >= MaxFollowers
  <2>1. S # {}
    BY <1>1, <1>2, FS_EmptySet
  <2> QED BY <2>1, OldestIs DEF Few, Evicts
<1> QED BY <1>2 DEF Evicts

\* One more reader, after the eviction.
LEMMA OneMoreReader ==
  ASSUME CapInv, NEW S \in SUBSET Client, Few(S), NEW c \in Client
  PROVE  Few((S \ Evicts(S)) \cup {c})
<1>1. Cardinality(S) \in Nat /\ MaxFollowers \in Nat \ {0}
  BY FS_CardinalityType, FollowConstants DEF Few
<1>2. CASE Cardinality(S) < MaxFollowers
  <2>1. S \ Evicts(S) = S
    BY <1>1, <1>2 DEF Evicts
  <2>2. /\ IsFiniteSet(S \cup {c}) /\ Cardinality(S \cup {c}) \in Nat
        /\ Cardinality(S \cup {c}) <= Cardinality(S) + 1
    BY OneMore, Zenon DEF Few
  <2>3. Cardinality(S \cup {c}) <= MaxFollowers
    BY <1>1, <1>2, <2>2
  <2> QED BY <2>1, <2>2, <2>3 DEF Few
<1>3. CASE Cardinality(S) >= MaxFollowers
  <2>1. S # {}
    BY <1>1, <1>3, FS_EmptySet
  <2>2. Oldest(S) \in S /\ Evicts(S) = {Oldest(S)}
    BY <1>3, <2>1, OldestIs DEF Few, Evicts
  <2>3. IsFiniteSet(S \ {Oldest(S)}) /\ Cardinality(S \ {Oldest(S)}) = Cardinality(S) - 1
    BY <2>2, FS_RemoveElement DEF Few
  <2> DEFINE U == S \ {Oldest(S)}
  <2> HIDE DEF U
  <2>4. Cardinality(U) = Cardinality(S) - 1 /\ IsFiniteSet(U) /\ (S \ Evicts(S)) = U
    BY <2>2, <2>3 DEF U
  <2>5. /\ IsFiniteSet(U \cup {c}) /\ Cardinality(U \cup {c}) \in Nat
        /\ Cardinality(U \cup {c}) <= Cardinality(U) + 1
    BY <2>4, OneMore, Zenon
  <2>6. Cardinality(S) <= MaxFollowers
    BY DEF Few
  <2>7. Cardinality(U \cup {c}) <= MaxFollowers
    BY <1>1, <2>4, <2>5, <2>6
  <2> QED BY <2>4, <2>5, <2>7 DEF Few
<1> QED BY <1>1, <1>2, <1>3

\* g reads only where f does.
Reads(f) == f.st \in {"local", "reading", "remote"} /\ ~f.evicted
NoNewReader(f, g) ==
  Reads(g) => Reads(f) /\ f.rid = g.rid /\ f.k = g.k /\ (f.st = "remote" <=> g.st = "remote")

LEMMA FewerReaders ==
  ASSUME NEW S \in SUBSET Client, NEW T \in SUBSET S, Few(S)
  PROVE  Few(T)
<1>1. IsFiniteSet(T) /\ Cardinality(T) <= Cardinality(S)
  BY FS_Subset DEF Few
<1>2. Cardinality(T) \in Nat /\ Cardinality(S) \in Nat /\ MaxFollowers \in Nat
  BY <1>1, FS_CardinalityType, FollowConstants DEF Few
<1> QED BY <1>1, <1>2 DEF Few

LEMMA NoneComes ==
  ASSUME CapInv, \A c \in Client : NoNewReader(client[c], client'[c]),
         stopping' \in BOOLEAN, faults' \in Nat, before' = before
  PROVE  CapInv'
<1>1. ASSUME NEW r \in Resp PROVE Few(RemoteReaders(r))'
  <2>1. RemoteReaders(r)' \subseteq RemoteReaders(r) /\ RemoteReaders(r) \subseteq Client
    BY DEF RemoteReaders, Remote, NoNewReader, Reads
  <2> QED BY <2>1, FewerReaders DEF CapInv, Few
<1>2. ASSUME NEW r \in Resp, NEW k \in Nat PROVE Few(LocalReaders(r, k))'
  <2>1. LocalReaders(r, k)' \subseteq LocalReaders(r, k) /\ LocalReaders(r, k) \subseteq Client
    BY DEF LocalReaders, NoNewReader, Reads
  <2> QED BY <2>1, FewerReaders DEF CapInv, Few
<1> QED BY <1>1, <1>2 DEF CapInv

LEMMA SameReads ==
  ASSUME NEW f, NEW g, f.st = g.st, f.rid = g.rid, f.k = g.k, f.evicted = g.evicted
  PROVE  NoNewReader(f, g)
BY DEF NoNewReader, Reads

\* One client moves and becomes no reader it was not.
LEMMA OneQuiet ==
  ASSUME FInv, CapInv, NEW c \in Client, NEW g, client' = Set(c, g), NoNewReader(client[c], g),
         stopping' = stopping, faults' = faults, before' = before
  PROVE  CapInv'
<1>1. client \in [Client -> Follower]
  BY DEF FInv, ClientInv
<1>2. \A d \in Client : client'[d] = IF d = c THEN g ELSE client[d]
  BY <1>1 DEF Set
<1>3. \A d \in Client : NoNewReader(client[d], client'[d])
  BY <1>2, SameReads
<1> QED BY <1>3, NoneComes DEF CapInv

\* Others may be given records and markers.
LEMMA MarksQuiet ==
  ASSUME FInv, CapInv, stopping' \in BOOLEAN, faults' \in Nat, before' = before,
         \A c \in Client : /\ client'[c].st = client[c].st /\ client'[c].rid = client[c].rid
                           /\ client'[c].k = client[c].k /\ client'[c].evicted = client[c].evicted
  PROVE  CapInv'
<1>1. \A c \in Client : NoNewReader(client[c], client'[c])
  BY SameReads
<1> QED BY <1>1, NoneComes

LEMMA MarkAllQuiet ==
  ASSUME FInv, CapInv, NEW S, NEW mark, client' = MarkAll(S, mark),
         stopping' \in BOOLEAN, faults' \in Nat, before' = before
  PROVE  CapInv'
<1>1. ASSUME NEW c \in Client
      PROVE  /\ client'[c].st = client[c].st /\ client'[c].rid = client[c].rid
             /\ client'[c].k = client[c].k /\ client'[c].evicted = client[c].evicted
  <2>1. client[c] \in Follower
    BY DEF FInv, ClientInv
  <2>2. client'[c] = IF c \in S THEN Marked(client[c], mark) ELSE client[c]
    BY DEF MarkAll
  <2> QED BY <2>1, <2>2 DEF Marked, Follower
<1> QED BY <1>1, MarksQuiet

-----------------------------------------------------------------------------
(* The followers' own steps.                                                *)

LEMMA GoneQuiet ==
  ASSUME FInv, CapInv, NEW c \in Client, NEW st \in {"aborted", "evicted", "left"}, client' = Gone(c, st),
         stopping' = stopping, faults' = faults, before' = before
  PROVE  CapInv'
<1> DEFINE g == [Idle EXCEPT !.st = st, !.rid = client[c].rid]
<1>1. ~Reads(g)
  BY DEF Reads, Idle
<1>2. client' = Set(c, g)
  BY DEF Gone
<1>3. NoNewReader(client[c], g)
  BY <1>1 DEF NoNewReader
<1> HIDE DEF g
<1> QED BY <1>2, <1>3, OneQuiet

LEMMA GivenReads ==
  ASSUME NEW f \in Follower, NEW S
  PROVE  /\ Given(f, S).st = f.st /\ Given(f, S).rid = f.rid /\ Given(f, S).k = f.k
         /\ Given(f, S).evicted = f.evicted /\ DOMAIN Given(f, S) = DOMAIN f
BY DEF Given, Follower

LEMMA AttachQuiet == ASSUME FInv, CapInv, NEW c \in Client, Attach(c) PROVE CapInv'
<1>1. PICK r \in Resp : \E n \in 0..last[r] :
        client' = Set(c, [Idle EXCEPT !.st = "loop", !.rid = r, !.start = n, !.pos = n])
  BY Zenon DEF Attach
<1>2. PICK n \in 0..last[r] : client' = Set(c, [Idle EXCEPT !.st = "loop", !.rid = r, !.start = n, !.pos = n])
  BY <1>1, Zenon
<1> DEFINE g == [Idle EXCEPT !.st = "loop", !.rid = r, !.start = n, !.pos = n]
<1>3. NoNewReader(client[c], g)
  BY DEF NoNewReader, Reads, Idle
<1>4. stopping' = stopping /\ faults' = faults /\ before' = before /\ client' = Set(c, g)
  BY <1>2 DEF Attach, here
<1> HIDE DEF g
<1> QED BY <1>3, <1>4, OneQuiet

LEMMA LocalTurnQuiet == ASSUME FInv, CapInv, NEW c \in Client, LocalTurn(c) PROVE CapInv'
<1> DEFINE f == client[c]
           o == obj[f.rid][f.k]
           S == {n \in f.pos + 1..o.committed : n >= o.first}
<1>1. stopping' = stopping /\ faults' = faults /\ before' = before /\ f \in Follower /\ f.st = "local"
  BY DEF LocalTurn, here, FInv, ClientInv
<1>2. \/ \E st \in {"aborted", "evicted", "left"} : client' = Gone(c, st)
      \/ ~f.evicted /\ client' = Set(c, Given(f, S))
      \/ ~f.evicted /\ \E st \in {"reading", "ended", "loop"} : client' = Set(c, [f EXCEPT !.st = st])
  BY DEF LocalTurn
<1>3. NoNewReader(f, Given(f, S))
  BY <1>1, GivenReads, SameReads
<1>4. ASSUME NEW st \in {"reading", "ended", "loop"}, ~f.evicted PROVE NoNewReader(f, [f EXCEPT !.st = st])
  BY <1>1, <1>4 DEF NoNewReader, Reads, Follower
<1> HIDE DEF f, S
<1>5. CASE \E st \in {"aborted", "evicted", "left"} : client' = Gone(c, st)
  BY <1>1, <1>5, GoneQuiet
<1>6. CASE ~f.evicted /\ client' = Set(c, Given(f, S))
  BY <1>1, <1>3, <1>6, OneQuiet DEF f
<1>7. CASE ~f.evicted /\ \E st \in {"reading", "ended", "loop"} : client' = Set(c, [f EXCEPT !.st = st])
  BY <1>1, <1>4, <1>7, OneQuiet DEF f
<1> QED BY <1>2, <1>5, <1>6, <1>7

LEMMA ReadLogQuiet == ASSUME FInv, CapInv, NEW c \in Client, ReadLog(c) PROVE CapInv'
<1> DEFINE f == client[c]
           S == f.pos + 1..Least(last[f.rid], f.pos + ListLimit)
           g == [Given(f, S) EXCEPT !.st = "local"]
<1>1. stopping' = stopping /\ faults' = faults /\ before' = before /\ f \in Follower /\ f.st = "reading"
  BY DEF ReadLog, here, FInv, ClientInv
<1>2. client' = Set(c, g)
  BY DEF ReadLog
<1> HIDE DEF S
<1>3. DOMAIN f = {"st", "rid", "k", "start", "pos", "got", "evicted", "q", "queued", "mark", "late"}
  BY <1>1 DEF Follower
<1>4. g.st = "local" /\ g.rid = f.rid /\ g.k = f.k /\ g.evicted = f.evicted
  BY <1>1, <1>3, GivenReads
<1>5. NoNewReader(f, g)
  BY <1>1, <1>4 DEF NoNewReader, Reads
<1> HIDE DEF g
<1> QED BY <1>1, <1>2, <1>5, OneQuiet

LEMMA RemoteTurnQuiet == ASSUME FInv, CapInv, NEW c \in Client, RemoteTurn(c) PROVE CapInv'
<1> DEFINE f == client[c]
           n == LeastOf(f.q)
           S == IF n > f.pos THEN {n} ELSE {}
           g == [Given(f, S) EXCEPT !.q = f.q \ {n}]
<1>1. stopping' = stopping /\ faults' = faults /\ before' = before /\ f \in Follower /\ f.st = "remote"
  BY DEF RemoteTurn, here, FInv, ClientInv
<1>2. \/ client' = Gone(c, "evicted")
      \/ client' = Set(c, g)
      \/ client' = Set(c, [f EXCEPT !.st = "ended"])
      \/ client' = Set(c, [f EXCEPT !.st = "loop", !.mark = "none"])
  BY DEF RemoteTurn
<1>3. NoNewReader(f, [f EXCEPT !.st = "ended"]) /\ NoNewReader(f, [f EXCEPT !.st = "loop", !.mark = "none"])
  BY <1>1 DEF NoNewReader, Reads, Follower
<1> HIDE DEF S
<1>4. DOMAIN f = {"st", "rid", "k", "start", "pos", "got", "evicted", "q", "queued", "mark", "late"}
  BY <1>1 DEF Follower
<1>5. g.st = f.st /\ g.rid = f.rid /\ g.k = f.k /\ g.evicted = f.evicted
  BY <1>1, <1>4, GivenReads
<1>6. NoNewReader(f, g)
  BY <1>5, SameReads
<1> HIDE DEF g
<1>7. CASE client' = Gone(c, "evicted")
  BY <1>1, <1>7, GoneQuiet
<1> QED BY <1>1, <1>2, <1>3, <1>6, <1>7, OneQuiet

\* Who began to follow before c did, once c begins.
LEMMA ArrivedOrder ==
  ASSUME CapInv, NEW c \in Client, before' = Arrived(c)
  PROVE  /\ before' \in [Client -> SUBSET Client]
         /\ \A d \in Client : d \notin before'[d]
         /\ \A d \in Client : \A e \in before'[d] : before'[e] \subseteq before'[d]
<1> DEFINE others == {d \in Client \ {c} : client[d].st \in {"local", "reading", "remote"}}
<1>1. others \subseteq Client \ {c}
  OBVIOUS
<1>2. before' = [d \in Client |-> IF d = c THEN others ELSE IF d \in others THEN before[d] \cap others ELSE {}]
  BY DEF Arrived
<1> HIDE DEF others
<1> QED BY <1>1, <1>2 DEF CapInv

LEMMA FollowLocalCaps == ASSUME FInv, CapInv, NEW c \in Client, FollowLocal(c) PROVE CapInv'
<1> DEFINE r == client[c].rid
           k == runs[r]
           S == LocalReaders(r, k)
           out == Evicts(S)
<1>1. client[c].st = "loop" /\ client[c] \in Follower /\ r \in Resp /\ k \in Nat
  BY FollowerIs DEF FollowLocal, FInv, StoreInv, StoreType
<1>2. /\ stopping' = stopping /\ faults' = faults /\ before' = Arrived(c)
      /\ client' = [d \in Client |->
           CASE d = c     -> [client[c] EXCEPT !.st = "local", !.k = k, !.evicted = FALSE]
             [] d \in out -> [client[d] EXCEPT !.evicted = TRUE]
             [] OTHER     -> client[d]]
  BY DEF FollowLocal, here
<1>3. S \subseteq Client /\ Few(S)
  BY <1>1 DEF LocalReaders, CapInv
<1>0. c \notin out
  BY <1>1, <1>3, EvictsOneOfThem DEF LocalReaders
<1> HIDE DEF out, r, k
<1>4. client'[c].st = "local" /\ client'[c].rid = r /\ client'[c].k = k /\ ~client'[c].evicted
  <2>1. client'[c] = [client[c] EXCEPT !.st = "local", !.k = k, !.evicted = FALSE]
    BY <1>0, <1>2
  <2> QED BY <1>1, <2>1 DEF Follower, r
<1>5. ASSUME NEW d \in Client, d # c
      PROVE  /\ client'[d].st = client[d].st /\ client'[d].rid = client[d].rid /\ client'[d].k = client[d].k
             /\ client'[d].evicted = (client[d].evicted \/ d \in out)
  <2>1. client[d] \in Follower
    BY DEF FInv, ClientInv
  <2> QED BY <1>2, <1>5, <2>1 DEF Follower
<1>6. ASSUME NEW q \in Resp PROVE Few(RemoteReaders(q))'
  <2>1. RemoteReaders(q)' \subseteq RemoteReaders(q) /\ RemoteReaders(q) \subseteq Client
    BY <1>4, <1>5 DEF RemoteReaders, Remote
  <2> QED BY <2>1, FewerReaders DEF CapInv, Few
<1>7. ASSUME NEW q \in Resp, NEW j \in Nat PROVE Few(LocalReaders(q, j))'
  <2>1. CASE q = r /\ j = k
    <3>1. LocalReaders(q, j)' \subseteq (S \ out) \cup {c}
      BY <1>4, <1>5, <2>1 DEF LocalReaders
    <3>2. Few((S \ out) \cup {c}) /\ (S \ out) \cup {c} \subseteq Client
      BY <1>3, OneMoreReader DEF out
    <3> QED BY <3>1, <3>2, FewerReaders DEF Few
  <2>2. CASE ~(q = r /\ j = k)
    <3>1. LocalReaders(q, j)' \subseteq LocalReaders(q, j) /\ LocalReaders(q, j) \subseteq Client
      BY <1>4, <1>5, <2>2 DEF LocalReaders
    <3> QED BY <3>1, FewerReaders DEF CapInv, Few
  <2> QED BY <2>1, <2>2
<1> QED BY <1>2, <1>6, <1>7, ArrivedOrder DEF CapInv

LEMMA FollowRemoteCaps == ASSUME FInv, CapInv, NEW c \in Client, FollowRemote(c) PROVE CapInv'
<1> DEFINE r == client[c].rid
           S == RemoteReaders(r)
           out == Evicts(S)
           late == client[c].late \/ PollUnderWay(r)
<1>1. client[c].st = "loop" /\ client[c] \in Follower /\ r \in Resp
  BY FollowerIs DEF FollowRemote
<1>2. /\ stopping' = stopping /\ faults' = faults /\ before' = Arrived(c)
      /\ client' = [d \in Client |->
           CASE d = c     -> [client[c] EXCEPT !.st = "remote", !.k = 0, !.evicted = FALSE,
                                !.q = {}, !.queued = client[c].pos, !.mark = "none", !.late = late]
             [] d \in out -> [Marked(client[d], "evict") EXCEPT !.evicted = TRUE]
             [] OTHER     -> client[d]]
  BY DEF FollowRemote, here
<1>3. S \subseteq Client /\ Few(S)
  BY <1>1 DEF RemoteReaders, Remote, CapInv
<1>0. c \notin out
  BY <1>1, <1>3, EvictsOneOfThem DEF RemoteReaders, Remote
<1> HIDE DEF out, r, late
<1>4. client'[c].st = "remote" /\ client'[c].rid = r /\ ~client'[c].evicted
  <2>1. client'[c] = [client[c] EXCEPT !.st = "remote", !.k = 0, !.evicted = FALSE, !.q = {},
                        !.queued = client[c].pos, !.mark = "none", !.late = late]
    BY <1>0, <1>2
  <2> QED BY <1>1, <2>1 DEF Follower, r
<1>5. ASSUME NEW d \in Client, d # c
      PROVE  /\ client'[d].st = client[d].st /\ client'[d].rid = client[d].rid /\ client'[d].k = client[d].k
             /\ client'[d].evicted = (client[d].evicted \/ d \in out)
  <2>1. client[d] \in Follower
    BY DEF FInv, ClientInv
  <2>2. client'[d] = IF d \in out THEN [Marked(client[d], "evict") EXCEPT !.evicted = TRUE] ELSE client[d]
    BY <1>2, <1>5
  <2>3. Marked(client[d], "evict") \in Follower
        /\ Marked(client[d], "evict").st = client[d].st /\ Marked(client[d], "evict").rid = client[d].rid
        /\ Marked(client[d], "evict").k = client[d].k
    BY <2>1 DEF Marked, Follower
  <2> QED BY <2>1, <2>2, <2>3 DEF Follower
<1>6. ASSUME NEW q \in Resp, NEW j \in Nat PROVE Few(LocalReaders(q, j))'
  <2>1. LocalReaders(q, j)' \subseteq LocalReaders(q, j) /\ LocalReaders(q, j) \subseteq Client
    BY <1>4, <1>5 DEF LocalReaders
  <2> QED BY <2>1, FewerReaders DEF CapInv, Few
<1>7. ASSUME NEW q \in Resp PROVE Few(RemoteReaders(q))'
  <2>1. CASE q = r
    <3>1. RemoteReaders(q)' \subseteq (S \ out) \cup {c}
      BY <1>4, <1>5, <2>1 DEF RemoteReaders, Remote
    <3>2. Few((S \ out) \cup {c}) /\ (S \ out) \cup {c} \subseteq Client
      BY <1>3, OneMoreReader DEF out
    <3> QED BY <3>1, <3>2, FewerReaders DEF Few
  <2>2. CASE q # r
    <3>1. RemoteReaders(q)' \subseteq RemoteReaders(q) /\ RemoteReaders(q) \subseteq Client
      BY <1>4, <1>5, <2>2 DEF RemoteReaders, Remote
    <3> QED BY <3>1, FewerReaders DEF CapInv, Few
  <2> QED BY <2>1, <2>2
<1> QED BY <1>2, <1>6, <1>7, ArrivedOrder DEF CapInv

LEMMA FollowerStepCaps == ASSUME FInv, CapInv, NEW c \in Client, FollowerStep(c) PROVE CapInv'
<1>1. FollowStopping(c) => CapInv'
  BY GoneQuiet DEF FollowStopping, here
<1>2. Leave(c) => CapInv'
  BY GoneQuiet DEF Leave, here
<1> QED BY <1>1, <1>2, AttachQuiet, FollowLocalCaps, FollowRemoteCaps, LocalTurnQuiet, ReadLogQuiet,
           RemoteTurnQuiet DEF FollowerStep

-----------------------------------------------------------------------------
(* The Runs, the other processes and the poll.                              *)

LEMMA SameClientsCap ==
  ASSUME FInv, CapInv, client' = client, before' = before, stopping' \in BOOLEAN, faults' \in Nat
  PROVE  CapInv'
BY MarksQuiet

LEMMA RunsStepCaps == ASSUME FInv, CapInv, (\E r \in Resp : RunsStep(r)) \/ Suspend \/ SuspendEnds PROVE CapInv'
<1>1. client' = client /\ before' = before /\ faults' = faults /\ (stopping' = stopping \/ stopping' = TRUE)
  BY DEF RunsStep, RunStarts, Starts, RunAppends, RunCommits, RunFinishes, RunSettled, RunRefused, LeaseLost,
         RunDropped, LeaseMoves, OtherAppends, OtherSettles, Suspend, SuspendEnds, Readers, here
<1> QED BY <1>1, SameClientsCap DEF CapInv

LEMMA PollApplyCaps == ASSUME FInv, CapInv, NEW r \in Resp, PollApply(r) PROVE CapInv'
<1>1. stopping' = stopping /\ faults' = faults /\ before' = before
  BY DEF PollApply, here
<1> DEFINE filled(c) ==
             LET f == Queued(client[c], poll.after[r], poll.res[r].upto)
             IN IF EndsNow(poll.res[r], poll.after[r]) THEN Marked(f, "end") ELSE f
<1>2. \/ client' = MarkAll(Remote(r), "end")
      \/ client' = [c \in Client |-> IF c \in Remote(r) THEN filled(c) ELSE client[c]]
  BY DEF PollApply
<1>3. CASE client' = MarkAll(Remote(r), "end")
  BY <1>1, <1>3, MarkAllQuiet DEF CapInv
<1>4. CASE client' = [c \in Client |-> IF c \in Remote(r) THEN filled(c) ELSE client[c]]
  <2>1. ASSUME NEW c \in Client
        PROVE  /\ filled(c).st = client[c].st /\ filled(c).rid = client[c].rid
               /\ filled(c).k = client[c].k /\ filled(c).evicted = client[c].evicted
    <3> DEFINE f == Queued(client[c], poll.after[r], poll.res[r].upto)
    <3>1. client[c] \in Follower
      BY DEF FInv, ClientInv
    <3>2. /\ f.st = client[c].st /\ f.rid = client[c].rid /\ f.k = client[c].k /\ f.evicted = client[c].evicted
          /\ DOMAIN f = DOMAIN client[c]
      BY <3>1 DEF Queued, Follower
    <3> HIDE DEF f
    <3>3. /\ Marked(f, "end").st = f.st /\ Marked(f, "end").rid = f.rid
          /\ Marked(f, "end").k = f.k /\ Marked(f, "end").evicted = f.evicted
      <4>1. DOMAIN f = {"st", "rid", "k", "start", "pos", "got", "evicted", "q", "queued", "mark", "late"}
        BY <3>1, <3>2 DEF Follower
      <4> QED BY <4>1 DEF Marked
    <3>4. filled(c) = IF EndsNow(poll.res[r], poll.after[r]) THEN Marked(f, "end") ELSE f
      BY DEF f
    <3> HIDE DEF filled
    <3> QED BY <3>2, <3>3, <3>4
  <2> HIDE DEF filled
  <2>2. \A c \in Client : client'[c] = IF c \in Remote(r) THEN filled(c) ELSE client[c]
    BY <1>4
  <2> QED BY <1>1, <2>1, <2>2, MarksQuiet DEF CapInv
<1> QED BY <1>2, <1>3, <1>4

LEMMA PollClaimCaps == ASSUME FInv, CapInv, PollClaim PROVE CapInv'
<1>1. faults' = faults /\ before' = before /\ stopping' = stopping
  BY DEF PollClaim, Starts, here
<1>2. client' = client \/ client' = MarkAll(Remote(poll.rid), "switch")
  BY DEF PollClaim
<1> QED BY <1>1, <1>2, MarkAllQuiet, SameClientsCap DEF CapInv

LEMMA CapStep == FInv /\ CapInv /\ [Next]_vars => CapInv'
<1> SUFFICES ASSUME FInv, CapInv, [Next]_vars PROVE CapInv'
  OBVIOUS
<1>1. CASE UNCHANGED vars
  BY <1>1, SameClientsCap DEF vars, CapInv
<1>2. CASE (\E r \in Resp : RunsStep(r)) \/ Suspend \/ SuspendEnds
  BY <1>2, RunsStepCaps
<1>3. CASE \E c \in Client : FollowerStep(c)
  BY <1>3, FollowerStepCaps
<1>4. CASE \E r \in Resp : PollApply(r)
  BY <1>4, PollApplyCaps
<1>5. CASE PollIssue
  <2>1. PICK S : client' = MarkAll(S, "switch")
    BY <1>5 DEF PollIssue
  <2>2. stopping' = stopping /\ faults' = faults /\ before' = before
    BY <1>5 DEF PollIssue, here
  <2> QED BY <2>1, <2>2, MarkAllQuiet DEF CapInv
<1>6. CASE PollRead \/ PollReply \/ PollDone
  <2>1. client' = client /\ before' = before /\ faults' = faults /\ stopping' = stopping
    BY <1>6 DEF PollRead, PollReply, PollDone, here
  <2> QED BY <2>1, SameClientsCap DEF CapInv
<1>7. CASE PollClaim
  BY <1>7, PollClaimCaps
<1>8. CASE PollFails
  <2>1. client' = client /\ before' = before /\ faults' = faults + 1 /\ stopping' = stopping
    BY <1>8 DEF PollFails, here
  <2> QED BY <2>1, SameClientsCap DEF CapInv
<1> QED BY <1>1, <1>2, <1>3, <1>4, <1>5, <1>6, <1>7, <1>8 DEF Next, RunsStep, FollowerStep

LEMMA InitCapInv == Init => CapInv
<1> SUFFICES ASSUME Init PROVE CapInv
  OBVIOUS
<1>1. \A r \in Resp : RemoteReaders(r) = {} /\ \A k \in Nat : LocalReaders(r, k) = {}
  BY DEF Init, Idle, RemoteReaders, Remote, LocalReaders
<1>2. Few({})
  BY FS_EmptySet, FollowConstants DEF Few
<1> QED BY <1>1, <1>2 DEF CapInv, Init

\* _add_reader, _follow_remote: no Run and no response followed remotely has
\* more followers than PUBLIC_API_MAX_FOLLOWERS, whoever comes, is evicted, is
\* switched or leaves; and every variable keeps its type.
THEOREM FollowerCapAlways == Spec => []FollowerCap
<1>1. FInv /\ CapInv => FollowerCap
  <2> SUFFICES ASSUME FInv, CapInv PROVE FollowerCap
    OBVIOUS
  <2>1. FollowTypeOK
    <3>1. PICK S, T \in SUBSET Resp : poll \in Poll(S, T)
      BY DEF FInv, PollInv
    <3>2. /\ poll.st \in {"idle", "sent", "read", "apply", "claim"}
          /\ poll.todo \subseteq Resp /\ poll.rid \in Resp \cup {"none"}
      BY <3>1 DEF Poll
    <3> QED BY <3>2 DEF FollowTypeOK, FInv, StoreInv, StoreType, ClientInv, CapInv
  <2>2. \A r \in Resp : \A k \in 1..Len(obj[r]) : k \in Nat
    BY DEF FInv, StoreInv, StoreType
  <2> QED BY <2>1, <2>2 DEF FollowerCap, CapInv, Few
<1>2. FInv /\ CapInv /\ [Next]_vars => (FInv /\ CapInv)'
  BY FInvStep, CapStep
<1>3. Init => FInv /\ CapInv
  BY InitFInv, InitCapInv
<1> QED BY <1>1, <1>2, <1>3, PTL DEF Spec

=============================================================================
