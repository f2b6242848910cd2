------------------------- MODULE DurableRun_proofs -------------------------
(***************************************************************************)
(* Theorems of DurableRun, for any set of processes, any mode and any       *)
(* bounds.                                                                  *)
(***************************************************************************)
EXTENDS DurableRun, FiniteSetTheorems, FunctionTheorems, WellFoundedInduction, TLAPS

-----------------------------------------------------------------------------
(* Facts about the records of EventLog, for every finite set of records.    *)

\* A finite non-empty set of numbers has a last one. The subsets {x \in S : x >= k}
\* have a smallest one, and its k is the maximum.
LEMMA FiniteMax ==
  ASSUME NEW S \in SUBSET Nat, IsFiniteSet(S), S # {}
  PROVE  \E n \in S : \A k \in S : k <= n
<1> DEFINE Above(k) == {x \in S : k <= x}
           T == {Above(k) : k \in S}
<1>1. IsWellFoundedOn(StrictSubsetOrdering(S), FiniteSubsetsOf(S))
  BY FS_StrictSubsetOrderingWellFounded
<1>2. T \subseteq FiniteSubsetsOf(S)
  <2>1. T \subseteq SUBSET S
    OBVIOUS
  <2> QED BY <2>1, FS_FiniteSubsetsOfFinite
<1>3. T # {}
  OBVIOUS
<1>4. PICK A \in T : \A B \in T : ~ (<<B, A>> \in StrictSubsetOrdering(S))
  <2> HIDE DEF T
  <2> QED BY <1>1, <1>2, <1>3, WFMin
<1>5. PICK n \in S : A = Above(n)
  BY <1>4
<1>6. ASSUME NEW k \in S, ~(k <= n) PROVE FALSE
  <2>1. k \in Nat /\ n \in Nat /\ n < k
    BY <1>6
  <2>a. Above(k) \in T
    OBVIOUS
  <2>b. Above(k) \subseteq Above(n)
    <3>1. ASSUME NEW x \in S, k <= x PROVE n <= x
      <4>1. x \in Nat
        OBVIOUS
      <4> QED BY <2>1, <3>1, <4>1
    <3> QED BY <3>1
  <2>c. n \in Above(n) /\ n \notin Above(k)
    BY <2>1
  <2>2. Above(k) \in T /\ Above(k) \subseteq Above(n) /\ n \in Above(n) /\ n \notin Above(k)
    BY <2>a, <2>b, <2>c
  <2>3. <<Above(k), A>> \in StrictSubsetOrdering(S)
    BY <2>2, <1>5 DEF StrictSubsetOrdering
  <2> QED BY <2>2, <2>3, <1>4
<1> QED BY <1>6

LEMMA SeqsType ==
  ASSUME NEW S \in SUBSET Record
  PROVE  Seqs(S) \in SUBSET (Nat \ {0})
BY DEF Seqs, Record

LEMMA SeqsFinite ==
  ASSUME NEW S, IsFiniteSet(S)
  PROVE  IsFiniteSet(Seqs(S))
<1> DEFINE f == [r \in S |-> r.seq]
<1>1. f \in Surjection(S, Seqs(S))
  BY DEF Surjection, Seqs
<1> QED BY <1>1, FS_Surjection

\* The text of a finite log is finite, so its length is a number.
LEMMA TextFinite ==
  ASSUME NEW S \in SUBSET Record, IsFiniteSet(S)
  PROVE  /\ Text(S) \in SUBSET Token
         /\ Cardinality(Text(S)) \in Nat
<1> DEFINE f == [r \in Deltas(S) |-> r.tok]
<1>1. IsFiniteSet(Deltas(S))
  BY FS_Subset DEF Deltas
<1>2. f \in Surjection(Deltas(S), Text(S))
  BY DEF Surjection, Text
<1>3. IsFiniteSet(Text(S))
  BY <1>1, <1>2, FS_Surjection
<1>4. Text(S) \in SUBSET Token
  BY DEF Text, Deltas, Record
<1> QED BY <1>3, <1>4, FS_CardinalityType

\* max(sequence_number) is the number of a record, and no number is above it.
LEMMA LastSeqIsLast ==
  ASSUME NEW S \in SUBSET Record, IsFiniteSet(S)
  PROVE  /\ LastSeq(S) \in Nat
         /\ S = {} => LastSeq(S) = 0
         /\ S # {} => LastSeq(S) \in Seqs(S)
         /\ \A k \in Seqs(S) : k <= LastSeq(S)
<1>1. Seqs(S) \in SUBSET Nat /\ IsFiniteSet(Seqs(S))
  BY SeqsType, SeqsFinite
<1>2. CASE S = {}
  BY <1>2 DEF LastSeq, Seqs
<1>3. CASE S # {}
  <2>1. Seqs(S) # {}
    BY <1>3 DEF Seqs
  <2>2. \E n \in Seqs(S) : \A k \in Seqs(S) : k <= n
    BY <1>1, <2>1, FiniteMax
  <2> QED BY <1>1, <1>3, <2>2 DEF LastSeq
<1> QED BY <1>2, <1>3

\* A list of records has every number from 1 to its last.
LEMMA NumberedHasAll ==
  ASSUME NEW S \in SUBSET Record, IsFiniteSet(S), Dense(S)
  PROVE  Seqs(S) = 1..LastSeq(S)
<1>1. LastSeq(S) \in Nat /\ (\A k \in Seqs(S) : k <= LastSeq(S)) /\ (S # {} => LastSeq(S) \in Seqs(S))
  BY LastSeqIsLast
<1>2. Seqs(S) \subseteq 1..LastSeq(S)
  BY <1>1, SeqsType
<1>3. ASSUME NEW k \in 1..LastSeq(S) PROVE k \in Seqs(S)
  <2>1. S # {}
    BY LastSeqIsLast, <1>3
  <2>2. PICK r \in S : r.seq = LastSeq(S)
    BY <1>1, <2>1 DEF Seqs
  <2> QED BY <1>3, <2>2 DEF Dense, Seqs
<1> QED BY <1>2, <1>3

LEMMA DenseUnion ==
  ASSUME NEW S, NEW T, Dense(S), Dense(T)
  PROVE  Dense(S \cup T)
BY DEF Dense

\* What an accepted append does to the log.
LEMMA AppendKeepsList ==
  ASSUME NEW S, NEW recs, Numbered(S), Unique(recs), Dense(S \cup recs), NoConflict(S, recs)
  PROVE  Numbered(S \cup recs)
BY DEF Numbered, Unique, NoConflict, Seqs

-----------------------------------------------------------------------------
(* Types. The type invariant needs the record sets finite: the end of a log *)
(* (LastSeq) and its length are then numbers.                               *)

Recs == {S \in SUBSET Record : IsFiniteSet(S)}
RunT == {r \in Run : r.pend \in Recs /\ r.infl \in Recs /\ r.fin \in Recs}
CallT == {c \in Call : c.recs \in Recs}
ClaimT == {c \in ClaimState : c.logged \in Recs}

TypeInv ==
  /\ status \in {"none", "open"} \cup Outcomes
  /\ owner \in Proc \cup {None} /\ live \in BOOLEAN /\ cancelReq \in BOOLEAN
  /\ attempt \in Nat /\ spec \in BOOLEAN /\ answer \in SUBSET Token
  /\ log \in Recs
  /\ proc \in [Proc -> {"up", "stopping", "flushed", "drained", "dead"}]
  /\ launching \in [Proc -> {"no", "marked", "specced"}]
  /\ run \in [Proc -> RunT]
  /\ call \in [Proc -> CallT]
  /\ claiming \in [Proc -> ClaimT]
  /\ cancelling \in [Proc -> {"no", "flagged", "pending", "elsewhere"}]
  /\ recorded \in Nat /\ webhooks \in Nat /\ faults \in Nat

LEMMA TypeInvGivesTypeOK == TypeInv => TypeOK
BY DEF TypeInv, TypeOK, Recs, RunT, CallT, ClaimT

LEMMA RecsUnion ==
  ASSUME NEW S \in Recs, NEW T \in Recs
  PROVE  S \cup T \in Recs
BY FS_Union DEF Recs

LEMMA RecsEmpty == {} \in Recs
BY FS_EmptySet DEF Recs

LEMMA RecsOne ==
  ASSUME NEW n \in Nat \ {0}, NEW t \in Token
  PROVE  {Created(n)} \in Recs /\ {Delta(n, t)} \in Recs /\ {Done(n)} \in Recs
<1>1. Blank \in Token
  BY DEF Blank, Token
<1>2. Created(n) \in Record /\ Delta(n, t) \in Record /\ Done(n) \in Record
  BY <1>1 DEF Created, Delta, Done, Record
<1> QED BY <1>2, FS_Singleton DEF Recs

LEMMA NoRunType == NoRun \in RunT /\ NoCall \in CallT /\ NoClaim \in ClaimT
<1>1. NoRun \in Run
  BY DEF NoRun, Run
<1>2. NoCall \in Call
  BY DEF NoCall, Call
<1>3. NoClaim \in ClaimState
  BY DEF NoClaim, ClaimState
<1> QED BY <1>1, <1>2, <1>3, RecsEmpty DEF RunT, CallT, ClaimT, NoRun, NoCall, NoClaim

LEMMA NewRunType ==
  ASSUME NEW n \in Nat, NEW logged \in Recs, NEW w \in BOOLEAN
  PROVE  NewRun(n, logged, w) \in RunT
<1>1. LastSeq(logged) \in Nat /\ Text(logged) \in SUBSET Token /\ Cardinality(Text(logged)) \in Nat
  BY LastSeqIsLast, TextFinite DEF Recs
<1>2. NewRun(n, logged, w) \in Run
  BY <1>1 DEF NewRun, RunAt, NoRun, Run
<1> QED BY <1>2, RecsEmpty DEF RunT, NewRun, RunAt, NoRun

LEMMA RunStepTypes ==
  ASSUME NEW r \in RunT
  PROVE  /\ WithCreated(r) \in RunT
         /\ \A reason \in {"cancel", "revoked", "restart", "lease_lost"} : Stopped(r, reason) \in RunT
         /\ Restored(r) \in RunT
         /\ \A recs \in Recs : Committed(r, recs) \in RunT
         /\ LeaseLost(r) \in RunT
         /\ \A goal \in {"completed", "failed", "cancelled"} : Settling(r, goal) \in RunT
<1>1. r \in Run /\ r.pend \in Recs /\ r.infl \in Recs /\ r.fin \in Recs
  BY DEF RunT
<1>a. r.assigned + 1 \in Nat \ {0} /\ r.pend \in SUBSET Record
  BY <1>1 DEF Run
<1>2. /\ r.pend \cup {Created(r.assigned + 1)} \in Recs
      /\ {Done(r.assigned + 1)} \in Recs
      /\ r.infl \cup r.pend \in Recs
  <2>1. [pos |-> 0, by |-> 0] \in Token
    BY DEF Token
  <2> QED BY <2>1, <1>1, <1>a, RecsOne, RecsUnion
<1>3. WithCreated(r) \in RunT
  <2>1. WithCreated(r) \in Run
    BY <1>1, <1>a, <1>2 DEF WithCreated, Run, Recs
  <2> QED BY <2>1, <1>1, <1>2 DEF WithCreated, RunT, Run
<1>4. ASSUME NEW reason \in {"cancel", "revoked", "restart", "lease_lost"}
      PROVE  Stopped(r, reason) \in RunT
  <2>1. Stopped(r, reason) \in Run
    BY <1>1 DEF Stopped, Run
  <2> QED BY <2>1, <1>1 DEF Stopped, RunT, Run
<1>5. Restored(r) \in RunT
  <2>1. Restored(r) \in Run
    BY <1>1, <1>2 DEF Restored, Run, Recs
  <2> QED BY <2>1, <1>1, <1>2, RecsEmpty DEF Restored, RunT, Run
<1>6. ASSUME NEW recs \in Recs PROVE Committed(r, recs) \in RunT
  <2>1. LastSeq(recs) \in Nat /\ recs \in SUBSET Record
    BY LastSeqIsLast DEF Recs
  <2>2. Committed(r, recs) \in Run
    BY <1>1, <2>1 DEF Committed, Run
  <2> QED BY <2>2, <1>1, RecsEmpty DEF Committed, RunT, Run
<1>7. LeaseLost(r) \in RunT
  <2>1. [r EXCEPT !.held = FALSE] \in RunT
    BY <1>1 DEF RunT, Run
  <2>2. LeaseLost(r) \in Run
    BY <2>1 DEF LeaseLost, Stopped, Run, RunT
  <2> QED BY <2>1, <2>2, <1>1 DEF LeaseLost, Stopped, RunT, Run
<1>8. ASSUME NEW goal \in {"completed", "failed", "cancelled"} PROVE Settling(r, goal) \in RunT
  <2>1. Settling(r, goal) \in Run
    BY <1>1, <1>a, <1>2 DEF Settling, Run, Recs, Outcomes
  <2> QED BY <2>1, <1>1, <1>2 DEF Settling, RunT, Run
<1> QED BY <1>3, <1>4, <1>5, <1>6, <1>7, <1>8

LEMMA RunFieldTypes ==
  ASSUME NEW r \in RunT
  PROVE  /\ [r EXCEPT !.pc = "end"] \in RunT
         /\ [r EXCEPT !.specw = TRUE] \in RunT
         /\ [r EXCEPT !.infl = r.pend, !.pend = {}] \in RunT
         /\ \A c \in Recs : [Committed(r, c) EXCEPT !.pc = "record", !.held = FALSE] \in RunT
<1>1. r \in Run /\ r.pend \in Recs /\ r.infl \in Recs /\ r.fin \in Recs
  BY DEF RunT
<1>2. [r EXCEPT !.pc = "end"] \in Run /\ [r EXCEPT !.specw = TRUE] \in Run
  BY <1>1 DEF Run
<1>3. [r EXCEPT !.infl = r.pend, !.pend = {}] \in Run
  BY <1>1 DEF Run
<1>4. [r EXCEPT !.pc = "end"] \in RunT
  BY <1>1, <1>2 DEF RunT, Run
<1>5. [r EXCEPT !.specw = TRUE] \in RunT
  BY <1>1, <1>2 DEF RunT, Run
<1>6. [r EXCEPT !.infl = r.pend, !.pend = {}] \in RunT
  BY <1>1, <1>3, RecsEmpty DEF RunT, Run
<1>7. ASSUME NEW c \in Recs
      PROVE  [Committed(r, c) EXCEPT !.pc = "record", !.held = FALSE] \in RunT
  <2> DEFINE q == Committed(r, c)
  <2>1. q \in RunT
    BY RunStepTypes
  <2> HIDE DEF q
  <2>2. [q EXCEPT !.pc = "record", !.held = FALSE] \in Run
    BY <2>1 DEF RunT, Run
  <2>3. [q EXCEPT !.pc = "record", !.held = FALSE] \in RunT
    BY <2>1, <2>2 DEF RunT, Run
  <2> QED BY <2>3 DEF q
<1> QED BY <1>4, <1>5, <1>6, <1>7

LEMMA CallFieldTypes ==
  ASSUME NEW c \in CallT, NEW st \in {"ok", "lost", "error"}
  PROVE  [c EXCEPT !.st = st] \in CallT
<1>1. [c EXCEPT !.st = st] \in Call
  BY DEF CallT, Call
<1> QED BY <1>1 DEF CallT, Call

-----------------------------------------------------------------------------
(* Every action keeps the types.                                            *)

LEMMA TypeInit == Init => TypeInv
<1> SUFFICES ASSUME Init PROVE TypeInv
  OBVIOUS
<1>1. run \in [Proc -> RunT] /\ call \in [Proc -> CallT] /\ claiming \in [Proc -> ClaimT] /\ log \in Recs
  BY NoRunType, RecsEmpty DEF Init
<1>2. /\ proc \in [Proc -> {"up", "stopping", "flushed", "drained", "dead"}]
      /\ launching \in [Proc -> {"no", "marked", "specced"}]
      /\ cancelling \in [Proc -> {"no", "flagged", "pending", "elsewhere"}]
  BY DEF Init
<1> QED BY <1>1, <1>2 DEF Init, TypeInv

LEMMA TypeStep ==
  ASSUME TypeInv, [Next]_vars
  PROVE  TypeInv'
<1>1. CASE LeaseLapse
  <2>1. faults' \in Nat
    BY <1>1 DEF TypeInv, LeaseLapse, Fault, Alive, Active
  <2> QED BY <1>1, <2>1 DEF TypeInv, LeaseLapse
<1>2. ASSUME NEW p \in Proc, MarkDurable(p) PROVE TypeInv'
  <2>1. status' = "open" /\ launching' \in [Proc -> {"no", "marked", "specced"}]
    BY <1>2 DEF TypeInv, MarkDurable
  <2>2. owner' \in Proc \cup {None} /\ live' \in BOOLEAN /\ attempt' \in Nat
    <3>1. \/ UNCHANGED <<owner, live, attempt>>
          \/ owner' = p /\ live' = TRUE /\ attempt' = attempt + 1
      BY <1>2 DEF MarkDurable
    <3>2. owner' \in Proc \cup {None}
      BY <3>1 DEF TypeInv
    <3>3. live' \in BOOLEAN
      BY <3>1 DEF TypeInv
    <3>4. attempt' \in Nat
      BY <3>1 DEF TypeInv
    <3> QED BY <3>2, <3>3, <3>4
  <2> QED BY <1>2, <2>1, <2>2 DEF TypeInv, MarkDurable
<1>3. ASSUME NEW p \in Proc, LaunchSpec(p) PROVE TypeInv'
  BY <1>3 DEF TypeInv, LaunchSpec
<1>4. ASSUME NEW p \in Proc, LaunchFails(p) PROVE TypeInv'
  BY <1>4 DEF TypeInv, LaunchFails, Fault, row
<1>5. ASSUME NEW p \in Proc, StartRun(p) PROVE TypeInv'
  <2>1. WithCreated(NewRun(1, {}, Mode = "keyed")) \in RunT
    BY NewRunType, RecsEmpty, RunStepTypes
  <2> QED BY <1>5, <2>1 DEF TypeInv, StartRun, row
<1>6. ASSUME NEW p \in Proc, Generate(p) PROVE TypeInv'
  <2> DEFINE r == run[p]
             t == [pos |-> r.len + 1, by |-> r.n]
             nr == [r EXCEPT !.assigned = @ + 1, !.len = @ + 1, !.text = @ \cup {t},
                             !.pend = @ \cup {Delta(r.assigned + 1, t)}]
  <2>1. r \in RunT
    BY DEF TypeInv
  <2>2. t \in Token /\ r.assigned + 1 \in Nat \ {0}
    BY <2>1 DEF RunT, Run, Token
  <2>3. r.pend \cup {Delta(r.assigned + 1, t)} \in Recs
    <3> HIDE DEF r, t
    <3> QED BY <2>1, <2>2, RecsOne, RecsUnion DEF RunT
  <2>4. nr \in RunT
    <3> HIDE DEF r, t
    <3>0. r \in Run /\ r.len + 1 \in Nat /\ r.text \cup {t} \in SUBSET Token
      BY <2>1, <2>2 DEF RunT, Run
    <3>1. nr \in Run
      BY <3>0, <2>2, <2>3 DEF Run, Recs
    <3> QED BY <3>1, <2>1, <2>3 DEF RunT, Run
  <2>5. run' = [run EXCEPT ![p] = nr]
    BY <1>6 DEF Generate
  <2> HIDE DEF nr
  <2> QED BY <1>6, <2>4, <2>5 DEF TypeInv, Generate, row
<1>7. ASSUME NEW p \in Proc, RunnerEnds(p) PROVE TypeInv'
  BY <1>7, RunStepTypes DEF TypeInv, RunnerEnds, row
<1>8. ASSUME NEW p \in Proc, RunnerStops(p) PROVE TypeInv'
  <2>1. [run[p] EXCEPT !.pc = "end"] \in RunT
    BY RunFieldTypes DEF TypeInv
  <2> QED BY <1>8, <2>1, NoRunType, RunStepTypes DEF TypeInv, RunnerStops, row
<1>9. ASSUME NEW p \in Proc, FlushSpec(p) PROVE TypeInv'
  <2>1. [run[p] EXCEPT !.specw = TRUE] \in RunT
    BY RunFieldTypes DEF TypeInv
  <2>2. run' = [run EXCEPT ![p] = [run[p] EXCEPT !.specw = TRUE]]
    BY <1>9 DEF FlushSpec, TypeInv
  <2> QED BY <1>9, <2>1, <2>2 DEF TypeInv, FlushSpec
<1>10. ASSUME NEW p \in Proc, FlushSend(p) PROVE TypeInv'
  <2>1. [run[p] EXCEPT !.infl = run[p].pend, !.pend = {}] \in RunT
    BY RunFieldTypes DEF TypeInv
  <2>2. [NoCall EXCEPT !.op = "append", !.st = "sent", !.n = run[p].n,
                       !.recs = run[p].pend, !.owned = TRUE] \in CallT
    BY DEF TypeInv, RunT, Run, CallT, Call, NoCall
  <2> QED BY <1>10, <2>1, <2>2 DEF TypeInv, FlushSend, row
<1>11. ASSUME NEW p \in Proc, Append(p) PROVE TypeInv'
  <2>1. /\ [call EXCEPT ![p].st = "ok"] \in [Proc -> CallT]
        /\ [call EXCEPT ![p].st = "lost"] \in [Proc -> CallT]
        /\ [call EXCEPT ![p].st = "error"] \in [Proc -> CallT]
    BY CallFieldTypes DEF TypeInv
  <2>2. log \cup call[p].recs \in Recs
    BY RecsUnion DEF TypeInv, CallT
  <2>3. log' \in Recs /\ call' \in [Proc -> CallT] /\ faults' \in Nat
    <3>1. UNCHANGED faults \/ Fault
      BY <1>11 DEF Append
    <3>2. log' = log \/ log' = log \cup call[p].recs
      BY <1>11 DEF Append
    <3>3. \/ call' = [call EXCEPT ![p].st = "ok"]
          \/ call' = [call EXCEPT ![p].st = "lost"]
          \/ call' = [call EXCEPT ![p].st = "error"]
      BY <1>11 DEF Append
    <3>4. log' \in Recs
      BY <2>2, <3>2 DEF TypeInv
    <3>5. call' \in [Proc -> CallT]
      BY <2>1, <3>3
    <3>6. faults' \in Nat
      BY <3>1 DEF TypeInv, Fault
    <3> QED BY <3>4, <3>5, <3>6
  <2> QED BY <1>11, <2>3 DEF TypeInv, Append, row
<1>12. ASSUME NEW p \in Proc, AppendReply(p) PROVE TypeInv'
  <2>1. /\ Committed(run[p], call[p].recs) \in RunT /\ Restored(run[p]) \in RunT
        /\ LeaseLost(Restored(run[p])) \in RunT
    BY RunStepTypes DEF TypeInv, CallT
  <2> QED BY <1>12, <2>1, NoRunType DEF TypeInv, AppendReply, row
<1>13. ASSUME NEW p \in Proc, SettleSend(p) PROVE TypeInv'
  <2>1. [run[p] EXCEPT !.infl = run[p].pend, !.pend = {}] \in RunT
    BY RunFieldTypes DEF TypeInv
  <2>2. run[p].pend \cup run[p].fin \in Recs
    BY RecsUnion DEF TypeInv, RunT
  <2>3. [op |-> "finish", st |-> "sent", n |-> run[p].n, recs |-> FinalBatch(run[p]), owned |-> run[p].held,
         goal |-> run[p].goal, text |-> run[p].text] \in CallT
    BY <2>2 DEF TypeInv, RunT, Run, CallT, Call, FinalBatch, Recs
  <2> QED BY <1>13, <2>1, <2>3 DEF TypeInv, SettleSend, row
<1>14. ASSUME NEW p \in Proc, Finish(p) PROVE TypeInv'
  <2>1. /\ [call EXCEPT ![p].st = "ok"] \in [Proc -> CallT]
        /\ [call EXCEPT ![p].st = "lost"] \in [Proc -> CallT]
        /\ [call EXCEPT ![p].st = "error"] \in [Proc -> CallT]
    BY CallFieldTypes DEF TypeInv
  <2>2. log \cup call[p].recs \in Recs
    BY RecsUnion DEF TypeInv, CallT
  <2>3. log' \in Recs /\ call' \in [Proc -> CallT] /\ faults' \in Nat
    <3>1. UNCHANGED faults \/ Fault
      BY <1>14 DEF Finish
    <3>2. log' = log \/ log' = log \cup call[p].recs
      BY <1>14 DEF Finish
    <3>3. \/ call' = [call EXCEPT ![p].st = "ok"]
          \/ call' = [call EXCEPT ![p].st = "lost"]
          \/ call' = [call EXCEPT ![p].st = "error"]
      BY <1>14 DEF Finish
    <3>4. log' \in Recs
      BY <2>2, <3>2 DEF TypeInv
    <3>5. call' \in [Proc -> CallT]
      BY <2>1, <3>3
    <3>6. faults' \in Nat
      BY <3>1 DEF TypeInv, Fault
    <3> QED BY <3>4, <3>5, <3>6
  <2>4. call[p].goal \in {"none"} \cup Outcomes /\ call[p].text \in SUBSET Token
    BY DEF TypeInv, CallT, Call
  <2>5. \/ UNCHANGED <<status, row>>
        \/ SettledRow(call[p].goal, call[p].text)
    BY <1>14 DEF Finish
  <2> QED BY <1>14, <2>3, <2>4, <2>5 DEF TypeInv, Finish, SettledRow, row
<1>15. ASSUME NEW p \in Proc, FinishReply(p) PROVE TypeInv'
  <2>1. /\ [Committed(run[p], call[p].recs) EXCEPT !.pc = "record", !.held = FALSE] \in RunT
        /\ Restored(run[p]) \in RunT
    BY RunStepTypes, RunFieldTypes DEF TypeInv, CallT
  <2> QED BY <1>15, <2>1, NoRunType DEF TypeInv, FinishReply, row
<1>16. ASSUME NEW p \in Proc, RecordOutcome(p) PROVE TypeInv'
  <2>1. webhooks' \in Nat /\ recorded' \in Nat
    BY <1>16 DEF TypeInv, RecordOutcome, Background
  <2> QED BY <1>16, <2>1, NoRunType DEF TypeInv, RecordOutcome, row
<1>17. ASSUME NEW p \in Proc, RenewTick(p) PROVE TypeInv'
  <2>1. run[p] \in RunT
    BY DEF TypeInv
  <2>2. /\ Ticked(run[p]) \in RunT /\ Stopped(run[p], "revoked") \in RunT
        /\ LeaseLost(run[p]) \in RunT
    BY <2>1, RunStepTypes DEF Ticked
  <2>3. run' \in [Proc -> RunT] /\ live' \in BOOLEAN
    BY <1>17, <2>2 DEF TypeInv, RenewTick, Open
  <2> QED BY <1>17, <2>3 DEF TypeInv, RenewTick
<1>18. ASSUME NEW p \in Proc, Claim(p) PROVE TypeInv'
  <2>1. [st |-> "claimed", n |-> attempt + 1, logged |-> log, cancel |-> cancelReq] \in ClaimT
    BY DEF TypeInv, ClaimT, ClaimState, Recs
  <2>2. claiming' \in [Proc -> ClaimT] /\ faults' \in Nat
    BY <1>18, <2>1 DEF TypeInv, Claim, Fault
  <2> QED BY <1>18, <2>2 DEF TypeInv, Claim
<1>19. ASSUME NEW p \in Proc, ClaimResume(p) PROVE TypeInv'
  <2> DEFINE c == claiming[p]
             r == NewRun(c.n, c.logged, TRUE)
  <2>1. r \in RunT
    BY NewRunType DEF TypeInv, ClaimT, ClaimState
  <2>2. /\ Settling(r, "cancelled") \in RunT /\ Settling(r, "failed") \in RunT
        /\ WithCreated(r) \in RunT
    <3> HIDE DEF r
    <3> QED BY <2>1, RunStepTypes
  <2>3. \E x \in {Settling(r, "cancelled"), Settling(r, "failed"), WithCreated(r), r} :
           run' = [run EXCEPT ![p] = x]
    <3> HIDE DEF r
    <3> QED BY <1>19 DEF ClaimResume, r
  <2>4. run' \in [Proc -> RunT]
    <3> HIDE DEF r
    <3> QED BY <2>1, <2>2, <2>3 DEF TypeInv
  <2> QED BY <1>19, <2>4, NoRunType DEF TypeInv, ClaimResume, row
<1>20. ASSUME NEW p \in Proc, ClaimUnrunnable(p) PROVE TypeInv'
  <2>1. [claiming[p] EXCEPT !.st = "unrunnable"] \in ClaimT
    <3>1. claiming[p] \in ClaimT
      BY DEF TypeInv
    <3>2. [claiming[p] EXCEPT !.st = "unrunnable"] \in ClaimState
      BY <3>1 DEF ClaimT, ClaimState
    <3> QED BY <3>1, <3>2 DEF ClaimT, ClaimState
  <2>2. claiming' \in [Proc -> ClaimT] /\ faults' \in Nat
    BY <1>20, <2>1 DEF TypeInv, ClaimUnrunnable, Fault
  <2> QED BY <1>20, <2>2 DEF TypeInv, ClaimUnrunnable, row
<1>21. ASSUME NEW p \in Proc, SettleUnrunnable(p) PROVE TypeInv'
  <2>1. UNCHANGED <<status, row>> \/ SettledRow("failed", {})
    BY <1>21 DEF SettleUnrunnable
  <2>2. faults' \in Nat
    <3>1. UNCHANGED faults \/ Fault
      BY <1>21 DEF SettleUnrunnable
    <3> QED BY <3>1 DEF TypeInv, Fault
  <2> QED BY <1>21, <2>1, <2>2, NoRunType DEF TypeInv, SettleUnrunnable, SettledRow, row, Outcomes
<1>22. ASSUME NEW p \in Proc, CancelFlag(p) PROVE TypeInv'
  BY <1>22 DEF TypeInv, CancelFlag
<1>23. ASSUME NEW p \in Proc, CancelHere(p) PROVE TypeInv'
  <2>1. Stopped(run[p], "cancel") \in RunT
    BY RunStepTypes DEF TypeInv
  <2>2. run' \in [Proc -> RunT] /\ cancelling' \in [Proc -> {"no", "flagged", "pending", "elsewhere"}]
    BY <1>23, <2>1 DEF TypeInv, CancelHere, Active
  <2> QED BY <1>23, <2>2 DEF TypeInv, CancelHere, row
<1>24. ASSUME NEW p \in Proc, CancelElsewhere(p) PROVE TypeInv'
  <2>1. Stopped(run[p], "cancel") \in RunT
    BY RunStepTypes DEF TypeInv
  <2>2. UNCHANGED <<status, row>> \/ SettledRow("cancelled", {})
    BY <1>24 DEF CancelElsewhere
  <2>3. run' \in [Proc -> RunT]
    BY <1>24, <2>1 DEF TypeInv, CancelElsewhere
  <2>4. webhooks' \in Nat
    <3>1. UNCHANGED webhooks \/ webhooks' = webhooks + 1
      BY <1>24 DEF CancelElsewhere
    <3> QED BY <3>1 DEF TypeInv
  <2> QED BY <1>24, <2>2, <2>3, <2>4 DEF TypeInv, CancelElsewhere, SettledRow, row, Outcomes
<1>25. ASSUME NEW p \in Proc, SweepUnread(p) PROVE TypeInv'
  BY <1>25 DEF TypeInv, SweepUnread, SettledRow, Outcomes
<1>26. ASSUME NEW p \in Proc, SweepSpec(p) PROVE TypeInv'
  BY <1>26 DEF TypeInv, SweepSpec
<1>27. ASSUME NEW p \in Proc, Suspend(p) PROVE TypeInv'
  <2>1. [Stopped(run[p], "restart") EXCEPT !.leaving = TRUE] \in RunT
    <3> DEFINE q == Stopped(run[p], "restart")
    <3>1. q \in RunT
      BY RunStepTypes DEF TypeInv
    <3> HIDE DEF q
    <3>2. [q EXCEPT !.leaving = TRUE] \in Run
      BY <3>1 DEF RunT, Run
    <3>3. [q EXCEPT !.leaving = TRUE] \in RunT
      BY <3>1, <3>2 DEF RunT, Run
    <3> QED BY <3>3 DEF q
  <2>2. run' \in [Proc -> RunT]
    BY <1>27, <2>1 DEF TypeInv, Suspend
  <2> QED BY <1>27, <2>2 DEF TypeInv, Suspend, row
<1>28. ASSUME NEW p \in Proc, SuspendFlushed(p) PROVE TypeInv'
  <2>1. spec' \in BOOLEAN
    BY <1>28 DEF TypeInv, SuspendFlushed
  <2> QED BY <1>28, <2>1 DEF TypeInv, SuspendFlushed
<1>29. ASSUME NEW p \in Proc, SuspendRelease(p) PROVE TypeInv'
  <2>1. owner' \in Proc \cup {None} /\ live' \in BOOLEAN
    BY <1>29 DEF TypeInv, SuspendRelease
  <2>2. faults' \in Nat
    BY <1>29 DEF TypeInv, SuspendRelease, Fault
  <2>3. run' \in [Proc -> RunT]
    BY <1>29, NoRunType DEF TypeInv, SuspendRelease
  <2> QED BY <1>29, <2>1, <2>2, <2>3 DEF TypeInv, SuspendRelease
<1>30. ASSUME NEW p \in Proc, Die(p) PROVE TypeInv'
  BY <1>30, NoRunType DEF TypeInv, Die, row
<1>31. CASE UNCHANGED vars
  BY <1>31 DEF TypeInv, vars
<1> QED BY <1>1, <1>2, <1>3, <1>4, <1>5, <1>6, <1>7, <1>8, <1>9, <1>10, <1>11, <1>12, <1>13, <1>14,
           <1>15, <1>16, <1>17, <1>18, <1>19, <1>20, <1>21, <1>22, <1>23, <1>24, <1>25, <1>26, <1>27,
           <1>28, <1>29, <1>30, <1>31 DEF Next

\* Every variable keeps its type, however many processes run.
THEOREM TypeCorrect == Spec => []TypeOK
<1>1. TypeInv /\ [Next]_vars => TypeInv'
  BY TypeStep
<1> QED BY <1>1, TypeInit, TypeInvGivesTypeOK, PTL DEF Spec

-----------------------------------------------------------------------------
(* The log is a list. NumberingInv is inductive: each action is one of a    *)
(* few edits of a Run, a call or the log, and each edit keeps its parts.    *)

\* A longer log keeps what was true of a shorter one.
LEMMA LogGrows ==
  ASSUME NEW L, NEW M, L \subseteq M, Numbered(M)
  PROVE  /\ \A r : NumbersAccountedFor(r, L) => NumbersAccountedFor(r, M)
         /\ \A c : CallExtendsLog(c, L) => CallExtendsLog(c, M)
         /\ \A k : ClaimedIsLogged(k, L) => ClaimedIsLogged(k, M)
<1>1. ASSUME NEW r, NumbersAccountedFor(r, L) PROVE NumbersAccountedFor(r, M)
  <2>1. Seqs(L \cup (r.pend \cup r.infl) \cup r.fin) \subseteq Seqs(M \cup (r.pend \cup r.infl) \cup r.fin)
    BY DEF Seqs
  <2> QED BY <1>1, <2>1 DEF NumbersAccountedFor
<1>2. ASSUME NEW c, CallExtendsLog(c, L) PROVE CallExtendsLog(c, M)
  <2>1. Dense(M \cup (L \cup c.recs))
    BY <1>2, DenseUnion DEF CallExtendsLog, Numbered
  <2>2. M \cup (L \cup c.recs) = M \cup c.recs
    OBVIOUS
  <2> QED BY <1>2, <2>1, <2>2 DEF CallExtendsLog
<1>3. ASSUME NEW k, ClaimedIsLogged(k, L) PROVE ClaimedIsLogged(k, M)
  BY <1>3 DEF ClaimedIsLogged
<1> QED BY <1>1, <1>2, <1>3

LEMMA Idle ==
  ASSUME NEW L, Numbered(L)
  PROVE  /\ NumbersAccountedFor(NoRun, L)
         /\ \A c : InFlightIsSent(NoRun, c)
         /\ CallExtendsLog(NoCall, L)
         /\ ClaimedIsLogged(NoClaim, L)
<1>1. NumbersAccountedFor(NoRun, L)
  BY DEF NumbersAccountedFor, NoRun, Unique, NoConflict, Seqs
<1>2. CallExtendsLog(NoCall, L)
  BY DEF CallExtendsLog, NoCall, Unique, Numbered
<1>3. ClaimedIsLogged(NoClaim, L)
  BY DEF ClaimedIsLogged, NoClaim, Numbered, Unique, Dense
<1> QED BY <1>1, <1>2, <1>3 DEF InFlightIsSent, NoRun

\* An edit that keeps the numbers and the records.
LEMMA SameRecords ==
  ASSUME NEW L, NEW r, NEW q, NumbersAccountedFor(r, L),
         q.assigned = r.assigned, q.fin = r.fin, q.pend \cup q.infl = r.pend \cup r.infl,
         q.fin = {} \/ q.pc \in {"settle", "record"}
  PROVE  NumbersAccountedFor(q, L)
BY DEF NumbersAccountedFor

\* An edit that gives the next number, to an event or to the terminal record.
LEMMA NextNumber ==
  ASSUME NEW L, NEW r \in RunT, NEW q, NEW x, NumbersAccountedFor(r, L), r.fin = {},
         x.seq = r.assigned + 1, q.assigned = r.assigned + 1, q.infl = r.infl,
         \/ q.pend = r.pend \cup {x} /\ q.fin = {}
         \/ q.pend = r.pend /\ q.fin = {x} /\ x = Done(r.assigned + 1) /\ q.pc = "settle"
  PROVE  NumbersAccountedFor(q, L)
<1> DEFINE kept == r.pend \cup r.infl
<1>1. r.assigned \in Nat /\ \A y \in kept : y.seq \in Nat /\ y.seq <= r.assigned
  BY DEF RunT, Run, Recs, Record, NumbersAccountedFor
<1>2. L \cup (q.pend \cup q.infl) \cup q.fin = (L \cup kept \cup r.fin) \cup {x}
  OBVIOUS
<1>3. 1..q.assigned \subseteq Seqs((L \cup kept \cup r.fin) \cup {x})
  <2>1. ASSUME NEW k \in 1..q.assigned PROVE k \in Seqs((L \cup kept \cup r.fin) \cup {x})
    <3>1. k \in 1..r.assigned \/ k = x.seq
      BY <1>1
    <3>2. 1..r.assigned \subseteq Seqs(L \cup kept \cup r.fin)
      BY DEF NumbersAccountedFor
    <3> QED BY <3>1, <3>2 DEF Seqs
  <2> QED BY <2>1
<1>4. Unique(kept)
  BY DEF NumbersAccountedFor
<1>5. CASE q.pend = r.pend \cup {x} /\ q.fin = {}
  <2>1. q.pend \cup q.infl = kept \cup {x}
    BY <1>5
  <2>2. Unique(kept \cup {x})
    BY <1>1, <1>4 DEF Unique
  <2>3. \A y \in kept \cup {x} : y.seq <= q.assigned
    BY <1>1
  <2>4. NoConflict(kept \cup {x}, q.fin)
    BY <1>5 DEF NoConflict, Seqs
  <2> QED BY <1>2, <1>3, <1>5, <2>1, <2>2, <2>3, <2>4 DEF NumbersAccountedFor
<1>6. CASE q.pend = r.pend /\ q.fin = {x} /\ x = Done(r.assigned + 1) /\ q.pc = "settle"
  <2>1. NoConflict(kept, q.fin)
    BY <1>1, <1>6 DEF NoConflict, Seqs
  <2>2. \A y \in kept : y.seq <= q.assigned
    BY <1>1
  <2> QED BY <1>2, <1>3, <1>4, <1>6, <2>1, <2>2 DEF NumbersAccountedFor
<1> QED BY <1>5, <1>6

\* An edit that drops records the log already has.
LEMMA DropLogged ==
  ASSUME NEW L, NEW r, NEW q, NumbersAccountedFor(r, L), r.infl \subseteq L,
         q.assigned = r.assigned, q.fin = r.fin, q.pend = r.pend, q.infl = {},
         q.fin = {} \/ q.pc \in {"settle", "record"}
  PROVE  NumbersAccountedFor(q, L)
<1>1. L \cup (q.pend \cup q.infl) \cup q.fin = L \cup (r.pend \cup r.infl) \cup r.fin
  OBVIOUS
<1>2. Unique(q.pend \cup q.infl) /\ NoConflict(q.pend \cup q.infl, q.fin)
  BY DEF NumbersAccountedFor, Unique, NoConflict, Seqs
<1> QED BY <1>1, <1>2 DEF NumbersAccountedFor

\* A claimed run continues the list it read.
LEMMA ResumedAccounted ==
  ASSUME NEW L, NEW logged \in Recs, Numbered(logged), logged \subseteq L, NEW n, NEW w
  PROVE  NumbersAccountedFor(NewRun(n, logged, w), L)
<1>1. Seqs(logged) = 1..LastSeq(logged)
  BY NumberedHasAll DEF Recs, Numbered
<1>2. Seqs(logged) \subseteq Seqs(L)
  BY DEF Seqs
<1> DEFINE r == NewRun(n, logged, w)
<1>3. r.assigned = LastSeq(logged) /\ r.pend = {} /\ r.infl = {} /\ r.fin = {}
  BY DEF NewRun, RunAt, NoRun
<1> HIDE DEF r
<1>4. L \cup (r.pend \cup r.infl) \cup r.fin = L
  BY <1>3
<1>5. NumbersAccountedFor(r, L)
  BY <1>1, <1>2, <1>3, <1>4 DEF NumbersAccountedFor, Unique, NoConflict, Seqs
<1> QED BY <1>5 DEF r

\* What a flush or a settlement sends extends the log.
LEMMA SentExtendsLog ==
  ASSUME NEW L, NEW r \in RunT, Numbered(L), NumbersAccountedFor(r, L), r.infl = {}
  PROVE  /\ Unique(r.pend) /\ Dense(L \cup r.pend)
         /\ Unique(r.pend \cup r.fin) /\ Dense(L \cup (r.pend \cup r.fin))
<1>1. r.assigned \in Nat /\ \A y \in r.pend : y.seq \in Nat /\ y.seq <= r.assigned
  BY DEF RunT, Run, Recs, Record, NumbersAccountedFor
<1>2. /\ 1..r.assigned \subseteq Seqs(L \cup r.pend \cup r.fin)
      /\ Unique(r.pend) /\ NoConflict(r.pend, r.fin)
      /\ r.fin = {} \/ r.fin = {Done(r.assigned)}
  <2>1. r.pend \cup r.infl = r.pend
    OBVIOUS
  <2> QED BY <2>1 DEF NumbersAccountedFor
<1>3. \A y \in r.fin : y.seq = r.assigned
  BY <1>2 DEF Done
<1>4. Unique(r.pend \cup r.fin)
  <2>1. \A x, y \in r.fin : x = y
    BY <1>2
  <2>2. \A x \in r.pend, y \in r.fin : x.seq # y.seq
    BY <1>2 DEF NoConflict, Seqs
  <2> QED BY <1>2, <2>1, <2>2 DEF Unique
<1>5. ASSUME NEW x \in r.pend \cup r.fin, NEW k \in 1..x.seq
      PROVE  \E z \in L \cup r.pend \cup r.fin : z.seq = k
  <2>1. x.seq \in Nat /\ x.seq <= r.assigned
    BY <1>1, <1>3
  <2>2. k \in 1..r.assigned
    BY <1>1, <2>1
  <2> QED BY <1>2, <2>2 DEF Seqs
<1>6. Dense(L \cup (r.pend \cup r.fin))
  <2>1. \A x \in L : \A k \in 1..x.seq : \E z \in L : z.seq = k
    BY DEF Numbered, Dense
  <2> QED BY <1>5, <2>1 DEF Dense
<1>7. ASSUME NEW x \in r.pend, NEW k \in 1..x.seq
      PROVE  \E z \in L \cup r.pend : z.seq = k
  <2>1. PICK z \in L \cup r.pend \cup r.fin : z.seq = k
    BY <1>5
  <2>2. CASE z \in r.fin
    <3>1. k = r.assigned /\ x.seq = k
      BY <1>1, <1>3, <2>1, <2>2
    <3> QED BY <3>1
  <2> QED BY <2>1, <2>2
<1>8. Dense(L \cup r.pend)
  <2>1. \A x \in L : \A k \in 1..x.seq : \E z \in L : z.seq = k
    BY DEF Numbered, Dense
  <2> QED BY <1>7, <2>1 DEF Dense
<1> QED BY <1>2, <1>4, <1>6, <1>8

\* What NumberingInv says of one process.
WriterOK(r, c, k, L) ==
  /\ NumbersAccountedFor(r, L) /\ InFlightIsSent(r, c)
  /\ CallExtendsLog(c, L) /\ ClaimedIsLogged(k, L)

\* A step of one process, which may make the log longer.
LEMMA OneWriterSteps ==
  ASSUME NumberingInv, NEW p \in Proc, log \subseteq log', Numbered(log'),
         \A q \in Proc \ {p} : run'[q] = run[q] /\ call'[q] = call[q] /\ claiming'[q] = claiming[q],
         WriterOK(run'[p], call'[p], claiming'[p], log')
  PROVE  NumberingInv'
<1>1. ASSUME NEW q \in Proc \ {p} PROVE WriterOK(run'[q], call'[q], claiming'[q], log')
  <2>1. WriterOK(run[q], call[q], claiming[q], log)
    BY DEF NumberingInv, WriterOK
  <2>2. WriterOK(run[q], call[q], claiming[q], log')
    BY <2>1, LogGrows DEF WriterOK
  <2> QED BY <2>2
<1>2. \A q \in Proc : WriterOK(run'[q], call'[q], claiming'[q], log')
  BY <1>1
<1> QED BY <1>2 DEF NumberingInv, WriterOK

LEMMA NumberingInit == Init => NumberingInv
<1> SUFFICES ASSUME Init PROVE NumberingInv
  OBVIOUS
<1>1. Numbered({})
  BY DEF Numbered, Unique, Dense
<1>2. \A p \in Proc : run[p] = NoRun /\ call[p] = NoCall /\ claiming[p] = NoClaim
  BY DEF Init
<1> QED BY <1>1, <1>2, Idle DEF Init, NumberingInv

\* Steps that touch no Run, no call, no claim and not the log.
LEMMA NumberingUnchanged ==
  ASSUME NumberingInv, UNCHANGED <<log, run, call, claiming>>
  PROVE  NumberingInv'
BY DEF NumberingInv

\* Steps of the runner p that change its Run only.
LEMMA OneRunChanges ==
  ASSUME TypeInv, NumberingInv, NEW p \in Proc, NEW q, run' = [run EXCEPT ![p] = q],
         UNCHANGED <<log, call, claiming>>,
         NumbersAccountedFor(q, log), InFlightIsSent(q, call[p])
  PROVE  NumberingInv'
<1>1. run'[p] = q /\ \A x \in Proc \ {p} : run'[x] = run[x]
  BY DEF TypeInv
<1>2. WriterOK(run'[p], call'[p], claiming'[p], log')
  BY <1>1 DEF NumberingInv, WriterOK
<1>3. Numbered(log')
  BY DEF NumberingInv
<1> QED BY <1>1, <1>2, <1>3, OneWriterSteps

\* Stopping keeps the records.
LEMMA StoppedOK ==
  ASSUME NEW r \in RunT, NEW L, NEW c, NEW reason, NumbersAccountedFor(r, L), InFlightIsSent(r, c)
  PROVE  /\ NumbersAccountedFor(Stopped(r, reason), L) /\ InFlightIsSent(Stopped(r, reason), c)
         /\ NumbersAccountedFor([Stopped(r, reason) EXCEPT !.leaving = TRUE], L)
         /\ InFlightIsSent([Stopped(r, reason) EXCEPT !.leaving = TRUE], c)
         /\ NumbersAccountedFor(LeaseLost(r), L) /\ InFlightIsSent(LeaseLost(r), c)
<1>1. r.fin = {} \/ r.pc \in {"settle", "record"}
  BY DEF NumbersAccountedFor
<1> DEFINE Same(q) == /\ q.assigned = r.assigned /\ q.fin = r.fin /\ q.pend = r.pend /\ q.infl = r.infl
                      /\ q.pc = r.pc /\ q.n = r.n
<1>2. Same(Stopped(r, reason)) /\ Same([Stopped(r, reason) EXCEPT !.leaving = TRUE]) /\ Same(LeaseLost(r))
  BY DEF Stopped, LeaseLost, RunT, Run
<1>3. ASSUME NEW q, Same(q) PROVE NumbersAccountedFor(q, L) /\ InFlightIsSent(q, c)
  <2>1. NumbersAccountedFor(q, L)
    BY <1>1, <1>3, SameRecords
  <2>2. InFlightIsSent(q, c)
    BY <1>3 DEF InFlightIsSent
  <2> QED BY <2>1, <2>2
<1> HIDE DEF Same
<1> QED BY <1>2, <1>3

\* Settling a running Run numbers its terminal record.
LEMMA SettlingOK ==
  ASSUME NEW r \in RunT, NEW L, NEW c, NEW goal, NumbersAccountedFor(r, L), InFlightIsSent(r, c),
         r.pc = "run"
  PROVE  NumbersAccountedFor(Settling(r, goal), L) /\ InFlightIsSent(Settling(r, goal), c)
<1>1. r.fin = {} /\ r.assigned \in Nat
  BY DEF NumbersAccountedFor, RunT, Run
<1>2. CASE goal = "cancelled"
  <2> DEFINE q == Settling(r, goal)
  <2>1. /\ q.assigned = r.assigned /\ q.fin = r.fin /\ q.pend = r.pend /\ q.infl = r.infl
        /\ q.pc = "settle" /\ q.n = r.n
    BY <1>2 DEF Settling, RunT, Run
  <2> HIDE DEF q
  <2>2. NumbersAccountedFor(q, L)
    BY <2>1, SameRecords
  <2>3. InFlightIsSent(q, c)
    BY <2>1 DEF InFlightIsSent
  <2> QED BY <2>2, <2>3 DEF q
<1>3. CASE goal # "cancelled"
  <2> DEFINE q == Settling(r, goal)
             x == Done(r.assigned + 1)
  <2>1. /\ q.assigned = r.assigned + 1 /\ q.fin = {x} /\ q.pend = r.pend /\ q.infl = r.infl
        /\ q.pc = "settle" /\ q.n = r.n
    BY <1>3 DEF Settling, RunT, Run
  <2>2. x.seq = r.assigned + 1
    BY DEF Done
  <2> HIDE DEF q
  <2>3. NumbersAccountedFor(q, L)
    BY <1>1, <2>1, <2>2, NextNumber
  <2>4. InFlightIsSent(q, c)
    BY <2>1 DEF InFlightIsSent
  <2> QED BY <2>3, <2>4 DEF q
<1> QED BY <1>2, <1>3

\* The first event of a new Run is its next number.
LEMMA WithCreatedOK ==
  ASSUME NEW r \in RunT, NEW L, NEW c, NumbersAccountedFor(r, L), InFlightIsSent(r, c), r.fin = {}
  PROVE  NumbersAccountedFor(WithCreated(r), L) /\ InFlightIsSent(WithCreated(r), c)
<1> DEFINE q == WithCreated(r)
           x == Created(r.assigned + 1)
<1>1. /\ q.assigned = r.assigned + 1 /\ q.fin = {} /\ q.pend = r.pend \cup {x} /\ q.infl = r.infl
      /\ q.pc = r.pc /\ q.n = r.n
  BY DEF WithCreated, RunT, Run
<1>2. x.seq = r.assigned + 1
  BY DEF Created
<1> HIDE DEF q
<1>3. NumbersAccountedFor(q, L)
  BY <1>1, <1>2, NextNumber
<1>4. InFlightIsSent(q, c)
  BY <1>1 DEF InFlightIsSent
<1> QED BY <1>3, <1>4 DEF q

\* A failed batch goes back in front of the buffer.
LEMMA RestoredOK ==
  ASSUME NEW r \in RunT, NEW L, NumbersAccountedFor(r, L)
  PROVE  /\ NumbersAccountedFor(Restored(r), L) /\ \A c : InFlightIsSent(Restored(r), c)
<1> DEFINE q == Restored(r)
<1>1. /\ q.assigned = r.assigned /\ q.fin = r.fin /\ q.pend = r.infl \cup r.pend /\ q.infl = {}
      /\ q.pc = r.pc /\ q.n = r.n
  BY DEF Restored, RunT, Run
<1> HIDE DEF q
<1>2. q.pend \cup q.infl = r.pend \cup r.infl
  BY <1>1
<1>3. q.fin = {} \/ q.pc \in {"settle", "record"}
  BY <1>1 DEF NumbersAccountedFor
<1>4. NumbersAccountedFor(q, L)
  BY <1>1, <1>2, <1>3, SameRecords
<1> QED BY <1>1, <1>4 DEF InFlightIsSent, q

LEMMA NumberingStep ==
  ASSUME TypeInv, NumberingInv, [Next]_vars
  PROVE  NumberingInv'
<1>0. ASSUME NEW p \in Proc
      PROVE  /\ run[p] \in RunT /\ call[p] \in CallT /\ claiming[p] \in ClaimT
             /\ NumbersAccountedFor(run[p], log) /\ InFlightIsSent(run[p], call[p])
             /\ CallExtendsLog(call[p], log) /\ ClaimedIsLogged(claiming[p], log)
  BY DEF TypeInv, NumberingInv
<1>a. Numbered(log)
  BY DEF NumberingInv
<1>1. CASE LeaseLapse
  BY <1>1, NumberingUnchanged DEF LeaseLapse
<1>2. ASSUME NEW p \in Proc,
             \/ MarkDurable(p) \/ LaunchSpec(p) \/ LaunchFails(p) \/ CancelFlag(p)
             \/ SweepUnread(p) \/ SweepSpec(p) \/ SuspendFlushed(p)
      PROVE  NumberingInv'
  <2>1. UNCHANGED <<log, run, call, claiming>>
    BY <1>2 DEF MarkDurable, LaunchSpec, LaunchFails, CancelFlag, SweepUnread, SweepSpec, SuspendFlushed
  <2> QED BY <2>1, NumberingUnchanged
<1>3. ASSUME NEW p \in Proc, StartRun(p) PROVE NumberingInv'
  <2> DEFINE r == NewRun(1, {}, Mode = "keyed")
  <2>1. r \in RunT /\ r.fin = {} /\ r.infl = {}
    BY NewRunType, RecsEmpty DEF NewRun, RunAt, NoRun
  <2>2. NumbersAccountedFor(r, log)
    BY ResumedAccounted, RecsEmpty DEF Numbered, Unique, Dense
  <2>3. InFlightIsSent(r, call[p])
    BY <2>1 DEF InFlightIsSent
  <2> HIDE DEF r
  <2>4. NumbersAccountedFor(WithCreated(r), log) /\ InFlightIsSent(WithCreated(r), call[p])
    BY <2>1, <2>2, <2>3, WithCreatedOK
  <2>5. run' = [run EXCEPT ![p] = WithCreated(r)] /\ UNCHANGED <<log, call, claiming>>
    BY <1>3 DEF StartRun, r
  <2> QED BY <2>4, <2>5, OneRunChanges
<1>4. ASSUME NEW p \in Proc, Generate(p) PROVE NumberingInv'
  <2> DEFINE r == run[p]
             t == [pos |-> r.len + 1, by |-> r.n]
             x == Delta(r.assigned + 1, t)
             q == [r EXCEPT !.assigned = @ + 1, !.len = @ + 1, !.text = @ \cup {t}, !.pend = @ \cup {x}]
  <2>1. run' = [run EXCEPT ![p] = q] /\ UNCHANGED <<log, call, claiming>> /\ r.pc = "run"
    BY <1>4 DEF Generate
  <2>2. /\ q.assigned = r.assigned + 1 /\ q.pend = r.pend \cup {x} /\ q.infl = r.infl /\ q.fin = r.fin
        /\ q.pc = r.pc /\ q.n = r.n
    BY <1>0 DEF RunT, Run
  <2>3. r.fin = {} /\ x.seq = r.assigned + 1
    BY <1>0, <2>1 DEF NumbersAccountedFor, Delta
  <2>4. r \in RunT /\ NumbersAccountedFor(r, log) /\ InFlightIsSent(r, call[p])
    BY <1>0
  <2> HIDE DEF q, r, x
  <2>5. NumbersAccountedFor(q, log)
    BY <2>2, <2>3, <2>4, NextNumber
  <2>6. InFlightIsSent(q, call[p])
    BY <2>2, <2>4 DEF InFlightIsSent
  <2> QED BY <2>1, <2>5, <2>6, OneRunChanges
<1>5. ASSUME NEW p \in Proc, RunnerEnds(p) PROVE NumberingInv'
  <2>1. PICK goal \in {"completed", "failed"} : run' = [run EXCEPT ![p] = Settling(run[p], goal)]
    BY <1>5 DEF RunnerEnds
  <2>2. NumbersAccountedFor(Settling(run[p], goal), log) /\ InFlightIsSent(Settling(run[p], goal), call[p])
    BY <1>0, <1>5, SettlingOK DEF RunnerEnds
  <2> QED BY <1>5, <2>1, <2>2, OneRunChanges DEF RunnerEnds
<1>6. ASSUME NEW p \in Proc, RunnerStops(p) PROVE NumberingInv'
  <2> DEFINE ended == [run[p] EXCEPT !.pc = "end"]
  <2>1. run[p].pc = "run" /\ UNCHANGED <<log, call, claiming>>
    BY <1>6 DEF RunnerStops
  <2>2. run[p].fin = {}
    BY <1>0, <2>1 DEF NumbersAccountedFor
  <2>3. NumbersAccountedFor(ended, log) /\ InFlightIsSent(ended, call[p])
    <3>1. /\ ended.assigned = run[p].assigned /\ ended.fin = run[p].fin /\ ended.pend = run[p].pend
          /\ ended.infl = run[p].infl /\ ended.n = run[p].n
      BY <1>0 DEF RunT, Run
    <3>2. NumbersAccountedFor(ended, log)
      BY <1>0, <2>2, <3>1, SameRecords
    <3>3. InFlightIsSent(ended, call[p])
      BY <1>0, <2>1, <3>1 DEF InFlightIsSent
    <3> QED BY <3>2, <3>3
  <2>4. /\ NumbersAccountedFor(Settling(run[p], "cancelled"), log)
        /\ InFlightIsSent(Settling(run[p], "cancelled"), call[p])
        /\ NumbersAccountedFor(Settling(run[p], "failed"), log)
        /\ InFlightIsSent(Settling(run[p], "failed"), call[p])
    BY <1>0, <2>1, SettlingOK
  <2>5. NumbersAccountedFor(NoRun, log) /\ InFlightIsSent(NoRun, call[p])
    BY <1>a, Idle
  <2>6. \E q \in {ended, Settling(run[p], "cancelled"), Settling(run[p], "failed"), NoRun} :
           run' = [run EXCEPT ![p] = q]
    BY <1>6 DEF RunnerStops
  <2> HIDE DEF ended
  <2> QED BY <2>1, <2>3, <2>4, <2>5, <2>6, OneRunChanges
<1>7. ASSUME NEW p \in Proc, FlushSpec(p) PROVE NumberingInv'
  <2> DEFINE q == [run[p] EXCEPT !.specw = TRUE]
  <2>1. run' = [run EXCEPT ![p] = q] /\ UNCHANGED <<log, call, claiming>>
    BY <1>7 DEF FlushSpec, TypeInv
  <2>2. /\ q.assigned = run[p].assigned /\ q.fin = run[p].fin /\ q.pend = run[p].pend
        /\ q.infl = run[p].infl /\ q.n = run[p].n /\ q.pc = run[p].pc
    BY <1>0 DEF RunT, Run
  <2> HIDE DEF q
  <2>3. q.fin = {} \/ q.pc \in {"settle", "record"}
    BY <1>0, <2>2 DEF NumbersAccountedFor
  <2>4. NumbersAccountedFor(q, log)
    BY <1>0, <2>2, <2>3, SameRecords
  <2>5. InFlightIsSent(q, call[p])
    BY <1>0, <2>2 DEF InFlightIsSent
  <2> QED BY <2>1, <2>4, <2>5, OneRunChanges
<1>8. ASSUME NEW p \in Proc, FlushSend(p) \/ SettleSend(p) PROVE NumberingInv'
  <2> DEFINE r == run[p]
             q == [r EXCEPT !.infl = r.pend, !.pend = {}]
  <2>1. run' = [run EXCEPT ![p] = q] /\ UNCHANGED <<log, claiming>> /\ call[p].op = "none"
    BY <1>8 DEF FlushSend, SettleSend, TypeInv
  <2>2. r.infl = {}
    BY <1>0, <2>1 DEF InFlightIsSent
  <2>3. r \in RunT /\ NumbersAccountedFor(r, log)
    BY <1>0
  <2>4. /\ q.assigned = r.assigned /\ q.fin = r.fin /\ q.pend = {} /\ q.infl = r.pend
        /\ q.n = r.n /\ q.pc = r.pc
    BY <1>0 DEF RunT, Run
  <2>5. run'[p] = q /\ (\A z \in Proc \ {p} : run'[z] = run[z]) /\ claiming'[p] = claiming[p]
    BY <2>1 DEF TypeInv
  <2>6. /\ \A z \in Proc \ {p} : call'[z] = call[z]
        /\ call'[p].op # "none" /\ call'[p].n = r.n /\ call'[p].st # "ok"
        /\ \/ call'[p].op = "append" /\ call'[p].recs = r.pend
           \/ call'[p].op = "finish" /\ call'[p].recs = r.pend \cup r.fin /\ r.pc = "settle"
    <3>1. CASE FlushSend(p)
      <4> DEFINE c == [NoCall EXCEPT !.op = "append", !.st = "sent", !.n = r.n, !.recs = r.pend, !.owned = TRUE]
      <4>1. call' = [call EXCEPT ![p] = c]
        BY <3>1 DEF FlushSend
      <4>2. c.op = "append" /\ c.n = r.n /\ c.st = "sent" /\ c.recs = r.pend
        BY DEF NoCall
      <4> HIDE DEF c, r
      <4> QED BY <4>1, <4>2 DEF TypeInv
    <3>2. CASE SettleSend(p)
      <4> DEFINE c == [op |-> "finish", st |-> "sent", n |-> r.n, recs |-> FinalBatch(r), owned |-> r.held,
                       goal |-> r.goal, text |-> r.text]
      <4>1. call' = [call EXCEPT ![p] = c] /\ r.pc = "settle"
        BY <3>2 DEF SettleSend
      <4>2. c.op = "finish" /\ c.n = r.n /\ c.st = "sent" /\ c.recs = r.pend \cup r.fin
        BY DEF FinalBatch
      <4> HIDE DEF c, r
      <4> QED BY <4>1, <4>2 DEF TypeInv
    <3> QED BY <1>8, <3>1, <3>2
  <2> HIDE DEF r, q
  <2>7. NumbersAccountedFor(q, log)
    <3>1. q.pend \cup q.infl = r.pend \cup r.infl
      BY <2>2, <2>4
    <3>2. q.fin = {} \/ q.pc \in {"settle", "record"}
      BY <2>3, <2>4 DEF NumbersAccountedFor
    <3> QED BY <2>3, <2>4, <3>1, <3>2, SameRecords
  <2>8. InFlightIsSent(q, call'[p])
    BY <2>4, <2>6 DEF InFlightIsSent
  <2>9. CallExtendsLog(call'[p], log)
    <3>1. /\ Unique(r.pend) /\ Dense(log \cup r.pend)
          /\ Unique(r.pend \cup r.fin) /\ Dense(log \cup (r.pend \cup r.fin))
      BY <1>a, <2>2, <2>3, SentExtendsLog
    <3> QED BY <2>6, <3>1 DEF CallExtendsLog
  <2>10. WriterOK(run'[p], call'[p], claiming'[p], log')
    BY <1>0, <2>1, <2>5, <2>7, <2>8, <2>9 DEF WriterOK
  <2>11. \A z \in Proc \ {p} : run'[z] = run[z] /\ call'[z] = call[z] /\ claiming'[z] = claiming[z]
    BY <2>1, <2>5, <2>6
  <2>12. log \subseteq log' /\ Numbered(log')
    BY <1>a, <2>1
  <2> QED BY <2>10, <2>11, <2>12, OneWriterSteps
<1>9. ASSUME NEW p \in Proc, Append(p) \/ Finish(p) PROVE NumberingInv'
  <2> DEFINE c == call[p]
  <2>1. UNCHANGED <<run, claiming>>
    BY <1>9 DEF Append, Finish
  <2>2. \/ /\ NoConflict(log, c.recs) /\ log' = log \cup c.recs
           /\ \E st \in {"ok", "error"} : call' = [call EXCEPT ![p].st = st]
        \/ log' = log /\ \E st \in {"lost", "error"} : call' = [call EXCEPT ![p].st = st]
    BY <1>9 DEF Append, Finish
  <2>3. PICK st \in {"ok", "lost", "error"} :
           /\ call' = [call EXCEPT ![p].st = st]
           /\ \/ NoConflict(log, c.recs) /\ log' = log \cup c.recs
              \/ log' = log /\ st # "ok"
    BY <2>2
  <2>4. /\ \A z \in Proc \ {p} : call'[z] = call[z]
        /\ call'[p].recs = c.recs /\ call'[p].op = c.op /\ call'[p].n = c.n /\ call'[p].st = st
    BY <2>3 DEF TypeInv, CallT, Call
  <2>5. /\ CallExtendsLog(c, log) /\ NumbersAccountedFor(run[p], log) /\ InFlightIsSent(run[p], c)
        /\ ClaimedIsLogged(claiming[p], log)
    BY <1>0
  <2> HIDE DEF c
  <2>6. log \subseteq log' /\ Numbered(log')
    BY <1>a, <2>3, <2>5, AppendKeepsList DEF CallExtendsLog
  <2>7. /\ NumbersAccountedFor(run[p], log') /\ CallExtendsLog(c, log') /\ ClaimedIsLogged(claiming[p], log')
    BY <2>5, <2>6, LogGrows
  <2>8. CallExtendsLog(call'[p], log')
    BY <2>3, <2>4, <2>7 DEF CallExtendsLog
  <2>9. InFlightIsSent(run[p], call'[p])
    BY <2>4, <2>5 DEF InFlightIsSent
  <2>10. WriterOK(run'[p], call'[p], claiming'[p], log')
    BY <2>1, <2>7, <2>8, <2>9 DEF WriterOK
  <2>11. \A z \in Proc \ {p} : run'[z] = run[z] /\ call'[z] = call[z] /\ claiming'[z] = claiming[z]
    BY <2>1, <2>4
  <2> QED BY <2>6, <2>10, <2>11, OneWriterSteps
<1>10. ASSUME NEW p \in Proc, AppendReply(p) \/ FinishReply(p) PROVE NumberingInv'
  <2> DEFINE r == run[p]
             c == call[p]
             settled == [Committed(r, c.recs) EXCEPT !.pc = "record", !.held = FALSE]
  <2>1. call' = [call EXCEPT ![p] = NoCall] /\ UNCHANGED <<log, claiming>>
    BY <1>10 DEF AppendReply, FinishReply
  <2>2. /\ NumbersAccountedFor(r, log) /\ InFlightIsSent(r, c) /\ CallExtendsLog(c, log)
        /\ r \in RunT /\ c.recs \in Recs
    BY <1>0 DEF CallT, Call
  <2>3. \/ run' = run /\ r.infl = {}
        \/ run' = [run EXCEPT ![p] = Committed(r, c.recs)] /\ c.st = "ok"
        \/ run' = [run EXCEPT ![p] = settled] /\ c.st = "ok" /\ r.pc = "settle"
        \/ run' = [run EXCEPT ![p] = Restored(r)]
        \/ run' = [run EXCEPT ![p] = LeaseLost(Restored(r))]
        \/ run' = [run EXCEPT ![p] = NoRun]
    <3>1. CASE AppendReply(p)
      BY <2>2, <3>1 DEF AppendReply, InFlightIsSent
    <3>2. CASE FinishReply(p)
      BY <2>2, <3>2 DEF FinishReply, InFlightIsSent
    <3> QED BY <1>10, <3>1, <3>2
  <2>4. r.infl \subseteq c.recs /\ (c.st = "ok" => r.infl \subseteq log)
    BY <2>2 DEF InFlightIsSent, CallExtendsLog
  <2>5. r.fin = {} \/ r.pc \in {"settle", "record"}
    BY <2>2 DEF NumbersAccountedFor
  <2> DEFINE OK(q) == NumbersAccountedFor(q, log) /\ InFlightIsSent(q, NoCall)
  <2>6. ASSUME r.infl = {} PROVE OK(r)
    BY <2>2, <2>6 DEF InFlightIsSent
  <2>7. ASSUME c.st = "ok" PROVE OK(Committed(r, c.recs)) /\ (r.pc = "settle" => OK(settled))
    <3> DEFINE q == Committed(r, c.recs)
    <3>1. /\ q.assigned = r.assigned /\ q.fin = r.fin /\ q.pend = r.pend /\ q.infl = {} /\ q.pc = r.pc
      BY <2>2 DEF Committed, RunT, Run
    <3>2. /\ settled.assigned = r.assigned /\ settled.fin = r.fin /\ settled.pend = r.pend
          /\ settled.infl = {} /\ settled.pc = "record"
      BY <2>2 DEF Committed, RunT, Run
    <3> HIDE DEF q, r, c, settled
    <3>3. NumbersAccountedFor(q, log)
      BY <2>2, <2>4, <2>5, <2>7, <3>1, DropLogged
    <3>4. r.pc = "settle" => NumbersAccountedFor(settled, log)
      BY <2>2, <2>4, <2>5, <2>7, <3>2, DropLogged
    <3>5. InFlightIsSent(q, NoCall) /\ InFlightIsSent(settled, NoCall)
      BY <3>1, <3>2 DEF InFlightIsSent
    <3> QED BY <3>3, <3>4, <3>5 DEF q
  <2>8. OK(Restored(r)) /\ OK(LeaseLost(Restored(r))) /\ OK(NoRun)
    <3> HIDE DEF r
    <3>1. Restored(r) \in RunT
      BY <2>2, RunStepTypes
    <3>2. OK(Restored(r))
      BY <2>2, RestoredOK
    <3>3. OK(LeaseLost(Restored(r)))
      BY <3>1, <3>2, StoppedOK
    <3>4. OK(NoRun)
      BY <1>a, Idle
    <3> QED BY <3>2, <3>3, <3>4
  <2>9. OK(run'[p]) /\ \A z \in Proc \ {p} : run'[z] = run[z]
    <3> HIDE DEF OK, settled
    <3>1. r = run[p] /\ run \in [Proc -> RunT]
      BY DEF TypeInv
    <3> HIDE DEF r, c
    <3> QED BY <2>3, <2>6, <2>7, <2>8, <3>1
  <2>10. call'[p] = NoCall /\ \A z \in Proc \ {p} : call'[z] = call[z]
    BY <2>1 DEF TypeInv
  <2>11. WriterOK(run'[p], call'[p], claiming'[p], log')
    <3> HIDE DEF r, c, settled
    <3> QED BY <1>0, <1>a, <2>1, <2>9, <2>10, Idle DEF WriterOK
  <2>12. log \subseteq log' /\ Numbered(log')
    BY <1>a, <2>1
  <2>13. \A z \in Proc \ {p} : run'[z] = run[z] /\ call'[z] = call[z] /\ claiming'[z] = claiming[z]
    BY <2>1, <2>9, <2>10
  <2> QED BY <2>11, <2>12, <2>13, OneWriterSteps
<1>11. ASSUME NEW p \in Proc, RecordOutcome(p) \/ SuspendRelease(p) PROVE NumberingInv'
  <2>1. UNCHANGED <<log, call, claiming>> /\ (run' = run \/ run' = [run EXCEPT ![p] = NoRun])
    BY <1>11 DEF RecordOutcome, SuspendRelease
  <2>2. NumbersAccountedFor(NoRun, log) /\ InFlightIsSent(NoRun, call[p])
    BY <1>a, Idle
  <2> QED BY <2>1, <2>2, OneRunChanges, NumberingUnchanged
<1>12. ASSUME NEW p \in Proc, RenewTick(p) \/ CancelHere(p) \/ CancelElsewhere(p) \/ Suspend(p)
       PROVE  NumberingInv'
  <2> DEFINE r == run[p]
  <2>1. UNCHANGED <<log, call, claiming>>
    BY <1>12 DEF RenewTick, CancelHere, CancelElsewhere, Suspend
  <2>2. \/ run' = run \/ run' = [run EXCEPT ![p] = r]
        \/ \E reason \in {"cancel", "revoked"} : run' = [run EXCEPT ![p] = Stopped(r, reason)]
        \/ run' = [run EXCEPT ![p] = LeaseLost(r)]
        \/ run' = [run EXCEPT ![p] = [Stopped(r, "restart") EXCEPT !.leaving = TRUE]]
    <3>1. CASE RenewTick(p)
      BY <3>1 DEF RenewTick, Ticked
    <3>2. CASE CancelHere(p)
      BY <3>2 DEF CancelHere
    <3>3. CASE CancelElsewhere(p)
      BY <3>3 DEF CancelElsewhere
    <3>4. CASE Suspend(p)
      BY <3>4 DEF Suspend
    <3> QED BY <1>12, <3>1, <3>2, <3>3, <3>4
  <2>3. r \in RunT /\ NumbersAccountedFor(r, log) /\ InFlightIsSent(r, call[p])
    BY <1>0
  <2> DEFINE OK(q) == NumbersAccountedFor(q, log) /\ InFlightIsSent(q, call[p])
  <2> HIDE DEF r
  <2>4. /\ OK(r) /\ OK(Stopped(r, "cancel")) /\ OK(Stopped(r, "revoked")) /\ OK(LeaseLost(r))
        /\ OK([Stopped(r, "restart") EXCEPT !.leaving = TRUE])
    BY <2>3, StoppedOK
  <2>5. PICK q : OK(q) /\ (run' = run \/ run' = [run EXCEPT ![p] = q])
    <3> HIDE DEF OK
    <3> QED BY <2>2, <2>4
  <2> QED BY <2>1, <2>5, OneRunChanges, NumberingUnchanged
<1>13. ASSUME NEW p \in Proc, Claim(p) \/ ClaimUnrunnable(p) \/ SettleUnrunnable(p)
       PROVE  NumberingInv'
  <2>1. UNCHANGED <<log, run, call>>
    BY <1>13 DEF Claim, ClaimUnrunnable, SettleUnrunnable
  <2>2. PICK k : ClaimedIsLogged(k, log) /\ (claiming' = claiming \/ claiming' = [claiming EXCEPT ![p] = k])
    <3>1. CASE Claim(p)
      <4> DEFINE k == [st |-> "claimed", n |-> attempt + 1, logged |-> log, cancel |-> cancelReq]
      <4>1. ClaimedIsLogged(k, log)
        BY <1>a DEF ClaimedIsLogged
      <4>2. claiming' = claiming \/ claiming' = [claiming EXCEPT ![p] = k]
        BY <3>1 DEF Claim
      <4> QED BY <4>1, <4>2
    <3>2. CASE ClaimUnrunnable(p)
      <4> DEFINE k == [claiming[p] EXCEPT !.st = "unrunnable"]
      <4>1. ClaimedIsLogged(k, log)
        BY <1>0 DEF ClaimedIsLogged, ClaimT, ClaimState
      <4>2. claiming' = [claiming EXCEPT ![p] = k]
        BY <3>2 DEF ClaimUnrunnable, TypeInv
      <4> QED BY <4>1, <4>2
    <3>3. CASE SettleUnrunnable(p)
      BY <1>a, <3>3, Idle DEF SettleUnrunnable
    <3> QED BY <1>13, <3>1, <3>2, <3>3
  <2>3. /\ \A z \in Proc \ {p} : claiming'[z] = claiming[z]
        /\ claiming'[p] = claiming[p] \/ claiming'[p] = k
    BY <2>2 DEF TypeInv
  <2>4. WriterOK(run'[p], call'[p], claiming'[p], log')
    BY <1>0, <2>1, <2>2, <2>3 DEF WriterOK
  <2>5. \A z \in Proc \ {p} : run'[z] = run[z] /\ call'[z] = call[z] /\ claiming'[z] = claiming[z]
    BY <2>1, <2>3
  <2>6. log \subseteq log' /\ Numbered(log')
    BY <1>a, <2>1
  <2> QED BY <2>4, <2>5, <2>6, OneWriterSteps
<1>14. ASSUME NEW p \in Proc, ClaimResume(p) PROVE NumberingInv'
  <2> DEFINE k == claiming[p]
             r == NewRun(k.n, k.logged, TRUE)
             OK(q) == NumbersAccountedFor(q, log) /\ InFlightIsSent(q, call[p])
  <2>1. k \in ClaimT /\ k.logged \in Recs /\ k.n \in Nat /\ ClaimedIsLogged(k, log)
    BY <1>0 DEF ClaimT, ClaimState
  <2>2. /\ UNCHANGED <<log, call>> /\ claiming' = [claiming EXCEPT ![p] = NoClaim]
        /\ \E q \in {Settling(r, "cancelled"), Settling(r, "failed"), WithCreated(r), r} :
             run' = [run EXCEPT ![p] = q]
    BY <1>14 DEF ClaimResume
  <2>3. r \in RunT /\ r.pc = "run" /\ r.fin = {} /\ r.infl = {}
    BY <2>1, NewRunType DEF NewRun, RunAt, NoRun
  <2>4. OK(r)
    <3>1. NumbersAccountedFor(r, log)
      BY <2>1, ResumedAccounted DEF ClaimedIsLogged
    <3>2. InFlightIsSent(r, call[p])
      BY <2>3 DEF InFlightIsSent
    <3> QED BY <3>1, <3>2
  <2> HIDE DEF r
  <2>5. OK(Settling(r, "cancelled")) /\ OK(Settling(r, "failed"))
    BY <2>3, <2>4, SettlingOK
  <2>6. OK(WithCreated(r))
    BY <2>3, <2>4, WithCreatedOK
  <2>7. OK(run'[p]) /\ \A z \in Proc \ {p} : run'[z] = run[z]
    <3> HIDE DEF OK
    <3> QED BY <2>2, <2>4, <2>5, <2>6 DEF TypeInv
  <2>8. claiming'[p] = NoClaim /\ \A z \in Proc \ {p} : claiming'[z] = claiming[z]
    BY <2>2 DEF TypeInv
  <2>9. WriterOK(run'[p], call'[p], claiming'[p], log')
    BY <1>0, <1>a, <2>2, <2>7, <2>8, Idle DEF WriterOK
  <2>10. \A z \in Proc \ {p} : run'[z] = run[z] /\ call'[z] = call[z] /\ claiming'[z] = claiming[z]
    BY <2>2, <2>7, <2>8
  <2>11. log \subseteq log' /\ Numbered(log')
    BY <1>a, <2>2
  <2> QED BY <2>9, <2>10, <2>11, OneWriterSteps
<1>15. ASSUME NEW p \in Proc, Die(p) PROVE NumberingInv'
  <2>1. /\ UNCHANGED log /\ run'[p] = NoRun /\ call'[p] = NoCall /\ claiming'[p] = NoClaim
        /\ \A z \in Proc \ {p} : run'[z] = run[z] /\ call'[z] = call[z] /\ claiming'[z] = claiming[z]
    BY <1>15 DEF Die, TypeInv
  <2>2. WriterOK(run'[p], call'[p], claiming'[p], log')
    BY <1>a, <2>1, Idle DEF WriterOK
  <2>3. log \subseteq log' /\ Numbered(log')
    BY <1>a, <2>1
  <2> QED BY <2>1, <2>2, <2>3, OneWriterSteps
<1>16. CASE UNCHANGED vars
  BY <1>16, NumberingUnchanged DEF vars
<1> QED BY <1>1, <1>2, <1>3, <1>4, <1>5, <1>6, <1>7, <1>8, <1>9, <1>10, <1>11, <1>12, <1>13, <1>14,
           <1>15, <1>16 DEF Next

\* Every event a reader can replay is numbered 1, 2, 3, ... without a gap,
\* whoever wrote it: any number of processes, of claims and of faults.
THEOREM ListCorrect == Spec => []LogIsAList
<1>1. Init => TypeInv /\ NumberingInv
  BY TypeInit, NumberingInit
<1>2. (TypeInv /\ NumberingInv) /\ [Next]_vars => (TypeInv /\ NumberingInv)'
  BY TypeStep, NumberingStep
<1>3. TypeInv /\ NumberingInv => LogIsAList
  BY DEF NumberingInv, LogIsAList
<1> QED BY <1>1, <1>2, <1>3, PTL DEF Spec

\* What each writer is about to send or resume from fits the log it extends:
\* the invariant behind ListCorrect.
THEOREM WritersFit == Spec => []NumberingInv
<1>1. Init => TypeInv /\ NumberingInv
  BY TypeInit, NumberingInit
<1>2. (TypeInv /\ NumberingInv) /\ [Next]_vars => (TypeInv /\ NumberingInv)'
  BY TypeStep, NumberingStep
<1> QED BY <1>1, <1>2, PTL DEF Spec
=============================================================================
