---------------------- MODULE DurableRunReaders_proofs ----------------------
(***************************************************************************)
(* What readers and owners of a durable response rely on, for any set of    *)
(* processes, any mode and any bounds: DurableRun implements ResponseLog,   *)
(* a settled row stays as it is, readers are shown committed records only,  *)
(* a live lease is not taken, and a response is recorded and its webhook    *)
(* queued at most once. Then the text: it is extended and never             *)
(* regenerated, and the answer is the text of the log.                      *)
(***************************************************************************)
EXTENDS DurableRun_proofs

-----------------------------------------------------------------------------
(* The invariant: a run shows what is logged and settles with an outcome,   *)
(* and so does the call that carries its settlement.                        *)

Shown(r, L) == r.tail \subseteq L /\ r.committed <= LastSeq(L)
Decided(r) == r.pc = "settle" => r.goal \in Outcomes
CallDecided(c) == c.op = "finish" => c.goal \in Outcomes

ReaderInv ==
  /\ \A p \in Proc : Shown(run[p], log) /\ Decided(run[p]) /\ CallDecided(call[p])
  /\ status = "none" => owner = None

Inv == TypeInv /\ NumberingInv /\ ReaderInv

LEMMA LastSeqGrows ==
  ASSUME NEW L \in Recs, NEW M \in Recs, L \subseteq M
  PROVE  LastSeq(L) <= LastSeq(M) /\ LastSeq(L) \in Nat /\ LastSeq(M) \in Nat
<1>1. LastSeq(L) \in Nat /\ LastSeq(M) \in Nat
  BY LastSeqIsLast DEF Recs
<1>2. CASE L = {}
  BY <1>1, <1>2 DEF LastSeq
<1>3. CASE L # {}
  <2>1. LastSeq(L) \in Seqs(L)
    BY <1>3, LastSeqIsLast DEF Recs
  <2>2. LastSeq(L) \in Seqs(M)
    BY <2>1 DEF Seqs
  <2> QED BY <2>2, LastSeqIsLast DEF Recs
<1> QED BY <1>1, <1>2, <1>3

\* What is shown of a shorter log is shown of a longer one.
LEMMA ShownOfMore ==
  ASSUME NEW r \in RunT, NEW L \in Recs, NEW M \in Recs, L \subseteq M, Shown(r, L)
  PROVE  Shown(r, M)
<1>1. r.committed \in Nat
  BY DEF RunT, Run
<1> QED BY <1>1, LastSeqGrows DEF Shown

\* The edits of a Run that show nothing new and decide nothing.
Quiet(r, q) == q.pc = r.pc /\ q.goal = r.goal /\ q.tail = r.tail /\ q.committed = r.committed

LEMMA QuietEdits ==
  ASSUME NEW r \in RunT
  PROVE  /\ Quiet(r, WithCreated(r)) /\ Quiet(r, Restored(r)) /\ Quiet(r, LeaseLost(r))
         /\ \A reason : Quiet(r, Stopped(r, reason))
         /\ \A reason : Quiet(r, [Stopped(r, reason) EXCEPT !.leaving = TRUE])
         /\ Quiet(r, [r EXCEPT !.specw = TRUE])
         /\ Quiet(r, [r EXCEPT !.infl = r.pend, !.pend = {}])
<1>1. Quiet(r, WithCreated(r))
  BY DEF Quiet, WithCreated, RunT, Run
<1>2. Quiet(r, Restored(r))
  BY DEF Quiet, Restored, RunT, Run
<1>3. Quiet(r, LeaseLost(r))
  BY DEF Quiet, LeaseLost, Stopped, RunT, Run
<1>4. ASSUME NEW reason PROVE Quiet(r, Stopped(r, reason)) /\ Quiet(r, [Stopped(r, reason) EXCEPT !.leaving = TRUE])
  BY DEF Quiet, Stopped, RunT, Run
<1>5. Quiet(r, [r EXCEPT !.specw = TRUE]) /\ Quiet(r, [r EXCEPT !.infl = r.pend, !.pend = {}])
  BY DEF Quiet, RunT, Run
<1> QED BY <1>1, <1>2, <1>3, <1>4, <1>5

\* What the invariant says of a Run.
RunOK(r, L) == Shown(r, L) /\ Decided(r)

LEMMA QuietOK ==
  ASSUME NEW r, NEW q, NEW L, RunOK(r, L), Quiet(r, q)
  PROVE  RunOK(q, L)
BY DEF RunOK, Shown, Decided, Quiet

LEMMA NoRunOK ==
  ASSUME NEW L \in Recs
  PROVE  RunOK(NoRun, L)
<1>1. LastSeq(L) \in Nat
  BY LastSeqIsLast DEF Recs
<1> QED BY <1>1 DEF RunOK, Shown, Decided, NoRun

LEMMA NewRunOK ==
  ASSUME NEW L \in Recs, NEW logged \in Recs, logged \subseteq L, NEW n, NEW w
  PROVE  RunOK(NewRun(n, logged, w), L)
<1> DEFINE r == NewRun(n, logged, w)
<1>1. r.tail = {} /\ r.committed = LastSeq(logged) /\ r.pc = "run"
  BY DEF NewRun, RunAt, NoRun
<1> HIDE DEF r
<1>2. RunOK(r, L)
  BY <1>1, LastSeqGrows DEF RunOK, Shown, Decided
<1> QED BY <1>2 DEF r

LEMMA DecidedOK ==
  ASSUME NEW r \in RunT, NEW L, RunOK(r, L), NEW goal \in Outcomes
  PROVE  RunOK(Settling(r, goal), L)
<1> DEFINE q == Settling(r, goal)
<1>1. q.tail = r.tail /\ q.committed = r.committed /\ q.goal = goal
  BY DEF Settling, RunT, Run
<1> HIDE DEF q
<1>2. RunOK(q, L)
  BY <1>1 DEF RunOK, Shown, Decided
<1> QED BY <1>2 DEF q

\* Committed records are shown once they are in the log.
LEMMA CommittedOK ==
  ASSUME NEW r \in RunT, NEW L \in Recs, RunOK(r, L), NEW recs \in Recs, recs \subseteq L
  PROVE  RunOK(Committed(r, recs), L) /\ RunOK([Committed(r, recs) EXCEPT !.pc = "record", !.held = FALSE], L)
<1> DEFINE q == Committed(r, recs)
           s == [q EXCEPT !.pc = "record", !.held = FALSE]
<1>1. /\ q.tail = r.tail \cup recs /\ q.pc = r.pc /\ q.goal = r.goal
      /\ q.committed = IF LastSeq(recs) > r.committed THEN LastSeq(recs) ELSE r.committed
  BY DEF Committed, RunT, Run
<1>2. q \in RunT
  BY RunStepTypes
<1> HIDE DEF q
<1>3. s.tail = q.tail /\ s.committed = q.committed /\ s.pc = "record"
  BY <1>2 DEF RunT, Run
<1> HIDE DEF s
<1>4. q.committed <= LastSeq(L)
  BY <1>1, LastSeqGrows DEF RunOK, Shown
<1>5. RunOK(q, L) /\ RunOK(s, L)
  BY <1>1, <1>3, <1>4 DEF RunOK, Shown, Decided
<1> QED BY <1>5 DEF q, s

-----------------------------------------------------------------------------
(* What a step does to the row and the log.                                 *)

\* The row is accepted, or it is open and is appended to or settled, or the
\* step does not concern the readers.
LEMMA RowSteps ==
  ASSUME TypeInv, ReaderInv, [Next]_vars
  PROVE  \/ UNCHANGED <<status, log, answer>>
         \/ status = "none" /\ status' = "open" /\ UNCHANGED <<log, answer>>
         \/ status = "open" /\ status' \in {"open"} \cup Outcomes /\ log \subseteq log'
<1>1. CASE LeaseLapse
  BY <1>1 DEF LeaseLapse
<1>2. ASSUME NEW p \in Proc,
             \/ LaunchSpec(p) \/ LaunchFails(p) \/ StartRun(p) \/ Generate(p) \/ RunnerEnds(p)
             \/ RunnerStops(p) \/ FlushSpec(p) \/ FlushSend(p) \/ AppendReply(p) \/ SettleSend(p)
             \/ FinishReply(p) \/ RecordOutcome(p) \/ RenewTick(p) \/ Claim(p) \/ ClaimResume(p)
             \/ ClaimUnrunnable(p) \/ CancelFlag(p) \/ CancelHere(p) \/ SweepSpec(p) \/ Suspend(p)
             \/ SuspendFlushed(p) \/ SuspendRelease(p) \/ Die(p)
      PROVE  UNCHANGED <<status, log, answer>>
  BY <1>2 DEF LaunchSpec, LaunchFails, StartRun, Generate, RunnerEnds, RunnerStops, FlushSpec, FlushSend,
     AppendReply, SettleSend, FinishReply, RecordOutcome, RenewTick, Claim, ClaimResume, ClaimUnrunnable,
     CancelFlag, CancelHere, SweepSpec, Suspend, SuspendFlushed, SuspendRelease, Die, row
<1>3. ASSUME NEW p \in Proc, MarkDurable(p)
      PROVE  status = "none" /\ status' = "open" /\ UNCHANGED <<log, answer>>
  BY <1>3 DEF MarkDurable
<1>4. ASSUME NEW p \in Proc, Append(p)
      PROVE  \/ UNCHANGED <<status, log, answer>>
             \/ status = "open" /\ status' = "open" /\ log \subseteq log'
  BY <1>4 DEF Append, MayAppend, Open, row
<1>5. ASSUME NEW p \in Proc, Finish(p)
      PROVE  \/ UNCHANGED <<status, log, answer>>
             \/ status = "open" /\ status' \in Outcomes /\ log \subseteq log'
  <2>1. CallDecided(call[p]) /\ call[p].op = "finish"
    BY <1>5 DEF ReaderInv, Finish
  <2> QED BY <1>5, <2>1 DEF Finish, MayFinish, Open, SettledRow, row, CallDecided
<1>6. ASSUME NEW p \in Proc, SettleUnrunnable(p) \/ CancelElsewhere(p) \/ SweepUnread(p)
      PROVE  \/ UNCHANGED <<status, log, answer>>
             \/ status = "open" /\ status' \in Outcomes /\ log \subseteq log'
  <2>1. log' = log
    BY <1>6 DEF SettleUnrunnable, CancelElsewhere, SweepUnread
  <2>2. \/ UNCHANGED <<status, row>>
        \/ Open /\ \E goal \in {"failed", "cancelled"} : SettledRow(goal, {})
    BY <1>6 DEF SettleUnrunnable, CancelElsewhere, SweepUnread, MayFinish
  <2>3. CASE UNCHANGED <<status, row>>
    BY <2>1, <2>3 DEF row
  <2>4. CASE Open /\ \E goal \in {"failed", "cancelled"} : SettledRow(goal, {})
    BY <2>1, <2>4 DEF Open, SettledRow, Outcomes
  <2> QED BY <2>2, <2>3, <2>4
<1>7. CASE UNCHANGED vars
  BY <1>7 DEF vars
<1> QED BY <1>1, <1>2, <1>3, <1>4, <1>5, <1>6, <1>7 DEF Next

\* The owner changes when the lease is released or the run settled, when a
\* row is accepted, or when an open row with a free lease is claimed.
LEMMA OwnerSteps ==
  ASSUME TypeInv, [Next]_vars
  PROVE  \/ owner' \in {owner, None}
         \/ status = "none" /\ status' = "open"
         \/ Open /\ Free /\ UNCHANGED status
<1>1. CASE LeaseLapse
  BY <1>1 DEF LeaseLapse
<1>2. ASSUME NEW p \in Proc,
             \/ LaunchSpec(p) \/ LaunchFails(p) \/ StartRun(p) \/ Generate(p) \/ RunnerEnds(p)
             \/ RunnerStops(p) \/ FlushSpec(p) \/ FlushSend(p) \/ AppendReply(p) \/ SettleSend(p)
             \/ FinishReply(p) \/ RecordOutcome(p) \/ RenewTick(p) \/ ClaimResume(p)
             \/ ClaimUnrunnable(p) \/ CancelFlag(p) \/ CancelHere(p) \/ SweepSpec(p) \/ Suspend(p)
             \/ SuspendFlushed(p) \/ Die(p) \/ Append(p)
      PROVE  owner' = owner
  BY <1>2 DEF LaunchSpec, LaunchFails, StartRun, Generate, RunnerEnds, RunnerStops, FlushSpec, FlushSend,
     AppendReply, SettleSend, FinishReply, RecordOutcome, RenewTick, ClaimResume, ClaimUnrunnable,
     CancelFlag, CancelHere, SweepSpec, Suspend, SuspendFlushed, Die, Append, row
<1>3. ASSUME NEW p \in Proc, MarkDurable(p) PROVE status = "none" /\ status' = "open"
  BY <1>3 DEF MarkDurable
<1>4. ASSUME NEW p \in Proc, Claim(p) PROVE owner' = owner \/ (Open /\ Free /\ UNCHANGED status)
  BY <1>4 DEF Claim
<1>5. ASSUME NEW p \in Proc,
             Finish(p) \/ SettleUnrunnable(p) \/ CancelElsewhere(p) \/ SweepUnread(p) \/ SuspendRelease(p)
      PROVE  owner' \in {owner, None}
  <2>1. UNCHANGED row \/ owner' = None \/ UNCHANGED owner
    BY <1>5 DEF Finish, SettleUnrunnable, CancelElsewhere, SweepUnread, SuspendRelease, SettledRow
  <2> QED BY <2>1 DEF row
<1>6. CASE UNCHANGED vars
  BY <1>6 DEF vars
<1> QED BY <1>1, <1>2, <1>3, <1>4, <1>5, <1>6 DEF Next
-----------------------------------------------------------------------------
(* The invariant is kept.                                                   *)

RunsOK == \A p \in Proc : RunOK(run[p], log) /\ CallDecided(call[p])

\* A step of one process, which may make the log longer.
LEMMA OneReaderSteps ==
  ASSUME TypeInv, TypeInv', RunsOK, NEW p \in Proc, log \subseteq log',
         \A z \in Proc \ {p} : run'[z] = run[z] /\ call'[z] = call[z],
         RunOK(run'[p], log') \/ (run'[p] = run[p]),
         CallDecided(call'[p])
  PROVE  RunsOK'
<1>1. ASSUME NEW z \in Proc PROVE RunOK(run[z], log')
  <2>1. run[z] \in RunT /\ log \in Recs /\ log' \in Recs /\ RunOK(run[z], log)
    BY DEF TypeInv, RunsOK
  <2> QED BY <2>1, ShownOfMore DEF RunOK
<1>2. ASSUME NEW z \in Proc PROVE RunOK(run'[z], log') /\ CallDecided(call'[z])
  BY <1>1 DEF RunsOK
<1> QED BY <1>2 DEF RunsOK

\* A step that changes one Run and no call.
LEMMA OneRunEdited ==
  ASSUME TypeInv, TypeInv', RunsOK, NEW p \in Proc, NEW q, run' = [run EXCEPT ![p] = q],
         RunOK(q, log), UNCHANGED <<log, call>>
  PROVE  RunsOK'
<1>1. run'[p] = q /\ \A z \in Proc \ {p} : run'[z] = run[z] /\ call'[z] = call[z]
  BY DEF TypeInv
<1>2. CallDecided(call'[p])
  BY DEF RunsOK
<1> QED BY <1>1, <1>2, OneReaderSteps

LEMMA RunsUnchanged ==
  ASSUME RunsOK, UNCHANGED <<log, run, call>>
  PROVE  RunsOK'
BY DEF RunsOK

LEMMA RunsOKStep ==
  ASSUME TypeInv, TypeInv', NumberingInv, RunsOK, [Next]_vars
  PROVE  RunsOK'
<1>0. ASSUME NEW p \in Proc
      PROVE  /\ run[p] \in RunT /\ call[p] \in CallT /\ claiming[p] \in ClaimT
             /\ RunOK(run[p], log) /\ CallDecided(call[p])
             /\ ClaimedIsLogged(claiming[p], log) /\ (call[p].st = "ok" => call[p].recs \subseteq log)
  BY DEF TypeInv, NumberingInv, RunsOK, CallExtendsLog
<1>a. log \in Recs /\ RunOK(NoRun, log)
  BY NoRunOK DEF TypeInv
<1>b. ASSUME NEW p \in Proc
      PROVE  /\ RunOK(Restored(run[p]), log) /\ RunOK(LeaseLost(run[p]), log)
             /\ \A reason : RunOK(Stopped(run[p], reason), log)
             /\ \A reason : RunOK([Stopped(run[p], reason) EXCEPT !.leaving = TRUE], log)
             /\ RunOK([run[p] EXCEPT !.specw = TRUE], log)
             /\ RunOK([run[p] EXCEPT !.infl = run[p].pend, !.pend = {}], log)
             /\ \A goal \in Outcomes : RunOK(Settling(run[p], goal), log)
  <2> DEFINE r == run[p]
  <2>1. r \in RunT /\ RunOK(r, log)
    BY <1>0
  <2> HIDE DEF r
  <2>2. RunOK(Restored(r), log) /\ RunOK(LeaseLost(r), log)
    BY <2>1, QuietEdits, QuietOK
  <2>3. \A reason : RunOK(Stopped(r, reason), log)
    BY <2>1, QuietEdits, QuietOK
  <2>4. \A reason : RunOK([Stopped(r, reason) EXCEPT !.leaving = TRUE], log)
    BY <2>1, QuietEdits, QuietOK
  <2>5. /\ RunOK([r EXCEPT !.specw = TRUE], log)
        /\ RunOK([r EXCEPT !.infl = r.pend, !.pend = {}], log)
    BY <2>1, QuietEdits, QuietOK
  <2>6. \A goal \in Outcomes : RunOK(Settling(r, goal), log)
    BY <2>1, DecidedOK
  <2> QED BY <2>2, <2>3, <2>4, <2>5, <2>6 DEF r
<1>1. CASE LeaseLapse
  BY <1>1, RunsUnchanged DEF LeaseLapse
<1>2. ASSUME NEW p \in Proc,
             \/ MarkDurable(p) \/ LaunchSpec(p) \/ LaunchFails(p) \/ CancelFlag(p)
             \/ SweepUnread(p) \/ SweepSpec(p) \/ SuspendFlushed(p)
             \/ Claim(p) \/ ClaimUnrunnable(p) \/ SettleUnrunnable(p)
      PROVE  RunsOK'
  <2>1. UNCHANGED <<log, run, call>>
    BY <1>2 DEF MarkDurable, LaunchSpec, LaunchFails, CancelFlag, SweepUnread, SweepSpec, SuspendFlushed,
       Claim, ClaimUnrunnable, SettleUnrunnable
  <2> QED BY <2>1, RunsUnchanged
<1>3. ASSUME NEW p \in Proc, StartRun(p) PROVE RunsOK'
  <2> DEFINE r == NewRun(1, {}, Mode = "keyed")
  <2>1. r \in RunT /\ RunOK(r, log)
    BY <1>a, NewRunType, NewRunOK, RecsEmpty
  <2>2. run' = [run EXCEPT ![p] = WithCreated(r)] /\ UNCHANGED <<log, call>>
    BY <1>3 DEF StartRun
  <2> HIDE DEF r
  <2> QED BY <2>1, <2>2, QuietEdits, QuietOK, OneRunEdited
<1>4. ASSUME NEW p \in Proc, Generate(p) PROVE RunsOK'
  <2> DEFINE r == run[p]
             t == [pos |-> r.len + 1, by |-> r.n]
             q == [r EXCEPT !.assigned = @ + 1, !.len = @ + 1, !.text = @ \cup {t},
                            !.pend = @ \cup {Delta(r.assigned + 1, t)}]
  <2>1. run' = [run EXCEPT ![p] = q] /\ UNCHANGED <<log, call>>
    BY <1>4 DEF Generate
  <2>2. Quiet(r, q)
    BY <1>0 DEF Quiet, RunT, Run
  <2> HIDE DEF q
  <2> QED BY <1>0, <2>1, <2>2, QuietOK, OneRunEdited
<1>5. ASSUME NEW p \in Proc, RunnerEnds(p) PROVE RunsOK'
  <2>1. PICK goal \in Outcomes : run' = [run EXCEPT ![p] = Settling(run[p], goal)]
    BY <1>5 DEF RunnerEnds, Outcomes
  <2>2. UNCHANGED <<log, call>>
    BY <1>5 DEF RunnerEnds
  <2> QED BY <1>b, <2>1, <2>2, OneRunEdited
<1>6. ASSUME NEW p \in Proc, RunnerStops(p) PROVE RunsOK'
  <2> DEFINE ended == [run[p] EXCEPT !.pc = "end"]
  <2>1. RunOK(ended, log)
    BY <1>0 DEF RunOK, Shown, Decided, RunT, Run
  <2>2. \E q \in {ended, Settling(run[p], "cancelled"), Settling(run[p], "failed"), NoRun} :
           run' = [run EXCEPT ![p] = q]
    BY <1>6 DEF RunnerStops
  <2>3. RunOK(Settling(run[p], "cancelled"), log) /\ RunOK(Settling(run[p], "failed"), log)
    BY <1>b DEF Outcomes
  <2>4. UNCHANGED <<log, call>>
    BY <1>6 DEF RunnerStops
  <2> HIDE DEF ended
  <2> QED BY <1>a, <2>1, <2>2, <2>3, <2>4, OneRunEdited
<1>7. ASSUME NEW p \in Proc, FlushSpec(p) PROVE RunsOK'
  <2>1. run' = [run EXCEPT ![p] = [run[p] EXCEPT !.specw = TRUE]] /\ UNCHANGED <<log, call>>
    BY <1>7 DEF FlushSpec, TypeInv
  <2> QED BY <1>b, <2>1, OneRunEdited
<1>8. ASSUME NEW p \in Proc, FlushSend(p) \/ SettleSend(p) PROVE RunsOK'
  <2> DEFINE q == [run[p] EXCEPT !.infl = run[p].pend, !.pend = {}]
  <2>1. run' = [run EXCEPT ![p] = q] /\ UNCHANGED log
    BY <1>8 DEF FlushSend, SettleSend, TypeInv
  <2>2. CallDecided(call'[p]) /\ \A z \in Proc \ {p} : call'[z] = call[z]
    <3>1. CASE FlushSend(p)
      BY <3>1 DEF FlushSend, CallDecided, NoCall, TypeInv
    <3>2. CASE SettleSend(p)
      <4>1. run[p].goal \in Outcomes
        BY <1>0, <3>2 DEF SettleSend, RunOK, Decided
      <4> QED BY <3>2, <4>1 DEF SettleSend, CallDecided, TypeInv
    <3> QED BY <1>8, <3>1, <3>2
  <2>3. RunOK(q, log)
    BY <1>b
  <2> HIDE DEF q
  <2>4. run'[p] = q /\ \A z \in Proc \ {p} : run'[z] = run[z]
    BY <2>1 DEF TypeInv
  <2> QED BY <2>1, <2>2, <2>3, <2>4, OneReaderSteps
<1>9. ASSUME NEW p \in Proc, Append(p) \/ Finish(p) PROVE RunsOK'
  <2>1. UNCHANGED run /\ log \subseteq log'
    BY <1>9 DEF Append, Finish
  <2>2. \E st \in {"ok", "lost", "error"} : call' = [call EXCEPT ![p].st = st]
    BY <1>9 DEF Append, Finish
  <2>3. CallDecided(call'[p]) /\ \A z \in Proc \ {p} : call'[z] = call[z]
    BY <1>0, <2>2 DEF CallDecided, TypeInv, CallT, Call
  <2> QED BY <2>1, <2>3, OneReaderSteps
<1>10. ASSUME NEW p \in Proc, AppendReply(p) \/ FinishReply(p) PROVE RunsOK'
  <2> DEFINE r == run[p]
             c == call[p]
             settled == [Committed(r, c.recs) EXCEPT !.pc = "record", !.held = FALSE]
  <2>1. call' = [call EXCEPT ![p] = NoCall] /\ UNCHANGED log
    BY <1>10 DEF AppendReply, FinishReply
  <2>2. CallDecided(call'[p]) /\ \A z \in Proc \ {p} : call'[z] = call[z]
    BY <2>1 DEF CallDecided, NoCall, TypeInv
  <2>3. \/ run' = run
        \/ c.st = "ok" /\ \E q \in {Committed(r, c.recs), settled} : run' = [run EXCEPT ![p] = q]
        \/ \E q \in {Restored(r), LeaseLost(Restored(r)), NoRun} : run' = [run EXCEPT ![p] = q]
    BY <1>10 DEF AppendReply, FinishReply
  <2>4. r \in RunT /\ RunOK(r, log) /\ c.recs \in Recs /\ (c.st = "ok" => c.recs \subseteq log)
    BY <1>0 DEF CallT
  <2>5. run \in [Proc -> RunT]
    BY DEF TypeInv
  <2> HIDE DEF r, c
  <2>6. c.st = "ok" => RunOK(Committed(r, c.recs), log) /\ RunOK(settled, log)
    BY <1>a, <2>4, CommittedOK
  <2>7. RunOK(Restored(r), log) /\ RunOK(LeaseLost(Restored(r)), log)
    <3>1. Restored(r) \in RunT /\ RunOK(Restored(r), log)
      BY <2>4, RunStepTypes, QuietEdits, QuietOK
    <3> QED BY <3>1, QuietEdits, QuietOK
  <2> HIDE DEF settled
  <2>8. PICK q : (RunOK(q, log) /\ run' = [run EXCEPT ![p] = q]) \/ run' = run
    BY <1>a, <2>3, <2>6, <2>7
  <2>9. /\ \A z \in Proc \ {p} : run'[z] = run[z]
        /\ RunOK(run'[p], log') \/ run'[p] = run[p]
    BY <2>1, <2>5, <2>8
  <2>10. \A z \in Proc \ {p} : run'[z] = run[z] /\ call'[z] = call[z]
    BY <2>2, <2>9
  <2> QED BY <2>1, <2>2, <2>9, <2>10, OneReaderSteps
<1>11. ASSUME NEW p \in Proc,
              \/ RecordOutcome(p) \/ SuspendRelease(p) \/ RenewTick(p) \/ CancelHere(p)
              \/ CancelElsewhere(p) \/ Suspend(p)
       PROVE  RunsOK'
  <2> DEFINE r == run[p]
  <2>1. UNCHANGED <<log, call>>
    BY <1>11 DEF RecordOutcome, SuspendRelease, RenewTick, CancelHere, CancelElsewhere, Suspend
  <2>2. \/ run' = run
        \/ \E q \in {r, NoRun, LeaseLost(r), Stopped(r, "cancel"), Stopped(r, "revoked"),
                     [Stopped(r, "restart") EXCEPT !.leaving = TRUE]} : run' = [run EXCEPT ![p] = q]
    <3>1. CASE RecordOutcome(p) \/ SuspendRelease(p)
      BY <3>1 DEF RecordOutcome, SuspendRelease
    <3>2. CASE RenewTick(p)
      BY <3>2 DEF RenewTick, Ticked
    <3>3. CASE CancelHere(p) \/ CancelElsewhere(p)
      BY <3>3 DEF CancelHere, CancelElsewhere
    <3>4. CASE Suspend(p)
      BY <3>4 DEF Suspend
    <3> QED BY <1>11, <3>1, <3>2, <3>3, <3>4
  <2>3. /\ RunOK(r, log) /\ RunOK(LeaseLost(r), log) /\ RunOK(Stopped(r, "cancel"), log)
        /\ RunOK(Stopped(r, "revoked"), log)
        /\ RunOK([Stopped(r, "restart") EXCEPT !.leaving = TRUE], log)
    BY <1>0, <1>b
  <2> HIDE DEF r
  <2>4. PICK q : run' = run \/ (RunOK(q, log) /\ run' = [run EXCEPT ![p] = q])
    BY <1>a, <2>2, <2>3
  <2> QED BY <2>1, <2>4, OneRunEdited, RunsUnchanged
<1>12. ASSUME NEW p \in Proc, ClaimResume(p) PROVE RunsOK'
  <2> DEFINE k == claiming[p]
             r == NewRun(k.n, k.logged, TRUE)
  <2>1. k.logged \in Recs /\ k.logged \subseteq log /\ k.n \in Nat
    BY <1>0 DEF ClaimT, ClaimState, ClaimedIsLogged
  <2>2. /\ UNCHANGED <<log, call>>
        /\ \E q \in {Settling(r, "cancelled"), Settling(r, "failed"), WithCreated(r), r} :
             run' = [run EXCEPT ![p] = q]
    BY <1>12 DEF ClaimResume
  <2>3. r \in RunT /\ RunOK(r, log)
    BY <1>a, <2>1, NewRunType, NewRunOK
  <2> HIDE DEF r
  <2>4. RunOK(Settling(r, "cancelled"), log) /\ RunOK(Settling(r, "failed"), log)
    BY <2>3, DecidedOK DEF Outcomes
  <2>5. RunOK(WithCreated(r), log)
    BY <2>3, QuietEdits, QuietOK
  <2> QED BY <2>2, <2>3, <2>4, <2>5, OneRunEdited
<1>13. ASSUME NEW p \in Proc, Die(p) PROVE RunsOK'
  <2>1. /\ UNCHANGED log /\ run'[p] = NoRun /\ call'[p] = NoCall
        /\ \A z \in Proc \ {p} : run'[z] = run[z] /\ call'[z] = call[z]
    BY <1>13 DEF Die, TypeInv
  <2>2. CallDecided(call'[p])
    BY <2>1 DEF CallDecided, NoCall
  <2> QED BY <1>a, <2>1, <2>2, OneReaderSteps
<1>14. CASE UNCHANGED vars
  BY <1>14, RunsUnchanged DEF vars
<1> QED BY <1>1, <1>2, <1>3, <1>4, <1>5, <1>6, <1>7, <1>8, <1>9, <1>10, <1>11, <1>12, <1>13, <1>14
        DEF Next

LEMMA InvInit == Init => Inv
<1> SUFFICES ASSUME Init PROVE Inv
  OBVIOUS
<1>1. TypeInv /\ NumberingInv
  BY TypeInit, NumberingInit
<1>2. RunOK(NoRun, log) /\ CallDecided(NoCall)
  BY <1>1, NoRunOK DEF TypeInv, CallDecided, NoCall
<1>3. ReaderInv
  BY <1>2 DEF Init, ReaderInv, RunOK
<1> QED BY <1>1, <1>3 DEF Inv

LEMMA InvStep == Inv /\ [Next]_vars => Inv'
<1> SUFFICES ASSUME Inv, [Next]_vars PROVE Inv'
  OBVIOUS
<1>1. TypeInv' /\ NumberingInv'
  BY TypeStep, NumberingStep DEF Inv
<1>2. RunsOK
  BY DEF Inv, ReaderInv, RunsOK, RunOK
<1>3. RunsOK'
  BY <1>1, <1>2, RunsOKStep DEF Inv
<1>4. status' = "none" => owner' = None
  <2>1. status' = "none" => status = "none" /\ UNCHANGED status
    BY RowSteps DEF Inv, Outcomes
  <2> QED BY <2>1, OwnerSteps DEF Inv, ReaderInv, Open
<1>5. ReaderInv'
  BY <1>3, <1>4 DEF ReaderInv, RunsOK, RunOK
<1> QED BY <1>1, <1>5 DEF Inv

-----------------------------------------------------------------------------
(* The theorems.                                                            *)

\* Types, the writers' numbers and what the readers see hold together: the
\* invariant the theorems below rest on.
THEOREM InvCorrect == Spec => []Inv
BY InvInit, InvStep, PTL DEF Spec

\* What a process shows its local readers is in the log: its crash takes
\* back nothing they have seen.
THEOREM ShownIsCommitted == Spec => []WriteAhead
<1>1. Inv => WriteAhead
  BY DEF Inv, ReaderInv, Shown, WriteAhead
<1> QED BY <1>1, InvCorrect, PTL

\* No step of any process changes the outcome, the log or the answer of a
\* settled response.
THEOREM SettledStays == Spec => SettledForGood
<1>1. Inv /\ [Next]_vars
        => [(status \in Outcomes) => status' = status /\ log' = log /\ answer' = answer]_vars
  BY RowSteps DEF Inv, Outcomes
<1> QED BY <1>1, InvCorrect, PTL DEF Spec, SettledForGood

\* A live lease stays with its owner until it is released, lapses or the
\* response is settled.
THEOREM LeaseKept == Spec => NoLeaseTheft
<1>1. Inv /\ [Next]_vars => [owner # None /\ live => owner' \in {owner, None}]_vars
  <2> SUFFICES ASSUME Inv, [Next]_vars, owner # None, live PROVE owner' \in {owner, None}
    OBVIOUS
  <2> QED BY OwnerSteps DEF Inv, ReaderInv, Free
<1> QED BY <1>1, InvCorrect, PTL DEF Spec, NoLeaseTheft

\* Whatever the processes do, the readers see a response of ResponseLog.
THEOREM Implements == Spec => ReadersView
<1>1. Init => Readers!LogInit
  BY DEF Init, Readers!LogInit
<1>2. Inv /\ Inv' /\ [Next]_vars => [Readers!LogNext]_<<log, status>>
  <2> SUFFICES ASSUME Inv, Inv', [Next]_vars PROVE [Readers!LogNext]_<<log, status>>
    OBVIOUS
  <2>1. Readers!Numbered(log')
    BY DEF Inv, NumberingInv, Numbered, Unique, Dense, Readers!Numbered, Readers!Unique, Readers!Dense
  <2>2. CASE UNCHANGED <<status, log, answer>>
    BY <2>2
  <2>3. CASE status = "none" /\ status' = "open" /\ UNCHANGED <<log, answer>>
    BY <2>3 DEF Readers!LogNext, Readers!Accept
  <2>4. CASE status = "open" /\ status' \in {"open"} \cup Outcomes /\ log \subseteq log'
    <3>1. Readers!Extended
      BY <2>1, <2>4 DEF Readers!Extended
    <3>2. Readers!Publish \/ Readers!Settle
      BY <2>4, <3>1 DEF Readers!Publish, Readers!Settle, Outcomes, Readers!Outcomes
    <3> QED BY <3>2 DEF Readers!LogNext
  <2> QED BY <2>2, <2>3, <2>4, RowSteps DEF Inv
<1> QED BY <1>1, <1>2, InvCorrect, PTL DEF Spec, ReadersView, Readers!LogSpec

-----------------------------------------------------------------------------
(* The recorder. A durable response is recorded at most once and its        *)
(* webhook queued at most once, whoever thought to settle it.               *)

\* The settlement is known to be this process's: the answer of its finish
\* says so, or its recorder is next.
Told(p) == call[p].op = "finish" /\ call[p].st = "ok"
Recording(p) == run[p].pc = "record"

\* One process is told, and nothing is recorded before it does it.
RecorderInv ==
  /\ recorded \in {0, 1} /\ webhooks \in {0, 1}
  /\ recorded = 1 \/ webhooks = 1 => status \in Outcomes
  /\ \A p \in Proc :
       /\ Told(p) \/ Recording(p) => status \in Outcomes /\ recorded = 0 /\ webhooks = 0
       /\ ~(Told(p) /\ Recording(p))
       /\ \A q \in Proc : (Told(p) \/ Recording(p)) /\ (Told(q) \/ Recording(q)) => p = q

\* Being told becomes recording, and neither comes from nowhere.
Inherits(p) == /\ Told(p)' => Told(p)
               /\ Recording(p)' => Recording(p) \/ (Told(p) /\ ~Told(p)')

\* The edits of a Run that do not start a recorder.
LEMMA EditsDoNotRecord ==
  ASSUME NEW r \in RunT
  PROVE  /\ WithCreated(r).pc = r.pc /\ Restored(r).pc = r.pc /\ LeaseLost(r).pc = r.pc
         /\ \A reason : Stopped(r, reason).pc = r.pc
         /\ \A reason : [Stopped(r, reason) EXCEPT !.leaving = TRUE].pc = r.pc
         /\ \A goal : Settling(r, goal).pc = "settle"
         /\ \A recs : Committed(r, recs).pc = r.pc
<1>1. WithCreated(r).pc = r.pc /\ Restored(r).pc = r.pc /\ LeaseLost(r).pc = r.pc
  BY DEF WithCreated, Restored, LeaseLost, Stopped, RunT, Run
<1>2. ASSUME NEW reason
      PROVE  Stopped(r, reason).pc = r.pc /\ [Stopped(r, reason) EXCEPT !.leaving = TRUE].pc = r.pc
  BY DEF Stopped, RunT, Run
<1>3. ASSUME NEW goal PROVE Settling(r, goal).pc = "settle"
  BY DEF Settling, RunT, Run
<1>4. ASSUME NEW recs PROVE Committed(r, recs).pc = r.pc
  BY DEF Committed, RunT, Run
<1> QED BY <1>1, <1>2, <1>3, <1>4

LEMMA FreshRuns == NoRun.pc = "none" /\ \A n, logged, w : NewRun(n, logged, w).pc = "run"
BY DEF NewRun, RunAt, NoRun

\* A step that edits one Run without starting a recorder, and at most drops
\* or sends the call of that process.
LEMMA OneRunInherits ==
  ASSUME TypeInv, NEW p \in Proc, NEW q, run' = [run EXCEPT ![p] = q],
         q.pc = "record" => run[p].pc = "record", UNCHANGED call
  PROVE  \A z \in Proc : Inherits(z)
<1>1. run'[p] = q /\ \A z \in Proc \ {p} : run'[z] = run[z]
  BY DEF TypeInv
<1> QED BY <1>1 DEF Inherits, Told, Recording

LEMMA InheritsStep ==
  ASSUME TypeInv, [Next]_vars, ~(\E p \in Proc : Finish(p))
  PROVE  \A z \in Proc : Inherits(z)
<1>0. ASSUME NEW p \in Proc PROVE run[p] \in RunT /\ call[p] \in CallT
  BY DEF TypeInv
<1>1. CASE LeaseLapse
  BY <1>1 DEF LeaseLapse, Inherits, Told, Recording
<1>2. ASSUME NEW p \in Proc,
             \/ MarkDurable(p) \/ LaunchSpec(p) \/ LaunchFails(p) \/ CancelFlag(p)
             \/ SweepUnread(p) \/ SweepSpec(p) \/ SuspendFlushed(p)
             \/ Claim(p) \/ ClaimUnrunnable(p) \/ SettleUnrunnable(p)
      PROVE  \A z \in Proc : Inherits(z)
  <2>1. UNCHANGED <<run, call>>
    BY <1>2 DEF MarkDurable, LaunchSpec, LaunchFails, CancelFlag, SweepUnread, SweepSpec, SuspendFlushed,
       Claim, ClaimUnrunnable, SettleUnrunnable
  <2> QED BY <2>1 DEF Inherits, Told, Recording
<1>3. ASSUME NEW p \in Proc,
             \/ StartRun(p) \/ Generate(p) \/ RunnerEnds(p) \/ RunnerStops(p) \/ FlushSpec(p)
             \/ RecordOutcome(p) \/ RenewTick(p) \/ ClaimResume(p) \/ CancelHere(p)
             \/ CancelElsewhere(p) \/ Suspend(p) \/ SuspendRelease(p)
      PROVE  \A z \in Proc : Inherits(z)
  <2> DEFINE r == run[p]
             Harmless(q) == q.pc = "record" => r.pc = "record"
  <2>1. UNCHANGED call
    BY <1>3 DEF StartRun, Generate, RunnerEnds, RunnerStops, FlushSpec, RecordOutcome, RenewTick,
       ClaimResume, CancelHere, CancelElsewhere, Suspend, SuspendRelease
  <2>2. PICK q : run' = run \/ (Harmless(q) /\ run' = [run EXCEPT ![p] = q])
    <3>1. CASE StartRun(p)
      <4> DEFINE q == NewRun(1, {}, Mode = "keyed")
      <4>0. q \in RunT
        BY NewRunType, RecsEmpty
      <4>1. q \in RunT /\ q.pc = "run"
        BY <4>0 DEF NewRun, RunAt, NoRun
      <4>2. run' = [run EXCEPT ![p] = WithCreated(q)]
        BY <3>1 DEF StartRun
      <4> HIDE DEF q
      <4> QED BY <4>1, <4>2, EditsDoNotRecord
    <3>2. CASE Generate(p)
      <4> DEFINE t == [pos |-> r.len + 1, by |-> r.n]
                 q == [r EXCEPT !.assigned = @ + 1, !.len = @ + 1, !.text = @ \cup {t},
                                !.pend = @ \cup {Delta(r.assigned + 1, t)}]
      <4>1. q.pc = r.pc
        BY <1>0 DEF RunT, Run
      <4>2. run' = [run EXCEPT ![p] = q]
        BY <3>2 DEF Generate
      <4> HIDE DEF q
      <4> QED BY <4>1, <4>2
    <3>3. CASE RunnerEnds(p)
      BY <1>0, <3>3, EditsDoNotRecord DEF RunnerEnds
    <3>4. CASE RunnerStops(p)
      <4> DEFINE ended == [r EXCEPT !.pc = "end"]
      <4>1. ended.pc = "end"
        BY <1>0 DEF RunT, Run
      <4>2. \E q \in {ended, Settling(r, "cancelled"), Settling(r, "failed"), NoRun} :
               run' = [run EXCEPT ![p] = q]
        BY <3>4 DEF RunnerStops
      <4> HIDE DEF ended
      <4> QED BY <1>0, <4>1, <4>2, EditsDoNotRecord, FreshRuns
    <3>5. CASE FlushSpec(p)
      <4> DEFINE q == [r EXCEPT !.specw = TRUE]
      <4>1. q.pc = r.pc
        BY <1>0 DEF RunT, Run
      <4>2. run' = [run EXCEPT ![p] = q]
        BY <3>5 DEF FlushSpec, TypeInv
      <4> QED BY <4>1, <4>2
    <3>6. CASE RecordOutcome(p) \/ SuspendRelease(p)
      BY <3>6, FreshRuns DEF RecordOutcome, SuspendRelease
    <3>7. CASE RenewTick(p) \/ CancelHere(p) \/ CancelElsewhere(p) \/ Suspend(p)
      <4>1. \/ run' = run
            \/ \E q \in {r, LeaseLost(r), Stopped(r, "cancel"), Stopped(r, "revoked"),
                         [Stopped(r, "restart") EXCEPT !.leaving = TRUE]} : run' = [run EXCEPT ![p] = q]
        <5>1. CASE RenewTick(p)
          BY <5>1 DEF RenewTick, Ticked
        <5>2. CASE CancelHere(p) \/ CancelElsewhere(p)
          BY <5>2 DEF CancelHere, CancelElsewhere
        <5>3. CASE Suspend(p)
          BY <5>3 DEF Suspend
        <5> QED BY <3>7, <5>1, <5>2, <5>3
      <4>2. \A q \in {r, LeaseLost(r), Stopped(r, "cancel"), Stopped(r, "revoked"),
                      [Stopped(r, "restart") EXCEPT !.leaving = TRUE]} : q.pc = r.pc
        <5> DEFINE left == [Stopped(r, "restart") EXCEPT !.leaving = TRUE]
        <5>1. r \in RunT
          BY <1>0
        <5> HIDE DEF r
        <5>2. LeaseLost(r).pc = r.pc /\ Stopped(r, "cancel").pc = r.pc /\ Stopped(r, "revoked").pc = r.pc
          BY <5>1, EditsDoNotRecord
        <5>3. left.pc = r.pc
          BY <5>1, EditsDoNotRecord
        <5> HIDE DEF left
        <5>4. \A q \in {r, LeaseLost(r), Stopped(r, "cancel"), Stopped(r, "revoked"), left} : q.pc = r.pc
          BY <5>2, <5>3
        <5> QED BY <5>4 DEF left, r
      <4> QED BY <4>1, <4>2
    <3>8. CASE ClaimResume(p)
      <4> DEFINE k == claiming[p]
                 s == NewRun(k.n, k.logged, TRUE)
      <4>0. k.n \in Nat /\ k.logged \in Recs
        BY DEF TypeInv, ClaimT, ClaimState
      <4>1. s \in RunT /\ s.pc = "run"
        BY <4>0, NewRunType, FreshRuns
      <4>2. \E q \in {Settling(s, "cancelled"), Settling(s, "failed"), WithCreated(s), s} :
               run' = [run EXCEPT ![p] = q]
        BY <3>8 DEF ClaimResume
      <4> HIDE DEF s
      <4>3. \A q \in {Settling(s, "cancelled"), Settling(s, "failed"), WithCreated(s), s} : q.pc # "record"
        BY <4>1, EditsDoNotRecord
      <4> QED BY <4>2, <4>3
    <3> QED BY <1>3, <3>1, <3>2, <3>3, <3>4, <3>5, <3>6, <3>7, <3>8
  <2>3. CASE run' = run
    BY <2>1, <2>3 DEF Inherits, Told, Recording
  <2> QED BY <2>1, <2>2, <2>3, OneRunInherits
<1>4. ASSUME NEW p \in Proc, FlushSend(p) \/ SettleSend(p) PROVE \A z \in Proc : Inherits(z)
  <2> DEFINE q == [run[p] EXCEPT !.infl = run[p].pend, !.pend = {}]
  <2>1. run' = [run EXCEPT ![p] = q] /\ q.pc = run[p].pc
    BY <1>0, <1>4 DEF FlushSend, SettleSend, TypeInv, RunT, Run
  <2>2. call'[p].st = "sent" /\ \A z \in Proc \ {p} : call'[z] = call[z]
    <3>1. CASE FlushSend(p)
      BY <3>1 DEF FlushSend, NoCall, TypeInv
    <3>2. CASE SettleSend(p)
      BY <3>2 DEF SettleSend, TypeInv
    <3> QED BY <1>4, <3>1, <3>2
  <2> HIDE DEF q
  <2>3. run'[p].pc = run[p].pc /\ \A z \in Proc \ {p} : run'[z] = run[z]
    BY <2>1 DEF TypeInv
  <2> QED BY <2>2, <2>3 DEF Inherits, Told, Recording
<1>5. ASSUME NEW p \in Proc, Append(p) PROVE \A z \in Proc : Inherits(z)
  <2>1. UNCHANGED run /\ call[p].op = "append"
    BY <1>5 DEF Append
  <2>2. \E st \in {"ok", "lost", "error"} : call' = [call EXCEPT ![p].st = st]
    BY <1>5 DEF Append
  <2>3. call'[p].op = "append" /\ \A z \in Proc \ {p} : call'[z] = call[z]
    BY <2>1, <2>2 DEF TypeInv, CallT, Call
  <2> QED BY <2>1, <2>3 DEF Inherits, Told, Recording
<1>6. ASSUME NEW p \in Proc, AppendReply(p) \/ FinishReply(p) PROVE \A z \in Proc : Inherits(z)
  <2> DEFINE r == run[p]
             c == call[p]
  <2>1. call'[p] = NoCall /\ \A z \in Proc \ {p} : call'[z] = call[z]
    BY <1>6 DEF AppendReply, FinishReply, TypeInv
  <2>2. \/ run' = run
        \/ \E q \in {Committed(r, c.recs), Restored(r), LeaseLost(Restored(r)), NoRun} :
              run' = [run EXCEPT ![p] = q]
        \/ Told(p) /\ \E q : run' = [run EXCEPT ![p] = q]
    BY <1>6 DEF AppendReply, FinishReply, Told
  <2>3. r \in RunT
    BY <1>0
  <2>4. run \in [Proc -> RunT] /\ r = run[p]
    BY DEF TypeInv
  <2> HIDE DEF r, c
  <2>5. Restored(r) \in RunT /\ LeaseLost(Restored(r)).pc = r.pc
    BY <2>3, RunStepTypes, EditsDoNotRecord
  <2>6. \A q \in {Committed(r, c.recs), Restored(r), LeaseLost(Restored(r)), NoRun} :
           q.pc = r.pc \/ q.pc = "none"
    BY <2>3, <2>5, EditsDoNotRecord, FreshRuns
  <2>7. /\ \A z \in Proc \ {p} : run'[z] = run[z]
        /\ run'[p].pc \in {r.pc, "none"} \/ Told(p)
    BY <2>2, <2>4, <2>6
  <2>8. ~Told(p)'
    BY <2>1 DEF Told, NoCall
  <2> QED BY <2>1, <2>4, <2>7, <2>8 DEF Inherits, Told, Recording
<1>7. ASSUME NEW p \in Proc, Die(p) PROVE \A z \in Proc : Inherits(z)
  BY <1>7 DEF Die, TypeInv, Inherits, Told, Recording, NoRun, NoCall
<1>8. CASE UNCHANGED vars
  BY <1>8 DEF vars, Inherits, Told, Recording
<1> QED BY <1>1, <1>2, <1>3, <1>4, <1>5, <1>6, <1>7, <1>8 DEF Next

LEMMA RecorderInit == Init => RecorderInv
BY DEF Init, RecorderInv, Told, Recording, NoRun, NoCall

LEMMA RecorderStep ==
  ASSUME Inv, RecorderInv, [Next]_vars
  PROVE  RecorderInv'
<1>0. TypeInv /\ ReaderInv
  BY DEF Inv
<1>1. status \in Outcomes => status' \in Outcomes
  BY <1>0, RowSteps DEF Outcomes
<1>2. ASSUME NEW p \in Proc, Finish(p) PROVE RecorderInv'
  <2>1. UNCHANGED <<run, recorded, webhooks>>
    BY <1>2 DEF Finish
  <2>2. (\A z \in Proc \ {p} : call'[z] = call[z]) /\ call[p].st = "sent"
    BY <1>2 DEF Finish, TypeInv, Inv
  <2>3. call'[p].st = "ok" => status = "open" /\ status' \in Outcomes
    <3>1. call[p].op = "finish" /\ call[p].goal \in Outcomes
      BY <1>0, <1>2 DEF Finish, ReaderInv, CallDecided
    <3>2. \/ status = "open" /\ status' = call[p].goal
          \/ \E st \in {"lost", "error"} : call' = [call EXCEPT ![p].st = st]
      BY <1>2 DEF Finish, MayFinish, Open, SettledRow
    <3> QED BY <1>0, <3>1, <3>2 DEF TypeInv, CallT, Call
  <2>4. CASE call'[p].st = "ok"
    <3>1. \A z \in Proc : ~Told(z) /\ ~Recording(z)
      BY <2>3, <2>4 DEF RecorderInv, Outcomes
    <3>2. recorded = 0 /\ webhooks = 0
      BY <2>3, <2>4 DEF RecorderInv, Outcomes
    <3>3. \A z \in Proc : ~Recording(z)' /\ (Told(z)' => z = p)
      BY <2>1, <2>2, <3>1 DEF Told, Recording
    <3> QED BY <2>1, <2>3, <2>4, <3>2, <3>3 DEF RecorderInv
  <2>5. CASE call'[p].st # "ok"
    <3>1. \A z \in Proc : (Told(z)' => Told(z)) /\ (Recording(z)' => Recording(z))
      BY <2>1, <2>2, <2>5 DEF Told, Recording
    <3> QED BY <1>1, <2>1, <3>1 DEF RecorderInv
  <2> QED BY <2>4, <2>5
<1>3. ASSUME NEW p \in Proc, RecordOutcome(p) PROVE RecorderInv'
  <2>1. /\ Recording(p) /\ UNCHANGED <<status, call>> /\ recorded' = recorded + 1
        /\ run' = [run EXCEPT ![p] = NoRun]
    BY <1>3 DEF RecordOutcome, Recording
  <2>2. webhooks' \in {webhooks, webhooks + 1}
    BY <1>3 DEF RecordOutcome
  <2>3. status \in Outcomes /\ recorded = 0 /\ webhooks = 0 /\ ~Told(p)
    BY <2>1 DEF RecorderInv
  <2>4. \A z \in Proc : ~Told(z)' /\ ~Recording(z)'
    <3>1. \A z \in Proc \ {p} : ~Told(z) /\ ~Recording(z)
      BY <2>1 DEF RecorderInv
    <3>2. run'[p].pc = "none" /\ \A z \in Proc \ {p} : run'[z] = run[z]
      BY <1>0, <2>1 DEF TypeInv, NoRun
    <3> QED BY <2>1, <2>3, <3>1, <3>2 DEF Told, Recording
  <2> QED BY <2>1, <2>2, <2>3, <2>4 DEF RecorderInv
<1>4. ASSUME NEW p \in Proc, CancelElsewhere(p), webhooks' # webhooks PROVE RecorderInv'
  <2>1. /\ status = "open" /\ status' = "cancelled" /\ webhooks' = webhooks + 1
        /\ UNCHANGED <<run, call, recorded>>
    BY <1>4 DEF CancelElsewhere, MayFinish, Open, SettledRow
  <2>2. recorded = 0 /\ webhooks = 0 /\ \A z \in Proc : ~Told(z) /\ ~Recording(z)
    BY <2>1 DEF RecorderInv, Outcomes
  <2> QED BY <2>1, <2>2 DEF RecorderInv, Told, Recording, Outcomes
<1>5. ASSUME ~(\E p \in Proc : Finish(p)), UNCHANGED <<recorded, webhooks>> PROVE RecorderInv'
  <2>1. \A z \in Proc : Inherits(z)
    BY <1>0, <1>5, InheritsStep
  <2> QED BY <1>1, <1>5, <2>1 DEF RecorderInv, Inherits
<1>6. \/ UNCHANGED <<recorded, webhooks>>
      \/ \E p \in Proc : RecordOutcome(p)
      \/ \E p \in Proc : CancelElsewhere(p) /\ webhooks' # webhooks
  <2>1. CASE LeaseLapse \/ UNCHANGED vars
    BY <2>1 DEF LeaseLapse, vars
  <2>2. ASSUME NEW p \in Proc,
               \/ MarkDurable(p) \/ LaunchSpec(p) \/ LaunchFails(p) \/ StartRun(p)
               \/ Generate(p) \/ RunnerEnds(p) \/ RunnerStops(p)
               \/ FlushSpec(p) \/ FlushSend(p) \/ Append(p) \/ AppendReply(p)
               \/ SettleSend(p) \/ Finish(p) \/ FinishReply(p)
               \/ RenewTick(p) \/ Claim(p) \/ ClaimResume(p) \/ ClaimUnrunnable(p) \/ SettleUnrunnable(p)
               \/ CancelFlag(p) \/ CancelHere(p) \/ SweepUnread(p) \/ SweepSpec(p)
               \/ Suspend(p) \/ SuspendFlushed(p) \/ SuspendRelease(p) \/ Die(p)
        PROVE  UNCHANGED <<recorded, webhooks>>
    BY <2>2 DEF MarkDurable, LaunchSpec, LaunchFails, StartRun, Generate, RunnerEnds, RunnerStops,
       FlushSpec, FlushSend, Append, AppendReply, SettleSend, Finish, FinishReply, RenewTick, Claim,
       ClaimResume, ClaimUnrunnable, SettleUnrunnable, CancelFlag, CancelHere, SweepUnread, SweepSpec,
       Suspend, SuspendFlushed, SuspendRelease, Die
  <2>3. ASSUME NEW p \in Proc, CancelElsewhere(p) PROVE UNCHANGED recorded
    BY <2>3 DEF CancelElsewhere
  <2> QED BY <2>1, <2>2, <2>3 DEF Next
<1> QED BY <1>2, <1>3, <1>4, <1>5, <1>6

\* At most one process knows of an unrecorded settlement (Runtime._record).
THEOREM RecorderInvCorrect == Spec => []RecorderInv
<1>1. Inv /\ RecorderInv /\ [Next]_vars => RecorderInv'
  BY RecorderStep
<1> QED BY <1>1, RecorderInit, InvCorrect, PTL DEF Spec

\* Usage, the idempotency claim and the webhook of a response are recorded
\* at most once, and only when it is settled.
THEOREM RecordedAtMostOnce == Spec => []RecordedOnce
<1>1. RecorderInv => RecordedOnce
  BY DEF RecorderInv, RecordedOnce
<1> QED BY <1>1, RecorderInvCorrect, PTL

\* A background response's webhook is queued at most once, by the recorder
\* or by the cancel of a response nobody held.
THEOREM WebhookAtMostOnce == Spec => []WebhookOnce
<1>1. RecorderInv => WebhookOnce
  BY DEF RecorderInv, WebhookOnce
<1> QED BY <1>1, RecorderInvCorrect, PTL

-----------------------------------------------------------------------------
(* The text. A run either continues the text of the log, or another    *)
(* writer has taken a number of its own and whatever it sends is refused.   *)

\* The deltas are numbered in the order of the places of the answer.
OrderedText(S) ==
  \A d \in Deltas(S) : d.tok.pos = Cardinality({e \in Deltas(S) : e.seq <= d.seq})

\* A number this Run gave is another writer's record in the log.
Behind(r, c, L) ==
  \/ r.assigned < LastSeq(L)
  \/ \E x \in r.pend \cup r.fin : x.seq \in Seqs(L)
  \/ c.st # "ok" /\ \E x \in r.infl : x.seq \in Seqs(L)

\* Its text is that of the log with what it holds back.
Held(r, L) == L \cup r.pend \cup r.infl
Continues(r, L) ==
  OrderedText(Held(r, L)) /\ Text(Held(r, L)) = r.text /\ r.len = Cardinality(Deltas(Held(r, L)))

RunTextFits(r, c, L) ==
  /\ \A x \in r.pend \cup r.infl : x.ev # "done"
  /\ r.fin # {} => r.goal \in {"completed", "failed"}
  /\ r.infl # {} => c.recs = r.infl \cup (IF c.op = "finish" THEN r.fin ELSE {})
  /\ r.pc \in {"run", "settle", "end"} => Behind(r, c, L) \/ Continues(r, L)

\* What settling with these records makes of the log and of the answer.
SettlesFit(c, L) ==
  \A d \in c.recs : d.ev = "done" =>
    /\ c.goal \in {"completed", "failed"} /\ c.text = Text(L \cup c.recs)
    /\ d.seq = LastSeq(L \cup c.recs)

CallTextFits(c, L) ==
  /\ c.op = "append" => \A x \in c.recs : x.ev # "done"
  /\ c.st = "sent" /\ c.recs # {} /\ NoConflict(L, c.recs) => OrderedText(L \cup c.recs) /\ SettlesFit(c, L)

LogText == TextNeverRegenerated /\ AnswerIsTheLog
WritersText == \A p \in Proc : RunTextFits(run[p], call[p], log) /\ CallTextFits(call[p], log)

-----------------------------------------------------------------------------
(* Ordered texts.                                                           *)

\* Only the deltas count.
LEMMA SameDeltas ==
  ASSUME NEW S, NEW T, Deltas(S) = Deltas(T)
  PROVE  (OrderedText(S) <=> OrderedText(T)) /\ Text(S) = Text(T)
BY DEF OrderedText, Text

LEMMA NoDeltas ==
  ASSUME NEW S, NEW T, \A x \in T : x.ev # "delta"
  PROVE  Deltas(S \cup T) = Deltas(S)
BY DEF Deltas

LEMMA DeltasFinite ==
  ASSUME NEW S \in Recs
  PROVE  IsFiniteSet(Deltas(S)) /\ Cardinality(Deltas(S)) \in Nat
BY FS_Subset, FS_CardinalityType DEF Deltas, Recs

\* The next token has the next place.
LEMMA TextExtended ==
  ASSUME NEW S \in Recs, OrderedText(S), NEW x \in Record, x.ev = "delta",
         \A y \in S : y.seq < x.seq, x.tok.pos = Cardinality(Deltas(S)) + 1
  PROVE  /\ OrderedText(S \cup {x}) /\ Text(S \cup {x}) = Text(S) \cup {x.tok}
         /\ Cardinality(Deltas(S \cup {x})) = Cardinality(Deltas(S)) + 1
<1> DEFINE D == Deltas(S)
<1>1. Deltas(S \cup {x}) = D \cup {x}
  BY DEF Deltas
<1>2. \A y \in D : y.seq \in Nat /\ y.seq < x.seq
  BY DEF Deltas, Recs, Record
<1>3. x.seq \in Nat /\ x \notin D
  BY <1>2 DEF Record
<1>4. IsFiniteSet(D) /\ Cardinality(D) \in Nat
  BY DeltasFinite
<1>5. Cardinality(D \cup {x}) = Cardinality(D) + 1
  BY <1>3, <1>4, FS_AddElement
<1>6. \A d \in D : d.tok.pos = Cardinality({e \in D : e.seq <= d.seq})
  BY DEF OrderedText
<1> HIDE DEF D
<1>7. ASSUME NEW d \in D PROVE {e \in D \cup {x} : e.seq <= d.seq} = {e \in D : e.seq <= d.seq}
  BY <1>2, <1>3
<1>8. {e \in D \cup {x} : e.seq <= x.seq} = D \cup {x}
  BY <1>2, <1>3
<1>9. x.tok.pos = Cardinality(D \cup {x})
  BY <1>5 DEF D
<1>10. OrderedText(S \cup {x})
  <2>1. ASSUME NEW d \in D \cup {x}
        PROVE  d.tok.pos = Cardinality({e \in D \cup {x} : e.seq <= d.seq})
    <3>1. CASE d \in D
      BY <1>6, <1>7, <3>1
    <3>2. CASE d = x
      BY <1>8, <1>9, <3>2
    <3> QED BY <3>1, <3>2
  <2> QED BY <1>1, <2>1 DEF OrderedText
<1>11. Text(S \cup {x}) = Text(S) \cup {x.tok}
  BY <1>1 DEF Text, D
<1> QED BY <1>1, <1>5, <1>10, <1>11 DEF D

\* Two places of a list have different numbers of records up to them.
LEMMA PlacesDiffer ==
  ASSUME NEW D, IsFiniteSet(D), \A x \in D : x.seq \in Nat, NEW d \in D, NEW e \in D, d.seq <= e.seq,
         Cardinality({x \in D : x.seq <= d.seq}) = Cardinality({x \in D : x.seq <= e.seq})
  PROVE  d.seq = e.seq
<1> DEFINE A == {x \in D : x.seq <= d.seq}
           B == {x \in D : x.seq <= e.seq}
<1>1. A \subseteq B
  OBVIOUS
<1>2. IsFiniteSet(B) /\ e \in B
  BY FS_Subset
<1>3. A = B
  <2>1. Cardinality(A) = Cardinality(B)
    OBVIOUS
  <2> HIDE DEF A, B
  <2> QED BY <1>1, <1>2, <2>1, FS_Subset
<1>4. e.seq <= d.seq
  <2>1. e \in A
    BY <1>2, <1>3
  <2> QED BY <2>1
<1> QED BY <1>4

\* No token is in an ordered text twice.
LEMMA TokensDiffer ==
  ASSUME NEW S \in Recs, Unique(S), OrderedText(S)
  PROVE  Cardinality(Text(S)) = Cardinality(Deltas(S))
<1> DEFINE D == Deltas(S)
           f == [d \in D |-> d.tok]
<1>1. IsFiniteSet(D)
  BY DeltasFinite
<1>2. \A d \in D : d.seq \in Nat /\ d.tok.pos = Cardinality({x \in D : x.seq <= d.seq})
  BY DEF Deltas, Recs, Record, OrderedText
<1>a. \A x \in D : x.seq \in Nat
  BY <1>2
<1>3. \A d, e \in D : d.seq = e.seq => d = e
  BY DEF Deltas, Unique
<1>4. ASSUME NEW d \in D, NEW e \in D, d.tok = e.tok PROVE d = e
  <2>1. d.seq \in Nat /\ e.seq \in Nat
    BY <1>2
  <2>2. Cardinality({x \in D : x.seq <= d.seq}) = Cardinality({x \in D : x.seq <= e.seq})
    BY <1>2, <1>4
  <2> HIDE DEF D, f
  <2>3. ASSUME d.seq <= e.seq PROVE d.seq = e.seq
    BY <1>1, <1>a, <2>2, <2>3, PlacesDiffer
  <2>4. ASSUME e.seq <= d.seq PROVE d.seq = e.seq
    BY <1>1, <1>a, <2>2, <2>4, PlacesDiffer
  <2>5. d.seq = e.seq
    BY <2>1, <2>3, <2>4
  <2> QED BY <1>3, <2>5
<1>5. f \in Bijection(D, Text(S))
  <2>1. f \in [D -> Text(S)]
    BY DEF Text
  <2>2. \A d, e \in D : f[d] = f[e] => d = e
    <3> HIDE DEF D
    <3> QED BY <1>4
  <2>3. \A t \in Text(S) : \E d \in D : f[d] = t
    BY DEF Text
  <2> HIDE DEF D, f
  <2>4. f \in Injection(D, Text(S))
    BY <2>1, <2>2 DEF Injection, IsInjective
  <2>5. f \in Surjection(D, Text(S))
    BY <2>1, <2>3 DEF Surjection
  <2> QED BY <2>4, <2>5 DEF Bijection
<1>6. ExistsBijection(D, Text(S))
  BY <1>5 DEF ExistsBijection
<1> HIDE DEF D
<1>7. Cardinality(Text(S)) = Cardinality(D)
  BY <1>1, <1>6, FS_Bijection
<1> QED BY <1>7 DEF D

-----------------------------------------------------------------------------
(* Who writes first.                                                        *)

\* Records that extend a list and clash with none of it have its next number.
LEMMA NextIsWritten ==
  ASSUME NEW L \in Recs, NEW B \in Recs, B # {}, Numbered(L), Dense(L \cup B), NoConflict(L, B)
  PROVE  LastSeq(L) + 1 \in Seqs(B) /\ LastSeq(L) + 1 \in Nat /\ LastSeq(L) + 1 \notin Seqs(L)
<1>1. Seqs(L) = 1..LastSeq(L) /\ LastSeq(L) \in Nat
  BY NumberedHasAll, LastSeqIsLast DEF Recs, Numbered
<1>2. PICK x \in B : TRUE
  OBVIOUS
<1>3. x.seq \in Nat \ {0} /\ x.seq \notin Seqs(L)
  BY <1>2 DEF Recs, Record, NoConflict, Seqs
<1>4. LastSeq(L) + 1 \in 1..x.seq
  BY <1>1, <1>3
<1>5. PICK y \in L \cup B : y.seq = LastSeq(L) + 1
  BY <1>2, <1>4 DEF Dense
<1>6. LastSeq(L) + 1 \notin Seqs(L)
  BY <1>1
<1>7. y \in B
  BY <1>5, <1>6 DEF Seqs
<1> QED BY <1>1, <1>5, <1>6, <1>7 DEF Seqs

\* A batch that is accepted leaves every other run behind ...
LEMMA OthersFallBehind ==
  ASSUME NEW L \in Recs, NEW B \in Recs, B # {}, Numbered(L), Dense(L \cup B), NoConflict(L, B),
         NEW r \in RunT, NumbersAccountedFor(r, L), NEW c, c.st = "ok" => r.infl \subseteq L
  PROVE  Behind(r, c, L \cup B)
<1> DEFINE m == LastSeq(L) + 1
<1>1. m \in Seqs(B) /\ m \in Nat /\ m \notin Seqs(L) /\ LastSeq(L) \in Nat
  BY NextIsWritten, LastSeqIsLast DEF Recs
<1>2. m \in Seqs(L \cup B) /\ m <= LastSeq(L \cup B) /\ LastSeq(L \cup B) \in Nat
  <2>1. m \in Seqs(L \cup B)
    BY <1>1 DEF Seqs
  <2> HIDE DEF m
  <2> QED BY <2>1, RecsUnion, LastSeqIsLast DEF Recs
<1>3. r.assigned \in Nat
  BY DEF RunT, Run
<1>4. CASE r.assigned < m
  <2> HIDE DEF m
  <2> QED BY <1>1, <1>2, <1>3, <1>4 DEF Behind
<1>5. CASE ~(r.assigned < m)
  <2>1. m \in 1..r.assigned
    BY <1>1, <1>3, <1>5
  <2>2. m \in Seqs(L \cup (r.pend \cup r.infl) \cup r.fin)
    BY <2>1 DEF NumbersAccountedFor
  <2> HIDE DEF m
  <2>3. PICK x \in r.pend \cup r.infl \cup r.fin : x.seq = m
    BY <1>1, <2>2 DEF Seqs
  <2>4. CASE x \in r.pend \cup r.fin
    BY <1>2, <2>3, <2>4 DEF Behind
  <2>5. CASE x \in r.infl
    <3>1. c.st # "ok"
      BY <1>1, <2>3, <2>5 DEF Seqs
    <3> QED BY <1>2, <2>3, <2>5, <3>1 DEF Behind
  <2> QED BY <2>3, <2>4, <2>5
<1> QED BY <1>4, <1>5

\* ... and every other call refused.
LEMMA OthersAreRefused ==
  ASSUME NEW L \in Recs, NEW B \in Recs, B # {}, Numbered(L), Dense(L \cup B), NoConflict(L, B),
         NEW recs \in Recs, recs # {}, Dense(L \cup recs)
  PROVE  ~NoConflict(L \cup B, recs)
<1> SUFFICES ASSUME NoConflict(L \cup B, recs) PROVE FALSE
  OBVIOUS
<1>1. NoConflict(L, recs) /\ NoConflict(B, recs)
  BY DEF NoConflict, Seqs
<1>2. LastSeq(L) + 1 \in Seqs(B) /\ LastSeq(L) + 1 \in Seqs(recs)
  BY <1>1, NextIsWritten
<1> QED BY <1>1, <1>2 DEF NoConflict

\* What a run that is behind sends is refused.
LEMMA BehindIsRefused ==
  ASSUME NEW L \in Recs, Numbered(L), NEW r \in RunT, NumbersAccountedFor(r, L), r.infl = {},
         NEW c, Behind(r, c, L), NEW recs, recs # {}, recs = r.pend \/ recs = r.pend \cup r.fin
  PROVE  ~NoConflict(L, recs)
<1> SUFFICES ASSUME NoConflict(L, recs) PROVE FALSE
  OBVIOUS
<1>1. Seqs(L) = 1..LastSeq(L) /\ LastSeq(L) \in Nat
  BY NumberedHasAll, LastSeqIsLast DEF Recs, Numbered
<1>2. /\ r.assigned \in Nat
      /\ \A x \in r.pend : x.seq \in Nat \ {0} /\ x.seq <= r.assigned
      /\ \A x \in r.fin : x.seq \in Nat \ {0} /\ x.seq = r.assigned
  BY DEF RunT, Run, Recs, Record, NumbersAccountedFor, Done
<1>3. PICK x \in recs : x.seq \in Nat \ {0} /\ x.seq <= r.assigned /\ x.seq \notin Seqs(L)
  <2>1. PICK x \in recs : TRUE
    OBVIOUS
  <2>2. x.seq \notin Seqs(L)
    BY <2>1 DEF NoConflict, Seqs
  <2>3. x.seq \in Nat \ {0} /\ x.seq <= r.assigned
    BY <1>2, <2>1
  <2> QED BY <2>1, <2>2, <2>3
<1>4. ~(r.assigned <= LastSeq(L))
  BY <1>1, <1>2, <1>3
<1>5. PICK y \in r.pend \cup r.fin : y.seq \in Seqs(L)
  BY <1>1, <1>2, <1>4 DEF Behind
<1>6. y \in r.fin
  BY <1>5 DEF NoConflict, Seqs
<1>7. r.assigned \in Seqs(L)
  BY <1>2, <1>5, <1>6
<1> QED BY <1>1, <1>2, <1>4, <1>7

-----------------------------------------------------------------------------
(* Each edit of a Run keeps its text.                                       *)

\* The fields the text depends on, but for the place of the runner.
SameText(r, q) ==
  /\ q.assigned = r.assigned /\ q.pend = r.pend /\ q.infl = r.infl /\ q.fin = r.fin
  /\ q.goal = r.goal /\ q.text = r.text /\ q.len = r.len

LEMMA SameTextFits ==
  ASSUME NEW r, NEW q, SameText(r, q), q.pc = r.pc \/ (r.pc = "run" /\ q.pc = "end")
  PROVE  \A c, L : RunTextFits(r, c, L) => RunTextFits(q, c, L)
<1> SUFFICES ASSUME NEW c, NEW L, RunTextFits(r, c, L) PROVE RunTextFits(q, c, L)
  OBVIOUS
<1>1. Behind(r, c, L) => Behind(q, c, L)
  BY DEF Behind, SameText
<1>2. Continues(r, L) => Continues(q, L)
  BY DEF Continues, Held, SameText
<1> QED BY <1>1, <1>2 DEF RunTextFits, SameText

LEMMA NoRunText == \A c, L : RunTextFits(NoRun, c, L) /\ CallTextFits(NoCall, L)
BY DEF RunTextFits, CallTextFits, NoRun, NoCall

LEMMA EditsKeepText ==
  ASSUME NEW r \in RunT
  PROVE  /\ SameText(r, LeaseLost(r)) /\ LeaseLost(r).pc = r.pc
         /\ \A reason : SameText(r, Stopped(r, reason)) /\ Stopped(r, reason).pc = r.pc
         /\ \A reason : /\ SameText(r, [Stopped(r, reason) EXCEPT !.leaving = TRUE])
                        /\ [Stopped(r, reason) EXCEPT !.leaving = TRUE].pc = r.pc
         /\ SameText(r, [r EXCEPT !.specw = TRUE]) /\ [r EXCEPT !.specw = TRUE].pc = r.pc
         /\ SameText(r, [r EXCEPT !.pc = "end"]) /\ [r EXCEPT !.pc = "end"].pc = "end"
<1>1. SameText(r, LeaseLost(r)) /\ LeaseLost(r).pc = r.pc
  BY DEF SameText, LeaseLost, Stopped, RunT, Run
<1>2. ASSUME NEW reason
      PROVE  /\ SameText(r, Stopped(r, reason)) /\ Stopped(r, reason).pc = r.pc
             /\ SameText(r, [Stopped(r, reason) EXCEPT !.leaving = TRUE])
             /\ [Stopped(r, reason) EXCEPT !.leaving = TRUE].pc = r.pc
  BY DEF SameText, Stopped, RunT, Run
<1>3. /\ SameText(r, [r EXCEPT !.specw = TRUE]) /\ [r EXCEPT !.specw = TRUE].pc = r.pc
      /\ SameText(r, [r EXCEPT !.pc = "end"]) /\ [r EXCEPT !.pc = "end"].pc = "end"
  BY DEF SameText, RunT, Run
<1> QED BY <1>1, <1>2, <1>3

\* So none of these edits disturbs it.
LEMMA EditsFit ==
  ASSUME NEW r \in RunT, NEW c, NEW L, RunTextFits(r, c, L)
  PROVE  /\ RunTextFits(LeaseLost(r), c, L) /\ RunTextFits([r EXCEPT !.specw = TRUE], c, L)
         /\ \A reason : /\ RunTextFits(Stopped(r, reason), c, L)
                        /\ RunTextFits([Stopped(r, reason) EXCEPT !.leaving = TRUE], c, L)
         /\ r.pc = "run" => RunTextFits([r EXCEPT !.pc = "end"], c, L)
<1>1. RunTextFits(LeaseLost(r), c, L)
  <2> DEFINE q == LeaseLost(r)
  <2>1. SameText(r, q) /\ q.pc = r.pc
    BY EditsKeepText
  <2> HIDE DEF q
  <2> QED BY <2>1, SameTextFits DEF q
<1>2. RunTextFits([r EXCEPT !.specw = TRUE], c, L)
  <2> DEFINE q == [r EXCEPT !.specw = TRUE]
  <2>1. SameText(r, q) /\ q.pc = r.pc
    BY EditsKeepText
  <2> HIDE DEF q
  <2>2. RunTextFits(q, c, L)
    BY <2>1, SameTextFits
  <2> QED BY <2>2 DEF q
<1>3. ASSUME NEW reason PROVE RunTextFits(Stopped(r, reason), c, L)
  BY EditsKeepText, SameTextFits
<1>4. ASSUME NEW reason PROVE RunTextFits([Stopped(r, reason) EXCEPT !.leaving = TRUE], c, L)
  <2> DEFINE q == [Stopped(r, reason) EXCEPT !.leaving = TRUE]
  <2>1. SameText(r, q) /\ q.pc = r.pc
    BY EditsKeepText
  <2> HIDE DEF q
  <2>2. RunTextFits(q, c, L)
    BY <2>1, SameTextFits
  <2> QED BY <2>2 DEF q
<1>5. ASSUME r.pc = "run" PROVE RunTextFits([r EXCEPT !.pc = "end"], c, L)
  <2> DEFINE q == [r EXCEPT !.pc = "end"]
  <2>1. SameText(r, q) /\ q.pc = "end"
    BY EditsKeepText
  <2> HIDE DEF q
  <2>2. RunTextFits(q, c, L)
    BY <1>5, <2>1, SameTextFits
  <2> QED BY <2>2 DEF q
<1> QED BY <1>1, <1>2, <1>3, <1>4, <1>5

\* A run that is behind and gives its next number stays behind.
LEMMA StaysBehind ==
  ASSUME NEW L \in Recs, NEW r \in RunT, NEW c, Behind(r, c, L), NEW q,
         q.assigned = r.assigned + 1, r.pend \subseteq q.pend, r.fin \subseteq q.fin, q.infl = r.infl,
         NEW x \in q.pend \cup q.fin, x.seq = r.assigned + 1
  PROVE  Behind(q, c, L)
<1>1. r.assigned \in Nat /\ LastSeq(L) \in Nat
  BY LastSeqIsLast DEF RunT, Run, Recs
<1>2. CASE r.assigned < LastSeq(L)
  <2>1. L # {}
    BY <1>1, <1>2, LastSeqIsLast DEF Recs
  <2>2. LastSeq(L) \in Seqs(L)
    BY <2>1, LastSeqIsLast DEF Recs
  <2>3. q.assigned < LastSeq(L) \/ x.seq = LastSeq(L)
    BY <1>1, <1>2
  <2> QED BY <2>2, <2>3 DEF Behind
<1>3. CASE ~(r.assigned < LastSeq(L))
  BY <1>3 DEF Behind
<1> QED BY <1>2, <1>3

\* Everything a run that is not behind knows of is numbered up to `assigned`.
LEMMA UpToAssigned ==
  ASSUME NEW L \in Recs, NEW r \in RunT, NumbersAccountedFor(r, L), NEW c, ~Behind(r, c, L)
  PROVE  Held(r, L) \in Recs /\ \A y \in Held(r, L) : y.seq \in Nat /\ y.seq <= r.assigned
<1>1. r.assigned \in Nat /\ LastSeq(L) \in Nat /\ LastSeq(L) <= r.assigned
  BY LastSeqIsLast DEF Behind, RunT, Run, Recs
<1>2. Held(r, L) \in Recs
  <2>1. r.pend \in Recs /\ r.infl \in Recs
    BY DEF RunT
  <2> QED BY <2>1, RecsUnion DEF Held
<1>3. \A y \in Held(r, L) : y.seq \in Nat
  BY <1>2 DEF Recs, Record
<1>4. \A y \in L : y.seq <= LastSeq(L)
  BY LastSeqIsLast DEF Seqs, Recs
<1>5. \A y \in r.pend \cup r.infl : y.seq <= r.assigned
  BY DEF NumbersAccountedFor
<1> QED BY <1>1, <1>2, <1>3, <1>4, <1>5 DEF Held

\* The engine's next token extends the text of the log.
LEMMA GenerateText ==
  ASSUME NEW L \in Recs, NEW r \in RunT, r.pc = "run", NEW c, NumbersAccountedFor(r, L), RunTextFits(r, c, L),
         InFlightIsSent(r, c),
         NEW q, NEW t, t = [pos |-> r.len + 1, by |-> r.n],
         q = [r EXCEPT !.assigned = @ + 1, !.len = @ + 1, !.text = @ \cup {t},
                       !.pend = @ \cup {Delta(r.assigned + 1, t)}]
  PROVE  RunTextFits(q, c, L)
<1> DEFINE x == Delta(r.assigned + 1, t)
<1>1. /\ q.assigned = r.assigned + 1 /\ q.len = r.len + 1 /\ q.text = r.text \cup {t}
      /\ q.pend = r.pend \cup {x} /\ q.infl = r.infl /\ q.fin = r.fin /\ q.goal = r.goal /\ q.pc = "run"
  BY DEF RunT, Run
<1>2. /\ r.assigned \in Nat /\ t \in Token
      /\ x \in Record /\ x.seq = r.assigned + 1 /\ x.ev = "delta" /\ x.tok = t /\ t.pos = r.len + 1
  <2>1. r.assigned \in Nat /\ r.len \in Nat /\ r.n \in Nat
    BY DEF RunT, Run
  <2>2. t \in Token /\ t.pos = r.len + 1
    BY <2>1 DEF Token
  <2> QED BY <2>1, <2>2 DEF Delta, Record
<1> HIDE DEF x
<1>3. CASE Behind(r, c, L)
  <2>1. Behind(q, c, L)
    BY <1>1, <1>2, <1>3, StaysBehind
  <2> QED BY <1>1, <1>2, <2>1 DEF RunTextFits
<1>4. CASE ~Behind(r, c, L)
  <2>1. Continues(r, L)
    BY <1>4 DEF RunTextFits
  <2> DEFINE A == Held(r, L)
  <2>2. A \in Recs /\ \A y \in A : y.seq < x.seq
    BY <1>2, <1>4, UpToAssigned
  <2>3. OrderedText(A) /\ Text(A) = r.text /\ r.len = Cardinality(Deltas(A))
    BY <2>1 DEF Continues
  <2>4. Held(q, L) = A \cup {x}
    BY <1>1 DEF Held
  <2> HIDE DEF A
  <2>5. /\ OrderedText(A \cup {x}) /\ Text(A \cup {x}) = Text(A) \cup {x.tok}
        /\ Cardinality(Deltas(A \cup {x})) = Cardinality(Deltas(A)) + 1
    BY <1>2, <2>2, <2>3, TextExtended
  <2>6. Continues(q, L)
    BY <1>1, <1>2, <2>3, <2>4, <2>5 DEF Continues
  <2> QED BY <1>1, <1>2, <2>6 DEF RunTextFits
<1> QED BY <1>3, <1>4

\* The first event of a Run carries no text.
LEMMA CreatedText ==
  ASSUME NEW L \in Recs, NEW r \in RunT, r.pc = "run", NEW c, RunTextFits(r, c, L)
  PROVE  RunTextFits(WithCreated(r), c, L)
<1> DEFINE q == WithCreated(r)
           x == Created(r.assigned + 1)
<1>1. /\ q.assigned = r.assigned + 1 /\ q.len = r.len /\ q.text = r.text
      /\ q.pend = r.pend \cup {x} /\ q.infl = r.infl /\ q.fin = r.fin /\ q.goal = r.goal /\ q.pc = "run"
  BY DEF WithCreated, RunT, Run
<1>2. x.seq = r.assigned + 1 /\ x.ev = "created"
  BY DEF Created
<1> HIDE DEF q, x
<1>3. Behind(r, c, L) => Behind(q, c, L)
  BY <1>1, <1>2, StaysBehind
<1>4. ASSUME Continues(r, L) PROVE Continues(q, L)
  <2>1. Held(q, L) = Held(r, L) \cup {x}
    BY <1>1 DEF Held
  <2>2. Deltas(Held(q, L)) = Deltas(Held(r, L))
    BY <1>2, <2>1, NoDeltas
  <2>3. (OrderedText(Held(q, L)) <=> OrderedText(Held(r, L))) /\ Text(Held(q, L)) = Text(Held(r, L))
    BY <2>2, SameDeltas
  <2> QED BY <1>1, <1>4, <2>2, <2>3 DEF Continues
<1>5. RunTextFits(q, c, L)
  BY <1>1, <1>2, <1>3, <1>4 DEF RunTextFits
<1> QED BY <1>5 DEF q

\* Settling numbers a terminal record, which carries no text either.
LEMMA SettlingText ==
  ASSUME NEW L \in Recs, NEW r \in RunT, r.pc = "run", NEW c, NumbersAccountedFor(r, L),
         InFlightIsSent(r, c), RunTextFits(r, c, L), NEW goal \in Outcomes
  PROVE  RunTextFits(Settling(r, goal), c, L)
<1> DEFINE q == Settling(r, goal)
<1>1. r.fin = {} /\ (r.infl # {} => c.op # "finish")
  BY DEF NumbersAccountedFor, InFlightIsSent
<1>2. /\ q.len = r.len /\ q.text = r.text /\ q.pend = r.pend /\ q.infl = r.infl /\ q.goal = goal
      /\ q.pc = "settle"
      /\ \/ goal = "cancelled" /\ q.assigned = r.assigned /\ q.fin = {}
         \/ goal # "cancelled" /\ q.assigned = r.assigned + 1 /\ q.fin = {Done(r.assigned + 1)}
  BY <1>1 DEF Settling, RunT, Run
<1> HIDE DEF q
<1>3. Behind(r, c, L) => Behind(q, c, L)
  <2>1. CASE goal = "cancelled"
    BY <1>1, <1>2, <2>1 DEF Behind
  <2>2. CASE goal # "cancelled"
    BY <1>1, <1>2, <2>2, StaysBehind DEF Done
  <2> QED BY <2>1, <2>2
<1>4. Continues(r, L) => Continues(q, L)
  BY <1>2 DEF Continues, Held
<1>5. RunTextFits(q, c, L)
  BY <1>1, <1>2, <1>3, <1>4 DEF RunTextFits, Outcomes
<1> QED BY <1>5 DEF q

\* A failed batch goes back in front of the buffer.
LEMMA RestoredText ==
  ASSUME NEW L, NEW r \in RunT, NEW c, RunTextFits(r, c, L)
  PROVE  \A d : RunTextFits(Restored(r), d, L)
<1> DEFINE q == Restored(r)
<1>1. /\ q.assigned = r.assigned /\ q.pend = r.infl \cup r.pend /\ q.infl = {} /\ q.fin = r.fin
      /\ q.goal = r.goal /\ q.text = r.text /\ q.len = r.len /\ q.pc = r.pc
  BY DEF Restored, RunT, Run
<1> HIDE DEF q
<1>2. ASSUME NEW d, Behind(r, c, L) PROVE Behind(q, d, L)
  BY <1>1, <1>2 DEF Behind
<1>3. Continues(r, L) => Continues(q, L)
  <2>1. Held(q, L) = Held(r, L)
    BY <1>1 DEF Held
  <2> QED BY <1>1, <2>1 DEF Continues
<1>4. ASSUME NEW d PROVE RunTextFits(q, d, L)
  BY <1>1, <1>2, <1>3 DEF RunTextFits
<1> QED BY <1>4 DEF q

\* A batch that is in the log leaves the buffer.
LEMMA CommittedText ==
  ASSUME NEW L, NEW r \in RunT, NEW c, RunTextFits(r, c, L), c.st = "ok", r.infl \subseteq L, NEW recs
  PROVE  \A d : RunTextFits(Committed(r, recs), d, L)
<1> DEFINE q == Committed(r, recs)
<1>1. /\ q.assigned = r.assigned /\ q.pend = r.pend /\ q.infl = {} /\ q.fin = r.fin
      /\ q.goal = r.goal /\ q.text = r.text /\ q.len = r.len /\ q.pc = r.pc
  BY DEF Committed, RunT, Run
<1> HIDE DEF q
<1>2. ASSUME NEW d, Behind(r, c, L) PROVE Behind(q, d, L)
  BY <1>1, <1>2 DEF Behind
<1>3. Continues(r, L) => Continues(q, L)
  <2>1. Held(q, L) = Held(r, L)
    BY <1>1 DEF Held
  <2> QED BY <1>1, <2>1 DEF Continues
<1>4. ASSUME NEW d PROVE RunTextFits(q, d, L)
  BY <1>1, <1>2, <1>3 DEF RunTextFits
<1> QED BY <1>4 DEF q

\* A claimed run has the text of the log it read, unless the log is longer.
LEMMA ResumedText ==
  ASSUME NEW L \in Recs, Numbered(L), OrderedText(L), NEW logged \in Recs, Numbered(logged),
         logged \subseteq L, NEW n \in Nat, NEW w \in BOOLEAN
  PROVE  \A c : RunTextFits(NewRun(n, logged, w), c, L)
<1> DEFINE r == NewRun(n, logged, w)
<1>1. /\ r.assigned = LastSeq(logged) /\ r.pend = {} /\ r.infl = {} /\ r.fin = {}
      /\ r.text = Text(logged) /\ r.len = Cardinality(Text(logged))
  BY DEF NewRun, RunAt, NoRun
<1> HIDE DEF r
<1>2. LastSeq(logged) <= LastSeq(L) /\ LastSeq(logged) \in Nat /\ LastSeq(L) \in Nat
  BY LastSeqGrows
<1>3. CASE LastSeq(logged) < LastSeq(L)
  <2>1. ASSUME NEW c PROVE Behind(r, c, L)
    BY <1>1, <1>3 DEF Behind
  <2>2. ASSUME NEW c PROVE RunTextFits(r, c, L)
    BY <1>1, <2>1 DEF RunTextFits
  <2> QED BY <2>2 DEF r
<1>4. CASE LastSeq(logged) = LastSeq(L)
  <2>1. Seqs(logged) = Seqs(L)
    BY <1>4, NumberedHasAll DEF Recs, Numbered
  <2>2. logged = L
    <3>1. ASSUME NEW x \in L PROVE x \in logged
      <4>1. PICK y \in logged : y.seq = x.seq
        BY <2>1 DEF Seqs
      <4> QED BY <4>1 DEF Numbered, Unique
    <3> QED BY <3>1
  <2>3. Cardinality(Text(L)) = Cardinality(Deltas(L))
    BY TokensDiffer DEF Numbered
  <2>4. Held(r, L) = L
    BY <1>1 DEF Held
  <2>5. Continues(r, L)
    BY <1>1, <2>2, <2>3, <2>4 DEF Continues
  <2>6. ASSUME NEW c PROVE RunTextFits(r, c, L)
    BY <1>1, <2>5 DEF RunTextFits
  <2> QED BY <2>6 DEF r
<1> QED BY <1>2, <1>3, <1>4

-----------------------------------------------------------------------------
(* What is sent, and what a write does to the Run that sent it.             *)

\* A batch that will be accepted continues the text of the log; with a
\* terminal record it is all of the answer.
LEMMA SentText ==
  ASSUME NEW L \in Recs, Numbered(L), NEW r \in RunT, r.pc \in {"run", "settle", "end"}, r.infl = {},
         NumbersAccountedFor(r, L), NEW c, RunTextFits(r, c, L),
         NEW d, d.st = "sent",
         \/ d.op = "append" /\ d.recs = r.pend
         \/ /\ d.op = "finish" /\ d.recs = r.pend \cup r.fin /\ d.goal = r.goal /\ d.text = r.text
  PROVE  RunTextFits([r EXCEPT !.infl = r.pend, !.pend = {}], d, L) /\ CallTextFits(d, L)
<1> DEFINE q == [r EXCEPT !.infl = r.pend, !.pend = {}]
<1>1. /\ q.assigned = r.assigned /\ q.pend = {} /\ q.infl = r.pend /\ q.fin = r.fin
      /\ q.goal = r.goal /\ q.text = r.text /\ q.len = r.len /\ q.pc = r.pc
  BY DEF RunT, Run
<1> HIDE DEF q
<1>2. Behind(r, c, L) => Behind(q, d, L)
  BY <1>1 DEF Behind
<1>3. Held(q, L) = Held(r, L)
  BY <1>1 DEF Held
<1>4. Continues(r, L) => Continues(q, L)
  BY <1>1, <1>3 DEF Continues
<1>5. RunTextFits(q, d, L)
  BY <1>1, <1>2, <1>4 DEF RunTextFits
<1>6. \A x \in r.pend : x.ev # "done"
  BY DEF RunTextFits
<1>7. ASSUME d.recs # {}, NoConflict(L, d.recs) PROVE OrderedText(L \cup d.recs) /\ SettlesFit(d, L)
  <2>1. ~Behind(r, c, L)
    BY <1>7, BehindIsRefused
  <2>2. /\ OrderedText(Held(r, L)) /\ Text(Held(r, L)) = r.text
    BY <2>1 DEF RunTextFits, Continues
  <2>3. /\ r.fin = {} \/ r.fin = {Done(r.assigned)}
        /\ r.fin # {} => r.goal \in {"completed", "failed"}
    BY DEF NumbersAccountedFor, RunTextFits
  <2>4. Deltas(L \cup d.recs) = Deltas(Held(r, L))
    <3>1. Held(r, L) = L \cup r.pend
      BY DEF Held
    <3>2. Deltas((L \cup r.pend) \cup r.fin) = Deltas(L \cup r.pend)
      <4>1. \A x \in r.fin : x.ev # "delta"
        BY <2>3 DEF Done
      <4> QED BY <4>1, NoDeltas
    <3>3. L \cup (r.pend \cup r.fin) = (L \cup r.pend) \cup r.fin
      OBVIOUS
    <3> QED BY <3>1, <3>2, <3>3
  <2>5. OrderedText(L \cup d.recs) /\ Text(L \cup d.recs) = r.text
    BY <2>2, <2>4, SameDeltas
  <2>6. ASSUME NEW x \in d.recs, x.ev = "done"
        PROVE  /\ d.goal \in {"completed", "failed"} /\ d.text = Text(L \cup d.recs)
               /\ x.seq = LastSeq(L \cup d.recs)
    <3>1. x \in r.fin /\ d.recs = r.pend \cup r.fin /\ d.goal = r.goal /\ d.text = r.text
      BY <1>6, <2>6
    <3>2. x.seq = r.assigned /\ r.goal \in {"completed", "failed"}
      BY <2>3, <3>1 DEF Done
    <3>3. Held(r, L) \in Recs /\ \A y \in Held(r, L) : y.seq \in Nat /\ y.seq <= r.assigned
      BY <2>1, UpToAssigned
    <3>4. r.assigned \in Nat /\ r.fin \in Recs
      BY DEF RunT, Run
    <3>5. L \cup d.recs = Held(r, L) \cup r.fin
      BY <3>1 DEF Held
    <3>6. L \cup d.recs \in Recs
      BY <3>3, <3>4, <3>5, RecsUnion
    <3>7. \A y \in L \cup d.recs : y.seq <= r.assigned
      BY <2>3, <3>3, <3>4, <3>5 DEF Done
    <3>8. r.assigned \in Seqs(L \cup d.recs) /\ \A k \in Seqs(L \cup d.recs) : k <= r.assigned
      BY <2>6, <3>2, <3>7 DEF Seqs
    <3>9. LastSeq(L \cup d.recs) = r.assigned
      <4>1. /\ LastSeq(L \cup d.recs) \in Nat /\ LastSeq(L \cup d.recs) \in Seqs(L \cup d.recs)
            /\ \A k \in Seqs(L \cup d.recs) : k <= LastSeq(L \cup d.recs)
        BY <2>6, <3>6, LastSeqIsLast DEF Recs
      <4> QED BY <3>4, <3>8, <4>1
    <3> QED BY <2>5, <3>1, <3>2, <3>9
  <2> QED BY <2>5, <2>6 DEF SettlesFit
<1>8. CallTextFits(d, L)
  BY <1>6, <1>7 DEF CallTextFits
<1> QED BY <1>5, <1>8 DEF q

\* The answer to a call that changed nothing.
LEMMA AnsweredText ==
  ASSUME NEW L, NEW r, NEW c, RunTextFits(r, c, L), c.st = "sent", InFlightIsSent(r, c),
         NEW d, d.op = c.op, d.recs = c.recs, d.st # "ok" \/ c.recs = {}
  PROVE  RunTextFits(r, d, L)
<1>1. d.st # "ok" \/ r.infl = {}
  BY DEF InFlightIsSent
<1>2. Behind(r, c, L) => Behind(r, d, L)
  BY <1>1 DEF Behind
<1> QED BY <1>2 DEF RunTextFits

\* The Run that sent the batch that is accepted, or another one in its place.
LEMMA WrittenText ==
  ASSUME NEW L \in Recs, Numbered(L), NEW c \in CallT, c.st = "sent", c.recs # {}, NoConflict(L, c.recs),
         CallExtendsLog(c, L), NEW r \in RunT, NumbersAccountedFor(r, L), InFlightIsSent(r, c),
         RunTextFits(r, c, L), NEW d, d.op = c.op, d.recs = c.recs
  PROVE  RunTextFits(r, d, L \cup c.recs)
<1>0. c.recs \in Recs /\ Dense(L \cup c.recs)
  BY DEF CallT, CallExtendsLog
<1> DEFINE M == L \cup c.recs
<1>1. ASSUME Behind(r, d, M) \/ Continues(r, M) PROVE RunTextFits(r, d, M)
  <2> HIDE DEF M
  <2> QED BY <1>1 DEF RunTextFits
<1>2. CASE r.infl = {}
  <2>1. Behind(r, d, M)
    BY <1>0, <1>2, OthersFallBehind
  <2> QED BY <1>1, <2>1
<1>3. CASE r.pc \notin {"run", "settle", "end"}
  BY <1>3 DEF RunTextFits
<1>4. CASE r.infl # {} /\ r.pc \in {"run", "settle", "end"}
  <2>1. c.recs = r.infl \cup (IF c.op = "finish" THEN r.fin ELSE {})
    BY <1>4 DEF RunTextFits
  <2>2. CASE Behind(r, c, L)
    <3>1. ~\E x \in r.infl : x.seq \in Seqs(L)
      BY <2>1 DEF NoConflict, Seqs
    <3>2. LastSeq(L) <= LastSeq(M) /\ LastSeq(L) \in Nat /\ LastSeq(M) \in Nat
      BY <1>0, RecsUnion, LastSeqGrows
    <3>3. Seqs(L) \subseteq Seqs(M) /\ r.assigned \in Nat
      BY DEF Seqs, RunT, Run
    <3>4. Behind(r, d, M)
      <4> HIDE DEF M
      <4> QED BY <2>2, <3>1, <3>2, <3>3 DEF Behind
    <3> QED BY <1>1, <3>4
  <2>3. CASE Continues(r, L)
    <3> DEFINE F == IF c.op = "finish" THEN r.fin ELSE {}
    <3>1. \A x \in F : x.ev # "delta"
      BY DEF NumbersAccountedFor, Done
    <3>2. Held(r, M) = Held(r, L) \cup F
      BY <2>1 DEF Held
    <3>3. Continues(r, M)
      <4> HIDE DEF M, F
      <4>1. Deltas(Held(r, M)) = Deltas(Held(r, L))
        BY <3>1, <3>2, NoDeltas
      <4>2. (OrderedText(Held(r, M)) <=> OrderedText(Held(r, L))) /\ Text(Held(r, M)) = Text(Held(r, L))
        BY <4>1, SameDeltas
      <4> QED BY <2>3, <4>1, <4>2 DEF Continues
    <3> QED BY <1>1, <3>3
  <2> QED BY <1>4, <2>2, <2>3 DEF RunTextFits
<1> QED BY <1>2, <1>3, <1>4

\* Every other process, when a batch is accepted.
LEMMA OthersText ==
  ASSUME NEW L \in Recs, Numbered(L), NEW B \in Recs, B # {}, NoConflict(L, B), Dense(L \cup B),
         NEW c \in CallT, CallExtendsLog(c, L), CallTextFits(c, L),
         NEW r \in RunT, NumbersAccountedFor(r, L), InFlightIsSent(r, c), RunTextFits(r, c, L)
  PROVE  RunTextFits(r, c, L \cup B) /\ CallTextFits(c, L \cup B)
<1>1. c.recs \in Recs /\ Dense(L \cup c.recs) /\ (c.st = "ok" => r.infl \subseteq L)
  BY DEF CallT, CallExtendsLog, InFlightIsSent
<1>2. Behind(r, c, L \cup B)
  BY <1>1, OthersFallBehind
<1>3. RunTextFits(r, c, L \cup B)
  BY <1>2 DEF RunTextFits
<1>4. c.recs # {} => ~NoConflict(L \cup B, c.recs)
  BY <1>1, OthersAreRefused
<1>5. CallTextFits(c, L \cup B)
  BY <1>4 DEF CallTextFits
<1> QED BY <1>3, <1>5

-----------------------------------------------------------------------------
(* The log and the answer.                                                  *)

\* A step appends, settles without records, or leaves them alone.
LEMMA LogSteps ==
  ASSUME [Next]_vars
  PROVE  \/ UNCHANGED <<status, log, answer>>
         \/ status \in {"none", "open"} /\ log' = log
         \/ \E p \in Proc : Append(p) \/ Finish(p)
<1>1. CASE LeaseLapse
  BY <1>1 DEF LeaseLapse
<1>2. ASSUME NEW p \in Proc,
             \/ LaunchSpec(p) \/ LaunchFails(p) \/ StartRun(p) \/ Generate(p) \/ RunnerEnds(p)
             \/ RunnerStops(p) \/ FlushSpec(p) \/ FlushSend(p) \/ AppendReply(p) \/ SettleSend(p)
             \/ FinishReply(p) \/ RecordOutcome(p) \/ RenewTick(p) \/ Claim(p) \/ ClaimResume(p)
             \/ ClaimUnrunnable(p) \/ CancelFlag(p) \/ CancelHere(p) \/ SweepSpec(p) \/ Suspend(p)
             \/ SuspendFlushed(p) \/ SuspendRelease(p) \/ Die(p)
      PROVE  UNCHANGED <<status, log, answer>>
  BY <1>2 DEF LaunchSpec, LaunchFails, StartRun, Generate, RunnerEnds, RunnerStops, FlushSpec, FlushSend,
     AppendReply, SettleSend, FinishReply, RecordOutcome, RenewTick, Claim, ClaimResume, ClaimUnrunnable,
     CancelFlag, CancelHere, SweepSpec, Suspend, SuspendFlushed, SuspendRelease, Die, row
<1>3. ASSUME NEW p \in Proc, MarkDurable(p) PROVE status = "none" /\ log' = log
  BY <1>3 DEF MarkDurable
<1>4. ASSUME NEW p \in Proc, SettleUnrunnable(p) \/ CancelElsewhere(p) \/ SweepUnread(p)
      PROVE  UNCHANGED <<status, log, answer>> \/ (status = "open" /\ log' = log)
  <2>1. log' = log
    BY <1>4 DEF SettleUnrunnable, CancelElsewhere, SweepUnread
  <2>2. UNCHANGED <<status, row>> \/ Open
    BY <1>4 DEF SettleUnrunnable, CancelElsewhere, SweepUnread, MayFinish
  <2> QED BY <2>1, <2>2 DEF row, Open
<1>5. CASE UNCHANGED vars
  BY <1>5 DEF vars
<1> QED BY <1>1, <1>2, <1>3, <1>4, <1>5 DEF Next

LEMMA LogTextStep ==
  ASSUME TypeInv, NumberingInv, LogText, WritersText, [Next]_vars
  PROVE  LogText'
<1>1. CASE UNCHANGED <<status, log, answer>>
  BY <1>1 DEF LogText, TextNeverRegenerated, AnswerIsTheLog
<1>2. CASE status \in {"none", "open"} /\ log' = log
  <2>1. \A d \in log : d.ev # "done"
    BY <1>2 DEF LogText, AnswerIsTheLog
  <2> QED BY <1>2, <2>1 DEF LogText, TextNeverRegenerated, AnswerIsTheLog
<1>3. ASSUME NEW p \in Proc, Append(p) \/ Finish(p) PROVE LogText'
  <2> DEFINE c == call[p]
  <2>1. CallTextFits(c, log) /\ c.st = "sent"
    BY <1>3 DEF WritersText, Append, Finish
  <2>2. \/ UNCHANGED <<status, log, answer>>
        \/ /\ NoConflict(log, c.recs) /\ log' = log \cup c.recs /\ status = "open"
           /\ \/ c.op = "append" /\ UNCHANGED <<status, answer>>
              \/ status' = c.goal /\ answer' = c.text
    <3>1. CASE Append(p)
      BY <3>1 DEF Append, MayAppend, Open, row
    <3>2. CASE Finish(p)
      BY <3>2 DEF Finish, MayFinish, Open, SettledRow, row
    <3> QED BY <1>3, <3>1, <3>2
  <2> HIDE DEF c
  <2>3. CASE NoConflict(log, c.recs) /\ log' = log \cup c.recs /\ status = "open" /\ c.recs # {}
             /\ (c.op = "append" \/ (status' = c.goal /\ answer' = c.text))
    <3>1. \A d \in log : d.ev # "done"
      BY <2>3 DEF LogText, AnswerIsTheLog
    <3>2. OrderedText(log') /\ SettlesFit(c, log)
      BY <2>1, <2>3 DEF CallTextFits
    <3>3. TextNeverRegenerated'
      BY <3>2 DEF TextNeverRegenerated, OrderedText
    <3>4. ASSUME NEW d \in log', d.ev = "done"
          PROVE  status' \in {"completed", "failed"} /\ answer' = Text(log') /\ d.seq = LastSeq(log')
      <4>1. d \in c.recs
        BY <2>3, <3>1, <3>4
      <4>2. c.op # "append"
        BY <2>1, <3>4, <4>1 DEF CallTextFits
      <4> QED BY <2>3, <3>2, <3>4, <4>1, <4>2 DEF SettlesFit
    <3>5. AnswerIsTheLog'
      BY <3>4 DEF AnswerIsTheLog
    <3> QED BY <3>3, <3>5 DEF LogText
  <2>4. CASE log' = log /\ status = "open"
    BY <1>2, <2>4
  <2> QED BY <1>1, <2>2, <2>3, <2>4
<1> QED BY <1>1, <1>2, <1>3, LogSteps

-----------------------------------------------------------------------------
(* The writers.                                                             *)

\* A step of one process that writes nothing.
LEMMA OneWritersText ==
  ASSUME WritersText, NEW p \in Proc, log' = log,
         \A z \in Proc \ {p} : run'[z] = run[z] /\ call'[z] = call[z],
         RunTextFits(run'[p], call'[p], log) /\ CallTextFits(call'[p], log)
  PROVE  WritersText'
<1>1. ASSUME NEW z \in Proc
      PROVE  RunTextFits(run'[z], call'[z], log') /\ CallTextFits(call'[z], log')
  BY DEF WritersText
<1> QED BY <1>1 DEF WritersText

\* A step that changes one Run and no call.
LEMMA OneRunsText ==
  ASSUME TypeInv, WritersText, NEW p \in Proc, NEW q, run' = [run EXCEPT ![p] = q],
         RunTextFits(q, call[p], log), UNCHANGED <<log, call>>
  PROVE  WritersText'
<1>1. run'[p] = q /\ \A z \in Proc \ {p} : run'[z] = run[z] /\ call'[z] = call[z]
  BY DEF TypeInv
<1>2. RunTextFits(run'[p], call'[p], log) /\ CallTextFits(call'[p], log)
  BY <1>1 DEF WritersText
<1> QED BY <1>1, <1>2, OneWritersText

LEMMA WritersTextUnchanged ==
  ASSUME WritersText, UNCHANGED <<log, run, call>>
  PROVE  WritersText'
BY DEF WritersText

LEMMA WritersTextStep ==
  ASSUME TypeInv, NumberingInv, LogText, WritersText, [Next]_vars
  PROVE  WritersText'
<1>0. ASSUME NEW p \in Proc
      PROVE  /\ run[p] \in RunT /\ call[p] \in CallT /\ claiming[p] \in ClaimT
             /\ NumbersAccountedFor(run[p], log) /\ InFlightIsSent(run[p], call[p])
             /\ CallExtendsLog(call[p], log) /\ ClaimedIsLogged(claiming[p], log)
             /\ RunTextFits(run[p], call[p], log) /\ CallTextFits(call[p], log)
  BY DEF TypeInv, NumberingInv, WritersText
<1>a. log \in Recs /\ Numbered(log) /\ OrderedText(log)
  BY DEF TypeInv, NumberingInv, LogText, TextNeverRegenerated, OrderedText
<1>b. ASSUME NEW p \in Proc
      PROVE  /\ RunTextFits(LeaseLost(run[p]), call[p], log)
             /\ RunTextFits([run[p] EXCEPT !.specw = TRUE], call[p], log)
             /\ \A reason : /\ RunTextFits(Stopped(run[p], reason), call[p], log)
                            /\ RunTextFits([Stopped(run[p], reason) EXCEPT !.leaving = TRUE], call[p], log)
             /\ run[p].pc = "run" => RunTextFits([run[p] EXCEPT !.pc = "end"], call[p], log)
  BY <1>0, EditsFit
<1>1. CASE LeaseLapse
  BY <1>1, WritersTextUnchanged DEF LeaseLapse
<1>2. ASSUME NEW p \in Proc,
             \/ MarkDurable(p) \/ LaunchSpec(p) \/ LaunchFails(p) \/ CancelFlag(p)
             \/ SweepUnread(p) \/ SweepSpec(p) \/ SuspendFlushed(p)
             \/ Claim(p) \/ ClaimUnrunnable(p) \/ SettleUnrunnable(p)
      PROVE  WritersText'
  <2>1. UNCHANGED <<log, run, call>>
    BY <1>2 DEF MarkDurable, LaunchSpec, LaunchFails, CancelFlag, SweepUnread, SweepSpec, SuspendFlushed,
       Claim, ClaimUnrunnable, SettleUnrunnable
  <2> QED BY <2>1, WritersTextUnchanged
<1>3. ASSUME NEW p \in Proc, StartRun(p) PROVE WritersText'
  <2> DEFINE r == NewRun(1, {}, Mode = "keyed")
  <2>1. r \in RunT /\ r.pc = "run"
    BY NewRunType, RecsEmpty DEF NewRun, RunAt, NoRun
  <2>2. RunTextFits(r, call[p], log)
    BY <1>a, RecsEmpty, ResumedText DEF Numbered, Unique, Dense
  <2>3. run' = [run EXCEPT ![p] = WithCreated(r)] /\ UNCHANGED <<log, call>>
    BY <1>3 DEF StartRun
  <2> HIDE DEF r
  <2>4. RunTextFits(WithCreated(r), call[p], log)
    BY <1>a, <2>1, <2>2, CreatedText
  <2> QED BY <2>3, <2>4, OneRunsText
<1>4. ASSUME NEW p \in Proc, Generate(p) PROVE WritersText'
  <2> DEFINE r == run[p]
             t == [pos |-> r.len + 1, by |-> r.n]
             q == [r EXCEPT !.assigned = @ + 1, !.len = @ + 1, !.text = @ \cup {t},
                            !.pend = @ \cup {Delta(r.assigned + 1, t)}]
  <2>1. run' = [run EXCEPT ![p] = q] /\ UNCHANGED <<log, call>> /\ r.pc = "run"
    BY <1>4 DEF Generate
  <2>2. RunTextFits(q, call[p], log)
    BY <1>0, <1>a, <2>1, GenerateText
  <2> HIDE DEF q
  <2> QED BY <2>1, <2>2, OneRunsText
<1>5. ASSUME NEW p \in Proc, RunnerEnds(p) PROVE WritersText'
  <2>1. PICK goal \in Outcomes : run' = [run EXCEPT ![p] = Settling(run[p], goal)]
    BY <1>5 DEF RunnerEnds, Outcomes
  <2>2. UNCHANGED <<log, call>> /\ run[p].pc = "run"
    BY <1>5 DEF RunnerEnds
  <2>3. RunTextFits(Settling(run[p], goal), call[p], log)
    BY <1>0, <1>a, <2>2, SettlingText
  <2> QED BY <2>1, <2>2, <2>3, OneRunsText
<1>6. ASSUME NEW p \in Proc, RunnerStops(p) PROVE WritersText'
  <2> DEFINE ended == [run[p] EXCEPT !.pc = "end"]
  <2>1. UNCHANGED <<log, call>> /\ run[p].pc = "run"
    BY <1>6 DEF RunnerStops
  <2>2. \E q \in {ended, Settling(run[p], "cancelled"), Settling(run[p], "failed"), NoRun} :
           run' = [run EXCEPT ![p] = q]
    BY <1>6 DEF RunnerStops
  <2>3. \A goal \in Outcomes : RunTextFits(Settling(run[p], goal), call[p], log)
    BY <1>0, <1>a, <2>1, SettlingText
  <2>4. RunTextFits(ended, call[p], log) /\ RunTextFits(NoRun, call[p], log)
    BY <1>0, <1>b, <2>1, NoRunText
  <2> HIDE DEF ended
  <2> QED BY <2>1, <2>2, <2>3, <2>4, OneRunsText DEF Outcomes
<1>7. ASSUME NEW p \in Proc, FlushSpec(p) PROVE WritersText'
  <2>1. run' = [run EXCEPT ![p] = [run[p] EXCEPT !.specw = TRUE]] /\ UNCHANGED <<log, call>>
    BY <1>7 DEF FlushSpec, TypeInv
  <2> QED BY <1>0, <1>b, <2>1, OneRunsText
<1>8. ASSUME NEW p \in Proc, FlushSend(p) \/ SettleSend(p) PROVE WritersText'
  <2> DEFINE r == run[p]
             q == [r EXCEPT !.infl = r.pend, !.pend = {}]
  <2>1. run' = [run EXCEPT ![p] = q] /\ UNCHANGED log /\ call[p].op = "none"
    BY <1>8 DEF FlushSend, SettleSend, TypeInv
  <2>2. r.infl = {} /\ r.pc \in {"run", "settle", "end"}
    BY <1>0, <1>8, <2>1 DEF InFlightIsSent, FlushSend, SettleSend, Flushable, Active
  <2>3. /\ \A z \in Proc \ {p} : call'[z] = call[z]
        /\ call'[p].st = "sent"
        /\ \/ call'[p].op = "append" /\ call'[p].recs = r.pend
           \/ /\ call'[p].op = "finish" /\ call'[p].recs = r.pend \cup r.fin
              /\ call'[p].goal = r.goal /\ call'[p].text = r.text
    <3>1. CASE FlushSend(p)
      <4> DEFINE c == [NoCall EXCEPT !.op = "append", !.st = "sent", !.n = r.n, !.recs = r.pend, !.owned = TRUE]
      <4>1. call' = [call EXCEPT ![p] = c]
        BY <3>1 DEF FlushSend
      <4>2. c.op = "append" /\ c.st = "sent" /\ c.recs = r.pend
        BY DEF NoCall
      <4> HIDE DEF c, r
      <4> QED BY <4>1, <4>2 DEF TypeInv
    <3>2. CASE SettleSend(p)
      <4> DEFINE c == [op |-> "finish", st |-> "sent", n |-> r.n, recs |-> FinalBatch(r), owned |-> r.held,
                       goal |-> r.goal, text |-> r.text]
      <4>1. call' = [call EXCEPT ![p] = c]
        BY <3>2 DEF SettleSend
      <4>2. c.op = "finish" /\ c.st = "sent" /\ c.recs = r.pend \cup r.fin /\ c.goal = r.goal /\ c.text = r.text
        BY DEF FinalBatch
      <4> HIDE DEF c, r
      <4> QED BY <4>1, <4>2 DEF TypeInv
    <3> QED BY <1>8, <3>1, <3>2
  <2>4. run'[p] = q /\ \A z \in Proc \ {p} : run'[z] = run[z]
    BY <2>1 DEF TypeInv
  <2>5. RunTextFits(q, call'[p], log) /\ CallTextFits(call'[p], log)
    <3>1. r \in RunT /\ NumbersAccountedFor(r, log) /\ RunTextFits(r, call[p], log)
      BY <1>0
    <3> HIDE DEF r
    <3> QED BY <1>a, <2>2, <2>3, <3>1, SentText
  <2> HIDE DEF q
  <2> QED BY <2>1, <2>3, <2>4, <2>5, OneWritersText
<1>9. ASSUME NEW p \in Proc, Append(p) \/ Finish(p) PROVE WritersText'
  <2> DEFINE c == call[p]
             d == call'[p]
  <2>1. UNCHANGED run /\ c.st = "sent"
    BY <1>9 DEF Append, Finish
  <2>2. PICK st \in {"ok", "lost", "error"} :
           /\ call' = [call EXCEPT ![p].st = st]
           /\ \/ NoConflict(log, c.recs) /\ log' = log \cup c.recs
              \/ log' = log /\ st # "ok"
    BY <1>9 DEF Append, Finish
  <2>3. /\ \A z \in Proc \ {p} : call'[z] = call[z]
        /\ d.recs = c.recs /\ d.op = c.op /\ d.st = st
    BY <2>2 DEF TypeInv, CallT, Call
  <2>4. /\ c \in CallT /\ c.recs \in Recs /\ CallExtendsLog(c, log) /\ CallTextFits(c, log)
        /\ run[p] \in RunT /\ NumbersAccountedFor(run[p], log) /\ InFlightIsSent(run[p], c)
        /\ RunTextFits(run[p], c, log)
    BY <1>0 DEF CallT
  <2>5. st # "sent"
    BY <2>2
  <2> HIDE DEF c, d
  <2>6. \A M : CallTextFits(d, M)
    BY <2>3, <2>4, <2>5 DEF CallTextFits
  <2>7. CASE c.recs # {} /\ NoConflict(log, c.recs) /\ log' = log \cup c.recs
    <3>1. RunTextFits(run[p], d, log')
      BY <1>a, <2>1, <2>3, <2>4, <2>7, WrittenText
    <3>2. ASSUME NEW z \in Proc \ {p}
          PROVE  RunTextFits(run[z], call[z], log') /\ CallTextFits(call[z], log')
      <4>1. Dense(log \cup c.recs)
        BY <2>4 DEF CallExtendsLog
      <4> QED BY <1>0, <1>a, <2>4, <2>7, <4>1, OthersText
    <3>3. ASSUME NEW z \in Proc
          PROVE  RunTextFits(run'[z], call'[z], log') /\ CallTextFits(call'[z], log')
      <4>1. CASE z = p
        BY <2>1, <2>6, <3>1, <4>1 DEF d
      <4>2. CASE z # p
        BY <2>1, <2>3, <3>2, <4>2
      <4> QED BY <4>1, <4>2
    <3> QED BY <3>3 DEF WritersText
  <2>8. CASE log' = log /\ (st # "ok" \/ c.recs = {})
    <3>1. RunTextFits(run[p], d, log)
      BY <2>1, <2>3, <2>4, <2>8, AnsweredText
    <3> QED BY <2>1, <2>3, <2>6, <2>8, <3>1, OneWritersText DEF d
  <2> QED BY <2>2, <2>7, <2>8
<1>10. ASSUME NEW p \in Proc, AppendReply(p) \/ FinishReply(p) PROVE WritersText'
  <2> DEFINE r == run[p]
             c == call[p]
             settled == [Committed(r, c.recs) EXCEPT !.pc = "record", !.held = FALSE]
             OK(q) == RunTextFits(q, NoCall, log)
  <2>1. call' = [call EXCEPT ![p] = NoCall] /\ UNCHANGED log
    BY <1>10 DEF AppendReply, FinishReply
  <2>2. /\ r \in RunT /\ c.recs \in Recs /\ NumbersAccountedFor(r, log) /\ InFlightIsSent(r, c)
        /\ CallExtendsLog(c, log) /\ RunTextFits(r, c, log)
    BY <1>0 DEF CallT
  <2>3. \/ run' = run /\ r.infl = {}
        \/ c.st = "ok" /\ \E q \in {Committed(r, c.recs), settled} : run' = [run EXCEPT ![p] = q]
        \/ \E q \in {Restored(r), LeaseLost(Restored(r)), NoRun} : run' = [run EXCEPT ![p] = q]
    <3>1. CASE AppendReply(p)
      BY <2>2, <3>1 DEF AppendReply, InFlightIsSent
    <3>2. CASE FinishReply(p)
      BY <2>2, <3>2 DEF FinishReply, InFlightIsSent
    <3> QED BY <1>10, <3>1, <3>2
  <2>4. run \in [Proc -> RunT] /\ r = run[p]
    BY DEF TypeInv
  <2>5. call'[p] = NoCall /\ \A z \in Proc \ {p} : call'[z] = call[z]
    BY <2>1 DEF TypeInv
  <2> HIDE DEF r, c
  <2>6. r.infl = {} => OK(r)
    <3>1. ASSUME r.infl = {} PROVE Behind(r, c, log) => Behind(r, NoCall, log)
      BY <3>1 DEF Behind
    <3> QED BY <2>2, <3>1 DEF RunTextFits
  <2>7. c.st = "ok" => OK(Committed(r, c.recs)) /\ OK(settled)
    <3> SUFFICES ASSUME c.st = "ok" PROVE OK(Committed(r, c.recs)) /\ OK(settled)
      OBVIOUS
    <3>1. r.infl \subseteq log
      BY <2>2 DEF InFlightIsSent, CallExtendsLog
    <3>2. OK(Committed(r, c.recs))
      BY <2>2, <3>1, CommittedText
    <3>3. /\ settled.pend = r.pend /\ settled.infl = {} /\ settled.fin = r.fin /\ settled.goal = r.goal
          /\ settled.pc = "record"
      BY <2>2 DEF Committed, RunT, Run
    <3>4. OK(settled)
      <4> HIDE DEF settled
      <4> QED BY <2>2, <3>3 DEF RunTextFits
    <3> QED BY <3>2, <3>4
  <2>8. OK(Restored(r)) /\ OK(LeaseLost(Restored(r))) /\ OK(NoRun)
    <3> DEFINE q == Restored(r)
    <3>1. q \in RunT /\ OK(q)
      BY <2>2, RunStepTypes, RestoredText
    <3> HIDE DEF q
    <3>2. OK(LeaseLost(q))
      BY <3>1, EditsFit
    <3> QED BY <3>1, <3>2, NoRunText DEF q
  <2> HIDE DEF settled, OK
  <2>9. OK(run'[p]) /\ \A z \in Proc \ {p} : run'[z] = run[z]
    BY <2>3, <2>4, <2>6, <2>7, <2>8
  <2> QED BY <2>1, <2>5, <2>9, NoRunText, OneWritersText DEF OK
<1>11. ASSUME NEW p \in Proc,
              \/ RecordOutcome(p) \/ SuspendRelease(p) \/ RenewTick(p) \/ CancelHere(p)
              \/ CancelElsewhere(p) \/ Suspend(p)
       PROVE  WritersText'
  <2> DEFINE r == run[p]
             OK(q) == RunTextFits(q, call[p], log)
  <2>1. UNCHANGED <<log, call>>
    BY <1>11 DEF RecordOutcome, SuspendRelease, RenewTick, CancelHere, CancelElsewhere, Suspend
  <2>2. \/ run' = run
        \/ \E q \in {r, NoRun, LeaseLost(r), Stopped(r, "cancel"), Stopped(r, "revoked"),
                     [Stopped(r, "restart") EXCEPT !.leaving = TRUE]} : run' = [run EXCEPT ![p] = q]
    <3>1. CASE RecordOutcome(p) \/ SuspendRelease(p)
      BY <3>1 DEF RecordOutcome, SuspendRelease
    <3>2. CASE RenewTick(p)
      BY <3>2 DEF RenewTick, Ticked
    <3>3. CASE CancelHere(p) \/ CancelElsewhere(p)
      BY <3>3 DEF CancelHere, CancelElsewhere
    <3>4. CASE Suspend(p)
      BY <3>4 DEF Suspend
    <3> QED BY <1>11, <3>1, <3>2, <3>3, <3>4
  <2>3. /\ OK(r) /\ OK(LeaseLost(r)) /\ OK(Stopped(r, "cancel")) /\ OK(Stopped(r, "revoked"))
        /\ OK([Stopped(r, "restart") EXCEPT !.leaving = TRUE]) /\ OK(NoRun)
    BY <1>0, <1>b, NoRunText
  <2> HIDE DEF r, OK
  <2>4. PICK q : run' = run \/ (OK(q) /\ run' = [run EXCEPT ![p] = q])
    BY <2>2, <2>3
  <2> QED BY <2>1, <2>4, OneRunsText, WritersTextUnchanged DEF OK
<1>12. ASSUME NEW p \in Proc, ClaimResume(p) PROVE WritersText'
  <2> DEFINE k == claiming[p]
             r == NewRun(k.n, k.logged, TRUE)
  <2>1. k.logged \in Recs /\ Numbered(k.logged) /\ k.logged \subseteq log /\ k.n \in Nat
    BY <1>0 DEF ClaimT, ClaimState, ClaimedIsLogged
  <2>2. /\ UNCHANGED <<log, call>>
        /\ \E q \in {Settling(r, "cancelled"), Settling(r, "failed"), WithCreated(r), r} :
             run' = [run EXCEPT ![p] = q]
    BY <1>12 DEF ClaimResume
  <2>3. r \in RunT /\ r.pc = "run" /\ r.infl = {}
    BY <2>1, NewRunType DEF NewRun, RunAt, NoRun
  <2>4. RunTextFits(r, call[p], log)
    BY <1>a, <2>1, ResumedText
  <2>5. NumbersAccountedFor(r, log)
    BY <2>1, ResumedAccounted
  <2> HIDE DEF r
  <2>6. InFlightIsSent(r, call[p])
    BY <2>3 DEF InFlightIsSent
  <2>7. \A goal \in Outcomes : RunTextFits(Settling(r, goal), call[p], log)
    BY <1>a, <2>3, <2>4, <2>5, <2>6, SettlingText
  <2>8. RunTextFits(WithCreated(r), call[p], log)
    BY <1>a, <2>3, <2>4, CreatedText
  <2> QED BY <2>2, <2>4, <2>7, <2>8, OneRunsText DEF Outcomes
<1>13. ASSUME NEW p \in Proc, Die(p) PROVE WritersText'
  <2>1. /\ UNCHANGED log /\ run'[p] = NoRun /\ call'[p] = NoCall
        /\ \A z \in Proc \ {p} : run'[z] = run[z] /\ call'[z] = call[z]
    BY <1>13 DEF Die, TypeInv
  <2> QED BY <2>1, NoRunText, OneWritersText
<1>14. CASE UNCHANGED vars
  BY <1>14, WritersTextUnchanged DEF vars
<1> QED BY <1>1, <1>2, <1>3, <1>4, <1>5, <1>6, <1>7, <1>8, <1>9, <1>10, <1>11, <1>12, <1>13, <1>14
        DEF Next

-----------------------------------------------------------------------------
(* The theorems.                                                            *)

TextInv == TypeInv /\ NumberingInv /\ LogText /\ WritersText

LEMMA TextInit == Init => TextInv
<1> SUFFICES ASSUME Init PROVE TextInv
  OBVIOUS
<1>1. TypeInv /\ NumberingInv
  BY TypeInit, NumberingInit
<1>2. LogText
  BY DEF Init, LogText, TextNeverRegenerated, AnswerIsTheLog, Deltas
<1>3. WritersText
  BY NoRunText DEF Init, WritersText
<1> QED BY <1>1, <1>2, <1>3 DEF TextInv

LEMMA TextStep == TextInv /\ [Next]_vars => TextInv'
<1> SUFFICES ASSUME TextInv, [Next]_vars PROVE TextInv'
  OBVIOUS
<1>1. TypeInv' /\ NumberingInv'
  BY TypeStep, NumberingStep DEF TextInv
<1>2. LogText' /\ WritersText'
  BY LogTextStep, WritersTextStep DEF TextInv
<1> QED BY <1>1, <1>2 DEF TextInv

\* The k-th delta of the log is the token generated for place k: no suspend,
\* claim, lost answer or second runner writes a place twice or skips one.
THEOREM TextIsExtended == Spec => []TextNeverRegenerated
<1>1. TextInv => TextNeverRegenerated
  BY DEF TextInv, LogText
<1> QED BY <1>1, TextInit, TextStep, PTL DEF Spec

\* A log that ends with a terminal record has the settled answer as its text.
THEOREM AnswerIsLogged == Spec => []AnswerIsTheLog
<1>1. TextInv => AnswerIsTheLog
  BY DEF TextInv, LogText
<1> QED BY <1>1, TextInit, TextStep, PTL DEF Spec
=============================================================================
