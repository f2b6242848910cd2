----------------------------- MODULE DurableRun -----------------------------
(***************************************************************************)
(* One durable /v1 response: its row and write-ahead event log in the       *)
(* database (publicapi/durable_store.py) and the orchestrator processes     *)
(* that launch, run, suspend, claim, cancel and settle it                   *)
(* (publicapi/durable.py, the cancel of publicapi/background.py).           *)
(*                                                                          *)
(* A Proc is one process incarnation: OWNER has a random suffix, so a       *)
(* restarted process is another Proc. A store call whose answer can be      *)
(* late is split in two: the statement executes (atomically, as the store's *)
(* transactions do), and later the caller handles the answer.               *)
(*                                                                          *)
(* A definition marked "Faulty" is not part of the specification: it is a   *)
(* plausible bug of the definition after it, and shows what a property is   *)
(* sensitive to.                                                            *)
(***************************************************************************)
EXTENDS EventLog

CONSTANTS
  Proc,          \* process incarnations
  Stable,        \* those that neither crash nor are told to stop
  None,          \* "no lease owner"
  Mode,          \* "background": a row the dispatcher claims; "keyed": a
                 \* foreground run whose spec is stored at launch; "plain"
  CancelAt,      \* processes the cancel route reaches
  MaxTokens,     \* bound: tokens the engine may produce for the answer
  MaxAttempts,   \* bound: leases taken on the row
  MaxFaults      \* bound: lapses under a healthy owner, store errors

ASSUME ConstantsAssumption ==
  /\ Stable \subseteq Proc /\ CancelAt \subseteq Proc
  /\ None \notin Proc
  /\ Mode \in {"background", "keyed", "plain"}
  /\ MaxTokens \in Nat /\ MaxAttempts \in Nat /\ MaxFaults \in Nat

VARIABLES
  \* the store: the api_responses row, api_response_requests, the event log
  status, owner, live, cancelReq, attempt, spec, answer, log,
  \* each process
  proc,          \* its life: up; stopping, flushed, drained on SIGTERM; dead
  launching,     \* a launch between its store calls
  run,           \* the Run object it holds
  call,          \* the append or finish in flight (one: Runtime._lock)
  claiming,      \* a claim in flight
  cancelling,    \* a cancel request it serves
  \* accounting
  recorded,      \* times the recorder ran for this response
  webhooks,      \* times its webhook was queued
  faults         \* faults used of MaxFaults

row == <<owner, live, cancelReq, attempt, spec, answer>>
vars == <<status, owner, live, cancelReq, attempt, spec, answer, log, proc, launching,
          run, call, claiming, cancelling, recorded, webhooks, faults>>

Outcomes == {"completed", "failed", "cancelled"}

\* A process that holds no Run object.
NoRun == [pc |-> "none", n |-> 0, held |-> FALSE, specw |-> FALSE, stop |-> "none",
          assigned |-> 0, committed |-> 0, pend |-> {}, infl |-> {}, tail |-> {},
          text |-> {}, len |-> 0, goal |-> "none", fin |-> {}, leaving |-> FALSE]
NoCall == [op |-> "none", st |-> "none", n |-> 0, recs |-> {}, owned |-> FALSE,
           goal |-> "none", text |-> {}]
NoClaim == [st |-> "none", n |-> 0, logged |-> {}, cancel |-> FALSE]

Background == Mode = "background"
Open == status = "open"
\* Faulty: no lease check; an expired lease never lapses.
FreeAlways == TRUE
FreeIfReleased == owner = None
\* lease_owner IS NULL OR lease_expires_at <= now()
Free == owner = None \/ ~live
Alive(p) == proc[p] # "dead"
\* The Run is in Runtime.runs: found by attach, dispatch, cancel, the ticks.
Registered(p) == run[p].pc \in {"run", "settle", "record"}
\* Run.terminal is set once the outcome of the settlement is known.
Active(p) == run[p].pc \in {"run", "settle"}
Fault == faults < MaxFaults /\ faults' = faults + 1

\* A Run object holding the lease, whose log ends at seq with `text` in it.
RunAt(n, seq, text, specw) ==
  [NoRun EXCEPT !.pc = "run", !.n = n, !.held = TRUE, !.specw = specw, !.assigned = seq,
                !.committed = seq, !.text = text, !.len = Cardinality(text)]
\* Faulty: resumed without its text, one number ahead, one behind.
TextDropped(n, logged, specw) == RunAt(n, LastSeq(logged), {}, specw)
OneAhead(n, logged, specw) == RunAt(n, LastSeq(logged) + 1, Text(logged), specw)
OneBehind(n, logged, specw) == RunAt(n, LastSeq(logged) - 1, Text(logged), specw)
\* The Run built by launch (logged = {}) or by a claim that read `logged`.
NewRun(n, logged, specw) == RunAt(n, LastSeq(logged), Text(logged), specw)

\* add_record(builder.created())
WithCreated(r) == [r EXCEPT !.assigned = @ + 1, !.pend = @ \cup {Created(r.assigned + 1)}]

\* request_stop: the first reason stays, these three replace any other.
Stopped(r, reason) ==
  IF r.stop = "none" \/ reason \in {"lease_lost", "cancel", "revoked"}
  THEN [r EXCEPT !.stop = reason] ELSE r

\* Faulty: a failed batch is forgotten, or shown to the local readers.
BatchDropped(r) == [r EXCEPT !.infl = {}]
BatchShown(r) == [r EXCEPT !.infl = {}, !.tail = r.tail \cup r.infl]
\* restore_inflight
Restored(r) == [r EXCEPT !.pend = r.infl \cup r.pend, !.infl = {}]
\* commit_inflight and _commit: only now may a local reader see the records.
Committed(r, recs) ==
  [r EXCEPT !.infl = {}, !.tail = r.tail \cup recs,
            !.committed = IF LastSeq(recs) > r.committed THEN LastSeq(recs) ELSE r.committed]
\* _lease_lost
LeaseLost(r) == Stopped([r EXCEPT !.held = FALSE], "lease_lost")

\* _settle up to its first await: the terminal records are numbered once.
Settling(r, goal) ==
  IF goal = "cancelled"
  THEN [r EXCEPT !.pc = "settle", !.goal = goal]
  ELSE [r EXCEPT !.pc = "settle", !.goal = goal, !.assigned = @ + 1,
                 !.fin = {Done(r.assigned + 1)}]

Init ==
  /\ status = "none" /\ owner = None /\ live = FALSE /\ cancelReq = FALSE
  /\ attempt = 0 /\ spec = FALSE /\ answer = {} /\ log = {}
  /\ proc = [p \in Proc |-> "up"]
  /\ launching = [p \in Proc |-> "no"]
  /\ run = [p \in Proc |-> NoRun]
  /\ call = [p \in Proc |-> NoCall]
  /\ claiming = [p \in Proc |-> NoClaim]
  /\ cancelling = [p \in Proc |-> "no"]
  /\ recorded = 0 /\ webhooks = 0 /\ faults = 0

-----------------------------------------------------------------------------
(* Launch: the row becomes durable, the spec is stored (background, keyed   *)
(* or gateway-tagged launches), then a foreground run starts here; a        *)
(* background one stays a row.                                              *)

MarkDurable(p) ==
  /\ proc[p] = "up" /\ status = "none"
  /\ status' = "open"
  /\ launching' = [launching EXCEPT ![p] = "marked"]
  /\ IF Background THEN UNCHANGED <<owner, live, attempt>>
                   ELSE owner' = p /\ live' = TRUE /\ attempt' = attempt + 1
  /\ UNCHANGED <<cancelReq, spec, answer, log, proc, run, call, claiming, cancelling, recorded, webhooks, faults>>

LaunchSpec(p) ==
  /\ Alive(p) /\ Mode # "plain" /\ launching[p] = "marked"
  /\ spec' = TRUE
  /\ launching' = [launching EXCEPT ![p] = IF Background THEN "no" ELSE "specced"]
  /\ UNCHANGED <<status, owner, live, cancelReq, attempt, answer, log, proc, run, call, claiming,
                 cancelling, recorded, webhooks, faults>>

\* put_spec raises: so does launch, and the row is left as it is.
LaunchFails(p) ==
  /\ Alive(p) /\ Mode # "plain" /\ launching[p] = "marked" /\ Fault
  /\ launching' = [launching EXCEPT ![p] = "no"]
  /\ UNCHANGED <<status, log, row, proc, run, call, claiming, cancelling, recorded, webhooks>>

StartRun(p) ==
  /\ Alive(p) /\ launching[p] = (IF Mode = "keyed" THEN "specced" ELSE "marked") /\ ~Background
  /\ run' = [run EXCEPT ![p] = WithCreated(NewRun(1, {}, Mode = "keyed"))]
  /\ launching' = [launching EXCEPT ![p] = "no"]
  /\ UNCHANGED <<status, log, row, proc, call, claiming, cancelling, recorded, webhooks, faults>>

-----------------------------------------------------------------------------
(* The runner. An attempt that is interrupted, yields to chat or waits for  *)
(* the store goes on from the same text, so attempts leave no trace here.   *)

\* The engine continues the text the run holds (continue_final_message).
Generate(p) ==
  /\ Alive(p) /\ run[p].pc = "run" /\ run[p].stop = "none" /\ run[p].len < MaxTokens
  /\ LET r == run[p]
         t == [pos |-> r.len + 1, by |-> r.n]
     IN run' = [run EXCEPT ![p] =
          [r EXCEPT !.assigned = @ + 1, !.len = @ + 1, !.text = @ \cup {t},
                    !.pend = @ \cup {Delta(r.assigned + 1, t)}]]
  /\ UNCHANGED <<status, log, row, proc, launching, call, claiming, cancelling, recorded, webhooks, faults>>

\* The attempt ends the run: finished, an engine refusal, a counter at its limit.
RunnerEnds(p) ==
  /\ Alive(p) /\ run[p].pc = "run" /\ run[p].stop = "none"
  /\ \E goal \in {"completed", "failed"} : run' = [run EXCEPT ![p] = Settling(run[p], goal)]
  /\ UNCHANGED <<status, log, row, proc, launching, call, claiming, cancelling, recorded, webhooks, faults>>

\* _handle_stop. After a restart the Run leaves `runs` but suspend_all still
\* flushes and releases it; after a lost lease nothing refers to it.
RunnerStops(p) ==
  /\ Alive(p) /\ run[p].pc = "run" /\ run[p].stop # "none"
  /\ run' = [run EXCEPT ![p] =
       CASE run[p].stop = "cancel"  -> Settling(run[p], "cancelled")
         [] run[p].stop = "revoked" -> Settling(run[p], "failed")
         [] run[p].stop = "restart" -> [run[p] EXCEPT !.pc = "end"]
         [] OTHER                   -> NoRun]
  /\ UNCHANGED <<status, log, row, proc, launching, call, claiming, cancelling, recorded, webhooks, faults>>

-----------------------------------------------------------------------------
(* The writer: flush -> append. One call holds Runtime._lock at a time.     *)

\* Runs the flush looks at: those in `runs`, and in suspend_all its own.
Flushable(p) == Active(p) \/ (run[p].pc = "end" /\ proc[p] = "stopping")

\* The spec is stored before the first records of a run without one.
FlushSpec(p) ==
  /\ Alive(p) /\ call[p].op = "none"
  /\ Flushable(p) /\ run[p].held /\ run[p].pend # {} /\ ~run[p].specw
  /\ spec' = TRUE
  /\ run' = [run EXCEPT ![p].specw = TRUE]
  /\ UNCHANGED <<status, owner, live, cancelReq, attempt, answer, log, proc, launching, call,
                 claiming, cancelling, recorded, webhooks, faults>>

\* take_pending
FlushSend(p) ==
  /\ Alive(p) /\ call[p].op = "none"
  /\ Flushable(p) /\ run[p].held /\ run[p].pend # {} /\ run[p].specw
  /\ call' = [call EXCEPT ![p] = [NoCall EXCEPT !.op = "append", !.st = "sent", !.n = run[p].n,
                                                !.recs = run[p].pend, !.owned = TRUE]]
  /\ run' = [run EXCEPT ![p] = [@ EXCEPT !.infl = run[p].pend, !.pend = {}]]
  /\ UNCHANGED <<status, log, row, proc, launching, claiming, cancelling, recorded, webhooks, faults>>

\* append: the row must be open and leased by this owner (whether or not the
\* lease has lapsed), and every sequence number must be new.
MayAppend(p) == Open /\ owner = p

Append(p) ==
  /\ call[p].op = "append" /\ call[p].st = "sent"
  /\ \/ /\ MayAppend(p) /\ NoConflict(log, call[p].recs)
        /\ log' = log \cup call[p].recs
        /\ \/ call' = [call EXCEPT ![p].st = "ok"] /\ UNCHANGED faults
           \/ call' = [call EXCEPT ![p].st = "error"] /\ Fault   \* the answer is lost
     \/ /\ ~(MayAppend(p) /\ NoConflict(log, call[p].recs))
        /\ call' = [call EXCEPT ![p].st = "lost"]
        /\ UNCHANGED <<log, faults>>
     \/ call' = [call EXCEPT ![p].st = "error"] /\ Fault /\ UNCHANGED log
  /\ UNCHANGED <<status, row, proc, launching, run, claiming, cancelling, recorded, webhooks>>

\* The flush handles the answer, on the Run it was sent for.
AppendReply(p) ==
  /\ Alive(p) /\ call[p].op = "append" /\ call[p].st # "sent"
  /\ call' = [call EXCEPT ![p] = NoCall]
  /\ run' = IF run[p].n # call[p].n THEN run
            ELSE [run EXCEPT ![p] =
              CASE call[p].st = "ok"   -> Committed(run[p], call[p].recs)
                [] call[p].st = "lost" -> LeaseLost(Restored(run[p]))
                [] OTHER               -> Restored(run[p])]
  /\ UNCHANGED <<status, log, row, proc, launching, claiming, cancelling, recorded, webhooks, faults>>

-----------------------------------------------------------------------------
(* Settlement: terminal records, outcome and lease in one transaction.      *)

\* Faulty: what is pending is not settled with the terminal records.
OnlyTerminal(r) == r.fin
\* take_pending + the terminal records
FinalBatch(r) == r.pend \cup r.fin

SettleSend(p) ==
  /\ Alive(p) /\ call[p].op = "none" /\ run[p].pc = "settle"
  /\ LET r == run[p] IN
     /\ call' = [call EXCEPT ![p] = [op |-> "finish", st |-> "sent", n |-> r.n,
                                     recs |-> FinalBatch(r), owned |-> r.held,
                                     goal |-> r.goal, text |-> r.text]]
     /\ run' = [run EXCEPT ![p] = [r EXCEPT !.infl = r.pend, !.pend = {}]]
  /\ UNCHANGED <<status, log, row, proc, launching, claiming, cancelling, recorded, webhooks, faults>>

\* What finish does to the row once its checks passed.
SettledRow(goal, text) ==
  /\ status' = goal
  /\ owner' = None /\ live' = FALSE
  /\ spec' = FALSE
  /\ answer' = text
  /\ UNCHANGED <<cancelReq, attempt>>

\* Faulty: a settled row may be settled.
SettlesAgain(p, owned) == IF owned THEN owner = p ELSE Free
\* finish(owner, ...) wants the caller's lease, finish(None, ...) a free one.
MayFinish(p, owned) == Open /\ (IF owned THEN owner = p ELSE Free)

Finish(p) ==
  /\ call[p].op = "finish" /\ call[p].st = "sent"
  /\ LET c == call[p]
         held == MayFinish(p, c.owned) /\ NoConflict(log, c.recs)
     IN \/ /\ held
           /\ log' = log \cup c.recs
           /\ SettledRow(c.goal, c.text)
           /\ \/ call' = [call EXCEPT ![p].st = "ok"] /\ UNCHANGED faults
              \/ call' = [call EXCEPT ![p].st = "error"] /\ Fault   \* the answer is lost
        \/ /\ ~held
           /\ call' = [call EXCEPT ![p].st = "lost"]
           /\ UNCHANGED <<status, log, row, faults>>
        \/ /\ call' = [call EXCEPT ![p].st = "error"] /\ Fault
           /\ UNCHANGED <<status, log, row>>
  /\ UNCHANGED <<proc, launching, run, claiming, cancelling, recorded, webhooks>>

\* Settled here: the recorder is next. Refused: somebody else settled or
\* owns it. Error: try again, unless the lease went too.
FinishReply(p) ==
  /\ Alive(p) /\ call[p].op = "finish" /\ call[p].st # "sent"
  /\ call' = [call EXCEPT ![p] = NoCall]
  /\ LET r == run[p] IN
     run' = IF r.n # call[p].n \/ r.pc # "settle" THEN run
            ELSE [run EXCEPT ![p] =
              CASE call[p].st = "ok" -> [Committed(r, call[p].recs) EXCEPT !.pc = "record", !.held = FALSE]
                [] call[p].st = "error" /\ (r.held \/ r.stop # "lease_lost") -> Restored(r)
                [] OTHER -> NoRun]
  /\ UNCHANGED <<status, log, row, proc, launching, claiming, cancelling, recorded, webhooks, faults>>

\* _record: usage, the idempotency claim, the webhook. Then _drop_run.
RecordOutcome(p) ==
  /\ Alive(p) /\ run[p].pc = "record"
  /\ recorded' = recorded + 1
  /\ webhooks' = IF Background THEN webhooks + 1 ELSE webhooks
  /\ run' = [run EXCEPT ![p] = NoRun]
  /\ UNCHANGED <<status, log, row, proc, launching, call, claiming, cancelling, faults>>

-----------------------------------------------------------------------------
(* Leases. A lease lapses when its owner does not renew it in time: it is   *)
(* gone, no longer believes in it, or (a fault) is stalled.                 *)

LeaseLapse ==
  /\ Open /\ owner # None /\ live
  /\ live' = FALSE
  /\ IF Alive(owner) /\ ((Active(owner) /\ run[owner].held) \/ launching[owner] # "no"
                         \/ claiming[owner].st # "none")
     THEN Fault ELSE UNCHANGED faults
  /\ UNCHANGED <<status, owner, cancelReq, attempt, spec, answer, log, proc, launching, run, call,
                 claiming, cancelling, recorded, webhooks>>

\* Faulty: the tick does not look at the flag.
TickedBlind(r) == r
\* The renewed row carries the cancel flag.
Ticked(r) == IF cancelReq THEN Stopped(r, "cancel") ELSE r

\* lease_tick: renew, notice a lost lease, a cancel flag, a revoked key.
RenewTick(p) ==
  /\ Alive(p) /\ Active(p) /\ run[p].held
  /\ IF Open /\ owner = p
     THEN /\ live' = TRUE
          /\ \/ run' = [run EXCEPT ![p] = Ticked(run[p])]
             \/ run' = [run EXCEPT ![p] = Stopped(run[p], "revoked")]
     ELSE /\ run' = [run EXCEPT ![p] = LeaseLost(run[p])]
          /\ UNCHANGED live
  /\ UNCHANGED <<status, owner, cancelReq, attempt, spec, answer, log, proc, launching, call,
                 claiming, cancelling, recorded, webhooks, faults>>

\* claim_and_resume -> claim: one claim per run in a process, none for a run
\* that is here or while stopping. The lease, the resume point and the cancel
\* flag come from one transaction. The answer, or the read after it, may fail.
Claim(p) ==
  /\ proc[p] = "up" /\ ~Registered(p) /\ claiming[p].st = "none"
  /\ launching[p] = "no" \/ Background
  /\ Open /\ (Free \/ owner = p) /\ attempt < MaxAttempts
  /\ owner' = p /\ live' = TRUE /\ attempt' = attempt + 1
  /\ \/ /\ claiming' = [claiming EXCEPT ![p] =
             [st |-> "claimed", n |-> attempt + 1, logged |-> log, cancel |-> cancelReq]]
        /\ UNCHANGED faults
     \/ Fault /\ UNCHANGED claiming
  /\ UNCHANGED <<status, cancelReq, spec, answer, log, proc, launching, run, call, cancelling, recorded, webhooks>>

\* The claim read a row with its spec: a cancel seen by then is honoured
\* before any engine work, a key no longer allowed (or the resume switch off)
\* fails the run, otherwise the runner starts from the logged text.
ClaimResume(p) ==
  /\ Alive(p) /\ claiming[p].st = "claimed" /\ spec
  /\ LET c == claiming[p]
         r == NewRun(c.n, c.logged, TRUE)
     IN run' = [run EXCEPT ![p] =
          IF c.cancel \/ cancelling[p] = "pending" THEN Settling(r, "cancelled")
          ELSE IF c.logged = {} THEN WithCreated(r) ELSE r]
        \/ run' = [run EXCEPT ![p] = Settling(r, "failed")]
  /\ claiming' = [claiming EXCEPT ![p] = NoClaim]
  /\ UNCHANGED <<status, log, row, proc, launching, call, cancelling, recorded, webhooks, faults>>

\* _settle_unrunnable: the claimed row has no spec to resume from, or (a
\* fault) one of its blobs is gone.
ClaimUnrunnable(p) ==
  /\ Alive(p) /\ claiming[p].st = "claimed"
  /\ \/ ~spec /\ UNCHANGED faults
     \/ spec /\ Fault
  /\ claiming' = [claiming EXCEPT ![p].st = "unrunnable"]
  /\ UNCHANGED <<status, log, row, proc, launching, run, call, cancelling, recorded, webhooks>>

\* Nothing is recorded, and no webhook queued, on this path.
SettleUnrunnable(p) ==
  /\ Alive(p) /\ claiming[p].st = "unrunnable"
  /\ claiming' = [claiming EXCEPT ![p] = NoClaim]
  /\ \/ /\ IF MayFinish(p, TRUE) THEN SettledRow("failed", {}) ELSE UNCHANGED <<status, row>>
        /\ UNCHANGED faults
     \/ Fault /\ UNCHANGED <<status, row>>
  /\ UNCHANGED <<log, proc, launching, run, call, cancelling, recorded, webhooks>>

-----------------------------------------------------------------------------
(* Cancel: request_cancel -> _cancel_durable.                               *)

\* The flag is always written first.
CancelFlag(p) ==
  /\ p \in CancelAt /\ Alive(p) /\ Open /\ cancelling[p] = "no" /\ ~cancelReq
  /\ cancelReq' = TRUE
  /\ cancelling' = [cancelling EXCEPT ![p] = "flagged"]
  /\ UNCHANGED <<status, owner, live, attempt, spec, answer, log, proc, launching, run, call,
                 claiming, recorded, webhooks, faults>>

\* cancel_after_claim: stop the run here, or wait for the claim in flight.
CancelHere(p) ==
  /\ Alive(p)
  /\ cancelling[p] = "flagged" \/ (cancelling[p] = "pending" /\ claiming[p].st = "none")
  /\ IF Active(p)
     THEN /\ run' = [run EXCEPT ![p] = Stopped(run[p], "cancel")]
          /\ cancelling' = [cancelling EXCEPT ![p] = "no"]
     ELSE /\ cancelling' = [cancelling EXCEPT ![p] =
               IF claiming[p].st = "none" THEN "elsewhere" ELSE "pending"]
          /\ UNCHANGED run
  /\ UNCHANGED <<status, log, row, proc, launching, call, claiming, recorded, webhooks, faults>>

\* The run is not here. Claimed here since: stop it. Held by nobody: settle it
\* now. Held elsewhere: its owner's lease tick reads the flag.
CancelElsewhere(p) ==
  /\ Alive(p) /\ cancelling[p] = "elsewhere"
  /\ cancelling' = [cancelling EXCEPT ![p] = "no"]
  /\ IF owner = p /\ Active(p)
     THEN /\ run' = [run EXCEPT ![p] = Stopped(run[p], "cancel")]
          /\ UNCHANGED <<status, row, webhooks>>
     ELSE /\ UNCHANGED run
          /\ IF MayFinish(p, FALSE)
             THEN /\ SettledRow("cancelled", {})
                  /\ webhooks' = IF Background THEN webhooks + 1 ELSE webhooks
             ELSE UNCHANGED <<status, row, webhooks>>
  /\ UNCHANGED <<log, proc, launching, call, claiming, recorded, faults>>

-----------------------------------------------------------------------------
(* Sweeps: a suspended foreground run nobody reads is cancelled after its   *)
(* TTL; specs left on settled rows are dropped.                             *)

SweepUnread(p) ==
  /\ proc[p] = "up" /\ ~Background /\ ~Registered(p) /\ MayFinish(p, FALSE)
  /\ SettledRow("cancelled", {})
  /\ UNCHANGED <<log, proc, launching, run, call, claiming, cancelling, recorded, webhooks, faults>>

SweepSpec(p) ==
  /\ proc[p] = "up" /\ status \in Outcomes /\ spec
  /\ spec' = FALSE
  /\ UNCHANGED <<status, owner, live, cancelReq, attempt, answer, log, proc, launching, run, call,
                 claiming, cancelling, recorded, webhooks, faults>>

-----------------------------------------------------------------------------
(* SIGTERM: suspend_all stops the runs, waits a bounded time for runners,   *)
(* flushes, stores missing specs, releases the lease, cancels the runners.  *)

Suspend(p) ==
  /\ p \notin Stable /\ proc[p] = "up"
  /\ proc' = [proc EXCEPT ![p] = "stopping"]
  /\ run' = [run EXCEPT ![p] =
       IF Active(p) THEN [Stopped(run[p], "restart") EXCEPT !.leaving = TRUE] ELSE run[p]]
  /\ UNCHANGED <<status, log, row, launching, call, claiming, cancelling, recorded, webhooks, faults>>

\* The one flush is over (it may have failed: what it kept is then lost).
SuspendFlushed(p) ==
  /\ proc[p] = "stopping" /\ call[p].op = "none"
  /\ ~run[p].held \/ run[p].pend = {} \/ ~Flushable(p) \/ faults > 0
  /\ proc' = [proc EXCEPT ![p] = "flushed"]
  /\ IF run[p].leaving /\ run[p].held /\ ~run[p].specw
     THEN spec' = TRUE ELSE UNCHANGED spec
  /\ UNCHANGED <<status, owner, live, cancelReq, attempt, answer, log, launching, run, call,
                 claiming, cancelling, recorded, webhooks, faults>>

\* release, or a store error: then the lease is left to lapse. Either way the
\* runner is cancelled, in its settlement or its recorder too.
SuspendRelease(p) ==
  /\ proc[p] = "flushed"
  /\ \/ /\ IF run[p].leaving /\ run[p].held /\ Open /\ owner = p THEN owner' = None /\ live' = FALSE
                                                ELSE UNCHANGED <<owner, live>>
        /\ UNCHANGED faults
     \/ Fault /\ UNCHANGED <<owner, live>>
  /\ proc' = [proc EXCEPT ![p] = "drained"]
  /\ run' = IF run[p].leaving THEN [run EXCEPT ![p] = NoRun] ELSE run
  /\ UNCHANGED <<status, cancelReq, attempt, spec, answer, log, launching, call, claiming,
                 cancelling, recorded, webhooks>>

\* The process is gone with all it held; a statement still in flight is too
\* (had it executed first, that is the step before this one).
Die(p) ==
  /\ p \notin Stable /\ Alive(p)
  /\ proc' = [proc EXCEPT ![p] = "dead"]
  /\ launching' = [launching EXCEPT ![p] = "no"]
  /\ run' = [run EXCEPT ![p] = NoRun]
  /\ call' = [call EXCEPT ![p] = NoCall]
  /\ claiming' = [claiming EXCEPT ![p] = NoClaim]
  /\ cancelling' = [cancelling EXCEPT ![p] = "no"]
  /\ UNCHANGED <<status, log, row, recorded, webhooks, faults>>

-----------------------------------------------------------------------------
Next ==
  \/ LeaseLapse
  \/ \E p \in Proc :
       \/ MarkDurable(p) \/ LaunchSpec(p) \/ LaunchFails(p) \/ StartRun(p)
       \/ Generate(p) \/ RunnerEnds(p) \/ RunnerStops(p)
       \/ FlushSpec(p) \/ FlushSend(p) \/ Append(p) \/ AppendReply(p)
       \/ SettleSend(p) \/ Finish(p) \/ FinishReply(p) \/ RecordOutcome(p)
       \/ RenewTick(p) \/ Claim(p) \/ ClaimResume(p) \/ ClaimUnrunnable(p) \/ SettleUnrunnable(p)
       \/ CancelFlag(p) \/ CancelHere(p) \/ CancelElsewhere(p)
       \/ SweepUnread(p) \/ SweepSpec(p)
       \/ Suspend(p) \/ SuspendFlushed(p) \/ SuspendRelease(p) \/ Die(p)

Spec == Init /\ [][Next]_vars

-----------------------------------------------------------------------------
(* Fairness. A live process runs its tasks: its coroutines go on, its       *)
(* threads' statements execute, its writer, lease, dispatch and sweep loops *)
(* tick. An unrenewed lease lapses. Nobody owes a launch, a fault, a        *)
(* cancel, a revoked key, a SIGTERM or a crash. The engine may be silent:   *)
(* that every attempt ends (the engine answers, or a counter of the runner  *)
(* reaches its limit) is EngineAnswers, a premise of its own.               *)

ProcessStep(p) ==
  \/ LaunchSpec(p) \/ StartRun(p) \/ RunnerStops(p)
  \/ FlushSpec(p) \/ FlushSend(p) \/ AppendReply(p)
  \/ SettleSend(p) \/ FinishReply(p)
  \/ ClaimResume(p) \/ ClaimUnrunnable(p) \/ SettleUnrunnable(p)
  \/ CancelHere(p) \/ CancelElsewhere(p)
  \/ SuspendFlushed(p) \/ SuspendRelease(p)

Fairness ==
  /\ WF_vars(LeaseLapse /\ UNCHANGED faults)
  /\ \A p \in Proc :
       /\ WF_vars(ProcessStep(p))
       /\ WF_vars(RecordOutcome(p))
       /\ WF_vars(Append(p) \/ Finish(p))
       /\ WF_vars(RenewTick(p) /\ run'[p].stop # "revoked")
       /\ WF_vars(Background /\ Claim(p))
       /\ WF_vars(SweepUnread(p))

\* The engine may never answer again.
SilentEngineSpec == Spec /\ Fairness
\* No attempt is under way for ever: weak fairness of RunnerEnds, which an
\* attempt enables until it ends.
EngineAnswers == \A p \in Proc : []<>~(Alive(p) /\ run[p].pc = "run" /\ run[p].stop = "none")

-----------------------------------------------------------------------------
(* Type invariant.                                                          *)

Run == [pc : {"none", "run", "settle", "record", "end"}, n : Nat, held : BOOLEAN,
        specw : BOOLEAN, stop : {"none", "cancel", "revoked", "restart", "lease_lost"},
        assigned : Nat, committed : Nat, pend : SUBSET Record, infl : SUBSET Record,
        tail : SUBSET Record, text : SUBSET Token, len : Nat,
        goal : {"none"} \cup Outcomes, fin : SUBSET Record, leaving : BOOLEAN]
Call == [op : {"none", "append", "finish"}, st : {"none", "sent", "ok", "lost", "error"},
         n : Nat, recs : SUBSET Record, owned : BOOLEAN, goal : {"none"} \cup Outcomes,
         text : SUBSET Token]
ClaimState == [st : {"none", "claimed", "unrunnable"}, n : Nat, logged : SUBSET Record,
               cancel : BOOLEAN]

\* Every variable stays in its type.
TypeOK ==
  /\ status \in {"none", "open"} \cup Outcomes
  /\ owner \in Proc \cup {None} /\ live \in BOOLEAN /\ cancelReq \in BOOLEAN
  /\ attempt \in Nat /\ spec \in BOOLEAN /\ answer \in SUBSET Token
  /\ log \in SUBSET Record
  /\ proc \in [Proc -> {"up", "stopping", "flushed", "drained", "dead"}]
  /\ launching \in [Proc -> {"no", "marked", "specced"}]
  /\ run \in [Proc -> Run]
  /\ call \in [Proc -> Call]
  /\ claiming \in [Proc -> ClaimState]
  /\ cancelling \in [Proc -> {"no", "flagged", "pending", "elsewhere"}]
  /\ recorded \in Nat /\ webhooks \in Nat /\ faults \in Nat

-----------------------------------------------------------------------------
(* Safety.                                                                  *)

\* However many processes write (a lapsed lease leaves two runners, a late
\* append meets a new claim), the committed records are numbered 1, 2, 3, ...
\* with no gap and no number twice: readers replay by sequence number.
LogIsAList == Numbered(log)

\* "The text can only be extended, never regenerated" (durable.py): the k-th
\* delta of the log is the token generated for place k, across suspends,
\* claims, lost answers and two runners.
TextNeverRegenerated ==
  \A d \in Deltas(log) : d.tok.pos = Cardinality({e \in Deltas(log) : e.seq <= d.seq})

\* The text settled with the terminal records is the logged deltas (finish:
\* "MUST equal the run's logged deltas in order"), and the terminal record is
\* the last of the log.
AnswerIsTheLog ==
  \A d \in {r \in log : r.ev = "done"} :
    /\ status \in {"completed", "failed"}
    /\ answer = Text(log)
    /\ d.seq = LastSeq(log)

\* What a process shows its local readers (Run._tail) is committed: a crash
\* of the process right now takes back nothing a reader has seen.
WriteAhead == \A p \in Proc : run[p].tail \subseteq log /\ run[p].committed <= LastSeq(log)

\* The recorder (usage, idempotency, webhook) runs at most once for a
\* response and only for a settled one, whoever else thought to settle it.
RecordedOnce == recorded <= 1 /\ (recorded = 1 => status \in Outcomes)

\* The webhook of a background response is queued at most once.
WebhookOnce == webhooks <= 1 /\ (webhooks = 1 => status \in Outcomes)

-----------------------------------------------------------------------------
(* Why the log is a list: the inductive invariant behind LogIsAList.        *)

\* Every number a run inherited or gave is in the log or in its buffers; it
\* gave none twice, and the terminal record has the last.
NumbersAccountedFor(r, L) ==
  LET kept == r.pend \cup r.infl
  IN /\ 1..r.assigned \subseteq Seqs(L \cup kept \cup r.fin)
     /\ Unique(kept) /\ NoConflict(kept, r.fin)
     /\ \A x \in kept : x.seq <= r.assigned
     /\ r.fin = {} \/ (r.fin = {Done(r.assigned)} /\ r.pc \in {"settle", "record"})

\* Records in flight are in the call that carries them, until it is answered.
InFlightIsSent(r, c) ==
  /\ r.infl \subseteq c.recs
  /\ r.infl # {} => c.op # "none" /\ c.n = r.n /\ (c.op = "finish" => r.pc = "settle")

\* A call fits the log it was built for, and any log it may still meet.
CallExtendsLog(c, L) ==
  /\ Unique(c.recs) /\ Dense(L \cup c.recs)
  /\ c.st = "ok" => c.recs \subseteq L

\* What a claim read is a list, and still in the log.
ClaimedIsLogged(k, L) == Numbered(k.logged) /\ k.logged \subseteq L

\* The numbering discipline of every writer, whoever holds the lease.
NumberingInv ==
  /\ Numbered(log)
  /\ \A p \in Proc : /\ NumbersAccountedFor(run[p], log)
                     /\ InFlightIsSent(run[p], call[p])
                     /\ CallExtendsLog(call[p], log)
                     /\ ClaimedIsLogged(claiming[p], log)

-----------------------------------------------------------------------------
(* What a step may never do.                                                *)

\* A settled row is never opened, settled differently or written to again,
\* and the answer its readers got stays.
SettledForGood ==
  [][(status \in Outcomes) => status' = status /\ log' = log /\ answer' = answer]_vars

\* A live lease is never taken from its owner: it is released, it lapses or
\* the run settles first.
NoLeaseTheft ==
  [][owner # None /\ live => owner' \in {owner, None}]_vars

\* The response as its readers see it.
Readers == INSTANCE ResponseLog WITH published <- log, outcome <- status
ReadersView == Readers!LogSpec

-----------------------------------------------------------------------------
(* Liveness, while some process stays up and faults end.                    *)

\* A cancel request settles the response wherever its run is, or was, though
\* the engine may be silent for ever.
CancelSettles == cancelReq ~> status \in Outcomes

\* No accepted response stays open for ever, if every attempt ends: its runner
\* settles it, another process resumes it, or the sweep of unread runs closes it.
EventuallySettled == EngineAnswers => (Open ~> status \in Outcomes)

-----------------------------------------------------------------------------
(* What the documents say and the code does not do.                         *)

\* "the job becomes a ROW with its spec" (background.py): whoever claims a
\* background row finds the spec to run it from.
ClaimedRowHasSpec == \A p \in Proc : claiming[p].st # "unrunnable"

\* "response.completed, response.failed, response.cancelled, each fired once
\* at the true terminal state" (CONTRACT.md, section 14): the webhook of a
\* settled background response is queued.
SettledFiresWebhook == (Background /\ status \in Outcomes) ~> webhooks = 1

=============================================================================
