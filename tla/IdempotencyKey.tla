--------------------------- MODULE IdempotencyKey ---------------------------
(***************************************************************************)
(* One (project, endpoint, Idempotency-Key): its row                        *)
(* (apiplatform/idempotency.py, db.finish_idempotency), the requests that   *)
(* carry the key and the runs they launch (publicapi/router.py). Statements *)
(* are atomic; between two of a request anything may happen.                *)
(*                                                                          *)
(* A run is named by the request that launched it. It settles in whatever   *)
(* process resumes it, and its recorder, wherever that runs, finishes the   *)
(* claim of the request (DurableRun: at most once, RecordedOnce).           *)
(***************************************************************************)
EXTENDS Integers, FiniteSets

CONSTANTS
  Request,
  Body,          \* fingerprint of each request's body
  NoResponse,    \* response_id IS NULL
  MaxFaults      \* bound: crashes, failed writes, deadlines that lapse on work

ASSUME IdempotencyAssumption == NoResponse \notin Request /\ MaxFaults \in Nat

VARIABLES
  key,           \* the row; stale: in flight for longer than the lease;
                 \* expired: past expires_at
  pc,            \* where each request is
  served,        \* the response each request was answered with
  run,           \* the run each request launched
  recorder,      \* its recorder: "due" once settled, "recorded" once it finished
                 \* the claim
  faults,        \* faults used of MaxFaults
  lapses         \* those that let a claim lapse, or go, while its work goes on

vars == <<key, pc, served, run, recorder, faults, lapses>>

NoRow == [st |-> "none", by |-> NoResponse, resp |-> NoResponse, stale |-> FALSE, expired |-> FALSE]
ClaimedRow(q) == [NoRow EXCEPT !.st = "in_flight", !.by = q]

Settled == {"completed", "failed", "cancelled"}
Answers == {"bound", "refused", "replayed", "in_progress", "conflict", "error", "gone"}

\* q is at work: its request, its run or its recorder.
Working(q) == pc[q] \in {"won", "launched", "failing"} \/ run[q] = "open" \/ recorder[q] = "due"

Init ==
  /\ key = NoRow
  /\ pc = [q \in Request |-> "new"]
  /\ served = [q \in Request |-> NoResponse]
  /\ run = [q \in Request |-> "none"]
  /\ recorder = [q \in Request |-> "no"]
  /\ faults = 0 /\ lapses = 0

Fault == faults < MaxFaults /\ faults' = faults + 1
\* A deadline or an error that leaves the work of q without its claim is a fault.
LapseIf(lapse) ==
  IF lapse THEN Fault /\ lapses' = lapses + 1 ELSE UNCHANGED <<faults, lapses>>

-----------------------------------------------------------------------------
(* The claim: one upsert; the loser reads who won, by the same instant.     *)

SameBody(q) == Body[key.by] = Body[q]

\* Faulty: the lease is not looked at.
LeaseIgnored(q) ==
  \/ key.expired
  \/ SameBody(q) /\ \/ key.st = "in_flight"
                    \/ key.st = "completed" /\ key.resp = NoResponse
\* Faulty: a claim that failed is taken over by another body.
BodyIgnored(q) ==
  \/ key.expired
  \/ key.st = "in_flight" /\ key.stale /\ SameBody(q)
  \/ key.st = "completed" /\ key.resp = NoResponse
\* The WHERE of the ON CONFLICT DO UPDATE.
Reclaimable(q) ==
  \/ key.expired
  \/ SameBody(q) /\ \/ key.st = "in_flight" /\ key.stale
                    \/ key.st = "completed" /\ key.resp = NoResponse

Claim(q) ==
  /\ pc[q] = "new"
  /\ IF key.st = "none" \/ Reclaimable(q)
     THEN key' = ClaimedRow(q) /\ pc' = [pc EXCEPT ![q] = "won"]
     ELSE pc' = [pc EXCEPT ![q] = "lost"] /\ UNCHANGED key
  /\ UNCHANGED <<served, run, recorder, faults, lapses>>

\* What the row says to a request that lost: 409 for another body, "still
\* running" without a response, else attach to the response or replay it.
Answered(q) ==
  /\ key.st # "none"
  /\ pc' = [pc EXCEPT ![q] = IF ~SameBody(q) THEN "conflict"
                             ELSE IF key.resp = NoResponse THEN "in_progress" ELSE "replayed"]
  /\ served' = IF SameBody(q) THEN [served EXCEPT ![q] = key.resp] ELSE served

ReadWinner(q) ==
  /\ pc[q] = "lost"
  /\ \/ Answered(q)
     \/ key.st = "none" /\ pc' = [pc EXCEPT ![q] = "again"] /\ UNCHANGED served
  /\ UNCHANGED <<key, run, recorder, faults, lapses>>

\* The row was pruned in between: once more, by the instant of the first try
\* (when a row claimed since had neither expired nor outlived its lease).
ClaimAgain(q) ==
  /\ pc[q] = "again"
  /\ IF key.st = "none" \/ (key.st = "completed" /\ key.resp = NoResponse /\ SameBody(q))
     THEN key' = ClaimedRow(q) /\ pc' = [pc EXCEPT ![q] = "won"]
     ELSE pc' = [pc EXCEPT ![q] = "lost again"] /\ UNCHANGED key
  /\ UNCHANGED <<served, run, recorder, faults, lapses>>

ReadAgain(q) ==
  /\ pc[q] = "lost again"
  /\ \/ Answered(q)
     \/ key.st = "none" /\ pc' = [pc EXCEPT ![q] = "error"] /\ UNCHANGED served
  /\ UNCHANGED <<key, run, recorder, faults, lapses>>

-----------------------------------------------------------------------------
(* The work of the winner.                                                  *)

\* finish_idempotency without a claim_id: whoever claimed the live row.
FinishRow(resp) ==
  key' = IF key.st # "none" /\ ~key.expired
         THEN [key EXCEPT !.st = "completed", !.resp = resp] ELSE key

\* durable.launch, background.start
Launch(q) ==
  /\ pc[q] = "won"
  /\ run' = [run EXCEPT ![q] = "open"]
  /\ pc' = [pc EXCEPT ![q] = "launched"]
  /\ UNCHANGED <<key, served, recorder, faults, lapses>>

\* Refused before it launched; or (a fault) the launch raised after its row
\* and spec were stored, and the run goes on without its claim.
LaunchFails(q) ==
  /\ pc[q] = "won"
  /\ pc' = [pc EXCEPT ![q] = "failing"]
  /\ \/ UNCHANGED <<run, faults, lapses>>
     \/ run' = [run EXCEPT ![q] = "open"] /\ LapseIf(TRUE)
  /\ UNCHANGED <<key, served, recorder>>

\* _finish_claim(held, handle.id): the key is bound to the run.
Bind(q) ==
  /\ pc[q] = "launched"
  /\ FinishRow(q)
  /\ pc' = [pc EXCEPT ![q] = "bound"]
  /\ UNCHANGED <<served, run, recorder, faults, lapses>>

\* Faulty: a request that failed keeps its claim.
KeepClaim(q) == UNCHANGED key
\* _nothing_ran: a request that failed gives the key back.
GiveBack(q) == FinishRow(NoResponse)

Release(q) ==
  /\ pc[q] = "failing"
  /\ GiveBack(q)
  /\ pc' = [pc EXCEPT ![q] = "refused"]
  /\ UNCHANGED <<served, run, recorder, faults, lapses>>

\* The write raises; _finish_claim goes on.
WriteFails(q) ==
  /\ Fault
  /\ \/ /\ pc[q] \in {"launched", "failing"}
        /\ pc' = [pc EXCEPT ![q] = IF @ = "launched" THEN "bound" ELSE "refused"]
        /\ UNCHANGED recorder
     \/ /\ recorder[q] = "due"
        /\ recorder' = [recorder EXCEPT ![q] = "lost"]
        /\ UNCHANGED pc
  /\ UNCHANGED <<key, served, run, lapses>>

\* The run settles and is recorded later, unless it settles on a path that
\* records nothing (a sweep, a row without spec) or its recorder dies.
Settle(q) ==
  /\ run[q] = "open"
  /\ \E outcome \in Settled : run' = [run EXCEPT ![q] = outcome]
  /\ \E r \in {"due", "lost"} : recorder' = [recorder EXCEPT ![q] = r]
  /\ UNCHANGED <<key, pc, served, faults, lapses>>

\* Faulty: a cancelled response releases the key too.
OnlyCompleted(q) == IF run[q] = "completed" THEN q ELSE NoResponse
\* A failed response releases the key, any other is replayed.
Outcome(q) == IF run[q] = "failed" THEN NoResponse ELSE q

Record(q) ==
  /\ recorder[q] = "due"
  /\ FinishRow(Outcome(q))
  /\ recorder' = [recorder EXCEPT ![q] = "recorded"]
  /\ UNCHANGED <<pc, served, run, faults, lapses>>

\* The process that serves q dies; its run is durable.
Crash(q) ==
  /\ pc[q] \notin Answers \cup {"new"} /\ Fault
  /\ pc' = [pc EXCEPT ![q] = "gone"]
  /\ UNCHANGED <<key, served, run, recorder, lapses>>

-----------------------------------------------------------------------------
(* Time. The lease outlasts twice the longest generation and its wait, the  *)
(* retention any run: to lapse while work goes on is a fault.               *)

LeaseEnds ==
  /\ key.st = "in_flight" /\ ~key.stale
  /\ LapseIf(\E q \in Request : Working(q))
  /\ key' = [key EXCEPT !.stale = TRUE]
  /\ UNCHANGED <<pc, served, run, recorder>>

Expire ==
  /\ key.st # "none" /\ ~key.expired
  /\ LapseIf(\E q \in Request : Working(q))
  /\ key' = [key EXCEPT !.expired = TRUE]
  /\ UNCHANGED <<pc, served, run, recorder>>

\* prune_api_platform
Prune ==
  /\ key.expired
  /\ key' = NoRow
  /\ UNCHANGED <<pc, served, run, recorder, faults, lapses>>

-----------------------------------------------------------------------------
Next ==
  \/ \E q \in Request :
       \/ Claim(q) \/ ReadWinner(q) \/ ClaimAgain(q) \/ ReadAgain(q)
       \/ Launch(q) \/ LaunchFails(q) \/ Bind(q) \/ Release(q) \/ WriteFails(q)
       \/ Settle(q) \/ Record(q) \/ Crash(q)
  \/ LeaseEnds \/ Expire \/ Prune

Spec == Init /\ [][Next]_vars

(* Fairness. A request and a recorder that are alive go on. Nobody owes a   *)
(* request, an outcome, a fault or a prune.                                 *)
Serve(q) == ReadWinner(q) \/ ClaimAgain(q) \/ ReadAgain(q) \/ Launch(q) \/ Bind(q) \/ Release(q)

FairSpec == Spec /\ \A q \in Request : WF_vars(Serve(q)) /\ WF_vars(Record(q))

-----------------------------------------------------------------------------
(* Every variable stays in its type.                                        *)
IdempotencyTypeOK ==
  /\ key \in [st : {"none", "in_flight", "completed"}, by : Request \cup {NoResponse},
              resp : Request \cup {NoResponse}, stale : BOOLEAN, expired : BOOLEAN]
  /\ key.st = "none" <=> key.by = NoResponse
  /\ key.st # "completed" => key.resp = NoResponse
  /\ pc \in [Request -> Answers \cup {"new", "lost", "again", "lost again", "won", "launched", "failing"}]
  /\ served \in [Request -> Request \cup {NoResponse}]
  /\ run \in [Request -> {"none", "open"} \cup Settled]
  /\ recorder \in [Request -> {"no", "due", "recorded", "lost"}]
  /\ faults \in Nat /\ lapses \in Nat

\* "the work runs, exactly once": while no deadline lapsed on work that goes
\* on, two requests with the key are never at work at once, whoever crashes and
\* however late the writes of a first one come.
OneRunPerKey ==
  lapses = 0 =>
    \A q, r \in Request : run[q] = "open" /\ run[r] = "open" => q = r

\* A request is answered with a response that was really launched, for its own
\* body: "returning one request's response to a different request is worse
\* than refusing both" (idempotency.py).
ServedItsOwnBody ==
  lapses = 0 =>
    \A q \in Request : served[q] # NoResponse =>
      /\ run[served[q]] # "none"
      /\ Body[served[q]] = Body[q]

\* A good answer is not thrown away: a key that names a run which has not
\* failed is not freed, nor claimed again, before its retention ends. (It may
\* come to name another run: FinishRow is not pinned to a claim.)
AnswerIsKept ==
  [][lapses = 0 /\ key.resp # NoResponse /\ run[key.resp] # "failed" /\ ~key.expired
       => key'.resp # NoResponse]_vars

\* No claim pins its key while everybody is alive: it is bound or given back
\* without waiting for its lease.
ClaimsEnd == key.st = "in_flight" ~> (key.st # "in_flight" \/ faults > 0)

-----------------------------------------------------------------------------
\* "a FAILED one releases the key so a retry runs again" (router.py,
\* _recorder): once the failure is recorded the key no longer names the run.
FailureFreesTheKey ==
  \A q \in Request : run[q] = "failed" /\ recorder[q] = "recorded" => key.resp # q
=============================================================================
