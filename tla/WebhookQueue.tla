---------------------------- MODULE WebhookQueue ----------------------------
(***************************************************************************)
(* The webhook delivery queue: a table of deliveries                        *)
(* (apiplatform/webhooks/queue.py, db.record_webhook_attempt), the sweep    *)
(* that claims and sends them (worker.py, sender.py) and the console's      *)
(* switches of an endpoint (db.update_webhook_endpoint).                    *)
(*                                                                          *)
(* A Worker is the sweep of one process; two run during a blue/green        *)
(* deployment. A worker that dies forgets what it was sending and starts    *)
(* over: the table is all it has. Every endpoint is its own project here,   *)
(* so a project's share of a sweep is an endpoint's.                        *)
(*                                                                          *)
(* next_attempt_at is the reason a row waits: "due", a claim's "lease", a   *)
(* failed attempt's "backoff", or "none" once settled.                      *)
(***************************************************************************)
EXTENDS Integers, FiniteSets

CONSTANTS
  Delivery,      \* (endpoint, event) pairs: the unique index of the table
  Endpoint,
  EndpointOf,    \* the endpoint each delivery goes to
  Worker,
  Conn,          \* pooled connections that queue deliveries
  NoDelivery,    \* a connection queues nothing
  MaxAttempts,   \* sender.MAX_ATTEMPTS
  MaxPending,    \* pending deliveries an endpoint may hold
  Share,         \* PER_PROJECT_PER_SWEEP
  Batch,         \* BATCH_SIZE
  Gate,          \* MAX_CONCURRENT_DELIVERIES
  MaxFaults,     \* bound: workers that die, history writes that fail, leases
                 \* that lapse under a live sender
  MaxEnables     \* bound: times an endpoint is enabled again

ASSUME WebhookAssumption ==
  /\ EndpointOf \in [Delivery -> Endpoint]
  /\ NoDelivery \notin Delivery
  /\ MaxAttempts \in Nat \ {0} /\ MaxPending \in Nat \ {0}
  /\ Share \in Nat \ {0} /\ Batch \in Nat \ {0} /\ Gate \in Nat \ {0}
  /\ MaxFaults \in Nat /\ MaxEnables \in Nat

\* The pool of connections is bounded.
ASSUME PoolAssumption == IsFiniteSet(Conn)

VARIABLES
  endpoint,      \* each endpoint's status; "parked": disabled past the grace
  row,           \* each delivery's row
  counting,      \* each connection's enqueue, its count of the backlog taken
  sweep,         \* each worker: what it picked, not yet claimed
  sending,       \* each worker: the deliveries of its sweep
  \* accounting
  received,      \* deliveries whose consumer answered 2xx at least once
  revived,       \* per endpoint: settled rows an outcome made pending again
  faults,        \* faults used of MaxFaults
  stalls,        \* those that were a lapse under a live sender
  enables

vars == <<endpoint, row, counting, sweep, sending, received, revived, faults, stalls, enables>>

Settled == {"delivered", "failed", "dropped"}
Statuses == {"none", "pending", "refused", "gone"} \cup Settled

Idle == [st |-> "no", seen |-> 0, outcome |-> "none"]
NoRow == [st |-> "none", attempt |-> 0, wait |-> "none"]

Of(e) == {d \in Delivery : EndpointOf[d] = e}
Pending(d) == row[d].st = "pending"
Backlog(e) == {d \in Of(e) : Pending(d)}
Holds(w, d) == sending[w][d].st # "no"
InSweep(w) == {d \in Delivery : Holds(w, d)}
Resting(w) == sweep[w] = {} /\ InSweep(w) = {}

Init ==
  /\ endpoint = [e \in Endpoint |-> "active"]
  /\ row = [d \in Delivery |-> NoRow]
  /\ counting = [c \in Conn |-> [d |-> NoDelivery, room |-> FALSE]]
  /\ sweep = [w \in Worker |-> {}]
  /\ sending = [w \in Worker |-> [d \in Delivery |-> Idle]]
  /\ received = {}
  /\ revived = [e \in Endpoint |-> 0]
  /\ faults = 0 /\ stalls = 0 /\ enables = 0

-----------------------------------------------------------------------------
(* Queueing. emit_response_event lists the endpoints and skips one that is  *)
(* not active; the INSERT ... SELECT then counts the backlog in its         *)
(* snapshot, so two that race may both see room. Each event is emitted once *)
(* (DurableRun, WebhookOnce).                                               *)

\* Faulty: a full backlog has room for one more.
RoomForOneMore(e) == Cardinality(Backlog(e)) <= MaxPending
HasRoom(e) == Cardinality(Backlog(e)) < MaxPending

Count(c, d) ==
  /\ counting[c].d = NoDelivery
  /\ row[d].st = "none" /\ \A k \in Conn : counting[k].d # d
  /\ endpoint[EndpointOf[d]] = "active"
  /\ counting' = [counting EXCEPT ![c] = [d |-> d, room |-> HasRoom(EndpointOf[d])]]
  /\ UNCHANGED <<endpoint, row, sweep, sending, received, revived, faults, stalls, enables>>

\* Over the cap the event is counted on the endpoint's overflow row; a deleted
\* endpoint has no row to put it in.
Insert(c) ==
  /\ counting[c].d # NoDelivery
  /\ LET d == counting[c].d
     IN row' = [row EXCEPT ![d] =
          IF endpoint[EndpointOf[d]] = "deleted" THEN [NoRow EXCEPT !.st = "gone"]
          ELSE IF counting[c].room THEN [NoRow EXCEPT !.st = "pending", !.wait = "due"]
          ELSE [NoRow EXCEPT !.st = "refused"]]
  /\ counting' = [counting EXCEPT ![c] = [d |-> NoDelivery, room |-> FALSE]]
  /\ UNCHANGED <<endpoint, sweep, sending, received, revived, faults, stalls, enables>>

-----------------------------------------------------------------------------
(* The sweep: pick in fairness order, claim what is still due, send.        *)

Claimable(d) == Pending(d) /\ row[d].attempt < MaxAttempts /\ row[d].wait = "due"
Due == {d \in Delivery : Claimable(d) /\ endpoint[EndpointOf[d]] = "active"}

\* At most Share of each endpoint, every endpoint's first before anyone's
\* second, as many as the batch takes.
Fairly(T) ==
  LET n(e) == Cardinality(T \cap Of(e))
      most(e) == LET k == Cardinality(Due \cap Of(e)) IN IF k < Share THEN k ELSE Share
  IN /\ \A e \in Endpoint : n(e) <= most(e)
     /\ \A e, f \in Endpoint : n(f) < most(f) => n(e) <= n(f) + 1
     /\ Cardinality(T) <= Batch
     /\ Cardinality(T) = Batch \/ \A e \in Endpoint : n(e) = most(e)

Pick(w) ==
  /\ Resting(w) /\ Due # {}
  /\ \E T \in SUBSET Due : Fairly(T) /\ sweep' = [sweep EXCEPT ![w] = T]
  /\ UNCHANGED <<endpoint, row, counting, sending, received, revived, faults, stalls, enables>>

\* Faulty: what was picked is claimed, whatever another sweep did since.
PickedIsDue(w) == sweep[w]
\* The UPDATE checks the due rule again on the locked rows.
StillDue(w) == {d \in sweep[w] : Claimable(d)}

Claim(w) ==
  /\ sweep[w] # {}
  /\ row' = [d \in Delivery |-> IF d \in StillDue(w) THEN [row[d] EXCEPT !.wait = "lease"] ELSE row[d]]
  /\ sending' = [sending EXCEPT ![w] =
       [d \in Delivery |-> IF d \in StillDue(w)
                           THEN [st |-> "claimed", seen |-> row[d].attempt, outcome |-> "none"]
                           ELSE sending[w][d]]]
  /\ sweep' = [sweep EXCEPT ![w] = {}]
  /\ UNCHANGED <<endpoint, counting, received, revived, faults, stalls, enables>>

\* One of Gate attempts at a time. The consumer may answer 2xx, fail or be slow
\* (and may have taken the event all the same), or be no target to dial.
Post(w, d) ==
  /\ sending[w][d].st = "claimed"
  /\ Cardinality({x \in Delivery : sending[w][x].st = "posted"}) < Gate
  /\ \E outcome \in {"ok", "failure", "refusal"} :
       /\ sending' = [sending EXCEPT ![w][d] = [st |-> "posted", seen |-> @.seen, outcome |-> outcome]]
       /\ received' = IF outcome = "ok" /\ row[d].st # "gone" THEN received \cup {d} ELSE received
  /\ UNCHANGED <<endpoint, row, counting, sweep, revived, faults, stalls, enables>>

\* Faulty: one attempt too few, one too many.
LastButOne(seen) == seen + 2 >= MaxAttempts
LastPlusOne(seen) == seen >= MaxAttempts
\* _finish_failure: attempts_made >= max_attempts, counted from the claimed row.
BudgetSpent(seen) == seen + 1 >= MaxAttempts

\* The status an attempt is recorded with.
Recorded(s) ==
  CASE s.outcome = "ok"      -> "delivered"
    [] s.outcome = "refusal" -> "dropped"
    [] OTHER                 -> IF BudgetSpent(s.seen) THEN "failed" ELSE "pending"

\* record_webhook_attempt: by id alone, whatever the row says by now.
Record(w, d) ==
  /\ sending[w][d].st = "posted"
  /\ LET st == Recorded(sending[w][d])
         e == EndpointOf[d]
     IN IF row[d].st = "gone" THEN UNCHANGED <<row, revived>>
        ELSE /\ row' = [row EXCEPT ![d].st = st, ![d].attempt = @ + 1,
                                   ![d].wait = IF st = "pending" THEN "backoff" ELSE "none"]
             /\ revived' = IF st = "pending" /\ ~Pending(d)
                           THEN [revived EXCEPT ![e] = @ + 1] ELSE revived
  /\ sending' = [sending EXCEPT ![w][d] = Idle]
  /\ UNCHANGED <<endpoint, counting, sweep, received, faults, stalls, enables>>

\* The write raises; run_once goes on, the row keeps its lease.
RecordFails(w, d) ==
  /\ sending[w][d].st = "posted" /\ faults < MaxFaults
  /\ faults' = faults + 1
  /\ sending' = [sending EXCEPT ![w][d] = Idle]
  /\ UNCHANGED <<endpoint, row, counting, sweep, received, revived, stalls, enables>>

\* The process dies or its sweep is cancelled, and one starts again.
Crash(w) ==
  /\ ~Resting(w) /\ faults < MaxFaults
  /\ faults' = faults + 1
  /\ sweep' = [sweep EXCEPT ![w] = {}]
  /\ sending' = [sending EXCEPT ![w] = [d \in Delivery |-> Idle]]
  /\ UNCHANGED <<endpoint, row, counting, received, revived, stalls, enables>>

-----------------------------------------------------------------------------
(* Time. A lease is longer than a sweep's attempts, so it lapses under a    *)
(* live sender only when that sender is held up (a stall). A backoff may    *)
(* end at any time.                                                         *)

InHand(d) == \E w \in Worker : Holds(w, d)

ComesDue(d) ==
  /\ Pending(d) /\ row[d].wait \in {"lease", "backoff"}
  /\ IF row[d].wait = "lease" /\ InHand(d)
     THEN faults < MaxFaults /\ faults' = faults + 1 /\ stalls' = stalls + 1
     ELSE UNCHANGED <<faults, stalls>>
  /\ row' = [row EXCEPT ![d].wait = "due"]
  /\ UNCHANGED <<endpoint, counting, sweep, sending, received, revived, enables>>

-----------------------------------------------------------------------------
(* Maintenance, between two sweeps of a worker: settle what can no longer   *)
(* be sent, then prune. Rows are independent: one action settles one. How   *)
(* old a row is, is left open: any may have passed its retention.           *)

Drop(d) == row' = [row EXCEPT ![d].st = "dropped", ![d].wait = "none"]

\* settle_stale_pending: the endpoint disabled past its grace, the row expired.
SettleParked(w, d) ==
  /\ Resting(w) /\ Pending(d) /\ endpoint[EndpointOf[d]] = "parked"
  /\ Drop(d)
  /\ UNCHANGED <<endpoint, counting, sweep, sending, received, revived, faults, stalls, enables>>

SettleExpired(w, d) ==
  /\ Resting(w) /\ Pending(d)
  /\ Drop(d)
  /\ UNCHANGED <<endpoint, counting, sweep, sending, received, revived, faults, stalls, enables>>

\* prune_settled_deliveries
Prune(w, d) ==
  /\ Resting(w) /\ row[d].st \in Settled
  /\ row' = [row EXCEPT ![d] = [NoRow EXCEPT !.st = "gone"]]
  /\ received' = received \ {d}
  /\ UNCHANGED <<endpoint, counting, sweep, sending, revived, faults, stalls, enables>>

-----------------------------------------------------------------------------
(* The console.                                                             *)

Disable(e) ==
  /\ endpoint[e] = "active"
  /\ endpoint' = [endpoint EXCEPT ![e] = "disabled"]
  /\ UNCHANGED <<row, counting, sweep, sending, received, revived, faults, stalls, enables>>

GraceEnds(e) ==
  /\ endpoint[e] = "disabled"
  /\ endpoint' = [endpoint EXCEPT ![e] = "parked"]
  /\ UNCHANGED <<row, counting, sweep, sending, received, revived, faults, stalls, enables>>

\* Clears disabled_at.
Enable(e) ==
  /\ endpoint[e] \in {"disabled", "parked"} /\ enables < MaxEnables
  /\ endpoint' = [endpoint EXCEPT ![e] = "active"]
  /\ enables' = enables + 1
  /\ UNCHANGED <<row, counting, sweep, sending, received, revived, faults, stalls>>

\* The deliveries go with it (FK CASCADE).
Delete(e) ==
  /\ endpoint[e] # "deleted"
  /\ endpoint' = [endpoint EXCEPT ![e] = "deleted"]
  /\ row' = [d \in Delivery |-> IF d \in Of(e) /\ row[d].st # "none"
                                THEN [NoRow EXCEPT !.st = "gone"] ELSE row[d]]
  /\ received' = received \ Of(e)
  /\ UNCHANGED <<counting, sweep, sending, revived, faults, stalls, enables>>

-----------------------------------------------------------------------------
WorkerNext(w) ==
  \/ Pick(w) \/ Claim(w) \/ Crash(w)
  \/ \E d \in Delivery : Post(w, d) \/ Record(w, d) \/ RecordFails(w, d)
                         \/ SettleParked(w, d) \/ SettleExpired(w, d) \/ Prune(w, d)

Next ==
  \/ \E c \in Conn : Insert(c) \/ \E d \in Delivery : Count(c, d)
  \/ \E w \in Worker : WorkerNext(w)
  \/ \E d \in Delivery : ComesDue(d)
  \/ \E e \in Endpoint : Disable(e) \/ GraceEnds(e) \/ Enable(e) \/ Delete(e)

Spec == Init /\ [][Next]_vars

(* Fairness. The sweep loop runs for ever and every await of it ends: the   *)
(* attempt within its ten seconds, the statements by the pool. Time passes. *)
(* The console, the emitter, retention and faults owe nothing.              *)
Fairness ==
  /\ \A c \in Conn : WF_vars(Insert(c))
  /\ \A w \in Worker :
       /\ WF_vars(Pick(w)) /\ WF_vars(Claim(w))
       /\ \A d \in Delivery : /\ WF_vars(Post(w, d)) /\ WF_vars(Record(w, d))
                              /\ WF_vars(SettleParked(w, d))
  /\ \A d \in Delivery : WF_vars(ComesDue(d) /\ UNCHANGED stalls)
  /\ \A e \in Endpoint : WF_vars(GraceEnds(e))

FairSpec == Spec /\ Fairness

-----------------------------------------------------------------------------
(* Every variable stays in its type.                                        *)
WebhookTypeOK ==
  /\ endpoint \in [Endpoint -> {"active", "disabled", "parked", "deleted"}]
  /\ row \in [Delivery -> [st : Statuses, attempt : Nat,
                           wait : {"none", "due", "lease", "backoff"}]]
  /\ counting \in [Conn -> [d : Delivery \cup {NoDelivery}, room : BOOLEAN]]
  /\ sweep \in [Worker -> SUBSET Delivery]
  /\ sending \in [Worker -> [Delivery -> [st : {"no", "claimed", "posted"},
                                          seen : 0..(MaxAttempts - 1),
                                          outcome : {"none", "ok", "failure", "refusal"}]]]
  /\ received \subseteq Delivery /\ revived \in [Endpoint -> Nat]
  /\ faults \in Nat /\ stalls \in Nat /\ enables \in Nat

\* While no lease lapsed under a live sender, a delivery is in one worker's
\* hands at a time and the attempt that worker counts on is the row's: through
\* faults, retries, a disable, a settlement and an enable in mid-send.
OneSender ==
  stalls = 0 =>
    \A w, v \in Worker : \A d \in Delivery :
      /\ Holds(w, d) /\ Holds(v, d) => w = v
      /\ Holds(w, d) /\ row[d].st # "gone" => sending[w][d].seen = row[d].attempt

\* A status tells the truth, with stalls too: "delivered" was answered 2xx, and
\* "failed" had its whole budget of attempts recorded.
StatusIsTrue ==
  \A d \in Delivery : /\ row[d].st = "delivered" => d \in received
                      /\ row[d].st = "failed" => row[d].attempt >= MaxAttempts

\* An attempt budget bounds the attempts: each stall adds one at most.
AttemptsBounded ==
  \A d \in Delivery : row[d].attempt <= MaxAttempts + stalls

\* The backlog of an endpoint exceeds its cap by at most the enqueues that
\* race, and the settled rows a late outcome made pending again.
BacklogBounded ==
  \A e \in Endpoint :
    Cardinality(Backlog(e)) <= MaxPending + Cardinality(Conn) - 1 + revived[e]

\* Without a stall a delivered event is never sent again and a failed one is
\* never retried.
DeliveredForGood ==
  [][\A d \in Delivery : stalls = 0 /\ row[d].st \in {"delivered", "failed"}
       => row'[d].st \in {row[d].st, "gone"}]_vars

\* No queued delivery waits for ever, though retention never comes: it is
\* delivered, it spends its budget, or its endpoint is parked, unless a stalled
\* sender counted an attempt twice.
DeliveriesSettle ==
  \A d \in Delivery : Pending(d) ~> (~Pending(d) \/ stalls > 0)

-----------------------------------------------------------------------------
\* "two sweeps never send the same delivery or double-count its attempt"
\* (worker.py, point 3).
NeverCountedTwice == \A d \in Delivery : row[d].attempt <= MaxAttempts
=============================================================================
