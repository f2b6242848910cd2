# `/v1` under load, deploys and failures: a verification project

This project models the part of the TechSara local AI platform that is hardest
to test: what happens to a `/v1` request between its `Idempotency-Key` and its
webhook. A response survives deploys, crashes and database outages, waits for
gates and for seats of an engine it shares with chat, is followed by clients
that come and go, and is announced by a queue that retries. The project lives
beside `orchestrator/app/` and is read with it: every definition of a model
names, in `PROJECT.json` under `map`, the lines it translates.

## 1. Inventory

The platform is a FastAPI orchestrator (`orchestrator/app`), a Next.js front
end, a Node gateway that relays client streams (`gateway`), an engine
controller (`monitoring/engine-controller`), a launcher around docker compose
and some satellite services. Chat and the public API share one database and a
few language-model engines. The parts that carry state and concurrency:

| component | state | operations | hard behaviour |
|---|---|---|---|
| durable store `publicapi/durable_store.py` | row `api_responses` (status, lease, attempt, cancel flag, progress), spec in `api_response_requests`, log `api_response_events` | mark_durable, put_spec, claim, renew, release, append, finish, sweeps, poll | several owners, lapsed leases, lost answers |
| durable runtime `publicapi/durable.py` | `Run` objects (buffers, sequence numbers, text), readers, timers | launch, drive, flush, settle, lease tick, claim and resume, dispatch, follow, suspend, sweep | coroutines interleave at every await; SIGTERM and crash at any point; two processes during a blue/green overlap |
| background jobs `publicapi/background.py` | legacy in-process jobs, cancel flag | start, cancel, repair, drain | cancel races claim and settlement |
| events and streaming `publicapi/events.py`, `streaming.py` | the event grammar of a response | render, continue | a resume repeats or skips stages |
| gates `publicapi/capacity.py`, `liveness.py`, `disk_ledger.py` | permits of each engine, engine-down clock, disk budget | take, release, report | one representative per gate group, starvation |
| admission `admission.py`, `kv_budget.py` | lanes, waiters, KV reservations | acquire, release, close, yield | leaks, priority inversion, everyone waiting |
| webhooks `apiplatform/webhooks/` | deliveries with a lease | enqueue, claim, deliver, retry, settle stale | a worker dies or answers late; duplicates |
| idempotency and quotas `apiplatform/idempotency.py`, `quotas.py` | key claims, reservations | claim, finish, release | two requests with one key, stale claims |
| file jobs `apifiles/queue.py`, `jobs.py`, `retention.py` | leased jobs | enqueue, claim, heartbeat, finish, sweep | lease lapse, retry limit, deletion under work |
| breaker and engine state `breaker.py`, `engine_state.py` | closed / open / half-open, recovery state | allow, record, probe | concurrent probes, stale results |
| chat continuity `continuity.py`, `continuation.py`, `resilience.py` | interrupted chat answers | resume, retry | restarts |
| uploads `uploads.py`, `core/partfile.py` | part files, sessions | chunk, finalise, cancel, sweep | finaliser races cancel |
| audio jobs `publicapi/audio_jobs.py` | leased jobs | as file jobs | as file jobs |
| gateway `gateway/lib/` | a client stream, an upstream attempt | relay, re-attach, drain | re-attach by sequence number |
| engine controller | restart budget, incidents | probe, restart | restart storms |

How they meet. The router claims the key of a request, launches a run (or
follows the one the key names) and binds the key to it: `IdempotencyKey`. The
run's process writes the row and the log under a lease: `DurableRun`. A
background row waits in the database until a dispatcher claims it and its
runner has its gates: `GateDispatch`. Every attempt of the runner is a call to
the engine that passes admission: `Admission`. Clients read the log, wherever
the run is: `DurableFollow`. The recorder of a settled run finishes the key and
queues the webhook: `WebhookQueue`. The gateway re-attaches a cut stream by the
sequence number it saw last; everybody else meets only in the database.

What makes each correct, in one sentence per module:

* `DurableRun`: whatever the processes do, a response is one list of events that
  is extended but never changed, is settled once, together with its last events,
  is recorded at most once, and is settled in the end.
* `DurableFollow`: a follower gets every record once and in order, whatever it
  is moved through, and an ended stream is a complete one.
* `IdempotencyKey`: one key is one run at a time, a request is answered with a
  response to its own body, and no claim pins a key.
* `WebhookQueue`: one sweep sends a delivery at a time, a status tells the
  truth, the attempts and the backlog are bounded, and every delivery settles.
* `GateDispatch`: one queued run stands for its gate group, a slot is given to
  one and comes back, and nobody waits for ever (but in the line of
  `main.extended`: section 6).
* `Admission`: no seat leaks, a closure admits nobody and ends, chat does not
  starve `/v1`, and nobody who waits for an idle engine keeps chat out.

The hazards are listed in `PROJECT.json`, at the line where each bites;
components that are not modelled are listed there with the reason.

## 2. Plan

| module | what | composes with |
|---|---|---|
| `EventLog` | records and the operations on sets of them | used by `ResponseLog`, `DurableRun` |
| `ResponseLog` | abstract specification: what readers are promised | implemented by `DurableRun` |
| `DurableRun` | row, log, processes: launch to settlement, cancel, recorder | store, runtime and cancel in one module |
| `DurableFollow` | followers of one process: tail, log, shared poll, eviction, SIGTERM | takes the log of `DurableRun` as a length that grows |
| `IdempotencyKey` | the key, the requests that carry it and their runs | takes a run and its recorder as `DurableRun` shows them: settled once, recorded at most once |
| `GateDispatch` | dispatcher and capacity gates of one process | composes both; a claim is one answer, as `DurableRun`'s |
| `Admission` | lanes and the arbiter of long work | a yield of a run to chat is a step here and in `GateDispatch` |
| `WebhookQueue` | deliveries, sweeps, endpoints | an enqueue is one of `DurableRun`'s `webhooks` |
| `*_proofs` | lemmas and theorems, section 7 | |

Open, in the order that seems worth it: the orphan timer (the mark and its clear
are two writes from threads) with the OCR discard that asks `ever_followed`; the
event grammar of a run across resumes (`queued`, `in_progress`, items); the
quarantine and the pending-bytes cap, which relate several runs of a process;
the file-job queue; the KV budget under `Admission`; the breaker, uploads and
the gateway. Every safety property of the runs that pass is a theorem. Theorems
still worth having: a refinement of the gates and of the lanes (a counter with a
first-come line), the store of `DurableFollow` as what `DurableRun` shows, and the
steps the liveness properties rest on (a wait that is over stays over until its
step), as far as they can be said without fairness.

## 3. The modules

**`EventLog`.** The table of events has the key `(response_id,
sequence_number)`, so a log is a *set* of records `[seq, ev, tok]`. That it is a
list (`Numbered`) is something the writers must achieve. `ev` is one of
`created`, `delta`, `done`; the item and part events, `queued` and
`in_progress` are numbered the same way and are left out. A token is
not a string: it is the place in the answer it was generated for and the
attempt that generated it, which is all the properties tell apart.

**`ResponseLog`.** Three steps: accept, publish (the list grows at its end),
settle (the outcome and the last events together). Nothing after settlement.

**`DurableRun`.** One response and a set `Proc` of process incarnations. `OWNER`
(durable.py:95) has a random suffix, so a restarted process is another `Proc`
and a crash is for ever. State and code:

| variables | code |
|---|---|
| `status, owner, live, cancelReq, attempt, answer` | the row; `live` is `lease_expires_at > now()` |
| `spec`, `log` | `api_response_requests`, `api_response_events` |
| `proc[p]` | `Runtime.stopping` and how far `suspend_all` is |
| `launching[p]` | a `launch` between its store calls |
| `run[p]` | the `Run` in `Runtime.runs`: `pc` where its runner is, `n` the attempt it was built for, `held` = `lease_held`, `stop` = `stop_reason`, `assigned`/`committed` the sequence counters, `pend`/`infl` = `_pending`/`_inflight`, `tail` what local readers may see, `text`/`len` = `pieces`, `goal`/`fin` the settlement, `leaving` = listed by `suspend_all` |
| `call[p]` | the `append` or `finish` in flight (`Runtime._lock` admits one) |
| `claiming[p]`, `cancelling[p]` | `_claiming`, `_cancel_pending` and the coroutine between its awaits |
| `recorded`, `webhooks` | how often `_record` ran and a webhook was queued |
| `faults` | how many faults a behaviour has used |

A store call is a transaction, one atomic step. Where its answer can come late
(append, finish, claim) the model has a step that issues it, a step that
executes it and a step that handles the answer; the answer can be lost although
the transaction committed. A reply is applied only to the Run it was sent for
(`n`). A SIGTERM is three steps (stop, flush and specs, release), a crash one.
Deltas are single tokens: the store coalesces, but a batch is appended whole or
not at all, so any coalescing is a batch of tokens here.

*What is folded.* `Generate` and `RunnerEnds` stand for the loop of attempts
(`_drive`, `_attempt`): a retry, a yield to chat, a wait for a gate or for the
store continue the same text and leave no trace in this state. Quarantine,
stalled-attempt and fault counters only decide *when* a run ends, which
`RunnerEnds` leaves open. A foreground launch and a claim of the same response
in the same process are kept apart (`Claim` wants `launching = "no"`): the only
way to combine them is a lease lapse of a full TTL between two statements of
the launch. `SuspendFlushed` allows a failed flush whenever a fault has
happened, more than the code does. `CancelElsewhere` does the read and the
finish of `_cancel_durable` in one step: finish checks the lease again. The
orphan timer (a foreground run nobody follows is stopped) is left out.

*A late append of the same process.* `_claim_and_resume` does not take
`Runtime._lock`. A process that claims a row again may read the log while an
`append` of its earlier Run still executes, and the store accepts that append,
since the owner is the same. The new Run then starts behind the log; its first
batch meets numbers that are taken, is refused, and the Run gives up a lease
that nobody took. The model does all of that (it is why three attempts are
needed in the safety runs), and the log, the text and the answer stay right.

**`DurableFollow`.** The readers of one process, for any number of responses
and clients. What `DurableRun` shows lets it keep the log of a response as its
length `last`: records are numbered 1, 2, 3, ... and never change. The Run and
the other processes are `DurableRun` seen from outside:

| variables | code |
|---|---|
| `last, settled, owner` | per response: the end of the log, a terminal status, whose live lease it is (this process, another, nobody) |
| `obj` | every `Run` object this process built, since a follower keeps the one it began with: `sent` (in the store), `committed` (`committed_seq`), `first` (start of `_tail`), `fin`/`terminal`, `aborted`, `stop`; `refused` is a ghost: finish settled nothing for it |
| `runs` | `Runtime.runs`: which object is there, 0 for none |
| `stopping, leaving` | `Runtime.stopping`; the runs `suspend_all` has listed |
| `client[c]` | a follower: `st` where its coroutine is, `pos` the position, `got` what it was given since `start`; `q`, `queued`, `mark` its queue; `late` is a ghost: it joined the shared poll while one was under way |
| `before[c]` | who among the readers started before `c` did: the order of `_Reader.started` without its times |
| `poll` | `poll_remote_once` between its awaits: positions asked for, result, responses still to go through |

The queue of a remote follower is a set of records and at most one marker:
records are queued in ascending order (`queued`), and nothing behind a marker is
ever read, because each marker ends the generator and its queue. A poll is four
steps: choose the positions, execute the statement, have the answer, apply it
response by response; in between followers come and go. `Starts` does a claim,
or a launch, in one step: how it is done is `DurableRun`. A client that attaches
again after `aborted` or `evicted` is another client. Notes and heartbeats leave
no trace. `sync` readers (`Handle.wait`) have no cap and no position and are
left out.

**`IdempotencyKey`.** One row `(project, endpoint, key)`, the requests that carry
the key, and the runs they launch. A run has the name of the request that
launched it.

| variables | code |
|---|---|
| `key` | the row: `st`, whose claim (`by`), `resp` = `response_id`; `stale` is "in flight for longer than the lease", `expired` is past `expires_at` |
| `pc` | a request between its awaits: claim, read of the winner, the second try, launch, bind, give back, answered |
| `served` | the response it was answered with |
| `run`, `recorder` | the durable run it launched and `on_finish` |
| `faults, lapses` | crashes and failed writes; lapses are deadlines that ended, or claims that went, under work that goes on |

`Claim` is one upsert with its whole `WHERE` (`Reclaimable`); the loser's read
is a statement of its own, and so is the second try when the row has gone in
between. `FinishRow` is `finish_idempotency`: it is not pinned to a claim, so
whoever comes late finishes the claim that is there by then. The bind of the
launch and the finish of the recorder are unordered, as in the code. Two bodies
are equal or not (`Body`); how a body is put into canonical form is left out.

**`WebhookQueue`.** The table of deliveries, the sweep of each process, the
console's switches.

| variables | code |
|---|---|
| `row` | a delivery: `status`, `attempt`, and `wait`, the reason `next_attempt_at` lies ahead: a claim's lease, a failed attempt's backoff, or nothing |
| `endpoint` | active, disabled, disabled past the grace ("parked"), deleted |
| `counting` | an enqueue whose `INSERT ... SELECT` has counted the backlog in its snapshot and not yet inserted |
| `sweep`, `sending` | what a sweep picked and has not claimed; what it claimed, with the attempt it saw and the consumer's answer |
| `received, revived, faults, stalls, enables` | accounting |

The pick and the claim are two statements of one transaction with `SKIP LOCKED`
and a re-check (`StillDue`): two steps here. `Record` is
`record_webhook_attempt`: it finds the row by its id alone. `Crash` is a process
that dies with its batch in hand; `ComesDue` is time, and a lease that ends
under a live sender counts as a stall. `Fairly` is the ranking that gives a
project its share of a batch. Each endpoint is its own project here. Signing,
the SSRF policy, the history of attempts and a resend by hand are left out.

**`GateDispatch`.** The gates of `capacity.py` and the dispatcher of
`durable.py`, in one process on one event loop: code between two awaits is one
step, but that a run between two of its gates may be seen there.

| variables | code |
|---|---|
| `gate[k]` | a `_Gate`: the line, `in_flight`, `used_tokens` |
| `pc[u], level[u]` | where a runner or a caller is, and how far along its `Path` it is (the exit stacks of `_take_gates` and `_hold_main`) |
| `stop[u], front[u]` | `stop_reason`; it comes back from a yield and goes to the front |
| `chat` | `chat_long_admission_present()`: a large prefill is ahead of the engine |
| `row` | a background row: due, claimed here, elsewhere, settled |
| `pass`, `waiter`, `key` | a `dispatch_once` between its awaits, `_gate_waiters`, `dispatch_key` |
| `launchedHere, staggered` | `_launched_here`; the stagger of rows a former process left |

There are three kinds of gate. `main.normal` and those of the sidecars are
counted (`_counted`: `Enter`, `Wake`, `Released`): a limit, a line, and whoever
leaves hands his place on. A gate resolves a future (`granted`); the waiter runs
later or is cancelled first, and then gives the grant back (`Forgotten`).
`Granting` is `_grant_waiters`: the loop that lets the head in as long as it is
admissible. The two main gates go through `_hold_main`. First the run waits
while a large prefill is ahead (`Defer`; it looks for a stop only while it is
ahead). Then admission admits its answer: a step of the path, the `Door`
(`Knock`, and `Admitted`, `Refused` or, with a stop, `GiveUp`). `main.long` is
counted and has the Door behind it. `main.extended` has the Door before it, and
what it does then depends on the answer. Who got a ticket is only `_tallied`
(`Tally`): in flight past any line and limit, and gone without a grant
(`TallyLeaves`). Who got none, a LONG prompt, is counted on the same
`in_flight`. So `Seated` names the gates admission's seats cap, `Ticketed` the
users whose answer gets a ticket: admission decides it by the prompt, the
output and the origin (`preadmit`), which do not change between attempts. When
admission answers is an input; that it seats and frees is module `Admission`'s.

A caller is a foreground run or a sidecar call. The gates of a path are distinct
(`GateAssumption`), as `gates_for` returns them. `HandleStop` of a yield goes on
at once: the wait of `_yield` for the chat turn to leave is `Admission`'s. The
ten seconds a sidecar call may wait for chat are time in `start`. Notices to a
waiter, a waiter's deadline (the legacy synchronous path has one; a `/v1` wait
has none), an admission without `preadmit`, the down-grace clock and the disk
budget are left out.

**`Admission`.** The three lanes of `Lanes` (`ls`) and where each request is
(`pc`), on one event loop.

| parts of `ls` | code |
|---|---|
| `chat, v1, streak` | the two class queues of NORMAL and `chat_streak` |
| `kv, ripe` | the arbiter's waiters by `enqueued_at`; those past `ADMISSION_V1_KV_PROMOTE_S` |
| `active` | seats taken per lane and origin |
| `closed, closers, idle` | the closure of a LONG prefill, the tickets that hold it, the tickets in the idle wait |
| `spent, held` | the `/v1` closure budget of a window; `chat_long_refused_at` |
| `prefill, decode, asked, yields, calls` | the patient ledger: entries, those asked to yield, how often, and callbacks scheduled |

`NormalRound` and `KvRound` are one turn of the two pumps, which run until a
round changes nothing (`NormalPump`, `KvPump`, recursive functions on the states
of the lanes). The arbiter's order is a `Rank` of the places of its line: chat,
then `/v1`; with a promoted `/v1` head, the chat before it, `/v1`, the other
chat; `Choice` is the one of least rank that is not blocked. A bound, a grace, a
window may end at any time, and the engine sample may say idle or busy at any
time, since another tenant uses the engine too. A request that recurs is
followed by another one like it: a stream of chat turns that never ceases. Left
out: the KV budget (every charge fits, so seats, closures and order are what
holds a waiter back), `ADMISSION_CHAT_LONG_BESIDE_V1_ANSWERS=proceed`, the depth
a caller is told, metrics.

Definitions marked *Faulty* are not used by the specification. Each is a
plausible bug of the definition that follows, and substituting it must break a
property (`mutants` in `PROJECT.json`).

## 4. The runs

The `MC` modules name processes, requests and rows and give the instances. Every
run that passes is exhaustive. Deadlock is not checked in any: a settled response
whose processes are idle or dead, a queue with nothing due, a process whose
clients are gone have stopped, as they should. Two workers take between half a
minute and three and a half minutes for each.

| run | specification and instance | checks |
|---|---|---|
| `Foreground` | `DurableRun`, plain foreground: 2 tokens, 3 attempts, 1 fault | `LogIsAList`, `TextNeverRegenerated`, `AnswerIsTheLog`, `WriteAhead`, and that `DurableRun` implements `ResponseLog` (`ReadersView`) |
| `Background` | `DurableRun`, background, cancel: 1 token, 3 attempts, 1 fault | `TypeOK`, `RecordedOnce`, `WebhookOnce`, `SettledForGood`, `NoLeaseTheft` |
| `Settles` | `DurableRun` with a silent engine, background, cancel: 0 tokens, 4 attempts, 1 fault | `CancelSettles`, `EventuallySettled` |
| `SpecBeforeClaim` | `DurableRun`, background: 1 token, 2 attempts, no fault | finds `ClaimedRowHasSpec` violated |
| `FollowMoves` | `DurableFollow`: 1 response, 1 client, 2 records, 2 Runs, no fault, fair | `FollowsInOrder`, `EndsComplete`, `FollowersEnd` |
| `FollowersShare` | `DurableFollow`: 1 response, 3 clients, cap 2, 1 record, 1 Run, 1 fault | `EndsComplete`, `FollowerCap` with the types |
| `JoinsPoll` | `DurableFollow`: 2 responses, 2 clients, no Run, no fault | finds `JoinersServed` violated |
| `Webhooks` | `WebhookQueue`: 2 deliveries of 1 endpoint with a cap of 1, 2 sweeps, 1 connection, 2 attempts, 1 fault, 1 enable, fair | `OneSender`, `StatusIsTrue`, `AttemptsBounded`, `BacklogBounded`, `DeliveredForGood`, `DeliveriesSettle` |
| `KeyedRequests` | `IdempotencyKey`: 3 requests, one with another body, 2 faults, fair | `OneRunPerKey`, `ServedItsOwnBody`, `AnswerIsKept`, `ClaimsEnd` |
| `GateLines` | `GateDispatch`: a row with a LONG prompt and a caller with a ticket, both of `Door`, `main.extended`, `main.normal`; a caller of `main.normal`; 1 slot each, 1 fault, fair | `NoGrantMissed`, `EveryWaitEnds` |
| `RouterLine` | `GateDispatch`: rows of weight 2 and 5 and a caller of weight 1 at a gate of 2 slots and 3 tokens, 1 fault, fair | `GateCountsItsHolders` with the types, `OneRepresentative`, `ServedInOrder`, `EveryRowEnds` |
| `LaneLines` | `Admission`: 2 chat turns that recur, a patient `/v1` answer, a chat document, a patient `/v1` document, a pre-admitted long answer; 1 seat per lane, fair | `SeatsAreHeld` with the types, `ClosedByItsHolder`, `NoSeatIdles`, `ClosureAdmitsNobody`, `ClosureEnds`, `PatientIsServed`, `PatientGivesWay` |

The `DurableRun` runs have two processes, of which one (`Stable`) stays up in
the passing ones; the other may be stopped, crash, stall. Processes, rows and
requests are not interchangeable, so there is no symmetry. Clients are: no
action names one, and `FollowersShare`, which checks invariants only, uses that
symmetry.

*Why the bounds are enough.*

* `DurableRun`. Two processes give every pair of actors: old owner and new,
  owner and canceller, launcher and dispatcher, and one process with its own
  late call. Three attempts give a resume, a resume by the same process and its
  meeting with its own late append. Two tokens let a batch be in flight while
  the next is pending; one still lets a batch and the terminal records race. One
  fault is one split brain (a lapse under a healthy owner) or one lost answer;
  crash, SIGTERM and lapses of abandoned leases are free. `Settles` has no
  tokens, since progress does not depend on the text, and four attempts: a
  bound that stopped `Claim` would make a run that claims again look stuck.
* `DurableFollow`. The tail holds one record and a page one, so that two records
  already make a follower fall behind the tail and a poll stop at a full page.
  Two Runs give one that comes back after it was stolen, suspended or refused.
  Three clients and a cap of two give two that share the poll while a third is
  closed. A follower only meets its own response, the shared poll and the cap of
  its run, so one response is enough where nobody joins in the middle of a poll;
  `JoinsPoll` has two because there it is not.
* `IdempotencyKey`. Three requests are an old claim, the one that takes it over
  and one in between with another body; two faults let the first crash and its
  run's write fail, or a claim lapse twice. A run that settles in any process is
  one step, so processes do not matter.
* `WebhookQueue`. Two sweeps and two deliveries make a pick that another claim
  overtakes and a batch with one bad row; two attempts a retry and the last one.
  A cap of one with one connection leaves room for exactly one pending row; a
  cap that is exceeded needs a revived row. One endpoint leaves the ranking of
  projects unexercised (section 8).
* `GateDispatch`. Two gates in a row, one slot each, are the smallest case in
  which two runs could wait for each other. One with a ticket and one without
  are a tallied and a counted holder of `main.extended`; the third stands
  behind whoever withdraws from `main.normal`. Three users of `main.long`
  (`LongPath` in place of `MainPath`) pass the same properties; there the gate
  is held while admission is awaited. Weight 5 is heavier than the budget, weights 2 and 1
  fill it exactly. Row 1 is left over from a former process, row 2 launched here.
* `Admission`. One seat per lane makes every pair of requests of a lane compete;
  each of the six is the only one of its kind except the chat turns, of which
  there are two so that one always waits when the other leaves. A chat weight of
  one makes the patient answer wait for its turn.

Every action occurs in the runs, with each of its branches. The theorems of
section 7 remove the bounds for the properties they name.

## 5. Fairness

`DurableRun`'s `Fairness` asks weak fairness of what a live process does without
being asked: its coroutines go on (`ProcessStep`), statements in its threads
execute, its lease, dispatch and sweep loops tick, and an expired lease is
expired. It asks nothing of launches, faults, cancels, revoked keys, SIGTERM or
crashes, and nothing of the engine: `SilentEngineSpec` is what `Settles` checks.
`CancelSettles` holds under that alone. `EventuallySettled` adds its own premise,
`EngineAnswers`: a run that stays at its engine is not left there for ever. In
the code a silent engine ends in an attempt limit (stalled attempts, engine
faults, yields); the counters are not modelled, so the property says what it
needs. The loops catch every exception and sleep for a fixed time
(`_writer_loop`, `_lease_loop`, `_dispatch_loop`, `_sweep_loop`), which is why
weak fairness of their bodies is justified; the retries of a settlement are
bounded by `MaxFaults`: a database that never comes back is outside the promise.

*Followers.* Every follower coroutine goes on, the poller loop polls and
finishes a poll (`_poller_loop` catches every exception), a Run of this process
does what it owes once its row is settled or its lease gone, and a `suspend_all`
ends. Nobody owes a claim, an append, a settlement, a disconnect. `FollowersEnd`
therefore speaks only of responses that are settled; that they are is
`EventuallySettled`.

*Keys.* A request and a recorder that are alive go on (their steps are a
database call each, bounded by the pool's timeouts). Nobody owes a request, an
outcome or a prune, and no lease need end: `ClaimsEnd` holds without that.

*Webhooks.* The sweep loop runs for ever, an attempt ends within its ten
seconds, an enqueue's insert follows its count, backoffs and grace periods run
out. The console owes nothing; a retention that never comes is allowed, and so
is a lease that never ends under a sender that lives.

*Gates.* The event loop runs every ready coroutine, an attempt ends (its answer,
its limit or the liveness guard), admission answers whom it lets wait without a
clock (`PatientIsServed` and `ClosureEnds` of `Admission` are its side of it),
the dispatch loop runs for ever, the stagger ends. A user, like the pass, can
take one of these steps at a time at most, so one weak fairness for all of a
user's (`Owed`) is one for each. Clients, other processes and faults owe
nothing, and neither do chat documents: they may come for ever, so nothing is
said of the wait of `_yield_to_chat`. Each retry of an
interrupted attempt uses a fault, so an engine that interrupts for ever is
outside the promise.

*Lanes.* A coroutine whose wait is over goes on, a bound or a grace runs out, a
call that was sent ends. Nobody owes an idle engine, a first token, a client
that leaves. Each of these steps is enabled for as long as the request is in the
state it leaves, so weak fairness of the step is the same as "outside of that
state again and again", which is how `Fairness` is written: it spares TLC the
pumps in the evaluation of ENABLED.

## 6. Disagreements found

Two runs show what the code does against what its documents say:

* **A row can be claimed before it has a spec** (`SpecBeforeClaim`).
  `Runtime.launch` commits the background row with `mark_durable` and stores its
  spec with a second statement. `due_for_resume` lists the row as soon as the
  first has committed, and a dispatcher of any process, the launching one too,
  may claim it before the second: it finds no spec and settles the response
  `failed`. No fault is needed.
* **A follower that joins the shared poll while one is under way** (`JoinsPoll`).
  `poll_remote_once` chooses responses and positions before its await and hands
  the result to whoever is registered after it. A response first followed in
  between is missing from the result, which is taken for a deleted row: its
  follower's stream ends, though the response is open. With one response instead,
  a follower that joins below the position asked for gets the records above it
  and never those between. `FollowsInOrder` and `EndsComplete` say what holds
  for every other follower; the flag `late` marks these.

Seven more stand as definitions at the end of the modules; TLC refutes each under
the specification and instance named. They have no run of their own.

* **A row that cannot be run never gets its webhook**: `SettledFiresWebhook` of
  `DurableRun` (background, fair, no fault). `_settle_unrunnable` settles with
  `finish` and returns; the recorder and `_notify` belong to `_settle`.
  CONTRACT.md promises `response.failed` once at the true terminal state. A
  crash between `finish` and `_record` has the same effect.
* **A refused settlement ends local streams**: `EndsAfterTerminal` of
  `DurableFollow` (1 response, 1 client, 2 records, 1 Run). `_settle` makes the
  run terminal also when `finish` returned no row: the lease is another's, or the
  answer of an earlier `finish` was lost. Local followers take `terminal` for the
  end and stop without an error, perhaps in the middle of an answer that goes on
  elsewhere. `EndsComplete` excludes those (`Misled`).
* **The failure of a run may not free its key**: `FailureFreesTheKey` of
  `IdempotencyKey` (`Spec`, `KeyedRequests`' instance, no fault). The bind at
  router.py:2926 comes after the run has started and is unordered with the
  recorder of that run. A run that fails at once frees the key (router.py:791),
  and the bind then names the failed response: a retry is given the failure
  back, although router.py:679-682 says it runs again. `finish_idempotency` has
  the claim's id to tell the two apart (db.py:9485-9489); no caller passes it.
* **A group of rows may hide another's**: `EveryGroupLookedAt` of `GateDispatch`
  (three rows, two of `main.extended`, one of `main.normal`, `Scan` 2, no
  fault). `due_for_resume` takes the oldest rows of each *engine*; two gate
  groups share the main engine, and the rows of one that waits fill the scan.
  `dispatch_once` says that for each group the oldest due row is claimed
  whenever none of it waits (durable.py:3147-3156). With the code's scan it
  takes that many waiting rows.
* **A LONG prompt may wait for ever at a free gate**: `LongPromptsServed` of
  `GateDispatch` (`GateLines`' instance, no fault). A caller with a ticket is
  tallied at `main.extended`; a background row with a LONG prompt, which gets no
  ticket, finds the gate full and stands in its line; the caller is answered and
  leaves, and `_tallied` subtracts one without `_grant_waiters`
  (capacity.py:716-718). The gate is free, nothing pumps its line until another
  counted holder leaves, and the wait has no clock. The row keeps its
  `dispatch_key`, so no other row of its gate group is claimed either. capacity.py
  says of such an answer that it is capped by this gate's own FIFO count
  (35-42), that a heavy request is not starved by a stream of light ones
  (82-85), and of `_grant_waiters` that free capacity goes to the head of the
  line (251). Answers with a ticket pass the line besides. `NoGrantMissed` and
  `EveryWaitEnds` say what holds: every gate but this one's line.
* **An attempt may be counted twice**: `NeverCountedTwice` of `WebhookQueue`
  (`Spec`, `Webhooks`' instance, two faults). A sender that outlives its lease
  records its attempt by the row's id, after another sweep has claimed and
  counted it. worker.py:44-46 says two sweeps never double-count; queue.py:83-86
  relies on the lease being longer than an attempt. `AttemptsBounded` says what
  remains true: one more per stall.
* **A document is refused for answers that are parked behind it**:
  `RefusedForAnswersOnTheEngine` of `Admission` (`LaneLines`' instance).
  At the bound of its idle wait a document asks whether
  `long_output.active > 0` (admission.py:2092), which counts pre-admitted answers
  that its own closure has parked; `_ahead` (1654-1659) subtracts them because
  they are not on the engine, and the module's text (95-102) speaks of sequences
  on the engine. While another tenant keeps the engine busy, a patient document
  and a parked patient answer wait for each other.

## 7. What is proved

`tlapm` checks the eight proof modules completely, for any values of the
constants, from the `ASSUME` of each module alone. `DataInduction` holds lemmas
only. Every invariant and every action property of the runs that pass is among
the theorems, and so is the refinement; what is left to TLC is liveness.

| theorem | property | module |
|---|---|---|
| `TypeCorrect` | `[]TypeOK` | `DurableRun_proofs` |
| `WritersFit` | `[]NumberingInv` | `DurableRun_proofs` |
| `ListCorrect` | `[]LogIsAList` | `DurableRun_proofs` |
| `ShownIsCommitted` | `[]WriteAhead` | `DurableRunReaders_proofs` |
| `SettledStays` | `SettledForGood` | `DurableRunReaders_proofs` |
| `LeaseKept` | `NoLeaseTheft` | `DurableRunReaders_proofs` |
| `Implements` | `ReadersView`: `Spec => Readers!LogSpec` | `DurableRunReaders_proofs` |
| `RecordedAtMostOnce` | `[]RecordedOnce` | `DurableRunReaders_proofs` |
| `WebhookAtMostOnce` | `[]WebhookOnce` | `DurableRunReaders_proofs` |
| `TextIsExtended` | `[]TextNeverRegenerated` | `DurableRunReaders_proofs` |
| `AnswerIsLogged` | `[]AnswerIsTheLog` | `DurableRunReaders_proofs` |
| `FollowersInOrder` | `[]FollowsInOrder` | `DurableFollow_proofs` |
| `StreamsEndComplete` | `[]EndsComplete` | `DurableFollow_proofs` |
| `FollowerCapAlways` | `[]FollowerCap` | `DurableFollow_proofs` |
| `IdempotencyTypeCorrect` | `[]IdempotencyTypeOK` | `IdempotencyKey_proofs` |
| `OneRunPerKeyHolds` | `[]OneRunPerKey` | `IdempotencyKey_proofs` |
| `ServedItsOwnBodyHolds` | `[]ServedItsOwnBody` | `IdempotencyKey_proofs` |
| `AnswerIsKeptAlways` | `AnswerIsKept` | `IdempotencyKey_proofs` |
| `WebhookTypeCorrect` | `[]WebhookTypeOK` | `WebhookQueue_proofs` |
| `OneSenderAlways` | `[]OneSender` | `WebhookQueue_proofs` |
| `StatusIsTrueAlways` | `[]StatusIsTrue` | `WebhookQueue_proofs` |
| `DeliveredStays` | `DeliveredForGood` | `WebhookQueue_proofs` |
| `AttemptsBoundedAlways` | `[]AttemptsBounded` | `WebhookQueue_proofs` |
| `BacklogBoundedAlways` | `[]BacklogBounded` | `WebhookQueue_proofs` |
| `OneRepresentativeAlways` | `[]OneRepresentative` | `GateDispatch_proofs` |
| `GateCountsAlways` | `[]GateCountsItsHolders` | `GateDispatch_proofs` |
| `NoGrantMissedAlways` | `[]NoGrantMissed` | `GateDispatch_proofs` |
| `ServedInOrderAlways` | `ServedInOrder` | `GateDispatch_proofs` |
| `SeatsAreHeldAlways` | `[]SeatsAreHeld` | `Admission_proofs` |
| `NoSeatIdlesAlways` | `[]NoSeatIdles` | `Admission_proofs` |
| `ClosedByItsHolderAlways` | `[]ClosedByItsHolder` | `Admission_proofs` |
| `ClosureAdmitsNobodyAlways` | `ClosureAdmitsNobody` | `Admission_proofs` |

*Types of `DurableRun`.* `TypeInv` is `TypeOK` with every set of records finite:
only then is the end of a log (`LastSeq`) a number.

*The list.* That the log is numbered 1, 2, 3, ... is not inductive: it depends
on what the writers hold. `NumberingInv` adds, for each process, that every
number its Run inherited or gave is in the log or in its buffers and none was
given twice (`NumbersAccountedFor`), that what is in flight is in a call that
says so (`InFlightIsSent`), that the records of a call, added to the log it was
built for or any later one, leave no gap (`CallExtendsLog`), and that what a
claim read is still there (`ClaimedIsLogged`). The store refuses a batch that
conflicts, so two runners need no agreement: the second one's numbers are taken.
The module begins with the lemmas about sets of records, above all
`AppendKeepsList`.

*The readers.* `ReaderInv` says that what a process shows is in the log, that a
settlement carries its outcome from the moment it is decided, and that a row
nobody launched has no owner. With it, one lemma per variable says how the row,
the owner and the shown records may change in a step; the two action properties
and the refinement follow.

*The recorder.* A process is *told* when the answer of a `finish` that settled
is on its way to the Run that sent it, and *records* while its Run is in
`_record`. `RecorderInv`: at most one process is told or records, only for a
settled row, and only while nothing was recorded and no webhook was queued. The
cancel of a run nobody holds queues its webhook in the step that settles, so it
and a recorder exclude each other.

*The text.* `TextInv`: every Run that works either *continues* the log (the log
and what the Run holds back are an ordered text, the Run's own) or is *behind*
(another writer took one of its numbers, so whatever it sends is refused). A
batch that is accepted has the log's next number (`NextIsWritten`): it leaves
every other Run behind and every other call refused, so at most one writer's
text ever goes on. A claim reads an ordered text and so resumes where it ends
(`ResumedText`); a settlement carries the text of the log it completes
(`SettlesFit`).

*The followers.* `FInv` has three parts. `StoreInv`: a Run has no record the
store has not, all of them once it settled the row, and its memory has all of
them once it is terminal, unless its `finish` was refused. `FollowerOK`: a
follower has exactly the records from its start to its position, and one of the
log has in its queue exactly what lies between its position and `queued`; an end
mark says that the row is settled and everything is queued. `Fits`, which makes
it inductive: what a poll under way brings begins at or before what each of its
followers was queued, and a follower with no mark was asked for. A follower that
registers while a poll is under way breaks `Fits`: that is the flag `late`, and
the proof shows that nothing else does. `Forward` says what the Runs and the
other processes may do to the store between two steps of a follower, so each of
their steps is proved against it once.

*The follower cap.* `CapInv`: `before` is irreflexive and transitive, and the
readers of a Run, and of a response in the shared poll, are a finite set no
larger than the cap. Of a finite set that is not empty one has nobody of the set
before it (`OldestIs`), so at the cap the one that comes takes the place of one
that is there, never of itself; every other step only loses readers
(`NoneComes`). Nothing is assumed of the number of clients.

*The key.* `KeyInv` holds while nothing lapsed: whoever may still launch, write
or record an answer has the claim (`OwedHaveTheKey`), a key past its deadline or
without a response has nobody at work (`OldMeansDone`, `FreeMeansDone`), and
what the key names was launched, for the body of the claim
(`ResponseIsOfItsBody`). The bind that the code does not order may come after
the key was freed and claimed again; `LateBindersAgree` says that its body is
then still the claim's, and that is what keeps the answers right.

*The deliveries.* `HeldInv`: whoever holds a delivery has counted no more
attempts than the row, and an answer of 2xx in its hands was received. With it
`StatusIsTrue` is preserved by every step, stalls or not. `SoleInv`, for
behaviours without a stall: nobody else holds it, the row is leased or was
settled because of its endpoint, and the count is the row's. `OneSender` and
`DeliveredForGood` follow. The bounds count instead: only the claim of a due row
adds a holder, and by then each other holder has cost a stall (`AttemptInv`);
each connection that saw room is one more row at most (`BacklogInv`, which needs
the pool to be finite, `PoolAssumption`).

*The representative.* `RepresentInv`: the row being claimed and every waiting run
with its key are the `waiter` of their group, and a run that has left has no
key. The gates themselves play no part, so the proof needs nothing about lines.

*Loops and sums.* `_grant_waiters` and the pumps of the lanes are loops whose
length depends on data, and the charges of a gate are a sum. `DataInduction` has
the induction they need in a form the provers can use, with sets in the place of
predicates: a set of numbers that is not empty has a least member, a set of
numbers with 0 and every successor is all of them. From that: a loop that repeats
a round until it changes nothing, whose rounds stay in a set and make a number
smaller, ends in that set, in a state the round does not change (`PumpEnds`); a
function on the subsets of a finite set that gives each the sum of its members'
charges exists and is the one the recursive definition computes (`SumsExist`,
`SumLoopIs`); and what is left of a line after its first places are gone
(`Suffix`) or one of its members is (`RemoveFirstKeeps`).

*The gates.* `GatesInv`: a runner at level `n` holds the first `n` gates of its
path, a gate has just its holders in flight, those its own count let in
(`CountedOf`) and their charges are within its limits, its line holds just those
who wait at it, each once and none of them with a ticket there, and whoever is
at its head does not fit (`GateFits`). The last part leaves out `Seated` gates,
where it is false: a tallied holder leaves without a grant. The others hold
there too, which is what `OneMoreIn` and `WithdrawGate` show for counted and
tallied holders alike. Between two statements of a step the last part fails: a
release frees a place before it is handed on. `GrantingServes` is the lemma for
that: from any state of a gate that counts its holders, the loop lets in a first
part of the line, counts it, and stops at a head that does not fit. A waiter that
is cancelled in the tick of its grant has been counted by the grant, so `Forgotten`
gives back what it was charged. `ServedInOrder` follows because only a first part
of a line is ever granted, and who is counted in at once finds the line empty; a
tallied holder is not counted in (`Own`), and none of this is said of him.

*The lanes.* `AInv` relates who is at which stage (`pc`) to the lanes: the seats
counted of each lane, chat and `/v1` apart, are those of the requests that have
one (`Fits`), the three lines hold just those who wait, each once, in the line of
their lane and class; nobody waits for what is free (`NoSeatIdles`); who keeps the
lanes closed is at the engine with LONG's one seat (`Closure`), and LONG's own
stages belong to documents (`LongStages`). Whoever frees a seat pumps in the same
step; what only time frees (the `/v1` window, the hold after a refusal) a tick
hands out, which is why `NoSeatIdles` leaves out `/v1` in the long line. `PumpStep`: a step that brings the lanes to a state in which
seats and lines fit, though not yet handed out, and then pumps, keeps `AInv`; the
pump lets in only whom its rounds find free (`PumpedServed`), so while the lanes
are closed nobody (`NobodyLetIn`). That the closure has one holder rests on LONG's
one seat (`AdmissionAssumption`): it is lifted in five places, and each is shown
to take it from that holder only.

## 8. What is only model-checked, and what is not modelled

Liveness (`EventuallySettled`, `CancelSettles`, `FollowersEnd`, `ClaimsEnd`,
`DeliveriesSettle`, `EveryWaitEnds`, `EveryRowEnds`, `ClosureEnds`,
`PatientIsServed`, `PatientGivesWay`) stays with TLC: liveness under fairness and
ENABLED are beyond the prover. The two runs that find a property violated have
nothing to prove. The `MC` modules' instances are not proved to be instances: TLC
evaluates every `ASSUME` on them.

Not stated: that something is recorded *at least* once (a crash after `finish`
refutes it), and when the sweep drops a stored spec that came late.

Modelled but not exercised by the instances: a project's share of a webhook
sweep (one endpoint), the seats reserved for chat (one seat per lane leaves
nothing to reserve), two enqueues that race (one connection; the theorem has any
pool).

Folded: one claim per process is in flight in `DurableRun`, which is what the
set `_claiming` is for, so what two would do cannot be expressed;
`WebhookQueue.Count` takes the listing of endpoints and the snapshot of the
INSERT together; `IdleWait` of `Admission` takes the notice of a new count to
its listener (an await) and the request to yield together, which matters only
for asking once too often.

Not modelled, and why:

* of the durable runtime: the orphan timer and OCR re-reads (their marks are
  columns nothing else reads), the quarantine of runs an engine fault implicated
  and the pending-bytes cap (they stop a run as `RunnerEnds` and the attempts
  allow, and count bytes and faults no model has), file preparation, progress,
  retention, `Handle.wait`;
* of the gates: the down-grace clock, the disk ledger, the notices, a wait with a
  deadline, an admission without `preadmit`;
* of admission: the KV budget (arithmetic over one engine's pool),
  `ADMISSION_CHAT_LONG_BESIDE_V1_ANSWERS=proceed`, a LONG_OUTPUT lane switched
  off (`ADMISSION_LONG_OUTPUT_MAX_SEQS=0` refuses at arrival), and more than one
  LONG seat: `ADMISSION_LONG_MAX` is 1 in the code's default and CONTRACT.md;
* of the queue: signing, the SSRF policy, the overflow row's count, a resend by
  hand;
* the event grammar and the rendering of streams (sequential text building),
  planning and validation in the router, quotas (one upsert per counter), the
  legacy in-process background jobs;
* file and audio jobs (leased queues of the webhook queue's shape over work that
  is I/O), breaker, uploads, gateway, engine controller, and the chat
  application with its memory, search, knowledge, voice and sign-in: text, media
  and I/O with little state shared between processes beyond the database.
