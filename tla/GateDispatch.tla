---------------------------- MODULE GateDispatch ----------------------------
(***************************************************************************)
(* The capacity gates of /v1 (publicapi/capacity.py: hold, _hold_main,      *)
(* _preadmit, _counted, _tallied, _release, _forget, _grant_waiters) and    *)
(* the dispatcher that puts queued background rows into their lines         *)
(* (publicapi/durable.py: dispatch_once, _take_gates, _leave_gate_group),   *)
(* in one process on one event loop: code between two awaits is one step,   *)
(* but that a run between two of its gates may be seen there.               *)
(*                                                                          *)
(* A user of the gates is a background row, once the dispatcher has claimed *)
(* it, or a caller that walks in (a foreground run, a sidecar call). It     *)
(* takes its Path in order: its gates and, for a run of main.long or        *)
(* main.extended, the Door, where admission (external here) admits its      *)
(* answer: main.long's behind its gate, main.extended's before it. A row's  *)
(* Path is its gate group. A gate resolves the future of the waiter it      *)
(* admits; the waiter runs later, and may be cancelled first.               *)
(*                                                                          *)
(* Most gates are _counted: a line, a limit, grants on release. At          *)
(* main.extended who has admission's ticket is only _tallied, without line  *)
(* or limit, and hands nothing on; a LONG prompt gets no ticket and is      *)
(* _counted, on the same in_flight.                                         *)
(***************************************************************************)
EXTENDS Integers, FiniteSets, SequencesExt

CONSTANTS
  Row,           \* background rows, 1, 2, ... by enqueued_at
  Caller,        \* callers that walk in
  NoRow,
  Gate,
  Door,          \* admission's pre-admission, where a Path has it
  Path,          \* each user's gates and its Door, in the order it takes them
  Seated,        \* the gates capped by admission's seats: main.extended
  Ticketed,      \* users whose answer admission takes into LONG_OUTPUT
  Engine,        \* each row's engine
  Weight,        \* each user's weight_tokens
  Concurrent,    \* each gate's max_concurrent
  Budget,        \* each gate's budget_tokens (0: none)
  Scan,          \* DISPATCH_SCAN_PER_ENGINE
  Leftover,      \* rows a former process left queued
  MaxFaults      \* bound: raising claims, lost leases, yields, interruptions,
                 \* rows another process takes

User == Row \cup Caller
Group == {Path[r] : r \in Row}

ASSUME GateAssumption ==
  /\ Row \subseteq Nat /\ NoRow \notin Row /\ Row \cap Caller = {} /\ Leftover \subseteq Row
  /\ \A u \in User : /\ Path[u] \in Seq(Gate \cup {Door}) /\ Path[u] # <<>> /\ IsInjective(Path[u])
                     /\ Weight[u] \in Nat
  /\ Door \notin Gate /\ Seated \subseteq Gate /\ Ticketed \subseteq User
  /\ \A k \in Gate : Concurrent[k] \in Nat \ {0} /\ Budget[k] \in Nat
  /\ Scan \in Nat \ {0} /\ MaxFaults \in Nat

VARIABLES
  row,           \* each row: "new", "queued" (due), "here", "elsewhere", "settled"
  launchedHere,  \* _launched_here
  staggered,     \* continuity is done and the stagger interval is over
  pass,          \* the dispatch pass: its rows to come, placed, the claim awaited
  waiter,        \* _gate_waiters: each group's representative
  key,           \* whether a row's run has its dispatch_key
  pc,            \* each user's runner
  level,         \* how far along its Path a user is
  stop,          \* stop_reason
  front,         \* yields > 0
  gate,          \* each gate's line, in_flight and used_tokens
  chat,          \* chat_long_admission_present()
  faults         \* faults used of MaxFaults

dvars == <<row, launchedHere, staggered, pass, waiter, key>>
gvars == <<pc, level, stop, front, gate, chat>>
vars == <<row, launchedHere, staggered, pass, waiter, key, pc, level, stop, front, gate, chat, faults>>

Stage == {"out", "start", "chat", "door", "line", "granted", "attempt", "between", "over"}

NoPass == [on |-> FALSE, todo |-> {}, placed |-> {}, claiming |-> NoRow]

Init ==
  /\ row = [r \in Row |-> IF r \in Leftover THEN "queued" ELSE "new"]
  /\ launchedHere = {} /\ staggered = FALSE
  /\ pass = NoPass
  /\ waiter = [g \in Group |-> NoRow]
  /\ key = [r \in Row |-> FALSE]
  /\ pc = [u \in User |-> "out"]
  /\ level = [u \in User |-> 0]
  /\ stop = [u \in User |-> "none"]
  /\ front = [u \in User |-> FALSE]
  /\ gate = [k \in Gate |-> [line |-> <<>>, inFlight |-> 0, used |-> 0]]
  /\ chat = FALSE /\ faults = 0

Fault == faults < MaxFaults /\ faults' = faults + 1

-----------------------------------------------------------------------------
(* One gate.                                                                *)

Charge(k, u) == IF Weight[u] < Budget[k] THEN Weight[u] ELSE Budget[k]

\* Faulty: the tokens are not looked at.
CountOnly(k, g, u) == g.inFlight < Concurrent[k]
Admissible(k, g, u) ==
  /\ g.inFlight < Concurrent[k]
  /\ Budget[k] > 0 /\ g.inFlight > 0 => g.used + Charge(k, u) <= Budget[k]

Counted(k, g, u) == [g EXCEPT !.inFlight = @ + 1, !.used = @ + Charge(k, u)]

GrantHead(k, g) ==
  IF g.line # <<>> /\ Admissible(k, g, Head(g.line))
  THEN [Counted(k, g, Head(g.line)) EXCEPT !.line = Tail(@)] ELSE g

GateState == [line : Seq(User), inFlight : Int, used : Int]

\* _grant_waiters: from the head of the line, as long as it is admissible.
Granting(k, g) ==
  LET Pump[h \in GateState] == LET t == GrantHead(k, h) IN IF t = h THEN h ELSE Pump[t]
  IN Pump[g]

\* _release: the place is given back (faulty if that is all), and handed on.
JustReleased(k, g, u) == [g EXCEPT !.inFlight = @ - 1, !.used = @ - Charge(k, u)]
Released(k, g, u) == Granting(k, JustReleased(k, g, u))

\* _forget: a waiter leaves; if it was granted after all, the grant goes back.
Forgotten(k, g, u) ==
  IF u \in ToSet(g.line) THEN Granting(k, [g EXCEPT !.line = RemoveFirst(@, u)]) ELSE Released(k, g, u)

\* _tallied: in flight, for the gauge; leaving hands nothing on.
Tallied(k, u) == k \in Seated /\ u \in Ticketed
TallyEnters(g) == [g EXCEPT !.inFlight = @ + 1]
TallyLeaves(g) == [g EXCEPT !.inFlight = @ - 1]

-----------------------------------------------------------------------------
(* A runner and its gates.                                                  *)

NextGate(u) == Path[u][level[u] + 1]
HeldBy(u) == {Path[u][i] : i \in 1..level[u]}
InLine(u) == pc[u] \in {"line", "granted"}

\* The gates when u gives back all it holds and waits for.
Withdrawn(u) ==
  [k \in Gate |-> IF k \in HeldBy(u)
                  THEN IF Tallied(k, u) THEN TallyLeaves(gate[k]) ELSE Released(k, gate[k], u)
                  ELSE IF InLine(u) /\ k = NextGate(u) THEN Forgotten(k, gate[k], u)
                  ELSE gate[k]]

\* Waiters the gates' new state has admitted.
Woken(new) == {v \in User : pc[v] = "line" /\ v \notin ToSet(new[NextGate(v)].line)}

\* u gives everything back and goes to where; whoever is next is granted.
Withdraw(u, where) ==
  /\ gate' = Withdrawn(u)
  /\ pc' = [v \in User |-> IF v = u THEN where
                           ELSE IF v \in Woken(gate') THEN "granted" ELSE pc[v]]
  /\ level' = [level EXCEPT ![u] = 0]

\* _leave_gate_group; for a caller there is nothing to leave.
LeaveGroup(u) ==
  IF u \in Row /\ key[u]
  THEN /\ key' = [key EXCEPT ![u] = FALSE]
       /\ waiter' = [g \in Group |-> IF waiter[g] = u THEN NoRow ELSE waiter[g]]
  ELSE UNCHANGED <<key, waiter>>

\* u has one gate more; with the last it is admitted.
Advance(u) ==
  /\ level' = [level EXCEPT ![u] = @ + 1]
  /\ pc' = [pc EXCEPT ![u] = IF level[u] + 1 = Len(Path[u]) THEN "attempt" ELSE "start"]
  /\ IF level[u] + 1 = Len(Path[u]) THEN LeaveGroup(u) ELSE UNCHANGED <<key, waiter>>

\* Faulty: whoever comes when there is room is let in, past the line.
AnyRoom(k, u) == Admissible(k, gate[k], u)
\* _counted: in at once only if nobody waits; who yielded does not queue again.
AtOnce(k, u) == (gate[k].line = <<>> \/ front[u]) /\ Admissible(k, gate[k], u)

\* _yield_to_chat: before a main gate, while a large chat prefill is ahead.
Ahead(u) == chat /\ level[u] = 0 /\ Door \in ToSet(Path[u])

Defer(u) ==
  /\ pc[u] = "start" /\ Ahead(u) /\ stop[u] = "none"
  /\ pc' = [pc EXCEPT ![u] = "chat"]
  /\ UNCHANGED <<dvars, level, stop, front, gate, chat, faults>>

\* A runner looks for a stop before its first gate; who polls the chat does not
\* look again once the chat is served.
GoesOn(u) ==
  /\ pc[u] \in {"start", "chat"} /\ ~Ahead(u)
  /\ pc[u] = "start" /\ level[u] = 0 => stop[u] = "none"

\* _counted
Enter(u) ==
  /\ GoesOn(u) /\ NextGate(u) \in Gate /\ ~Tallied(NextGate(u), u)
  /\ LET k == NextGate(u)
     IN IF AtOnce(k, u)
        THEN gate' = [gate EXCEPT ![k] = Counted(k, @, u)] /\ Advance(u)
        ELSE /\ gate' = [gate EXCEPT ![k].line = IF front[u] THEN <<u>> \o @ ELSE Append(@, u)]
             /\ pc' = [pc EXCEPT ![u] = "line"]
             /\ UNCHANGED <<level, key, waiter>>
  /\ UNCHANGED <<row, launchedHere, staggered, pass, stop, front, chat, faults>>

\* _hold_main with a ticket: past the line, whatever is in flight.
Tally(u) ==
  /\ GoesOn(u) /\ NextGate(u) \in Gate /\ Tallied(NextGate(u), u)
  /\ gate' = [gate EXCEPT ![NextGate(u)] = TallyEnters(@)]
  /\ Advance(u)
  /\ UNCHANGED <<row, launchedHere, staggered, pass, stop, front, chat, faults>>

\* _preadmit: the run awaits admission; it holds what it held.
Knock(u) ==
  /\ GoesOn(u) /\ NextGate(u) = Door
  /\ pc' = [pc EXCEPT ![u] = "door"]
  /\ UNCHANGED <<dvars, level, stop, front, gate, chat, faults>>

\* Admission answers, with a ticket or (a LONG prompt) without. A stop that came
\* first gives the ticket back: that is GiveUp.
Admitted(u) ==
  /\ pc[u] = "door" /\ stop[u] = "none"
  /\ Advance(u)
  /\ UNCHANGED <<row, launchedHere, staggered, pass, stop, front, gate, chat, faults>>

\* A granted waiter runs: stopped or not, it holds the gate.
Wake(u) ==
  /\ pc[u] = "granted"
  /\ Advance(u)
  /\ UNCHANGED <<row, launchedHere, staggered, pass, stop, front, gate, chat, faults>>

\* A stop abandons the wait (Abandoned), and what it holds.
GiveUp(u) ==
  /\ stop[u] # "none"
  /\ pc[u] \in {"line", "door"} \/ (pc[u] = "chat" /\ Ahead(u))
  /\ Withdraw(u, "between") /\ LeaveGroup(u)
  /\ UNCHANGED <<row, launchedHere, staggered, pass, stop, front, chat, faults>>

\* An attempt ends early: stopped, or (a fault) the engine interrupted it.
Interrupted(u) ==
  /\ pc[u] = "attempt"
  /\ IF stop[u] # "none" THEN UNCHANGED faults ELSE Fault
  /\ Withdraw(u, "between")
  /\ UNCHANGED <<dvars, stop, front, chat>>

Retry(u) ==
  /\ pc[u] = "between" /\ stop[u] = "none"
  /\ pc' = [pc EXCEPT ![u] = "start"]
  /\ UNCHANGED <<dvars, level, stop, front, gate, chat, faults>>

\* forget_local
Forget(r) ==
  /\ launchedHere' = launchedHere \ {r}
  /\ waiter' = [g \in Group |-> IF waiter[g] = r THEN NoRow ELSE waiter[g]]

\* The run is settled, or no longer this process's, and dropped.
Leaves(u, settles) ==
  IF u \in Row
  THEN /\ row' = IF settles /\ row[u] # "elsewhere" THEN [row EXCEPT ![u] = "settled"] ELSE row
       /\ Forget(u)
       /\ key' = [key EXCEPT ![u] = FALSE]
  ELSE UNCHANGED <<row, launchedHere, waiter, key>>

Answered(u) ==
  /\ pc[u] = "attempt" /\ stop[u] = "none"
  /\ Withdraw(u, "over") /\ Leaves(u, TRUE)
  /\ UNCHANGED <<staggered, pass, stop, front, chat, faults>>

\* Admission raises (AdmissionRejected, or a fault): the run is settled failed.
Refused(u) ==
  /\ pc[u] = "door" /\ stop[u] = "none" /\ Fault
  /\ Withdraw(u, "over") /\ Leaves(u, TRUE)
  /\ UNCHANGED <<staggered, pass, stop, front, chat>>

\* _handle_stop, at the top of the runner's loop.
HandleStop(u) ==
  /\ pc[u] \in {"between", "start"} /\ level[u] = 0
  /\ \/ /\ stop[u] = "yield"
        /\ pc' = [pc EXCEPT ![u] = "start"]
        /\ stop' = [stop EXCEPT ![u] = "none"]
        /\ front' = [front EXCEPT ![u] = TRUE]
        /\ UNCHANGED dvars
     \/ /\ stop[u] \in {"cancel", "lease_lost"}
        /\ pc' = [pc EXCEPT ![u] = IF stop[u] = "cancel" \/ u \in Caller THEN "over" ELSE "out"]
        /\ stop' = [stop EXCEPT ![u] = "none"]
        /\ Leaves(u, stop[u] = "cancel")
        /\ UNCHANGED <<staggered, pass, front>>
  /\ UNCHANGED <<level, gate, chat, faults>>

-----------------------------------------------------------------------------
(* What ends a wait or an attempt early.                                    *)

Running(u) == pc[u] \notin {"out", "over"}

Stop(u, reason) ==
  /\ stop' = [stop EXCEPT ![u] = reason]
  /\ UNCHANGED <<launchedHere, staggered, pass, waiter, key, pc, level, front, gate, chat>>

CancelRun(u) ==
  /\ Running(u) /\ stop[u] \in {"none", "yield"}
  /\ Stop(u, "cancel") /\ UNCHANGED <<row, faults>>

\* Admission asks a generation to make room for a chat LONG turn.
Yield(u) ==
  /\ pc[u] = "attempt" /\ stop[u] = "none" /\ Fault
  /\ Stop(u, "yield") /\ UNCHANGED row

LeaseLost(r) ==
  /\ Running(r) /\ row[r] = "here" /\ Fault
  /\ row' = [row EXCEPT ![r] = "queued"]
  /\ Stop(r, "lease_lost")

\* A caller is cancelled where it awaits: its client is gone.
CallerGone(c) ==
  /\ pc[c] \in {"chat", "door", "line", "granted", "attempt"}
  /\ Withdraw(c, "over")
  /\ UNCHANGED <<dvars, stop, front, chat, faults>>

Arrive(c) ==
  /\ pc[c] = "out"
  /\ pc' = [pc EXCEPT ![c] = "start"]
  /\ UNCHANGED <<dvars, level, stop, front, gate, chat, faults>>

\* A large prefill comes before the engine (a chat document waits, or the lanes
\* are closed), or has its first token.
ChatTurns ==
  /\ chat' = ~chat
  /\ UNCHANGED <<dvars, pc, level, stop, front, gate, faults>>

-----------------------------------------------------------------------------
(* Queued rows.                                                             *)

\* launch of a background response: a row, and a mark in this process.
Launch(r) ==
  /\ row[r] = "new" /\ \A s \in Row : s < r => row[s] # "new"
  /\ row' = [row EXCEPT ![r] = "queued"]
  /\ launchedHere' = launchedHere \cup {r}
  /\ UNCHANGED <<staggered, pass, waiter, key, gvars, faults>>

CancelQueued(r) ==
  /\ row[r] = "queued" /\ ~Running(r) /\ pass.claiming # r
  /\ row' = [row EXCEPT ![r] = "settled"]
  /\ Forget(r)
  /\ UNCHANGED <<staggered, pass, key, gvars, faults>>

\* Another process claims the row; it settles it, or gives it back.
TakenElsewhere(r) ==
  /\ row[r] = "queued" /\ Fault
  /\ row' = [row EXCEPT ![r] = "elsewhere"]
  /\ UNCHANGED <<launchedHere, staggered, pass, waiter, key, gvars>>

BackFromElsewhere(r) ==
  /\ row[r] = "elsewhere"
  /\ \E st \in {"queued", "settled"} : row' = [row EXCEPT ![r] = st]
  /\ UNCHANGED <<launchedHere, staggered, pass, waiter, key, gvars, faults>>

\* continuity_done; then every resume_stagger_s.
StaggerEnds ==
  /\ ~staggered /\ staggered' = TRUE
  /\ UNCHANGED <<row, launchedHere, pass, waiter, key, gvars, faults>>

-----------------------------------------------------------------------------
(* dispatch_once: between two claims a pass runs without an await.          *)

Due == {r \in Row : row[r] = "queued"}

\* due_for_resume: the oldest Scan due rows of each engine.
Scanned ==
  {r \in Due : Cardinality({s \in Due : Engine[s] = Engine[r] /\ s < r}) < Scan}

\* Faulty: whoever was reserved stands for its group, claimed or not; or nobody
\* does while a claim is in flight or a run waits.
OnceRepresented(g) == waiter[g] # NoRow
NeverRepresented(g) == FALSE
\* The group's representative is being claimed, or waits for its gates.
Represented(g) ==
  /\ waiter[g] # NoRow
  /\ \/ waiter[g] = pass.claiming
     \/ Running(waiter[g]) /\ key[waiter[g]]

Skipped(r) ==
  \/ Running(r) \/ Path[r] \in pass.placed \/ Represented(Path[r])
  \/ r \notin launchedHere /\ ~staggered

PassStarts ==
  /\ ~pass.on
  /\ pass' = [NoPass EXCEPT !.on = TRUE, !.todo = Scanned]
  /\ UNCHANGED <<row, launchedHere, staggered, waiter, key, gvars, faults>>

\* The next row nothing speaks against is reserved and its claim awaited.
PassClaims ==
  /\ pass.on /\ pass.claiming = NoRow
  /\ \E r \in pass.todo :
       /\ ~Skipped(r) /\ \A s \in pass.todo : s < r => Skipped(s)
       /\ pass' = [pass EXCEPT
            !.claiming = r, !.todo = {s \in @ : s > r},
            !.placed = @ \cup {Path[s] : s \in {x \in pass.todo : x < r /\ ~Running(x)
                                                      /\ Represented(Path[x])}} \cup {Path[r]}]
       /\ waiter' = [waiter EXCEPT ![Path[r]] = r]
       /\ staggered' = (staggered /\ r \in launchedHere)
  /\ UNCHANGED <<row, launchedHere, key, gvars, faults>>

\* The claim's answer: a runner that joins the line; a row settled at once (no
\* spec, a revoked key, a cancel in flight) or no longer due; or it raises.
ClaimAnswered ==
  /\ pass.claiming # NoRow
  /\ LET r == pass.claiming
         g == Path[r]
     IN \/ /\ row[r] = "queued"
           /\ row' = [row EXCEPT ![r] = "here"]
           /\ pc' = [pc EXCEPT ![r] = "start"]
           /\ key' = [key EXCEPT ![r] = TRUE]
           /\ launchedHere' = launchedHere \ {r}
           /\ pass' = [pass EXCEPT !.claiming = NoRow]
           /\ UNCHANGED <<waiter, faults>>
        \/ /\ row' = IF row[r] = "queued" THEN [row EXCEPT ![r] = "settled"] ELSE row
           /\ Forget(r)
           /\ pass' = [pass EXCEPT !.claiming = NoRow, !.placed = @ \ {g}]
           /\ UNCHANGED <<pc, key, faults>>
        \/ /\ Fault
           /\ pass' = NoPass
           /\ UNCHANGED <<row, pc, key, launchedHere, waiter>>
  /\ UNCHANGED <<staggered, level, stop, front, gate, chat>>

PassEnds ==
  /\ pass.on /\ pass.claiming = NoRow
  /\ \A r \in pass.todo : Skipped(r)
  /\ pass' = NoPass
  /\ UNCHANGED <<row, launchedHere, staggered, waiter, key, gvars, faults>>

-----------------------------------------------------------------------------
Passes == PassStarts \/ PassClaims \/ ClaimAnswered \/ PassEnds

Runs(u) ==
  \/ Defer(u) \/ Enter(u) \/ Tally(u) \/ Knock(u)
  \/ Wake(u) \/ GiveUp(u) \/ Retry(u) \/ HandleStop(u)

Next ==
  \/ \E u \in User : \/ Runs(u) \/ Admitted(u) \/ Refused(u)
                     \/ Interrupted(u) \/ Answered(u) \/ CancelRun(u) \/ Yield(u)
  \/ \E r \in Row : Launch(r) \/ CancelQueued(r) \/ LeaseLost(r) \/ TakenElsewhere(r)
                    \/ BackFromElsewhere(r)
  \/ \E c \in Caller : Arrive(c) \/ CallerGone(c)
  \/ ChatTurns \/ StaggerEnds \/ Passes

Spec == Init /\ [][Next]_vars

(* Fairness. The loop runs every ready coroutine; an attempt ends, by its   *)
(* answer, its limit or the liveness guard; admission answers whom it lets  *)
(* wait without a clock; the dispatch loop runs for ever and time passes.   *)
(* Clients, the chat, faults and other processes owe nothing.               *)
(* At any time a user, and the pass, can take one of its steps at most.     *)
Owed(u) ==
  Runs(u) \/ Admitted(u) \/ Answered(u) \/ (stop[u] # "none" /\ Interrupted(u))

Fairness ==
  /\ \A u \in User : WF_vars(Owed(u))
  /\ WF_vars(StaggerEnds) /\ WF_vars(Passes)

FairSpec == Spec /\ Fairness

-----------------------------------------------------------------------------
(* Types, counts, turns.                                                    *)

GateTypeOK ==
  /\ row \in [Row -> {"new", "queued", "here", "elsewhere", "settled"}]
  /\ launchedHere \subseteq Row /\ staggered \in BOOLEAN
  /\ pass \in [on : BOOLEAN, todo : SUBSET Row, placed : SUBSET Group, claiming : Row \cup {NoRow}]
  /\ waiter \in [Group -> Row \cup {NoRow}] /\ key \in [Row -> BOOLEAN]
  /\ pc \in [User -> Stage]
  /\ level \in [User -> Nat] /\ \A u \in User : level[u] <= Len(Path[u])
  /\ stop \in [User -> {"none", "yield", "cancel", "lease_lost"}]
  /\ front \in [User -> BOOLEAN]
  /\ gate \in [Gate -> [line : Seq(User), inFlight : Nat, used : Nat]]
  /\ chat \in BOOLEAN /\ faults \in Nat

Holders(k) == {u \in User : k \in HeldBy(u) \/ (pc[u] = "granted" /\ k = NextGate(u))}

\* Those whom the gate's own count let in.
Own(k) == {u \in Holders(k) : ~Tallied(k, u)}

\* A gate has in flight those that hold it, counted or tallied, and nobody else:
\* no slot is lost or given twice, however waits and holds end ("a release in a
\* finally running under cancellation cannot be lost"). Those its count let in,
\* at main.extended the LONG prompts among answers nothing here caps, never
\* exceed its limits. And every variable stays in its type.
GateCountsItsHolders ==
  GateTypeOK /\ \A k \in Gate :
    /\ gate[k].inFlight = Cardinality(Holders(k)) /\ Cardinality(Own(k)) <= Concurrent[k]
    /\ gate[k].used = MapThenSumSet(LAMBDA u : Charge(k, u), Own(k))
    /\ Budget[k] > 0 => gate[k].used <= Budget[k]

\* Nobody waits at a gate that has room for the head of its line, but at
\* main.extended (LongPromptsServed); and every line holds just those who wait.
NoGrantMissed ==
  \A k \in Gate :
    /\ gate[k].line # <<>> /\ k \notin Seated => ~Admissible(k, gate[k], Head(gate[k].line))
    /\ \A u \in User : u \in ToSet(gate[k].line) <=> (pc[u] = "line" /\ k = NextGate(u))
    /\ IsInjective(gate[k].line)

\* "one FIFO representative per gate group": of the background runs that were
\* never admitted, at most one of a group waits for its gates.
OneRepresentative ==
  \A g \in Group :
    Cardinality({r \in Row : Path[r] = g /\ (key[r] \/ pass.claiming = r)}) <= 1

\* "served strictly in arrival order": nobody is counted in while somebody who
\* stood in the gate's line before still stands there, but who comes back from a
\* yield. An answer with a ticket is not counted in: it passes the line.
ServedInOrder ==
  [][\A k \in Gate : \A u \in User :
       u \in Own(k)' \ Own(k) /\ ~front[u] =>
         IF u \in ToSet(gate[k].line)
         THEN \A i, j \in DOMAIN gate[k].line :
                i < j /\ gate[k].line[j] = u => gate[k].line[i] \notin ToSet(gate'[k].line)
         ELSE gate[k].line = <<>>]_vars

\* Every wait in a line but main.extended's ends, also where runs hold one gate,
\* or wait for admission with it, and others wait for the next ("taken in that
\* order, always, so the two gates cannot deadlock").
EveryWaitEnds ==
  \A u \in User : pc[u] = "line" /\ NextGate(u) \notin Seated ~> pc[u] # "line"

\* No queued row is forgotten: it is settled here, or another process has it.
EveryRowEnds == \A r \in Row : row[r] = "queued" ~> row[r] \in {"settled", "elsewhere"}

-----------------------------------------------------------------------------
(* What the source says and the code does not do: refuted by TLC.           *)

\* An answer without a ticket "is capped by this gate's own FIFO count", whose
\* waiters "are served strictly in arrival order (a heavy request is not starved
\* by a stream of light ones)": a LONG prompt's wait at main.extended ends.
LongPromptsServed ==
  \A u \in User : pc[u] = "line" /\ NextGate(u) \in Seated ~> pc[u] # "line"

\* "for each gate group the oldest due row is claimed whenever no earlier
\* claimed row of that group is still waiting for its gates" (dispatch_once):
\* a pass looks at a row of every group that has one due.
EveryGroupLookedAt ==
  [][PassStarts => \A r \in Due : \E s \in pass'.todo : Path[s] = Path[r]]_vars
=============================================================================
