--------------------------- MODULE DurableFollow ---------------------------
(***************************************************************************)
(* The followers of one orchestrator process (publicapi/durable.py, follow  *)
(* to _poller_loop): a client reads a response from a position, from the    *)
(* memory of the Run that is here (_follow_local) or through ONE shared     *)
(* poll of the log (_follow_remote, poll_remote_once), and is moved between *)
(* the two as the Run comes, settles, is suspended or loses its lease.      *)
(*                                                                          *)
(* The log is what DurableRun shows it to be: a list that grows at its end, *)
(* so it is its length here. How the Run and the other processes extend and *)
(* settle it is DurableRun, seen from outside.                              *)
(***************************************************************************)
EXTENDS Naturals, FiniteSets, Sequences

CONSTANTS
  Resp,          \* responses
  Client,        \* follower coroutines
  MaxFollowers,  \* PUBLIC_API_MAX_FOLLOWERS
  TailRecords,   \* TAIL_RECORDS: records a Run keeps in memory
  PollLimit,     \* records per response of one poll
  ListLimit,     \* records of one read of the log
  MaxSeq,        \* bound: records of a response
  MaxRuns,       \* bound: Runs of a response built here
  MaxFaults      \* bound: polls that fail

ASSUME FollowConstants ==
  /\ MaxFollowers \in Nat \ {0} /\ TailRecords \in Nat \ {0}
  /\ PollLimit \in Nat \ {0} /\ ListLimit \in Nat \ {0}
  /\ MaxSeq \in Nat /\ MaxRuns \in Nat /\ MaxFaults \in Nat

VARIABLES
  \* the store, per response
  last,        \* its last sequence number
  settled,     \* its status is terminal
  owner,       \* who holds its live lease: "here", "there" or "none"
  \* the Run objects of this process
  obj,         \* those built so far
  runs,        \* Runtime.runs: the number of the Run there, 0 for none
  stopping,    \* Runtime.stopping
  leaving,     \* the Runs suspend_all stops
  \* followers
  client,      \* each follower
  before,      \* who started to follow before it did (_Reader.started)
  poll,        \* the shared poll
  faults       \* faults used of MaxFaults

store == <<last, settled, owner>>
here == <<obj, runs, stopping, leaving>>
vars == <<last, settled, owner, obj, runs, stopping, leaving, client, before,
          poll, faults>>

Least(m, n) == IF m < n THEN m ELSE n
Most(m, n) == IF m < n THEN n ELSE m
LeastOf(S) == CHOOSE n \in S : \A k \in S : n <= k
MostOf(S) == CHOOSE n \in S : \A k \in S : k <= n

\* A Run built when the log ended at seq: its tail is empty.
RunAt(seq) == [sent |-> seq, committed |-> seq, first |-> seq + 1, fin |-> FALSE,
               terminal |-> FALSE, refused |-> FALSE, aborted |-> FALSE, stop |-> "none"]
Idle == [st |-> "idle", rid |-> "none", k |-> 0, start |-> 0, pos |-> 0, got |-> {},
         evicted |-> FALSE, q |-> {}, queued |-> 0, mark |-> "none", late |-> FALSE]
NoPoll == [st |-> "idle", after |-> <<>>, res |-> <<>>, todo |-> {}, rid |-> "none"]

\* The Run of r in Runtime.runs.
Local(r) == obj[r][runs[r]]
\* It is there and has not settled.
LiveHere(r) == runs[r] # 0 /\ ~Local(r).terminal
Changed(r, o) == [obj EXCEPT ![r][runs[r]] = o]

Init ==
  /\ last = [r \in Resp |-> 0] /\ settled = [r \in Resp |-> FALSE]
  /\ owner = [r \in Resp |-> "none"]
  /\ obj = [r \in Resp |-> <<>>] /\ runs = [r \in Resp |-> 0]
  /\ stopping = FALSE /\ leaving = [r \in Resp |-> 0]
  /\ client = [c \in Client |-> Idle] /\ before = [c \in Client |-> {}]
  /\ poll = NoPoll /\ faults = 0

Readers == <<client, before, poll, faults>>

-----------------------------------------------------------------------------
(* The Run of a response here: built, appending, settling, leaving.         *)

\* Who registered with the shared poll, its evicted ones too (_remote[r]).
Remote(r) == {c \in Client : client[c].st = "remote" /\ client[c].rid = r}

\* put_nowait of a marker. Nothing behind a marker is ever read: each of them
\* ends _follow_remote and its queue.
Marked(f, mark) == IF f.mark = "none" THEN [f EXCEPT !.mark = mark] ELSE f
MarkAll(S, mark) == [c \in Client |-> IF c \in S THEN Marked(client[c], mark) ELSE client[c]]

\* launch, or claim_and_resume by anybody: the lease is taken and the Run is in
\* `runs`. A claim that was in flight at SIGTERM still does it.
Starts(r) ==
  /\ ~settled[r] /\ owner[r] # "there" /\ ~LiveHere(r) /\ Len(obj[r]) < MaxRuns
  /\ owner' = [owner EXCEPT ![r] = "here"]
  /\ obj' = [obj EXCEPT ![r] = Append(@, RunAt(last[r]))]
  /\ runs' = [runs EXCEPT ![r] = Len(obj[r]) + 1]
  /\ UNCHANGED <<last, settled, stopping, leaving>>

RunStarts(r) == Starts(r) /\ UNCHANGED Readers

\* An append of this Run commits in the store ...
RunAppends(r) ==
  /\ LiveHere(r) /\ ~Local(r).fin /\ ~settled[r] /\ owner[r] = "here"
  /\ Local(r).sent = last[r] /\ last[r] + 1 < MaxSeq
  /\ last' = [last EXCEPT ![r] = @ + 1]
  /\ obj' = Changed(r, [Local(r) EXCEPT !.sent = last[r] + 1])
  /\ UNCHANGED <<settled, owner, runs, stopping, leaving, Readers>>

\* commit_inflight: the tail is a deque of bounded length.
Committed(o) == [o EXCEPT !.committed = o.sent,
                          !.first = IF o.sent < TailRecords THEN @
                                    ELSE Most(@, o.sent + 1 - TailRecords)]

\* ... and later in its memory, where the local followers read.
RunCommits(r) ==
  /\ LiveHere(r) /\ Local(r).committed < Local(r).sent /\ ~Local(r).fin
  /\ obj' = Changed(r, Committed(Local(r)))
  /\ UNCHANGED <<store, runs, stopping, leaving, Readers>>

\* finish commits: with a terminal record, or without one (cancelled).
RunFinishes(r) ==
  /\ LiveHere(r) /\ ~Local(r).fin /\ ~settled[r] /\ Local(r).sent = last[r]
  /\ owner[r] = "here" \/ (Local(r).aborted /\ owner[r] = "none")
  /\ settled' = [settled EXCEPT ![r] = TRUE]
  /\ owner' = [owner EXCEPT ![r] = "none"]
  /\ \E n \in {0, 1} :
       /\ last' = [last EXCEPT ![r] = @ + n]
       /\ obj' = Changed(r, [Local(r) EXCEPT !.sent = last[r] + n, !.fin = TRUE])
  /\ UNCHANGED <<runs, stopping, leaving, Readers>>

\* _settle has its row: the terminal records are committed, the run is terminal.
RunSettled(r) ==
  /\ LiveHere(r) /\ Local(r).fin
  /\ obj' = Changed(r, [Committed(Local(r)) EXCEPT !.terminal = TRUE])
  /\ UNCHANGED <<store, runs, stopping, leaving, Readers>>

\* The lease is another's or the row settled: what this Run asks is refused.
Usurped(r) == settled[r] \/ owner[r] # "here" \/ Local(r).sent # last[r]

\* finish returned no row (or its answer was lost, and the retry found it
\* settled): the run is terminal all the same, and dropped at once. Its last
\* records are not here.
RunRefused(r) ==
  /\ LiveHere(r) /\ Usurped(r)
  /\ obj' = Changed(r, [Local(r) EXCEPT !.terminal = TRUE, !.refused = TRUE])
  /\ runs' = [runs EXCEPT ![r] = 0]
  /\ UNCHANGED <<store, stopping, leaving, Readers>>

\* _lease_lost: a tick or a flush found out; the readers are aborted.
LeaseLost(r) ==
  /\ LiveHere(r) /\ Usurped(r)
  /\ obj' = Changed(r, [Local(r) EXCEPT !.stop = "lease_lost", !.aborted = TRUE])
  /\ UNCHANGED <<store, runs, stopping, leaving, Readers>>

\* _drop_run: after the recorder, or by a runner that was told to stop. One
\* that settles goes on, unless the answer and the lease are lost.
RunDropped(r) ==
  /\ runs[r] # 0
  /\ \/ Local(r).terminal \/ Local(r).stop = "lease_lost"
     \/ Local(r).stop = "restart" /\ ~Local(r).fin
  /\ runs' = [runs EXCEPT ![r] = 0]
  /\ UNCHANGED <<store, obj, stopping, leaving, Readers>>

\* suspend_all up to its first await ...
Suspend ==
  /\ ~stopping /\ stopping' = TRUE
  /\ leaving' = [r \in Resp |-> IF LiveHere(r) THEN runs[r] ELSE 0]
  /\ obj' = [r \in Resp |-> IF LiveHere(r) /\ Local(r).stop = "none"
                            THEN [obj[r] EXCEPT ![runs[r]].stop = "restart"] ELSE obj[r]]
  /\ UNCHANGED <<store, runs, Readers>>

\* ... and after its flush: leases released, readers aborted, runs popped.
SuspendEnds ==
  /\ \E r \in Resp : leaving[r] # 0
  /\ LET left == {r \in Resp : leaving[r] # 0}
         held == {r \in left : owner[r] = "here" /\ ~settled[r]}
     IN /\ obj' = [r \in Resp |-> IF r \in left THEN [obj[r] EXCEPT ![leaving[r]].aborted = TRUE]
                                               ELSE obj[r]]
        /\ runs' = [r \in Resp |-> IF r \in left THEN 0 ELSE runs[r]]
        /\ owner' = [r \in Resp |-> IF r \in held THEN "none" ELSE owner[r]]
  /\ leaving' = [r \in Resp |-> 0]
  /\ UNCHANGED <<last, settled, stopping, Readers>>

-----------------------------------------------------------------------------
(* The other processes: leases lapse and move, they append and settle.      *)

\* Ours lapses unnoticed and is taken, or nobody is left here to renew it.
LeaseMoves(r) ==
  /\ ~settled[r]
  /\ owner' = [owner EXCEPT ![r] =
       CASE owner[r] = "there"                  -> "none"
         [] owner[r] = "here" /\ ~LiveHere(r) -> "none"
         [] OTHER                               -> "there"]
  /\ UNCHANGED <<last, settled, here, Readers>>

OtherAppends(r) ==
  /\ owner[r] = "there" /\ last[r] + 1 < MaxSeq
  /\ last' = [last EXCEPT ![r] = @ + 1]
  /\ UNCHANGED <<settled, owner, here, Readers>>

\* The owner settles, or a cancel or the sweep settles a row nobody holds.
OtherSettles(r) ==
  /\ ~settled[r] /\ owner[r] # "here"
  /\ settled' = [settled EXCEPT ![r] = TRUE]
  /\ owner' = [owner EXCEPT ![r] = "none"]
  /\ \E n \in IF owner[r] = "there" THEN {0, 1} ELSE {0} : last' = [last EXCEPT ![r] = @ + n]
  /\ UNCHANGED <<here, Readers>>

-----------------------------------------------------------------------------
(* follow: from memory or from the log.                                     *)

Set(c, f) == [client EXCEPT ![c] = f]
\* No longer a follower: told of an error, or not reading any more.
Gone(c, st) == Set(c, [Idle EXCEPT !.st = st, !.rid = client[c].rid])
\* Records handed to the client.
Given(f, S) == IF S = {} THEN f
               ELSE [f EXCEPT !.got = @ \cup S, !.pos = MostOf(S)]

\* A client asks for the records after a number it has seen.
Attach(c) ==
  /\ client[c].st = "idle"
  /\ \E r \in Resp : \E n \in 0..last[r] :
       client' = Set(c, [Idle EXCEPT !.st = "loop", !.rid = r, !.start = n, !.pos = n])
  /\ UNCHANGED <<store, here, before, poll, faults>>

\* c starts to follow, after all who do now.
Arrived(c) ==
  LET others == {d \in Client \ {c} : client[d].st \in {"local", "reading", "remote"}}
  IN [d \in Client |-> IF d = c THEN others ELSE IF d \in others THEN before[d] \cap others ELSE {}]
Oldest(S) == CHOOSE d \in S : before[d] \cap S = {}
\* Faulty: one follower more than the limit.
EvictsLate(S) == IF Cardinality(S) > MaxFollowers THEN {Oldest(S)} ELSE {}
\* The follower cap: the oldest of S is closed for the next one.
Evicts(S) == IF Cardinality(S) >= MaxFollowers THEN {Oldest(S)} ELSE {}

\* run.readers of the k-th Run that were not evicted.
LocalReaders(r, k) == {c \in Client : /\ client[c].st \in {"local", "reading"} /\ ~client[c].evicted
                                      /\ client[c].rid = r /\ client[c].k = k}
RemoteReaders(r) == {c \in Remote(r) : ~client[c].evicted}

FollowLocal(c) ==
  /\ client[c].st = "loop" /\ runs[client[c].rid] # 0
  /\ LET r == client[c].rid
         out == Evicts(LocalReaders(r, runs[r]))
     IN client' = [d \in Client |->
          CASE d = c     -> [client[c] EXCEPT !.st = "local", !.k = runs[r], !.evicted = FALSE]
            [] d \in out -> [client[d] EXCEPT !.evicted = TRUE]
            [] OTHER     -> client[d]]
  /\ before' = Arrived(c)
  /\ UNCHANGED <<store, here, poll, faults>>

\* A poll has been issued whose result is not applied to r yet.
PollUnderWay(r) == poll.st \in {"sent", "read"} \/ r \in poll.todo

FollowRemote(c) ==
  /\ client[c].st = "loop" /\ runs[client[c].rid] = 0 /\ ~stopping
  /\ LET r == client[c].rid
         out == Evicts(RemoteReaders(r))
     IN client' = [d \in Client |->
          CASE d = c     -> [client[c] EXCEPT !.st = "remote", !.k = 0, !.evicted = FALSE,
                               !.q = {}, !.queued = client[c].pos, !.mark = "none",
                               !.late = client[c].late \/ PollUnderWay(r)]
            [] d \in out -> [Marked(client[d], "evict") EXCEPT !.evicted = TRUE]
            [] OTHER     -> client[d]]
  /\ before' = Arrived(c)
  /\ UNCHANGED <<store, here, poll, faults>>

\* A stopping runtime never starts following remotely.
FollowStopping(c) ==
  /\ client[c].st = "loop" /\ runs[client[c].rid] = 0 /\ stopping
  /\ client' = Gone(c, "aborted")
  /\ UNCHANGED <<store, here, before, poll, faults>>

\* Faulty: the memory is used though it does not reach back to the position.
TailAlways(o, pos) == TRUE
\* tail_after
TailReaches(o, pos) == o.first <= pos + 1

\* A run that left `runs` without settling, stopped or stolen.
SuspendedUnderReader(o) == ~o.terminal /\ (stopping \/ o.aborted \/ o.stop # "none")

\* One turn of _follow_local's loop, on the Run it began with.
LocalTurn(c) ==
  /\ client[c].st = "local"
  /\ LET f == client[c]
         o == obj[f.rid][f.k]
         gone == o.aborted /\ ~o.terminal
         more == o.committed > f.pos
     IN \/ /\ f.evicted
           /\ client' = Gone(c, "evicted")
        \/ /\ ~f.evicted /\ gone
           /\ client' = Gone(c, "aborted")
        \/ /\ ~f.evicted /\ ~gone /\ more
           /\ client' = Set(c, IF TailReaches(o, f.pos)
                               THEN Given(f, {n \in f.pos + 1..o.committed : n >= o.first})
                               ELSE [f EXCEPT !.st = "reading"])
        \/ /\ ~f.evicted /\ ~gone /\ ~more /\ o.terminal
           /\ client' = Set(c, [f EXCEPT !.st = "ended"])
        \/ /\ ~f.evicted /\ ~gone /\ ~more /\ ~o.terminal /\ runs[f.rid] = 0
           /\ client' = IF SuspendedUnderReader(o) THEN Gone(c, "aborted")
                        ELSE Set(c, [f EXCEPT !.st = "loop"])
  /\ UNCHANGED <<store, here, before, poll, faults>>

\* list_events answers.
ReadLog(c) ==
  /\ client[c].st = "reading"
  /\ LET f == client[c]
     IN client' = Set(c, [Given(f, f.pos + 1..Least(last[f.rid], f.pos + ListLimit)) EXCEPT !.st = "local"])
  /\ UNCHANGED <<store, here, before, poll, faults>>

\* _follow_remote takes from its queue; the records in it are in order.
RemoteTurn(c) ==
  /\ client[c].st = "remote"
  /\ LET f == client[c] IN
     \/ /\ f.q # {}
        /\ LET n == LeastOf(f.q)
           IN client' = Set(c, [Given(f, IF n > f.pos THEN {n} ELSE {}) EXCEPT !.q = f.q \ {n}])
     \/ /\ f.q = {} /\ f.mark # "none"
        /\ client' = CASE f.mark = "end"   -> Set(c, [f EXCEPT !.st = "ended"])
                       [] f.mark = "evict" -> Gone(c, "evicted")
                       [] OTHER            -> Set(c, [f EXCEPT !.st = "loop", !.mark = "none"])
  /\ UNCHANGED <<store, here, before, poll, faults>>

\* The client disconnects.
Leave(c) ==
  /\ client[c].st \in {"loop", "local", "reading", "remote"}
  /\ client' = Gone(c, "left")
  /\ UNCHANGED <<store, here, before, poll, faults>>

-----------------------------------------------------------------------------
(* poll_remote_once: one statement for every remote follower of the process. *)

\* Faulty: from the position of the one furthest ahead.
AskedFromMost(r) == MostOf({client[c].pos : c \in Remote(r)})
\* positions[rid]
AskedFrom(r) == LeastOf({client[c].pos : c \in Remote(r)})

\* Followers of a run that is here now are switched; the others are asked for,
\* from the position of the one furthest behind.
PollIssue ==
  /\ poll.st = "idle" /\ \E r \in Resp : Remote(r) # {}
  /\ LET followed == {r \in Resp : Remote(r) # {}}
         asked == {r \in followed : runs[r] = 0}
     IN /\ client' = MarkAll(UNION {Remote(r) : r \in followed \ asked}, "switch")
        /\ poll' = IF asked = {} THEN poll
                   ELSE [NoPoll EXCEPT !.st = "sent",
                           !.after = [r \in asked |-> AskedFrom(r)]]
  /\ UNCHANGED <<store, here, before, faults>>

\* poll_many: ONE statement, so one state of every row and its log.
PollRead ==
  /\ poll.st = "sent"
  /\ poll' = [poll EXCEPT !.st = "read",
       !.res = [r \in DOMAIN poll.after |->
                 [upto |-> Least(last[r], poll.after[r] + PollLimit),
                  settled |-> settled[r], free |-> owner[r] = "none"]]]
  /\ UNCHANGED <<store, here, client, before, faults>>

\* The answer is here: every response followed by now is gone through.
PollReply ==
  /\ poll.st = "read"
  /\ LET todo == {r \in Resp : Remote(r) # {}}
     IN poll' = IF todo = {} THEN NoPoll ELSE [poll EXCEPT !.st = "apply", !.todo = todo]
  /\ UNCHANGED <<store, here, client, before, faults>>

\* Records above what was queued before.
Queued(f, after, upto) ==
  IF f.mark # "none" THEN f
  ELSE [f EXCEPT !.q = @ \cup {n \in after + 1..upto : n > f.queued}, !.queued = Most(@, upto)]

\* Faulty: a settled response nothing was read of is not ended; the end is
\* queued though a full page was read.
EndsIfRead(res, after) == res.settled /\ after < res.upto /\ res.upto - after < PollLimit
EndsEarly(res, after) == res.settled
\* Terminal, and the page was not full: nothing is left to read.
EndsNow(res, after) == res.settled /\ res.upto - after < PollLimit

PollApply(r) ==
  /\ poll.st = "apply" /\ r \in poll.todo
  /\ LET asked == r \in DOMAIN poll.res
         res == poll.res[r]
         filled(c) == LET f == Queued(client[c], poll.after[r], res.upto)
                      IN IF EndsNow(res, poll.after[r]) THEN Marked(f, "end") ELSE f
         left == poll.todo \ {r}
         done == IF left = {} THEN NoPoll ELSE [poll EXCEPT !.todo = left]
     IN /\ client' = IF ~asked THEN MarkAll(Remote(r), "end")
                     ELSE [c \in Client |-> IF c \in Remote(r) THEN filled(c) ELSE client[c]]
        /\ \/ poll' = done
           \/ /\ asked /\ ~res.settled /\ res.free /\ ~stopping
              /\ poll' = [poll EXCEPT !.todo = left, !.st = "claim", !.rid = r]
  /\ UNCHANGED <<store, here, before, faults>>

\* Free and open: the poller resumes it here (claim_and_resume), or gets the
\* Run that is here by now, and sends its followers there. Or nothing came of
\* it: claimed elsewhere, being claimed here, unrunnable, stopping.
PollClaim ==
  /\ poll.st = "claim"
  /\ poll' = [poll EXCEPT !.st = "apply"]
  /\ \/ /\ Starts(poll.rid) \/ (LiveHere(poll.rid) /\ UNCHANGED <<store, here>>)
        /\ client' = MarkAll(Remote(poll.rid), "switch")
     \/ UNCHANGED <<store, here, client>>
  /\ UNCHANGED <<before, faults>>

PollDone ==
  /\ poll.st = "apply" /\ poll.todo = {}
  /\ poll' = NoPoll
  /\ UNCHANGED <<store, here, client, before, faults>>

\* The database is away: this poll is over, the next one comes.
PollFails ==
  /\ poll.st \in {"sent", "claim"} /\ faults < MaxFaults /\ faults' = faults + 1
  /\ poll' = NoPoll
  /\ UNCHANGED <<store, here, client, before>>

-----------------------------------------------------------------------------
RunStep(r) == RunCommits(r) \/ RunSettled(r) \/ LeaseLost(r) \/ RunDropped(r) \/ RunRefused(r)
PollStep == PollRead \/ PollReply \/ (\E r \in Resp : PollApply(r)) \/ PollClaim \/ PollDone
Follow(c) == FollowLocal(c) \/ FollowRemote(c) \/ FollowStopping(c)
             \/ LocalTurn(c) \/ ReadLog(c) \/ RemoteTurn(c)

Next ==
  \/ \E r \in Resp : \/ RunStarts(r)
                     \/ RunAppends(r) \/ RunCommits(r) \/ RunFinishes(r) \/ RunSettled(r)
                     \/ RunRefused(r) \/ LeaseLost(r) \/ RunDropped(r)
                     \/ LeaseMoves(r) \/ OtherAppends(r) \/ OtherSettles(r) \/ PollApply(r)
  \/ Suspend \/ SuspendEnds
  \/ \E c \in Client : \/ Attach(c) \/ FollowLocal(c) \/ FollowRemote(c) \/ FollowStopping(c)
                       \/ LocalTurn(c) \/ ReadLog(c) \/ RemoteTurn(c) \/ Leave(c)
  \/ PollIssue \/ PollRead \/ PollReply \/ PollClaim \/ PollDone \/ PollFails

Spec == Init /\ [][Next]_vars

(* Fairness: followers and the poller loop go on; a Run whose row settled    *)
(* hears of it; a suspend ends.                                              *)
Fairness ==
  /\ \A c \in Client : WF_vars(Follow(c))
  /\ \A r \in Resp : WF_vars(RunStep(r))
  /\ WF_vars(PollIssue) /\ WF_vars(PollStep) /\ WF_vars(SuspendEnds)

FairSpec == Spec /\ Fairness

-----------------------------------------------------------------------------
RunObject == [sent : Nat, committed : Nat, first : Nat, fin : BOOLEAN, terminal : BOOLEAN,
              refused : BOOLEAN, aborted : BOOLEAN, stop : {"none", "restart", "lease_lost"}]
Follower == [st : {"idle", "loop", "local", "reading", "remote", "ended", "aborted", "evicted", "left"},
             rid : Resp \cup {"none"}, k : Nat, start : Nat, pos : Nat, got : SUBSET Nat,
             evicted : BOOLEAN, q : SUBSET Nat, queued : Nat,
             mark : {"none", "end", "switch", "evict"}, late : BOOLEAN]

FollowTypeOK ==
  /\ last \in [Resp -> Nat] /\ settled \in [Resp -> BOOLEAN]
  /\ owner \in [Resp -> {"here", "there", "none"}]
  /\ obj \in [Resp -> Seq(RunObject)]
  /\ runs \in [Resp -> Nat] /\ \A r \in Resp : runs[r] <= Len(obj[r])
  /\ stopping \in BOOLEAN /\ leaving \in [Resp -> Nat]
  /\ client \in [Client -> Follower] /\ before \in [Client -> SUBSET Client]
  /\ poll.st \in {"idle", "sent", "read", "apply", "claim"}
  /\ poll.todo \subseteq Resp /\ poll.rid \in Resp \cup {"none"}
  /\ faults \in Nat

-----------------------------------------------------------------------------
(* What a follower gets.                                                    *)

Unbroken(f) == f.got = f.start + 1..f.pos

\* Whatever a follower is moved through (tail, log, shared poll and back), it
\* gets every record after its position, unless it joined the shared poll
\* while one was under way (see JoinersServed).
FollowsInOrder == \A c \in Client : client[c].late \/ Unbroken(client[c])

\* Its run stopped here as if settled, though finish had settled nothing.
Misled(f) == f.k # 0 /\ obj[f.rid][f.k].refused

\* A follower whose stream ends without an error has read a settled response
\* to its last record, but for those of JoinersServed and EndsAfterTerminal.
EndsComplete ==
  \A c \in Client : LET f == client[c] IN
    f.st = "ended" => f.late \/ Misled(f) \/ (settled[f.rid] /\ f.pos = last[f.rid])

\* No Run, and no response followed remotely, has more followers than the cap;
\* and every variable stays in its type.
FollowerCap ==
  FollowTypeOK /\ \A r \in Resp :
    /\ Cardinality(RemoteReaders(r)) <= MaxFollowers
    /\ \A k \in 1..Len(obj[r]) : Cardinality(LocalReaders(r, k)) <= MaxFollowers

\* Every follower of a response that settled is answered: its stream ends, or
\* it is told to attach elsewhere.
FollowersEnd ==
  \A c \in Client :
    (client[c].st # "idle" /\ settled[client[c].rid]) ~> client[c].st \in {"ended", "aborted", "evicted", "left"}

-----------------------------------------------------------------------------
(* What follow says ("Committed records after `after`, HEARTBEAT on          *)
(* silence; ends after the terminal state") and the code does not do.        *)

\* That holds for a follower too that registers with the shared poll while
\* a statement of it is under way.
JoinersServed ==
  \A c \in Client : LET f == client[c] IN
    f.late /\ ~Misled(f) => Unbroken(f) /\ (f.st = "ended" => settled[f.rid] /\ f.pos = last[f.rid])

\* A stream that ends without an error ends after the terminal state.
EndsAfterTerminal ==
  \A c \in Client : client[c].st = "ended" => settled[client[c].rid] /\ client[c].pos = last[client[c].rid]

=============================================================================
