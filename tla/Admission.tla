----------------------------- MODULE Admission -----------------------------
(***************************************************************************)
(* Admission to the main engine (admission.py): the NORMAL, LONG and        *)
(* LONG_OUTPUT lanes of one event loop, their waiters of two origins, the   *)
(* closure of a LONG prefill, patient /v1 requests and their yields to a    *)
(* chat document. Code between two awaits is one step; a grant resolves the *)
(* waiter's future, and the waiter runs later or is cancelled first.        *)
(*                                                                          *)
(* Left out: the KV budget (every charge fits, so only seats, closures and  *)
(* order hold a waiter back), ADMISSION_CHAT_LONG_BESIDE_V1_ANSWERS=proceed,*)
(* and the clock: a bound, a grace or a window may end at any time. The     *)
(* engine sample may say idle or busy at any time: another tenant uses the  *)
(* engine too.                                                              *)
(***************************************************************************)
EXTENDS Integers, FiniteSets, SequencesExt

CONSTANTS
  Request,
  NoRequest,
  LaneOf,        \* lane_for: "normal", "long", "long_output"
  Origin,        \* "chat" or "v1"
  Patient,       \* /v1 requests that wait without a bound
  Preadmitted,   \* LONG_OUTPUT requests admitted before their call
  Recurring,     \* requests that are followed by another one like them
  Capacity,      \* ADMISSION_NORMAL_MAX, _LONG_MAX, _LONG_OUTPUT_MAX_SEQS
  Reserved,      \* ADMISSION_CHAT_RESERVED_NORMAL_SLOTS
  ChatWeight,    \* ADMISSION_CHAT_WEIGHT
  MaxWaiting,    \* ADMISSION_MAX_WAITING
  DecodeYields   \* PUBLIC_API_DECODE_YIELDS_PER_RUN

Lane == {"normal", "long", "long_output"}
Chat(r) == Origin[r] = "chat"
V1(r) == Origin[r] = "v1"

\* LONG runs one request at a time (ADMISSION_LONG_MAX=1); no lane is switched off.
ASSUME AdmissionAssumption ==
  /\ NoRequest \notin Request
  /\ LaneOf \in [Request -> Lane] /\ Origin \in [Request -> {"chat", "v1"}]
  /\ Patient \subseteq {r \in Request : V1(r)}
  /\ Preadmitted \subseteq {r \in Request : LaneOf[r] = "long_output"}
  /\ Recurring \subseteq Request
  /\ Capacity \in [Lane -> Nat \ {0}] /\ Capacity["long"] = 1
  /\ Reserved \in Nat /\ ChatWeight \in Nat /\ MaxWaiting \in Nat /\ DecodeYields \in Nat

VARIABLES
  pc,            \* where each request is
  ls             \* Lanes

vars == <<pc, ls>>

Lanes ==
  [chat : Seq(Request), v1 : Seq(Request), streak : Nat,
   kv : Seq(Request), ripe : SUBSET Request,
   active : [Lane -> [chat : Int, v1 : Int]],
   closed : BOOLEAN, closers : SUBSET Request, idle : SUBSET Request,
   spent : BOOLEAN, held : BOOLEAN,
   prefill : SUBSET Patient, decode : SUBSET Patient, asked : SUBSET Patient,
   yields : [Patient -> 0..DecodeYields], calls : SUBSET Patient]

Init ==
  /\ pc = [r \in Request |-> "new"]
  /\ ls = [chat |-> <<>>, v1 |-> <<>>,      \* NORMAL's deques
           streak |-> 0,                    \* chat_streak
           kv |-> <<>>,                     \* the arbiter's waiters by enqueued_at
           ripe |-> {},                     \* waiting for ADMISSION_V1_KV_PROMOTE_S
           active |-> [l \in Lane |-> [chat |-> 0, v1 |-> 0]],
           closed |-> FALSE,                \* of NORMAL and LONG_OUTPUT
           closers |-> {},                  \* tickets with long_holds_normal
           idle |-> {},                     \* long_idle_waiting
           spent |-> FALSE,                 \* the /v1 closure budget
           held |-> FALSE,                  \* chat_long_refused_at
           prefill |-> {}, decode |-> {},   \* the patient ledger, seated or not
           asked |-> {},                    \* its entries that were asked to yield
           yields |-> [r \in Patient |-> 0],\* decode_yields
           calls |-> {}]                    \* yield callbacks scheduled

-----------------------------------------------------------------------------
(* Grants.                                                                  *)

Active(s, l) == s.active[l].chat + s.active[l].v1
Taken(s, r) == [s EXCEPT !.active[LaneOf[r]][Origin[r]] = @ + 1]

Larger(x, y) == IF x > y THEN x ELSE y
Smaller(x, y) == IF x < y THEN x ELSE y
ReservedForChat == Smaller(Reserved, Capacity["normal"] - 1)
V1Share == Larger(1, (Capacity["normal"] - ReservedForChat) \div (ChatWeight + 1))

\* Faulty: a closure of the lane is not looked at.
OpenToAll(s) == Active(s, "normal") < Capacity["normal"]
Free(s) == ~s.closed /\ Active(s, "normal") < Capacity["normal"]

SeatFreeForV1(s) ==
  /\ Free(s)
  /\ s.active["normal"].v1 < V1Share \/ Active(s, "normal") + ReservedForChat < Capacity["normal"]

\* Faulty: a grant to chat while /v1 waits is not counted.
Uncounted(s) == FALSE
\* A grant to chat that /v1, below its seat share, could have had.
CountsForV1(s) == s.v1 # <<>> /\ SeatFreeForV1(s) /\ s.active["normal"].v1 < V1Share
\* /v1 has a turn: below its seat share, after ChatWeight grants to chat.
V1sTurn(s) == s.active["normal"].v1 < V1Share /\ s.streak >= ChatWeight

\* One round of Lane._pump.
NormalRound(q) ==
  LET s == IF q.v1 = <<>> /\ q.chat # <<>> THEN [q EXCEPT !.streak = 0] ELSE q
      chat == Free(s) /\ s.chat # <<>>
      v1 == SeatFreeForV1(s) /\ s.v1 # <<>>
  IN IF chat /\ ~(v1 /\ V1sTurn(s))
     THEN [Taken(s, Head(s.chat)) EXCEPT !.chat = Tail(@), !.streak = IF CountsForV1(s) THEN @ + 1 ELSE @]
     ELSE IF v1 THEN [Taken(s, Head(s.v1)) EXCEPT !.v1 = Tail(@), !.streak = 0]
     ELSE s

\* Blocked by something other than KV (_gate_blocked).
Blocked(s, r) ==
  IF LaneOf[r] = "long_output"
  THEN \/ s.closed \/ Active(s, "long_output") >= Capacity["long_output"]
       \/ (IF Chat(r) THEN s.idle \ Patient ELSE s.idle) # {}
       \/ V1(r) /\ s.held
  ELSE Active(s, "long") >= Capacity["long"] \/ (V1(r) /\ s.spent)

\* Chat first; a /v1 head that has waited long goes before later chat.
Rank(s, i) ==
  LET n == Len(s.kv)
      v1 == {j \in DOMAIN s.kv : V1(s.kv[j])}
      Promoted == v1 # {} /\ s.kv[Min(v1)] \in s.ripe /\ ~Blocked(s, s.kv[Min(v1)])
  IN IF V1(s.kv[i]) THEN n + i
     ELSE IF Promoted /\ i > Min(v1) THEN 2 * n + i ELSE i

\* The arbiter's choice.
Choice(s) ==
  LET able == {i \in DOMAIN s.kv : ~Blocked(s, s.kv[i])}
  IN IF able = {} THEN NoRequest
     ELSE s.kv[CHOOSE i \in able : \A j \in able : Rank(s, i) <= Rank(s, j)]

\* One round of _KvArbiter._pump.
KvRound(s) ==
  LET r == Choice(s)
  IN IF r = NoRequest THEN s
     ELSE [Taken(s, r) EXCEPT !.kv = RemoveFirst(@, r), !.ripe = @ \ {r}]

\* request_yield: each entry once; the callback runs later.
Asked(s, entries) ==
  [s EXCEPT !.asked = @ \cup entries, !.calls = @ \cup (entries \ s.asked)]

ChatLongWaits(s) == \E i \in DOMAIN s.kv : LaneOf[s.kv[i]] = "long" /\ Chat(s.kv[i])

\* _yield_for_chat_long: a patient prefill has the seat a chat document waits for.
AskedForChat[s \in Lanes] ==
  IF s.prefill \cup s.decode # {} /\ ChatLongWaits(s) /\ Active(s, "long") >= Capacity["long"]
  THEN Asked(s, s.prefill) ELSE s

\* The two pumps, each until it grants no more.
KvPump[s \in Lanes] == LET t == KvRound(s) IN IF t = s THEN s ELSE KvPump[t]
NormalPump[s \in Lanes] == LET t == NormalRound(s) IN IF t = s THEN s ELSE NormalPump[t]

\* Lanes.pump: long work first.
Pumped[s \in Lanes] == NormalPump[AskedForChat[KvPump[s]]]

-----------------------------------------------------------------------------
(* Coming and going.                                                        *)

Joined(s, r) ==
  IF LaneOf[r] # "normal" THEN [s EXCEPT !.kv = Append(@, r)]
  ELSE IF Chat(r) THEN [s EXCEPT !.chat = Append(@, r)] ELSE [s EXCEPT !.v1 = Append(@, r)]
Left(s, r) ==
  [s EXCEPT !.kv = RemoveFirst(@, r), !.chat = RemoveFirst(@, r), !.v1 = RemoveFirst(@, r), !.ripe = @ \ {r}]
Waiters(s) == ToSet(s.kv) \cup ToSet(s.chat) \cup ToSet(s.v1)

\* bounded_depth, of r's class and lane.
Ahead(s, r) ==
  Cardinality({q \in Waiters(s) \ {r} : q \notin Patient /\ Origin[q] = Origin[r]
                                       /\ LaneOf[q] = LaneOf[r]})

\* A patient LONG ticket gives its seat back at its first token.
Seated(r) == pc[r] \in {"granted", "preadmitted", "parked", "idle", "engine"}
             \/ (pc[r] = "decoding" /\ ~(r \in Patient /\ LaneOf[r] = "long"))
Holder(r) == Seated(r) \/ pc[r] = "decoding"

Unseated(s, r) == [s EXCEPT !.active[LaneOf[r]][Origin[r]] = @ - 1]

\* Faulty: the closure is left to its grace.
ClosureStays(s, r) == s
\* Faulty: the ticket is done with its closure, the lanes stay closed.
LanesStayClosed(s, r) == [s EXCEPT !.closers = @ \ {r}]
\* _reopen_closure
Reopened(s, r) ==
  IF r \in s.closers THEN [s EXCEPT !.closers = @ \ {r}, !.closed = FALSE] ELSE s

\* Faulty: a grant is not given back when its waiter was cancelled first.
SeatLost(s, r) ==
  LET t == IF Seated(r) /\ pc[r] # "granted" THEN Unseated(s, r) ELSE s
  IN [Reopened(t, r) EXCEPT !.idle = @ \ {r}, !.prefill = @ \ {r}, !.decode = @ \ {r}, !.asked = @ \ {r}]
\* release_nowait, or the give-back of a grant nobody took.
Released(s, r) ==
  LET t == IF Seated(r) THEN Unseated(s, r) ELSE s
  IN [Reopened(t, r) EXCEPT !.idle = @ \ {r}, !.prefill = @ \ {r}, !.decode = @ \ {r}, !.asked = @ \ {r}]

\* The lanes are t now, r is at where, and who was granted knows.
Become(t, r, where) ==
  /\ ls' = t
  /\ pc' = [q \in Request |-> IF q = r THEN where
                              ELSE IF pc[q] = "queue" /\ q \notin Waiters(ls') THEN "granted" ELSE pc[q]]
Place(t, r) == IF r \in Waiters(t) THEN "queue" ELSE "granted"

\* BACK TO BACK: /v1 long answers are held for a refused chat document.
Refused(s, r) ==
  IF LaneOf[r] = "long" /\ Chat(r) /\ s.active["long_output"].v1 > 0
  THEN [s EXCEPT !.held = TRUE] ELSE s

\* Lane.acquire, _KvArbiter.acquire: a line that is too deep refuses.
Arrive(r) ==
  /\ pc[r] = "new"
  /\ LET t == Pumped[Joined(ls, r)]
     IN IF r \in Waiters(t) /\ r \notin Patient /\ Ahead(t, r) >= MaxWaiting
        THEN Become(Refused(Left(t, r), r), r, "done")
        ELSE Become(t, r, Place(t, r))

\* The bound of a wait runs out.
TimeOut(r) ==
  /\ pc[r] = "queue" /\ r \notin Patient
  /\ Become(Refused(Pumped[Left(ls, r)], r), r, "done")

\* A waiter is cancelled.
Cancelled(r) ==
  /\ pc[r] = "queue"
  /\ Become(Pumped[Left(ls, r)], r, "done")

\* A call ends, by itself, by an error or by its client; or it never starts.
Ends(r) ==
  /\ Holder(r)
  /\ Become(Pumped[Released(ls, r)], r, "done")

Again(r) ==
  /\ pc[r] = "done" /\ r \in Recurring
  /\ pc' = [pc EXCEPT ![r] = "new"] /\ UNCHANGED ls

-----------------------------------------------------------------------------
(* From the grant to the engine.                                            *)

\* NORMAL and LONG_OUTPUT calls are sent, or kept for later.
Resume(r) ==
  /\ pc[r] = "granted" /\ LaneOf[r] # "long"
  /\ pc' = [pc EXCEPT ![r] = IF r \in Preadmitted THEN "preadmitted" ELSE "engine"]
  /\ UNCHANGED ls

HeldUp == ls.closed \/ ls.idle # {}

\* A pre-admitted call waits out a closure or an idle wait (_wait_out_closure).
Send(r) ==
  /\ pc[r] = "preadmitted"
  /\ pc' = [pc EXCEPT ![r] = IF HeldUp THEN "parked" ELSE "engine"]
  /\ UNCHANGED ls

Unpark(r) ==
  /\ pc[r] = "parked" /\ ~HeldUp
  /\ pc' = [pc EXCEPT ![r] = "engine"]
  /\ UNCHANGED ls

\* The LONG idle wait. A chat document that finds the engine busy asks patient
\* decoders to yield.
IdleWait(r) ==
  /\ pc[r] = "granted" /\ LaneOf[r] = "long"
  /\ LET s == [ls EXCEPT !.idle = @ \cup {r}, !.prefill = IF r \in Patient THEN @ \cup {r} ELSE @]
         due == {q \in s.decode \ s.asked : s.yields[q] < DecodeYields}
     IN Become(s, r, "idle")
        \/ /\ Chat(r)
           /\ Become([Asked(s, due) EXCEPT !.yields = [q \in Patient |-> IF q \in due THEN @[q] + 1 ELSE @[q]]],
                     r, "idle")

\* ADMITTED: close_lanes; the grace is armed with it.
Proceeds(r) ==
  Become([ls EXCEPT !.idle = @ \ {r}, !.closed = TRUE, !.closers = @ \cup {r},
                    !.held = @ /\ V1(r), !.spent = @ \/ V1(r)], r, "engine")

EngineIdle(r) == pc[r] = "idle" /\ Proceeds(r)

\* Own long answers, or a chat turn that waits, hold it back past its bound.
AnswersHold == Active(ls, "long_output") > 0
ChatHolds(r) == V1(r) /\ ls.chat # <<>>

\* The bound of the idle wait runs out: refused, waiting on if patient, or in.
IdleBoundEnds(r) ==
  /\ pc[r] = "idle"
  /\ IF AnswersHold \/ ChatHolds(r)
     THEN /\ r \notin Patient
          /\ LET s == IF AnswersHold THEN Refused(ls, r) ELSE ls
             IN Become(Pumped[Released(s, r)], r, "done")
     ELSE Proceeds(r)

\* Faulty: it keeps what it has.
KeepsItsPlace(r) == FALSE
\* _patient_idle_gives_way: without its seat a chat waiter would be granted.
KeepsChatOut(r) ==
  /\ \E q \in ToSet(ls.kv) : Chat(q)
  /\ Choice(ls) = NoRequest
  /\ LET c == Choice(Unseated(ls, r)) IN c # NoRequest /\ Chat(c)

\* Back into the line, behind the chat request its release lets in.
GivesWay(r) ==
  /\ pc[r] = "idle" /\ r \in Patient /\ KeepsChatOut(r)
  /\ LET t == Pumped[Joined(Pumped[Released(ls, r)], r)]
     IN Become(t, r, Place(t, r))

\* Faulty: the lanes are opened and nobody is let in.
FirstTokenUnheard(r) ==
  /\ pc[r] = "engine" /\ LaneOf[r] # "normal"
  /\ Become(Reopened(ls, r), r, "decoding")
\* first_token_nowait
FirstToken(r) ==
  /\ pc[r] = "engine" /\ LaneOf[r] # "normal"
  /\ LET s == Reopened(ls, r)
         t == IF r \in s.prefill
              THEN [Unseated(s, r) EXCEPT !.prefill = @ \ {r}, !.decode = @ \cup {r}] ELSE s
     IN Become(IF t = ls THEN ls ELSE Pumped[t], r, "decoding")

\* The prefill grace runs out before the first token (bound_closure).
GraceEnds(r) ==
  /\ r \in ls.closers
  /\ Become(Pumped[Reopened(ls, r)], r, pc[r])

\* The yield callback stops the run wherever it is; it comes back once no chat
\* document is admitted or waits (chat_long_admission_present).
Yields(r) ==
  /\ r \in ls.calls
  /\ LET s == [ls EXCEPT !.calls = @ \ {r}]
     IN IF pc[r] = "queue" THEN Become(Pumped[Left(s, r)], r, "away")
        ELSE IF Holder(r) THEN Become(Pumped[Released(s, r)], r, "away")
        ELSE Become(s, r, pc[r])

ComesBack(r) ==
  /\ pc[r] = "away" /\ ls.active["long"].chat = 0 /\ ~ChatLongWaits(ls)
  /\ pc' = [pc EXCEPT ![r] = "new"] /\ UNCHANGED ls

-----------------------------------------------------------------------------
(* Time.                                                                    *)

Ripens(r) ==
  /\ r \in ToSet(ls.kv) \ ls.ripe /\ V1(r)
  /\ ls' = [ls EXCEPT !.ripe = @ \cup {r}] /\ UNCHANGED pc

\* The window slides past the last /v1 closure.
WindowSlides ==
  /\ ls.spent /\ \A r \in ls.closers : Chat(r)
  /\ ls' = [ls EXCEPT !.spent = FALSE] /\ UNCHANGED pc

HoldEnds ==
  /\ ls.held
  /\ ls' = [ls EXCEPT !.held = FALSE] /\ UNCHANGED pc

\* A waiter's poll.
Tick ==
  /\ ls.kv # <<>>
  /\ Become(Pumped[ls], NoRequest, "queue")

-----------------------------------------------------------------------------
Next ==
  \/ \E r \in Request :
       \/ Arrive(r) \/ TimeOut(r) \/ Cancelled(r) \/ Ends(r) \/ Again(r)
       \/ Resume(r) \/ Send(r) \/ Unpark(r)
       \/ IdleWait(r) \/ EngineIdle(r) \/ IdleBoundEnds(r) \/ GivesWay(r)
       \/ FirstToken(r) \/ GraceEnds(r) \/ Yields(r) \/ ComesBack(r) \/ Ripens(r)
  \/ WindowSlides \/ HoldEnds \/ Tick

Spec == Init /\ [][Next]_vars

(* Fairness. A coroutine whose wait is over goes on, a bound or a grace runs *)
(* out, and a call that was sent ends: by its answer or by the guards around *)
(* the engine. Nobody owes an idle engine, a first token, a client that      *)
(* leaves or another request. Each of these steps stays enabled until the    *)
(* request leaves the state it is enabled in, so weak fairness of the step   *)
(* says just that: the request is outside of that state again and again.     *)
Ready(r) == pc[r] \in {"granted", "preadmitted"}           \* Resume, Send, IdleWait
Unparks(r) == pc[r] = "parked" /\ ~HeldUp                  \* Unpark
IdleIsOver(r) ==                                           \* IdleBoundEnds, GivesWay
  pc[r] = "idle" /\ (r \notin Patient \/ ~(AnswersHold \/ ChatHolds(r)) \/ KeepsChatOut(r))
Sent(r) == pc[r] \in {"engine", "decoding"}                \* Ends
ClosesLanes(r) == r \in ls.closers                         \* GraceEnds

Fairness ==
  \A r \in Request :
    []<>~Ready(r) /\ []<>~Unparks(r) /\ []<>~IdleIsOver(r) /\ []<>~Sent(r) /\ []<>~ClosesLanes(r)

FairSpec == Spec /\ Fairness

-----------------------------------------------------------------------------
(* Types, seats, closures.                                                  *)

AdmissionTypeOK ==
  /\ pc \in [Request -> {"new", "queue", "granted", "preadmitted", "parked", "idle", "engine",
                         "decoding", "away", "done"}]
  /\ ls \in Lanes
  /\ ls.streak <= ChatWeight /\ ls.active \in [Lane -> [chat : Nat, v1 : Nat]]

\* Every seat that counts has a ticket: whatever ends a wait or a call, in the
\* tick of its grant too, no seat leaks and none is given back twice; and every
\* variable stays in its type.
SeatsAreHeld ==
  AdmissionTypeOK /\ \A l \in Lane :
    /\ \A o \in {"chat", "v1"} :
         ls.active[l][o] = Cardinality({r \in Request : Seated(r) /\ LaneOf[r] = l /\ Origin[r] = o})
    /\ Active(ls, l) <= Capacity[l]

\* The lanes are closed just while a ticket that has the LONG seat keeps them
\* closed, and one at most does.
ClosedByItsHolder ==
  /\ ls.closed <=> ls.closers # {}
  /\ Cardinality(ls.closers) <= 1
  /\ \A r \in ls.closers : pc[r] = "engine" /\ LaneOf[r] = "long"

\* Nobody waits for what is free. (What time frees, a tick hands out.)
NoSeatIdles ==
  /\ ls.chat # <<>> => ~Free(ls)
  /\ ls.v1 # <<>> => ~SeatFreeForV1(ls)
  /\ \A r \in ToSet(ls.kv) : ~Blocked(ls, r) => V1(r)

\* While a LONG prefill keeps the lanes closed nobody is let into them: "no
\* other prefill of ours mixes with it".
ClosureAdmitsNobody ==
  [][ls.closed /\ ls'.closed =>
       \A r \in Request : pc[r] \in {"new", "queue"} /\ pc'[r] = "granted" => LaneOf[r] = "long"]_vars

\* Every closure ends, though the engine never sends a token.
ClosureEnds == ls.closed ~> ~ls.closed

\* A patient request is let into NORMAL in the end, though chat turns never
\* cease to come ("/v1 is never starved").
PatientIsServed ==
  \A r \in Patient : (pc[r] = "queue" /\ LaneOf[r] = "normal") ~> pc[r] # "queue"

\* No chat document waits for a seat that a patient request keeps while it has
\* not started ("patient idle waiters never hold chat").
PatientGivesWay ==
  \A c, r \in Request :
    Chat(c) /\ r \in Patient /\ LaneOf[c] = "long" /\ LaneOf[r] = "long" =>
      (pc[c] = "queue" /\ pc[r] = "idle") ~> ~(pc[c] = "queue" /\ pc[r] = "idle")

-----------------------------------------------------------------------------
\* "when its bound runs out with this process's own LONG_OUTPUT sequences still
\* on the engine it is refused" (admission.py, LONG BESIDE LONG ANSWERS): not
\* for answers that are parked, which "are not on the engine" (_ahead).
RefusedForAnswersOnTheEngine ==
  [][\A r \in Request : IdleBoundEnds(r) /\ pc'[r] = "done" /\ ~ChatHolds(r) =>
       \E q \in Request : Seated(q) /\ LaneOf[q] = "long_output" /\ pc[q] # "parked"]_vars
=============================================================================
