----------------------- MODULE IdempotencyKey_proofs -----------------------
(***************************************************************************)
(* Proofs about IdempotencyKey, for any requests, bodies and faults.        *)
(*                                                                          *)
(* While nothing lapsed, whoever is still owed the key has it: a request    *)
(* that may launch, a run that is open and a recorder that is due are the   *)
(* claim's own (KeyInv). The one step the code does not order, the binding  *)
(* of a run that was recorded already, can come after the key was freed and *)
(* claimed again; KeyInv says that such a run has failed, and that its body *)
(* is the body of the claim it writes to.                                   *)
(***************************************************************************)
EXTENDS IdempotencyKey, TLAPS

\* The request's work may still launch, write or record an answer.
Owed(q) ==
  \/ pc[q] \in {"won", "failing"} \/ run[q] = "open" \/ recorder[q] = "due"
  \/ pc[q] = "launched" /\ run[q] # "failed"

\* Where a request is and what it has launched.
RequestInv ==
  \A q \in Request :
    /\ pc[q] \in {"new", "lost", "again", "lost again", "won"} => run[q] = "none"
    /\ pc[q] = "failing" /\ lapses = 0 => run[q] = "none"
    /\ pc[q] = "launched" => run[q] # "none"
    /\ run[q] \in {"none", "open"} => recorder[q] = "no"

OwedHaveTheKey == \A q \in Request : Owed(q) => key.by = q
OldMeansDone == key.stale \/ key.expired => \A q \in Request : ~Working(q)
FreeMeansDone == key.st = "completed" /\ key.resp = NoResponse => ~Owed(key.by)
ResponseIsOfItsBody ==
  key.resp # NoResponse =>
    /\ run[key.resp] # "none" /\ Body[key.resp] = Body[key.by]
    /\ key.resp # key.by => run[key.resp] = "failed"
LateBindersAgree ==
  \A q \in Request : pc[q] = "launched" => key.by # NoResponse /\ Body[q] = Body[key.by]
ServedInv ==
  \A q \in Request : served[q] # NoResponse =>
    run[served[q]] # "none" /\ Body[served[q]] = Body[q]

KeyInv == /\ OwedHaveTheKey /\ OldMeansDone /\ FreeMeansDone
          /\ ResponseIsOfItsBody /\ LateBindersAgree /\ ServedInv

IInv == IdempotencyTypeOK /\ RequestInv /\ (lapses = 0 => KeyInv)
-----------------------------------------------------------------------------
LEMMA InitIInv == Init => IInv
  BY IdempotencyAssumption
     DEF Init, IInv, IdempotencyTypeOK, RequestInv, KeyInv, OwedHaveTheKey, OldMeansDone,
         FreeMeansDone, ResponseIsOfItsBody, LateBindersAgree, ServedInv, Owed, Working,
         NoRow, Answers, Settled

\* The row alone.
KeyTypeOK ==
  /\ key \in [st : {"none", "in_flight", "completed"}, by : Request \cup {NoResponse},
              resp : Request \cup {NoResponse}, stale : BOOLEAN, expired : BOOLEAN]
  /\ key.st = "none" <=> key.by = NoResponse
  /\ key.st # "completed" => key.resp = NoResponse

LEMMA ClaimedRowType ==
  ASSUME NEW q \in Request, key' = ClaimedRow(q)
  PROVE  /\ KeyTypeOK'
         /\ key'.st = "in_flight" /\ key'.by = q /\ key'.resp = NoResponse
         /\ ~key'.stale /\ ~key'.expired
<1>1. key' = [st |-> "in_flight", by |-> q, resp |-> NoResponse, stale |-> FALSE, expired |-> FALSE]
  BY DEF ClaimedRow, NoRow
<1> QED
  BY <1>1, IdempotencyAssumption DEF KeyTypeOK

\* What FinishRow writes, and to which row.
LEMMA FinishRowType ==
  ASSUME KeyTypeOK, NEW x \in Request \cup {NoResponse}, FinishRow(x)
  PROVE  /\ KeyTypeOK'
         /\ key'.by = key.by /\ key'.stale = key.stale /\ key'.expired = key.expired
         /\ \/ key' = key /\ (key.st = "none" \/ key.expired)
            \/ key'.st = "completed" /\ key'.resp = x /\ key.st # "none" /\ ~key.expired
<1>1. CASE key.st # "none" /\ ~key.expired
  <2>1. key' = [st |-> "completed", by |-> key.by, resp |-> x, stale |-> key.stale, expired |-> key.expired]
    BY <1>1 DEF FinishRow, KeyTypeOK
  <2> QED
    BY <1>1, <2>1 DEF KeyTypeOK
<1>2. CASE key.st = "none" \/ key.expired
  BY <1>2 DEF FinishRow, KeyTypeOK
<1> QED
  BY <1>1, <1>2 DEF KeyTypeOK

LEMMA FaultType == ASSUME faults \in Nat, Fault PROVE faults' \in Nat
  BY DEF Fault

\* A lapse counts, and only a lapse does.
LEMMA LapseIfType ==
  ASSUME NEW b \in BOOLEAN, faults \in Nat, lapses \in Nat, LapseIf(b)
  PROVE  /\ faults' \in Nat /\ lapses' \in Nat
         /\ IF b THEN lapses' # 0 ELSE lapses' = lapses
  BY DEF LapseIf, Fault

\* The row past a deadline is the row, marked.
LEMMA MarkedType ==
  ASSUME KeyTypeOK, \/ key' = [key EXCEPT !.stale = TRUE]
                    \/ key.st # "none" /\ key' = [key EXCEPT !.expired = TRUE]
  PROVE  /\ KeyTypeOK'
         /\ key'.st = key.st /\ key'.by = key.by /\ key'.resp = key.resp
  BY DEF KeyTypeOK

\* The type of the variables, one step per group of actions.
LEMMA TypeStep == IdempotencyTypeOK /\ [Next]_vars => IdempotencyTypeOK'
<1> SUFFICES ASSUME IdempotencyTypeOK, [Next]_vars PROVE IdempotencyTypeOK'
  OBVIOUS
<1> DEFINE OthersOK == /\ pc \in [Request -> Answers \cup {"new", "lost", "again", "lost again", "won", "launched", "failing"}]
                       /\ served \in [Request -> Request \cup {NoResponse}]
                       /\ run \in [Request -> {"none", "open"} \cup Settled]
                       /\ recorder \in [Request -> {"no", "due", "recorded", "lost"}]
                       /\ faults \in Nat /\ lapses \in Nat
<1>a. KeyTypeOK /\ OthersOK
  BY DEF IdempotencyTypeOK, KeyTypeOK
<1>b. SUFFICES KeyTypeOK' /\ OthersOK'
  BY DEF IdempotencyTypeOK, KeyTypeOK
<1>1. CASE UNCHANGED vars
  BY <1>1, <1>a DEF vars, KeyTypeOK
<1>2. ASSUME NEW q \in Request, Claim(q) \/ ClaimAgain(q)
      PROVE  KeyTypeOK' /\ OthersOK'
  <2>1. OthersOK'
    BY <1>2, <1>a DEF Claim, ClaimAgain
  <2>2. key' = ClaimedRow(q) \/ key' = key
    BY <1>2 DEF Claim, ClaimAgain
  <2>3. KeyTypeOK'
    BY <1>a, <2>2, ClaimedRowType DEF KeyTypeOK
  <2> QED
    BY <2>1, <2>3
<1>3. ASSUME NEW q \in Request, ReadWinner(q) \/ ReadAgain(q)
      PROVE  KeyTypeOK' /\ OthersOK'
  BY <1>3, <1>a DEF ReadWinner, ReadAgain, Answered, Answers, KeyTypeOK
<1>4. ASSUME NEW q \in Request, Launch(q)
      PROVE  KeyTypeOK' /\ OthersOK'
  BY <1>4, <1>a DEF Launch, KeyTypeOK
<1>5. ASSUME NEW q \in Request, LaunchFails(q)
      PROVE  KeyTypeOK' /\ OthersOK'
  <2>1. faults' \in Nat /\ lapses' \in Nat
    BY <1>5, <1>a, LapseIfType DEF LaunchFails
  <2> QED
    BY <1>5, <1>a, <2>1 DEF LaunchFails, KeyTypeOK
<1>6. ASSUME NEW q \in Request, Bind(q) \/ Release(q)
      PROVE  KeyTypeOK' /\ OthersOK'
  <2>1. KeyTypeOK'
    BY <1>6, <1>a, FinishRowType DEF Bind, Release, GiveBack
  <2> QED
    BY <1>6, <1>a, <2>1 DEF Bind, Release, Answers
<1>7. ASSUME NEW q \in Request, WriteFails(q) \/ Settle(q) \/ Crash(q)
      PROVE  KeyTypeOK' /\ OthersOK'
  <2>1. KeyTypeOK'
    BY <1>7, <1>a DEF WriteFails, Settle, Crash, KeyTypeOK
  <2>2. CASE WriteFails(q)
    <3>1. pc' \in [Request -> Answers \cup {"new", "lost", "again", "lost again", "won", "launched", "failing"}]
      BY <2>2, <1>a DEF WriteFails, Answers
    <3>2. recorder' \in [Request -> {"no", "due", "recorded", "lost"}]
      BY <2>2, <1>a DEF WriteFails
    <3>3. faults' \in Nat
      BY <2>2, <1>a, FaultType DEF WriteFails
    <3> QED
      BY <2>1, <2>2, <3>1, <3>2, <3>3, <1>a DEF WriteFails
  <2>3. CASE Settle(q)
    BY <2>1, <2>3, <1>a DEF Settle
  <2>4. CASE Crash(q)
    <3>1. faults' \in Nat
      BY <2>4, <1>a, FaultType DEF Crash
    <3>2. pc' \in [Request -> Answers \cup {"new", "lost", "again", "lost again", "won", "launched", "failing"}]
      BY <2>4, <1>a DEF Crash, Answers
    <3> QED
      BY <2>1, <2>4, <3>1, <3>2, <1>a DEF Crash
  <2> QED
    BY <1>7, <2>2, <2>3, <2>4
<1>8. ASSUME NEW q \in Request, Record(q)
      PROVE  KeyTypeOK' /\ OthersOK'
  <2>1. KeyTypeOK'
    BY <1>8, <1>a, FinishRowType DEF Record, Outcome
  <2> QED
    BY <1>8, <1>a, <2>1 DEF Record
<1>9. CASE LeaseEnds \/ Expire
  <2>1. faults' \in Nat /\ lapses' \in Nat
    BY <1>9, <1>a, LapseIfType DEF LeaseEnds, Expire
  <2>2. KeyTypeOK'
    BY <1>9, <1>a, MarkedType DEF LeaseEnds, Expire
  <2> QED
    BY <1>9, <1>a, <2>1, <2>2 DEF LeaseEnds, Expire
<1>10. CASE Prune
  BY <1>10, <1>a, IdempotencyAssumption DEF Prune, NoRow, KeyTypeOK
<1> QED
  BY <1>1, <1>2, <1>3, <1>4, <1>5, <1>6, <1>7, <1>8, <1>9, <1>10 DEF Next

\* lapses never falls.
LEMMA LapsesStay == IdempotencyTypeOK /\ [Next]_vars /\ lapses' = 0 => lapses = 0
<1> SUFFICES ASSUME IdempotencyTypeOK, [Next]_vars, lapses' = 0, lapses # 0 PROVE FALSE
  OBVIOUS
<1>1. lapses \in Nat /\ faults \in Nat
  BY DEF IdempotencyTypeOK
<1>2. lapses' = lapses \/ LapseIf(TRUE) \/ LapseIf(\E q \in Request : Working(q))
  BY DEF Next, vars, Claim, ReadWinner, ClaimAgain, ReadAgain, Launch, LaunchFails, Bind,
         Release, WriteFails, Settle, Record, Crash, LeaseEnds, Expire, Prune
<1>3. lapses' = lapses \/ lapses' # 0
  BY <1>1, <1>2, LapseIfType
<1> QED
  BY <1>3

\* What a request is doing and what it has launched agree.
LEMMA RequestStep == IdempotencyTypeOK /\ RequestInv /\ [Next]_vars => RequestInv'
<1> SUFFICES ASSUME IdempotencyTypeOK, RequestInv, [Next]_vars
             PROVE  RequestInv'
  OBVIOUS
<1> USE LapsesStay DEF IdempotencyTypeOK, RequestInv
<1>1. CASE UNCHANGED vars
  BY <1>1 DEF vars
<1>2. ASSUME NEW q \in Request, Claim(q) \/ ClaimAgain(q) \/ ReadWinner(q) \/ ReadAgain(q)
      PROVE  RequestInv'
  BY <1>2 DEF Claim, ClaimAgain, ReadWinner, ReadAgain, Answered
<1>3. ASSUME NEW q \in Request, Launch(q) \/ LaunchFails(q)
      PROVE  RequestInv'
  <2>1. CASE Launch(q)
    BY <2>1 DEF Launch
  <2>2. CASE LaunchFails(q)
    <3>1. UNCHANGED run \/ lapses' # 0
      BY <2>2, LapseIfType DEF LaunchFails
    <3>2. /\ pc' = [pc EXCEPT ![q] = "failing"] /\ UNCHANGED recorder /\ pc[q] = "won"
          /\ run' = run \/ run' = [run EXCEPT ![q] = "open"]
      BY <2>2 DEF LaunchFails
    <3> QED
      BY <3>1, <3>2
  <2> QED
    BY <1>3, <2>1, <2>2
<1>4. ASSUME NEW q \in Request, Bind(q) \/ Release(q) \/ WriteFails(q) \/ Crash(q)
      PROVE  RequestInv'
  BY <1>4 DEF Bind, Release, WriteFails, Crash, Answers
<1>5. ASSUME NEW q \in Request, Settle(q) \/ Record(q)
      PROVE  RequestInv'
  BY <1>5 DEF Settle, Record, Settled
<1>6. CASE LeaseEnds \/ Expire \/ Prune
  BY <1>6 DEF LeaseEnds, Expire, Prune
<1> QED
  BY <1>1, <1>2, <1>3, <1>4, <1>5, <1>6 DEF Next

\* A step that only takes work away keeps KeyInv.
LEMMA LessToDo ==
  ASSUME IdempotencyTypeOK, KeyInv, key' = key, served' = served,
         \A x \in Request : Owed(x)' => Owed(x),
         \A x \in Request : Working(x)' => Working(x),
         \A x \in Request : pc'[x] = "launched" => pc[x] = "launched",
         \A x \in Request : run[x] # "none" => run'[x] # "none",
         \A x \in Request : x # key.by /\ run[x] = "failed" => run'[x] = "failed"
  PROVE  KeyInv'
<1>1. OwedHaveTheKey'
  BY DEF KeyInv, OwedHaveTheKey
<1>2. OldMeansDone'
  BY DEF KeyInv, OldMeansDone
<1>3. FreeMeansDone'
  <2>1. key.st = "completed" => key.by \in Request
    BY DEF IdempotencyTypeOK
  <2> QED
    BY <2>1 DEF KeyInv, FreeMeansDone
<1>4. ResponseIsOfItsBody'
  <2>1. key.resp # NoResponse => key.resp \in Request
    BY DEF IdempotencyTypeOK
  <2> QED
    BY <2>1 DEF KeyInv, ResponseIsOfItsBody
<1>5. LateBindersAgree'
  BY DEF KeyInv, LateBindersAgree
<1>6. ServedInv'
  BY DEF KeyInv, ServedInv, IdempotencyTypeOK
<1> QED
  BY <1>1, <1>2, <1>3, <1>4, <1>5, <1>6 DEF KeyInv

\* Winning the key: nobody is owed it any more.
LEMMA WonStep ==
  ASSUME IdempotencyTypeOK, RequestInv, KeyInv, NEW q \in Request,
         pc[q] \in {"new", "again"}, key' = ClaimedRow(q), pc' = [pc EXCEPT ![q] = "won"],
         UNCHANGED <<served, run, recorder>>,
         \/ key.st = "none" \/ key.expired \/ (key.st = "in_flight" /\ key.stale)
         \/ key.st = "completed" /\ key.resp = NoResponse /\ SameBody(q)
  PROVE  KeyInv'
<1>1. /\ key'.st = "in_flight" /\ key'.by = q /\ key'.resp = NoResponse
      /\ ~key'.stale /\ ~key'.expired
  BY ClaimedRowType
<1>2. \A x \in Request : ~Owed(x)
  <2> SUFFICES ASSUME NEW x \in Request, Owed(x) PROVE FALSE
    OBVIOUS
  <2>1. key.by = x /\ Working(x)
    BY DEF KeyInv, OwedHaveTheKey, Owed, Working
  <2>2. key.st # "none"
    BY <2>1, IdempotencyAssumption DEF IdempotencyTypeOK
  <2>3. ~key.expired /\ ~key.stale
    BY <2>1 DEF KeyInv, OldMeansDone
  <2> QED
    BY <2>1, <2>2, <2>3 DEF KeyInv, FreeMeansDone
<1>3. \A x \in Request : pc[x] = "launched" => Body[x] = Body[q]
  <2> SUFFICES ASSUME NEW x \in Request, pc[x] = "launched" PROVE Body[x] = Body[q]
    OBVIOUS
  <2>1. key.by # NoResponse /\ Body[x] = Body[key.by] /\ Working(x)
    BY DEF KeyInv, LateBindersAgree, Working
  <2>2. ~key.expired /\ ~key.stale
    BY <2>1 DEF KeyInv, OldMeansDone
  <2> QED
    BY <2>1, <2>2 DEF IdempotencyTypeOK, SameBody
<1>4. OwedHaveTheKey'
  BY <1>1, <1>2 DEF OwedHaveTheKey, Owed, IdempotencyTypeOK
<1>5. OldMeansDone' /\ FreeMeansDone' /\ ResponseIsOfItsBody'
  BY <1>1 DEF OldMeansDone, FreeMeansDone, ResponseIsOfItsBody
<1>6. LateBindersAgree'
  BY <1>1, <1>3, IdempotencyAssumption DEF LateBindersAgree, IdempotencyTypeOK
<1>7. ServedInv'
  BY DEF KeyInv, ServedInv
<1> QED
  BY <1>4, <1>5, <1>6, <1>7 DEF KeyInv


\* Binding or freeing the row: the write of a request or a recorder, on the
\* live row of its own key.
LEMMA WriteStep ==
  ASSUME IdempotencyTypeOK, IdempotencyTypeOK', RequestInv, KeyInv,
         NEW q \in Request, NEW x \in {q, NoResponse}, FinishRow(x),
         UNCHANGED <<served, run>>,
         \A r \in Request : pc'[r] = "launched" => pc[r] = "launched",
         \A r \in Request : Owed(r)' => Owed(r),
         Working(q) /\ (Owed(q) \/ pc[q] = "launched"),
         x = NoResponse => Owed(q) /\ ~Owed(q)',
         x = q => run[q] # "none"
  PROVE  KeyInv'
<1>k. KeyTypeOK
  BY DEF KeyTypeOK, IdempotencyTypeOK
<1>1. key.by # NoResponse /\ key.by \in Request /\ Body[q] = Body[key.by]
  <2>1. key.by \in Request \cup {NoResponse}
    BY DEF IdempotencyTypeOK
  <2>2. CASE Owed(q)
    BY <2>2, IdempotencyAssumption DEF KeyInv, OwedHaveTheKey
  <2>3. CASE pc[q] = "launched"
    BY <2>1, <2>3 DEF KeyInv, LateBindersAgree
  <2> QED
    BY <2>2, <2>3
<1>2. ~key.expired /\ ~key.stale /\ key.st # "none"
  BY <1>1, <1>k DEF KeyInv, OldMeansDone, KeyTypeOK
<1>3. /\ key'.st = "completed" /\ key'.resp = x
      /\ key'.by = key.by /\ key'.stale = key.stale /\ key'.expired = key.expired
  BY <1>k, <1>2, FinishRowType
<1>4. OwedHaveTheKey'
  BY <1>3 DEF KeyInv, OwedHaveTheKey
<1>5. OldMeansDone'
  BY <1>2, <1>3 DEF OldMeansDone
<1>6. FreeMeansDone'
  BY <1>1, <1>3, IdempotencyAssumption DEF KeyInv, OwedHaveTheKey, FreeMeansDone
<1>7. ResponseIsOfItsBody'
  <2>1. q # key.by => run[q] = "failed"
    BY DEF KeyInv, OwedHaveTheKey, Owed
  <2> QED
    BY <1>1, <1>3, <2>1, IdempotencyAssumption DEF ResponseIsOfItsBody
<1>8. LateBindersAgree'
  BY <1>3 DEF KeyInv, LateBindersAgree
<1>9. ServedInv'
  BY DEF KeyInv, ServedInv
<1> QED
  BY <1>4, <1>5, <1>6, <1>7, <1>8, <1>9 DEF KeyInv

\* A row whose owner is done is marked old, or removed.
LEMMA OldStep ==
  ASSUME IdempotencyTypeOK, KeyInv, \A x \in Request : ~Working(x),
         UNCHANGED <<pc, served, run, recorder>>,
         \/ key'.st = key.st /\ key'.by = key.by /\ key'.resp = key.resp
         \/ key' = NoRow
  PROVE  KeyInv'
<1>1. \A x \in Request : ~Owed(x)' /\ ~Working(x)' /\ pc'[x] # "launched"
  BY DEF Owed, Working
<1>2. OwedHaveTheKey' /\ OldMeansDone' /\ LateBindersAgree'
  BY <1>1 DEF OwedHaveTheKey, OldMeansDone, LateBindersAgree
<1>3. FreeMeansDone' /\ ResponseIsOfItsBody'
  <2>1. CASE key' = NoRow
    BY <2>1 DEF NoRow, FreeMeansDone, ResponseIsOfItsBody
  <2>2. CASE key'.st = key.st /\ key'.by = key.by /\ key'.resp = key.resp
    <3>1. key.st = "completed" => key.by \in Request
      BY DEF IdempotencyTypeOK
    <3>2. FreeMeansDone'
      BY <1>1, <2>2, <3>1 DEF FreeMeansDone
    <3>3. ResponseIsOfItsBody'
      BY <2>2 DEF KeyInv, ResponseIsOfItsBody
    <3> QED
      BY <3>2, <3>3
  <2> QED
    BY <2>1, <2>2
<1>4. ServedInv'
  BY DEF KeyInv, ServedInv
<1> QED
  BY <1>2, <1>3, <1>4 DEF KeyInv


\* While nothing lapsed, every step keeps KeyInv.
LEMMA KeyStep ==
  ASSUME IdempotencyTypeOK, RequestInv, KeyInv, [Next]_vars, lapses = 0, lapses' = 0
  PROVE  KeyInv'
<1> USE DEF IdempotencyTypeOK
<1>t. IdempotencyTypeOK'
  BY TypeStep
<1>1. CASE UNCHANGED vars
  BY <1>1, LessToDo DEF vars, Owed, Working
<1>2. ASSUME NEW q \in Request, Claim(q) \/ ClaimAgain(q)
      PROVE  KeyInv'
  <2>1. CASE pc' = [pc EXCEPT ![q] = "won"]
    <3>1. key' = ClaimedRow(q)
      BY <1>2, <2>1 DEF Claim, ClaimAgain
    <3>2. \/ key.st = "none" \/ key.expired \/ (key.st = "in_flight" /\ key.stale)
          \/ key.st = "completed" /\ key.resp = NoResponse /\ SameBody(q)
      BY <1>2, <2>1 DEF Claim, ClaimAgain, Reclaimable
    <3> QED
      BY <1>2, <2>1, <3>1, <3>2, WonStep DEF Claim, ClaimAgain
  <2>2. CASE key' = key /\ (pc' = [pc EXCEPT ![q] = "lost"] \/ pc' = [pc EXCEPT ![q] = "lost again"])
    BY <1>2, <2>2, LessToDo DEF Claim, ClaimAgain, Owed, Working
  <2> QED
    BY <1>2, <2>1, <2>2 DEF Claim, ClaimAgain
<1>3. ASSUME NEW q \in Request, ReadWinner(q) \/ ReadAgain(q)
      PROVE  KeyInv'
  <2>1. \A x \in Request : /\ pc'[x] \in {"won", "launched", "failing"} <=> pc[x] \in {"won", "launched", "failing"}
                           /\ pc[x] \in {"won", "launched", "failing"} => pc'[x] = pc[x]
    BY <1>3 DEF ReadWinner, ReadAgain, Answered
  <2>2. UNCHANGED <<key, run, recorder>>
    BY <1>3 DEF ReadWinner, ReadAgain
  <2>3. OwedHaveTheKey' /\ OldMeansDone' /\ LateBindersAgree'
    BY <2>1, <2>2 DEF KeyInv, OwedHaveTheKey, OldMeansDone, LateBindersAgree, Owed, Working
  <2>4. FreeMeansDone' /\ ResponseIsOfItsBody'
    BY <2>1, <2>2 DEF KeyInv, FreeMeansDone, ResponseIsOfItsBody, Owed
  <2>5. ServedInv'
    <3>1. \/ served' = served
          \/ served' = [served EXCEPT ![q] = key.resp] /\ SameBody(q)
      BY <1>3 DEF ReadWinner, ReadAgain, Answered
    <3> QED
      BY <2>2, <3>1 DEF KeyInv, ServedInv, ResponseIsOfItsBody, SameBody
  <2> QED
    BY <2>3, <2>4, <2>5 DEF KeyInv
<1>4. ASSUME NEW q \in Request, Launch(q)
      PROVE  KeyInv'
  <2>1. Owed(q) /\ Working(q) /\ run[q] = "none" /\ key.by = q
    BY <1>4 DEF Launch, Owed, Working, RequestInv, KeyInv, OwedHaveTheKey
  <2>2. \A x \in Request : (Owed(x)' => Owed(x)) /\ (Working(x)' => Working(x))
    BY <1>4, <2>1 DEF Launch, Owed, Working
  <2>3. OwedHaveTheKey' /\ OldMeansDone' /\ FreeMeansDone'
    BY <1>4, <2>1, <2>2 DEF Launch, KeyInv, OwedHaveTheKey, OldMeansDone, FreeMeansDone
  <2>4. ResponseIsOfItsBody' /\ ServedInv'
    BY <1>4, <2>1 DEF Launch, KeyInv, ResponseIsOfItsBody, ServedInv
  <2>5. LateBindersAgree'
    BY <1>4, <2>1, IdempotencyAssumption DEF Launch, KeyInv, LateBindersAgree
  <2> QED
    BY <2>3, <2>4, <2>5 DEF KeyInv
<1>5. ASSUME NEW q \in Request, LaunchFails(q)
      PROVE  KeyInv'
  <2>1. UNCHANGED run
    BY <1>5, LapseIfType DEF LaunchFails
  <2> QED
    BY <1>5, <2>1, LessToDo DEF LaunchFails, Owed, Working
<1>6. ASSUME NEW q \in Request, Bind(q)
      PROVE  KeyInv'
  <2>1. Working(q) /\ run[q] # "none" /\ pc[q] = "launched"
    BY <1>6 DEF Bind, Working, RequestInv
  <2>2. \A x \in Request : (Owed(x)' => Owed(x)) /\ (pc'[x] = "launched" => pc[x] = "launched")
    BY <1>6 DEF Bind, Owed
  <2> QED
    BY <1>6, <1>t, <2>1, <2>2, WriteStep, IdempotencyAssumption DEF Bind
<1>7. ASSUME NEW q \in Request, Release(q)
      PROVE  KeyInv'
  <2>1. Working(q) /\ Owed(q) /\ run[q] = "none" /\ recorder[q] = "no"
    BY <1>7 DEF Release, Working, Owed, RequestInv
  <2>2. \A x \in Request : (Owed(x)' => Owed(x)) /\ (pc'[x] = "launched" => pc[x] = "launched")
    BY <1>7 DEF Release, Owed
  <2>3. ~Owed(q)'
    BY <1>7, <2>1 DEF Release, Owed
  <2> QED
    BY <1>7, <1>t, <2>1, <2>2, <2>3, WriteStep, IdempotencyAssumption DEF Release, GiveBack
<1>8. ASSUME NEW q \in Request, WriteFails(q)
      PROVE  KeyInv'
  BY <1>8, LessToDo DEF WriteFails, Owed, Working
<1>9. ASSUME NEW q \in Request, Settle(q)
      PROVE  KeyInv'
  <2>1. key.by = q /\ run[q] = "open"
    BY <1>9 DEF Settle, Owed, KeyInv, OwedHaveTheKey
  <2>2. \A x \in Request : /\ Owed(x)' => Owed(x)
                           /\ Working(x)' => Working(x)
    BY <1>9 DEF Settle, Owed, Working
  <2>3. \A x \in Request : /\ run[x] # "none" => run'[x] # "none"
                           /\ x # q => run'[x] = run[x]
    BY <1>9 DEF Settle, Settled
  <2> QED
    BY <1>9, <2>1, <2>2, <2>3, LessToDo DEF Settle
<1>10. ASSUME NEW q \in Request, Record(q)
      PROVE  KeyInv'
  <2>1. Working(q) /\ Owed(q) /\ run[q] \in Settled
    BY <1>10 DEF Record, Working, Owed, RequestInv
  <2>2. \A x \in Request : (Owed(x)' => Owed(x)) /\ (pc'[x] = "launched" => pc[x] = "launched")
    BY <1>10 DEF Record, Owed
  <2>3. run[q] = "failed" => ~Owed(q)'
    BY <1>10, <2>1 DEF Record, Owed, RequestInv
  <2> QED
    BY <1>10, <1>t, <2>1, <2>2, <2>3, WriteStep, IdempotencyAssumption DEF Record, Outcome, Settled
<1>11. ASSUME NEW q \in Request, Crash(q)
      PROVE  KeyInv'
  BY <1>11, LessToDo DEF Crash, Owed, Working
<1>12. CASE LeaseEnds \/ Expire
  <2>1. \A x \in Request : ~Working(x)
    BY <1>12, LapseIfType DEF LeaseEnds, Expire
  <2>2. key'.st = key.st /\ key'.by = key.by /\ key'.resp = key.resp
    BY <1>12 DEF LeaseEnds, Expire
  <2> QED
    BY <1>12, <2>1, <2>2, OldStep DEF LeaseEnds, Expire
<1>13. CASE Prune
  <2>1. \A x \in Request : ~Working(x)
    BY <1>13 DEF Prune, KeyInv, OldMeansDone
  <2> QED
    BY <1>13, <2>1, OldStep DEF Prune
<1> QED
  BY <1>1, <1>2, <1>3, <1>4, <1>5, <1>6, <1>7, <1>8, <1>9, <1>10, <1>11, <1>12, <1>13 DEF Next

\* IInv is inductive.
LEMMA IInvStep == IInv /\ [Next]_vars => IInv'
<1> SUFFICES ASSUME IInv, [Next]_vars PROVE IInv'
  OBVIOUS
<1>1. IdempotencyTypeOK' /\ RequestInv'
  BY TypeStep, RequestStep DEF IInv
<1>2. lapses' = 0 => KeyInv'
  BY LapsesStay, KeyStep DEF IInv
<1> QED
  BY <1>1, <1>2 DEF IInv

LEMMA IInvAlways == Spec => []IInv
  BY InitIInv, IInvStep, PTL DEF Spec

-----------------------------------------------------------------------------
\* Every variable keeps its type (idempotency.py's row, router.py's requests).
THEOREM IdempotencyTypeCorrect == Spec => []IdempotencyTypeOK
<1>1. IInv => IdempotencyTypeOK
  BY DEF IInv
<1> QED
  BY <1>1, IInvAlways, PTL

\* claim: while no deadline lapses on work that goes on, at most one run of the
\* key is open, whoever crashes.
THEOREM OneRunPerKeyHolds == Spec => []OneRunPerKey
<1>1. IInv => OneRunPerKey
  BY DEF IInv, KeyInv, OwedHaveTheKey, Owed, OneRunPerKey
<1> QED
  BY <1>1, IInvAlways, PTL

\* _attach_idempotent and _replay answer with a response of the request's body.
THEOREM ServedItsOwnBodyHolds == Spec => []ServedItsOwnBody
<1>1. IInv => ServedItsOwnBody
  BY DEF IInv, KeyInv, ServedInv, ServedItsOwnBody
<1> QED
  BY <1>1, IInvAlways, PTL

\* finish_idempotency, claim and prune: a key that names a run which has not
\* failed keeps naming a run until its retention ends.
THEOREM AnswerIsKeptAlways == Spec => AnswerIsKept
<1> DEFINE Kept == lapses = 0 /\ key.resp # NoResponse /\ run[key.resp] # "failed" /\ ~key.expired
                     => key'.resp # NoResponse
<1>1. ASSUME IInv, [Next]_vars PROVE Kept
  <2> SUFFICES ASSUME lapses = 0, key.resp # NoResponse, run[key.resp] # "failed", ~key.expired
               PROVE  key'.resp # NoResponse
    OBVIOUS
  <2> USE DEF IdempotencyTypeOK
  <2>i. IdempotencyTypeOK /\ RequestInv /\ KeyInv
    BY <1>1 DEF IInv
  <2>b. key.st = "completed" /\ key.by = key.resp /\ key.resp \in Request
    BY <2>i DEF KeyInv, ResponseIsOfItsBody
  <2>w. ASSUME NEW q \in Request, NEW x \in Request \cup {NoResponse}, FinishRow(x),
               x = NoResponse => Owed(q) /\ (run[q] = "none" \/ run[q] = "failed")
        PROVE  key'.resp # NoResponse
    <3>1. CASE x = NoResponse
      <4>1. key.resp = q /\ (run[q] = "none" \/ run[q] = "failed")
        BY <2>i, <2>b, <2>w, <3>1 DEF KeyInv, OwedHaveTheKey
      <4> QED
        BY <2>i, <4>1 DEF KeyInv, ResponseIsOfItsBody
    <3>2. CASE x # NoResponse
      <4>1. KeyTypeOK
        BY <2>i DEF KeyTypeOK
      <4> QED
        BY <2>w, <3>2, <4>1, FinishRowType
    <3> QED
      BY <3>1, <3>2
  <2>1. CASE UNCHANGED key
    BY <2>1
  <2>2. ASSUME NEW q \in Request, Claim(q) \/ ClaimAgain(q)
        PROVE  key'.resp # NoResponse
    BY <2>2, <2>b DEF Claim, ClaimAgain, Reclaimable
  <2>3. ASSUME NEW q \in Request, Bind(q)
        PROVE  key'.resp # NoResponse
    BY <2>3, <2>w, IdempotencyAssumption DEF Bind
  <2>4. ASSUME NEW q \in Request, Release(q)
        PROVE  key'.resp # NoResponse
    BY <2>4, <2>i, <2>w DEF Release, GiveBack, Owed, RequestInv
  <2>5. ASSUME NEW q \in Request, Record(q)
        PROVE  key'.resp # NoResponse
    BY <2>5, <2>w, IdempotencyAssumption DEF Record, Outcome, Owed
  <2>6. CASE LeaseEnds \/ Expire
    BY <2>6, <2>i, MarkedType DEF LeaseEnds, Expire, KeyTypeOK
  <2>8. CASE Prune
    BY <2>8 DEF Prune
  <2>7. ASSUME NEW q \in Request,
               \/ ReadWinner(q) \/ ReadAgain(q) \/ Launch(q) \/ LaunchFails(q)
               \/ WriteFails(q) \/ Settle(q) \/ Crash(q)
        PROVE  UNCHANGED key
    BY <2>7 DEF ReadWinner, ReadAgain, Launch, LaunchFails, WriteFails, Settle, Crash
  <2> QED
    BY <1>1, <2>1, <2>2, <2>3, <2>4, <2>5, <2>6, <2>7, <2>8 DEF Next, vars
<1>2. IInv /\ [Next]_vars => [Kept]_vars
  BY <1>1
<1>3. [][Next]_vars /\ []IInv => [][Kept]_vars
  BY <1>2, PTL
<1> QED
  BY <1>3, IInvAlways, PTL DEF Spec, AnswerIsKept

=============================================================================
