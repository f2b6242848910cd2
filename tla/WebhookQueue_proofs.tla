------------------------ MODULE WebhookQueue_proofs ------------------------
(***************************************************************************)
(* Proofs about WebhookQueue, for any deliveries, endpoints, workers,       *)
(* connections and bounds.                                                  *)
(*                                                                          *)
(* The row a worker sends from is there and counts at least the attempts    *)
(* the worker knows of (HeldInv), which is enough for a status to be true.  *)
(* While no lease lapsed under a live sender the row is still leased, or    *)
(* was dropped or removed under it, and nobody else holds it (SoleInv): a   *)
(* row that is due, delivered or failed is in nobody's hands.               *)
(*                                                                          *)
(* The two bounds count: the workers that hold a delivery are the stalls,   *)
(* and the lease (AttemptInv), and the connections that saw room are what   *)
(* the backlog may still grow by (BacklogInv).                              *)
(***************************************************************************)
EXTENDS WebhookQueue, FiniteSetTheorems, TLAPS

Waits == {"none", "due", "lease", "backoff"}
Row == [st : Statuses, attempt : Nat, wait : Waits]
Send == [st : {"no", "claimed", "posted"}, seen : 0..(MaxAttempts - 1),
         outcome : {"none", "ok", "failure", "refusal"}]

\* A delivery being queued has no row yet, and is queued once.
CountInv ==
  \A c \in Conn : counting[c].d # NoDelivery =>
    /\ row[counting[c].d].st = "none"
    /\ \A k \in Conn : counting[k].d = counting[c].d => k = c

HeldInv ==
  \A w \in Worker : \A d \in Delivery : Holds(w, d) =>
    /\ row[d].st \notin {"none", "refused"}
    /\ row[d].st # "gone" =>
         /\ sending[w][d].seen <= row[d].attempt
         /\ sending[w][d].st = "posted" /\ sending[w][d].outcome = "ok" => d \in received

SoleInv ==
  \A w \in Worker : \A d \in Delivery : Holds(w, d) =>
    /\ row[d].st \in {"pending", "dropped", "gone"}
    /\ Pending(d) => row[d].wait = "lease"
    /\ row[d].st # "gone" => sending[w][d].seen = row[d].attempt
    /\ \A v \in Worker : Holds(v, d) => v = w

IInv == WebhookTypeOK /\ CountInv /\ HeldInv /\ StatusIsTrue /\ (stalls = 0 => SoleInv)
-----------------------------------------------------------------------------
LEMMA InitIInv == Init => IInv
  BY WebhookAssumption
     DEF Init, IInv, WebhookTypeOK, CountInv, HeldInv, StatusIsTrue, SoleInv, Holds, Idle,
         NoRow, Statuses, Settled

\* What the steps that write a row or a worker's deliveries write.
LEMMA Inserted ==
  ASSUME WebhookTypeOK, NEW c \in Conn, Insert(c)
  PROVE  /\ counting[c].d \in Delivery /\ counting' = [counting EXCEPT ![c] = [d |-> NoDelivery, room |-> FALSE]]
         /\ row' \in [Delivery -> Row]
         /\ row'[counting[c].d].st \in {"gone", "pending", "refused"}
         /\ \A d \in Delivery : d # counting[c].d => row'[d] = row[d]
<1> DEFINE n == IF endpoint[EndpointOf[counting[c].d]] = "deleted" THEN [NoRow EXCEPT !.st = "gone"]
                ELSE IF counting[c].room THEN [NoRow EXCEPT !.st = "pending", !.wait = "due"]
                ELSE [NoRow EXCEPT !.st = "refused"]
<1>1. n \in Row /\ n.st \in {"gone", "pending", "refused"}
  BY DEF NoRow, Row, Statuses, Waits
<1>2. counting[c].d \in Delivery /\ row' = [row EXCEPT ![counting[c].d] = n]
  BY DEF Insert, WebhookTypeOK
<1>3. row \in [Delivery -> Row]
  BY DEF WebhookTypeOK, Row, Waits
<1> HIDE DEF n
<1> QED
  BY <1>1, <1>2, <1>3 DEF Insert

LEMMA Claimed ==
  ASSUME WebhookTypeOK, NEW w \in Worker, Claim(w)
  PROVE  /\ row' \in [Delivery -> Row] /\ sending' \in [Worker -> [Delivery -> Send]]
         /\ \A d \in Delivery : row'[d].st = row[d].st /\ row'[d].attempt = row[d].attempt
         /\ \A d \in Delivery : \A v \in Worker :
              \/ row'[d] = row[d] /\ sending'[v][d] = sending[v][d]
              \/ v # w /\ sending'[v][d] = sending[v][d] /\ Pending(d) /\ row[d].wait = "due"
              \/ /\ v = w /\ Pending(d) /\ row[d].wait = "due" /\ row'[d].wait = "lease"
                 /\ sending'[v][d] = [st |-> "claimed", seen |-> row[d].attempt, outcome |-> "none"]
<1>1. row \in [Delivery -> Row] /\ sending \in [Worker -> [Delivery -> Send]]
  BY DEF WebhookTypeOK, Row, Send, Waits
<1>2. \A d \in StillDue(w) : Pending(d) /\ row[d].wait = "due" /\ row[d].attempt < MaxAttempts
  BY DEF StillDue, Claimable
<1>3. \A d \in StillDue(w) : d \in Delivery
  BY DEF StillDue, WebhookTypeOK
<1>4. \A d \in Delivery : row'[d] = IF d \in StillDue(w)
         THEN [st |-> row[d].st, attempt |-> row[d].attempt, wait |-> "lease"] ELSE row[d]
  BY <1>1 DEF Claim, Row
<1>5. \A d \in StillDue(w) : [st |-> "claimed", seen |-> row[d].attempt, outcome |-> "none"] \in Send
  BY <1>1, <1>2, <1>3, WebhookAssumption DEF Row, Send
<1>6. \A v \in Worker : \A d \in Delivery : sending'[v][d] =
        IF v = w /\ d \in StillDue(w)
        THEN [st |-> "claimed", seen |-> row[d].attempt, outcome |-> "none"] ELSE sending[v][d]
  BY <1>1 DEF Claim
<1>7. sending' \in [Worker -> [Delivery -> Send]]
  BY <1>1, <1>5 DEF Claim
<1>8. row' \in [Delivery -> Row]
  BY <1>1 DEF Claim, Row, Waits
<1> QED
  BY <1>2, <1>4, <1>6, <1>7, <1>8

LEMMA Posted ==
  ASSUME WebhookTypeOK, NEW w \in Worker, NEW d \in Delivery, Post(w, d)
  PROVE  /\ sending' \in [Worker -> [Delivery -> Send]]
         /\ Holds(w, d) /\ sending'[w][d].seen = sending[w][d].seen /\ sending'[w][d].st = "posted"
         /\ sending'[w][d].outcome = "ok" /\ row[d].st # "gone" => d \in received'
         /\ \A v \in Worker : \A x \in Delivery : v # w \/ x # d => sending'[v][x] = sending[v][x]
         /\ received \subseteq received' /\ received' \subseteq Delivery
<1>1. sending \in [Worker -> [Delivery -> Send]]
  BY DEF WebhookTypeOK, Send
<1>2. PICK o \in {"ok", "failure", "refusal"} :
        /\ sending' = [sending EXCEPT ![w][d] = [st |-> "posted", seen |-> @.seen, outcome |-> o]]
        /\ received' = IF o = "ok" /\ row[d].st # "gone" THEN received \cup {d} ELSE received
  BY DEF Post
<1>3. sending' = [sending EXCEPT ![w] = [sending[w] EXCEPT ![d] =
                    [st |-> "posted", seen |-> sending[w][d].seen, outcome |-> o]]]
  BY <1>1, <1>2
<1>4. [st |-> "posted", seen |-> sending[w][d].seen, outcome |-> o] \in Send
  BY <1>1 DEF Send
<1>5. received \subseteq received' /\ received' \subseteq Delivery
  BY <1>2 DEF WebhookTypeOK
<1>6. Holds(w, d)
  BY DEF Post, Holds
<1> QED
  BY <1>1, <1>2, <1>3, <1>4, <1>5, <1>6

LEMMA Put ==
  ASSUME WebhookTypeOK, NEW w \in Worker, NEW d \in Delivery,
         sending' = [sending EXCEPT ![w][d] = Idle]
  PROVE  /\ sending' \in [Worker -> [Delivery -> Send]] /\ ~Holds(w, d)'
         /\ \A v \in Worker : \A x \in Delivery : v # w \/ x # d => sending'[v][x] = sending[v][x]
<1>1. sending \in [Worker -> [Delivery -> Send]]
  BY DEF WebhookTypeOK, Send
<1>2. Idle \in Send /\ Idle.st = "no"
  BY WebhookAssumption DEF Idle, Send
<1>3. sending' = [sending EXCEPT ![w] = [sending[w] EXCEPT ![d] = Idle]]
  BY <1>1
<1> QED
  BY <1>1, <1>2, <1>3 DEF Holds

LEMMA RecordedRow ==
  ASSUME WebhookTypeOK, NEW w \in Worker, NEW d \in Delivery, Record(w, d), row[d].st # "gone"
  PROVE  /\ row' \in [Delivery -> Row]
         /\ row'[d].st = Recorded(sending[w][d]) /\ row'[d].attempt = row[d].attempt + 1
         /\ \A x \in Delivery : x # d => row'[x] = row[x]
<1> DEFINE st == Recorded(sending[w][d])
<1>1. row \in [Delivery -> Row]
  BY DEF WebhookTypeOK, Row, Waits
<1>2. st \in {"delivered", "dropped", "failed", "pending"}
  BY DEF Recorded
<1>3. row' = [row EXCEPT ![d].st = st, ![d].attempt = @ + 1,
                         ![d].wait = IF st = "pending" THEN "backoff" ELSE "none"]
  BY DEF Record
<1> HIDE DEF st
<1>4. row' = [row EXCEPT ![d] = [st |-> st, attempt |-> row[d].attempt + 1,
                                 wait |-> IF st = "pending" THEN "backoff" ELSE "none"]]
  BY <1>1, <1>3 DEF Row
<1>5. [st |-> st, attempt |-> row[d].attempt + 1, wait |-> IF st = "pending" THEN "backoff" ELSE "none"] \in Row
  BY <1>1, <1>2 DEF Row, Statuses, Settled, Waits
<1> QED
  BY <1>1, <1>4, <1>5 DEF st

LEMMA DroppedRow ==
  ASSUME WebhookTypeOK, NEW d \in Delivery, Drop(d)
  PROVE  /\ row' \in [Delivery -> Row]
         /\ row'[d].st = "dropped" /\ row'[d].attempt = row[d].attempt
         /\ \A x \in Delivery : x # d => row'[x] = row[x]
<1>1. row \in [Delivery -> Row]
  BY DEF WebhookTypeOK, Row, Waits
<1>2. /\ row' = [row EXCEPT ![d] = row'[d]] /\ row'[d] \in Row
      /\ row'[d].st = "dropped" /\ row'[d].attempt = row[d].attempt
  <2>1. row[d] \in Row /\ DOMAIN row = Delivery
    BY <1>1
  <2>2. row'[d] = [[row[d] EXCEPT !.st = "dropped"] EXCEPT !.wait = "none"]
    BY <2>1 DEF Drop
  <2>3. [row[d] EXCEPT !.st = "dropped"] \in Row /\ [row[d] EXCEPT !.st = "dropped"].st = "dropped"
        /\ [row[d] EXCEPT !.st = "dropped"].attempt = row[d].attempt
    BY <2>1 DEF Row, Statuses, Settled
  <2> QED
    BY <2>1, <2>2, <2>3 DEF Drop, Row, Waits
<1> QED
  BY <1>1, <1>2

LEMMA GoneRow == [NoRow EXCEPT !.st = "gone"] \in Row /\ [NoRow EXCEPT !.st = "gone"].st = "gone"
  BY DEF NoRow, Row, Statuses, Settled, Waits

\* A row that is settled by the maintenance or removed.
LEMMA RowsEnd ==
  ASSUME WebhookTypeOK, NEW T \in SUBSET Delivery, NEW s \in {"dropped", "gone"},
         \A d \in T : row[d].st # "none",
         row' \in [Delivery -> Row],
         \A d \in T : row'[d].st = s /\ (s = "dropped" => Pending(d) /\ row'[d].attempt = row[d].attempt),
         \A d \in Delivery \ T : row'[d] = row[d],
         received' \subseteq received, s = "dropped" => received' = received,
         \A d \in Delivery \ T : row[d].st # "none" /\ d \in received => d \in received',
         UNCHANGED <<counting, sending>>
  PROVE  /\ CountInv => CountInv'
         /\ HeldInv => HeldInv'
         /\ StatusIsTrue => StatusIsTrue'
         /\ SoleInv => SoleInv'
<1>1. ASSUME CountInv PROVE CountInv'
  BY <1>1 DEF CountInv, WebhookTypeOK
<1>2. ASSUME HeldInv PROVE HeldInv'
  BY <1>2 DEF HeldInv, Holds, Pending
<1>3. ASSUME StatusIsTrue PROVE StatusIsTrue'
  BY <1>3 DEF StatusIsTrue
<1>4. ASSUME SoleInv PROVE SoleInv'
  BY <1>4 DEF SoleInv, Holds, Pending
<1> QED
  BY <1>1, <1>2, <1>3, <1>4

\* A step that leaves rows, deliveries in hand and their accounts alone.
LEMMA NothingMoves ==
  ASSUME UNCHANGED <<row, counting, sending, received>>
  PROVE  /\ CountInv => CountInv'
         /\ HeldInv => HeldInv'
         /\ StatusIsTrue => StatusIsTrue'
         /\ SoleInv => SoleInv'
  BY DEF CountInv, HeldInv, StatusIsTrue, SoleInv, Holds, Pending

\* A worker lets go of what it holds; the rows stay.
LEMMA LetsGo ==
  ASSUME UNCHANGED <<row, counting, received>>,
         \A w \in Worker : \A d \in Delivery : ~Holds(w, d)' \/ sending'[w][d] = sending[w][d]
  PROVE  /\ CountInv => CountInv'
         /\ HeldInv => HeldInv'
         /\ StatusIsTrue => StatusIsTrue'
         /\ SoleInv => SoleInv'
  BY DEF CountInv, HeldInv, StatusIsTrue, SoleInv, Holds, Pending

\* stalls never falls.
LEMMA StallsStay == WebhookTypeOK /\ [Next]_vars /\ stalls' = 0 => stalls = 0
<1>1. [Next]_vars => stalls' = stalls \/ stalls' = stalls + 1
  BY DEF Next, vars, Insert, Count, WorkerNext, Pick, Claim, Crash, Post, Record,
         RecordFails, SettleParked, SettleExpired, Prune, ComesDue, Disable, GraceEnds, Enable, Delete
<1>2. WebhookTypeOK => stalls \in Nat
  BY DEF WebhookTypeOK
<1> QED
  BY <1>1, <1>2

-----------------------------------------------------------------------------
\* The type of the variables, one step per group of actions.
LEMMA TypeStep == WebhookTypeOK /\ [Next]_vars => WebhookTypeOK'
<1> SUFFICES ASSUME WebhookTypeOK, [Next]_vars PROVE WebhookTypeOK'
  OBVIOUS
<1> USE WebhookAssumption
<1> DEFINE TableOK == /\ endpoint \in [Endpoint -> {"active", "disabled", "parked", "deleted"}]
                      /\ row \in [Delivery -> Row]
                      /\ counting \in [Conn -> [d : Delivery \cup {NoDelivery}, room : BOOLEAN]]
           SweepOK == /\ sweep \in [Worker -> SUBSET Delivery]
                      /\ sending \in [Worker -> [Delivery -> Send]]
           AccountsOK == /\ received \subseteq Delivery /\ revived \in [Endpoint -> Nat]
                         /\ faults \in Nat /\ stalls \in Nat /\ enables \in Nat
<1>a. TableOK /\ SweepOK /\ AccountsOK
  BY DEF WebhookTypeOK, Row, Send, Waits
<1>b. SUFFICES TableOK' /\ SweepOK' /\ AccountsOK'
  BY DEF WebhookTypeOK, Row, Send, Waits
<1>c. \A d \in Delivery : EndpointOf[d] \in Endpoint
  OBVIOUS
<1>1. CASE UNCHANGED vars
  BY <1>1, <1>a DEF vars
<1>2. ASSUME NEW c \in Conn, Insert(c) PROVE TableOK' /\ SweepOK' /\ AccountsOK'
  BY <1>2, <1>a, Inserted DEF Insert
<1>3. ASSUME NEW c \in Conn, NEW d \in Delivery, Count(c, d)
      PROVE  TableOK' /\ SweepOK' /\ AccountsOK'
  <2>1. HasRoom(EndpointOf[d]) \in BOOLEAN
    BY DEF HasRoom
  <2> QED
    BY <1>3, <1>a, <2>1 DEF Count
<1>4. ASSUME NEW w \in Worker, Pick(w) PROVE TableOK' /\ SweepOK' /\ AccountsOK'
  <2>1. PICK T \in SUBSET Due : sweep' = [sweep EXCEPT ![w] = T]
    BY <1>4 DEF Pick
  <2>2. T \subseteq Delivery
    BY DEF Due
  <2> QED
    BY <1>4, <1>a, <2>1, <2>2 DEF Pick
<1>5. ASSUME NEW w \in Worker, Claim(w) PROVE TableOK' /\ SweepOK' /\ AccountsOK'
  BY <1>5, <1>a, Claimed DEF Claim
<1>6. ASSUME NEW w \in Worker, Crash(w) PROVE TableOK' /\ SweepOK' /\ AccountsOK'
  <2>1. Idle \in Send
    BY DEF Idle, Send
  <2> QED
    BY <1>6, <1>a, <2>1 DEF Crash
<1>7. ASSUME NEW w \in Worker, NEW d \in Delivery, Post(w, d)
      PROVE  TableOK' /\ SweepOK' /\ AccountsOK'
  BY <1>7, <1>a, Posted DEF Post
<1>8. ASSUME NEW w \in Worker, NEW d \in Delivery, Record(w, d)
      PROVE  TableOK' /\ SweepOK' /\ AccountsOK'
  <2>1. SweepOK'
    BY <1>8, <1>a, Put DEF Record
  <2>2. row' \in [Delivery -> Row]
    <3>1. CASE row[d].st = "gone"
      BY <1>8, <1>a, <3>1 DEF Record
    <3>2. CASE row[d].st # "gone"
      BY <1>8, <3>2, RecordedRow
    <3> QED
      BY <3>1, <3>2
  <2>3. revived' \in [Endpoint -> Nat]
    BY <1>8, <1>a, <1>c DEF Record
  <2> QED
    BY <1>8, <1>a, <2>1, <2>2, <2>3 DEF Record
<1>9. ASSUME NEW w \in Worker, NEW d \in Delivery, RecordFails(w, d)
      PROVE  TableOK' /\ SweepOK' /\ AccountsOK'
  <2>1. SweepOK'
    BY <1>9, <1>a, Put DEF RecordFails
  <2> QED
    BY <1>9, <1>a, <2>1 DEF RecordFails
<1>10. ASSUME NEW w \in Worker, NEW d \in Delivery,
              SettleParked(w, d) \/ SettleExpired(w, d) \/ Prune(w, d)
       PROVE  TableOK' /\ SweepOK' /\ AccountsOK'
  <2>1. row' \in [Delivery -> Row]
    BY <1>10, <1>a, DroppedRow, GoneRow DEF SettleParked, SettleExpired, Prune
  <2>2. received' \subseteq Delivery
    BY <1>10, <1>a DEF SettleParked, SettleExpired, Prune
  <2> QED
    BY <1>10, <1>a, <2>1, <2>2 DEF SettleParked, SettleExpired, Prune
<1>11. ASSUME NEW d \in Delivery, ComesDue(d) PROVE TableOK' /\ SweepOK' /\ AccountsOK'
  <2>1. row' \in [Delivery -> Row]
    BY <1>11, <1>a DEF ComesDue, Row, Waits
  <2>2. faults' \in Nat /\ stalls' \in Nat
    BY <1>11, <1>a DEF ComesDue
  <2> QED
    BY <1>11, <1>a, <2>1, <2>2 DEF ComesDue
<1>12. ASSUME NEW e \in Endpoint, Disable(e) \/ GraceEnds(e) \/ Enable(e)
       PROVE  TableOK' /\ SweepOK' /\ AccountsOK'
  BY <1>12, <1>a DEF Disable, GraceEnds, Enable
<1>13. ASSUME NEW e \in Endpoint, Delete(e) PROVE TableOK' /\ SweepOK' /\ AccountsOK'
  BY <1>13, <1>a, GoneRow DEF Delete
<1> QED
  BY <1>1, <1>2, <1>3, <1>4, <1>5, <1>6, <1>7, <1>8, <1>9, <1>10, <1>11, <1>12, <1>13
     DEF Next, WorkerNext

\* Every step keeps the accounts of what is in hand.
LEMMA HeldStep ==
  ASSUME WebhookTypeOK, CountInv, HeldInv, StatusIsTrue, [Next]_vars
  PROVE  /\ CountInv' /\ HeldInv' /\ StatusIsTrue'
         /\ (stalls = 0 => SoleInv) => (stalls' = 0 => SoleInv')
<1> DEFINE Kept == /\ CountInv' /\ HeldInv' /\ StatusIsTrue'
                   /\ SoleInv => SoleInv'
<1>t. WebhookTypeOK'
  BY TypeStep
<1>r. /\ row \in [Delivery -> Row] /\ sending \in [Worker -> [Delivery -> Send]]
      /\ received \subseteq Delivery
      /\ counting \in [Conn -> [d : Delivery \cup {NoDelivery}, room : BOOLEAN]]
  BY DEF WebhookTypeOK, Row, Send, Waits
<1>1. CASE UNCHANGED vars
  BY <1>1, NothingMoves DEF vars
<1>2. ASSUME NEW c \in Conn, Insert(c) PROVE Kept
  <2>1. counting[c].d # NoDelivery
    BY <1>2 DEF Insert
  <2>2. row[counting[c].d].st = "none" /\ \A k \in Conn : counting[k].d = counting[c].d => k = c
    BY <2>1 DEF CountInv
  <2>3. UNCHANGED <<sending, received>>
    BY <1>2 DEF Insert
  <2>4. \A w \in Worker : ~Holds(w, counting[c].d)
    BY <1>2, <2>2, Inserted DEF HeldInv
  <2>5. CountInv'
    BY <1>2, <1>r, <2>2, Inserted, WebhookAssumption DEF CountInv
  <2>6. HeldInv' /\ (SoleInv => SoleInv')
    BY <1>2, <2>3, <2>4, Inserted DEF HeldInv, SoleInv, Holds, Pending
  <2>7. StatusIsTrue'
    BY <1>2, <2>3, Inserted DEF StatusIsTrue
  <2> QED
    BY <2>5, <2>6, <2>7
<1>3. ASSUME NEW c \in Conn, NEW d \in Delivery, Count(c, d)
      PROVE  Kept
  <2>1. UNCHANGED <<row, sending, received>>
    BY <1>3 DEF Count
  <2>2. CountInv'
    BY <1>3, <1>r, <2>1, WebhookAssumption DEF Count, CountInv
  <2> QED
    BY <2>1, <2>2 DEF HeldInv, StatusIsTrue, SoleInv, Holds, Pending
<1>4. ASSUME NEW w \in Worker, Pick(w) PROVE Kept
  BY <1>4, NothingMoves DEF Pick
<1>5. ASSUME NEW w \in Worker, Claim(w) PROVE Kept
  <2>1. UNCHANGED <<counting, received>>
    BY <1>5 DEF Claim
  <2>2. \A d \in Delivery : row'[d].st = row[d].st /\ row'[d].attempt = row[d].attempt
    BY <1>5, Claimed
  <2>3. CountInv' /\ StatusIsTrue'
    BY <2>1, <2>2, <1>r, WebhookAssumption DEF CountInv, StatusIsTrue
  <2>4. ASSUME NEW v \in Worker, NEW d \in Delivery
        PROVE  \/ row'[d] = row[d] /\ sending'[v][d] = sending[v][d]
               \/ sending'[v][d] = sending[v][d] /\ Pending(d) /\ row[d].wait = "due"
               \/ /\ v = w /\ Pending(d) /\ row[d].wait = "due" /\ row'[d].wait = "lease"
                  /\ sending'[v][d] = [st |-> "claimed", seen |-> row[d].attempt, outcome |-> "none"]
    BY <1>5, Claimed
  <2>5. HeldInv'
    <3> SUFFICES ASSUME NEW v \in Worker, NEW d \in Delivery, Holds(v, d)'
                 PROVE  /\ row'[d].st \notin {"none", "refused"}
                        /\ row'[d].st # "gone" =>
                             /\ sending'[v][d].seen <= row'[d].attempt
                             /\ sending'[v][d].st = "posted" /\ sending'[v][d].outcome = "ok" => d \in received'
      BY DEF HeldInv
    <3>1. row[d].attempt \in Nat
      BY <1>r DEF Row
    <3>2. CASE sending'[v][d] = sending[v][d]
      BY <2>1, <2>2, <3>2 DEF HeldInv, Holds
    <3>3. CASE Pending(d) /\ sending'[v][d] = [st |-> "claimed", seen |-> row[d].attempt, outcome |-> "none"]
      BY <2>2, <3>1, <3>3 DEF Pending
    <3> QED
      BY <2>4, <3>2, <3>3
  <2>6. ASSUME SoleInv PROVE SoleInv'
    <3> SUFFICES ASSUME NEW v \in Worker, NEW d \in Delivery, Holds(v, d)'
                 PROVE  /\ row'[d].st \in {"pending", "dropped", "gone"}
                        /\ row'[d].st = "pending" => row'[d].wait = "lease"
                        /\ row'[d].st # "gone" => sending'[v][d].seen = row'[d].attempt
                        /\ \A u \in Worker : Holds(u, d)' => u = v
      BY DEF SoleInv, Pending
    <3>1. Pending(d) /\ row[d].wait = "due" => \A u \in Worker : ~Holds(u, d)
      BY <2>6 DEF SoleInv
    <3>2. CASE Pending(d) /\ row[d].wait = "due"
      <4>1. \A u \in Worker : Holds(u, d)' => u = w /\ row'[d].wait = "lease" /\ sending'[u][d].seen = row[d].attempt
        <5> SUFFICES ASSUME NEW u \in Worker, Holds(u, d)'
                     PROVE  u = w /\ row'[d].wait = "lease" /\ sending'[u][d].seen = row[d].attempt
          OBVIOUS
        <5>1. sending'[u][d] # sending[u][d]
          BY <3>1, <3>2 DEF Holds
        <5>2. /\ u = w /\ row'[d].wait = "lease"
              /\ sending'[u][d] = [st |-> "claimed", seen |-> row[d].attempt, outcome |-> "none"]
          BY <2>4, <5>1
        <5> QED
          BY <5>2
      <4> QED
        BY <2>2, <3>2, <4>1 DEF Pending
    <3>3. CASE ~(Pending(d) /\ row[d].wait = "due")
      <4>1. row'[d] = row[d] /\ \A u \in Worker : sending'[u][d] = sending[u][d]
        BY <2>4, <3>3
      <4> QED
        BY <2>6, <4>1 DEF SoleInv, Holds, Pending
    <3> QED
      BY <3>2, <3>3
  <2> QED
    BY <2>3, <2>5, <2>6
<1>6. ASSUME NEW w \in Worker, Crash(w) PROVE Kept
  BY <1>6, <1>r, LetsGo DEF Crash, Holds, Idle
<1>7. ASSUME NEW w \in Worker, NEW d \in Delivery, Post(w, d) PROVE Kept
  <2>1. UNCHANGED <<row, counting>>
    BY <1>7 DEF Post
  <2>2. CountInv' /\ StatusIsTrue'
    BY <1>7, <2>1, Posted DEF CountInv, StatusIsTrue
  <2>3. HeldInv'
    BY <1>7, <2>1, Posted DEF HeldInv, Holds
  <2>4. SoleInv => SoleInv'
    BY <1>7, <2>1, Posted DEF SoleInv, Holds, Pending
  <2> QED
    BY <2>2, <2>3, <2>4
<1>8. ASSUME NEW w \in Worker, NEW d \in Delivery, Record(w, d) PROVE Kept
  <2>1. /\ Holds(w, d) /\ sending[w][d].st = "posted" /\ UNCHANGED <<counting, received>>
        /\ sending' = [sending EXCEPT ![w][d] = Idle]
    BY <1>8 DEF Record, Holds
  <2>2. CASE row[d].st = "gone"
    <3>1. UNCHANGED row
      BY <1>8, <2>2 DEF Record
    <3>2. \A v \in Worker : \A x \in Delivery : ~Holds(v, x)' \/ sending'[v][x] = sending[v][x]
      BY <2>1, Put
    <3> QED
      BY <2>1, <3>1, <3>2, LetsGo
  <2>3. CASE row[d].st # "gone"
    <3>1. row[d].st # "none"
      BY <2>1 DEF HeldInv
    <3>2. CountInv'
      BY <1>8, <2>1, <2>3, <3>1, RecordedRow DEF CountInv, WebhookTypeOK
    <3>3. Recorded(sending[w][d]) \in {"delivered", "dropped", "failed", "pending"}
      BY DEF Recorded
    <3>4. HeldInv'
      <4> SUFFICES ASSUME NEW v \in Worker, NEW x \in Delivery, Holds(v, x)'
                   PROVE  /\ row'[x].st \notin {"none", "refused"}
                          /\ row'[x].st # "gone" =>
                               /\ sending'[v][x].seen <= row'[x].attempt
                               /\ sending'[v][x].st = "posted" /\ sending'[v][x].outcome = "ok" => x \in received'
        BY DEF HeldInv
      <4>1. Holds(v, x) /\ sending'[v][x] = sending[v][x]
        BY <2>1, Put DEF Holds
      <4>2. CASE x # d
        BY <1>8, <2>1, <2>3, <4>1, <4>2, RecordedRow DEF HeldInv
      <4>3. CASE x = d
        <5>1. /\ sending[v][x].seen <= row[x].attempt
              /\ sending[v][x].st = "posted" /\ sending[v][x].outcome = "ok" => x \in received
          BY <2>3, <4>1, <4>3 DEF HeldInv
        <5>2. sending[v][x].seen \in Int /\ row[x].attempt \in Nat
          BY <1>r, WebhookAssumption DEF Row, Send
        <5> QED
          BY <1>8, <2>1, <2>3, <3>3, <4>1, <4>3, <5>1, <5>2, RecordedRow
      <4> QED
        BY <4>2, <4>3
    <3>5. StatusIsTrue'
      <4>1. /\ row'[d].st = "delivered" => sending[w][d].outcome = "ok"
            /\ row'[d].st = "failed" => sending[w][d].seen + 1 >= MaxAttempts
        BY <1>8, <2>3, RecordedRow DEF Recorded, BudgetSpent
      <4>2. row'[d].st = "delivered" => d \in received
        BY <2>1, <2>3, <4>1 DEF HeldInv
      <4>3. row'[d].st = "failed" => row'[d].attempt >= MaxAttempts
        BY <1>8, <1>r, <2>1, <2>3, <4>1, RecordedRow, WebhookAssumption DEF HeldInv, Row, Send
      <4> QED
        BY <1>8, <2>1, <2>3, <4>2, <4>3, RecordedRow DEF StatusIsTrue
    <3>6. ASSUME SoleInv PROVE SoleInv'
      <4>1. \A v \in Worker : ~Holds(v, d)'
        BY <2>1, <3>6, Put DEF SoleInv, Holds
      <4>2. \A v \in Worker : \A x \in Delivery :
              x # d => row'[x] = row[x] /\ sending'[v][x] = sending[v][x]
        BY <1>8, <2>1, <2>3, RecordedRow, Put
      <4> QED
        BY <3>6, <4>1, <4>2 DEF SoleInv, Holds, Pending
    <3> QED
      BY <3>2, <3>4, <3>5, <3>6
  <2> QED
    BY <2>2, <2>3
<1>9. ASSUME NEW w \in Worker, NEW d \in Delivery, RecordFails(w, d) PROVE Kept
  BY <1>9, Put, LetsGo DEF RecordFails
<1>10. ASSUME NEW w \in Worker, NEW d \in Delivery, SettleParked(w, d) \/ SettleExpired(w, d)
       PROVE  Kept
  <2>1. Drop(d) /\ Pending(d) /\ UNCHANGED <<counting, sending, received>>
    BY <1>10 DEF SettleParked, SettleExpired
  <2>2. {d} \in SUBSET Delivery /\ \A x \in {d} : row[x].st # "none"
    BY <2>1 DEF Pending
  <2>3. /\ row' \in [Delivery -> Row]
        /\ \A x \in {d} : row'[x].st = "dropped" /\ Pending(x) /\ row'[x].attempt = row[x].attempt
        /\ \A x \in Delivery \ {d} : row'[x] = row[x]
    BY <2>1, DroppedRow
  <2> QED
    BY <2>1, <2>2, <2>3, RowsEnd
<1>11. ASSUME NEW w \in Worker, NEW d \in Delivery, Prune(w, d) PROVE Kept
  <2>1. /\ row[d].st # "none" /\ row' = [row EXCEPT ![d] = [NoRow EXCEPT !.st = "gone"]]
        /\ received' = received \ {d} /\ UNCHANGED <<counting, sending>>
    BY <1>11 DEF Prune, Settled
  <2>2. /\ row' \in [Delivery -> Row] /\ row'[d].st = "gone"
        /\ \A x \in Delivery \ {d} : row'[x] = row[x]
    BY <1>r, <2>1, GoneRow
  <2>3. /\ \A x \in {d} : row'[x].st = "gone"
        /\ \A x \in Delivery \ {d} : x \in received => x \in received'
        /\ {d} \in SUBSET Delivery /\ \A x \in {d} : row[x].st # "none"
        /\ received' \subseteq received
    BY <2>1, <2>2
  <2> QED
    BY <2>1, <2>2, <2>3, RowsEnd
<1>12. ASSUME NEW d \in Delivery, ComesDue(d)
       PROVE  /\ CountInv' /\ HeldInv' /\ StatusIsTrue'
              /\ SoleInv /\ stalls' = stalls => SoleInv'
  <2>1. /\ Pending(d) /\ UNCHANGED <<counting, sending, received>>
        /\ row' = [row EXCEPT ![d].wait = "due"]
    BY <1>12 DEF ComesDue
  <2>2. \A x \in Delivery : row'[x].st = row[x].st /\ row'[x].attempt = row[x].attempt
                            /\ (x # d => row'[x] = row[x])
    BY <1>r, <2>1 DEF Row
  <2>3. CountInv' /\ HeldInv' /\ StatusIsTrue'
    BY <1>r, <2>1, <2>2 DEF CountInv, HeldInv, StatusIsTrue, Holds
  <2>4. ASSUME SoleInv, stalls' = stalls PROVE SoleInv'
    <3>1. ~InHand(d)
      <4>1. row[d].wait = "lease" => ~InHand(d)
        BY <1>12, <2>4 DEF ComesDue, WebhookTypeOK
      <4>2. InHand(d) => row[d].wait = "lease"
        BY <2>1, <2>4 DEF InHand, SoleInv
      <4> QED
        BY <4>1, <4>2
    <3> QED
      BY <2>1, <2>2, <2>4, <3>1 DEF SoleInv, InHand, Holds, Pending
  <2> QED
    BY <2>3, <2>4
<1>13. ASSUME NEW e \in Endpoint, Disable(e) \/ GraceEnds(e) \/ Enable(e) PROVE Kept
  BY <1>13, NothingMoves DEF Disable, GraceEnds, Enable
<1>14. ASSUME NEW e \in Endpoint, Delete(e) PROVE Kept
  <2> DEFINE T == {d \in Of(e) : row[d].st # "none"}
  <2>1. T \in SUBSET Delivery /\ \A d \in T : row[d].st # "none"
    BY DEF Of
  <2>2. /\ \A d \in T : row'[d].st = "gone"
        /\ \A d \in Delivery \ T : row'[d] = row[d]
        /\ row' \in [Delivery -> Row]
    <3>1. \A d \in Delivery : row'[d] = IF d \in T THEN [NoRow EXCEPT !.st = "gone"] ELSE row[d]
      BY <1>14 DEF Delete
    <3>2. row' \in [Delivery -> Row]
      BY <1>14, <1>r, GoneRow DEF Delete
    <3> QED
      BY <2>1, <3>1, <3>2, GoneRow
  <2>3. received' = received \ Of(e) /\ UNCHANGED <<counting, sending>>
    BY <1>14 DEF Delete
  <2>4. /\ received' \subseteq received
        /\ \A d \in Delivery \ T : row[d].st # "none" /\ d \in received => d \in received'
    BY <2>3
  <2> HIDE DEF T
  <2> QED
    BY <2>1, <2>2, <2>3, <2>4, RowsEnd
<1>15. stalls' = 0 => stalls = 0
  BY StallsStay
<1> QED
  BY <1>1, <1>2, <1>3, <1>4, <1>5, <1>6, <1>7, <1>8, <1>9, <1>10, <1>11, <1>12, <1>13, <1>14, <1>15
     DEF Next, WorkerNext

\* IInv is inductive.
LEMMA IInvAlways == Spec => []IInv
<1>1. IInv /\ [Next]_vars => IInv'
  <2> SUFFICES ASSUME IInv, [Next]_vars PROVE IInv'
    OBVIOUS
  <2>1. WebhookTypeOK'
    BY TypeStep DEF IInv
  <2> QED
    BY <2>1, HeldStep DEF IInv
<1> QED
  BY <1>1, InitIInv, PTL DEF Spec

-----------------------------------------------------------------------------
\* Every variable keeps its type (the rows of queue.py, the sweeps of worker.py).
THEOREM WebhookTypeCorrect == Spec => []WebhookTypeOK
<1>1. IInv => WebhookTypeOK
  BY DEF IInv
<1> QED
  BY <1>1, IInvAlways, PTL

\* claim_due_deliveries: one worker sends a delivery at a time, and counts on the
\* attempts its row has, as long as no lease lapses under a live sender.
THEOREM OneSenderAlways == Spec => []OneSender
<1>1. IInv => OneSender
  BY DEF IInv, SoleInv, OneSender
<1> QED
  BY <1>1, IInvAlways, PTL

\* record_webhook_attempt: "delivered" was answered, "failed" spent its budget,
\* stalls or not.
THEOREM StatusIsTrueAlways == Spec => []StatusIsTrue
<1>1. IInv => StatusIsTrue
  BY DEF IInv
<1> QED
  BY <1>1, IInvAlways, PTL

\* record_webhook_attempt and the settlements of the maintenance: without a stall
\* a delivered or failed row is final until it is pruned.
THEOREM DeliveredStays == Spec => DeliveredForGood
<1> DEFINE Final == \A d \in Delivery : stalls = 0 /\ row[d].st \in {"delivered", "failed"}
                      => row'[d].st \in {row[d].st, "gone"}
<1>1. ASSUME IInv, [Next]_vars PROVE Final
  <2> SUFFICES ASSUME NEW d \in Delivery, stalls = 0, row[d].st \in {"delivered", "failed"}
               PROVE  row'[d].st \in {row[d].st, "gone"}
    OBVIOUS
  <2>i. WebhookTypeOK /\ CountInv /\ SoleInv
    BY <1>1 DEF IInv
  <2>r. row \in [Delivery -> Row]
    BY <2>i DEF WebhookTypeOK, Row, Waits
  <2>h. \A w \in Worker : ~Holds(w, d)
    BY <2>i DEF SoleInv
  <2>1. ASSUME NEW c \in Conn, Insert(c) PROVE row'[d] = row[d]
    <3>1. counting[c].d # d
      BY <2>1, <2>i DEF Insert, CountInv
    <3> QED
      BY <2>1, <2>i, <3>1, Inserted
  <2>2. ASSUME NEW w \in Worker, Claim(w) PROVE row'[d].st = row[d].st
    BY <2>2, <2>i, Claimed
  <2>3. ASSUME NEW w \in Worker, NEW x \in Delivery, Record(w, x) PROVE row'[d] = row[d]
    <3>1. Holds(w, x) /\ x # d
      BY <2>3, <2>h DEF Record, Holds
    <3>2. CASE row[x].st = "gone"
      BY <2>3, <3>2 DEF Record
    <3>3. CASE row[x].st # "gone"
      BY <2>3, <2>i, <3>1, <3>3, RecordedRow
    <3> QED
      BY <3>2, <3>3
  <2>4. ASSUME NEW w \in Worker, NEW x \in Delivery, SettleParked(w, x) \/ SettleExpired(w, x)
        PROVE  row'[d] = row[d]
    <3>1. x # d /\ Drop(x)
      BY <2>4 DEF SettleParked, SettleExpired, Pending
    <3> QED
      BY <2>i, <3>1, DroppedRow
  <2>5. ASSUME NEW w \in Worker, NEW x \in Delivery, Prune(w, x)
        PROVE  row'[d].st \in {row[d].st, "gone"}
    BY <2>5, <2>r, GoneRow DEF Prune
  <2>6. ASSUME NEW x \in Delivery, ComesDue(x) PROVE row'[d] = row[d]
    BY <2>6, <2>r DEF ComesDue, Pending
  <2>7. ASSUME NEW e \in Endpoint, Delete(e) PROVE row'[d].st \in {row[d].st, "gone"}
    BY <2>7, GoneRow DEF Delete
  <2>8. UNCHANGED row => row'[d] = row[d]
    OBVIOUS
  <2> QED
    BY <1>1, <2>1, <2>2, <2>3, <2>4, <2>5, <2>6, <2>7, <2>8 DEF Next, WorkerNext, vars,
       Pick, Crash, Post, RecordFails, Count, Disable, GraceEnds, Enable
<1>2. IInv /\ [Next]_vars => [Final]_vars
  BY <1>1
<1>3. [][Next]_vars /\ []IInv => [][Final]_vars
  BY <1>2, PTL
<1> QED
  BY <1>3, IInvAlways, PTL DEF Spec, DeliveredForGood

-----------------------------------------------------------------------------
(* How often an attempt is counted. A holder will count one more. Only the  *)
(* claim of a due row adds a holder, and the row was leased until its lease *)
(* lapsed: all holders but the one the lease names are stalled.             *)

Holders(d) == {w \in Worker : Holds(w, d)}
Leased(d) == IF Pending(d) /\ row[d].wait # "lease" THEN 0 ELSE 1

AttemptOK(d) ==
  /\ IsFiniteSet(Holders(d))
  /\ Cardinality(Holders(d)) <= stalls + Leased(d)
  /\ row[d].attempt + Cardinality(Holders(d)) <= MaxAttempts + stalls

AttemptInv == \A d \in Delivery : AttemptOK(d)

\* What a step does to the holders of a delivery and to its count.
Keeps(d) ==
  /\ Holders(d)' = Holders(d)
  /\ stalls' \in {stalls, stalls + 1}
  /\ row'[d].attempt \in {row[d].attempt, 0}
  /\ Leased(d)' = Leased(d) \/ Leased(d)' = 1 \/ stalls' = stalls + 1 \/ Holders(d) = {}

Takes(d) ==
  /\ \E w \in Worker : Holders(d)' = Holders(d) \cup {w}
  /\ stalls' = stalls /\ row'[d].attempt = row[d].attempt
  /\ row[d].attempt < MaxAttempts /\ Leased(d) = 0 /\ Leased(d)' = 1

Leaves(d) ==
  /\ \E w \in Holders(d) : Holders(d)' = Holders(d) \ {w}
  /\ stalls' = stalls /\ row'[d].attempt \in {row[d].attempt, row[d].attempt + 1}

\* The arithmetic of the three.
LEMMA AttemptKept ==
  ASSUME WebhookTypeOK, WebhookTypeOK', NEW d \in Delivery, AttemptOK(d),
         Keeps(d) \/ Takes(d) \/ Leaves(d)
  PROVE  AttemptOK(d)'
<1>1. /\ row[d].attempt \in Nat /\ row'[d].attempt \in Nat
      /\ stalls \in Nat /\ stalls' \in Nat /\ MaxAttempts \in Nat /\ MaxAttempts >= 1
      /\ Leased(d) \in {0, 1} /\ Leased(d)' \in {0, 1}
  BY WebhookAssumption DEF WebhookTypeOK, Leased
<1>2. IsFiniteSet(Holders(d)) /\ Cardinality(Holders(d)) \in Nat
  BY FS_CardinalityType DEF AttemptOK
<1>3. CASE Keeps(d)
  <2>1. Holders(d) = {} => Cardinality(Holders(d)) = 0
    BY FS_EmptySet
  <2>2. Cardinality(Holders(d)') = Cardinality(Holders(d)) /\ IsFiniteSet(Holders(d)')
    BY <1>2, <1>3 DEF Keeps
  <2> HIDE DEF Holders, Leased
  <2> QED
    BY <1>1, <1>2, <1>3, <2>1, <2>2 DEF Keeps, AttemptOK
<1>4. CASE Takes(d)
  <2>1. PICK w \in Worker : Holders(d)' = Holders(d) \cup {w}
    BY <1>4 DEF Takes
  <2>2. /\ IsFiniteSet(Holders(d)')
        /\ Cardinality(Holders(d)') = IF w \in Holders(d) THEN Cardinality(Holders(d))
                                      ELSE Cardinality(Holders(d)) + 1
    BY <1>2, <2>1, FS_AddElement
  <2> QED
    BY <1>1, <1>2, <1>4, <2>2 DEF Takes, AttemptOK
<1>5. CASE Leaves(d)
  <2>1. /\ IsFiniteSet(Holders(d)') /\ Cardinality(Holders(d)') \in Nat
        /\ Cardinality(Holders(d)') = Cardinality(Holders(d)) - 1
    BY <1>2, <1>5, FS_RemoveElement, FS_CardinalityType DEF Leaves
  <2> QED
    BY <1>1, <1>2, <1>5, <2>1 DEF Leaves, AttemptOK
<1> QED
  BY <1>3, <1>4, <1>5

\* A step that leaves a delivery's row and its holders alone.
LEMMA NoneMoves ==
  ASSUME NEW d \in Delivery, UNCHANGED stalls, row'[d] = row[d],
         \A v \in Worker : Holds(v, d)' <=> Holds(v, d)
  PROVE  Keeps(d)
  BY DEF Keeps, Holders, Leased, Pending

\* A worker that lets go of a delivery whose row stays, or counts one more.
LEMMA OneLeaves ==
  ASSUME NEW d \in Delivery, NEW w \in Worker, Holds(w, d), ~Holds(w, d)', UNCHANGED stalls,
         \A v \in Worker \ {w} : Holds(v, d)' <=> Holds(v, d),
         row'[d].attempt \in {row[d].attempt, row[d].attempt + 1}
  PROVE  Leaves(d)
<1>1. w \in Holders(d) /\ Holders(d)' = Holders(d) \ {w}
  BY DEF Holders
<1> QED
  BY <1>1 DEF Leaves

LEMMA AttemptStep ==
  ASSUME WebhookTypeOK, CountInv, HeldInv, [Next]_vars, NEW d \in Delivery
  PROVE  Keeps(d) \/ Takes(d) \/ Leaves(d)
<1>r. row \in [Delivery -> Row] /\ sending \in [Worker -> [Delivery -> Send]] /\ stalls \in Nat
  BY DEF WebhookTypeOK, Row, Send, Waits
<1>1. CASE UNCHANGED vars
  BY <1>1, NoneMoves DEF vars, Holds
<1>2. ASSUME NEW c \in Conn, Insert(c) PROVE Keeps(d)
  <2>1. counting[c].d \in Delivery /\ row[counting[c].d].st = "none"
    BY <1>2, Inserted DEF Insert, CountInv
  <2>2. UNCHANGED <<sending, stalls>>
    BY <1>2 DEF Insert
  <2>3. CASE d = counting[c].d
    <3>1. Holders(d) = {} /\ Holders(d)' = {}
      BY <2>1, <2>2, <2>3 DEF HeldInv, Holders, Holds
    <3>2. row'[d].attempt = 0
      BY <1>2, <1>r, <2>3 DEF Insert, NoRow, Row
    <3> QED
      BY <2>2, <3>1, <3>2 DEF Keeps
  <2>4. CASE d # counting[c].d
    BY <1>2, <2>2, <2>4, Inserted, NoneMoves DEF Holds
  <2> QED
    BY <2>3, <2>4
<1>3. ASSUME NEW c \in Conn, NEW x \in Delivery, Count(c, x) PROVE Keeps(d)
  BY <1>3, NoneMoves DEF Count, Holds
<1>4. ASSUME NEW w \in Worker, Pick(w) PROVE Keeps(d)
  BY <1>4, NoneMoves DEF Pick, Holds
<1>5. ASSUME NEW w \in Worker, Claim(w) PROVE Keeps(d) \/ Takes(d)
  <2>1. UNCHANGED stalls
    BY <1>5 DEF Claim
  <2>2. CASE d \in StillDue(w)
    <3>1. Pending(d) /\ row[d].wait = "due" /\ row[d].attempt < MaxAttempts
      BY <2>2 DEF StillDue, Claimable
    <3>2. row'[d] = [row[d] EXCEPT !.wait = "lease"]
      BY <1>5, <2>2 DEF Claim
    <3>3. row'[d].attempt = row[d].attempt /\ row'[d].wait = "lease"
      BY <1>r, <3>2 DEF Row
    <3>4. \A v \in Worker : sending'[v][d].st = IF v = w THEN "claimed" ELSE sending[v][d].st
      BY <1>5, <1>r, <2>2 DEF Claim
    <3>5. Holders(d)' = Holders(d) \cup {w}
      BY <3>4 DEF Holders, Holds
    <3> QED
      BY <2>1, <3>1, <3>3, <3>5 DEF Takes, Leased, Pending
  <2>3. CASE d \notin StillDue(w)
    <3>1. row'[d] = row[d] /\ \A v \in Worker : sending'[v][d] = sending[v][d]
      BY <1>5, <1>r, <2>3 DEF Claim
    <3> QED
      BY <2>1, <3>1, NoneMoves DEF Holds
  <2> QED
    BY <2>2, <2>3
<1>6. ASSUME NEW w \in Worker, Crash(w) PROVE Keeps(d) \/ Leaves(d)
  <2>1. /\ UNCHANGED <<row, stalls>> /\ sending'[w][d] = Idle
        /\ \A v \in Worker \ {w} : sending'[v][d] = sending[v][d]
    BY <1>6, <1>r DEF Crash
  <2>2. CASE Holds(w, d)
    BY <2>1, <2>2, OneLeaves DEF Holds, Idle
  <2>3. CASE ~Holds(w, d)
    BY <2>1, <2>3, NoneMoves DEF Holds, Idle
  <2> QED
    BY <2>2, <2>3
<1>7. ASSUME NEW w \in Worker, NEW x \in Delivery, Post(w, x) PROVE Keeps(d)
  <2>1. UNCHANGED <<row, stalls>>
    BY <1>7 DEF Post
  <2>2. \A v \in Worker : Holds(v, d)' <=> Holds(v, d)
    BY <1>7, Posted DEF Holds
  <2> QED
    BY <2>1, <2>2, NoneMoves
<1>8. ASSUME NEW w \in Worker, NEW x \in Delivery, Record(w, x) PROVE Keeps(d) \/ Leaves(d)
  <2>1. Holds(w, x) /\ UNCHANGED stalls /\ sending' = [sending EXCEPT ![w][x] = Idle]
    BY <1>8 DEF Record, Holds
  <2>2. \A y \in Delivery : row'[y].attempt \in {row[y].attempt, row[y].attempt + 1}
                            /\ (y # x => row'[y] = row[y])
    <3>1. CASE row[x].st = "gone"
      BY <1>8, <3>1 DEF Record
    <3>2. CASE row[x].st # "gone"
      BY <1>8, <3>2, RecordedRow
    <3> QED
      BY <3>1, <3>2
  <2>3. CASE d = x
    BY <2>1, <2>2, <2>3, Put, OneLeaves DEF Holds
  <2>4. CASE d # x
    BY <2>1, <2>2, <2>4, Put, NoneMoves DEF Holds
  <2> QED
    BY <2>3, <2>4
<1>9. ASSUME NEW w \in Worker, NEW x \in Delivery, RecordFails(w, x) PROVE Keeps(d) \/ Leaves(d)
  <2>1. Holds(w, x) /\ UNCHANGED <<row, stalls>> /\ sending' = [sending EXCEPT ![w][x] = Idle]
    BY <1>9 DEF RecordFails, Holds
  <2>2. CASE d = x
    BY <2>1, <2>2, Put, OneLeaves DEF Holds
  <2>3. CASE d # x
    BY <2>1, <2>3, Put, NoneMoves DEF Holds
  <2> QED
    BY <2>2, <2>3
<1>10. ASSUME NEW w \in Worker, NEW x \in Delivery,
              SettleParked(w, x) \/ SettleExpired(w, x) \/ Prune(w, x)
       PROVE  Keeps(d)
  <2>1. UNCHANGED <<sending, stalls>>
    BY <1>10 DEF SettleParked, SettleExpired, Prune
  <2>2. row'[d] = row[d] \/ /\ row'[d].attempt \in {row[d].attempt, 0}
                            /\ row'[d].st \in {"dropped", "gone"}
    <3>1. CASE Drop(x)
      BY <3>1, DroppedRow
    <3>2. CASE Prune(w, x)
      BY <1>r, <3>2 DEF Prune, NoRow
    <3> QED
      BY <1>10, <3>1, <3>2 DEF SettleParked, SettleExpired
  <2>3. row'[d].st \in {"dropped", "gone"} => Leased(d)' = 1
    BY DEF Leased, Pending
  <2>4. Holders(d)' = Holders(d)
    BY <2>1 DEF Holders, Holds
  <2> QED
    BY <2>1, <2>2, <2>3, <2>4 DEF Keeps, Leased, Pending
<1>11. ASSUME NEW x \in Delivery, ComesDue(x) PROVE Keeps(d)
  <2>1. /\ Pending(x) /\ UNCHANGED sending /\ row' = [row EXCEPT ![x].wait = "due"]
        /\ stalls' \in {stalls, stalls + 1}
        /\ row[x].wait = "lease" /\ InHand(x) => stalls' = stalls + 1
        /\ row[x].wait \in {"lease", "backoff"}
    BY <1>11 DEF ComesDue
  <2>2. row'[d].attempt = row[d].attempt /\ row'[d].st = row[d].st
        /\ row'[d].wait = IF d = x THEN "due" ELSE row[d].wait
    BY <1>r, <2>1 DEF Row
  <2>3. Holders(d)' = Holders(d)
    BY <2>1 DEF Holders, Holds
  <2>4. d # x => Leased(d)' = Leased(d)
    BY <2>2 DEF Leased, Pending
  <2>5. d = x /\ row[x].wait = "backoff" => Leased(d)' = Leased(d)
    BY <2>1, <2>2 DEF Leased, Pending
  <2>6. ~InHand(x) => Holders(x) = {}
    BY DEF InHand, Holders
  <2> QED
    BY <2>1, <2>2, <2>3, <2>4, <2>5, <2>6 DEF Keeps
<1>12. ASSUME NEW e \in Endpoint, Disable(e) \/ GraceEnds(e) \/ Enable(e) PROVE Keeps(d)
  BY <1>12, NoneMoves DEF Disable, GraceEnds, Enable, Holds
<1>13. ASSUME NEW e \in Endpoint, Delete(e) PROVE Keeps(d)
  <2>1. UNCHANGED <<sending, stalls>>
    BY <1>13 DEF Delete
  <2>2. row'[d] = row[d] \/ (row'[d].attempt = 0 /\ row'[d].st = "gone")
    BY <1>13 DEF Delete, NoRow
  <2>3. row'[d].st = "gone" => Leased(d)' = 1
    BY DEF Leased, Pending
  <2>4. Holders(d)' = Holders(d)
    BY <2>1 DEF Holders, Holds
  <2> QED
    BY <2>1, <2>2, <2>3, <2>4 DEF Keeps, Leased, Pending
<1> QED
  BY <1>1, <1>2, <1>3, <1>4, <1>5, <1>6, <1>7, <1>8, <1>9, <1>10, <1>11, <1>12, <1>13
     DEF Next, WorkerNext

\* record_webhook_attempt adds one whatever the row says by then: an attempt is
\* counted at most once more than the budget for each lease that lapsed under a
\* live sender.
THEOREM AttemptsBoundedAlways == Spec => []AttemptsBounded
<1>1. Init => AttemptInv
  <2> SUFFICES ASSUME Init, NEW d \in Delivery PROVE AttemptOK(d)
    BY DEF AttemptInv
  <2>1. Holders(d) = {} /\ row[d].attempt = 0 /\ stalls = 0
    BY DEF Init, Holders, Holds, Idle, NoRow
  <2>2. Leased(d) \in {0, 1}
    BY DEF Leased
  <2> QED
    BY <2>1, <2>2, FS_EmptySet, WebhookAssumption DEF AttemptOK
<1>2. IInv /\ AttemptInv /\ [Next]_vars => AttemptInv'
  <2> SUFFICES ASSUME IInv, AttemptInv, [Next]_vars, NEW d \in Delivery PROVE AttemptOK(d)'
    BY DEF AttemptInv
  <2>1. WebhookTypeOK /\ WebhookTypeOK' /\ AttemptOK(d)
    BY TypeStep DEF IInv, AttemptInv
  <2>2. Keeps(d) \/ Takes(d) \/ Leaves(d)
    BY AttemptStep DEF IInv
  <2> QED
    BY <2>1, <2>2, AttemptKept
<1>3. IInv /\ AttemptInv => AttemptsBounded
  <2> SUFFICES ASSUME IInv, AttemptInv, NEW d \in Delivery
               PROVE  row[d].attempt <= MaxAttempts + stalls
    BY DEF AttemptsBounded
  <2>1. AttemptOK(d) /\ row[d].attempt \in Nat /\ stalls \in Nat
    BY DEF IInv, AttemptInv, WebhookTypeOK
  <2>2. Cardinality(Holders(d)) \in Nat
    BY <2>1, FS_CardinalityType DEF AttemptOK
  <2> QED
    BY <2>1, <2>2, WebhookAssumption DEF AttemptOK
<1> QED
  BY <1>1, <1>2, <1>3, IInvAlways, PTL DEF Spec

-----------------------------------------------------------------------------
(* How far the backlog may grow. A connection that saw room may still       *)
(* insert, and there are as many as the pool has.                           *)

Rooms(e) == {c \in Conn : /\ counting[c].d # NoDelivery /\ counting[c].room
                          /\ EndpointOf[counting[c].d] = e}

BacklogOK(e) ==
  /\ IsFiniteSet(Backlog(e))
  /\ Cardinality(Backlog(e)) + Cardinality(Rooms(e)) <= MaxPending + Cardinality(Conn) - 1 + revived[e]

BacklogInv == \A e \in Endpoint : BacklogOK(e)

\* What a step does to the backlog of an endpoint and to those that saw room.
Shrinks(e) ==
  /\ Backlog(e)' \subseteq Backlog(e) /\ Rooms(e)' \subseteq Rooms(e)
  /\ revived'[e] = revived[e]

SeesRoom(e) ==
  /\ Backlog(e)' = Backlog(e) /\ HasRoom(e) /\ revived'[e] = revived[e]

UsesRoom(e) ==
  /\ \E d \in Delivery : Backlog(e)' \subseteq Backlog(e) \cup {d}
  /\ \E c \in Rooms(e) : Rooms(e)' = Rooms(e) \ {c}
  /\ revived'[e] = revived[e]

Revives(e) ==
  /\ \E d \in Delivery : Backlog(e)' \subseteq Backlog(e) \cup {d}
  /\ Rooms(e)' = Rooms(e) /\ revived'[e] = revived[e] + 1

LEMMA RoomsFinite ==
  ASSUME NEW e
  PROVE  IsFiniteSet(Rooms(e)) /\ Cardinality(Rooms(e)) \in Nat /\ Cardinality(Rooms(e)) <= Cardinality(Conn)
<1>1. Rooms(e) \in SUBSET Conn
  BY DEF Rooms
<1> QED
  BY <1>1, PoolAssumption, FS_Subset, FS_CardinalityType

LEMMA RoomsFiniteNext ==
  ASSUME NEW e
  PROVE  IsFiniteSet(Rooms(e)') /\ Cardinality(Rooms(e)') \in Nat /\ Cardinality(Rooms(e)') <= Cardinality(Conn)
<1>1. Rooms(e)' \in SUBSET Conn
  BY DEF Rooms
<1> QED
  BY <1>1, PoolAssumption, FS_Subset, FS_CardinalityType

\* A set within another, with one more element at most.
LEMMA OneMore ==
  ASSUME NEW S, IsFiniteSet(S), NEW x, NEW T \in SUBSET (S \cup {x})
  PROVE  IsFiniteSet(T) /\ Cardinality(T) \in Nat /\ Cardinality(T) <= Cardinality(S) + 1
<1>1. /\ IsFiniteSet(S \cup {x}) /\ Cardinality(S) \in Nat /\ Cardinality(S \cup {x}) \in Nat
      /\ Cardinality(S \cup {x}) <= Cardinality(S) + 1
  BY FS_AddElement, FS_CardinalityType
<1>2. IsFiniteSet(T) /\ Cardinality(T) <= Cardinality(S \cup {x}) /\ Cardinality(T) \in Nat
  BY <1>1, FS_Subset, FS_CardinalityType
<1> QED
  BY <1>1, <1>2

\* The arithmetic of the four.
LEMMA BacklogKept ==
  ASSUME WebhookTypeOK, NEW e \in Endpoint, BacklogOK(e),
         Shrinks(e) \/ SeesRoom(e) \/ UsesRoom(e) \/ Revives(e)
  PROVE  BacklogOK(e)'
<1>1. /\ revived[e] \in Nat /\ MaxPending \in Nat
      /\ IsFiniteSet(Backlog(e)) /\ Cardinality(Backlog(e)) \in Nat /\ Cardinality(Conn) \in Nat
  BY WebhookAssumption, PoolAssumption, FS_CardinalityType DEF WebhookTypeOK, BacklogOK
<1>2. Cardinality(Backlog(e)) + Cardinality(Rooms(e)) <= MaxPending + Cardinality(Conn) - 1 + revived[e]
  BY DEF BacklogOK
<1>3. IsFiniteSet(Rooms(e)) /\ Cardinality(Rooms(e)) \in Nat
  BY RoomsFinite
<1>4. IsFiniteSet(Rooms(e)') /\ Cardinality(Rooms(e)') \in Nat /\ Cardinality(Rooms(e)') <= Cardinality(Conn)
  BY RoomsFiniteNext
<1> HIDE DEF Backlog, Rooms
<1>b. SUFFICES /\ IsFiniteSet(Backlog(e)')
               /\ Cardinality(Backlog(e)') + Cardinality(Rooms(e)')
                    <= MaxPending + Cardinality(Conn) - 1 + revived'[e]
  BY DEF BacklogOK
<1>5. CASE Shrinks(e)
  <2>1. /\ IsFiniteSet(Backlog(e)') /\ Cardinality(Backlog(e)') \in Nat
        /\ Cardinality(Backlog(e)') <= Cardinality(Backlog(e))
    BY <1>1, <1>5, FS_Subset, FS_CardinalityType DEF Shrinks
  <2>2. Cardinality(Rooms(e)') <= Cardinality(Rooms(e))
    BY <1>3, <1>5, FS_Subset DEF Shrinks
  <2> QED
    BY <1>1, <1>2, <1>3, <1>4, <1>5, <2>1, <2>2 DEF Shrinks
<1>6. CASE SeesRoom(e)
  <2>1. Cardinality(Backlog(e)) < MaxPending
    BY <1>6 DEF SeesRoom, HasRoom
  <2>2. IsFiniteSet(Backlog(e)') /\ Cardinality(Backlog(e)') = Cardinality(Backlog(e))
    BY <1>1, <1>6 DEF SeesRoom
  <2> QED
    BY <1>1, <1>4, <1>6, <2>1, <2>2 DEF SeesRoom
<1>7. CASE UsesRoom(e)
  <2>1. PICK d \in Delivery : Backlog(e)' \subseteq Backlog(e) \cup {d}
    BY <1>7 DEF UsesRoom
  <2>2. /\ IsFiniteSet(Backlog(e)') /\ Cardinality(Backlog(e)') \in Nat
        /\ Cardinality(Backlog(e)') <= Cardinality(Backlog(e)) + 1
    BY <1>1, <2>1, OneMore
  <2>3. Cardinality(Rooms(e)') = Cardinality(Rooms(e)) - 1
    <3>1. PICK c \in Rooms(e) : Rooms(e)' = Rooms(e) \ {c}
      BY <1>7 DEF UsesRoom
    <3> QED
      BY <1>3, <3>1, FS_RemoveElement
  <2> QED
    BY <1>1, <1>2, <1>3, <1>4, <1>7, <2>2, <2>3 DEF UsesRoom
<1>8. CASE Revives(e)
  <2>1. PICK d \in Delivery : Backlog(e)' \subseteq Backlog(e) \cup {d}
    BY <1>8 DEF Revives
  <2>2. /\ IsFiniteSet(Backlog(e)') /\ Cardinality(Backlog(e)') \in Nat
        /\ Cardinality(Backlog(e)') <= Cardinality(Backlog(e)) + 1
    BY <1>1, <2>1, OneMore
  <2>3. Cardinality(Rooms(e)') = Cardinality(Rooms(e))
    BY <1>8 DEF Revives
  <2> QED
    BY <1>1, <1>2, <1>3, <1>4, <1>8, <2>2, <2>3 DEF Revives
<1> QED
  BY <1>5, <1>6, <1>7, <1>8

\* A step that queues nothing and makes no row pending.
LEMMA NothingQueued ==
  ASSUME NEW e \in Endpoint, UNCHANGED <<counting, revived>>,
         \A d \in Delivery : row'[d].st = "pending" => Pending(d)
  PROVE  Shrinks(e)
  BY DEF Shrinks, Backlog, Of, Pending, Rooms

LEMMA BacklogStep ==
  ASSUME WebhookTypeOK, [Next]_vars, NEW e \in Endpoint
  PROVE  Shrinks(e) \/ SeesRoom(e) \/ UsesRoom(e) \/ Revives(e)
<1>r. /\ row \in [Delivery -> Row] /\ revived \in [Endpoint -> Nat]
      /\ counting \in [Conn -> [d : Delivery \cup {NoDelivery}, room : BOOLEAN]]
  BY DEF WebhookTypeOK, Row, Waits
<1>1. CASE UNCHANGED vars
  BY <1>1, NothingQueued DEF vars, Pending
<1>2. ASSUME NEW c \in Conn, Insert(c) PROVE Shrinks(e) \/ UsesRoom(e)
  <2> DEFINE d == counting[c].d
  <2>1. UNCHANGED revived /\ d \in Delivery /\ d # NoDelivery
    BY <1>2, Inserted DEF Insert
  <2>2. Backlog(e)' \subseteq Backlog(e) \cup {d} /\ \A x \in Delivery : x # d => row'[x] = row[x]
    BY <1>2, Inserted DEF Backlog, Of, Pending
  <2>3. /\ counting'[c].d = NoDelivery /\ \A k \in Conn \ {c} : counting'[k] = counting[k]
    BY <1>2, <1>r DEF Insert
  <2>4. CASE counting[c].room /\ EndpointOf[d] = e
    <3>1. c \in Rooms(e)
      BY <2>1, <2>4 DEF Rooms
    <3>2. Rooms(e)' = Rooms(e) \ {c}
      BY <2>3 DEF Rooms
    <3> QED
      BY <2>1, <2>2, <3>1, <3>2 DEF UsesRoom
  <2>5. CASE EndpointOf[d] # e
    <3>1. Backlog(e)' \subseteq Backlog(e)
      BY <2>2, <2>5 DEF Backlog, Of, Pending
    <3>2. Rooms(e)' \subseteq Rooms(e)
      BY <2>3 DEF Rooms
    <3> QED
      BY <2>1, <3>1, <3>2 DEF Shrinks
  <2>6. CASE ~counting[c].room
    <3>1. row'[d].st \in {"gone", "refused"}
      BY <1>2, <1>r, <2>1, <2>6 DEF Insert, NoRow, Row
    <3>2. Backlog(e)' \subseteq Backlog(e)
      BY <2>2, <3>1 DEF Backlog, Of, Pending
    <3>3. Rooms(e)' \subseteq Rooms(e)
      BY <2>3 DEF Rooms
    <3> QED
      BY <2>1, <3>2, <3>3 DEF Shrinks
  <2> QED
    BY <2>4, <2>5, <2>6
<1>3. ASSUME NEW c \in Conn, NEW d \in Delivery, Count(c, d) PROVE Shrinks(e) \/ SeesRoom(e)
  <2>1. /\ UNCHANGED <<row, revived>>
        /\ counting'[c] = [d |-> d, room |-> HasRoom(EndpointOf[d])]
        /\ \A k \in Conn \ {c} : counting'[k] = counting[k]
    BY <1>3, <1>r DEF Count
  <2>2. Backlog(e)' = Backlog(e)
    BY <2>1 DEF Backlog, Of, Pending
  <2>3. CASE EndpointOf[d] = e /\ HasRoom(e)
    BY <2>1, <2>2, <2>3 DEF SeesRoom
  <2>4. CASE ~(EndpointOf[d] = e /\ HasRoom(e))
    <3>1. c \notin Rooms(e)'
      BY <2>1, <2>4 DEF Rooms
    <3>2. Rooms(e)' \subseteq Rooms(e)
      BY <2>1, <3>1 DEF Rooms
    <3> QED
      BY <2>1, <2>2, <3>2 DEF Shrinks
  <2> QED
    BY <2>3, <2>4
<1>4. ASSUME NEW w \in Worker, Claim(w) PROVE Shrinks(e)
  <2>1. UNCHANGED <<counting, revived>> /\ \A d \in Delivery : row'[d].st = row[d].st
    BY <1>4, Claimed DEF Claim
  <2> QED
    BY <2>1, NothingQueued DEF Pending
<1>5. ASSUME NEW w \in Worker, NEW d \in Delivery, Record(w, d) PROVE Shrinks(e) \/ Revives(e)
  <2>1. UNCHANGED counting /\ EndpointOf[d] \in Endpoint
    BY <1>5, WebhookAssumption DEF Record
  <2>2. CASE row[d].st = "gone"
    BY <1>5, <2>1, <2>2, NothingQueued DEF Record, Pending
  <2>3. CASE row[d].st # "gone"
    <3> DEFINE st == Recorded(sending[w][d])
    <3>1. row'[d].st = st /\ \A x \in Delivery : x # d => row'[x] = row[x]
      BY <1>5, <2>3, RecordedRow
    <3>2. revived' = IF st = "pending" /\ ~Pending(d)
                     THEN [revived EXCEPT ![EndpointOf[d]] = @ + 1] ELSE revived
      BY <1>5, <2>3 DEF Record
    <3> HIDE DEF st
    <3>3. CASE st = "pending" /\ ~Pending(d) /\ EndpointOf[d] = e
      <4>1. revived'[e] = revived[e] + 1
        BY <1>r, <3>2, <3>3
      <4>2. Backlog(e)' \subseteq Backlog(e) \cup {d}
        BY <3>1 DEF Backlog, Of, Pending
      <4>3. Rooms(e)' = Rooms(e)
        BY <2>1 DEF Rooms
      <4> QED
        BY <4>1, <4>2, <4>3 DEF Revives
    <3>4. CASE ~(st = "pending" /\ ~Pending(d) /\ EndpointOf[d] = e)
      <4>1. revived'[e] = revived[e]
        BY <1>r, <2>1, <3>2, <3>4
      <4>2. Backlog(e)' \subseteq Backlog(e)
        BY <3>1, <3>4 DEF Backlog, Of, Pending
      <4>3. Rooms(e)' = Rooms(e)
        BY <2>1 DEF Rooms
      <4> QED
        BY <4>1, <4>2, <4>3 DEF Shrinks
    <3> QED
      BY <3>3, <3>4
  <2> QED
    BY <2>2, <2>3
<1>6. ASSUME NEW w \in Worker, NEW d \in Delivery,
             SettleParked(w, d) \/ SettleExpired(w, d) \/ Prune(w, d)
      PROVE  Shrinks(e)
  <2>1. UNCHANGED <<counting, revived>>
    BY <1>6 DEF SettleParked, SettleExpired, Prune
  <2>2. CASE Drop(d)
    BY <2>1, <2>2, DroppedRow, NothingQueued DEF Pending
  <2>3. CASE Prune(w, d)
    BY <1>r, <2>1, <2>3, GoneRow, NothingQueued DEF Prune, Pending
  <2> QED
    BY <1>6, <2>2, <2>3 DEF SettleParked, SettleExpired
<1>7. ASSUME NEW d \in Delivery, ComesDue(d) PROVE Shrinks(e)
  <2>1. UNCHANGED <<counting, revived>> /\ \A x \in Delivery : row'[x].st = row[x].st
    BY <1>7, <1>r DEF ComesDue, Row
  <2> QED
    BY <2>1, NothingQueued DEF Pending
<1>8. ASSUME NEW f \in Endpoint, Delete(f) PROVE Shrinks(e)
  <2>1. UNCHANGED <<counting, revived>> /\ \A d \in Delivery : row'[d] = row[d] \/ row'[d].st = "gone"
    BY <1>8, GoneRow DEF Delete
  <2> QED
    BY <2>1, NothingQueued DEF Pending
<1>9. UNCHANGED <<row, counting, revived>> => Shrinks(e)
  BY NothingQueued DEF Pending
<1> QED
  BY <1>1, <1>2, <1>3, <1>4, <1>5, <1>6, <1>7, <1>8, <1>9
     DEF Next, WorkerNext, Pick, Crash, Post, RecordFails, Disable, GraceEnds, Enable

\* queue.enqueue_event counts in the snapshot of its INSERT: the backlog of an
\* endpoint passes its cap by the connections that saw the same room, and by the
\* settled rows a late outcome made pending.
THEOREM BacklogBoundedAlways == Spec => []BacklogBounded
<1>1. Init => BacklogInv
  <2> SUFFICES ASSUME Init, NEW e \in Endpoint PROVE BacklogOK(e)
    BY DEF BacklogInv
  <2>1. Backlog(e) = {} /\ Rooms(e) = {} /\ revived[e] = 0
    BY DEF Init, Backlog, Of, Pending, NoRow, Rooms
  <2> QED
    BY <2>1, FS_EmptySet, FS_CardinalityType, PoolAssumption, WebhookAssumption DEF BacklogOK
<1>2. IInv /\ BacklogInv /\ [Next]_vars => BacklogInv'
  <2> SUFFICES ASSUME IInv, BacklogInv, [Next]_vars, NEW e \in Endpoint PROVE BacklogOK(e)'
    BY DEF BacklogInv
  <2>1. WebhookTypeOK /\ BacklogOK(e)
    BY DEF IInv, BacklogInv
  <2>2. Shrinks(e) \/ SeesRoom(e) \/ UsesRoom(e) \/ Revives(e)
    BY <2>1, BacklogStep
  <2> QED
    BY <2>1, <2>2, BacklogKept
<1>3. IInv /\ BacklogInv => BacklogBounded
  <2> SUFFICES ASSUME IInv, BacklogInv, NEW e \in Endpoint
               PROVE  Cardinality(Backlog(e)) <= MaxPending + Cardinality(Conn) - 1 + revived[e]
    BY DEF BacklogBounded
  <2>1. BacklogOK(e) /\ revived[e] \in Nat
    BY DEF IInv, BacklogInv, WebhookTypeOK
  <2>2. Cardinality(Backlog(e)) \in Nat /\ Cardinality(Rooms(e)) \in Nat /\ Cardinality(Conn) \in Nat
    BY <2>1, RoomsFinite, PoolAssumption, FS_CardinalityType DEF BacklogOK
  <2> QED
    BY <2>1, <2>2, WebhookAssumption DEF BacklogOK
<1> QED
  BY <1>1, <1>2, <1>3, IInvAlways, PTL DEF Spec

=============================================================================
