------------------------------ MODULE EventLog ------------------------------
(***************************************************************************)
(* The records of a durable response (table api_response_events and the     *)
(* in-memory buffers of publicapi/durable.py). The table's primary key is   *)
(* (response_id, sequence_number), so a log is a SET of records: nothing    *)
(* but the writers' numbering makes it the list that readers replay.        *)
(***************************************************************************)
EXTENDS Naturals, FiniteSets

(* A delta carries one token; a token is the place in the answer it was     *)
(* generated for and the attempt (lease) that generated it.                 *)
Token == [pos : Nat, by : Nat]
Record == [seq : Nat \ {0}, ev : {"created", "delta", "done"}, tok : Token]

Blank == [pos |-> 0, by |-> 0]
Created(n) == [seq |-> n, ev |-> "created", tok |-> Blank]
Delta(n, t) == [seq |-> n, ev |-> "delta", tok |-> t]
Done(n) == [seq |-> n, ev |-> "done", tok |-> Blank]

Seqs(S) == {r.seq : r \in S}
Deltas(S) == {r \in S : r.ev = "delta"}
Text(S) == {r.tok : r \in Deltas(S)}
\* COALESCE(max(sequence_number), 0)
LastSeq(S) == IF S = {} THEN 0 ELSE CHOOSE n \in Seqs(S) : \A k \in Seqs(S) : k <= n

\* No number is given twice.
Unique(S) == \A q, r \in S : q.seq = r.seq => q = r
\* No number is skipped.
Dense(S) == \A r \in S : \A k \in 1..r.seq : \E q \in S : q.seq = k
\* The records are numbered 1, 2, 3, ... : a list.
Numbered(S) == Unique(S) /\ Dense(S)

\* INSERT ... ON CONFLICT DO NOTHING RETURNING gives back every row sent.
NoConflict(S, recs) == Seqs(S) \cap Seqs(recs) = {}
=============================================================================
