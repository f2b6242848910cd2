--------------------------- MODULE MCGateDispatch ---------------------------
(* Small instances of GateDispatch: main.extended and main.normal, with a   *)
(* LONG prompt and an answer with a ticket; main.long; the router's gate,   *)
(* which has a token budget.                                                *)
EXTENDS GateDispatch

CONSTANTS c1, c2, door, long, extended, normal, router

OneCaller == {c1}
TwoCallers == {c1, c2}
OneRow == {1}
TwoRows == {1, 2}
ThreeRows == 1..3
OldOne == {1}
Nobody == {}

MainGates == {long, extended, normal}
ExtendedPath == <<door, extended, normal>>
MainPath == (1 :> ExtendedPath) @@ (c1 :> ExtendedPath) @@ (c2 :> <<normal>>)
LongPath == [u \in {1, c1, c2} |-> <<long, door>>]
HiddenPath == (1 :> ExtendedPath) @@ (2 :> ExtendedPath) @@ (3 :> <<normal>>)
ExtendedGate == {extended}
MainEngine == [r \in 1..3 |-> "main"]
NoWeight == [u \in 1..3 \cup {c1, c2} |-> 0]
OneEach == [k \in MainGates |-> 1]
NoBudget == [k \in MainGates |-> 0]

RouterGates == {router}
RouterPath == [u \in 1..2 \cup {c1} |-> <<router>>]
RouterEngine == [r \in 1..2 |-> "router"]
RouterWeight == (1 :> 2) @@ (2 :> 5) @@ (c1 :> 1)
RouterConcurrent == router :> 2
RouterBudget == router :> 3
=============================================================================
