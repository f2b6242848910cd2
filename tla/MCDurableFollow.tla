-------------------------- MODULE MCDurableFollow --------------------------
(* Small instances of DurableFollow for TLC.                                *)
EXTENDS DurableFollow, TLC
CONSTANTS r1, r2, c1, c2, c3
OneResp == {r1}
TwoResp == {r1, r2}
OneClient == {c1}
TwoClients == {c1, c2}
ThreeClients == {c1, c2, c3}
\* No action tells one client from another.
Symmetry == Permutations(ThreeClients)
=============================================================================
