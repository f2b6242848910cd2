---------------------------- MODULE MCDurableRun ----------------------------
(* Small instances of DurableRun for TLC.                                   *)
EXTENDS DurableRun
CONSTANTS p1, p2, p3
Two == {p1, p2}
Three == {p1, p2, p3}
NoProc == {}
One == {p1}
=============================================================================
