-------------------------- MODULE MCIdempotencyKey --------------------------
(* Small instances of IdempotencyKey: two requests with one body, one with  *)
(* another.                                                                 *)
EXTENDS IdempotencyKey, TLC

CONSTANTS q1, q2, q3
Three == {q1, q2, q3}
OneDiffers == (q1 :> 1) @@ (q2 :> 1) @@ (q3 :> 2)
=============================================================================
