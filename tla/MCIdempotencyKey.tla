-------------------------- MODULE MCIdempotencyKey --------------------------
(***************************************************************************)
(* Small instances of IdempotencyKey for TLC.                              *)
(***************************************************************************)
EXTENDS IdempotencyKey

CONSTANTS a1, a2
=============================================================================
