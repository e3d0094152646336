--------------------------- MODULE MCReviewRating ---------------------------
(***************************************************************************)
(* A small instance of ReviewRating for TLC.                               *)
(***************************************************************************)
EXTENDS ReviewRating

CONSTANTS r1, r2, job
=============================================================================
