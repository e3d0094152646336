--------------------------- MODULE MCValetDispatch ---------------------------
(***************************************************************************)
(* A small instance of ValetDispatch for TLC.  Of the distances one is     *)
(* nothing and one loses its last kilometre when it is rounded to the      *)
(* metre.                                                                  *)
(***************************************************************************)
EXTENDS ValetDispatch

CONSTANTS v1, v2, nobody
=============================================================================
