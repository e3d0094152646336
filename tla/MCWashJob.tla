------------------------------ MODULE MCWashJob ------------------------------
(***************************************************************************)
(* A small instance of WashJob for TLC.                                    *)
(***************************************************************************)
EXTENDS WashJob

CONSTANTS w1, w2, nobody
=============================================================================
