------------------------- MODULE MCRefundSettlement -------------------------
(***************************************************************************)
(* TLC's instance of RefundSettlement: two refunds of one capture, two     *)
(* faults, prices whose shares do not divide.                              *)
(***************************************************************************)
EXTENDS RefundSettlement
=============================================================================
