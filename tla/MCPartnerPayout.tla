--------------------------- MODULE MCPartnerPayout ---------------------------
(***************************************************************************)
(* TLC's instance of PartnerPayout: two Mondays, one booking, one change   *)
(* of account, one crash.  Paid and cancelled payouts stay: no deadlock to *)
(* look for once everything is done.                                       *)
(***************************************************************************)
EXTENDS PartnerPayout
=============================================================================
