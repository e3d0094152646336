------------------------- MODULE MCRouteOnboarding -------------------------
(***************************************************************************)
(* A small instance of RouteOnboarding for TLC.  A second submit of the    *)
(* same form is the same as the first.                                     *)
(***************************************************************************)
EXTENDS RouteOnboarding, TLC

CONSTANTS s1, s2, nobody, dead

SubmitSymmetry == Permutations(Submits)
=============================================================================
