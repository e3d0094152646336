-------------------------- MODULE MCParkingBooking --------------------------
(***************************************************************************)
(* Small instances of ParkingBooking for TLC.                              *)
(***************************************************************************)
EXTENDS ParkingProperties, TLC

CONSTANTS b1, b2, p1, p2, r1, r2

(* 1.25x: two quotes of one unit cost more than one quote of two. *)
MCSurge == [b \in Bookings |-> 12500]

RowSymmetry == Permutations(Bookings) \cup Permutations(Payments) \cup Permutations(Requests)
=============================================================================
