-------------------------- MODULE BookingLifecycle --------------------------
(***************************************************************************)
(* The life of a parking booking as its callers may rely on it: the        *)
(* transition table of the booking domain and nothing else.  This is the   *)
(* abstract specification; ParkingBooking, where a transition is a read, a *)
(* decision and a later write, is checked to implement it.                 *)
(***************************************************************************)
CONSTANT Bookings

VARIABLE status

Statuses ==
  { "none", "pending_payment", "confirmed", "active", "completed",
    "cancelled", "expired", "no_show" }

Events == { "pay", "payment_timeout", "check_in", "complete", "cancel" }

(* The legal edges, one [from, event, to] per entry of the table. *)
Transitions ==
  { [from |-> "pending_payment", event |-> "pay",             to |-> "confirmed"],
    [from |-> "pending_payment", event |-> "payment_timeout", to |-> "cancelled"],
    [from |-> "confirmed",       event |-> "check_in",        to |-> "active"],
    [from |-> "confirmed",       event |-> "cancel",          to |-> "cancelled"],
    [from |-> "active",          event |-> "complete",        to |-> "completed"],
    [from |-> "active",          event |-> "cancel",          to |-> "cancelled"] }

CanFire(from, event) == \E t \in Transitions : t.from = from /\ t.event = event

NextStatus(from, event) ==
  (CHOOSE t \in Transitions : t.from = from /\ t.event = event).to

-----------------------------------------------------------------------------
Init == status = [b \in Bookings |-> "none"]

Insert(b) ==
  /\ status[b] = "none"
  /\ status' = [status EXCEPT ![b] = "pending_payment"]

Fire(b, event) ==
  /\ CanFire(status[b], event)
  /\ status' = [status EXCEPT ![b] = NextStatus(status[b], event)]

Next == \E b \in Bookings : Insert(b) \/ \E e \in Events : Fire(b, e)

Spec == Init /\ [][Next]_status
=============================================================================
