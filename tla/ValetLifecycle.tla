--------------------------- MODULE ValetLifecycle ---------------------------
(***************************************************************************)
(* What both participants of a valet job may rely on: it moves along the   *)
(* published table, and from the moment a valet takes it, it is theirs.    *)
(* ValetDispatch, where a move is a read and a later conditional write, is *)
(* shown to implement it.                                                  *)
(***************************************************************************)
CONSTANTS Valets, Nobody

VARIABLES status, assignee

Statuses ==
  { "none", "requested", "offered", "accepted", "en_route", "arrived", "parking", "parked",
    "return_requested", "returning", "completed", "cancelled", "no_show" }

Events ==
  { "offer", "accept", "depart", "arrive", "start_parking", "confirm_parked", "request_return",
    "depart_return", "complete", "cancel", "no_show" }

(* VALET_TRANSITIONS, one [from, event, to] per entry. *)
Transitions ==
  { [from |-> "requested",        event |-> "offer",          to |-> "offered"],
    [from |-> "offered",          event |-> "offer",          to |-> "offered"],
    [from |-> "offered",          event |-> "accept",         to |-> "accepted"],
    [from |-> "accepted",         event |-> "depart",         to |-> "en_route"],
    [from |-> "en_route",         event |-> "arrive",         to |-> "arrived"],
    [from |-> "arrived",          event |-> "start_parking",  to |-> "parking"],
    [from |-> "arrived",          event |-> "no_show",        to |-> "no_show"],
    [from |-> "parking",          event |-> "confirm_parked", to |-> "parked"],
    [from |-> "parked",           event |-> "request_return", to |-> "return_requested"],
    [from |-> "parked",           event |-> "complete",       to |-> "completed"],
    [from |-> "return_requested", event |-> "depart_return",  to |-> "returning"],
    [from |-> "returning",        event |-> "complete",       to |-> "completed"] }
  \cup
  { [from |-> s, event |-> "cancel", to |-> "cancelled"] :
      s \in { "requested", "offered", "accepted", "en_route", "arrived" } }

CanFire(from, event) == \E t \in Transitions : t.from = from /\ t.event = event

NextValetStatus(from, event) ==
  (CHOOSE t \in Transitions : t.from = from /\ t.event = event).to

-----------------------------------------------------------------------------
Init == status = "none" /\ assignee = Nobody

(* A request becomes a job, already offered when somebody is near. *)
Open ==
  /\ status = "none"
  /\ status' \in { "requested", "offered" }
  /\ UNCHANGED assignee

Fire(event) ==
  /\ CanFire(status, event)
  /\ status' = NextValetStatus(status, event)
  /\ IF event = "accept" THEN assignee' \in Valets ELSE UNCHANGED assignee

Next == Open \/ \E event \in Events : Fire(event)

Spec == Init /\ [][Next]_<<status, assignee>>
=============================================================================
