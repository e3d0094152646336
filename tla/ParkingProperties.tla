-------------------------- MODULE ParkingProperties --------------------------
(***************************************************************************)
(* What ParkingBooking must guarantee: invariants over the rows, actions   *)
(* no step may take, what must eventually happen; and, last, what the      *)
(* code's comments say that an interleaving breaks.                        *)
(***************************************************************************)
EXTENDS ParkingBooking

(* No slot is occupied twice for the same moment, whichever commands        *)
(* overtake each other: allocation, extension and check-in all meet the     *)
(* exclusion constraint.                                                    *)
SlotExclusive ==
  \A b, c \in Bookings :
    b # c /\ Occupies(slot[b]) /\ Occupies(slot[c]) /\ slot[b].index = slot[c].index
      => ~ Overlap(slot[b].from, slot[b].to, slot[c])

(* What goes back never exceeds what came in, over every way to refund. *)
RefundsWithinCapture == \A p \in Payments : payment[p].refunded =< payment[p].amount

(* Whichever extensions, priced against ends that others have moved since   *)
(* and at rates the owner has changed since, are added to a booking, its    *)
(* base price covers the window it holds: every billable unit of it was     *)
(* charged for, at no less than the lowest of the rates.                    *)
WindowPaidFor ==
  \A b \in Bookings : booking[b].status # "none" =>
    \E rate \in Rates :
      booking[b].base >= StayPrice(rate, booking[b].from, booking[b].endsAt)

(* A capture whose report was answered 2xx is never dropped: the payment    *)
(* holds it, a refund row answers it, or its refund is still queued.        *)
CaptureNeverLost ==
  \A p \in Payments : (\E s \in Sources : <<p, s>> \in reported) =>
    \/ payment[p].status \in CapturedStatuses
    \/ payment[p].reasons # {}
    \/ [job |-> "orphan", ref |-> p, at |-> 0] \in jobs

-----------------------------------------------------------------------------
(* What a booking's rows owe each other.  These hold while captures and     *)
(* check-ins, or for the ledger any command but an order, are not overtaken *)
(* between read and write.                                                  *)

(* A booking that is awaiting payment, confirmed or under way occupies its  *)
(* slot, and no other booking does: a live booking's place is never resold. *)
LiveHoldsSlot ==
  \A b \in Bookings :
    (booking[b].status = "pending_payment" \/ Live(b)) <=> Occupies(slot[b])

(* The ledger bills a booking that stands for exactly its total; one that   *)
(* was given up is billed for nothing unless a capture paid for it.         *)
BilledWhileItStands ==
  \A b \in Bookings :
    /\ booking[b].status # "cancelled" \/ Refundable(b) # {} =>
         receivable[b] = booking[b].total
    /\ booking[b].status = "cancelled"
         /\ (\A p \in Payments : payment[p].booking = {b} =>
               payment[p].status \notin CapturedStatuses /\ payment[p].refunded = 0) =>
         receivable[b] = 0

(* However many orders a booking has, it is paid for once: every further    *)
(* capture is sent back or on its way back.                                 *)
PaidOnce ==
  \A b \in Bookings :
    Cardinality({ p \in Refundable(b) : "orphan_capture" \notin payment[p].reasons }) =< 1

(* A Route transfer is discharged once by its capture and once more only by *)
(* an orphan's refund, and the driver is billed again exactly for what that *)
(* refund gives back, whatever is redelivered.                              *)
DischargesExplained ==
  \A p \in Payments :
    /\ discharged[p] =< (IF payment[p].refunded < payment[p].amount THEN 1 ELSE 2)
    /\ reopened[p] = IF "orphan_capture" \in payment[p].reasons THEN payment[p].refunded ELSE 0

(* Cancelling a live booking settles the money in the same step: the        *)
(* captured payment gives back what the tier says, or, when nothing was     *)
(* captured, the receivable goes to zero.                                   *)
CancelSettles ==
  [][\A b \in Bookings : Live(b) /\ booking'[b].status = "cancelled" =>
       \/ \E p \in Refundable(b), by \in Cancellers :
            payment'[p].refunded =
              ResolveRefund(booking[b].total, booking[b].from, now, by).refund
       \/ Refundable(b) = {} /\ receivable'[b] = 0]_vars

(* Once a refund has reversed a booking in full nothing more goes back. *)
NothingAfterFullReversal ==
  [][\A p \in Payments : payment[p].reasons \cap FullReversalReasons # {} =>
       payment'[p].refunded = payment[p].refunded]_vars

LifecycleSpec == Lifecycle!Spec

-----------------------------------------------------------------------------
(* What the code's comments say and its interleavings break. *)

(* availability.service: no double sale from any path.  At no moment        *)
(* are more bookings confirmed or under way than there are slots for them.  *)
NoDoubleSale ==
  \A t \in Times :
    Cardinality({ b \in Bookings : /\ Live(b)
                                   /\ booking[b].from =< t
                                   /\ t < booking[b].endsAt }) =< NumSlots

-----------------------------------------------------------------------------
(* The clock advances; the relay and the queue redeliver a due message      *)
(* until it is acknowledged; the gateway repeats the webhook until a        *)
(* report is answered 2xx; a request that keeps being retried commits.      *)
Fairness ==
  /\ WF_vars(Tick)
  /\ WF_vars(\E m \in jobs : Expire(m, TRUE) \/ Complete(m, TRUE) \/ Orphan(m, TRUE))
  /\ \A r \in Requests : WF_vars(Commit(r) \/ Abandon(r))
  /\ \A p \in Payments :
       /\ SF_vars(\E r \in Requests : ConfirmRead(r, p, "webhook"))
       /\ SF_vars(\E r \in Requests :
            /\ request[r].kind = "confirm" /\ request[r].payment = p
            /\ request[r].source = "webhook"
            /\ ConfirmReplay(r) \/ ConfirmOrphan(r) \/ ConfirmCapture(r))

FairSpec == Spec /\ Fairness

(* A booking nobody pays for lets go of its slot; one that is paid is       *)
(* confirmed: nothing stays pending.                                        *)
PendingResolves ==
  \A b \in Bookings : booking[b].status = "pending_payment" ~> booking[b].status # "pending_payment"

(* A stay that began ends: completed by its job, or cancelled. *)
ActiveEnds == \A b \in Bookings : booking[b].status = "active" ~> booking[b].status # "active"

(* Money the gateway took is answered for: recorded as captured, or sent    *)
(* back.                                                                    *)
PaidIsAnswered ==
  \A p \in Payments : p \in paid ~>
    payment[p].status \in CapturedStatuses \/ payment[p].refunded > 0
==============================================================================
