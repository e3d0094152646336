--------------------------- MODULE ParkingBooking ---------------------------
(***************************************************************************)
(* A parking booking from request to settlement, for the bookings of one   *)
(* space and vehicle type: the API's commands, the worker's jobs, the      *)
(* payment gateway and the clock, over the rows they share.                *)
(*                                                                         *)
(* A command whose code decides on a row before the transaction (or the    *)
(* lock) that writes is two actions here: a Read that remembers what was   *)
(* seen, and a Commit that writes.  A transaction that locks first and     *)
(* reads under the lock is one action.  PostgreSQL runs them at READ       *)
(* COMMITTED: a statement sees what was committed when it started.         *)
(*                                                                         *)
(* A definition named for a fault (ReleaseForgotten, Uncapped, ...) stands *)
(* before the one it is a faulty version of; only mutation runs use it.    *)
(***************************************************************************)
EXTENDS Pricing, FiniteSets, RefundPolicy

CONSTANTS
  Bookings,      \* booking ids
  Payments,      \* payment rows, one per gateway order
  Requests,      \* API requests that can be in flight at once
  NumSlots,      \* space_slots of this space and vehicle type
  MaxTime,       \* bound on the clock; every window ends within it
  PayWindow,     \* PAYMENT_WINDOW_MS, how long an unpaid booking holds its slot
  Rates,         \* what the owner may set, and reset, as the price of a billable unit
  Unit,          \* how long a billable unit is
  Surge,         \* the multiplier frozen on each booking when it is made
  Sources,       \* who reports a capture: the Checkout callback, the webhook
  Calls,         \* the calls clients and the gateway make in this instance
  Overlapping,   \* the commands another request may overtake between Read and Commit
  NoPayment      \* lockCapturedForBooking found no row

ASSUME ParkingBookingAssumption ==
  /\ NumSlots \in Nat
  /\ MaxTime \in Nat
  /\ PayWindow \in Nat
  /\ Rates \subseteq Nat \ {0}              \* basePriceFor refuses another
  /\ Unit \in Nat \ {0}
  /\ Surge \in [Bookings -> { n \in Nat : n >= BasisPoints }]
  /\ NoPayment \notin Payments
  /\ Calls \subseteq { "order", "confirm", "check_in", "extend", "cancel", "admin_refund", "fail" }
  /\ Overlapping \subseteq { "order", "confirm", "check_in", "extend", "cancel" }

VARIABLES
  now,           \* the clock
  booking,       \* bookings rows: status, window, base_paise, total_paise
  slot,          \* booking_slots rows: occupancy
  payment,       \* payments rows with the refunds written against each
  receivable,    \* ledger: what a booking's driver was billed, net of reversals
  discharged,    \* ledger: how often a payment's Route share was discharged
  reopened,      \* ledger: what an orphan's refund bills the driver again for a payment
  jobs,          \* outbox messages not yet acknowledged by the worker
  request,       \* what each API request in flight has read so far
  paid,          \* gateway: orders the driver has paid
  reported       \* gateway: captures whose report was answered 2xx

bookingVars == <<booking, slot, receivable>>
paymentLedger == <<discharged, reopened>>
paymentVars == <<payment, paymentLedger>>
gatewayVars == <<paid, reported>>
vars == <<now, bookingVars, paymentVars, jobs, request, gatewayVars>>

Lifecycle == INSTANCE BookingLifecycle WITH status <- [b \in Bookings |-> booking[b].status]

Times == 0..MaxTime
Windows == { w \in [from : Times, to : Times] : w.from < w.to }

SlotIndexes == 1..NumSlots

SlotStatuses == { "none", "confirmed", "active", "released" }
PaymentStatuses ==
  { "none", "created", "captured", "failed", "partially_refunded", "refunded" }
CapturedStatuses == { "captured", "partially_refunded", "refunded" }
RefundReasons == Tiers \cup { "orphan_capture", "admin" }

NoBooking == [status |-> "none", from |-> 0, endsAt |-> 0, base |-> 0, total |-> 0]
NoSlot == [status |-> "none", index |-> 0, from |-> 0, to |-> 0]
NoOrder == [status |-> "none", booking |-> {}, amount |-> 0, capturedAt |-> 0,
            refunded |-> 0, reasons |-> {}]
Idle == [kind |-> "idle"]

Live(b) == booking[b].status \in { "confirmed", "active" }
Occupies(s) == s.status \in { "confirmed", "active" }
Overlap(from, to, s) == from < s.to /\ s.from < to

AdmitsOverPending(b, s) ==
  Occupies(s) =>
    \A c \in Bookings \ {b} :
      ~ (slot[c].status = "active" /\ slot[c].index = s.index /\ Overlap(s.from, s.to, slot[c]))

(* booking_slots_no_overlap for row b, were it s. *)
Admits(b, s) ==
  Occupies(s) =>
    \A c \in Bookings \ {b} :
      ~ (Occupies(slot[c]) /\ slot[c].index = s.index /\ Overlap(s.from, s.to, slot[c]))

(* The slots allocate finds free for a window. *)
FreeSlots(w) ==
  { i \in SlotIndexes : \A c \in Bookings :
      ~ (Occupies(slot[c]) /\ slot[c].index = i /\ Overlap(w.from, w.to, slot[c])) }

AwaitsPaymentUnlessConfirmed(b) == booking[b].status \notin { "none", "confirmed" }
AwaitsPayment(b) == booking[b].status = "pending_payment"

ReleaseForgotten(b) == UNCHANGED slot
Release(b) == slot' = [slot EXCEPT ![b].status = "released"]

(* reverseEntries over the booking's own columns, an extension included. *)
ReversalForgotten(b) == UNCHANGED receivable
ReverseReceivable(b) == receivable' = [receivable EXCEPT ![b] = @ - booking[b].total]

ExpiryDueInSeconds == (now + PayWindow) * 1000
ExpiryDue == now + PayWindow

CompletionDueInSeconds(endsAt) == endsAt * 1000
CompletionDue(endsAt) == endsAt

(* basePriceFor, and what the driver pays for a base price: a commission    *)
(* waiver never moves it.                                                   *)
StayPrice(rate, from, to) == BasePrice(rate, to - from, Unit)
DriverTotal(b, base) == Quote(base, Surge[b], FALSE).total

(* A command outside Overlapping runs from Read to Commit undisturbed. *)
Undisturbed(others) == \A r \in others : request[r].kind \in Overlapping \cup {"idle"}

Begin(r, command) ==
  /\ request[r] = Idle
  /\ command.kind \in Calls
  /\ Undisturbed(Requests)
  /\ request' = [request EXCEPT ![r] = command]

End(r) ==
  /\ Undisturbed(Requests \ {r})
  /\ request' = [request EXCEPT ![r] = Idle]

Init ==
  /\ now = 0
  /\ booking = [b \in Bookings |-> NoBooking]
  /\ slot = [b \in Bookings |-> NoSlot]
  /\ payment = [p \in Payments |-> NoOrder]
  /\ receivable = [b \in Bookings |-> 0]
  /\ discharged = [p \in Payments |-> 0]
  /\ reopened = [p \in Payments |-> 0]
  /\ jobs = {}
  /\ request = [r \in Requests |-> Idle]
  /\ paid = {}
  /\ reported = {}

-----------------------------------------------------------------------------
(* CreateBookingCommand: one transaction.  allocate runs under an advisory  *)
(* lock per space and vehicle type, so it always takes the lowest slot that *)
(* is free for the window, and refuses the booking when there is none.      *)
Create(b, w) ==
  /\ Undisturbed(Requests)
  /\ booking[b].status = "none"
  /\ w.from >= now
  /\ now + PayWindow =< MaxTime
  /\ \E i \in FreeSlots(w) :
       /\ \A j \in FreeSlots(w) : i =< j
       /\ slot' = [slot EXCEPT ![b] =
                    [status |-> "confirmed", index |-> i, from |-> w.from, to |-> w.to]]
  /\ \E rate \in Rates :
       LET base == StayPrice(rate, w.from, w.to) IN
       /\ booking' = [booking EXCEPT ![b] =
                       [status |-> "pending_payment", from |-> w.from, endsAt |-> w.to,
                        base |-> base, total |-> DriverTotal(b, base)]]
       /\ receivable' = [receivable EXCEPT ![b] = DriverTotal(b, base)]
  /\ jobs' = jobs \cup {[job |-> "expire", ref |-> b, at |-> ExpiryDue]}
  /\ UNCHANGED <<now, paymentVars, request, gatewayVars>>

(* CreateOrderCommand: the booking and its open order are read, the gateway *)
(* mints an order, and only then is the row inserted, unlocked.             *)
OrderRead(r, b) ==
  /\ AwaitsPayment(b)
  /\ ~ \E p \in Payments : payment[p].booking = {b} /\ payment[p].status = "created"
  /\ Begin(r, [kind |-> "order", booking |-> b, amount |-> booking[b].total])
  /\ UNCHANGED <<now, bookingVars, paymentVars, jobs, gatewayVars>>

OrderCommit(r, p) ==
  /\ request[r].kind = "order"
  /\ payment[p].status = "none"
  /\ End(r)
  /\ payment' = [payment EXCEPT ![p].status = "created",
                                ![p].booking = {request[r].booking},
                                ![p].amount = request[r].amount]
  /\ UNCHANGED <<now, bookingVars, paymentLedger, jobs, gatewayVars>>

-----------------------------------------------------------------------------
(* ConfirmPaymentCommand, from the callback or the webhook.  The statement  *)
(* that locks the payment joins the booking without locking it: after a     *)
(* wait for the lock the payment is current, the booking as the statement   *)
(* first saw it.  So the booking is remembered and the payment is not.      *)
ConfirmRead(r, p, source) ==
  /\ payment[p].status # "none"
  /\ p \in paid
  /\ <<p, source>> \notin reported
  /\ \A q \in Requests : request[q].kind = "confirm" =>
       <<request[q].payment, request[q].source>> # <<p, source>>
  /\ \E b \in payment[p].booking :
       Begin(r, [kind |-> "confirm", payment |-> p, source |-> source,
                 status |-> booking[b].status, endsAt |-> booking[b].endsAt])
  /\ UNCHANGED <<now, bookingVars, paymentVars, jobs, gatewayVars>>

(* No cancellation holds the payment row lock. *)
Unlocked(p) == \A r \in Requests : request[r].kind = "cancel" => request[r].payment # p

Reported(r) ==
  /\ Unlocked(request[r].payment)
  /\ reported' = reported \cup {<<request[r].payment, request[r].source>>}
  /\ End(r)
  /\ UNCHANGED <<now, paid>>

ReplayedWhenCancelled(r) == request[r].status = "cancelled"

(* The other report got there first: nothing to do. *)
Replayed(r) ==
  request[r].status = "confirmed" /\ payment[request[r].payment].status = "captured"

ConfirmReplay(r) ==
  /\ request[r].kind = "confirm"
  /\ Replayed(r)
  /\ Reported(r)
  /\ UNCHANGED <<bookingVars, paymentVars, jobs>>

ConfirmOrphan(r) ==
  /\ request[r].kind = "confirm"
  /\ request[r].status # "pending_payment"
  /\ ~ Replayed(r)
  /\ Reported(r)
  /\ jobs' = jobs \cup {[job |-> "orphan", ref |-> request[r].payment, at |-> 0]}
  /\ UNCHANGED <<bookingVars, paymentVars>>

ConfirmCapture(r) ==
  /\ request[r].kind = "confirm"
  /\ request[r].status = "pending_payment"
  /\ Reported(r)
  /\ LET p == request[r].payment IN
     /\ payment' = [payment EXCEPT ![p].status = "captured", ![p].capturedAt = now]
     /\ discharged' = [discharged EXCEPT ![p] = @ + 1]
     /\ \E b \in payment[p].booking :
          /\ booking' = [booking EXCEPT ![b].status =
                          Lifecycle!NextStatus(request[r].status, "pay")]
          /\ jobs' = jobs \cup {[job |-> "complete", ref |-> b, at |-> CompletionDue(request[r].endsAt)]}
  /\ UNCHANGED <<slot, receivable, reopened>>

(* FailPaymentCommand, from the webhook: the gateway may report a failed    *)
(* attempt at any time, also after a later attempt on the order succeeded.  *)
Fail(p) ==
  /\ "fail" \in Calls
  /\ Undisturbed(Requests)
  /\ payment[p].status \notin { "none", "captured", "failed" }
  /\ Unlocked(p)
  /\ payment' = [payment EXCEPT ![p].status = "failed"]
  /\ UNCHANGED <<now, bookingVars, paymentLedger, jobs, request, gatewayVars>>

-----------------------------------------------------------------------------
(* CheckInCommand: the booking is read and the transition decided outside   *)
(* the transaction; markCheckedIn and setSlotStatus write by id alone.  An  *)
(* owner's scan has no time rule, so the driver's fallback adds nothing.    *)
CheckInRead(r, b) ==
  /\ Lifecycle!CanFire(booking[b].status, "check_in")
  /\ Begin(r, [kind |-> "check_in", booking |-> b, endsAt |-> booking[b].endsAt])
  /\ UNCHANGED <<now, bookingVars, paymentVars, jobs, gatewayVars>>

CheckInCommit(r) ==
  /\ request[r].kind = "check_in"
  /\ End(r)
  /\ LET b == request[r].booking
         row == [slot[b] EXCEPT !.status = "active"] IN
     /\ Admits(b, row)
     /\ slot' = [slot EXCEPT ![b] = row]
     /\ booking' = [booking EXCEPT ![b].status = "active"]
     /\ jobs' = jobs \cup {[job |-> "complete", ref |-> b, at |-> CompletionDue(request[r].endsAt)]}
  /\ UNCHANGED <<now, receivable, paymentVars, gatewayVars>>

CanExtend(b, newEndsAt) ==
  /\ Live(b)
  /\ booking[b].status = "confirmed" => booking[b].from >= now
  /\ newEndsAt > booking[b].endsAt

(* forExtension: the whole longer stay less the whole agreed one, at the    *)
(* rate the space has now.                                                  *)
ExtensionDelta(r) ==
  LET from == booking[request[r].booking].from IN
  ExtensionBase(request[r].rate, request[r].currentEndsAt - from, request[r].newEndsAt - from, Unit)

NewEndAddedOn(r) ==
  booking[request[r].booking].endsAt + (request[r].newEndsAt - request[r].currentEndsAt)
NewEnd(r) == request[r].newEndsAt

(* ExtendBookingCommand: checked and priced against a read outside the      *)
(* transaction.  The price of the extension, a quote of its own, is added   *)
(* to whatever the row has become; the end is set.                          *)
ExtendRead(r, b, newEndsAt) ==
  /\ CanExtend(b, newEndsAt)
  /\ \E rate \in Rates :
       Begin(r, [kind |-> "extend", booking |-> b, rate |-> rate,
                 currentEndsAt |-> booking[b].endsAt, newEndsAt |-> newEndsAt])
  /\ UNCHANGED <<now, bookingVars, paymentVars, jobs, gatewayVars>>

ExtendCommit(r) ==
  /\ request[r].kind = "extend"
  /\ End(r)
  /\ LET b == request[r].booking
         row == [slot[b] EXCEPT !.to = NewEnd(r)]
         delta == ExtensionDelta(r) IN
     /\ Admits(b, row)
     /\ slot' = [slot EXCEPT ![b] = row]
     /\ booking' = [booking EXCEPT ![b].endsAt = NewEnd(r),
                                   ![b].base = @ + delta,
                                   ![b].total = @ + DriverTotal(b, delta)]
     /\ receivable' = [receivable EXCEPT ![b] = @ + DriverTotal(b, delta)]
  /\ UNCHANGED <<now, paymentVars, jobs, gatewayVars>>

-----------------------------------------------------------------------------
(* The captured rows lockCapturedForBooking can lock, newest capture first. *)
Refundable(b) ==
  { p \in Payments : /\ payment[p].booking = {b}
                     /\ payment[p].status \in CapturedStatuses
                     /\ "orphan_capture" \notin payment[p].reasons }

LockedForRefund(b) ==
  { p \in Refundable(b) :
      Unlocked(p) /\ \A q \in Refundable(b) : payment[q].capturedAt =< payment[p].capturedAt }

Uncapped(p, amount) == amount >= 0

(* The trigger refunds_capped_at_capture. *)
WithinCapture(p, amount) == payment[p].refunded + amount =< payment[p].amount

(* insertRefund and markRefunded, under that trigger. *)
Refunded(p, amount, reason, fully) ==
  /\ payment[p].status \in { "captured", "partially_refunded" }
  /\ WithinCapture(p, amount)
  /\ payment' = [payment EXCEPT ![p].status = IF fully THEN "refunded" ELSE "partially_refunded",
                                ![p].refunded = @ + amount,
                                ![p].reasons = @ \cup {reason}]

(* CancelBookingCommand.  Its first statement looks for the captured payment *)
(* and locks it if it is there; its second locks the booking and sees it as  *)
(* it is by then.  A capture that commits in between is not seen.            *)
CancelRead(r, b, by) ==
  /\ booking[b].status # "none"
  /\ \/ \E p \in LockedForRefund(b) :
           Begin(r, [kind |-> "cancel", booking |-> b, by |-> by, at |-> now, payment |-> p])
     \/ /\ Refundable(b) = {}
        /\ Begin(r, [kind |-> "cancel", booking |-> b, by |-> by, at |-> now,
                     payment |-> NoPayment])
  /\ UNCHANGED <<now, bookingVars, paymentVars, jobs, gatewayVars>>

Cancelled(r) ==
  LET b == request[r].booking IN
  /\ Lifecycle!CanFire(booking[b].status, "cancel")
  /\ booking' = [booking EXCEPT ![b].status = Lifecycle!NextStatus(@, "cancel")]
  /\ Release(b)
  /\ End(r)
  /\ UNCHANGED <<now, paymentLedger, jobs, gatewayVars>>

(* Nothing was collected: the receivable is reversed and no money moves. *)
CancelUnpaid(r) ==
  /\ request[r].kind = "cancel"
  /\ request[r].payment = NoPayment
  /\ Cancelled(r)
  /\ ReverseReceivable(request[r].booking)
  /\ UNCHANGED payment

CancelOutcomeFromEnd(r) ==
  LET row == booking[request[r].booking] IN
  ResolveRefund(row.total, row.endsAt, request[r].at, request[r].by)

CancelOutcome(r) ==
  LET row == booking[request[r].booking] IN
  ResolveRefund(row.total, row.from, request[r].at, request[r].by)

CancelPaid(r) ==
  /\ request[r].kind = "cancel"
  /\ request[r].payment \in Payments
  /\ payment[request[r].payment].status = "captured"
  /\ Cancelled(r)
  /\ LET outcome == CancelOutcome(r) IN
     IF outcome.refund = 0
     THEN UNCHANGED payment
     ELSE Refunded(request[r].payment, outcome.refund, outcome.tier,
                   \/ outcome.tier = "owner_cancelled"
                   \/ outcome.refund = booking[request[r].booking].total)
  /\ UNCHANGED receivable

(* AdminRefundCommand: one transaction under the payment's lock. *)
AdminRefund(b, option) ==
  /\ "admin_refund" \in Calls
  /\ Undisturbed(Requests)
  /\ booking[b].status \in AdminRefundableStatuses
  /\ \E p \in LockedForRefund(b) :
       LET left == RefundableOf(payment[p].amount, payment[p].refunded, payment[p].reasons) IN
       \E amount \in AdminRefundAmounts(option, left) :
         Refunded(p, amount, "admin", amount = left)
  /\ UNCHANGED <<now, bookingVars, paymentLedger, jobs, request, gatewayVars>>

(* A request that fails before its commit leaves nothing behind: refused by *)
(* a guard or a constraint, rolled back, or lost with the process.          *)
Abandon(r) ==
  /\ request[r] # Idle
  /\ End(r)
  /\ UNCHANGED <<now, bookingVars, paymentVars, jobs, gatewayVars>>

-----------------------------------------------------------------------------
(* The worker.  A message is delivered once it is due and until it is       *)
(* acknowledged; a crash before the acknowledgement delivers it again.      *)
Deliver(m) ==
  /\ Undisturbed(Requests)
  /\ m \in jobs
  /\ m.at =< now

Acknowledge(m, ack) == jobs' = IF ack THEN jobs \ {m} ELSE jobs

(* booking.expire-unpaid, under the booking's row lock. *)
Expire(m, ack) ==
  /\ m.job = "expire"
  /\ Deliver(m)
  /\ Acknowledge(m, ack)
  /\ IF AwaitsPayment(m.ref)
     THEN /\ booking' = [booking EXCEPT ![m.ref].status = "cancelled"]
          /\ Release(m.ref)
          /\ ReverseReceivable(m.ref)
     ELSE UNCHANGED bookingVars
  /\ UNCHANGED <<now, paymentVars, request, gatewayVars>>

(* booking.complete, under the booking's row lock. *)
Complete(m, ack) ==
  /\ m.job = "complete"
  /\ Deliver(m)
  /\ Acknowledge(m, ack)
  /\ IF booking[m.ref].status = "active"
     THEN /\ booking' = [booking EXCEPT ![m.ref].status = "completed"]
          /\ Release(m.ref)
     ELSE UNCHANGED <<booking, slot>>
  /\ UNCHANGED <<now, receivable, paymentVars, request, gatewayVars>>

OrphanRefundReasonDrifted == "orphan"
OrphanRefundReason == "orphan_capture"

OrphanRefundAlwaysDue(p) == payment[p].status # "none"
OrphanRefundDue(p) ==
  OrphanRefundReason \notin payment[p].reasons /\ WithinCapture(p, payment[p].amount)

(* payment.orphan-capture, under the payment's row lock.  A refund beyond   *)
(* the capture is refused by the trigger, and with it the transaction: the  *)
(* message is retried and then set aside.                                   *)
Orphan(m, ack) ==
  /\ m.job = "orphan"
  /\ Deliver(m)
  /\ Unlocked(m.ref)
  /\ Acknowledge(m, ack)
  /\ IF OrphanRefundDue(m.ref)
     THEN /\ payment' = [payment EXCEPT
                 ![m.ref].status = "refunded",
                 ![m.ref].capturedAt = IF payment[m.ref].status = "captured" THEN @ ELSE now,
                 ![m.ref].refunded = payment[m.ref].amount,
                 ![m.ref].reasons = @ \cup {OrphanRefundReason}]
          /\ discharged' = [discharged EXCEPT ![m.ref] = @ + 1]
          /\ reopened' = [reopened EXCEPT ![m.ref] = @ + payment[m.ref].amount]
     ELSE UNCHANGED paymentVars
  /\ UNCHANGED <<now, bookingVars, request, gatewayVars>>

-----------------------------------------------------------------------------
(* The driver pays an order at the gateway; the clock moves. *)
Pay(p) ==
  /\ Undisturbed(Requests)
  /\ payment[p].status # "none"
  /\ p \notin paid
  /\ paid' = paid \cup {p}
  /\ UNCHANGED <<now, bookingVars, paymentVars, jobs, request, reported>>

Tick ==
  /\ Undisturbed(Requests)
  /\ now < MaxTime
  /\ now' = now + 1
  /\ UNCHANGED <<bookingVars, paymentVars, jobs, request, gatewayVars>>

Driver ==
  \/ \E b \in Bookings, w \in Windows : Create(b, w)
  \/ \E r \in Requests, b \in Bookings :
       \/ OrderRead(r, b)
       \/ CheckInRead(r, b)
       \/ \E t \in Times : ExtendRead(r, b, t)
       \/ \E by \in Cancellers \ {"owner"} : CancelRead(r, b, by)
  \/ \E b \in Bookings, option \in Presets \cup {"custom"} : AdminRefund(b, option)

Commit(r) ==
  \/ \E p \in Payments : OrderCommit(r, p)
  \/ ConfirmReplay(r)
  \/ ConfirmOrphan(r)
  \/ ConfirmCapture(r)
  \/ CheckInCommit(r)
  \/ ExtendCommit(r)
  \/ CancelUnpaid(r)
  \/ CancelPaid(r)

Gateway ==
  \E p \in Payments :
    \/ Pay(p)
    \/ Fail(p)
    \/ \E r \in Requests, s \in Sources : ConfirmRead(r, p, s)

Worker == \E m \in jobs, ack \in BOOLEAN : Expire(m, ack) \/ Complete(m, ack) \/ Orphan(m, ack)

Next ==
  \/ Driver
  \/ Gateway
  \/ Worker
  \/ Tick
  \/ \E r \in Requests : Commit(r) \/ Abandon(r)

Spec == Init /\ [][Next]_vars

-----------------------------------------------------------------------------
BookingRows == [status : Lifecycle!Statuses, from : Times, endsAt : Times,
                base : Nat, total : Nat]
SlotRows == [status : SlotStatuses, index : 0..NumSlots, from : Times, to : Times]
PaymentRows == [status : PaymentStatuses, booking : SUBSET Bookings, amount : Nat,
                capturedAt : Times, refunded : Nat, reasons : SUBSET RefundReasons]

CommandRecords ==
  [kind : {"order"}, booking : Bookings, amount : Nat]
    \cup [kind : {"confirm"}, payment : Payments, source : Sources,
          status : Lifecycle!Statuses, endsAt : Times]
    \cup [kind : {"check_in"}, booking : Bookings, endsAt : Times]
    \cup [kind : {"extend"}, booking : Bookings, rate : Rates,
          currentEndsAt : Times, newEndsAt : Times]
    \cup [kind : {"cancel"}, booking : Bookings, by : Cancellers, at : Times,
          payment : Payments \cup {NoPayment}]

Messages ==
  [job : {"expire", "complete"}, ref : Bookings, at : Times]
    \cup [job : {"orphan"}, ref : Payments, at : {0}]

(* Every variable keeps its shape; nothing else is claimed here. *)
TypeOK ==
  /\ now \in Times
  /\ booking \in [Bookings -> BookingRows]
  /\ slot \in [Bookings -> SlotRows]
  /\ payment \in [Payments -> PaymentRows]
  /\ receivable \in [Bookings -> Int]
  /\ discharged \in [Payments -> Nat]
  /\ reopened \in [Payments -> Nat]
  /\ jobs \subseteq Messages
  /\ request \in [Requests -> CommandRecords \cup {Idle}]
  /\ paid \subseteq Payments
  /\ reported \subseteq Payments \X Sources
=============================================================================
