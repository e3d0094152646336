--------------------------- MODULE ParkingProofs ----------------------------
(***************************************************************************)
(* ParkingBooking for every number of bookings, payments, slots and        *)
(* requests, every rate and unit of price and every surge multiplier.      *)
(*                                                                         *)
(* First, whichever commands overtake each other: types, slots, refunds    *)
(* and captures.  Then what the rows of a booking owe each other, each     *)
(* theorem under the hypothesis that some commands are not overtaken, and  *)
(* no other.  One description of how a step moves a booking and one of how *)
(* it moves a payment serve all of these.  Last, the ledger: what is       *)
(* billed, and what a cancellation settles.                                *)
(***************************************************************************)
EXTENDS ParkingProperties, MoneyProofs

(* TypeOK is not inductive: an extension's price is a price only because    *)
(* the end it saw comes after the booking's start, and its new end later.   *)
WindowsOrdered ==
  \A b \in Bookings : booking[b].from =< booking[b].endsAt

ExtensionsForward ==
  \A r \in Requests : request[r].kind = "extend" =>
    /\ booking[request[r].booking].status # "none"
    /\ booking[request[r].booking].from =< request[r].currentEndsAt
    /\ request[r].currentEndsAt < request[r].newEndsAt

TypeInv == TypeOK /\ WindowsOrdered /\ ExtensionsForward

(* A command's kind says which fields it has. *)
LEMMA CommandFields ==
  ASSUME TypeOK, NEW r \in Requests
  PROVE
    /\ request[r] \in CommandRecords \cup {Idle}
    /\ request[r].kind = "order" => request[r].booking \in Bookings /\ request[r].amount \in Nat
    /\ request[r].kind = "confirm" =>
         /\ request[r].payment \in Payments
         /\ request[r].source \in Sources
         /\ request[r].status \in Lifecycle!Statuses
         /\ request[r].endsAt \in Times
    /\ request[r].kind = "check_in" => request[r].booking \in Bookings /\ request[r].endsAt \in Times
    /\ request[r].kind = "extend" =>
         /\ request[r].booking \in Bookings
         /\ request[r].rate \in Rates
         /\ request[r].currentEndsAt \in Times
         /\ request[r].newEndsAt \in Times
    /\ request[r].kind = "cancel" =>
         /\ request[r].booking \in Bookings
         /\ request[r].by \in Cancellers
         /\ request[r].at \in Times
         /\ request[r].payment \in Payments \cup {NoPayment}
<1>1. request[r] \in CommandRecords \cup {Idle}
  BY DEF TypeOK
<1> QED BY <1>1 DEF CommandRecords, Idle

LEMMA MessageFields ==
  ASSUME TypeOK, NEW m \in jobs
  PROVE  /\ m \in Messages
         /\ m.job \in {"expire", "complete"} => m.ref \in Bookings
         /\ m.job = "orphan" => m.ref \in Payments
BY DEF TypeOK, Messages

(* Releasing, and every other change of one booking's row. *)
LEMMA BeginTyped ==
  ASSUME TypeOK, NEW r \in Requests, NEW command \in CommandRecords, Begin(r, command)
  PROVE  request' \in [Requests -> CommandRecords \cup {Idle}]
BY DEF TypeOK, Begin

LEMMA EndTyped ==
  ASSUME TypeOK, NEW r \in Requests, End(r)
  PROVE  request' \in [Requests -> CommandRecords \cup {Idle}]
BY DEF TypeOK, End

(* What a stay costs, what its driver pays, and what an extension adds. *)
LEMMA StayPriced ==
  ASSUME NEW rate \in Rates, NEW from \in Times, NEW to \in Times, from =< to
  PROVE  StayPrice(rate, from, to) \in Nat \ {0}
<1>1. MaxTime \in Nat /\ Unit \in Nat \ {0} /\ rate \in Nat \ {0}
  BY ParkingBookingAssumption
<1>2. to - from \in Nat
  BY <1>1 DEF Times
<1> DEFINE units == BillableUnits(to - from, Unit)
<1>3. units \in Nat \ {0}
  BY <1>1, <1>2, UnitsGrow
<1>4. StayPrice(rate, from, to) = rate * units
  BY DEF StayPrice, BasePrice
<1> HIDE DEF units
<1>5. PICK k \in Nat : rate = 1 + k
  <2>1. rate - 1 \in Nat /\ rate = 1 + (rate - 1)
    BY <1>1
  <2> QED BY <2>1
<1>6. rate * units = units + k * units /\ k * units \in Nat
  BY <1>3, <1>5
<1> QED BY <1>3, <1>4, <1>6

LEMMA DriverPays ==
  ASSUME NEW b \in Bookings, NEW base \in Nat
  PROVE  DriverTotal(b, base) \in Nat /\ DriverTotal(b, base) >= base
<1> DEFINE q == Quote(base, Surge[b], FALSE)
<1>1. Surge[b] \in Multipliers /\ FALSE \in BOOLEAN
  BY ParkingBookingAssumption DEF Multipliers
<1>2. q \in QuoteRecords
  BY <1>1, QuoteIsBalanced
<1>3. q.total = base + q.premium + q.gst
  BY DEF Quote
<1>4. DriverTotal(b, base) = q.total
  BY DEF DriverTotal
<1> HIDE DEF q
<1>5. q.premium \in Nat /\ q.gst \in Nat
  BY <1>2 DEF QuoteRecords
<1> QED BY <1>3, <1>4, <1>5

LEMMA ExtensionPaid ==
  ASSUME NEW lo \in Rates, NEW rate \in Rates, NEW base \in Nat,
         NEW from \in Times, NEW endsAt \in Times, NEW newEndsAt \in Times,
         from =< endsAt, endsAt < newEndsAt, base >= StayPrice(lo, from, endsAt)
  PROVE  LET delta == ExtensionBase(rate, endsAt - from, newEndsAt - from, Unit) IN
         /\ delta \in Nat
         /\ \E least \in Rates : base + delta >= StayPrice(least, from, newEndsAt)
<1> DEFINE span == endsAt - from
           newSpan == newEndsAt - from
           delta == ExtensionBase(rate, span, newSpan, Unit)
<1>1. MaxTime \in Nat /\ Unit \in Nat \ {0} /\ rate \in Nat /\ lo \in Nat
  BY ParkingBookingAssumption
<1>2. span \in Nat /\ newSpan \in Nat /\ span =< newSpan
  BY <1>1 DEF Times
<1>3. base >= BasePrice(lo, span, Unit)
  BY DEF StayPrice
<1> HIDE DEF span, newSpan
<1>4. delta \in Nat
  BY <1>1, <1>2, ExtensionIsDifference
<1>5. \E least \in {lo, rate} : base + delta >= BasePrice(least, newSpan, Unit)
  BY <1>1, <1>2, <1>3, ExtensionCovers
<1>6. \A least \in Rates : BasePrice(least, newSpan, Unit) = StayPrice(least, from, newEndsAt)
  BY DEF StayPrice, newSpan
<1> HIDE DEF delta
<1>7. \E least \in Rates : base + delta >= StayPrice(least, from, newEndsAt)
  BY <1>5, <1>6
<1> QED BY <1>4, <1>7 DEF delta, span, newSpan

LEMMA TypeInit == Init => TypeInv
BY ParkingBookingAssumption
DEF Init, TypeInv, TypeOK, BookingRows, SlotRows, PaymentRows, WindowsOrdered, ExtensionsForward, NoBooking, NoSlot, NoOrder, Idle,
    Times, SlotStatuses, PaymentStatuses, RefundReasons, Messages, Lifecycle!Statuses

-----------------------------------------------------------------------------
(* The transition table, one event at a time. *)
LEMMA PayConfirms == Lifecycle!NextStatus("pending_payment", "pay") = "confirmed"
<1> DEFINE Fits(t) == t.from = "pending_payment" /\ t.event = "pay"
           edge == CHOOSE t \in Lifecycle!Transitions : Fits(t)
<1>1. \E t \in Lifecycle!Transitions : Fits(t)
  BY DEF Lifecycle!Transitions
<1>2. edge \in Lifecycle!Transitions /\ Fits(edge)
  BY <1>1
<1>3. edge.to = "confirmed"
  BY <1>2 DEF Lifecycle!Transitions
<1> QED BY <1>3 DEF Lifecycle!NextStatus

LEMMA CancelCancels ==
  ASSUME NEW s, Lifecycle!CanFire(s, "cancel")
  PROVE  Lifecycle!NextStatus(s, "cancel") = "cancelled"
<1> DEFINE Fits(t) == t.from = s /\ t.event = "cancel"
           edge == CHOOSE t \in Lifecycle!Transitions : Fits(t)
<1>1. \E t \in Lifecycle!Transitions : Fits(t)
  BY DEF Lifecycle!CanFire
<1>2. edge \in Lifecycle!Transitions /\ Fits(edge)
  BY <1>1
<1>3. \A t \in Lifecycle!Transitions : t.event = "cancel" => t.to = "cancelled"
  BY DEF Lifecycle!Transitions
<1> QED BY <1>2, <1>3 DEF Lifecycle!NextStatus

(* A step that keeps every booking made, with its start, and starts no      *)
(* extension, keeps the two ordering facts when it keeps the types.         *)
BookingsKept ==
  \A b \in Bookings :
    /\ booking[b].status # "none" => booking'[b].status # "none" /\ booking'[b].from = booking[b].from
    /\ booking'[b].from =< booking'[b].endsAt

NoNewExtension ==
  \A r \in Requests : request'[r].kind = "extend" => request'[r] = request[r]

LEMMA OrderKept ==
  ASSUME TypeInv, TypeOK', BookingsKept, NoNewExtension
  PROVE  TypeInv'
<1>1. WindowsOrdered'
  BY DEF BookingsKept, WindowsOrdered
<1>2. ASSUME NEW r \in Requests, request'[r].kind = "extend"
      PROVE  /\ booking'[request'[r].booking].status # "none"
             /\ booking'[request'[r].booking].from =< request'[r].currentEndsAt
             /\ request'[r].currentEndsAt < request'[r].newEndsAt
  <2>1. request'[r] = request[r] /\ request[r].kind = "extend"
    BY <1>2 DEF NoNewExtension
  <2>2. request[r].booking \in Bookings
    BY <2>1, CommandFields DEF TypeInv
  <2> QED BY <2>1, <2>2 DEF BookingsKept, TypeInv, ExtensionsForward
<1> QED BY <1>1, <1>2 DEF TypeInv, ExtensionsForward

LEMMA UnchangedKeeps ==
  ASSUME TypeInv, UNCHANGED booking
  PROVE  BookingsKept
BY DEF TypeInv, WindowsOrdered, BookingsKept

(* A change of status alone, to any status but "none". *)
LEMMA StatusSet ==
  ASSUME TypeInv, NEW b \in Bookings, NEW s \in Lifecycle!Statuses, s # "none",
         booking' = [booking EXCEPT ![b].status = s]
  PROVE  booking' \in [Bookings -> BookingRows] /\ BookingsKept
<1>1. booking \in [Bookings -> BookingRows]
  BY DEF TypeInv, TypeOK
<1>2. booking' \in [Bookings -> BookingRows]
  BY <1>1 DEF BookingRows
<1>3. \A c \in Bookings :
        /\ booking'[c].from = booking[c].from /\ booking'[c].endsAt = booking[c].endsAt
        /\ booking'[c].status = IF c = b THEN s ELSE booking[c].status
  BY <1>1 DEF BookingRows
<1>4. \A c \in Bookings : booking[c].from =< booking[c].endsAt
  BY DEF TypeInv, WindowsOrdered
<1> QED BY <1>2, <1>3, <1>4 DEF BookingsKept

LEMMA EndStartsNone ==
  ASSUME TypeOK, NEW r \in Requests, End(r)
  PROVE  NoNewExtension
BY DEF TypeOK, End, NoNewExtension, Idle

LEMMA BeginStartsNone ==
  ASSUME TypeOK, NEW r \in Requests, NEW command, command.kind # "extend", Begin(r, command)
  PROVE  NoNewExtension
BY DEF TypeOK, Begin, NoNewExtension

LEMMA CreateTyped ==
  ASSUME TypeInv, NEW b \in Bookings, NEW w \in Windows, Create(b, w)
  PROVE  TypeInv'
<1>1. /\ w.from \in 0..MaxTime /\ w.to \in 0..MaxTime /\ w.from < w.to
      /\ MaxTime \in Nat /\ PayWindow \in Nat
  BY ParkingBookingAssumption DEF Windows, Times
<1>2. PICK rate \in Rates :
        LET base == StayPrice(rate, w.from, w.to) IN
        /\ booking' = [booking EXCEPT ![b] =
                        [status |-> "pending_payment", from |-> w.from, endsAt |-> w.to,
                         base |-> base, total |-> DriverTotal(b, base)]]
        /\ receivable' = [receivable EXCEPT ![b] = DriverTotal(b, base)]
  BY DEF Create
<1> DEFINE base == StayPrice(rate, w.from, w.to)
           total == DriverTotal(b, base)
<1>3. base \in Nat /\ total \in Nat
  <2>1. base \in Nat
    BY <1>1, StayPriced DEF Times
  <2> HIDE DEF base
  <2> QED BY <2>1, DriverPays
<1> HIDE DEF base, total
<1>0. /\ booking' = [booking EXCEPT ![b] =
                      [status |-> "pending_payment", from |-> w.from, endsAt |-> w.to,
                       base |-> base, total |-> total]]
      /\ receivable' = [receivable EXCEPT ![b] = total]
  BY <1>2 DEF base, total
<1>4. booking' \in [Bookings -> BookingRows]
  BY <1>0, <1>1, <1>3 DEF TypeInv, TypeOK, BookingRows, Times, Lifecycle!Statuses
<1>5. slot' \in [Bookings -> SlotRows]
  <2>1. PICK i \in FreeSlots(w) :
          slot' = [slot EXCEPT ![b] =
                    [status |-> "confirmed", index |-> i, from |-> w.from, to |-> w.to]]
    BY DEF Create
  <2>2. i \in 0..NumSlots
    BY ParkingBookingAssumption DEF FreeSlots, SlotIndexes
  <2> QED BY <1>1, <2>1, <2>2 DEF TypeInv, TypeOK, SlotRows, SlotStatuses, Times
<1>6. jobs' \subseteq Messages
  <2>1. ExpiryDue \in Times
    BY <1>1 DEF ExpiryDue, Create, TypeInv, TypeOK, Times
  <2> QED BY <2>1 DEF Create, TypeInv, TypeOK, Messages
<1>7. receivable' \in [Bookings -> Int]
  BY <1>0, <1>3 DEF TypeInv, TypeOK
<1>8. TypeOK'
  BY <1>4, <1>5, <1>6, <1>7
  DEF Create, TypeInv, TypeOK, paymentVars, paymentLedger, gatewayVars
<1>9. BookingsKept
  <2>1. booking[b].status = "none"
    BY DEF Create
  <2> QED BY <1>0, <1>1, <2>1 DEF BookingsKept, TypeInv, TypeOK, BookingRows, WindowsOrdered
<1>10. NoNewExtension
  BY DEF Create, NoNewExtension
<1> QED BY <1>8, <1>9, <1>10, OrderKept

(* CreateOrder only reads a booking and writes a payment. *)
LEMMA OrderTyped ==
  ASSUME TypeInv, NEW r \in Requests,
         \/ \E b \in Bookings : OrderRead(r, b)
         \/ \E p \in Payments : OrderCommit(r, p)
  PROVE  TypeInv'
<1>1. CASE \E b \in Bookings : OrderRead(r, b)
  <2>1. PICK b \in Bookings : OrderRead(r, b)
    BY <1>1
  <2> DEFINE command == [kind |-> "order", booking |-> b, amount |-> booking[b].total]
  <2>2. command \in CommandRecords /\ Begin(r, command) /\ command.kind # "extend"
    BY <2>1 DEF OrderRead, CommandRecords, TypeInv, TypeOK, BookingRows
  <2> HIDE DEF command
  <2>3. TypeOK'
    BY <2>1, <2>2, BeginTyped
    DEF OrderRead, TypeInv, TypeOK, bookingVars, paymentVars, paymentLedger, gatewayVars
  <2> QED BY <2>1, <2>2, <2>3, BeginStartsNone, UnchangedKeeps, OrderKept
      DEF OrderRead, TypeInv, bookingVars
<1>2. CASE \E p \in Payments : OrderCommit(r, p)
  <2>1. PICK p \in Payments : OrderCommit(r, p)
    BY <1>2
  <2>2. request[r].booking \in Bookings /\ request[r].amount \in Nat /\ End(r)
    BY <2>1, CommandFields DEF OrderCommit, TypeInv
  <2>3. payment' \in [Payments -> PaymentRows]
    <3>1. payment' = [payment EXCEPT ![p].status = "created",
                                     ![p].booking = {request[r].booking},
                                     ![p].amount = request[r].amount]
      BY <2>1 DEF OrderCommit
    <3>2. payment \in [Payments -> PaymentRows]
      BY DEF TypeInv, TypeOK
    <3> DEFINE row == [payment[p] EXCEPT !.status = "created",
                                         !.booking = {request[r].booking},
                                         !.amount = request[r].amount]
    <3>3. row \in PaymentRows
      <4>1. payment[p] \in PaymentRows
        BY <3>2
      <4> QED BY <2>2, <4>1 DEF PaymentRows, PaymentStatuses
    <3>4. payment' = [payment EXCEPT ![p] = row]
      BY <3>1, <3>2
    <3> HIDE DEF row
    <3> QED BY <3>2, <3>3, <3>4
  <2>4. TypeOK'
    BY <2>1, <2>2, <2>3, EndTyped
    DEF OrderCommit, TypeInv, TypeOK, bookingVars, paymentLedger, gatewayVars
  <2> QED BY <2>1, <2>2, <2>4, EndStartsNone, UnchangedKeeps, OrderKept
      DEF OrderCommit, TypeInv, bookingVars
<1> QED BY <1>1, <1>2

(* The gateway's reports: a capture confirms its booking and nothing else. *)
LEMMA ConfirmTyped ==
  ASSUME TypeInv, NEW r \in Requests,
         \/ \E p \in Payments, s \in Sources : ConfirmRead(r, p, s)
         \/ ConfirmReplay(r) \/ ConfirmOrphan(r) \/ ConfirmCapture(r)
  PROVE  TypeInv'
<1>1. CASE \E p \in Payments, s \in Sources : ConfirmRead(r, p, s)
  <2>1. PICK p \in Payments, s \in Sources : ConfirmRead(r, p, s)
    BY <1>1
  <2>2. PICK b \in payment[p].booking :
          Begin(r, [kind |-> "confirm", payment |-> p, source |-> s,
                    status |-> booking[b].status, endsAt |-> booking[b].endsAt])
    BY <2>1 DEF ConfirmRead
  <2> DEFINE command == [kind |-> "confirm", payment |-> p, source |-> s,
                         status |-> booking[b].status, endsAt |-> booking[b].endsAt]
  <2>3. b \in Bookings
    BY DEF TypeInv, TypeOK, PaymentRows
  <2>4. command \in CommandRecords /\ Begin(r, command) /\ command.kind # "extend"
    BY <2>2, <2>3 DEF CommandRecords, TypeInv, TypeOK, BookingRows
  <2> HIDE DEF command
  <2>5. TypeOK'
    BY <2>1, <2>4, BeginTyped
    DEF ConfirmRead, TypeInv, TypeOK, bookingVars, paymentVars, paymentLedger, gatewayVars
  <2> QED BY <2>1, <2>4, <2>5, BeginStartsNone, UnchangedKeeps, OrderKept
      DEF ConfirmRead, TypeInv, bookingVars
<1>2. ASSUME request[r].kind = "confirm", Reported(r)
      PROVE  /\ End(r)
             /\ request[r].payment \in Payments
             /\ request[r].endsAt \in Times
             /\ reported' \subseteq Payments \X Sources
             /\ UNCHANGED <<now, paid>>
  BY <1>2, CommandFields DEF Reported, TypeInv, TypeOK
<1>3. CASE ConfirmReplay(r)
  <2>1. TypeOK'
    BY <1>2, <1>3, EndTyped
    DEF ConfirmReplay, TypeInv, TypeOK, bookingVars, paymentVars, paymentLedger
  <2> QED BY <1>2, <1>3, <2>1, EndStartsNone, UnchangedKeeps, OrderKept
      DEF ConfirmReplay, TypeInv, bookingVars
<1>4. CASE ConfirmOrphan(r)
  <2>1. jobs' \subseteq Messages
    BY <1>2, <1>4 DEF ConfirmOrphan, TypeInv, TypeOK, Messages
  <2>2. TypeOK'
    BY <1>2, <1>4, <2>1, EndTyped
    DEF ConfirmOrphan, TypeInv, TypeOK, bookingVars, paymentVars, paymentLedger
  <2> QED BY <1>2, <1>4, <2>2, EndStartsNone, UnchangedKeeps, OrderKept
      DEF ConfirmOrphan, TypeInv, bookingVars
<1>5. CASE ConfirmCapture(r)
  <2> DEFINE p == request[r].payment
  <2>1. /\ End(r)
        /\ p \in Payments
        /\ request[r].endsAt \in Times
        /\ reported' \subseteq Payments \X Sources
        /\ UNCHANGED <<now, paid>>
    BY <1>2, <1>5 DEF ConfirmCapture
  <2>2. PICK b \in payment[p].booking :
          /\ booking' = [booking EXCEPT ![b].status = "confirmed"]
          /\ jobs' = jobs \cup {[job |-> "complete", ref |-> b,
                                   at |-> CompletionDue(request[r].endsAt)]}
    BY <1>5, PayConfirms DEF ConfirmCapture
  <2>3. b \in Bookings
    BY <2>1 DEF TypeInv, TypeOK, PaymentRows
  <2>4. booking' \in [Bookings -> BookingRows]
    BY <2>2, <2>3, StatusSet DEF TypeInv, TypeOK, Lifecycle!Statuses
  <2>5. jobs' \subseteq Messages
    BY <2>1, <2>2, <2>3 DEF TypeInv, TypeOK, Messages, CompletionDue
  <2>6. payment' \in [Payments -> PaymentRows]
    <3>1. payment' = [payment EXCEPT ![p].status = "captured", ![p].capturedAt = now]
      BY <1>5 DEF ConfirmCapture
    <3>2. payment \in [Payments -> PaymentRows] /\ now \in Times
      BY DEF TypeInv, TypeOK
    <3> DEFINE row == [payment[p] EXCEPT !.status = "captured", !.capturedAt = now]
    <3>3. row \in PaymentRows
      <4>1. payment[p] \in PaymentRows
        BY <2>1, <3>2
      <4> QED BY <3>2, <4>1 DEF PaymentRows, PaymentStatuses
    <3>4. payment' = [payment EXCEPT ![p] = row]
      BY <2>1, <3>1, <3>2
    <3> HIDE DEF row
    <3> QED BY <3>2, <3>3, <3>4
  <2>7. discharged' \in [Payments -> Nat] /\ UNCHANGED reopened
    BY <1>5, <2>1 DEF ConfirmCapture, TypeInv, TypeOK
  <2>8. TypeOK'
    BY <1>5, <2>1, <2>4, <2>5, <2>6, <2>7, EndTyped
    DEF ConfirmCapture, TypeInv, TypeOK
  <2>9. BookingsKept
    BY <2>2, <2>3, StatusSet DEF TypeInv, TypeOK, Lifecycle!Statuses
  <2> QED BY <2>1, <2>8, <2>9, EndStartsNone, OrderKept DEF TypeInv
<1> QED BY <1>1, <1>3, <1>4, <1>5

(* Checking in writes a status into each of the two rows. *)
LEMMA CheckInTyped ==
  ASSUME TypeInv, NEW r \in Requests,
         (\E b \in Bookings : CheckInRead(r, b)) \/ CheckInCommit(r)
  PROVE  TypeInv'
<1>1. CASE \E b \in Bookings : CheckInRead(r, b)
  <2>1. PICK b \in Bookings : CheckInRead(r, b)
    BY <1>1
  <2> DEFINE command == [kind |-> "check_in", booking |-> b, endsAt |-> booking[b].endsAt]
  <2>2. command \in CommandRecords /\ Begin(r, command) /\ command.kind # "extend"
    BY <2>1 DEF CheckInRead, CommandRecords, TypeInv, TypeOK, BookingRows
  <2> HIDE DEF command
  <2>3. TypeOK'
    BY <2>1, <2>2, BeginTyped
    DEF CheckInRead, TypeInv, TypeOK, bookingVars, paymentVars, paymentLedger, gatewayVars
  <2> QED BY <2>1, <2>2, <2>3, BeginStartsNone, UnchangedKeeps, OrderKept
      DEF CheckInRead, TypeInv, bookingVars
<1>2. CASE CheckInCommit(r)
  <2> DEFINE b == request[r].booking
  <2>1. b \in Bookings /\ request[r].endsAt \in Times /\ End(r)
    BY <1>2, CommandFields DEF CheckInCommit, TypeInv
  <2>2. /\ booking' = [booking EXCEPT ![b].status = "active"]
        /\ slot' = [slot EXCEPT ![b] = [slot[b] EXCEPT !.status = "active"]]
        /\ jobs' = jobs \cup {[job |-> "complete", ref |-> b, at |-> CompletionDue(request[r].endsAt)]}
    BY <1>2 DEF CheckInCommit
  <2>3. booking' \in [Bookings -> BookingRows] /\ BookingsKept
    BY <2>1, <2>2, StatusSet DEF Lifecycle!Statuses
  <2>4. slot' \in [Bookings -> SlotRows]
    BY <2>1, <2>2 DEF TypeInv, TypeOK, SlotRows, SlotStatuses
  <2>5. jobs' \subseteq Messages
    BY <2>1, <2>2 DEF TypeInv, TypeOK, Messages, CompletionDue
  <2>6. TypeOK'
    BY <1>2, <2>1, <2>3, <2>4, <2>5, EndTyped
    DEF CheckInCommit, TypeInv, TypeOK, paymentVars, paymentLedger, gatewayVars
  <2> QED BY <2>1, <2>3, <2>6, EndStartsNone, OrderKept DEF TypeInv
<1> QED BY <1>1, <1>2

LEMMA ExtensionAdds ==
  ASSUME TypeInv, NEW r \in Requests, request[r].kind = "extend"
  PROVE  /\ ExtensionDelta(r) \in Nat
         /\ booking[request[r].booking].from < request[r].newEndsAt
<1> DEFINE from == booking[request[r].booking].from
           span == request[r].currentEndsAt - from
           newSpan == request[r].newEndsAt - from
           rate == request[r].rate
<1>1. /\ request[r].booking \in Bookings /\ rate \in Rates
      /\ request[r].currentEndsAt \in Times /\ request[r].newEndsAt \in Times
  BY CommandFields DEF TypeInv
<1>2. rate \in Nat /\ Unit \in Nat \ {0} /\ MaxTime \in Nat
  BY <1>1, ParkingBookingAssumption
<1>3. from \in Times
  BY <1>1 DEF TypeInv, TypeOK, BookingRows
<1>4. from =< request[r].currentEndsAt /\ request[r].currentEndsAt < request[r].newEndsAt
  BY DEF TypeInv, ExtensionsForward
<1> HIDE DEF from
<1>5. span \in Nat /\ newSpan \in Nat /\ span =< newSpan /\ from < request[r].newEndsAt
  BY <1>1, <1>2, <1>3, <1>4 DEF Times
<1>6. ExtensionDelta(r) = ExtensionBase(rate, span, newSpan, Unit)
  BY DEF ExtensionDelta, from
<1> HIDE DEF span, newSpan, rate
<1>7. ExtensionBase(rate, span, newSpan, Unit) \in Nat
  BY <1>2, <1>5, ExtensionIsDifference
<1> QED BY <1>5, <1>6, <1>7 DEF from

(* Extending is where the two ordering facts are needed: the stay up to the *)
(* new end costs no less than the stay up to the end that was read,         *)
(* whatever the row has become.                                             *)
LEMMA ExtendTyped ==
  ASSUME TypeInv, NEW r \in Requests,
         (\E b \in Bookings, t \in Times : ExtendRead(r, b, t)) \/ ExtendCommit(r)
  PROVE  TypeInv'
<1>1. CASE \E b \in Bookings, t \in Times : ExtendRead(r, b, t)
  <2>1. PICK b \in Bookings, t \in Times : ExtendRead(r, b, t)
    BY <1>1
  <2>2. PICK rate \in Rates :
          Begin(r, [kind |-> "extend", booking |-> b, rate |-> rate,
                    currentEndsAt |-> booking[b].endsAt, newEndsAt |-> t])
    BY <2>1 DEF ExtendRead
  <2> DEFINE command == [kind |-> "extend", booking |-> b, rate |-> rate,
                         currentEndsAt |-> booking[b].endsAt, newEndsAt |-> t]
  <2>3. command \in CommandRecords /\ Begin(r, command)
    BY <2>2 DEF CommandRecords, TypeInv, TypeOK, BookingRows
  <2>4. TypeOK'
    <3> HIDE DEF command
    <3> QED BY <2>1, <2>3, BeginTyped
        DEF ExtendRead, TypeInv, TypeOK, bookingVars, paymentVars, paymentLedger, gatewayVars
  <2>5. /\ booking[b].status # "none" /\ booking[b].endsAt < t
        /\ booking[b].from =< booking[b].endsAt
    <3>1. booking[b].endsAt \in Int /\ t \in Int
      BY ParkingBookingAssumption DEF TypeInv, TypeOK, BookingRows, Times
    <3> QED BY <2>1, <3>1 DEF ExtendRead, CanExtend, Live, TypeInv, WindowsOrdered
  <2>6. UNCHANGED booking
    BY <2>1 DEF ExtendRead, bookingVars
  <2>7. \A q \in Requests : request'[q] = IF q = r THEN command ELSE request[q]
    BY <2>3 DEF Begin, TypeInv, TypeOK
  <2>8. ExtensionsForward'
    BY <2>5, <2>6, <2>7 DEF TypeInv, ExtensionsForward
  <2> QED BY <2>4, <2>6, <2>8 DEF TypeInv, WindowsOrdered
<1>2. CASE ExtendCommit(r)
  <2> DEFINE b == request[r].booking
             t == request[r].newEndsAt
             delta == ExtensionDelta(r)
             paise == DriverTotal(b, delta)
  <2>1. b \in Bookings /\ t \in Times /\ delta \in Nat /\ paise \in Nat /\ End(r)
    <3>1. b \in Bookings /\ t \in Times /\ delta \in Nat
      BY <1>2, CommandFields, ExtensionAdds DEF ExtendCommit, TypeInv
    <3> HIDE DEF delta
    <3>2. paise \in Nat
      BY <3>1, DriverPays
    <3> QED BY <1>2, <3>1, <3>2 DEF ExtendCommit
  <2>2. booking[b].from < t
    BY <1>2, ExtensionAdds DEF ExtendCommit
  <2>3. /\ booking' = [booking EXCEPT ![b].endsAt = t, ![b].base = @ + delta, ![b].total = @ + paise]
        /\ slot' = [slot EXCEPT ![b] = [slot[b] EXCEPT !.to = t]]
        /\ receivable' = [receivable EXCEPT ![b] = @ + paise]
    BY <1>2 DEF ExtendCommit, NewEnd
  <2>4. booking \in [Bookings -> BookingRows]
    BY DEF TypeInv, TypeOK
  <2> HIDE DEF b, t, delta, paise
  <2>5. booking' \in [Bookings -> BookingRows]
    <3> DEFINE row == [booking[b] EXCEPT !.endsAt = t, !.base = booking[b].base + delta,
                                         !.total = booking[b].total + paise]
    <3>1. booking[b].base + delta \in Nat /\ booking[b].total + paise \in Nat
      BY <2>1, <2>4 DEF BookingRows
    <3>2. booking' = [booking EXCEPT ![b] = row]
      BY <2>1, <2>3, <2>4
    <3>3. row \in BookingRows
      BY <2>1, <2>4, <3>1 DEF BookingRows
    <3> HIDE DEF row
    <3> QED BY <2>4, <3>2, <3>3
  <2>6. \A c \in Bookings :
          /\ booking'[c].status = booking[c].status /\ booking'[c].from = booking[c].from
          /\ booking'[c].endsAt = IF c = b THEN t ELSE booking[c].endsAt
    BY <2>1, <2>3, <2>4 DEF BookingRows
  <2>7. BookingsKept
    <3>1. booking[b].from \in 0..MaxTime /\ t \in 0..MaxTime
      BY <2>1, <2>4 DEF BookingRows, Times
    <3>2. booking[b].from =< t
      BY <2>2, <3>1
    <3> QED BY <2>6, <3>2 DEF BookingsKept, TypeInv, WindowsOrdered
  <2>8. slot' \in [Bookings -> SlotRows]
    BY <2>1, <2>3 DEF TypeInv, TypeOK, SlotRows
  <2>9. receivable' \in [Bookings -> Int]
    BY <2>1, <2>3 DEF TypeInv, TypeOK
  <2>10. TypeOK'
    BY <1>2, <2>1, <2>5, <2>8, <2>9, EndTyped
    DEF ExtendCommit, TypeInv, TypeOK, paymentVars, paymentLedger, gatewayVars
  <2> QED BY <2>1, <2>7, <2>10, EndStartsNone, OrderKept DEF TypeInv
<1> QED BY <1>1, <1>2

(* A refund changes one payment's row, by a reason the policy has.          *)
LEMMA RefundedRow ==
  ASSUME TypeOK, NEW p \in Payments, NEW amount \in Nat, NEW reason \in RefundReasons,
         NEW fully \in BOOLEAN, Refunded(p, amount, reason, fully)
  PROVE  /\ payment' \in [Payments -> PaymentRows]
         /\ \A q \in Payments \ {p} : payment'[q] = payment[q]
         /\ payment[p].status \in { "captured", "partially_refunded" }
         /\ payment'[p].status \in { "refunded", "partially_refunded" }
         /\ payment'[p].booking = payment[p].booking
         /\ payment'[p].amount = payment[p].amount
         /\ payment'[p].refunded = payment[p].refunded + amount
         /\ payment'[p].refunded =< payment[p].amount
         /\ payment'[p].reasons = payment[p].reasons \cup {reason}
<1> DEFINE status == IF fully THEN "refunded" ELSE "partially_refunded"
           row == [payment[p] EXCEPT !.status = status,
                                     !.refunded = payment[p].refunded + amount,
                                     !.reasons = payment[p].reasons \cup {reason}]
<1>1. payment \in [Payments -> PaymentRows]
  BY DEF TypeOK
<1>2. payment' = [payment EXCEPT ![p] = row]
  BY <1>1 DEF Refunded
<1>3. status \in { "refunded", "partially_refunded" }
  OBVIOUS
<1> HIDE DEF status
<1>4. /\ row \in PaymentRows
      /\ row.status = status
      /\ row.booking = payment[p].booking
      /\ row.amount = payment[p].amount
      /\ row.refunded = payment[p].refunded + amount
      /\ row.reasons = payment[p].reasons \cup {reason}
  <2>1. payment[p] \in PaymentRows
    BY <1>1
  <2>2. payment[p].refunded + amount \in Nat
    BY <2>1 DEF PaymentRows
  <2>3. status \in PaymentStatuses
    BY <1>3 DEF PaymentStatuses
  <2> QED BY <2>1, <2>2, <2>3 DEF PaymentRows
<1>5. /\ payment[p].status \in { "captured", "partially_refunded" }
      /\ payment[p].refunded + amount =< payment[p].amount
  BY DEF Refunded, WithinCapture
<1> HIDE DEF row
<1>6. payment'[p] = row /\ \A q \in Payments \ {p} : payment'[q] = payment[q]
  BY <1>1, <1>2
<1>7. payment' \in [Payments -> PaymentRows]
  BY <1>1, <1>2, <1>4
<1> QED BY <1>3, <1>4, <1>5, <1>6, <1>7

(* What a cancellation gives back, on the row as it stands at the commit.   *)
LEMMA CancelOutcomeTyped ==
  ASSUME TypeOK, NEW r \in Requests, request[r].kind = "cancel"
  PROVE  CancelOutcome(r).refund \in Nat /\ CancelOutcome(r).tier \in RefundReasons
<1> DEFINE row == booking[request[r].booking]
<1>1. request[r].booking \in Bookings /\ request[r].by \in Cancellers /\ request[r].at \in Times
  BY CommandFields
<1>2. row \in BookingRows
  BY <1>1 DEF TypeOK
<1>3. row.total \in Nat /\ row.from \in Int /\ request[r].at \in Int
  BY <1>1, <1>2, ParkingBookingAssumption DEF BookingRows, Times
<1> DEFINE o == ResolveRefund(row.total, row.from, request[r].at, request[r].by)
<1>4. o.refund \in 0..row.total /\ o.tier \in Tiers
  BY <1>1, <1>3, RefundPolicyAssumption
  DEF ResolveRefund, Outcome, HalfUp, Lesser, Tiers
<1>5. CancelOutcome(r) = o
  BY DEF CancelOutcome
<1> QED BY <1>3, <1>4, <1>5 DEF RefundReasons

LEMMA CancelledRow ==
  ASSUME TypeInv, NEW r \in Requests, request[r].kind = "cancel", Cancelled(r)
  PROVE  /\ request[r].booking \in Bookings
         /\ booking' = [booking EXCEPT ![request[r].booking].status = "cancelled"]
         /\ booking' \in [Bookings -> BookingRows]
         /\ BookingsKept
         /\ slot' \in [Bookings -> SlotRows]
         /\ End(r)
<1> DEFINE b == request[r].booking
<1>1. b \in Bookings
  BY CommandFields DEF TypeInv
<1>2. /\ booking' = [booking EXCEPT ![b].status = "cancelled"]
      /\ slot' = [slot EXCEPT ![b].status = "released"]
      /\ End(r)
  BY CancelCancels DEF Cancelled, Release
<1>3. booking' \in [Bookings -> BookingRows] /\ BookingsKept
  BY <1>1, <1>2, StatusSet DEF Lifecycle!Statuses
<1>4. slot' \in [Bookings -> SlotRows]
  BY <1>1, <1>2 DEF TypeInv, TypeOK, SlotRows, SlotStatuses
<1> QED BY <1>1, <1>2, <1>3, <1>4

LEMMA CancelTyped ==
  ASSUME TypeInv, NEW r \in Requests,
         \/ \E b \in Bookings, by \in Cancellers : CancelRead(r, b, by)
         \/ CancelUnpaid(r) \/ CancelPaid(r)
  PROVE  TypeInv'
<1>1. CASE \E b \in Bookings, by \in Cancellers : CancelRead(r, b, by)
  <2>1. PICK b \in Bookings, by \in Cancellers : CancelRead(r, b, by)
    BY <1>1
  <2>2. PICK p \in Payments \cup {NoPayment} :
          Begin(r, [kind |-> "cancel", booking |-> b, by |-> by, at |-> now, payment |-> p])
    BY <2>1 DEF CancelRead, LockedForRefund, Refundable
  <2> DEFINE command == [kind |-> "cancel", booking |-> b, by |-> by, at |-> now, payment |-> p]
  <2>3. command \in CommandRecords /\ Begin(r, command) /\ command.kind # "extend"
    BY <2>2 DEF CommandRecords, TypeInv, TypeOK
  <2> HIDE DEF command
  <2>4. TypeOK'
    BY <2>1, <2>3, BeginTyped
    DEF CancelRead, TypeInv, TypeOK, bookingVars, paymentVars, paymentLedger, gatewayVars
  <2> QED BY <2>1, <2>3, <2>4, BeginStartsNone, UnchangedKeeps, OrderKept
      DEF CancelRead, TypeInv, bookingVars
<1>2. CASE CancelUnpaid(r)
  <2>1. /\ request[r].booking \in Bookings /\ End(r) /\ BookingsKept
        /\ booking' \in [Bookings -> BookingRows] /\ slot' \in [Bookings -> SlotRows]
    BY <1>2, CancelledRow DEF CancelUnpaid
  <2>2. receivable' \in [Bookings -> Int]
    BY <1>2, <2>1 DEF CancelUnpaid, ReverseReceivable, TypeInv, TypeOK, BookingRows
  <2>3. TypeOK'
    BY <1>2, <2>1, <2>2, EndTyped
    DEF CancelUnpaid, Cancelled, TypeInv, TypeOK, paymentLedger, gatewayVars
  <2> QED BY <2>1, <2>3, EndStartsNone, OrderKept DEF TypeInv
<1>3. CASE CancelPaid(r)
  <2>1. /\ request[r].booking \in Bookings /\ End(r) /\ BookingsKept
        /\ booking' \in [Bookings -> BookingRows] /\ slot' \in [Bookings -> SlotRows]
    BY <1>3, CancelledRow DEF CancelPaid
  <2>2. CancelOutcome(r).refund \in Nat /\ CancelOutcome(r).tier \in RefundReasons
    BY <1>3, CancelOutcomeTyped DEF CancelPaid, TypeInv
  <2>3. payment' \in [Payments -> PaymentRows]
    <3>1. CASE UNCHANGED payment
      BY <3>1 DEF TypeInv, TypeOK
    <3>2. CASE \E fully \in BOOLEAN :
                 Refunded(request[r].payment, CancelOutcome(r).refund, CancelOutcome(r).tier, fully)
      BY <1>3, <2>2, <3>2, RefundedRow DEF CancelPaid, TypeInv
    <3> QED BY <1>3, <3>1, <3>2 DEF CancelPaid
  <2>4. TypeOK'
    BY <1>3, <2>1, <2>3, EndTyped
    DEF CancelPaid, Cancelled, TypeInv, TypeOK, paymentLedger, gatewayVars
  <2> QED BY <2>1, <2>4, EndStartsNone, OrderKept DEF TypeInv
<1> QED BY <1>1, <1>2, <1>3

(* An administrator's refund, and what it is made of. *)
LEMMA AdminRefundRow ==
  ASSUME TypeOK, NEW b \in Bookings, NEW option, AdminRefund(b, option)
  PROVE  \E p \in Payments, amount \in Nat, fully \in BOOLEAN :
           Refunded(p, amount, "admin", fully)
<1> DEFINE left(p) == RefundableOf(payment[p].amount, payment[p].refunded, payment[p].reasons)
<1>1. PICK p \in LockedForRefund(b) :
        \E amount \in AdminRefundAmounts(option, left(p)) :
          Refunded(p, amount, "admin", amount = left(p))
  BY DEF AdminRefund
<1>2. PICK amount \in AdminRefundAmounts(option, left(p)) :
        Refunded(p, amount, "admin", amount = left(p))
  BY <1>1
<1>3. p \in Payments
  BY DEF LockedForRefund, Refundable
<1>4. left(p) \in Int
  BY <1>3 DEF RefundableOf, TypeOK, PaymentRows
<1>5. amount \in Nat
  BY <1>4 DEF AdminRefundAmounts
<1> HIDE DEF left
<1>6. (amount = left(p)) \in BOOLEAN
  OBVIOUS
<1> QED BY <1>2, <1>3, <1>5, <1>6

LEMMA PaymentTyped ==
  ASSUME TypeInv,
         \/ \E b \in Bookings, option \in Presets \cup {"custom"} : AdminRefund(b, option)
         \/ \E p \in Payments : Fail(p)
         \/ \E p \in Payments : Pay(p)
  PROVE  TypeInv'
<1>1. CASE \E b \in Bookings, option \in Presets \cup {"custom"} : AdminRefund(b, option)
  <2>1. PICK b \in Bookings, option \in Presets \cup {"custom"} : AdminRefund(b, option)
    BY <1>1
  <2>2. payment' \in [Payments -> PaymentRows]
    BY <2>1, AdminRefundRow, RefundedRow DEF TypeInv, RefundReasons
  <2>3. TypeOK'
    BY <2>1, <2>2 DEF AdminRefund, TypeInv, TypeOK, bookingVars, paymentLedger, gatewayVars
  <2> QED BY <2>1, <2>3, UnchangedKeeps, OrderKept
      DEF AdminRefund, NoNewExtension, bookingVars
<1>2. CASE \E p \in Payments : Fail(p)
  <2>1. PICK p \in Payments : Fail(p)
    BY <1>2
  <2>2. payment' \in [Payments -> PaymentRows]
    BY <2>1 DEF Fail, TypeInv, TypeOK, PaymentRows, PaymentStatuses
  <2>3. TypeOK'
    BY <2>1, <2>2 DEF Fail, TypeInv, TypeOK, bookingVars, paymentLedger, gatewayVars
  <2> QED BY <2>1, <2>3, UnchangedKeeps, OrderKept
      DEF Fail, NoNewExtension, bookingVars
<1>3. CASE \E p \in Payments : Pay(p)
  <2>1. TypeOK'
    BY <1>3 DEF Pay, TypeInv, TypeOK, bookingVars, paymentVars, paymentLedger
  <2> QED BY <1>3, <2>1, UnchangedKeeps, OrderKept
      DEF Pay, NoNewExtension, bookingVars
<1> QED BY <1>1, <1>2, <1>3

LEMMA AbandonTyped ==
  ASSUME TypeInv, NEW r \in Requests, Abandon(r)
  PROVE  TypeInv'
<1>1. TypeOK'
  BY EndTyped DEF Abandon, TypeInv, TypeOK, bookingVars, paymentVars, paymentLedger, gatewayVars
<1> QED BY <1>1, EndStartsNone, UnchangedKeeps, OrderKept
    DEF Abandon, TypeInv, bookingVars

LEMMA TickTyped ==
  ASSUME TypeInv, Tick
  PROVE  TypeInv'
<1>1. now' \in Times
  BY ParkingBookingAssumption DEF Tick, TypeInv, TypeOK, Times
<1>2. TypeOK'
  BY <1>1 DEF Tick, TypeInv, TypeOK, bookingVars, paymentVars, paymentLedger, gatewayVars
<1> QED BY <1>2, UnchangedKeeps, OrderKept DEF Tick, NoNewExtension, bookingVars

(* What an orphan's refund writes, if it writes. *)
LEMMA OrphanRow ==
  ASSUME TypeOK, NEW m \in jobs, NEW ack \in BOOLEAN, Orphan(m, ack)
  PROVE  /\ m.ref \in Payments
         /\ \/ ~ OrphanRefundDue(m.ref) /\ UNCHANGED payment
            \/ /\ payment' \in [Payments -> PaymentRows]
               /\ \A q \in Payments \ {m.ref} : payment'[q] = payment[q]
               /\ payment'[m.ref].status = "refunded"
               /\ payment'[m.ref].booking = payment[m.ref].booking
               /\ payment'[m.ref].amount = payment[m.ref].amount
               /\ payment'[m.ref].refunded = payment[m.ref].amount
               /\ payment'[m.ref].reasons = payment[m.ref].reasons \cup {"orphan_capture"}
<1> DEFINE p == m.ref
           at == IF payment[p].status = "captured" THEN payment[p].capturedAt ELSE now
           row == [payment[p] EXCEPT !.status = "refunded", !.capturedAt = at,
                                     !.refunded = payment[p].amount,
                                     !.reasons = payment[p].reasons \cup {"orphan_capture"}]
<1>1. p \in Payments
  BY MessageFields DEF Orphan
<1>2. payment[p] \in PaymentRows /\ payment \in [Payments -> PaymentRows] /\ now \in Times
  BY <1>1 DEF TypeOK
<1>3. at \in Times
  BY <1>2 DEF PaymentRows
<1>4. CASE ~ OrphanRefundDue(p)
  BY <1>1, <1>4 DEF Orphan, paymentVars, paymentLedger
<1>5. CASE OrphanRefundDue(p)
  <2>1. payment' = [payment EXCEPT ![p] = row]
    BY <1>1, <1>2, <1>5 DEF Orphan, OrphanRefundReason
  <2> HIDE DEF at
  <2>2. row \in PaymentRows
    BY <1>2, <1>3 DEF PaymentRows, PaymentStatuses, RefundReasons
  <2>3. /\ row.status = "refunded" /\ row.booking = payment[p].booking
        /\ row.amount = payment[p].amount /\ row.refunded = payment[p].amount
        /\ row.reasons = payment[p].reasons \cup {"orphan_capture"}
    BY <1>2 DEF PaymentRows
  <2> HIDE DEF row
  <2>4. payment'[p] = row /\ \A q \in Payments \ {p} : payment'[q] = payment[q]
    BY <1>1, <1>2, <2>1
  <2>5. payment' \in [Payments -> PaymentRows]
    BY <1>2, <2>1, <2>2
  <2> QED BY <1>1, <2>3, <2>4, <2>5
<1> QED BY <1>4, <1>5

LEMMA WorkerTyped ==
  ASSUME TypeInv, NEW m \in jobs, NEW ack \in BOOLEAN,
         Expire(m, ack) \/ Complete(m, ack) \/ Orphan(m, ack)
  PROVE  TypeInv'
<1>1. jobs' \subseteq Messages
  BY DEF Expire, Complete, Orphan, Acknowledge, TypeInv, TypeOK
<1>2. NoNewExtension
  BY DEF Expire, Complete, Orphan, NoNewExtension
<1>3. CASE Expire(m, ack) /\ AwaitsPayment(m.ref)
  <2>1. m.ref \in Bookings
    BY <1>3, MessageFields DEF Expire, TypeInv
  <2>2. /\ booking' = [booking EXCEPT ![m.ref].status = "cancelled"]
        /\ slot' = [slot EXCEPT ![m.ref].status = "released"]
        /\ receivable' = [receivable EXCEPT ![m.ref] = @ - booking[m.ref].total]
    BY <1>3 DEF Expire, Release, ReverseReceivable
  <2>3. booking' \in [Bookings -> BookingRows] /\ BookingsKept
    BY <2>1, <2>2, StatusSet DEF Lifecycle!Statuses
  <2>4. slot' \in [Bookings -> SlotRows]
    BY <2>1, <2>2 DEF TypeInv, TypeOK, SlotRows, SlotStatuses
  <2>5. receivable' \in [Bookings -> Int]
    BY <2>1, <2>2 DEF TypeInv, TypeOK, BookingRows
  <2>6. TypeOK'
    BY <1>1, <1>3, <2>3, <2>4, <2>5 DEF Expire, TypeInv, TypeOK, paymentVars, paymentLedger, gatewayVars
  <2> QED BY <1>2, <2>3, <2>6, OrderKept
<1>4. CASE Expire(m, ack) /\ ~ AwaitsPayment(m.ref)
  <2>1. TypeOK'
    BY <1>1, <1>4 DEF Expire, TypeInv, TypeOK, bookingVars, paymentVars, paymentLedger, gatewayVars
  <2> QED BY <1>2, <1>4, <2>1, UnchangedKeeps, OrderKept DEF Expire, bookingVars
<1>5. CASE Complete(m, ack) /\ booking[m.ref].status = "active"
  <2>1. m.ref \in Bookings
    BY <1>5, MessageFields DEF Complete, TypeInv
  <2>2. /\ booking' = [booking EXCEPT ![m.ref].status = "completed"]
        /\ slot' = [slot EXCEPT ![m.ref].status = "released"]
    BY <1>5 DEF Complete, Release
  <2>3. booking' \in [Bookings -> BookingRows] /\ BookingsKept
    BY <2>1, <2>2, StatusSet DEF Lifecycle!Statuses
  <2>4. slot' \in [Bookings -> SlotRows]
    BY <2>1, <2>2 DEF TypeInv, TypeOK, SlotRows, SlotStatuses
  <2>5. TypeOK'
    BY <1>1, <1>5, <2>3, <2>4 DEF Complete, TypeInv, TypeOK, paymentVars, paymentLedger, gatewayVars
  <2> QED BY <1>2, <2>3, <2>5, OrderKept
<1>6. CASE Complete(m, ack) /\ booking[m.ref].status # "active"
  <2>1. TypeOK'
    BY <1>1, <1>6 DEF Complete, TypeInv, TypeOK, paymentVars, paymentLedger, gatewayVars
  <2> QED BY <1>2, <1>6, <2>1, UnchangedKeeps, OrderKept DEF Complete
<1>7. CASE Orphan(m, ack)
  <2>1. payment' \in [Payments -> PaymentRows]
    BY <1>7, OrphanRow DEF TypeInv, TypeOK
  <2>2. discharged' \in [Payments -> Nat] /\ reopened' \in [Payments -> Nat]
    <3>1. /\ m.ref \in Payments /\ payment[m.ref].amount \in Nat
          /\ discharged \in [Payments -> Nat] /\ reopened \in [Payments -> Nat]
      BY <1>7, OrphanRow DEF TypeInv, TypeOK, PaymentRows
    <3>2. \/ /\ discharged' = [discharged EXCEPT ![m.ref] = @ + 1]
             /\ reopened' = [reopened EXCEPT ![m.ref] = @ + payment[m.ref].amount]
          \/ UNCHANGED <<discharged, reopened>>
      BY <1>7 DEF Orphan, paymentVars, paymentLedger
    <3> QED BY <3>1, <3>2
  <2>3. TypeOK'
    BY <1>1, <1>7, <2>1, <2>2 DEF Orphan, TypeInv, TypeOK, bookingVars, gatewayVars
  <2> QED BY <1>2, <1>7, <2>3, UnchangedKeeps, OrderKept DEF Orphan, bookingVars
<1> QED BY <1>3, <1>4, <1>5, <1>6, <1>7

LEMMA StutterTyped ==
  ASSUME TypeInv, UNCHANGED vars
  PROVE  TypeInv'
<1>1. TypeOK'
  BY DEF TypeInv, TypeOK, vars, bookingVars, paymentVars, paymentLedger, gatewayVars
<1> QED BY <1>1, UnchangedKeeps, OrderKept DEF NoNewExtension, vars, bookingVars

-----------------------------------------------------------------------------
(* Every step of the system keeps its types. *)
LEMMA TypeStep == TypeInv /\ [Next]_vars => TypeInv'
<1> SUFFICES ASSUME TypeInv, [Next]_vars PROVE TypeInv'
  OBVIOUS
<1>1. CASE Driver
  BY <1>1, CreateTyped, OrderTyped, CheckInTyped, ExtendTyped, CancelTyped, PaymentTyped
  DEF Driver
<1>2. CASE Gateway
  BY <1>2, PaymentTyped, ConfirmTyped DEF Gateway
<1>3. CASE Worker
  BY <1>3, WorkerTyped DEF Worker
<1>4. CASE Tick
  BY <1>4, TickTyped
<1>5. CASE \E r \in Requests : Commit(r) \/ Abandon(r)
  BY <1>5, OrderTyped, ConfirmTyped, CheckInTyped, ExtendTyped, CancelTyped, AbandonTyped
  DEF Commit
<1>6. CASE UNCHANGED vars
  BY <1>6, StutterTyped
<1> QED BY <1>1, <1>2, <1>3, <1>4, <1>5, <1>6 DEF Next

(* The rows keep their shapes in every behaviour. *)
THEOREM TypeCorrect == Spec => []TypeOK
<1>1. TypeInv => TypeOK
  BY DEF TypeInv
<1> QED BY <1>1, TypeInit, TypeStep, PTL DEF Spec

(* Every window ends no earlier than it starts, and an extension in flight  *)
(* moves an end that comes after its booking's start to a later one.        *)
THEOREM TypeInvariant == Spec => []TypeInv
BY TypeInit, TypeStep, PTL DEF Spec
-----------------------------------------------------------------------------

(* Giving a slot up, and writing a row the exclusion constraint admits, are *)
(* the two ways a booked slot changes once it is allocated.                 *)
LEMMA ReleasedExclusive ==
  ASSUME TypeOK, SlotExclusive, NEW b \in Bookings,
         slot' = [slot EXCEPT ![b].status = "released"]
  PROVE  SlotExclusive'
<1>1. slot \in [Bookings -> SlotRows]
  BY DEF TypeOK
<1>2. /\ ~ Occupies(slot'[b])
      /\ \A c \in Bookings \ {b} : slot'[c] = slot[c]
  BY <1>1 DEF Occupies, SlotRows
<1> QED BY <1>2 DEF SlotExclusive

LEMMA AdmittedExclusive ==
  ASSUME TypeOK, SlotExclusive, NEW b \in Bookings, NEW row, Admits(b, row),
         slot' = [slot EXCEPT ![b] = row]
  PROVE  SlotExclusive'
<1>1. slot'[b] = row /\ \A c \in Bookings \ {b} : slot'[c] = slot[c]
  BY DEF TypeOK
<1>2. ASSUME NEW c \in Bookings \ {b}, Occupies(row), Occupies(slot[c]), row.index = slot[c].index
      PROVE  ~ Overlap(row.from, row.to, slot[c]) /\ ~ Overlap(slot[c].from, slot[c].to, row)
  BY <1>2 DEF Admits, Overlap
<1>3. ASSUME NEW c \in Bookings, NEW d \in Bookings, c # d,
             Occupies(slot'[c]), Occupies(slot'[d]), slot'[c].index = slot'[d].index
      PROVE  ~ Overlap(slot'[c].from, slot'[c].to, slot'[d])
  <2>1. CASE c = b
    BY <1>1, <1>2, <1>3, <2>1
  <2>2. CASE d = b
    BY <1>1, <1>2, <1>3, <2>2
  <2>3. CASE c # b /\ d # b
    BY <1>1, <1>3, <2>3 DEF SlotExclusive
  <2> QED BY <2>1, <2>2, <2>3
<1> QED BY <1>3 DEF SlotExclusive

(* Whatever allocate hands out, the constraint would have admitted. *)
LEMMA FreeSlotAdmitted ==
  ASSUME NEW b \in Bookings, NEW w \in Windows, NEW i \in FreeSlots(w)
  PROVE  Admits(b, [status |-> "confirmed", index |-> i, from |-> w.from, to |-> w.to])
BY DEF FreeSlots, Admits

LEMMA SameSlotsExclusive ==
  ASSUME SlotExclusive, UNCHANGED slot
  PROVE  SlotExclusive'
BY DEF SlotExclusive

LEMMA SlotStep == TypeInv /\ SlotExclusive /\ [Next]_vars => SlotExclusive'
<1> SUFFICES ASSUME TypeInv, SlotExclusive, [Next]_vars PROVE SlotExclusive'
  OBVIOUS
<1> USE DEF bookingVars
<1>t. TypeOK
  BY DEF TypeInv
<1>1. ASSUME NEW b \in Bookings, NEW w \in Windows, Create(b, w) PROVE SlotExclusive'
  <2>1. PICK i \in FreeSlots(w) :
          slot' = [slot EXCEPT ![b] =
                    [status |-> "confirmed", index |-> i, from |-> w.from, to |-> w.to]]
    BY <1>1 DEF Create
  <2> QED BY <1>t, <2>1, FreeSlotAdmitted, AdmittedExclusive
<1>2. ASSUME NEW r \in Requests, CheckInCommit(r) PROVE SlotExclusive'
  <2> DEFINE row == [slot[request[r].booking] EXCEPT !.status = "active"]
  <2>1. /\ request[r].booking \in Bookings
        /\ Admits(request[r].booking, row)
        /\ slot' = [slot EXCEPT ![request[r].booking] = row]
    BY <1>t, <1>2, CommandFields DEF CheckInCommit
  <2> QED BY <1>t, <2>1, AdmittedExclusive
<1>3. ASSUME NEW r \in Requests, ExtendCommit(r) PROVE SlotExclusive'
  <2> DEFINE row == [slot[request[r].booking] EXCEPT !.to = request[r].newEndsAt]
  <2>1. /\ request[r].booking \in Bookings
        /\ Admits(request[r].booking, row)
        /\ slot' = [slot EXCEPT ![request[r].booking] = row]
    BY <1>t, <1>3, CommandFields DEF ExtendCommit, NewEnd
  <2> QED BY <1>t, <2>1, AdmittedExclusive
<1>4. ASSUME NEW r \in Requests, CancelUnpaid(r) \/ CancelPaid(r) PROVE SlotExclusive'
  <2>1. /\ request[r].booking \in Bookings
        /\ slot' = [slot EXCEPT ![request[r].booking].status = "released"]
    BY <1>t, <1>4, CommandFields DEF CancelUnpaid, CancelPaid, Cancelled, Release
  <2> QED BY <1>t, <2>1, ReleasedExclusive
<1>5. ASSUME NEW m \in jobs, NEW ack \in BOOLEAN,
             Expire(m, ack) \/ Complete(m, ack) \/ Orphan(m, ack)
      PROVE  SlotExclusive'
  <2>1. CASE UNCHANGED slot
    BY <2>1, SameSlotsExclusive
  <2>2. CASE m.ref \in Bookings /\ slot' = [slot EXCEPT ![m.ref].status = "released"]
    BY <1>t, <2>2, ReleasedExclusive
  <2> QED BY <1>t, <1>5, <2>1, <2>2, MessageFields DEF Expire, Complete, Orphan, Release
<1>6. CASE Driver
  <2>1. CASE \E b \in Bookings, w \in Windows : Create(b, w)
    BY <1>1, <2>1
  <2>2. CASE UNCHANGED slot
    BY <2>2, SameSlotsExclusive
  <2> QED BY <1>6, <2>1, <2>2
      DEF Driver, OrderRead, CheckInRead, ExtendRead, CancelRead, AdminRefund
<1>7. CASE Gateway \/ Tick \/ UNCHANGED vars
  BY <1>7, SameSlotsExclusive DEF Gateway, Pay, Fail, ConfirmRead, Tick, vars
<1>8. CASE \E r \in Requests : Commit(r) \/ Abandon(r)
  <2>1. PICK r \in Requests : Commit(r) \/ Abandon(r)
    BY <1>8
  <2>2. CASE CheckInCommit(r) \/ ExtendCommit(r) \/ CancelUnpaid(r) \/ CancelPaid(r)
    BY <1>2, <1>3, <1>4, <2>2
  <2>3. CASE UNCHANGED slot
    BY <2>3, SameSlotsExclusive
  <2> QED BY <2>1, <2>2, <2>3
      DEF Commit, OrderCommit, ConfirmReplay, ConfirmOrphan, ConfirmCapture, Abandon
<1> QED BY <1>5, <1>6, <1>7, <1>8 DEF Next, Worker

(* No two bookings ever occupy one slot at one moment: allocate's check and *)
(* the exclusion constraint together, for any number of slots, bookings and *)
(* requests in flight.                                                      *)
THEOREM SlotsNeverShared == Spec => []SlotExclusive
<1>1. Init => SlotExclusive
  BY DEF Init, SlotExclusive, NoSlot, Occupies
<1> QED BY <1>1, TypeInvariant, SlotStep, PTL DEF Spec

-----------------------------------------------------------------------------
(* All a step can do to a payment row: nothing; open an order; record a     *)
(* capture; record a failed attempt, never over a capture; or refund it     *)
(* within the capture and leave the reason behind.                          *)
PaymentMoves(p) ==
  \/ payment'[p] = payment[p]
  \/ /\ payment[p].status = "none"
     /\ payment'[p].status = "created"
     /\ payment'[p].refunded = payment[p].refunded
     /\ payment'[p].reasons = payment[p].reasons
  \/ /\ payment'[p].status \in {"captured", "failed"}
     /\ payment'[p].status = "failed" => payment[p].status \notin {"none", "captured", "failed"}
     /\ payment'[p].amount = payment[p].amount
     /\ payment'[p].refunded = payment[p].refunded
     /\ payment'[p].reasons = payment[p].reasons
  \/ /\ payment'[p].status \in {"partially_refunded", "refunded"}
     /\ payment'[p].amount = payment[p].amount
     /\ payment'[p].refunded =< payment[p].amount
     /\ payment'[p].reasons # {}

LEMMA RefundMoves ==
  ASSUME TypeOK, NEW p \in Payments, NEW amount \in Nat, NEW reason \in RefundReasons,
         NEW fully \in BOOLEAN, Refunded(p, amount, reason, fully)
  PROVE  \A q \in Payments : PaymentMoves(q)
<1>1. ASSUME NEW q \in Payments \ {p} PROVE PaymentMoves(q)
  BY RefundedRow DEF PaymentMoves
<1>2. PaymentMoves(p)
  BY RefundedRow DEF PaymentMoves
<1> QED BY <1>1, <1>2

LEMMA SamePaymentsMove ==
  ASSUME UNCHANGED payment
  PROVE  \A q \in Payments : PaymentMoves(q)
BY DEF PaymentMoves

LEMMA CommitMoves ==
  ASSUME TypeInv, NEW r \in Requests, Commit(r) \/ Abandon(r)
  PROVE  \A q \in Payments : PaymentMoves(q)
<1>t. TypeOK /\ payment \in [Payments -> PaymentRows]
  BY DEF TypeInv, TypeOK
<1>1. CASE UNCHANGED payment
  BY <1>1, SamePaymentsMove
<1>2. CASE \E p \in Payments : OrderCommit(r, p)
  <2>1. PICK p \in Payments : OrderCommit(r, p)
    BY <1>2
  <2>2. payment[p].status = "none" /\ payment[p] \in PaymentRows
    BY <1>t, <2>1 DEF OrderCommit
  <2>3. payment' = [payment EXCEPT ![p].status = "created",
                                   ![p].booking = {request[r].booking},
                                   ![p].amount = request[r].amount]
    BY <2>1 DEF OrderCommit
  <2>4. /\ payment'[p].status = "created" /\ payment'[p].refunded = payment[p].refunded
        /\ payment'[p].reasons = payment[p].reasons
        /\ \A q \in Payments \ {p} : payment'[q] = payment[q]
    BY <1>t, <2>2, <2>3 DEF PaymentRows
  <2> QED BY <2>2, <2>4 DEF PaymentMoves
<1>3. CASE ConfirmCapture(r)
  <2> DEFINE p == request[r].payment
  <2>1. p \in Payments /\ payment[p] \in PaymentRows
    BY <1>t, <1>3, CommandFields DEF ConfirmCapture
  <2>2. payment' = [payment EXCEPT ![p].status = "captured", ![p].capturedAt = now]
    BY <1>3 DEF ConfirmCapture
  <2>3. /\ payment'[p].status = "captured" /\ payment'[p].amount = payment[p].amount
        /\ payment'[p].refunded = payment[p].refunded /\ payment'[p].reasons = payment[p].reasons
        /\ \A q \in Payments \ {p} : payment'[q] = payment[q]
    BY <1>t, <2>1, <2>2 DEF PaymentRows
  <2> QED BY <2>3 DEF PaymentMoves
<1>4. CASE CancelPaid(r) /\ ~ UNCHANGED payment
  <2>1. CancelOutcome(r).refund \in Nat /\ CancelOutcome(r).tier \in RefundReasons
    BY <1>t, <1>4, CancelOutcomeTyped DEF CancelPaid
  <2>2. \E fully \in BOOLEAN :
          Refunded(request[r].payment, CancelOutcome(r).refund, CancelOutcome(r).tier, fully)
    BY <1>4 DEF CancelPaid
  <2>3. request[r].payment \in Payments
    BY <1>4 DEF CancelPaid
  <2> QED BY <1>t, <2>1, <2>2, <2>3, RefundMoves
<1> QED BY <1>1, <1>2, <1>3, <1>4
    DEF Commit, ConfirmReplay, ConfirmOrphan, CheckInCommit, ExtendCommit, CancelUnpaid, Abandon,
        paymentVars, paymentLedger

LEMMA PaymentStep ==
  ASSUME TypeInv, [Next]_vars
  PROVE  \A q \in Payments : PaymentMoves(q)
<1>t. TypeOK /\ payment \in [Payments -> PaymentRows]
  BY DEF TypeInv, TypeOK
<1>1. CASE UNCHANGED payment
  BY <1>1, SamePaymentsMove
<1>2. ASSUME NEW b \in Bookings, NEW option, AdminRefund(b, option)
      PROVE  \A q \in Payments : PaymentMoves(q)
  <2>1. PICK p \in Payments, amount \in Nat, fully \in BOOLEAN : Refunded(p, amount, "admin", fully)
    BY <1>t, <1>2, AdminRefundRow
  <2> QED BY <1>t, <2>1, RefundMoves DEF RefundReasons
<1>3. ASSUME NEW p \in Payments, Fail(p)
      PROVE  \A q \in Payments : PaymentMoves(q)
  <2>1. /\ payment[p].status \notin {"none", "captured", "failed"}
        /\ payment' = [payment EXCEPT ![p].status = "failed"]
    BY <1>3 DEF Fail
  <2>2. /\ payment'[p].status = "failed" /\ payment'[p].amount = payment[p].amount
        /\ payment'[p].refunded = payment[p].refunded /\ payment'[p].reasons = payment[p].reasons
        /\ \A q \in Payments \ {p} : payment'[q] = payment[q]
    BY <1>t, <2>1 DEF PaymentRows
  <2> QED BY <2>1, <2>2 DEF PaymentMoves
<1>4. ASSUME NEW m \in jobs, NEW ack \in BOOLEAN, Orphan(m, ack), ~ UNCHANGED payment
      PROVE  \A q \in Payments : PaymentMoves(q)
  <2>1. ASSUME NEW q \in Payments \ {m.ref} PROVE PaymentMoves(q)
    BY <1>t, <1>4, OrphanRow DEF PaymentMoves
  <2>2. PaymentMoves(m.ref)
    <3>1. m.ref \in Payments /\ payment[m.ref].amount \in Nat
      BY <1>t, <1>4, OrphanRow DEF PaymentRows
    <3> QED BY <1>t, <1>4, <3>1, OrphanRow DEF PaymentMoves
  <2> QED BY <2>1, <2>2
<1>5. CASE Driver
  BY <1>1, <1>2, <1>5
  DEF Driver, Create, OrderRead, CheckInRead, ExtendRead, CancelRead, paymentVars, paymentLedger
<1>6. CASE Gateway
  BY <1>1, <1>3, <1>6 DEF Gateway, Pay, ConfirmRead, paymentVars, paymentLedger
<1>7. CASE Worker
  BY <1>1, <1>4, <1>7 DEF Worker, Expire, Complete, paymentVars, paymentLedger
<1>8. CASE Tick \/ UNCHANGED vars
  BY <1>1, <1>8 DEF Tick, vars, paymentVars, paymentLedger
<1> QED BY <1>5, <1>6, <1>7, <1>8, CommitMoves DEF Next

(* Refunds within the capture is inductive only with this: a row that has   *)
(* no order yet has given nothing back, so opening one cannot exceed it;    *)
(* and whatever was refunded left a reason.                                 *)
RefundsBacked ==
  \A p \in Payments :
    /\ payment[p].refunded =< payment[p].amount
    /\ payment[p].status = "none" => payment[p].refunded = 0
    /\ payment[p].refunded > 0 \/ payment[p].status \in {"partially_refunded", "refunded"} =>
         payment[p].reasons # {}

LEMMA RefundStep == TypeInv /\ RefundsBacked /\ [Next]_vars => RefundsBacked'
<1> SUFFICES ASSUME TypeInv, RefundsBacked, [Next]_vars, NEW p \in Payments
             PROVE  /\ payment'[p].refunded =< payment'[p].amount
                    /\ payment'[p].status = "none" => payment'[p].refunded = 0
                    /\ payment'[p].refunded > 0
                         \/ payment'[p].status \in {"partially_refunded", "refunded"} =>
                         payment'[p].reasons # {}
  BY DEF RefundsBacked
<1>1. /\ payment[p].refunded =< payment[p].amount
      /\ payment[p].status = "none" => payment[p].refunded = 0
      /\ payment[p].refunded > 0 \/ payment[p].status \in {"partially_refunded", "refunded"} =>
           payment[p].reasons # {}
  BY DEF RefundsBacked
<1>2. /\ payment[p].refunded \in Nat /\ payment[p].amount \in Nat
      /\ payment'[p].refunded \in Nat /\ payment'[p].amount \in Nat
  BY TypeStep DEF TypeInv, TypeOK, PaymentRows
<1>3. PaymentMoves(p)
  BY PaymentStep
<1> QED BY <1>1, <1>2, <1>3 DEF PaymentMoves

LEMMA RefundInit == Init => RefundsBacked
BY DEF Init, RefundsBacked, NoOrder

(* What goes back never exceeds what came in, over every way to refund,     *)
(* every amount an administrator may ask for and every total.               *)
THEOREM RefundsNeverExceed == Spec => []RefundsWithinCapture
<1>1. RefundsBacked => RefundsWithinCapture
  BY DEF RefundsBacked, RefundsWithinCapture
<1> QED BY <1>1, RefundInit, TypeInvariant, RefundStep, PTL DEF Spec

-----------------------------------------------------------------------------
(* What answers for the money of a payment. *)
OrphanQueued(p) == [job |-> "orphan", ref |-> p, at |-> 0] \in jobs

Answered(p) ==
  \/ payment[p].status \in CapturedStatuses
  \/ payment[p].reasons # {}
  \/ OrphanQueued(p)

(* A queued orphan is taken off the queue only once its refund is written.  *)
LEMMA OrphanAnswered ==
  ASSUME TypeInv, RefundsBacked, [Next]_vars, NEW p \in Payments, OrphanQueued(p)
  PROVE  OrphanQueued(p)' \/ payment[p].reasons # {} \/ payment'[p].reasons # {}
<1> DEFINE queued == [job |-> "orphan", ref |-> p, at |-> 0]
<1>1. CASE jobs \subseteq jobs'
  BY <1>1 DEF OrphanQueued
<1>2. ASSUME NEW m \in jobs, NEW ack \in BOOLEAN, Expire(m, ack) \/ Complete(m, ack)
      PROVE  OrphanQueued(p)'
  <2>1. m # queued
    BY <1>2 DEF Expire, Complete
  <2> QED BY <1>2, <2>1 DEF Expire, Complete, Acknowledge, OrphanQueued
<1>3. ASSUME NEW m \in jobs, NEW ack \in BOOLEAN, Orphan(m, ack)
      PROVE  OrphanQueued(p)' \/ payment[p].reasons # {} \/ payment'[p].reasons # {}
  <2>1. CASE m # queued
    BY <1>3, <2>1 DEF Orphan, Acknowledge, OrphanQueued
  <2>2. CASE m = queued /\ OrphanRefundDue(p)
    BY <1>3, <2>2, OrphanRow DEF TypeInv
  <2>3. CASE m = queued /\ ~ OrphanRefundDue(p)
    <3>1. payment[p].refunded \in Nat /\ payment[p].amount \in Nat
      BY DEF TypeInv, TypeOK, PaymentRows
    <3>2. payment[p].reasons # {} \/ payment[p].refunded > 0
      BY <2>3, <3>1 DEF OrphanRefundDue, WithinCapture
    <3> QED BY <3>2 DEF RefundsBacked
  <2> QED BY <2>1, <2>2, <2>3
<1>4. CASE Driver
  BY <1>1, <1>4
  DEF Driver, Create, OrderRead, CheckInRead, ExtendRead, CancelRead, AdminRefund
<1>5. CASE Gateway \/ Tick \/ UNCHANGED vars
  BY <1>1, <1>5 DEF Gateway, Pay, Fail, ConfirmRead, Tick, vars
<1>6. CASE \E r \in Requests : Commit(r) \/ Abandon(r)
  <2>1. PICK r \in Requests : Commit(r) \/ Abandon(r)
    BY <1>6
  <2> QED BY <1>1, <2>1
      DEF Commit, Abandon, OrderCommit, ConfirmReplay, ConfirmOrphan, ConfirmCapture,
          CheckInCommit, ExtendCommit, CancelUnpaid, CancelPaid, Cancelled
<1> QED BY <1>2, <1>3, <1>4, <1>5, <1>6 DEF Next, Worker

LEMMA AnsweredStays ==
  ASSUME TypeInv, RefundsBacked, [Next]_vars, NEW p \in Payments, Answered(p)
  PROVE  Answered(p)'
<1>1. PaymentMoves(p)
  BY PaymentStep
<1>2. payment[p].reasons # {} => payment'[p].reasons # {}
  BY <1>1 DEF PaymentMoves
<1>3. CASE payment[p].status \in CapturedStatuses
  <2>1. payment[p].status \in {"partially_refunded", "refunded"} => payment[p].reasons # {}
    BY DEF RefundsBacked
  <2> QED BY <1>1, <1>2, <1>3, <2>1 DEF PaymentMoves, Answered, CapturedStatuses
<1>4. CASE payment[p].reasons # {}
  BY <1>2, <1>4 DEF Answered
<1>5. CASE OrphanQueued(p)
  BY <1>2, <1>5, OrphanAnswered DEF Answered
<1> QED BY <1>3, <1>4, <1>5 DEF Answered

(* A report answered in this step is answered for in this step. *)
LEMMA ReportAnswered ==
  ASSUME TypeInv, [Next]_vars, NEW p \in Payments, NEW s \in Sources,
         <<p, s>> \in reported', <<p, s>> \notin reported
  PROVE  Answered(p)'
<1>1. PICK r \in Requests : ConfirmReplay(r) \/ ConfirmOrphan(r) \/ ConfirmCapture(r)
  BY DEF Next, Driver, Create, OrderRead, CheckInRead, ExtendRead, CancelRead, AdminRefund,
         Gateway, Pay, Fail, ConfirmRead, Worker, Expire, Complete, Orphan, Tick,
         Commit, Abandon, OrderCommit, CheckInCommit, ExtendCommit, CancelUnpaid, CancelPaid,
         Cancelled, vars, gatewayVars
<1>2. p = request[r].payment
  BY <1>1 DEF ConfirmReplay, ConfirmOrphan, ConfirmCapture, Reported
<1>3. CASE ConfirmReplay(r)
  BY <1>2, <1>3 DEF ConfirmReplay, Replayed, Answered, CapturedStatuses, paymentVars, paymentLedger
<1>4. CASE ConfirmOrphan(r)
  BY <1>2, <1>4 DEF ConfirmOrphan, Answered, OrphanQueued
<1>5. CASE ConfirmCapture(r)
  <2>1. payment' = [payment EXCEPT ![p].status = "captured", ![p].capturedAt = now]
    BY <1>2, <1>5 DEF ConfirmCapture
  <2>2. payment \in [Payments -> PaymentRows]
    BY DEF TypeInv, TypeOK
  <2>3. payment'[p].status = "captured"
    BY <2>1, <2>2 DEF PaymentRows
  <2> QED BY <2>3 DEF Answered, CapturedStatuses
<1> QED BY <1>1, <1>3, <1>4, <1>5

LEMMA CaptureStep ==
  TypeInv /\ RefundsBacked /\ CaptureNeverLost /\ [Next]_vars => CaptureNeverLost'
<1> SUFFICES ASSUME TypeInv, RefundsBacked, CaptureNeverLost, [Next]_vars,
                    NEW p \in Payments, NEW s \in Sources, <<p, s>> \in reported'
             PROVE  Answered(p)'
  BY DEF CaptureNeverLost, Answered, OrphanQueued
<1>1. CASE <<p, s>> \in reported
  <2>1. Answered(p)
    BY <1>1 DEF CaptureNeverLost, Answered, OrphanQueued
  <2> QED BY <2>1, AnsweredStays
<1>2. CASE <<p, s>> \notin reported
  BY <1>2, ReportAnswered
<1> QED BY <1>1, <1>2

(* A capture whose report was answered 2xx is never dropped, whatever       *)
(* overtakes the report, whatever is redelivered and however often.         *)
THEOREM NoCaptureLost == Spec => []CaptureNeverLost
<1>1. Init => CaptureNeverLost
  BY DEF Init, CaptureNeverLost
<1> QED BY <1>1, RefundInit, TypeInvariant, RefundStep, CaptureStep, PTL DEF Spec

-----------------------------------------------------------------------------
(* What a booking's rows owe each other holds only while commands are not   *)
(* overtaken between their read and their write.  Each theorem below names  *)
(* the commands that may not be; any other may be overtaken at any time.    *)
CapturesUndisturbed == "confirm" \notin Overlapping
CheckInsUndisturbed == "check_in" \notin Overlapping
ExtensionsUndisturbed == "extend" \notin Overlapping
OrdersAloneDisturbed == Overlapping \subseteq {"order"}

(* What a command read, where it began in this step. *)
Reads(r) ==
  \/ \E b \in Bookings :
       \/ OrderRead(r, b)
       \/ CheckInRead(r, b)
       \/ \E t \in Times : ExtendRead(r, b, t)
       \/ \E by \in Cancellers : CancelRead(r, b, by)
  \/ \E p \in Payments, s \in Sources : ConfirmRead(r, p, s)

LEMMA BegunIsBegun ==
  ASSUME TypeOK, NEW r \in Requests, NEW q \in Requests, Reads(q), request'[r] # request[r]
  PROVE  r = q
<1>1. PICK command : Begin(q, command)
  BY DEF Reads, OrderRead, CheckInRead, ExtendRead, CancelRead, ConfirmRead
<1> QED BY <1>1 DEF Begin, TypeOK

LEMMA ReadsAlone ==
  ASSUME NEW q \in Requests, Reads(q)
  PROVE  Undisturbed(Requests)
BY DEF Reads, OrderRead, CheckInRead, ExtendRead, CancelRead, ConfirmRead, Begin

LEMMA CommitEnds ==
  ASSUME NEW q \in Requests, Commit(q) \/ Abandon(q)
  PROVE  End(q)
BY DEF Commit, Abandon, OrderCommit, ConfirmReplay, ConfirmOrphan, ConfirmCapture, Reported,
       CheckInCommit, ExtendCommit, CancelUnpaid, CancelPaid, Cancelled

(* A step that neither begins a command nor ends one. *)
Elsewhere ==
  \/ \E b \in Bookings, w \in Windows : Create(b, w)
  \/ \E b \in Bookings, option \in Presets \cup {"custom"} : AdminRefund(b, option)
  \/ \E p \in Payments : Pay(p) \/ Fail(p)
  \/ Worker
  \/ Tick

LEMMA ElsewhereAlone ==
  ASSUME Elsewhere
  PROVE  Undisturbed(Requests) /\ UNCHANGED request
BY DEF Elsewhere, Create, AdminRefund, Pay, Fail, Worker, Expire, Complete, Orphan, Deliver, Tick

LEMMA StepKinds ==
  ASSUME [Next]_vars
  PROVE  \/ UNCHANGED vars
         \/ Elsewhere
         \/ \E r \in Requests : Reads(r) \/ Commit(r) \/ Abandon(r)
<1>1. CASE Driver
  <2>1. \A r \in Requests, b \in Bookings, by \in Cancellers \ {"owner"} :
          CancelRead(r, b, by) => Reads(r)
    BY DEF Reads
  <2>2. \A r \in Requests, b \in Bookings :
          OrderRead(r, b) \/ CheckInRead(r, b) \/ (\E t \in Times : ExtendRead(r, b, t)) => Reads(r)
    BY DEF Reads
  <2> QED BY <1>1, <2>1, <2>2 DEF Driver, Elsewhere
<1>2. CASE Gateway
  BY <1>2 DEF Gateway, Elsewhere, Reads
<1> QED BY <1>1, <1>2 DEF Next, Elsewhere

(* A command that may not be overtaken is in flight after a step only if    *)
(* the step began it or was none.                                           *)
LEMMA Alone ==
  ASSUME TypeOK, [Next]_vars, NEW r \in Requests,
         request'[r].kind \notin Overlapping \cup {"idle"}
  PROVE  UNCHANGED vars \/ Reads(r)
<1>1. CASE Elsewhere
  BY <1>1, ElsewhereAlone DEF Undisturbed
<1>2. ASSUME NEW q \in Requests, Reads(q)
      PROVE  Reads(r)
  <2>1. request'[r] # request[r]
    BY <1>2, ReadsAlone DEF Undisturbed
  <2> QED BY <1>2, <2>1, BegunIsBegun
<1>3. ASSUME NEW q \in Requests, Commit(q) \/ Abandon(q)
      PROVE  FALSE
  <2>1. Undisturbed(Requests \ {q}) /\ request' = [request EXCEPT ![q] = Idle]
    BY <1>3, CommitEnds DEF End
  <2>2. request'[r] = IF r = q THEN Idle ELSE request[r]
    BY <2>1 DEF TypeOK
  <2>3. r # q
    BY <2>2 DEF Idle
  <2> QED BY <2>1, <2>2, <2>3 DEF Undisturbed
<1> QED BY <1>1, <1>2, <1>3, StepKinds

-----------------------------------------------------------------------------
(* What a command has read and, undisturbed, still stands when it writes.   *)
Stands(r) ==
  /\ CapturesUndisturbed /\ request[r].kind = "confirm" =>
       \E b \in Bookings : /\ payment[request[r].payment].booking = {b}
                           /\ request[r].status = booking[b].status
                           /\ request[r].endsAt = booking[b].endsAt
  /\ CheckInsUndisturbed /\ request[r].kind = "check_in" =>
       booking[request[r].booking].status = "confirmed"
  /\ ExtensionsUndisturbed /\ request[r].kind = "extend" => Live(request[r].booking)

ReadsStand == \A r \in Requests : Stands(r)

(* Whatever is overtaken, every order was opened for a booking that had     *)
(* been sold, and for money; a row without an order is untouched; and no    *)
(* command is about a booking or a payment that is not there.               *)
PaysFor(p, b) == payment[p].booking = {b}

Untouched(p) ==
  /\ payment[p].refunded = 0
  /\ payment[p].reasons = {}
  /\ discharged[p] = 0
  /\ ~ OrphanQueued(p)

OrdersMade ==
  \A p \in Payments :
    /\ payment[p].status # "none" =>
         /\ \E b \in Bookings : PaysFor(p, b) /\ booking[b].status # "none"
         /\ payment[p].amount > 0
    /\ payment[p].status = "none" => payment[p].booking = {} /\ Untouched(p)

Asked(r) ==
  /\ request[r].kind = "order" =>
       booking[request[r].booking].status # "none" /\ request[r].amount > 0
  /\ request[r].kind = "confirm" => payment[request[r].payment].status # "none"
  /\ request[r].kind = "check_in" => booking[request[r].booking].status # "none"

SoldForMoney ==
  \A b \in Bookings : booking[b].status # "none" =>
    booking[b].from < booking[b].endsAt /\ booking[b].total > 0

OrderInv == OrdersMade /\ (\A r \in Requests : Asked(r)) /\ SoldForMoney /\ ReadsStand

(* All a step can do to the rows of a booking.                              *)
RowsSame(b) ==
  booking'[b] = booking[b] /\ slot'[b] = slot[b] /\ receivable'[b] = receivable[b]

StaySame(b) ==
  /\ booking'[b].from = booking[b].from
  /\ booking'[b].endsAt = booking[b].endsAt
  /\ booking'[b].base = booking[b].base
  /\ booking'[b].total = booking[b].total

Sold(b) ==
  /\ booking[b].status = "none" /\ booking'[b].status = "pending_payment"
  /\ booking'[b].from < booking'[b].endsAt
  /\ \E rate \in Rates :
       booking'[b].base = StayPrice(rate, booking'[b].from, booking'[b].endsAt)
  /\ booking'[b].total >= booking'[b].base
  /\ slot'[b].status = "confirmed"
  /\ receivable'[b] = booking'[b].total

Confirmed(b) ==
  /\ booking[b].status # "none" /\ booking'[b].status = "confirmed"
  /\ CapturesUndisturbed => booking[b].status = "pending_payment"
  /\ StaySame(b) /\ slot'[b] = slot[b] /\ receivable'[b] = receivable[b]

CheckedIn(b) ==
  /\ booking[b].status # "none" /\ booking'[b].status = "active"
  /\ CheckInsUndisturbed => booking[b].status = "confirmed"
  /\ StaySame(b) /\ slot'[b].status = "active" /\ receivable'[b] = receivable[b]

Extended(b) ==
  /\ booking[b].status # "none" /\ booking'[b].status = booking[b].status
  /\ booking'[b].from = booking[b].from /\ booking'[b].from < booking'[b].endsAt
  /\ slot'[b].status = slot[b].status
  /\ \E r \in Requests :
       /\ request[r].kind = "extend" /\ request[r].booking = b
       /\ booking'[b].endsAt = request[r].newEndsAt
       /\ booking'[b].base = booking[b].base + ExtensionDelta(r)
  /\ \E paise \in Nat :
       /\ booking'[b].total = booking[b].total + paise
       /\ receivable'[b] = receivable[b] + paise
  /\ ExtensionsUndisturbed => Live(b)

GivenUp(b) ==
  /\ Live(b) /\ booking'[b].status = "cancelled"
  /\ StaySame(b) /\ slot'[b].status = "released"

Lapsed(b) ==
  /\ booking[b].status = "pending_payment" /\ booking'[b].status = "cancelled"
  /\ StaySame(b) /\ slot'[b].status = "released"
  /\ receivable'[b] = receivable[b] - booking[b].total

Completed(b) ==
  /\ booking[b].status = "active" /\ booking'[b].status = "completed"
  /\ StaySame(b) /\ slot'[b].status = "released" /\ receivable'[b] = receivable[b]

RowsMove(b) ==
  \/ Sold(b) \/ Confirmed(b) \/ CheckedIn(b) \/ Extended(b)
  \/ GivenUp(b) \/ Lapsed(b) \/ Completed(b)

OneBookingMoves ==
  \/ \A b \in Bookings : RowsSame(b)
  \/ \E b \in Bookings : RowsMove(b) /\ \A c \in Bookings \ {b} : RowsSame(c)

LEMMA SameRows ==
  ASSUME UNCHANGED bookingVars
  PROVE  OneBookingMoves
BY DEF bookingVars, OneBookingMoves, RowsSame

(* A status written into a booking, and into the slot it was given.         *)
LEMMA StatusWritten ==
  ASSUME TypeOK, NEW b \in Bookings, NEW s, booking' = [booking EXCEPT ![b].status = s]
  PROVE  /\ booking'[b].status = s
         /\ StaySame(b)
         /\ \A c \in Bookings \ {b} : booking'[c] = booking[c]
BY DEF TypeOK, BookingRows, StaySame

LEMMA SlotStatusWritten ==
  ASSUME TypeOK, NEW b \in Bookings, NEW s, slot' = [slot EXCEPT ![b].status = s]
  PROVE  /\ slot'[b].status = s
         /\ \A c \in Bookings \ {b} : slot'[c] = slot[c]
BY DEF TypeOK, SlotRows

LEMMA CancellableLive ==
  ASSUME NEW b \in Bookings, Lifecycle!CanFire(booking[b].status, "cancel")
  PROVE  Live(b)
BY DEF Lifecycle!CanFire, Lifecycle!Transitions, Live

LEMMA CreateMoves ==
  ASSUME TypeInv, NEW b \in Bookings, NEW w \in Windows, Create(b, w)
  PROVE  OneBookingMoves
<1>t. /\ booking \in [Bookings -> BookingRows]
      /\ slot \in [Bookings -> SlotRows]
      /\ receivable \in [Bookings -> Int]
  BY DEF TypeInv, TypeOK
<1>p. PICK rate \in Rates :
        LET base == StayPrice(rate, w.from, w.to) IN
        /\ booking' = [booking EXCEPT ![b] =
                        [status |-> "pending_payment", from |-> w.from, endsAt |-> w.to,
                         base |-> base, total |-> DriverTotal(b, base)]]
        /\ receivable' = [receivable EXCEPT ![b] = DriverTotal(b, base)]
  BY DEF Create
<1> DEFINE base == StayPrice(rate, w.from, w.to)
           total == DriverTotal(b, base)
<1>1. /\ booking[b].status = "none"
      /\ booking'[b] = [status |-> "pending_payment", from |-> w.from, endsAt |-> w.to,
                        base |-> base, total |-> total]
      /\ \A c \in Bookings \ {b} : booking'[c] = booking[c]
  <2>1. booking[b].status = "none"
    BY DEF Create
  <2> QED BY <1>t, <1>p, <2>1
<1>2. receivable'[b] = total /\ \A c \in Bookings \ {b} : receivable'[c] = receivable[c]
  BY <1>t, <1>p
<1>3. slot'[b].status = "confirmed" /\ \A c \in Bookings \ {b} : slot'[c] = slot[c]
  BY <1>t DEF Create
<1>4. w.from < w.to
  BY DEF Windows
<1>6. total >= base
  <2>1. w.from \in Times /\ w.to \in Times /\ w.from =< w.to
    BY <1>4, ParkingBookingAssumption DEF Windows, Times
  <2>2. base \in Nat
    BY <2>1, StayPriced
  <2> HIDE DEF base
  <2> QED BY <2>2, DriverPays
<1>7. \E rating \in Rates : base = StayPrice(rating, w.from, w.to)
  OBVIOUS
<1> HIDE DEF base, total
<1>5. Sold(b)
  BY <1>1, <1>2, <1>3, <1>4, <1>6, <1>7 DEF Sold
<1> QED BY <1>1, <1>2, <1>3, <1>5 DEF OneBookingMoves, RowsMove, RowsSame

LEMMA CaptureMoves ==
  ASSUME TypeInv, OrderInv, NEW r \in Requests, ConfirmCapture(r)
  PROVE  /\ OneBookingMoves
         /\ request[r].payment \in Payments
         /\ \E b \in Bookings : PaysFor(request[r].payment, b) /\ Confirmed(b)
<1> DEFINE p == request[r].payment
<1>1. p \in Payments /\ request[r].kind = "confirm" /\ request[r].status = "pending_payment"
  BY CommandFields DEF ConfirmCapture, TypeInv
<1>2. payment[p].status # "none"
  BY <1>1 DEF OrderInv, Asked
<1>3. PICK b \in Bookings : PaysFor(p, b) /\ booking[b].status # "none"
  BY <1>1, <1>2 DEF OrderInv, OrdersMade
<1>4. CapturesUndisturbed => booking[b].status = "pending_payment"
  BY <1>1, <1>3 DEF OrderInv, ReadsStand, Stands, PaysFor
<1>5. booking' = [booking EXCEPT ![b].status = "confirmed"]
  BY <1>1, <1>3, PayConfirms DEF ConfirmCapture, PaysFor
<1>6. /\ booking'[b].status = "confirmed" /\ StaySame(b)
      /\ \A c \in Bookings \ {b} : booking'[c] = booking[c]
  BY <1>5, StatusWritten DEF TypeInv
<1>7. UNCHANGED <<slot, receivable>>
  BY DEF ConfirmCapture
<1>8. Confirmed(b)
  BY <1>3, <1>4, <1>6, <1>7 DEF Confirmed
<1> QED BY <1>1, <1>3, <1>6, <1>7, <1>8 DEF OneBookingMoves, RowsMove, RowsSame

LEMMA CheckInMoves ==
  ASSUME TypeInv, OrderInv, NEW r \in Requests, CheckInCommit(r)
  PROVE  OneBookingMoves
<1> DEFINE b == request[r].booking
<1>1. /\ b \in Bookings /\ booking[b].status # "none"
      /\ CheckInsUndisturbed => booking[b].status = "confirmed"
  BY CommandFields DEF CheckInCommit, TypeInv, OrderInv, Asked, ReadsStand, Stands
<1>2. /\ booking' = [booking EXCEPT ![b].status = "active"]
      /\ slot' = [slot EXCEPT ![b] = [slot[b] EXCEPT !.status = "active"]]
      /\ UNCHANGED receivable
  BY DEF CheckInCommit
<1> HIDE DEF b
<1>3. /\ booking'[b].status = "active" /\ StaySame(b)
      /\ \A c \in Bookings \ {b} : booking'[c] = booking[c]
  BY <1>1, <1>2, StatusWritten DEF TypeInv
<1>4. slot'[b].status = "active" /\ \A c \in Bookings \ {b} : slot'[c] = slot[c]
  BY <1>1, <1>2 DEF TypeInv, TypeOK, SlotRows
<1>5. CheckedIn(b)
  BY <1>1, <1>2, <1>3, <1>4 DEF CheckedIn
<1> QED BY <1>1, <1>2, <1>3, <1>4, <1>5 DEF OneBookingMoves, RowsMove, RowsSame

LEMMA ExtendMoves ==
  ASSUME TypeInv, OrderInv, NEW r \in Requests, ExtendCommit(r)
  PROVE  OneBookingMoves
<1> DEFINE b == request[r].booking
           t == request[r].newEndsAt
           delta == ExtensionDelta(r)
           paise == DriverTotal(b, delta)
<1>0. request[r].kind = "extend"
  BY DEF ExtendCommit
<1>1. /\ b \in Bookings /\ t \in Times /\ delta \in Nat
      /\ booking[b].status # "none" /\ booking[b].from < t
      /\ ExtensionsUndisturbed => Live(b)
  BY <1>0, CommandFields, ExtensionAdds
  DEF TypeInv, ExtensionsForward, OrderInv, ReadsStand, Stands
<1>2. /\ booking' = [booking EXCEPT ![b].endsAt = t, ![b].base = @ + delta, ![b].total = @ + paise]
      /\ slot' = [slot EXCEPT ![b] = [slot[b] EXCEPT !.to = t]]
      /\ receivable' = [receivable EXCEPT ![b] = @ + paise]
  BY DEF ExtendCommit, NewEnd
<1>7. paise \in Nat
  <2> HIDE DEF delta
  <2> QED BY <1>1, DriverPays
<1> HIDE DEF b, t, delta, paise
<1>3. /\ booking'[b].status = booking[b].status /\ booking'[b].from = booking[b].from
      /\ booking'[b].endsAt = t /\ booking'[b].base = booking[b].base + delta
      /\ booking'[b].total = booking[b].total + paise
      /\ \A c \in Bookings \ {b} : booking'[c] = booking[c]
  BY <1>1, <1>2 DEF TypeInv, TypeOK, BookingRows
<1>4. slot'[b].status = slot[b].status /\ \A c \in Bookings \ {b} : slot'[c] = slot[c]
  BY <1>1, <1>2 DEF TypeInv, TypeOK, SlotRows
<1>5. receivable'[b] = receivable[b] + paise /\ \A c \in Bookings \ {b} : receivable'[c] = receivable[c]
  BY <1>1, <1>2 DEF TypeInv, TypeOK
<1>8. \E q \in Requests :
        /\ request[q].kind = "extend" /\ request[q].booking = b
        /\ booking'[b].endsAt = request[q].newEndsAt
        /\ booking'[b].base = booking[b].base + ExtensionDelta(q)
  BY <1>0, <1>3 DEF b, t, delta
<1>6. Extended(b)
  BY <1>1, <1>3, <1>4, <1>5, <1>7, <1>8 DEF Extended
<1> QED BY <1>1, <1>3, <1>4, <1>5, <1>6 DEF OneBookingMoves, RowsMove, RowsSame

LEMMA CancelMoves ==
  ASSUME TypeInv, NEW r \in Requests, CancelUnpaid(r) \/ CancelPaid(r)
  PROVE  /\ OneBookingMoves
         /\ request[r].booking \in Bookings
         /\ GivenUp(request[r].booking)
         /\ \A c \in Bookings \ {request[r].booking} : RowsSame(c)
<1> DEFINE b == request[r].booking
<1>1. /\ b \in Bookings /\ Live(b)
      /\ booking' = [booking EXCEPT ![b].status = "cancelled"]
      /\ slot' = [slot EXCEPT ![b].status = "released"]
  BY CancelledRow, CancellableLive DEF CancelUnpaid, CancelPaid, Cancelled, Release
<1>2. receivable' = [receivable EXCEPT ![b] = @ - booking[b].total] \/ UNCHANGED receivable
  BY DEF CancelUnpaid, CancelPaid, ReverseReceivable
<1> HIDE DEF b
<1>3. /\ booking'[b].status = "cancelled" /\ StaySame(b)
      /\ \A c \in Bookings \ {b} : booking'[c] = booking[c]
  BY <1>1, StatusWritten DEF TypeInv
<1>4. slot'[b].status = "released" /\ \A c \in Bookings \ {b} : slot'[c] = slot[c]
  BY <1>1, SlotStatusWritten DEF TypeInv
<1>5. \A c \in Bookings \ {b} : receivable'[c] = receivable[c]
  BY <1>1, <1>2 DEF TypeInv, TypeOK
<1>6. GivenUp(b)
  BY <1>1, <1>3, <1>4 DEF GivenUp
<1>7. \A c \in Bookings \ {b} : RowsSame(c)
  BY <1>3, <1>4, <1>5 DEF RowsSame
<1> QED BY <1>1, <1>6, <1>7 DEF OneBookingMoves, RowsMove, b

LEMMA WorkerMoves ==
  ASSUME TypeInv, NEW m \in jobs, NEW ack \in BOOLEAN,
         Expire(m, ack) \/ Complete(m, ack) \/ Orphan(m, ack)
  PROVE  OneBookingMoves
<1> DEFINE b == m.ref
<1>1. CASE Expire(m, ack) /\ AwaitsPayment(b)
  <2>1. /\ b \in Bookings /\ booking[b].status = "pending_payment"
        /\ booking' = [booking EXCEPT ![b].status = "cancelled"]
        /\ slot' = [slot EXCEPT ![b].status = "released"]
        /\ receivable' = [receivable EXCEPT ![b] = @ - booking[b].total]
    BY <1>1, MessageFields DEF Expire, TypeInv, Release, ReverseReceivable, AwaitsPayment
  <2>2. /\ booking'[b].status = "cancelled" /\ StaySame(b)
        /\ \A c \in Bookings \ {b} : booking'[c] = booking[c]
    BY <2>1, StatusWritten DEF TypeInv
  <2>3. slot'[b].status = "released" /\ \A c \in Bookings \ {b} : slot'[c] = slot[c]
    BY <2>1, SlotStatusWritten DEF TypeInv
  <2>4. /\ receivable'[b] = receivable[b] - booking[b].total
        /\ \A c \in Bookings \ {b} : receivable'[c] = receivable[c]
    BY <2>1 DEF TypeInv, TypeOK
  <2>5. Lapsed(b)
    BY <2>1, <2>2, <2>3, <2>4 DEF Lapsed
  <2> QED BY <2>1, <2>2, <2>3, <2>4, <2>5 DEF OneBookingMoves, RowsMove, RowsSame
<1>2. CASE Complete(m, ack) /\ booking[b].status = "active"
  <2>1. /\ b \in Bookings
        /\ booking' = [booking EXCEPT ![b].status = "completed"]
        /\ slot' = [slot EXCEPT ![b].status = "released"]
        /\ UNCHANGED receivable
    BY <1>2, MessageFields DEF Complete, TypeInv, Release
  <2>2. /\ booking'[b].status = "completed" /\ StaySame(b)
        /\ \A c \in Bookings \ {b} : booking'[c] = booking[c]
    BY <2>1, StatusWritten DEF TypeInv
  <2>3. slot'[b].status = "released" /\ \A c \in Bookings \ {b} : slot'[c] = slot[c]
    BY <2>1, SlotStatusWritten DEF TypeInv
  <2>4. Completed(b)
    BY <1>2, <2>1, <2>2, <2>3 DEF Completed
  <2> QED BY <2>1, <2>2, <2>3, <2>4 DEF OneBookingMoves, RowsMove, RowsSame
<1>3. CASE UNCHANGED bookingVars
  BY <1>3, SameRows
<1> QED BY <1>1, <1>2, <1>3 DEF Expire, Complete, Orphan, bookingVars

(* A step moves one booking at most, and only along these lines.            *)
LEMMA BookingStep ==
  ASSUME TypeInv, OrderInv, [Next]_vars
  PROVE  OneBookingMoves
<1>1. CASE Elsewhere
  <2>1. CASE UNCHANGED bookingVars
    BY <2>1, SameRows
  <2> QED BY <1>1, <2>1, CreateMoves, WorkerMoves
      DEF Elsewhere, AdminRefund, Pay, Fail, Worker, Tick
<1>2. ASSUME NEW r \in Requests, Reads(r) PROVE OneBookingMoves
  BY <1>2, SameRows DEF Reads, OrderRead, CheckInRead, ExtendRead, CancelRead, ConfirmRead
<1>3. ASSUME NEW r \in Requests, Commit(r) \/ Abandon(r) PROVE OneBookingMoves
  <2>1. CASE UNCHANGED bookingVars
    BY <2>1, SameRows
  <2> QED BY <1>3, <2>1, CaptureMoves, CheckInMoves, ExtendMoves, CancelMoves
      DEF Commit, Abandon, OrderCommit, ConfirmReplay, ConfirmOrphan
<1> QED BY <1>1, <1>2, <1>3, StepKinds, SameRows DEF vars

LEMMA HoldsStep ==
  ASSUME CapturesUndisturbed, CheckInsUndisturbed, TypeInv, LiveHoldsSlot, OneBookingMoves
  PROVE  LiveHoldsSlot'
<1> SUFFICES ASSUME NEW b \in Bookings
             PROVE  (booking'[b].status = "pending_payment" \/ booking'[b].status \in {"confirmed", "active"})
                      <=> slot'[b].status \in {"confirmed", "active"}
  BY DEF LiveHoldsSlot, Live, Occupies
<1>1. (booking[b].status = "pending_payment" \/ booking[b].status \in {"confirmed", "active"})
        <=> slot[b].status \in {"confirmed", "active"}
  BY DEF LiveHoldsSlot, Live, Occupies
<1>2. RowsSame(b) \/ RowsMove(b)
  BY DEF OneBookingMoves
<1> QED BY <1>1, <1>2
    DEF RowsSame, RowsMove, Sold, Confirmed, CheckedIn, Extended, GivenUp, Lapsed, Completed, Live

LEMMA SoldStep ==
  ASSUME TypeInv, TypeInv', SoldForMoney, OneBookingMoves
  PROVE  SoldForMoney'
<1> SUFFICES ASSUME NEW b \in Bookings, booking'[b].status # "none"
             PROVE  booking'[b].from < booking'[b].endsAt /\ booking'[b].total > 0
  BY DEF SoldForMoney
<1>1. RowsSame(b) \/ RowsMove(b)
  BY DEF OneBookingMoves
<1>2. /\ booking'[b].from \in 0..MaxTime /\ booking'[b].endsAt \in 0..MaxTime
      /\ booking[b].total \in Nat /\ MaxTime \in Nat
  BY ParkingBookingAssumption DEF TypeInv, TypeOK, BookingRows, Times
<1>3. CASE Sold(b)
  <2>1. /\ booking'[b].from \in Times /\ booking'[b].endsAt \in Times
        /\ booking'[b].from =< booking'[b].endsAt
    BY <1>2, <1>3 DEF Sold, Times
  <2>2. booking'[b].base > 0
    <3>1. PICK rate \in Rates :
            booking'[b].base = StayPrice(rate, booking'[b].from, booking'[b].endsAt)
      BY <1>3 DEF Sold
    <3>2. StayPrice(rate, booking'[b].from, booking'[b].endsAt) \in Nat \ {0}
      BY <2>1, StayPriced
    <3> QED BY <3>1, <3>2
  <2>3. booking'[b].base \in Nat /\ booking'[b].total \in Nat
    BY DEF TypeInv, TypeOK, BookingRows
  <2> QED BY <1>3, <2>2, <2>3 DEF Sold
<1>4. CASE Extended(b)
  <2>1. booking[b].total > 0
    BY <1>4 DEF Extended, SoldForMoney
  <2> QED BY <1>2, <1>4, <2>1 DEF Extended
<1>5. CASE booking[b].status # "none" /\ StaySame(b)
  BY <1>5 DEF StaySame, SoldForMoney
<1>6. CASE RowsSame(b)
  BY <1>6 DEF RowsSame, SoldForMoney
<1> QED BY <1>1, <1>3, <1>4, <1>5, <1>6
    DEF RowsMove, Confirmed, CheckedIn, GivenUp, Lapsed, Completed, Live

(* A booking sold stays sold. *)
LEMMA SoldStays ==
  ASSUME OneBookingMoves, NEW b \in Bookings, booking[b].status # "none"
  PROVE  booking'[b].status # "none"
<1>1. RowsSame(b) \/ RowsMove(b)
  BY DEF OneBookingMoves
<1> QED BY <1>1
    DEF RowsSame, RowsMove, Sold, Confirmed, CheckedIn, Extended, GivenUp, Lapsed, Completed, Live

(* The request that a step began holds the command that it read. *)
LEMMA Begun ==
  ASSUME TypeOK, NEW r \in Requests, NEW command, Begin(r, command)
  PROVE  request'[r] = command
BY DEF Begin, TypeOK

LEMMA ExtendBegun ==
  ASSUME TypeOK, NEW r \in Requests, NEW b \in Bookings, NEW t, ExtendRead(r, b, t)
  PROVE  /\ Live(b) /\ UNCHANGED booking
         /\ request'[r].kind = "extend" /\ request'[r].booking = b
         /\ request'[r].currentEndsAt = booking[b].endsAt
<1>1. PICK rate \in Rates :
        Begin(r, [kind |-> "extend", booking |-> b, rate |-> rate,
                  currentEndsAt |-> booking[b].endsAt, newEndsAt |-> t])
  BY DEF ExtendRead
<1>2. request'[r] = [kind |-> "extend", booking |-> b, rate |-> rate,
                     currentEndsAt |-> booking[b].endsAt, newEndsAt |-> t]
  BY <1>1, Begun
<1> QED BY <1>2 DEF ExtendRead, CanExtend, bookingVars

LEMMA CancelBegun ==
  ASSUME TypeOK, NEW r \in Requests, NEW b \in Bookings, NEW by, CancelRead(r, b, by)
  PROVE  /\ UNCHANGED <<now, payment>>
         /\ request'[r].kind = "cancel" /\ request'[r].booking = b /\ request'[r].at = now
         /\ request'[r].payment = NoPayment => Refundable(b) = {}
         /\ request'[r].payment # NoPayment => request'[r].payment \in Refundable(b)
<1> DEFINE command(p) ==
      [kind |-> "cancel", booking |-> b, by |-> by, at |-> now, payment |-> p]
<1>1. PICK p \in Payments \cup {NoPayment} :
        /\ Begin(r, command(p))
        /\ p = NoPayment => Refundable(b) = {}
        /\ p # NoPayment => p \in Refundable(b)
  <2>1. CASE \E p \in LockedForRefund(b) : Begin(r, command(p))
    BY <2>1, ParkingBookingAssumption DEF LockedForRefund, Refundable
  <2>2. CASE Refundable(b) = {} /\ Begin(r, command(NoPayment))
    BY <2>2
  <2> QED BY <2>1, <2>2 DEF CancelRead
<1>2. request'[r] = command(p)
  BY <1>1, Begun
<1> QED BY <1>1, <1>2 DEF CancelRead, paymentVars, paymentLedger

LEMMA ReadsStep ==
  ASSUME TypeInv, OrderInv, [Next]_vars
  PROVE  ReadsStand'
<1>t. TypeOK
  BY DEF TypeInv
<1> SUFFICES ASSUME NEW r \in Requests PROVE Stands(r)'
  BY DEF ReadsStand
<1>1. CASE \/ CapturesUndisturbed /\ request'[r].kind = "confirm"
           \/ CheckInsUndisturbed /\ request'[r].kind = "check_in"
           \/ ExtensionsUndisturbed /\ request'[r].kind = "extend"
  <2>1. request'[r].kind \notin Overlapping \cup {"idle"}
    BY <1>1 DEF CapturesUndisturbed, CheckInsUndisturbed, ExtensionsUndisturbed
  <2>2. CASE UNCHANGED vars
    <3>1. UNCHANGED <<now, booking, payment, request>> /\ Stands(r)
      BY <2>2 DEF vars, bookingVars, paymentVars, paymentLedger, OrderInv, ReadsStand
    <3> QED BY <3>1 DEF Stands, Live
  <2>3. CASE Reads(r)
    <3>1. UNCHANGED <<now, booking, payment>>
      BY <2>3 DEF Reads, OrderRead, CheckInRead, ExtendRead, CancelRead, ConfirmRead,
                  bookingVars, paymentVars, paymentLedger
    <3>3. ASSUME NEW p \in Payments, NEW s \in Sources, ConfirmRead(r, p, s)
          PROVE  Stands(r)'
      <4>1. PICK b \in Bookings : PaysFor(p, b)
        BY <3>3 DEF ConfirmRead, OrderInv, OrdersMade
      <4>2. request'[r] = [kind |-> "confirm", payment |-> p, source |-> s,
                           status |-> booking[b].status, endsAt |-> booking[b].endsAt]
        BY <1>t, <3>3, <4>1, Begun DEF ConfirmRead, PaysFor
      <4> QED BY <3>1, <4>1, <4>2 DEF PaysFor, Stands
    <3>4. ASSUME NEW b \in Bookings, CheckInRead(r, b)
          PROVE  Stands(r)'
      <4>1. /\ request'[r] = [kind |-> "check_in", booking |-> b, endsAt |-> booking[b].endsAt]
            /\ booking[b].status = "confirmed"
        BY <1>t, <3>4, Begun DEF CheckInRead, Lifecycle!CanFire, Lifecycle!Transitions
      <4> QED BY <3>1, <4>1 DEF Stands
    <3>5. ASSUME NEW b \in Bookings, NEW u \in Times, ExtendRead(r, b, u)
          PROVE  Stands(r)'
      <4>1. request'[r].kind = "extend" /\ request'[r].booking = b /\ Live(b)
        BY <1>t, <3>5, ExtendBegun
      <4> QED BY <3>1, <4>1 DEF Stands, Live
    <3>6. ASSUME NEW b \in Bookings, OrderRead(r, b)
          PROVE  Stands(r)'
      BY <1>t, <3>6, Begun DEF OrderRead, Stands
    <3>7. ASSUME NEW b \in Bookings, NEW by \in Cancellers, CancelRead(r, b, by)
          PROVE  Stands(r)'
      BY <1>t, <3>7, CancelBegun DEF Stands
    <3> QED BY <2>3, <3>3, <3>4, <3>5, <3>6, <3>7 DEF Reads
  <2> QED BY <1>t, <2>1, <2>2, <2>3, Alone
<1>2. CASE ~ (\/ CapturesUndisturbed /\ request'[r].kind = "confirm"
              \/ CheckInsUndisturbed /\ request'[r].kind = "check_in"
              \/ ExtensionsUndisturbed /\ request'[r].kind = "extend")
  BY <1>2 DEF Stands
<1> QED BY <1>1, <1>2

-----------------------------------------------------------------------------
(* A row still captured has given nothing back; what was given back has a   *)
(* reason and an amount.                                                    *)
CapturesWhole ==
  \A p \in Payments :
    /\ payment[p].status = "captured" => payment[p].refunded = 0 /\ payment[p].reasons = {}
    /\ payment[p].reasons # {} => payment[p].refunded > 0
    /\ payment[p].status \in {"partially_refunded", "refunded"} => payment[p].refunded > 0

(* All a step can do to a payment row, its discharges and its orphan.       *)
NoneSent(p) == OrphanQueued(p)' => OrphanQueued(p)

LedgerSame(p) == discharged'[p] = discharged[p] /\ reopened'[p] = reopened[p]

PaySame(p) == payment'[p] = payment[p] /\ LedgerSame(p) /\ NoneSent(p)

OrderSame(p) == payment'[p].booking = payment[p].booking /\ payment'[p].amount = payment[p].amount

Opened(p) ==
  /\ payment[p].status = "none" /\ payment'[p].status = "created"
  /\ \E b \in Bookings : payment'[p].booking = {b} /\ booking[b].status # "none"
  /\ payment'[p].amount > 0
  /\ payment'[p].refunded = payment[p].refunded /\ payment'[p].reasons = payment[p].reasons
  /\ LedgerSame(p) /\ NoneSent(p)

OrphanSent(p) ==
  /\ payment'[p] = payment[p] /\ LedgerSame(p)
  /\ \E b \in Bookings :
       PaysFor(p, b) /\ (CapturesUndisturbed => booking[b].status # "pending_payment")

Captured(p) ==
  /\ OrderSame(p)
  /\ \E b \in Bookings : PaysFor(p, b) /\ Confirmed(b)
  /\ payment'[p].status = "captured"
  /\ payment'[p].refunded = payment[p].refunded /\ payment'[p].reasons = payment[p].reasons
  /\ discharged'[p] = discharged[p] + 1 /\ reopened'[p] = reopened[p] /\ NoneSent(p)

Failed(p) ==
  /\ OrderSame(p)
  /\ payment[p].status \notin {"none", "captured", "failed"} /\ payment'[p].status = "failed"
  /\ payment'[p].refunded = payment[p].refunded /\ payment'[p].reasons = payment[p].reasons
  /\ LedgerSame(p) /\ NoneSent(p)

GivenBack(p) ==
  /\ OrderSame(p)
  /\ payment[p].status \in {"captured", "partially_refunded"}
  /\ CapturesWhole =>
       payment[p].reasons \cap (FullReversalReasons \cup {"orphan_capture"}) = {}
  /\ payment'[p].status \in {"partially_refunded", "refunded"}
  /\ payment'[p].refunded > payment[p].refunded
  /\ \E reason \in Tiers \cup {"admin"} : payment'[p].reasons = payment[p].reasons \cup {reason}
  /\ LedgerSame(p) /\ NoneSent(p)

SentBack(p) ==
  /\ OrderSame(p)
  /\ OrphanQueued(p)
  /\ "orphan_capture" \notin payment[p].reasons /\ payment[p].refunded = 0
  /\ payment'[p].status = "refunded" /\ payment'[p].refunded = payment[p].amount
  /\ payment'[p].reasons = payment[p].reasons \cup {"orphan_capture"}
  /\ discharged'[p] = discharged[p] + 1 /\ reopened'[p] = reopened[p] + payment[p].amount
  /\ NoneSent(p)

PayMoves(p) ==
  Opened(p) \/ OrphanSent(p) \/ Captured(p) \/ Failed(p) \/ GivenBack(p) \/ SentBack(p)

OnePaymentMoves ==
  \/ \A p \in Payments : PaySame(p)
  \/ \E p \in Payments : PayMoves(p) /\ \A q \in Payments \ {p} : PaySame(q)

LEMMA SamePays ==
  ASSUME UNCHANGED paymentVars, \A p \in Payments : NoneSent(p)
  PROVE  OnePaymentMoves
BY DEF OnePaymentMoves, PaySame, LedgerSame, paymentVars, paymentLedger

LEMMA QueuedIs ==
  ASSUME TypeOK, NEW m \in jobs, m.job = "orphan"
  PROVE  m.ref \in Payments /\ OrphanQueued(m.ref)
<1>1. m \in [job : {"orphan"}, ref : Payments, at : {0}]
  BY DEF TypeOK, Messages
<1> QED BY <1>1 DEF OrphanQueued

LEMMA OrderMoves ==
  ASSUME TypeInv, OrderInv, NEW r \in Requests, NEW p \in Payments, OrderCommit(r, p)
  PROVE  OnePaymentMoves
<1> DEFINE b == request[r].booking
<1>1. /\ b \in Bookings /\ booking[b].status # "none" /\ request[r].amount > 0
      /\ payment[p].status = "none"
      /\ payment' = [payment EXCEPT ![p].status = "created", ![p].booking = {b},
                                    ![p].amount = request[r].amount]
      /\ UNCHANGED <<discharged, reopened, jobs>>
  BY CommandFields DEF OrderCommit, TypeInv, OrderInv, Asked, paymentLedger
<1>2. payment \in [Payments -> PaymentRows]
  BY DEF TypeInv, TypeOK
<1> HIDE DEF b
<1>3. /\ payment'[p].status = "created" /\ payment'[p].booking = {b}
      /\ payment'[p].amount = request[r].amount
      /\ payment'[p].refunded = payment[p].refunded /\ payment'[p].reasons = payment[p].reasons
      /\ \A q \in Payments \ {p} : payment'[q] = payment[q]
  BY <1>1, <1>2 DEF PaymentRows
<1>4. \A q \in Payments : LedgerSame(q) /\ NoneSent(q)
  BY <1>1 DEF LedgerSame, NoneSent, OrphanQueued
<1>5. Opened(p)
  BY <1>1, <1>3, <1>4 DEF Opened
<1> QED BY <1>3, <1>4, <1>5 DEF OnePaymentMoves, PayMoves, PaySame

LEMMA OrphanMoves ==
  ASSUME TypeInv, OrderInv, NEW r \in Requests, ConfirmOrphan(r)
  PROVE  OnePaymentMoves
<1> DEFINE p == request[r].payment
<1>1. p \in Payments /\ request[r].kind = "confirm" /\ request[r].status # "pending_payment"
  BY CommandFields DEF ConfirmOrphan, TypeInv
<1>2. PICK b \in Bookings :
        PaysFor(p, b) /\ (CapturesUndisturbed => booking[b].status # "pending_payment")
  <2>1. PICK b \in Bookings : PaysFor(p, b)
    BY <1>1 DEF OrderInv, Asked, OrdersMade
  <2> QED BY <1>1, <2>1 DEF OrderInv, ReadsStand, Stands, PaysFor
<1>3. /\ jobs' = jobs \cup {[job |-> "orphan", ref |-> p, at |-> 0]}
      /\ UNCHANGED <<payment, discharged, reopened>>
  BY DEF ConfirmOrphan, paymentVars, paymentLedger
<1> HIDE DEF p
<1>4. \A q \in Payments \ {p} : NoneSent(q)
  BY <1>3 DEF NoneSent, OrphanQueued
<1>5. OrphanSent(p)
  BY <1>2, <1>3 DEF OrphanSent, LedgerSame
<1> QED BY <1>1, <1>3, <1>4, <1>5 DEF OnePaymentMoves, PayMoves, PaySame, LedgerSame

LEMMA CapturePays ==
  ASSUME TypeInv, OrderInv, NEW r \in Requests, ConfirmCapture(r)
  PROVE  OnePaymentMoves
<1> DEFINE p == request[r].payment
<1>1. p \in Payments
  BY CommandFields DEF ConfirmCapture, TypeInv
<1>2. PICK b \in Bookings : PaysFor(p, b) /\ Confirmed(b)
  BY CaptureMoves DEF PaysFor
<1>3. /\ payment' = [payment EXCEPT ![p].status = "captured", ![p].capturedAt = now]
      /\ discharged' = [discharged EXCEPT ![p] = @ + 1]
      /\ UNCHANGED reopened
      /\ \E c \in Bookings : jobs' = jobs \cup {[job |-> "complete", ref |-> c,
                                                at |-> CompletionDue(request[r].endsAt)]}
  BY <1>2 DEF ConfirmCapture, PaysFor
<1>4. payment \in [Payments -> PaymentRows] /\ discharged \in [Payments -> Nat]
  BY DEF TypeInv, TypeOK
<1> HIDE DEF p
<1>5. /\ payment'[p].status = "captured" /\ OrderSame(p)
      /\ payment'[p].refunded = payment[p].refunded /\ payment'[p].reasons = payment[p].reasons
      /\ \A q \in Payments \ {p} : payment'[q] = payment[q]
  BY <1>1, <1>3, <1>4 DEF PaymentRows, OrderSame
<1>6. discharged'[p] = discharged[p] + 1 /\ \A q \in Payments \ {p} : discharged'[q] = discharged[q]
  BY <1>1, <1>3, <1>4
<1>7. \A q \in Payments : NoneSent(q)
  BY <1>3 DEF NoneSent, OrphanQueued
<1>8. Captured(p)
  BY <1>1, <1>2, <1>3, <1>5, <1>6, <1>7 DEF Captured
<1> QED BY <1>1, <1>3, <1>5, <1>6, <1>7, <1>8 DEF OnePaymentMoves, PayMoves, PaySame, LedgerSame

(* A refund by the policy, whoever asked for it. *)
LEMMA RefundPays ==
  ASSUME TypeOK, NEW p \in Payments, NEW amount \in Nat, amount # 0,
         NEW reason \in Tiers \cup {"admin"}, NEW fully \in BOOLEAN,
         Refunded(p, amount, reason, fully), UNCHANGED <<discharged, reopened, jobs>>,
         CapturesWhole =>
           payment[p].reasons \cap (FullReversalReasons \cup {"orphan_capture"}) = {}
  PROVE  OnePaymentMoves
<1>1. reason \in RefundReasons
  BY DEF RefundReasons
<1>2. /\ \A q \in Payments \ {p} : payment'[q] = payment[q]
      /\ payment[p].status \in { "captured", "partially_refunded" }
      /\ payment'[p].status \in { "refunded", "partially_refunded" }
      /\ OrderSame(p)
      /\ payment'[p].refunded = payment[p].refunded + amount
      /\ payment'[p].reasons = payment[p].reasons \cup {reason}
  BY <1>1, RefundedRow DEF OrderSame
<1>3. payment'[p].refunded > payment[p].refunded
  BY <1>2 DEF TypeOK, PaymentRows
<1>4. \A q \in Payments : LedgerSame(q) /\ NoneSent(q)
  BY DEF LedgerSame, NoneSent, OrphanQueued
<1>5. GivenBack(p)
  BY <1>2, <1>3, <1>4 DEF GivenBack
<1> QED BY <1>2, <1>4, <1>5 DEF OnePaymentMoves, PayMoves, PaySame

LEMMA CancelTier ==
  ASSUME NEW r \in Requests
  PROVE  CancelOutcome(r).tier \in Tiers
BY DEF CancelOutcome, ResolveRefund, Outcome, Tiers

LEMMA CancelPays ==
  ASSUME TypeInv, NEW r \in Requests, CancelUnpaid(r) \/ CancelPaid(r)
  PROVE  OnePaymentMoves
<1>1. UNCHANGED <<discharged, reopened, jobs>> /\ \A q \in Payments : NoneSent(q)
  BY DEF CancelUnpaid, CancelPaid, Cancelled, NoneSent, OrphanQueued, paymentLedger
<1>2. CASE UNCHANGED payment
  BY <1>1, <1>2, SamePays DEF paymentVars, paymentLedger
<1>3. CASE CancelPaid(r) /\ ~ UNCHANGED payment
  <2> DEFINE p == request[r].payment
  <2>1. /\ p \in Payments /\ payment[p].status = "captured"
        /\ CancelOutcome(r).refund # 0
        /\ Refunded(p, CancelOutcome(r).refund, CancelOutcome(r).tier,
                    \/ CancelOutcome(r).tier = "owner_cancelled"
                    \/ CancelOutcome(r).refund = booking[request[r].booking].total)
    BY <1>3 DEF CancelPaid
  <2>2. CancelOutcome(r).refund \in Nat /\ CancelOutcome(r).tier \in Tiers
    BY <1>3, CancelOutcomeTyped, CancelTier DEF CancelPaid, TypeInv
  <2>3. CapturesWhole => payment[p].reasons = {}
    BY <2>1 DEF CapturesWhole
  <2> QED BY <1>1, <2>1, <2>2, <2>3, RefundPays DEF TypeInv
<1> QED BY <1>2, <1>3 DEF CancelUnpaid

LEMMA AdminPays ==
  ASSUME TypeInv, NEW b \in Bookings, NEW option, AdminRefund(b, option)
  PROVE  OnePaymentMoves
<1> DEFINE left(p) == RefundableOf(payment[p].amount, payment[p].refunded, payment[p].reasons)
<1>1. PICK p \in LockedForRefund(b) :
        \E amount \in AdminRefundAmounts(option, left(p)) :
          Refunded(p, amount, "admin", amount = left(p))
  BY DEF AdminRefund
<1>2. PICK amount \in AdminRefundAmounts(option, left(p)) :
        Refunded(p, amount, "admin", amount = left(p))
  BY <1>1
<1>3. p \in Payments /\ "orphan_capture" \notin payment[p].reasons
  BY DEF LockedForRefund, Refundable
<1>4. left(p) \in Int
  BY <1>3 DEF RefundableOf, TypeInv, TypeOK, PaymentRows
<1>5. amount \in 1..left(p)
  BY DEF AdminRefundAmounts
<1>6. payment[p].reasons \cap FullReversalReasons = {}
  <2>1. left(p) # 0
    BY <1>5
  <2> QED BY <2>1 DEF RefundableOf
<1>7. UNCHANGED <<discharged, reopened, jobs>>
  BY DEF AdminRefund, paymentLedger
<1> HIDE DEF left
<1>8. amount \in Nat /\ amount # 0
  BY <1>4, <1>5
<1>9. (amount = left(p)) \in BOOLEAN
  OBVIOUS
<1> QED BY <1>2, <1>3, <1>6, <1>7, <1>8, <1>9, RefundPays DEF TypeInv

LEMMA FailPays ==
  ASSUME TypeInv, NEW p \in Payments, Fail(p)
  PROVE  OnePaymentMoves
<1>1. /\ payment[p].status \notin {"none", "captured", "failed"}
      /\ payment' = [payment EXCEPT ![p].status = "failed"]
      /\ UNCHANGED <<discharged, reopened, jobs>>
  BY DEF Fail, paymentLedger
<1>2. /\ payment'[p].status = "failed" /\ OrderSame(p)
      /\ payment'[p].refunded = payment[p].refunded /\ payment'[p].reasons = payment[p].reasons
      /\ \A q \in Payments \ {p} : payment'[q] = payment[q]
  BY <1>1 DEF TypeInv, TypeOK, PaymentRows, OrderSame
<1>3. \A q \in Payments : LedgerSame(q) /\ NoneSent(q)
  BY <1>1 DEF LedgerSame, NoneSent, OrphanQueued
<1>4. Failed(p)
  BY <1>1, <1>2, <1>3 DEF Failed
<1> QED BY <1>2, <1>3, <1>4 DEF OnePaymentMoves, PayMoves, PaySame

LEMMA WorkerPays ==
  ASSUME TypeInv, NEW m \in jobs, NEW ack \in BOOLEAN,
         Expire(m, ack) \/ Complete(m, ack) \/ Orphan(m, ack)
  PROVE  OnePaymentMoves
<1> DEFINE p == m.ref
<1>1. \A q \in Payments : NoneSent(q)
  BY DEF Expire, Complete, Orphan, Acknowledge, NoneSent, OrphanQueued
<1>2. CASE Orphan(m, ack) /\ OrphanRefundDue(p)
  <2>1. /\ p \in Payments /\ OrphanQueued(p)
    BY <1>2, QueuedIs DEF Orphan, TypeInv
  <2>2. /\ \A q \in Payments \ {p} : payment'[q] = payment[q]
        /\ payment'[p].status = "refunded"
        /\ OrderSame(p)
        /\ payment'[p].refunded = payment[p].amount
        /\ payment'[p].reasons = payment[p].reasons \cup {"orphan_capture"}
    BY <1>2, OrphanRow DEF TypeInv, OrderSame
  <2>3. "orphan_capture" \notin payment[p].reasons /\ payment[p].refunded = 0
    BY <1>2, <2>1 DEF OrphanRefundDue, OrphanRefundReason, WithinCapture, TypeInv, TypeOK, PaymentRows
  <2>4. /\ discharged'[p] = discharged[p] + 1 /\ reopened'[p] = reopened[p] + payment[p].amount
        /\ \A q \in Payments \ {p} : LedgerSame(q)
    BY <1>2, <2>1 DEF Orphan, TypeInv, TypeOK, LedgerSame
  <2>5. SentBack(p)
    BY <1>1, <2>1, <2>2, <2>3, <2>4 DEF SentBack
  <2> QED BY <1>1, <2>1, <2>2, <2>4, <2>5 DEF OnePaymentMoves, PayMoves, PaySame
<1>3. CASE UNCHANGED paymentVars
  BY <1>1, <1>3, SamePays
<1> QED BY <1>2, <1>3 DEF Expire, Complete, Orphan

(* A step moves one payment at most, and only along these lines.            *)
LEMMA PayStep ==
  ASSUME TypeInv, OrderInv, [Next]_vars
  PROVE  OnePaymentMoves
<1>0. ASSUME UNCHANGED paymentVars, UNCHANGED jobs PROVE OnePaymentMoves
  BY <1>0, SamePays DEF NoneSent, OrphanQueued
<1>1. CASE Elsewhere
  <2>1. ASSUME NEW b \in Bookings, NEW w \in Windows, Create(b, w) PROVE OnePaymentMoves
    <3>1. \A q \in Payments : NoneSent(q)
      BY <2>1 DEF Create, NoneSent, OrphanQueued
    <3> QED BY <2>1, <3>1, SamePays DEF Create
  <2>2. ASSUME NEW p \in Payments, Pay(p) PROVE OnePaymentMoves
    BY <1>0, <2>2 DEF Pay
  <2>3. CASE Tick
    BY <1>0, <2>3 DEF Tick
  <2> QED BY <1>1, <2>1, <2>2, <2>3, AdminPays, FailPays, WorkerPays DEF Elsewhere, Worker
<1>2. ASSUME NEW r \in Requests, Reads(r) PROVE OnePaymentMoves
  BY <1>0, <1>2 DEF Reads, OrderRead, CheckInRead, ExtendRead, CancelRead, ConfirmRead
<1>3. ASSUME NEW r \in Requests, Commit(r) \/ Abandon(r) PROVE OnePaymentMoves
  <2>1. CASE CheckInCommit(r)
    <3>1. \A q \in Payments : NoneSent(q)
      BY <2>1 DEF CheckInCommit, NoneSent, OrphanQueued
    <3> QED BY <2>1, <3>1, SamePays DEF CheckInCommit
  <2>2. CASE ConfirmReplay(r) \/ ExtendCommit(r) \/ Abandon(r)
    BY <1>0, <2>2 DEF ConfirmReplay, ExtendCommit, Abandon
  <2> QED BY <1>3, <2>1, <2>2, OrderMoves, OrphanMoves, CapturePays, CancelPays DEF Commit
<1>4. CASE UNCHANGED vars
  BY <1>0, <1>4 DEF vars
<1> QED BY <1>1, <1>2, <1>3, <1>4, StepKinds

-----------------------------------------------------------------------------
(* What keeps the money of a booking straight.  A booking that awaits its   *)
(* payment has had none; a payment is discharged by its capture and by its  *)
(* orphan's refund; and of a booking's payments one at most stands.         *)
UnpaidUntouched ==
  \A p \in Payments, b \in Bookings :
    PaysFor(p, b) /\ booking[b].status = "pending_payment" =>
      payment[p].status \notin CapturedStatuses /\ Untouched(p)

DischargesOnce ==
  \A p \in Payments :
    /\ "orphan_capture" \notin payment[p].reasons => discharged[p] =< 1
    /\ "orphan_capture" \in payment[p].reasons =>
         discharged[p] =< 2 /\ payment[p].refunded = payment[p].amount
    /\ reopened[p] = IF "orphan_capture" \in payment[p].reasons THEN payment[p].refunded ELSE 0

OneStands == \A b \in Bookings : \A p, q \in Refundable(b) : p = q

RowsInv == TypeInv /\ OrderInv
MoneyInv == UnpaidUntouched /\ CapturesWhole /\ DischargesOnce /\ OneStands

LEMMA PendingWasPending ==
  ASSUME OneBookingMoves, NEW b \in Bookings, booking'[b].status = "pending_payment",
         booking[b].status # "none"
  PROVE  booking[b].status = "pending_payment" /\ ~ Confirmed(b)
<1>1. RowsSame(b) \/ RowsMove(b)
  BY DEF OneBookingMoves
<1> QED BY <1>1
    DEF RowsSame, RowsMove, Sold, Confirmed, CheckedIn, Extended, GivenUp, Lapsed, Completed, Live

LEMMA PaysForOne ==
  ASSUME NEW p, NEW b, NEW c, PaysFor(p, b), PaysFor(p, c)
  PROVE  b = c
BY DEF PaysFor

LEMMA PayTypes ==
  ASSUME TypeInv, NEW p \in Payments
  PROVE  /\ payment[p] \in PaymentRows
         /\ payment[p].refunded \in Nat /\ payment[p].amount \in Nat
         /\ payment[p].status \in PaymentStatuses
         /\ discharged[p] \in Nat /\ reopened[p] \in Nat
BY DEF TypeInv, TypeOK, PaymentRows

LEMMA OrdersMadeStep ==
  ASSUME TypeInv, OrdersMade, OneBookingMoves, OnePaymentMoves
  PROVE  OrdersMade'
<1> SUFFICES ASSUME NEW p \in Payments
    PROVE
      /\ payment'[p].status # "none" =>
           /\ \E b \in Bookings : payment'[p].booking = {b} /\ booking'[b].status # "none"
           /\ payment'[p].amount > 0
      /\ payment'[p].status = "none" => payment'[p].booking = {} /\ Untouched(p)'
  BY DEF OrdersMade, PaysFor
<1>1. PaySame(p) \/ PayMoves(p)
  BY DEF OnePaymentMoves
<1>2. ASSUME payment[p].status # "none", OrderSame(p)
      PROVE  /\ \E b \in Bookings : payment'[p].booking = {b} /\ booking'[b].status # "none"
             /\ payment'[p].amount > 0
  <2>1. PICK b \in Bookings : PaysFor(p, b) /\ booking[b].status # "none"
    BY <1>2 DEF OrdersMade
  <2>2. payment[p].amount > 0
    BY <1>2 DEF OrdersMade
  <2> QED BY <1>2, <2>1, <2>2, SoldStays DEF OrderSame, PaysFor
<1>3. CASE Opened(p)
  <2>1. PICK b \in Bookings : payment'[p].booking = {b} /\ booking[b].status # "none"
    BY <1>3 DEF Opened
  <2> QED BY <1>3, <2>1, SoldStays DEF Opened
<1>4. CASE PaySame(p) /\ payment[p].status = "none"
  <2>1. payment[p].booking = {} /\ Untouched(p)
    BY <1>4 DEF OrdersMade
  <2> QED BY <1>4, <2>1 DEF PaySame, LedgerSame, Untouched, NoneSent
<1>5. CASE payment'[p].status # "none" /\ payment[p].status # "none" /\ OrderSame(p)
  BY <1>2, <1>5
<1>6. CASE Captured(p) \/ Failed(p) \/ GivenBack(p) \/ SentBack(p) \/ OrphanSent(p)
  <2>1. payment[p].status # "none"
    <3>1. CASE payment[p].status = "none"
      <4>1. payment[p].booking = {} /\ Untouched(p)
        BY <3>1 DEF OrdersMade
      <4> QED BY <1>6, <3>1, <4>1
          DEF Captured, Failed, GivenBack, SentBack, OrphanSent, PaysFor, Untouched
    <3> QED BY <3>1
  <2>2. payment'[p].status # "none" /\ OrderSame(p)
    BY <1>6, <2>1 DEF Captured, Failed, GivenBack, SentBack, OrphanSent, OrderSame
  <2> QED BY <1>5, <2>1, <2>2
<1>7. CASE PaySame(p) /\ payment[p].status # "none"
  BY <1>5, <1>7 DEF PaySame, OrderSame
<1> QED BY <1>1, <1>3, <1>4, <1>6, <1>7 DEF PayMoves

LEMMA UnpaidStep ==
  ASSUME CapturesUndisturbed, TypeInv, OrdersMade, UnpaidUntouched,
         OneBookingMoves, OnePaymentMoves
  PROVE  UnpaidUntouched'
<1> SUFFICES ASSUME NEW p \in Payments, NEW b \in Bookings,
                    payment'[p].booking = {b}, booking'[b].status = "pending_payment"
             PROVE  payment'[p].status \notin CapturedStatuses /\ Untouched(p)'
  BY DEF UnpaidUntouched, PaysFor
<1>1. PaySame(p) \/ PayMoves(p)
  BY DEF OnePaymentMoves
<1>2. CASE Opened(p)
  <2>1. Untouched(p)
    BY <1>2 DEF Opened, OrdersMade
  <2> QED BY <1>2, <2>1 DEF Opened, LedgerSame, Untouched, NoneSent, CapturedStatuses
<1>3. CASE payment'[p].booking = payment[p].booking
  <2>1. PaysFor(p, b)
    BY <1>3 DEF PaysFor
  <2>2. payment[p].status # "none"
    BY <2>1 DEF OrdersMade, PaysFor
  <2>3. booking[b].status # "none"
    BY <2>1, <2>2, PaysForOne DEF OrdersMade
  <2>4. booking[b].status = "pending_payment" /\ ~ Confirmed(b)
    BY <2>3, PendingWasPending
  <2>5. payment[p].status \notin CapturedStatuses /\ Untouched(p)
    BY <2>1, <2>4 DEF UnpaidUntouched
  <2>6. ~ Captured(p) /\ ~ OrphanSent(p) /\ ~ GivenBack(p) /\ ~ SentBack(p)
    BY <2>1, <2>4, <2>5, PaysForOne
    DEF Captured, OrphanSent, GivenBack, SentBack, CapturedStatuses, Untouched
  <2>7. CASE PaySame(p)
    BY <2>5, <2>7 DEF PaySame, LedgerSame, Untouched, NoneSent
  <2>8. CASE Failed(p)
    BY <2>5, <2>8 DEF Failed, LedgerSame, Untouched, NoneSent, CapturedStatuses
  <2> QED BY <1>1, <1>2, <2>6, <2>7, <2>8 DEF PayMoves
<1> QED BY <1>1, <1>2, <1>3
    DEF PayMoves, PaySame, OrphanSent, Captured, Failed, GivenBack, SentBack, OrderSame

LEMMA CapturedPending ==
  ASSUME CapturesUndisturbed, UnpaidUntouched, NEW p \in Payments, Captured(p)
  PROVE  Untouched(p)
BY DEF UnpaidUntouched, Captured, Confirmed

LEMMA CapturesStep ==
  ASSUME CapturesUndisturbed, TypeInv, TypeInv', OrdersMade, UnpaidUntouched, CapturesWhole,
         OnePaymentMoves
  PROVE  CapturesWhole'
<1> SUFFICES ASSUME NEW p \in Payments
    PROVE  /\ payment'[p].status = "captured" => payment'[p].refunded = 0 /\ payment'[p].reasons = {}
           /\ payment'[p].reasons # {} => payment'[p].refunded > 0
           /\ payment'[p].status \in {"partially_refunded", "refunded"} => payment'[p].refunded > 0
  BY DEF CapturesWhole
<1>1. PaySame(p) \/ PayMoves(p)
  BY DEF OnePaymentMoves
<1>2. /\ payment[p].status = "captured" => payment[p].refunded = 0 /\ payment[p].reasons = {}
      /\ payment[p].reasons # {} => payment[p].refunded > 0
      /\ payment[p].status \in {"partially_refunded", "refunded"} => payment[p].refunded > 0
  BY DEF CapturesWhole
<1>3. CASE PaySame(p) \/ OrphanSent(p)
  BY <1>2, <1>3 DEF PaySame, OrphanSent
<1>4. CASE Captured(p)
  BY <1>4, CapturedPending DEF Captured, Untouched
<1>5. CASE Opened(p) \/ Failed(p)
  BY <1>2, <1>5 DEF Opened, Failed
<1>6. CASE GivenBack(p)
  <2>1. payment[p].refunded \in Nat
    BY PayTypes
  <2>2. payment'[p].refunded \in Nat /\ payment'[p].refunded > payment[p].refunded
    BY <1>6 DEF GivenBack, TypeInv, TypeOK, PaymentRows
  <2>3. payment'[p].refunded > 0
    BY <2>1, <2>2
  <2> QED BY <1>6, <2>3 DEF GivenBack
<1>7. CASE SentBack(p)
  <2>1. payment[p].status # "none"
    BY <1>7 DEF SentBack, OrdersMade, Untouched
  <2>2. payment[p].amount > 0
    BY <2>1 DEF OrdersMade
  <2> QED BY <1>7, <2>2 DEF SentBack
<1> QED BY <1>1, <1>3, <1>4, <1>5, <1>6, <1>7 DEF PayMoves

LEMMA DischargesStep ==
  ASSUME CapturesUndisturbed, TypeInv, OrdersMade, UnpaidUntouched, CapturesWhole, DischargesOnce,
         OnePaymentMoves
  PROVE  DischargesOnce'
<1> SUFFICES ASSUME NEW p \in Payments
    PROVE  /\ "orphan_capture" \notin payment'[p].reasons => discharged'[p] =< 1
           /\ "orphan_capture" \in payment'[p].reasons =>
                discharged'[p] =< 2 /\ payment'[p].refunded = payment'[p].amount
           /\ reopened'[p] = IF "orphan_capture" \in payment'[p].reasons THEN payment'[p].refunded ELSE 0
  BY DEF DischargesOnce
<1>1. PaySame(p) \/ PayMoves(p)
  BY DEF OnePaymentMoves
<1>2. /\ "orphan_capture" \notin payment[p].reasons => discharged[p] =< 1
      /\ "orphan_capture" \in payment[p].reasons =>
           discharged[p] =< 2 /\ payment[p].refunded = payment[p].amount
      /\ reopened[p] = IF "orphan_capture" \in payment[p].reasons THEN payment[p].refunded ELSE 0
  BY DEF DischargesOnce
<1>3. discharged[p] \in Nat /\ payment[p].amount \in Nat
  BY PayTypes
<1>4. CASE PaySame(p) \/ OrphanSent(p)
  BY <1>2, <1>4 DEF PaySame, OrphanSent, LedgerSame
<1>5. CASE Captured(p)
  <2>1. Untouched(p)
    BY <1>5, CapturedPending
  <2> QED BY <1>2, <1>5, <2>1 DEF Captured, Untouched
<1>6. CASE Opened(p)
  <2>1. Untouched(p)
    BY <1>6 DEF Opened, OrdersMade
  <2> QED BY <1>2, <1>6, <2>1 DEF Opened, Untouched, LedgerSame
<1>7. CASE Failed(p)
  BY <1>2, <1>7 DEF Failed, OrderSame, LedgerSame
<1>8. CASE GivenBack(p)
  <2>1. "orphan_capture" \notin payment[p].reasons /\ "orphan_capture" \notin payment'[p].reasons
    BY <1>8 DEF GivenBack, Tiers
  <2> QED BY <1>2, <1>8, <2>1 DEF GivenBack, LedgerSame
<1>9. CASE SentBack(p)
  BY <1>2, <1>3, <1>9 DEF SentBack, OrderSame
<1> QED BY <1>1, <1>4, <1>5, <1>6, <1>7, <1>8, <1>9 DEF PayMoves

(* A payment joins the refundable ones of a booking by its capture only.    *)
LEMMA RefundableByCapture ==
  ASSUME TypeInv, NEW p \in Payments, NEW b \in Bookings, PaySame(p) \/ PayMoves(p),
         p \in Refundable(b)', p \notin Refundable(b)
  PROVE  Captured(p) /\ PaysFor(p, b)
<1>1. /\ payment'[p].booking = {b} /\ payment'[p].status \in CapturedStatuses
      /\ "orphan_capture" \notin payment'[p].reasons
  BY DEF Refundable
<1>2. ~ (/\ payment[p].booking = {b} /\ payment[p].status \in CapturedStatuses
         /\ "orphan_capture" \notin payment[p].reasons)
  BY DEF Refundable
<1> QED BY <1>1, <1>2
    DEF PayMoves, PaySame, Opened, OrphanSent, Captured, Failed, GivenBack, SentBack, OrderSame,
        CapturedStatuses, PaysFor

LEMMA CapturedFirst ==
  ASSUME CapturesUndisturbed, UnpaidUntouched, NEW p \in Payments, NEW b \in Bookings,
         Captured(p), PaysFor(p, b)
  PROVE  Refundable(b) = {}
<1>1. booking[b].status = "pending_payment"
  BY PaysForOne DEF Captured, Confirmed
<1> QED BY <1>1 DEF UnpaidUntouched, Refundable, PaysFor

LEMMA OnlyOneCaptured ==
  ASSUME TypeInv, OnePaymentMoves, NEW p \in Payments, NEW q \in Payments,
         Captured(p), Captured(q)
  PROVE  p = q
<1>1. discharged[p] \in Nat /\ discharged[q] \in Nat
  BY PayTypes
<1>2. ~ PaySame(p) /\ ~ PaySame(q)
  BY <1>1 DEF Captured, PaySame, LedgerSame
<1> QED BY <1>2 DEF OnePaymentMoves

LEMMA OneStandsStep ==
  ASSUME CapturesUndisturbed, TypeInv, UnpaidUntouched, OneStands, OnePaymentMoves
  PROVE  OneStands'
<1> SUFFICES ASSUME NEW b \in Bookings, NEW p \in Refundable(b)', NEW q \in Refundable(b)'
             PROVE  p = q
  BY DEF OneStands
<1>1. p \in Payments /\ q \in Payments
  BY DEF Refundable
<1>2. (PaySame(p) \/ PayMoves(p)) /\ (PaySame(q) \/ PayMoves(q))
  BY <1>1 DEF OnePaymentMoves
<1>3. CASE p \in Refundable(b) /\ q \in Refundable(b)
  BY <1>3 DEF OneStands
<1>4. CASE p \notin Refundable(b)
  <2>1. Captured(p) /\ PaysFor(p, b)
    BY <1>1, <1>2, <1>4, RefundableByCapture
  <2>2. q \notin Refundable(b)
    BY <1>1, <2>1, CapturedFirst
  <2>3. Captured(q)
    BY <1>1, <1>2, <2>2, RefundableByCapture
  <2> QED BY <1>1, <2>1, <2>3, OnlyOneCaptured
<1>5. CASE q \notin Refundable(b)
  <2>1. Captured(q) /\ PaysFor(q, b)
    BY <1>1, <1>2, <1>5, RefundableByCapture
  <2>2. p \notin Refundable(b)
    BY <1>1, <2>1, CapturedFirst
  <2> QED BY <1>4, <2>2
<1> QED BY <1>3, <1>4, <1>5

LEMMA OrderStays ==
  ASSUME OnePaymentMoves, NEW p \in Payments, payment[p].status # "none"
  PROVE  payment'[p].status # "none"
<1>1. PaySame(p) \/ PayMoves(p)
  BY DEF OnePaymentMoves
<1> QED BY <1>1
    DEF PaySame, PayMoves, Opened, OrphanSent, Captured, Failed, GivenBack, SentBack

LEMMA RequestMoves ==
  ASSUME TypeOK, [Next]_vars, NEW r \in Requests
  PROVE  request'[r] = request[r] \/ request'[r] = Idle \/ Reads(r)
<1>1. CASE UNCHANGED vars
  BY <1>1 DEF vars
<1>2. CASE Elsewhere
  BY <1>2, ElsewhereAlone
<1>3. ASSUME NEW q \in Requests, Reads(q)
      PROVE  request'[r] = request[r] \/ Reads(r)
  BY <1>3, BegunIsBegun
<1>4. ASSUME NEW q \in Requests, Commit(q) \/ Abandon(q)
      PROVE  request'[r] = request[r] \/ request'[r] = Idle
  BY <1>4, CommitEnds DEF End, TypeOK
<1> QED BY <1>1, <1>2, <1>3, <1>4, StepKinds

LEMMA AskedStep ==
  ASSUME TypeInv, OrderInv, OneBookingMoves, OnePaymentMoves, [Next]_vars, NEW r \in Requests
  PROVE  Asked(r)'
<1>t. TypeOK
  BY DEF TypeInv
<1>1. CASE request'[r] = request[r]
  <2>1. Asked(r)
    BY DEF OrderInv
  <2>2. request[r].kind \in {"order", "check_in"} => request[r].booking \in Bookings
    BY <1>t, CommandFields
  <2>3. request[r].kind = "confirm" => request[r].payment \in Payments
    BY <1>t, CommandFields
  <2> QED BY <1>1, <2>1, <2>2, <2>3, SoldStays, OrderStays DEF Asked
<1>2. CASE request'[r] = Idle
  BY <1>2 DEF Idle, Asked
<1>3. ASSUME NEW b \in Bookings, OrderRead(r, b)
      PROVE  Asked(r)'
  <2>1. request'[r] = [kind |-> "order", booking |-> b, amount |-> booking[b].total]
    BY <1>t, <1>3, Begun DEF OrderRead
  <2>2. booking[b].status = "pending_payment" /\ UNCHANGED booking
    BY <1>3 DEF OrderRead, AwaitsPayment, bookingVars
  <2>3. booking[b].total > 0
    BY <2>2 DEF OrderInv, SoldForMoney
  <2> QED BY <2>1, <2>2, <2>3 DEF Asked
<1>4. ASSUME NEW b \in Bookings, CheckInRead(r, b)
      PROVE  Asked(r)'
  <2>1. request'[r] = [kind |-> "check_in", booking |-> b, endsAt |-> booking[b].endsAt]
    BY <1>t, <1>4, Begun DEF CheckInRead
  <2>2. booking[b].status # "none" /\ UNCHANGED booking
    BY <1>4 DEF CheckInRead, bookingVars, Lifecycle!CanFire, Lifecycle!Transitions
  <2> QED BY <2>1, <2>2 DEF Asked
<1>5. ASSUME NEW b \in Bookings, NEW t \in Times, ExtendRead(r, b, t)
      PROVE  Asked(r)'
  BY <1>t, <1>5, ExtendBegun DEF Asked
<1>6. ASSUME NEW b \in Bookings, NEW by \in Cancellers, CancelRead(r, b, by)
      PROVE  Asked(r)'
  BY <1>t, <1>6, CancelBegun DEF Asked
<1>7. ASSUME NEW p \in Payments, NEW s \in Sources, ConfirmRead(r, p, s)
      PROVE  Asked(r)'
  <2>1. PICK b \in payment[p].booking :
          Begin(r, [kind |-> "confirm", payment |-> p, source |-> s,
                    status |-> booking[b].status, endsAt |-> booking[b].endsAt])
    BY <1>7 DEF ConfirmRead
  <2>2. request'[r] = [kind |-> "confirm", payment |-> p, source |-> s,
                       status |-> booking[b].status, endsAt |-> booking[b].endsAt]
    BY <1>t, <2>1, Begun
  <2>3. payment[p].status # "none" /\ UNCHANGED payment
    BY <1>7 DEF ConfirmRead, paymentVars, paymentLedger
  <2> QED BY <2>2, <2>3 DEF Asked
<1> QED BY <1>t, <1>1, <1>2, <1>3, <1>4, <1>5, <1>6, <1>7, RequestMoves DEF Reads

-----------------------------------------------------------------------------
LEMMA RowsInit == Init => RowsInv /\ MoneyInv /\ LiveHoldsSlot
<1> SUFFICES ASSUME Init PROVE RowsInv /\ MoneyInv /\ LiveHoldsSlot
  OBVIOUS
<1>1. /\ \A b \in Bookings : booking[b] = NoBooking /\ slot[b] = NoSlot
      /\ \A p \in Payments : payment[p] = NoOrder /\ discharged[p] = 0 /\ reopened[p] = 0
      /\ \A r \in Requests : request[r] = Idle
      /\ jobs = {}
  BY DEF Init
<1>2. OrderInv
  BY <1>1 DEF OrderInv, OrdersMade, Asked, SoldForMoney, ReadsStand, Stands, Untouched,
              OrphanQueued, NoOrder, NoBooking, Idle
<1>3. LiveHoldsSlot
  BY <1>1 DEF LiveHoldsSlot, Live, Occupies, NoBooking, NoSlot
<1>4. MoneyInv
  BY <1>1 DEF MoneyInv, UnpaidUntouched, CapturesWhole, DischargesOnce, OneStands, Refundable,
              PaysFor, Untouched, OrphanQueued, CapturedStatuses, NoOrder, NoBooking
<1> QED BY <1>2, <1>3, <1>4, TypeInit DEF RowsInv

LEMMA RowsMoved == RowsInv /\ [Next]_vars => OneBookingMoves /\ OnePaymentMoves
BY BookingStep, PayStep DEF RowsInv

(* Whatever is overtaken, orders are made for what was sold, and what was   *)
(* read by a command that may not be overtaken still stands.                *)
LEMMA RowsStep == RowsInv /\ [Next]_vars => RowsInv'
<1> SUFFICES ASSUME RowsInv, [Next]_vars PROVE RowsInv'
  OBVIOUS
<1>1. TypeInv /\ OrderInv /\ OrdersMade /\ SoldForMoney
  BY DEF RowsInv, OrderInv
<1>2. TypeInv'
  BY <1>1, TypeStep
<1>3. OneBookingMoves /\ OnePaymentMoves
  BY RowsMoved
<1>4. OrdersMade' /\ SoldForMoney' /\ ReadsStand' /\ \A r \in Requests : Asked(r)'
  BY <1>1, <1>2, <1>3, OrdersMadeStep, SoldStep, ReadsStep, AskedStep
<1> QED BY <1>2, <1>4 DEF RowsInv, OrderInv

LEMMA MoneyStep ==
  ASSUME CapturesUndisturbed
  PROVE  RowsInv /\ MoneyInv /\ [Next]_vars => MoneyInv'
<1> SUFFICES ASSUME RowsInv, MoneyInv, [Next]_vars PROVE MoneyInv'
  OBVIOUS
<1>1. /\ TypeInv /\ TypeInv' /\ OrdersMade
      /\ UnpaidUntouched /\ CapturesWhole /\ DischargesOnce /\ OneStands
  BY RowsStep DEF RowsInv, OrderInv, MoneyInv
<1> QED BY <1>1, RowsMoved, UnpaidStep, CapturesStep, DischargesStep, OneStandsStep DEF MoneyInv

-----------------------------------------------------------------------------
(* What is paid for.  WindowPaidFor is not inductive: what an extension     *)
(* adds to whatever the base has become pays for its new end because the    *)
(* stay up to the end that it read was paid for, and stays so.              *)
PaidUntil(b, to) == \E rate \in Rates : booking[b].base >= StayPrice(rate, booking[b].from, to)

ExtensionsPaid ==
  \A r \in Requests : request[r].kind = "extend" =>
    PaidUntil(request[r].booking, request[r].currentEndsAt)

PaidInv == WindowPaidFor /\ ExtensionsPaid

(* What is paid for up to some moment stays paid for. *)
LEMMA BaseGrows ==
  ASSUME TypeInv, TypeInv', OneBookingMoves, NEW b \in Bookings, booking[b].status # "none"
  PROVE  booking'[b].from = booking[b].from /\ booking'[b].base >= booking[b].base
<1>1. RowsSame(b) \/ RowsMove(b)
  BY DEF OneBookingMoves
<1>2. booking[b].base \in Nat
  BY DEF TypeInv, TypeOK, BookingRows
<1>3. CASE Extended(b)
  <2>1. PICK r \in Requests : /\ request[r].kind = "extend"
                              /\ booking'[b].base = booking[b].base + ExtensionDelta(r)
    BY <1>3 DEF Extended
  <2>2. ExtensionDelta(r) \in Nat
    BY <2>1, ExtensionAdds
  <2> QED BY <1>2, <1>3, <2>1, <2>2 DEF Extended
<1>4. CASE booking'[b] = booking[b] \/ StaySame(b)
  BY <1>2, <1>4 DEF StaySame
<1> QED BY <1>1, <1>3, <1>4
    DEF RowsSame, RowsMove, Sold, Confirmed, CheckedIn, GivenUp, Lapsed, Completed

LEMMA PaidStays ==
  ASSUME TypeInv, TypeInv', OneBookingMoves, NEW b \in Bookings, NEW to \in Times,
         booking[b].status # "none", booking[b].from =< to, PaidUntil(b, to)
  PROVE  \E rate \in Rates : booking'[b].base >= StayPrice(rate, booking'[b].from, to)
<1>1. PICK rate \in Rates : booking[b].base >= StayPrice(rate, booking[b].from, to)
  BY DEF PaidUntil
<1>2. booking[b].from \in Times /\ booking[b].base \in Nat /\ booking'[b].base \in Nat
  BY DEF TypeInv, TypeOK, BookingRows
<1>3. StayPrice(rate, booking[b].from, to) \in Nat
  BY <1>2, StayPriced
<1>4. booking'[b].from = booking[b].from /\ booking'[b].base >= booking[b].base
  BY BaseGrows
<1>5. booking'[b].base >= StayPrice(rate, booking'[b].from, to)
  BY <1>1, <1>2, <1>3, <1>4
<1> QED BY <1>5

LEMMA WindowPaidStep ==
  ASSUME TypeInv, TypeInv', PaidInv, OneBookingMoves
  PROVE  WindowPaidFor'
<1> SUFFICES ASSUME NEW b \in Bookings, booking'[b].status # "none"
             PROVE  \E rate \in Rates :
                      booking'[b].base >= StayPrice(rate, booking'[b].from, booking'[b].endsAt)
  BY DEF WindowPaidFor
<1>1. RowsSame(b) \/ RowsMove(b)
  BY DEF OneBookingMoves
<1>2. booking[b].base \in Nat /\ booking'[b].base \in Nat
  BY DEF TypeInv, TypeOK, BookingRows
<1>3. CASE Sold(b)
  BY <1>2, <1>3 DEF Sold
<1>4. CASE Extended(b)
  <2>1. PICK r \in Requests :
          /\ request[r].kind = "extend" /\ request[r].booking = b
          /\ booking'[b].endsAt = request[r].newEndsAt
          /\ booking'[b].base = booking[b].base + ExtensionDelta(r)
    BY <1>4 DEF Extended
  <2> DEFINE from == booking[b].from
             endsAt == request[r].currentEndsAt
             newEndsAt == request[r].newEndsAt
             rate == request[r].rate
  <2>2. from \in Times /\ endsAt \in Times /\ newEndsAt \in Times /\ rate \in Rates
    BY <2>1, CommandFields DEF TypeInv, TypeOK, BookingRows
  <2>3. from =< endsAt /\ endsAt < newEndsAt /\ PaidUntil(b, endsAt)
    BY <2>1 DEF TypeInv, ExtensionsForward, PaidInv, ExtensionsPaid
  <2>4. ExtensionDelta(r) = ExtensionBase(rate, endsAt - from, newEndsAt - from, Unit)
    BY <2>1 DEF ExtensionDelta
  <2>5. booking'[b].from = from /\ booking'[b].endsAt = newEndsAt
    BY <1>4, <2>1 DEF Extended
  <2> HIDE DEF from, endsAt, newEndsAt, rate
  <2>6. PICK lo \in Rates : booking[b].base >= StayPrice(lo, from, endsAt)
    BY <2>3 DEF PaidUntil, from
  <2>7. \E least \in Rates : booking[b].base + ExtensionDelta(r) >= StayPrice(least, from, newEndsAt)
    BY <1>2, <2>2, <2>3, <2>4, <2>6, ExtensionPaid
  <2> QED BY <2>1, <2>5, <2>7
<1>5. CASE booking[b].status # "none" /\ StaySame(b)
  BY <1>5 DEF PaidInv, WindowPaidFor, StaySame
<1>6. CASE RowsSame(b)
  BY <1>6 DEF PaidInv, WindowPaidFor, RowsSame
<1> QED BY <1>1, <1>3, <1>4, <1>5, <1>6
    DEF RowsMove, Confirmed, CheckedIn, GivenUp, Lapsed, Completed, Live

LEMMA ExtensionsPaidStep ==
  ASSUME TypeInv, TypeInv', PaidInv, OneBookingMoves, [Next]_vars
  PROVE  ExtensionsPaid'
<1>t. TypeOK
  BY DEF TypeInv
<1> SUFFICES ASSUME NEW r \in Requests, request'[r].kind = "extend"
             PROVE  \E rate \in Rates :
                      booking'[request'[r].booking].base >=
                        StayPrice(rate, booking'[request'[r].booking].from, request'[r].currentEndsAt)
  BY DEF ExtensionsPaid, PaidUntil
<1>1. CASE request'[r] = request[r]
  <2> DEFINE b == request[r].booking
             to == request[r].currentEndsAt
  <2>1. /\ b \in Bookings /\ to \in Times
        /\ booking[b].status # "none" /\ booking[b].from =< to /\ PaidUntil(b, to)
    BY <1>t, <1>1, CommandFields DEF TypeInv, ExtensionsForward, PaidInv, ExtensionsPaid
  <2> HIDE DEF b, to
  <2>2. \E rate \in Rates : booking'[b].base >= StayPrice(rate, booking'[b].from, to)
    BY <2>1, PaidStays
  <2> QED BY <1>1, <2>2 DEF b, to
<1>2. CASE request'[r] = Idle
  BY <1>2 DEF Idle
<1>3. ASSUME NEW b \in Bookings, NEW t \in Times, ExtendRead(r, b, t)
      PROVE  \E rate \in Rates :
               booking'[request'[r].booking].base >=
                 StayPrice(rate, booking'[request'[r].booking].from, request'[r].currentEndsAt)
  <2>1. /\ Live(b) /\ booking' = booking
        /\ request'[r].booking = b /\ request'[r].currentEndsAt = booking[b].endsAt
    BY <1>t, <1>3, ExtendBegun
  <2> QED BY <2>1 DEF PaidInv, WindowPaidFor, Live
<1>4. ASSUME NEW b \in Bookings, OrderRead(r, b) \/ CheckInRead(r, b)
      PROVE  FALSE
  BY <1>t, <1>4, Begun DEF OrderRead, CheckInRead
<1>5. ASSUME NEW b \in Bookings, NEW by \in Cancellers, CancelRead(r, b, by)
      PROVE  FALSE
  BY <1>t, <1>5, CancelBegun
<1>6. ASSUME NEW p \in Payments, NEW s \in Sources, ConfirmRead(r, p, s)
      PROVE  FALSE
  <2>1. \E command : command.kind = "confirm" /\ Begin(r, command)
    BY <1>6 DEF ConfirmRead
  <2> QED BY <1>t, <2>1, Begun
<1> QED BY <1>t, <1>1, <1>2, <1>3, <1>4, <1>5, <1>6, RequestMoves DEF Reads

(* Whatever extensions overtake each other, at whatever rates they were     *)
(* priced and for any number of them, a booking's base price covers the     *)
(* whole window that it holds at no less than the lowest of the rates.      *)
THEOREM WindowAlwaysPaid == Spec => []WindowPaidFor
<1>1. Init => PaidInv
  BY DEF Init, PaidInv, WindowPaidFor, ExtensionsPaid, NoBooking, Idle
<1>2. RowsInv /\ PaidInv /\ [Next]_vars => PaidInv'
  <2> SUFFICES ASSUME RowsInv, PaidInv, [Next]_vars PROVE PaidInv'
    OBVIOUS
  <2>1. TypeInv /\ TypeInv' /\ OneBookingMoves
    BY RowsStep, RowsMoved DEF RowsInv
  <2> QED BY <2>1, WindowPaidStep, ExtensionsPaidStep DEF PaidInv
<1>3. PaidInv => WindowPaidFor
  BY DEF PaidInv
<1> QED BY <1>1, <1>2, <1>3, RowsStep, RowsInit, PTL DEF Spec

-----------------------------------------------------------------------------
(* A live booking's place is never resold: it occupies its slot as long as  *)
(* it awaits payment, is confirmed or under way, and no other booking does. *)
THEOREM LiveBookingsHold ==
  ASSUME CapturesUndisturbed, CheckInsUndisturbed
  PROVE  Spec => []LiveHoldsSlot
<1>1. RowsInv /\ LiveHoldsSlot /\ [Next]_vars => LiveHoldsSlot'
  BY RowsMoved, HoldsStep DEF RowsInv
<1> QED BY <1>1, RowsStep, RowsInit, PTL DEF Spec

(* However many orders a booking has, one capture of it stands at most.     *)
THEOREM PaidAtMostOnce == ASSUME CapturesUndisturbed PROVE Spec => []PaidOnce
<1>1. ASSUME MoneyInv PROVE PaidOnce
  <2> SUFFICES ASSUME NEW b \in Bookings
               PROVE  Cardinality({ p \in Refundable(b) : "orphan_capture" \notin payment[p].reasons }) =< 1
    BY DEF PaidOnce
  <2> DEFINE stands == { p \in Refundable(b) : "orphan_capture" \notin payment[p].reasons }
  <2>1. \A p, q \in stands : p = q
    BY <1>1 DEF MoneyInv, OneStands
  <2> HIDE DEF stands
  <2>2. CASE stands = {}
    BY <2>2, FS_EmptySet DEF stands
  <2>3. CASE stands # {}
    <3>1. PICK p \in stands : TRUE
      BY <2>3
    <3>2. stands = {p}
      BY <2>1, <3>1
    <3>3. Cardinality(stands) = 1
      BY <3>2, FS_Singleton
    <3> QED BY <3>3 DEF stands
  <2> QED BY <2>2, <2>3
<1>2. MoneyInv => PaidOnce
  BY <1>1
<1>3. RowsInv /\ MoneyInv /\ [Next]_vars => MoneyInv'
  BY MoneyStep
<1> QED BY <1>2, <1>3, RowsStep, RowsInit, PTL DEF Spec

(* A Route transfer is discharged by its capture, and once more only by an  *)
(* orphan's refund of the whole of it, which bills the driver again for as  *)
(* much and once, however often a job is redelivered.                       *)
THEOREM DischargedAsExplained == ASSUME CapturesUndisturbed PROVE Spec => []DischargesExplained
<1>1. ASSUME RowsInv, MoneyInv PROVE DischargesExplained
  <2> SUFFICES ASSUME NEW p \in Payments
               PROVE  /\ discharged[p] =< (IF payment[p].refunded < payment[p].amount THEN 1 ELSE 2)
                      /\ reopened[p] = IF "orphan_capture" \in payment[p].reasons
                                       THEN payment[p].refunded ELSE 0
    BY DEF DischargesExplained
  <2>1. /\ discharged[p] \in Nat /\ payment[p].refunded \in Nat /\ payment[p].amount \in Nat
    BY <1>1, PayTypes DEF RowsInv
  <2>2. /\ "orphan_capture" \notin payment[p].reasons => discharged[p] =< 1
        /\ "orphan_capture" \in payment[p].reasons =>
             discharged[p] =< 2 /\ payment[p].refunded = payment[p].amount
        /\ reopened[p] = IF "orphan_capture" \in payment[p].reasons THEN payment[p].refunded ELSE 0
    BY <1>1 DEF MoneyInv, DischargesOnce
  <2> QED BY <2>1, <2>2
<1>2. RowsInv /\ MoneyInv => DischargesExplained
  BY <1>1
<1>3. RowsInv /\ MoneyInv /\ [Next]_vars => MoneyInv'
  BY MoneyStep
<1> QED BY <1>2, <1>3, RowsStep, RowsInit, PTL DEF Spec

(* The table names one target for every state and event it has.             *)
LEMMA TableDecides ==
  ASSUME NEW edge \in Lifecycle!Transitions
  PROVE  /\ Lifecycle!CanFire(edge.from, edge.event)
         /\ Lifecycle!NextStatus(edge.from, edge.event) = edge.to
<1> DEFINE Fits(t) == t.from = edge.from /\ t.event = edge.event
           chosen == CHOOSE t \in Lifecycle!Transitions : Fits(t)
<1>1. chosen \in Lifecycle!Transitions /\ Fits(chosen)
  OBVIOUS
<1>2. \A t \in Lifecycle!Transitions : Fits(t) => t.to = edge.to
  BY DEF Lifecycle!Transitions
<1> HIDE DEF chosen
<1>3. chosen.to = edge.to
  BY <1>1, <1>2
<1> QED BY <1>3 DEF Lifecycle!CanFire, Lifecycle!NextStatus, chosen

(* Each move of a booking is an edge of the table, or none.                 *)
MovesAlong(b) ==
  \E t \in Lifecycle!Transitions : booking[b].status = t.from /\ booking'[b].status = t.to

LEMMA MovesLegally ==
  ASSUME CapturesUndisturbed, CheckInsUndisturbed, NEW b \in Bookings, RowsSame(b) \/ RowsMove(b)
  PROVE  \/ booking'[b].status = booking[b].status
         \/ booking[b].status = "none" /\ booking'[b].status = "pending_payment"
         \/ MovesAlong(b)
BY DEF RowsSame, RowsMove, Sold, Confirmed, CheckedIn, Extended, GivenUp, Lapsed, Completed, Live,
       MovesAlong, Lifecycle!Transitions

LEMMA LifecycleStep ==
  ASSUME CapturesUndisturbed, CheckInsUndisturbed, OneBookingMoves
  PROVE  [Lifecycle!Next]_([b \in Bookings |-> booking[b].status])
<1> DEFINE status == [b \in Bookings |-> booking[b].status]
<1>0. status' = [b \in Bookings |-> booking'[b].status]
  OBVIOUS
<1>1. CASE \A b \in Bookings : booking'[b].status = booking[b].status
  BY <1>0, <1>1
<1>2. CASE ~ \A b \in Bookings : booking'[b].status = booking[b].status
  <2>1. PICK b \in Bookings : booking'[b].status # booking[b].status
    BY <1>2
  <2>2. RowsMove(b) /\ \A c \in Bookings \ {b} : booking'[c].status = booking[c].status
    BY <2>1 DEF OneBookingMoves, RowsSame
  <2>3. status' = [status EXCEPT ![b] = booking'[b].status] /\ status[b] = booking[b].status
    BY <1>0, <2>2
  <2>4. CASE booking[b].status = "none" /\ booking'[b].status = "pending_payment"
    BY <2>3, <2>4 DEF Lifecycle!Next, Lifecycle!Insert
  <2>5. CASE MovesAlong(b)
    <3>1. PICK t \in Lifecycle!Transitions : booking[b].status = t.from /\ booking'[b].status = t.to
      BY <2>5 DEF MovesAlong
    <3>2. t.event \in Lifecycle!Events
      BY DEF Lifecycle!Transitions, Lifecycle!Events
    <3>3. /\ Lifecycle!CanFire(status[b], t.event)
          /\ status' = [status EXCEPT ![b] = Lifecycle!NextStatus(status[b], t.event)]
      BY <2>3, <3>1, TableDecides
    <3> QED BY <3>2, <3>3 DEF Lifecycle!Next, Lifecycle!Fire
  <2> QED BY <2>1, <2>2, <2>4, <2>5, MovesLegally
<1> QED BY <1>1, <1>2

(* Read, decided and written apart, over rows that jobs and the gateway     *)
(* change too, the commands still follow the published table.               *)
THEOREM ImplementsLifecycle ==
  ASSUME CapturesUndisturbed, CheckInsUndisturbed
  PROVE  Spec => LifecycleSpec
<1>1. Init => Lifecycle!Init
  BY DEF Init, Lifecycle!Init, NoBooking
<1>2. RowsInv /\ [Next]_vars => [Lifecycle!Next]_([b \in Bookings |-> booking[b].status])
  BY RowsMoved, LifecycleStep
<1> QED BY <1>1, <1>2, RowsStep, RowsInit, PTL DEF Spec, LifecycleSpec, Lifecycle!Spec

(* Once a refund reversed a booking in full nothing more goes back: no      *)
(* administrator, no redelivered orphan and no late capture changes that.   *)
THEOREM ReversedForGood == ASSUME CapturesUndisturbed PROVE Spec => NothingAfterFullReversal
<1> DEFINE Settled == \A p \in Payments : payment[p].reasons \cap FullReversalReasons # {} =>
                        payment'[p].refunded = payment[p].refunded
<1>1. ASSUME RowsInv, MoneyInv, [Next]_vars PROVE Settled
  <2> SUFFICES ASSUME NEW p \in Payments, payment[p].reasons \cap FullReversalReasons # {}
               PROVE  payment'[p].refunded = payment[p].refunded
    OBVIOUS
  <2>1. PaySame(p) \/ PayMoves(p)
    BY <1>1, RowsMoved DEF OnePaymentMoves
  <2>2. payment[p].refunded > 0 /\ CapturesWhole
    BY <1>1 DEF MoneyInv, CapturesWhole
  <2>3. ~ SentBack(p) /\ ~ GivenBack(p)
    BY <2>2 DEF SentBack, GivenBack
  <2> QED BY <2>1, <2>3 DEF PaySame, PayMoves, Opened, OrphanSent, Captured, Failed
<1>2. RowsInv /\ MoneyInv /\ [Next]_vars => [Settled]_vars
  BY <1>1
<1>3. RowsInv /\ MoneyInv /\ [Next]_vars => MoneyInv'
  BY MoneyStep
<1> QED BY <1>2, <1>3, RowsStep, RowsInit, PTL DEF Spec, NothingAfterFullReversal

-----------------------------------------------------------------------------
(* The bill.  What a cancellation has found still stands when it writes; a  *)
(* cancelled booking's receivable is reversed unless a capture paid it.     *)
CancelStands(r) ==
  request[r].kind = "cancel" =>
    /\ request[r].at = now
    /\ request[r].payment = NoPayment => Refundable(request[r].booking) = {}
    /\ request[r].payment # NoPayment => request[r].payment \in Refundable(request[r].booking)

CancelsStand == \A r \in Requests : CancelStands(r)

TookMoney(p) == payment[p].status \in CapturedStatuses \/ payment[p].refunded > 0

Billed(b) ==
  /\ booking[b].status # "cancelled" \/ Refundable(b) # {} => receivable[b] = booking[b].total
  /\ booking[b].status = "cancelled" /\ receivable[b] # 0 =>
       \E p \in Payments : PaysFor(p, b) /\ TookMoney(p)

BillInv == CancelsStand /\ \A b \in Bookings : Billed(b)

LEMMA OthersUndisturbed ==
  ASSUME OrdersAloneDisturbed
  PROVE  CapturesUndisturbed /\ CheckInsUndisturbed /\ ExtensionsUndisturbed
BY DEF OrdersAloneDisturbed, CapturesUndisturbed, CheckInsUndisturbed, ExtensionsUndisturbed

LEMMA CancelsStandStep ==
  ASSUME OrdersAloneDisturbed, TypeInv, CancelsStand, [Next]_vars
  PROVE  CancelsStand'
<1>t. TypeOK
  BY DEF TypeInv
<1> SUFFICES ASSUME NEW r \in Requests, request'[r].kind = "cancel" PROVE CancelStands(r)'
  BY DEF CancelsStand, CancelStands
<1>1. request'[r].kind \notin Overlapping \cup {"idle"}
  BY DEF OrdersAloneDisturbed
<1>2. CASE UNCHANGED vars
  <2>1. UNCHANGED <<now, payment, request>>
    BY <1>2 DEF vars, paymentVars, paymentLedger
  <2> QED BY <2>1 DEF CancelsStand, CancelStands, Refundable
<1>3. ASSUME NEW b \in Bookings, NEW by \in Cancellers, CancelRead(r, b, by)
      PROVE  CancelStands(r)'
  <2>1. /\ UNCHANGED <<now, payment>>
        /\ request'[r].booking = b /\ request'[r].at = now'
        /\ request'[r].payment = NoPayment => Refundable(b) = {}
        /\ request'[r].payment # NoPayment => request'[r].payment \in Refundable(b)
    BY <1>t, <1>3, CancelBegun
  <2>2. Refundable(request[r].booking)' = Refundable(b)
    BY <2>1 DEF Refundable
  <2> QED BY <2>1, <2>2 DEF CancelStands
<1>4. ASSUME NEW b \in Bookings, OrderRead(r, b) \/ CheckInRead(r, b)
      PROVE  FALSE
  BY <1>t, <1>4, Begun DEF OrderRead, CheckInRead
<1>5. ASSUME NEW b \in Bookings, NEW t \in Times, ExtendRead(r, b, t)
      PROVE  FALSE
  BY <1>t, <1>5, ExtendBegun
<1>6. ASSUME NEW p \in Payments, NEW s \in Sources, ConfirmRead(r, p, s)
      PROVE  FALSE
  <2>1. PICK b \in payment[p].booking :
          Begin(r, [kind |-> "confirm", payment |-> p, source |-> s,
                    status |-> booking[b].status, endsAt |-> booking[b].endsAt])
    BY <1>6 DEF ConfirmRead
  <2>2. request'[r] = [kind |-> "confirm", payment |-> p, source |-> s,
                       status |-> booking[b].status, endsAt |-> booking[b].endsAt]
    BY <1>t, <2>1, Begun
  <2> QED BY <2>2
<1> QED BY <1>t, <1>1, <1>2, <1>3, <1>4, <1>5, <1>6, Alone DEF Reads

LEMMA TookStays ==
  ASSUME TypeInv, OrdersMade, CapturesWhole, OnePaymentMoves,
         NEW p \in Payments, NEW b \in Bookings, PaysFor(p, b), TookMoney(p)
  PROVE  payment'[p].booking = {b} /\ TookMoney(p)'
<1>1. PaySame(p) \/ PayMoves(p)
  BY DEF OnePaymentMoves
<1>2. ~ Opened(p)
  BY DEF Opened, OrdersMade, PaysFor
<1>3. CASE PaySame(p) \/ OrphanSent(p)
  BY <1>3 DEF PaySame, OrphanSent, PaysFor, TookMoney
<1>4. CASE Captured(p) \/ GivenBack(p) \/ SentBack(p)
  BY <1>4 DEF Captured, GivenBack, SentBack, OrderSame, PaysFor, TookMoney, CapturedStatuses
<1>5. CASE Failed(p)
  <2>1. payment[p].refunded > 0
    BY <1>5 DEF Failed, TookMoney, CapturesWhole, CapturedStatuses
  <2> QED BY <1>5, <2>1 DEF Failed, OrderSame, PaysFor, TookMoney
<1> QED BY <1>1, <1>2, <1>3, <1>4, <1>5 DEF PayMoves

(* A live booking is cancelled by a cancellation and by nothing else. *)
LEMMA CancelledBy ==
  ASSUME TypeInv, [Next]_vars, NEW b \in Bookings, Live(b), booking'[b].status = "cancelled"
  PROVE  \E r \in Requests : (CancelUnpaid(r) \/ CancelPaid(r)) /\ request[r].booking = b
<1>t. TypeOK /\ booking \in [Bookings -> BookingRows]
  BY DEF TypeInv, TypeOK
<1>1. ~ UNCHANGED booking
  BY DEF Live
<1>2. CASE Elsewhere
  <2>1. ASSUME NEW c \in Bookings, NEW w \in Windows, Create(c, w)
        PROVE  FALSE
    BY <1>t, <2>1 DEF Create, Live
  <2>2. ASSUME NEW m \in jobs, NEW ack \in BOOLEAN, Expire(m, ack)
        PROVE  FALSE
    <3>1. /\ m.ref \in Bookings /\ booking[m.ref].status = "pending_payment"
          /\ booking' = [booking EXCEPT ![m.ref].status = "cancelled"]
      BY <1>t, <1>1, <2>2, MessageFields DEF Expire, AwaitsPayment, bookingVars
    <3>2. b # m.ref
      BY <3>1 DEF Live
    <3> QED BY <1>t, <3>1, <3>2, StatusWritten DEF Live
  <2>3. ASSUME NEW m \in jobs, NEW ack \in BOOLEAN, Complete(m, ack)
        PROVE  FALSE
    <3>1. /\ m.ref \in Bookings
          /\ booking' = [booking EXCEPT ![m.ref].status = "completed"]
      BY <1>t, <1>1, <2>3, MessageFields DEF Complete
    <3> QED BY <1>t, <3>1, StatusWritten DEF Live
  <2> QED BY <1>1, <1>2, <2>1, <2>2, <2>3
      DEF Elsewhere, AdminRefund, Pay, Fail, Worker, Orphan, Tick, bookingVars
<1>3. ASSUME NEW r \in Requests, Reads(r)
      PROVE  FALSE
  BY <1>1, <1>3 DEF Reads, OrderRead, CheckInRead, ExtendRead, CancelRead, ConfirmRead, bookingVars
<1>4. ASSUME NEW r \in Requests, Commit(r) \/ Abandon(r)
      PROVE  (CancelUnpaid(r) \/ CancelPaid(r)) /\ request[r].booking = b
  <2>1. CASE ConfirmCapture(r)
    <3>1. request[r].payment \in Payments
      BY <1>t, <2>1, CommandFields DEF ConfirmCapture
    <3>2. PICK c \in payment[request[r].payment].booking :
            booking' = [booking EXCEPT ![c].status = "confirmed"]
      BY <2>1, PayConfirms DEF ConfirmCapture
    <3>3. c \in Bookings
      BY <1>t, <3>1 DEF TypeOK, PaymentRows
    <3> QED BY <1>t, <3>2, <3>3, StatusWritten DEF Live
  <2>2. CASE CheckInCommit(r)
    <3>1. /\ request[r].booking \in Bookings
          /\ booking' = [booking EXCEPT ![request[r].booking].status = "active"]
      BY <1>t, <2>2, CommandFields DEF CheckInCommit
    <3> QED BY <1>t, <3>1, StatusWritten DEF Live
  <2>3. CASE ExtendCommit(r)
    <3> DEFINE c == request[r].booking
               delta == ExtensionDelta(r)
               paise == DriverTotal(c, delta)
    <3>1. /\ c \in Bookings
          /\ booking' = [booking EXCEPT ![c].endsAt = request[r].newEndsAt, ![c].base = @ + delta,
                                        ![c].total = @ + paise]
      BY <1>t, <2>3, CommandFields DEF ExtendCommit, NewEnd
    <3> HIDE DEF c, delta, paise
    <3>2. booking'[b].status = booking[b].status
      BY <1>t, <3>1 DEF BookingRows
    <3> QED BY <3>2 DEF Live
  <2>4. CASE CancelUnpaid(r) \/ CancelPaid(r)
    <3>1. /\ request[r].booking \in Bookings
          /\ \A c \in Bookings \ {request[r].booking} : RowsSame(c)
      BY <2>4, CancelMoves
    <3>2. b = request[r].booking
      BY <3>1 DEF RowsSame, Live
    <3> QED BY <2>4, <3>2
  <2> QED BY <1>1, <1>4, <2>1, <2>2, <2>3, <2>4
      DEF Commit, Abandon, OrderCommit, ConfirmReplay, ConfirmOrphan, bookingVars
<1> QED BY <1>1, <1>2, <1>3, <1>4, StepKinds DEF vars, bookingVars

(* What that cancellation does to the money of the booking. *)
LEMMA CancelSettled ==
  ASSUME RowsInv, MoneyInv, BillInv, NEW r \in Requests, NEW b \in Bookings,
         CancelUnpaid(r) \/ CancelPaid(r), request[r].booking = b
  PROVE  \/ /\ Refundable(b) = {} /\ UNCHANGED payment
            /\ receivable'[b] = 0
         \/ /\ receivable'[b] = receivable[b]
            /\ \E p \in Refundable(b), by \in Cancellers :
                 payment'[p].refunded =
                   ResolveRefund(booking[b].total, booking[b].from, now, by).refund
<1>t. TypeInv /\ TypeOK
  BY DEF RowsInv, TypeInv
<1>1. /\ request[r].kind = "cancel" /\ request[r].by \in Cancellers
      /\ CancelStands(r) /\ request[r].at = now
  BY <1>t, CommandFields DEF CancelUnpaid, CancelPaid, BillInv, CancelsStand, CancelStands
<1>2. CASE CancelUnpaid(r)
  <2>1. Live(b) /\ Refundable(b) = {}
    BY <1>1, <1>2, CancellableLive DEF CancelUnpaid, Cancelled, CancelStands
  <2>2. receivable[b] = booking[b].total
    BY <2>1 DEF BillInv, Billed, Live
  <2>3. receivable'[b] = receivable[b] - booking[b].total
    BY <1>t, <1>2 DEF CancelUnpaid, ReverseReceivable, TypeOK
  <2>4. receivable[b] \in Int
    BY <1>t DEF TypeOK
  <2>5. receivable'[b] = 0
    BY <2>2, <2>3, <2>4
  <2> QED BY <1>2, <2>1, <2>5 DEF CancelUnpaid
<1>3. CASE CancelPaid(r)
  <2> DEFINE p == request[r].payment
             o == ResolveRefund(booking[b].total, booking[b].from, now, request[r].by)
  <2>1. p \in Payments /\ p \in Refundable(b) /\ payment[p].status = "captured"
    BY <1>1, <1>3, ParkingBookingAssumption DEF CancelPaid, CancelStands
  <2>2. payment[p].refunded = 0
    BY <2>1 DEF MoneyInv, CapturesWhole
  <2>3. CancelOutcome(r) = o
    BY <1>1 DEF CancelOutcome
  <2>4. o.refund \in Nat /\ CancelOutcome(r).tier \in RefundReasons
    BY <1>t, <1>1, <2>3, CancelOutcomeTyped
  <2>5. payment'[p].refunded = o.refund
    <3>1. CASE o.refund = 0
      BY <1>3, <2>2, <2>3, <3>1 DEF CancelPaid
    <3>2. CASE o.refund # 0
      <4>1. \E fully \in BOOLEAN : Refunded(p, o.refund, CancelOutcome(r).tier, fully)
        BY <1>3, <2>3, <3>2 DEF CancelPaid
      <4>2. payment'[p].refunded = payment[p].refunded + o.refund
        BY <1>t, <2>1, <2>4, <4>1, RefundedRow
      <4> QED BY <2>2, <2>4, <4>2
    <3> QED BY <3>1, <3>2
  <2>6. receivable'[b] = receivable[b]
    BY <1>3 DEF CancelPaid
  <2> QED BY <1>1, <2>1, <2>5, <2>6
<1> QED BY <1>2, <1>3

LEMMA BilledStep ==
  ASSUME OrdersAloneDisturbed, RowsInv, RowsInv', MoneyInv, BillInv, [Next]_vars,
         NEW b \in Bookings
  PROVE  Billed(b)'
<1>t. /\ TypeInv /\ TypeInv' /\ OrdersMade /\ UnpaidUntouched /\ CapturesWhole
      /\ CapturesUndisturbed /\ CheckInsUndisturbed /\ ExtensionsUndisturbed
  BY OthersUndisturbed DEF RowsInv, OrderInv, MoneyInv
<1>1. OneBookingMoves /\ OnePaymentMoves
  BY RowsMoved
<1>2. RowsSame(b) \/ RowsMove(b)
  BY <1>1 DEF OneBookingMoves
<1>3. /\ receivable[b] \in Int /\ receivable'[b] \in Int
      /\ booking[b].total \in Int /\ booking'[b].total \in Int
  BY <1>t DEF TypeInv, TypeOK, BookingRows
<1>4. /\ booking[b].status # "cancelled" \/ Refundable(b) # {} => receivable[b] = booking[b].total
      /\ booking[b].status = "cancelled" /\ receivable[b] # 0 =>
           \E p \in Payments : PaysFor(p, b) /\ TookMoney(p)
  BY DEF BillInv, Billed
<1>5. Refundable(b)' # {} => Refundable(b) # {} \/ Confirmed(b)
  <2>1. ASSUME NEW p \in Refundable(b)' PROVE Refundable(b) # {} \/ Confirmed(b)
    <3>1. p \in Payments /\ (PaySame(p) \/ PayMoves(p))
      BY <1>1, <2>1 DEF Refundable, OnePaymentMoves
    <3>2. CASE p \notin Refundable(b)
      <4>1. Captured(p) /\ PaysFor(p, b)
        BY <1>t, <2>1, <3>1, <3>2, RefundableByCapture
      <4> QED BY <4>1, PaysForOne DEF Captured
    <3> QED BY <3>2
  <2> QED BY <2>1
<1>6. (\E p \in Payments : PaysFor(p, b) /\ TookMoney(p)) =>
        (\E p \in Payments : payment'[p].booking = {b} /\ TookMoney(p)')
  BY <1>t, <1>1, TookStays
<1>7. CASE RowsSame(b)
  <2>1. /\ booking'[b] = booking[b] /\ receivable'[b] = receivable[b]
    BY <1>7 DEF RowsSame
  <2>2. Refundable(b)' # {} => Refundable(b) # {} \/ booking[b].status # "cancelled"
    BY <1>t, <1>5 DEF Confirmed
  <2> QED BY <1>4, <1>6, <2>1, <2>2 DEF Billed, PaysFor
<1>8. CASE Sold(b)
  BY <1>8 DEF Sold, Billed
<1>9. CASE Confirmed(b) \/ CheckedIn(b) \/ Completed(b)
  BY <1>t, <1>4, <1>9 DEF Confirmed, CheckedIn, Completed, StaySame, Billed
<1>10. CASE Extended(b)
  <2>1. booking[b].status # "cancelled" /\ booking'[b].status # "cancelled"
    BY <1>t, <1>10 DEF Extended, Live
  <2>2. receivable'[b] = booking'[b].total
    BY <1>4, <1>10, <2>1 DEF Extended
  <2> QED BY <2>1, <2>2 DEF Billed
<1>11. CASE Lapsed(b)
  <2>1. /\ booking[b].status = "pending_payment" /\ booking'[b].status = "cancelled"
        /\ receivable'[b] = receivable[b] - booking[b].total
    BY <1>11 DEF Lapsed
  <2>2. receivable'[b] = 0
    BY <1>3, <1>4, <2>1
  <2>3. Refundable(b) = {}
    BY <1>t, <2>1 DEF UnpaidUntouched, Refundable, PaysFor
  <2>4. Refundable(b)' = {}
    BY <1>5, <2>1, <2>3 DEF Confirmed
  <2> QED BY <2>1, <2>2, <2>4 DEF Billed
<1>12. CASE GivenUp(b)
  <2>1. PICK r \in Requests : (CancelUnpaid(r) \/ CancelPaid(r)) /\ request[r].booking = b
    BY <1>t, <1>12, CancelledBy DEF GivenUp
  <2>2. /\ booking'[b].status = "cancelled" /\ booking'[b].total = booking[b].total
        /\ booking[b].status # "cancelled"
    BY <1>12 DEF GivenUp, StaySame, Live
  <2>3. CASE /\ Refundable(b) = {} /\ UNCHANGED payment /\ receivable'[b] = 0
    <3>1. Refundable(b)' = {}
      BY <2>3 DEF Refundable
    <3> QED BY <2>2, <2>3, <3>1 DEF Billed
  <2>4. CASE receivable'[b] = receivable[b] /\ Refundable(b) # {}
    <3>1. \E p \in Payments : PaysFor(p, b) /\ TookMoney(p)
      BY <2>4 DEF Refundable, PaysFor, TookMoney
    <3> QED BY <1>4, <1>6, <2>2, <2>4, <3>1 DEF Billed, PaysFor
  <2> QED BY <2>1, <2>3, <2>4, CancelSettled
<1> QED BY <1>2, <1>7, <1>8, <1>9, <1>10, <1>11, <1>12 DEF RowsMove

LEMMA BillInit == Init => BillInv
<1> SUFFICES ASSUME Init PROVE BillInv
  OBVIOUS
<1>1. /\ \A r \in Requests : request[r].kind # "cancel"
      /\ \A b \in Bookings : receivable[b] = 0 /\ booking[b].total = 0 /\ booking[b].status = "none"
  BY DEF Init, Idle, NoBooking
<1> QED BY <1>1 DEF BillInv, CancelsStand, CancelStands, Billed

LEMMA BillStep ==
  ASSUME OrdersAloneDisturbed
  PROVE  RowsInv /\ MoneyInv /\ BillInv /\ [Next]_vars => BillInv'
<1> SUFFICES ASSUME RowsInv, MoneyInv, BillInv, [Next]_vars PROVE BillInv'
  OBVIOUS
<1>1. RowsInv'
  BY RowsStep
<1>2. CancelsStand'
  BY CancelsStandStep DEF RowsInv, BillInv
<1>3. \A b \in Bookings : Billed(b)'
  BY <1>1, BilledStep
<1> QED BY <1>2, <1>3 DEF BillInv

(* The ledger bills a booking that stands for exactly its total; one that   *)
(* was given up is billed for nothing unless a capture paid for it.         *)
THEOREM BilledExactly == ASSUME OrdersAloneDisturbed PROVE Spec => []BilledWhileItStands
<1>1. ASSUME BillInv PROVE BilledWhileItStands
  <2> SUFFICES ASSUME NEW b \in Bookings
      PROVE  /\ booking[b].status # "cancelled" \/ Refundable(b) # {} =>
                  receivable[b] = booking[b].total
             /\ booking[b].status = "cancelled"
                  /\ (\A p \in Payments : payment[p].booking = {b} =>
                        payment[p].status \notin CapturedStatuses /\ payment[p].refunded = 0) =>
                  receivable[b] = 0
    BY DEF BilledWhileItStands
  <2>1. Billed(b)
    BY <1>1 DEF BillInv
  <2>2. ASSUME NEW p \in Payments, PaysFor(p, b), TookMoney(p),
               payment[p].status \notin CapturedStatuses, payment[p].refunded = 0
        PROVE  FALSE
    BY <2>2 DEF TookMoney
  <2> QED BY <2>1, <2>2 DEF Billed, PaysFor
<1>2. BillInv => BilledWhileItStands
  BY <1>1
<1>3. RowsInv /\ MoneyInv /\ [Next]_vars => MoneyInv'
  BY OthersUndisturbed, MoneyStep
<1>4. RowsInv /\ MoneyInv /\ BillInv /\ [Next]_vars => BillInv'
  BY BillStep
<1> QED BY <1>2, <1>3, <1>4, RowsStep, RowsInit, BillInit, PTL DEF Spec

(* Cancelling a live booking settles the money in the same step, by the     *)
(* tier its captured payment calls for or by clearing what it was billed.   *)
THEOREM CancellingSettles == ASSUME OrdersAloneDisturbed PROVE Spec => CancelSettles
<1> DEFINE Settles ==
      \A b \in Bookings : Live(b) /\ booking'[b].status = "cancelled" =>
        \/ \E p \in Refundable(b), by \in Cancellers :
             payment'[p].refunded =
               ResolveRefund(booking[b].total, booking[b].from, now, by).refund
        \/ Refundable(b) = {} /\ receivable'[b] = 0
<1>1. ASSUME RowsInv, MoneyInv, BillInv, [Next]_vars PROVE Settles
  <2> SUFFICES ASSUME NEW b \in Bookings, Live(b), booking'[b].status = "cancelled"
      PROVE  \/ \E p \in Refundable(b), by \in Cancellers :
                  payment'[p].refunded =
                    ResolveRefund(booking[b].total, booking[b].from, now, by).refund
             \/ Refundable(b) = {} /\ receivable'[b] = 0
    OBVIOUS
  <2>1. PICK r \in Requests : (CancelUnpaid(r) \/ CancelPaid(r)) /\ request[r].booking = b
    BY <1>1, CancelledBy DEF RowsInv
  <2> QED BY <1>1, <2>1, CancelSettled
<1>2. RowsInv /\ MoneyInv /\ BillInv /\ [Next]_vars => [Settles]_vars
  BY <1>1
<1>3. RowsInv /\ MoneyInv /\ [Next]_vars => MoneyInv'
  BY OthersUndisturbed, MoneyStep
<1>4. RowsInv /\ MoneyInv /\ BillInv /\ [Next]_vars => BillInv'
  BY BillStep
<1> QED BY <1>2, <1>3, <1>4, RowsStep, RowsInit, BillInit, PTL DEF Spec, CancelSettles
=============================================================================
