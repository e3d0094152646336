-------------------------- MODULE RefundSettlement --------------------------
(***************************************************************************)
(* The money of one captured booking on its way back: a cancellation or an *)
(* administrator decides a refund and posts it, the outbox relays the      *)
(* message, the issue-refund job sends it, the reverse-transfer job takes  *)
(* the partner's share back from Route, and refund.processed settles it.   *)
(* Two partial refunds of one capture go their own way at the same time.   *)
(*                                                                         *)
(* A relay pass, a delivery and a webhook may each be cut short between    *)
(* any two statements; the queue retries a failed delivery RetryLimit      *)
(* times and the relay a failed send MaxAttempts times, then each gives    *)
(* up.  What the booking is for, and when it is cancelled, is RefundPolicy.*)
(***************************************************************************)
EXTENDS Postings, RefundPolicy

CONSTANTS
  Bases,          \* base prices, in paise
  Waivers,        \* whether the owner's commission is waived
  Amounts,        \* bound: what an administrator may ask to give back
  MaxRefunds,     \* bound: refunds of the capture, 1, 2, .. in order
  MaxAttempts,    \* of the relay
  RetryLimit,     \* of the queue
  Faulty,         \* bound: refunds whose sends and deliveries may fail
  MaxFaults,      \* bound: how many of them do
  MaxDeliveries,  \* bound: deliveries of one job running at a time
  MaxSettles      \* bound: refund.processed events of one refund handled at a time

ASSUME SettlementAssumption ==
  /\ Bases \subseteq Nat /\ Waivers \subseteq BOOLEAN /\ Amounts \subseteq Nat
  /\ MaxRefunds \in Nat /\ MaxAttempts \in Nat \ {0} /\ RetryLimit \in Nat
  /\ Faulty \subseteq Nat /\ MaxFaults \in Nat /\ MaxDeliveries \in Nat /\ MaxSettles \in Nat

VARIABLES
  price,       \* the booking's quote
  routed,      \* Route paid the partner's share out at capture
  transfer,    \* what the reconcile made of that
  ledger,      \* net postings of the booking
  refunds,     \* the refunds rows
  outbox,      \* status of each message
  attempts,    \* outbox_messages.attempts
  job,         \* the pg-boss job of each message
  retries,     \* of that job
  faults,
  deliveries,  \* deliveries that run
  made,        \* what the gateway made under each reference: how many
  settles      \* refund.processed handlers that have read the row

booking == <<price, routed, transfer>>
queue == <<outbox, attempts, job, retries, faults>>
vars == <<booking, ledger, refunds, queue, deliveries, made, settles>>

Refunds == 1..MaxRefunds
Kinds == { "issue", "reverse" }          \* payment.issue-refund, payment.reverse-transfer
Messages == Refunds \X Kinds
OutboxStatuses == { "none", "pending", "dispatched", "failed" }
JobStatuses == { "none", "ready", "done", "dead" }
DeliverySteps == { "find", "create", "store" }
Reasons == Tiers \cup { "none", "admin" }

Refund(reason, amount, share, retained, goodwill) ==
  [reason |-> reason, amount |-> amount, share |-> share, retained |-> retained, goodwill |-> goodwill,
   sent |-> 0, reversed |-> 0, status |-> "pending"]

NoRefund == Refund("none", 0, 0, 0, 0)

Decided == { r \in Refunds : refunds[r].reason # "none" }
RefundedPaise == SumTo([r \in Refunds |-> refunds[r].amount], MaxRefunds)

Init ==
  /\ \E base \in Bases, waived \in Waivers : price = Quote(base, BasisPoints, waived)
  /\ routed \in BOOLEAN
  /\ transfer = "open"
  /\ ledger = IF routed THEN Plus(BookingReceivable(price), RouteDischarge(price.owner))
                        ELSE BookingReceivable(price)
  /\ refunds = [r \in Refunds |-> NoRefund]
  /\ outbox = [m \in Messages |-> "none"] /\ attempts = [m \in Messages |-> 0]
  /\ job = [m \in Messages |-> "none"] /\ retries = [m \in Messages |-> 0]
  /\ faults = 0 /\ deliveries = {}
  /\ made = [m \in Messages |-> 0] /\ settles = {}

-----------------------------------------------------------------------------
(* refundForCancellation and AdminRefundCommand: posting, row and message   *)
(* in one transaction.  insertRefund takes the partner's share back only    *)
(* when Route paid it, and never more than the transfer carried.            *)
RouteReversalPaise(posting) ==
  IF routed /\ PartnerShare(posting) > 0 THEN Lesser(PartnerShare(posting), price.owner) ELSE 0

Decide(r, reason, amount, retained, goodwill, posting) ==
  /\ r \in Refunds /\ \A q \in Refunds : q < r <=> q \in Decided
  /\ amount > 0
  /\ ledger' = Plus(ledger, posting)
  /\ refunds' = [refunds EXCEPT ![r] =
                   Refund(reason, amount, RouteReversalPaise(posting), retained, goodwill)]
  /\ outbox' = [outbox EXCEPT ![<<r, "issue">>] = "pending"]
  /\ UNCHANGED <<booking, attempts, job, retries, faults, deliveries, made, settles>>

(* Only a booking nobody has refunded yet can still be cancelled. *)
Cancel(by, at) ==
  LET outcome == ResolveRefund(price.total, 0, at, by)
  IN  /\ Decided = {}
      /\ Decide(1, outcome.tier, outcome.refund, outcome.retained, outcome.goodwill,
                RefundEntries(price, outcome))

AdminRefund(r, amount) ==
  /\ amount =< RefundableOf(price.total, RefundedPaise, { refunds[q].reason : q \in Decided })
  /\ Decide(r, "admin", amount, 0, 0, ProportionalRefund(price, amount))

-----------------------------------------------------------------------------
(* relayBatch: the job carries the message's id, so a second send of a      *)
(* message whose pass rolled back creates nothing.                          *)
Pending(m) == outbox[m] = "pending"
WithJob(m) == IF job[m] = "none" THEN "ready" ELSE job[m]

Relay(m) ==
  /\ Pending(m)
  /\ job' = [job EXCEPT ![m] = WithJob(m)]
  /\ outbox' = [outbox EXCEPT ![m] = "dispatched"]
  /\ UNCHANGED <<booking, ledger, refunds, attempts, retries, faults, deliveries, made, settles>>

MayFail(m) == m[1] \in Faulty /\ faults < MaxFaults

RelayRollsBack(m) ==
  /\ Pending(m) /\ MayFail(m)
  /\ faults' = faults + 1
  /\ job' = [job EXCEPT ![m] = WithJob(m)]
  /\ UNCHANGED <<booking, ledger, refunds, outbox, attempts, retries, deliveries, made, settles>>

GivesUp(n) == n >= MaxAttempts

RelayFails(m) ==
  /\ Pending(m) /\ MayFail(m)
  /\ faults' = faults + 1
  /\ attempts' = [attempts EXCEPT ![m] = @ + 1]
  /\ outbox' = [outbox EXCEPT ![m] = IF GivesUp(attempts[m] + 1) THEN "failed" ELSE "pending"]
  /\ UNCHANGED <<booking, ledger, refunds, job, retries, deliveries, made, settles>>

-----------------------------------------------------------------------------
(* issueRefund and reverseTransfer, which are one procedure: read the row   *)
(* under its lock, let go of it, ask the gateway for the reference, make it *)
(* when it is not there, and store its id where none is stored.             *)
Delivery(m, n) == [message |-> m, n |-> n, step |-> "find", id |-> 0]
Running(m) == { d \in deliveries : d.message = m }
StoredId(m) == IF m[2] = "issue" THEN refunds[m[1]].sent ELSE refunds[m[1]].reversed

Start(m, n) ==
  /\ job[m] = "ready"
  /\ \A d \in Running(m) : d.n # n
  /\ IF StoredId(m) # 0
       THEN job' = [job EXCEPT ![m] = "done"] /\ UNCHANGED deliveries
       ELSE deliveries' = deliveries \cup {Delivery(m, n)} /\ UNCHANGED job
  /\ UNCHANGED <<booking, ledger, refunds, outbox, attempts, retries, faults, made, settles>>

(* findByReference: the first the gateway lists. *)
HeldByGatewayUnasked(m) == 0
HeldByGateway(m) == IF made[m] = 0 THEN 0 ELSE 1

Advance(d, step, id) == deliveries' = (deliveries \ {d}) \cup {[d EXCEPT !.step = step, !.id = id]}

Find(d) ==
  /\ d \in deliveries /\ d.step = "find"
  /\ IF HeldByGateway(d.message) # 0 THEN Advance(d, "store", HeldByGateway(d.message))
                                     ELSE Advance(d, "create", d.id)
  /\ UNCHANGED <<booking, ledger, refunds, queue, made, settles>>

Create(d) ==
  /\ d \in deliveries /\ d.step = "create"
  /\ made' = [made EXCEPT ![d.message] = @ + 1]
  /\ Advance(d, "store", made[d.message] + 1)
  /\ UNCHANGED <<booking, ledger, refunds, queue, settles>>

(* A refund that carries a share chains its reversal in the transaction     *)
(* that stores the id; a reversal posts what it took back.                  *)
Store(d) ==
  LET r == d.message[1]
      first == StoredId(d.message) = 0
  IN  /\ d \in deliveries /\ d.step = "store"
      /\ deliveries' = deliveries \ {d}
      /\ job' = [job EXCEPT ![d.message] = "done"]
      /\ IF ~first THEN UNCHANGED <<refunds, ledger, outbox>>
         ELSE IF d.message[2] = "issue"
           THEN /\ refunds' = [refunds EXCEPT ![r].sent = d.id]
                /\ outbox' = IF refunds[r].share = 0 THEN outbox
                             ELSE [outbox EXCEPT ![<<r, "reverse">>] = "pending"]
                /\ UNCHANGED ledger
           ELSE /\ refunds' = [refunds EXCEPT ![r].reversed = d.id]
                /\ ledger' = Plus(ledger, RouteReversal(refunds[r].share))
                /\ UNCHANGED outbox
      /\ UNCHANGED <<booking, attempts, retries, faults, made, settles>>

(* The worker dies, the gateway is out of reach, or it refuses a reversal   *)
(* of what the partner has settled out: thrown, and retried.                *)
SwallowedFailure(m) == "done"
OneRetryMore(m) == IF job[m] = "done" THEN "done" ELSE IF retries[m] =< RetryLimit THEN "ready" ELSE "dead"
AfterFailure(m) == IF job[m] = "done" THEN "done" ELSE IF retries[m] < RetryLimit THEN "ready" ELSE "dead"

Fail(d) ==
  /\ d \in deliveries /\ MayFail(d.message)
  /\ faults' = faults + 1
  /\ deliveries' = deliveries \ {d}
  /\ job' = [job EXCEPT ![d.message] = AfterFailure(d.message)]
  /\ retries' = [retries EXCEPT ![d.message] = IF AfterFailure(d.message) = "ready" THEN @ + 1 ELSE @]
  /\ UNCHANGED <<booking, ledger, refunds, outbox, attempts, made, settles>>

-----------------------------------------------------------------------------
(* refund.processed, once the gateway has paid a refund out and as often as *)
(* it likes, and ProcessRefundCommand: the row is read, then written        *)
(* unlocked.  An event that outruns Store finds no row and is repeated.     *)
NeverSettled(r) == FALSE
AlreadySettled(r) == refunds[r].status = "processed"

SettleRead(r, n) ==
  /\ refunds[r].sent # 0
  /\ ~AlreadySettled(r)
  /\ settles' = settles \cup {<<r, n>>}
  /\ UNCHANGED <<booking, ledger, refunds, queue, deliveries, made>>

SettleWrite(s) ==
  /\ s \in settles
  /\ settles' = settles \ {s}
  /\ refunds' = [refunds EXCEPT ![s[1]].status = "processed"]
  /\ ledger' = Plus(ledger, RefundSettled(refunds[s[1]].amount))
  /\ UNCHANGED <<booking, queue, deliveries, made>>

(* reconcileTransfer: the transfers that are still processed must carry     *)
(* exactly what was discharged; one a refund was taken from does not.       *)
Reconcile ==
  /\ routed /\ transfer = "open"
  /\ IF \A r \in Refunds : made[<<r, "reverse">>] = 0
       THEN transfer' = "cleared" /\ ledger' = Plus(ledger, SettlementCleared(price.owner))
       ELSE transfer' = "flagged" /\ UNCHANGED ledger
  /\ UNCHANGED <<price, routed, refunds, queue, deliveries, made, settles>>

-----------------------------------------------------------------------------
Deliver(m) ==
  \/ \E n \in 1..MaxDeliveries : Start(m, n)
  \/ \E d \in Running(m) : Find(d) \/ Create(d) \/ Store(d)

Settle(r) == (\E n \in 1..MaxSettles : SettleRead(r, n)) \/ \E s \in settles : s[1] = r /\ SettleWrite(s)

Next ==
  \/ \E by \in Cancellers, at \in { -1, 0, Grace } : Cancel(by, at)
  \/ \E r \in Refunds, amount \in Amounts \cup { price.total - RefundedPaise } : AdminRefund(r, amount)
  \/ \E m \in Messages : Relay(m) \/ RelayRollsBack(m) \/ RelayFails(m) \/ Deliver(m)
  \/ \E d \in deliveries : Fail(d)
  \/ \E r \in Refunds : Settle(r)
  \/ Reconcile

Spec == Init /\ [][Next]_vars

(* The pump runs every second, the queue delivers, the gateway pays what it *)
(* accepted and repeats its event until it is answered.                     *)
FairSpec ==
  /\ Spec
  /\ WF_vars(\E m \in Messages : Relay(m))
  /\ WF_vars(\E m \in Messages : Deliver(m))
  /\ WF_vars(\E r \in Refunds : Settle(r))

-----------------------------------------------------------------------------
TypeOK ==
  /\ routed \in BOOLEAN /\ transfer \in { "open", "cleared", "flagged" }
  /\ ledger \in PostingRecords
  /\ refunds \in [Refunds -> [reason : Reasons, amount : Nat, share : Nat, retained : Nat, goodwill : Nat,
                              sent : Nat, reversed : Nat, status : { "pending", "processed" }]]
  /\ outbox \in [Messages -> OutboxStatuses] /\ attempts \in [Messages -> 0..MaxAttempts]
  /\ job \in [Messages -> JobStatuses] /\ retries \in [Messages -> 0..RetryLimit]
  /\ faults \in 0..MaxFaults
  /\ deliveries \subseteq [message : Messages, n : 1..MaxDeliveries, step : DeliverySteps, id : Nat]
  /\ made \in [Messages -> Nat]
  /\ settles \subseteq Refunds \X (1..MaxSettles)

(* "A double-refund is money we cannot get back": whatever dies between the *)
(* gateway's answer and storing it, one refund is sent for one row, and one *)
(* reversal made.                                                           *)
SentOnce == \A m \in Messages : made[m] =< 1

(* What is still payable to the driver is what was decided and has not been *)
(* reported paid: no event, however often it is repeated, settles twice.    *)
Due(r) == refunds[r].goodwill + IF refunds[r].status = "processed" THEN 0 ELSE refunds[r].amount

SettledOnce == ledger.refunds = -SumTo([r \in Refunds |-> Due(r)], MaxRefunds)

(* A booking that was called off in full leaves no trace once its money is  *)
(* back: the partner is owed and owes nothing, no tax is due, and only what *)
(* was kept stays, whether or not Route had already paid the partner.       *)
Returned(r) == refunds[r].status = "processed" /\ (refunds[r].share # 0 => refunds[r].reversed # 0)

CalledOffLeavesNoTrace ==
  \A r \in Decided :
    /\ refunds[r].reason \in FullReversalReasons
    /\ Returned(r) /\ (routed => transfer = "cleared")
    => ledger = Posting(refunds[r].retained, 0, -refunds[r].retained, 0, -refunds[r].goodwill,
                        refunds[r].goodwill, 0, 0)

(* "Several partial refunds drift by at most a paisa per leg": what the     *)
(* platform, the tax authority and the promotion gave back or got back is   *)
(* within one paisa per refund of its exact share of the driver's refund,   *)
(* and no paisa is made or lost.                                            *)
DriftBounded ==
  LET near(moved, weight) ==
        LET drift == moved * price.total - RefundedPaise * weight
            slack == Cardinality(Decided) * price.total
        IN  -slack =< drift /\ drift =< slack
  IN  (\A r \in Decided : refunds[r].reason \notin FullReversalReasons) =>
        /\ Balances(ledger)
        /\ near(price.fee + ledger.revenue, price.fee)
        /\ near(price.gst + ledger.gst, price.gst)
        /\ near(price.waiver - ledger.promo, price.waiver)

(* A decided refund is sent and settled, unless the relay or the queue gave *)
(* up on it, which each records.                                            *)
GivenUp(m) == outbox[m] = "failed" \/ job[m] = "dead"

DecidedIsSettled ==
  \A r \in Refunds : r \in Decided ~> refunds[r].status = "processed" \/ GivenUp(<<r, "issue">>)
=============================================================================
