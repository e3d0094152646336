------------------------------ MODULE Postings -------------------------------
(***************************************************************************)
(* What the ledger is told: for each event, the net movement of every      *)
(* account, debits positive.  Legs of one account in one posting are added *)
(* up and zero legs vanish, as leg() drops them.  The party of an          *)
(* owner_payable leg is whoever the posting is for.                        *)
(***************************************************************************)
EXTENDS Pricing, FiniteSets

Posting(receivable, payable, revenue, gst, refunds, promo, clearing, withheld) ==
  [receivable |-> receivable, payable |-> payable, revenue |-> revenue, gst |-> gst,
   refunds |-> refunds, promo |-> promo, clearing |-> clearing, withheld |-> withheld]

PostingRecords ==
  [receivable : Int, payable : Int, revenue : Int, gst : Int, refunds : Int, promo : Int,
   clearing : Int, withheld : Int]

NoPosting == Posting(0, 0, 0, 0, 0, 0, 0, 0)

Plus(p, q) ==
  Posting(p.receivable + q.receivable, p.payable + q.payable, p.revenue + q.revenue, p.gst + q.gst,
          p.refunds + q.refunds, p.promo + q.promo, p.clearing + q.clearing, p.withheld + q.withheld)

ReverseEntries(p) ==
  Posting(-p.receivable, -p.payable, -p.revenue, -p.gst, -p.refunds, -p.promo, -p.clearing, -p.withheld)

(* assertEntriesBalance *)
Balances(p) ==
  p.receivable + p.payable + p.revenue + p.gst + p.refunds + p.promo + p.clearing + p.withheld = 0

-----------------------------------------------------------------------------
(* bookingReceivableEntries *)
BookingReceivable(q) == Posting(q.total, -q.owner, -q.fee, -q.gst, 0, q.waiver, 0, 0)

FullReversalKeepingWaiver(q, refund, retained) ==
  Posting(0, q.owner, q.fee - retained, q.gst, -refund, 0, 0, 0)

FullReversalLegs(q, refund, retained) ==
  Posting(0, q.owner, q.fee - retained, q.gst, -refund, -q.waiver, 0, 0)

SumTo(f, n) ==
  LET sum[i \in 0..n] == IF i = 0 THEN 0 ELSE sum[i - 1] + f[i]
  IN  sum[n]

(* Largest remainder, ties to the lower index. *)
Share(total, weights, i, sum) == (total * weights[i]) \div sum
RemainderOf(total, weights, i, sum) == (total * weights[i]) % sum

Shares(total, weights, sum) ==
  LET Before(i, j) == \/ RemainderOf(total, weights, i, sum) > RemainderOf(total, weights, j, sum)
                      \/ /\ RemainderOf(total, weights, i, sum) = RemainderOf(total, weights, j, sum)
                         /\ i < j
      Rank(i) == Cardinality({ j \in DOMAIN weights : Before(j, i) })
      floors == [i \in DOMAIN weights |-> Share(total, weights, i, sum)]
      spare == total - SumTo(floors, Len(weights))
  IN  [i \in DOMAIN weights |-> floors[i] + IF Rank(i) < spare THEN 1 ELSE 0]

AllocateProportionally(total, weights) ==
  LET sum == SumTo(weights, Len(weights))
  IN  IF sum = 0 THEN [i \in DOMAIN weights |-> 0] ELSE Shares(total, weights, sum)

(* Owner, platform and tax give back the fraction the driver gets back; the *)
(* waiver comes back to the account that funded it in the same fraction.    *)
WeightsWithWaiver(q) == <<q.owner, q.fee, q.gst>>
DriverPaid(q) == <<q.owner - q.waiver, q.fee, q.gst>>

ProportionalRefund(q, refund) ==
  LET parts == AllocateProportionally(refund, DriverPaid(q))
      waiver == IF q.waiver = 0 THEN 0
                ELSE AllocateProportionally(refund, <<q.waiver, q.total - q.waiver>>)[1]
  IN  Posting(0, parts[1] + waiver, parts[2], parts[3], -refund, -waiver, 0, 0)

(* refundEntries, of an outcome of RefundPolicy's resolveRefund *)
RefundEntries(q, outcome) ==
  CASE outcome.tier = "no_refund" -> NoPosting
    [] outcome.tier = "before_start" -> FullReversalLegs(q, outcome.refund, outcome.retained)
    [] outcome.tier = "owner_cancelled" ->
         Plus(FullReversalLegs(q, outcome.refund, outcome.retained),
              Posting(0, 0, 0, 0, -outcome.goodwill, outcome.goodwill, 0, 0))
    [] outcome.tier = "active_grace" -> ProportionalRefund(q, outcome.refund)

RefundSettled(amount) == Posting(-amount, 0, 0, 0, amount, 0, 0, 0)

-----------------------------------------------------------------------------
(* computeValetLegFee: part kilometres round up.  Decimetres stand for the  *)
(* exact distance, which the job row keeps rounded to the metre.            *)
LegFee(km) ==
  LET fee == ValetBaseFee + km * ValetPerKm
      commission == MulRate(fee, ServiceCommissionRate)
      gst == MulRate(commission, GstRate)
  IN  [fee |-> fee, commission |-> commission, earnings |-> fee - commission, gst |-> gst, total |-> fee + gst]

ChargeableKm(decimetres) == CeilDiv(decimetres, 10 * MetresPerKm)

NoShowFee == LegFee(0)

(* A partner's leg or wash: the fee and its tax, due from the driver. *)
ServiceEntries(fee) == Posting(fee.total, -fee.earnings, -fee.commission, -fee.gst, 0, 0, 0, 0)

ChargeAdjustmentAgain(charged, retained) == ServiceEntries(retained)

ChargeAdjustment(charged, retained) ==
  Posting(0, charged.earnings - retained.earnings, charged.commission - retained.commission,
          charged.gst - retained.gst, -(charged.total - retained.total), 0, 0, 0)

(* computeWashFee *)
WashFee(price) ==
  LET commission == MulRate(price, ServiceCommissionRate)
      gst == MulRate(commission, GstRate)
  IN  [fee |-> price, commission |-> commission, earnings |-> price - commission, gst |-> gst, total |-> price + gst]

-----------------------------------------------------------------------------
RouteDischarge(amount) == Posting(0, amount, 0, 0, 0, 0, -amount, 0)

SettlementCleared(amount) == Posting(-amount, 0, 0, 0, 0, 0, amount, 0)

RouteReversal(amount) == Posting(amount, -amount, 0, 0, 0, 0, 0, 0)

(* partnerShareOf: the owner_payable debits of a refund's posting *)
PartnerShare(p) == p.payable

PayoutEntries(gross, tcs, tds) ==
  LET taxes == MulRate(gross, tcs) + MulRate(gross, tds)
  IN  Posting(0, gross, 0, 0, 0, 0, -(gross - taxes), -taxes)
=============================================================================
