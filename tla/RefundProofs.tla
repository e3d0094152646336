---------------------------- MODULE RefundProofs ----------------------------
(***************************************************************************)
(* RefundSettlement for any number of refunds, faults, retries and         *)
(* amounts: types, that what is partly given back is given back in         *)
(* proportion, and, as long as one delivery of a job and one event of a    *)
(* refund are handled at a time, that a refund is sent once, settled once, *)
(* and that a booking called off in full leaves no trace.                  *)
(***************************************************************************)
EXTENDS RefundSettlement, MoneyProofs

(* An undecided refund has no row yet, so nothing is summed up for it. *)
RowsDecided == \A r \in Refunds : r \notin Decided => refunds[r] = NoRefund

(* The quote is one the code makes, at no surge. *)
PriceQuoted == price \in Quotes

(* A message has a cause, a job has a message and a delivery has a job.     *)
Caused(m) == IF m[2] = "issue" THEN m[1] \in Decided ELSE refunds[m[1]].sent # 0

MessagesCaused ==
  \A m \in Messages :
    /\ outbox[m] # "none" => Caused(m)
    /\ job[m] # "none" => outbox[m] # "none"

DeliveriesQueued ==
  \A d \in deliveries : job[d.message] # "none" /\ (d.step = "store" => d.id # 0)

SettlesDecided == \A s \in settles : refunds[s[1]].sent # 0

(* A message that is still pending has attempts left. *)
AttemptsLeft ==
  \A m \in Messages :
    /\ outbox[m] = "none" => attempts[m] = 0
    /\ outbox[m] = "pending" => attempts[m] < MaxAttempts

RowsInv ==
  /\ TypeOK /\ RowsDecided /\ PriceQuoted /\ MessagesCaused /\ DeliveriesQueued
  /\ SettlesDecided /\ AttemptsLeft

RefundRows ==
  [reason : Reasons, amount : Nat, share : Nat, retained : Nat, goodwill : Nat,
   sent : Nat, reversed : Nat, status : { "pending", "processed" }]

DeliveryRecords == [message : Messages, n : 1..MaxDeliveries, step : DeliverySteps, id : Nat]

-----------------------------------------------------------------------------
(* What a refund of each kind is posted as. *)
LEMMA TwoWeightsExact ==
  ASSUME NEW total \in Nat, NEW a \in Nat, NEW b \in Nat, a + b > 0
  PROVE  LET part == AllocateProportionally(total, <<a, b>>)[1] IN
         part \in Nat /\ part * (a + b) - total * a \in (-(a + b))..(a + b)
<1> DEFINE w == <<a, b>>
           sum == SumTo(w, 2)
           part == AllocateProportionally(total, w)[1]
<1>1. DOMAIN w = 1..2 /\ Len(w) = 2 /\ w[1] = a
  OBVIOUS
<1>2. sum = a + b
  BY SumOfTwo
<1>3. AllocateProportionally(total, w) = Shares(total, w, sum)
  BY <1>1, <1>2 DEF AllocateProportionally
<1>4. sum \in Nat \ {0} /\ total * a \in Nat
  BY <1>2
<1> HIDE DEF sum
<1>5. PICK bump \in 0..1 : part = Share(total, w, 1, sum) + bump
  BY <1>1, <1>3 DEF Shares
<1> DEFINE floor == Share(total, w, 1, sum)
           rest == (total * a) % sum
           prod == total * a
<1>6. floor = prod \div sum /\ rest = prod % sum /\ prod \in Nat
  BY <1>1, <1>4 DEF Share
<1> HIDE DEF floor, rest, prod, part
<1>7. floor \in Nat /\ rest \in 0..(sum - 1) /\ prod = sum * floor + rest
  BY <1>4, <1>6, DivMod
<1>8. part * sum = sum * floor + (IF bump = 1 THEN sum ELSE 0)
  BY <1>4, <1>5, <1>7 DEF floor
<1>9. sum * floor \in Int
  BY <1>4, <1>7
<1>10. part * sum - prod \in (-sum)..sum
  BY <1>4, <1>7, <1>8, <1>9
<1>11. part \in Nat
  BY <1>5, <1>7 DEF floor
<1> QED BY <1>2, <1>10, <1>11 DEF part, prod


(* A partial refund takes from each party its share of what was paid, to    *)
(* within a paisa, and from the promotion what it had put in.               *)
Near(moved, refund, total, weight) == moved * total - refund * weight \in (-total)..total

LEMMA ProportionalExact ==
  ASSUME NEW q \in Quotes, NEW refund \in 1..q.total
  PROVE  LET p == ProportionalRefund(q, refund) IN
         /\ p \in PostingRecords /\ Balances(p)
         /\ p.refunds = -refund /\ p.receivable = 0 /\ p.clearing = 0
         /\ Near(p.revenue, refund, q.total, q.fee)
         /\ Near(p.gst, refund, q.total, q.gst)
         /\ Near(-p.promo, refund, q.total, q.waiver)
<1> DEFINE w == <<q.owner - q.waiver, q.fee, q.gst>>
           parts == AllocateProportionally(refund, w)
           waiver == IF q.waiver = 0 THEN 0
                     ELSE AllocateProportionally(refund, <<q.waiver, q.total - q.waiver>>)[1]
           p == ProportionalRefund(q, refund)
           T == q.total
<1>1. /\ T \in Nat /\ T > 0 /\ refund \in Nat /\ refund \in 0..T
      /\ q.owner - q.waiver \in Nat /\ q.fee \in Nat /\ q.gst \in Nat /\ q.waiver \in Nat
      /\ q.total - q.waiver \in Nat
      /\ T = (q.owner - q.waiver) + q.fee + q.gst
  BY QuoteFacts
<1>2. p = Posting(0, parts[1] + waiver, parts[2], parts[3], -refund, -waiver, 0, 0)
  BY DEF ProportionalRefund, DriverPaid
<1>3. p \in PostingRecords /\ Balances(p)
  BY <1>1, ProportionalBalances
<1>4. \A i \in 1..3 : parts[i] \in Nat /\ parts[i] * T - refund * w[i] \in (1 - T)..T
  <2>1. w \in [1..3 -> Nat] /\ Len(w) = 3 /\ T = w[1] + w[2] + w[3]
    BY <1>1
  <2> HIDE DEF w, T, p
  <2> QED BY <1>1, <2>1, AllocationIsExact
<1>5. waiver \in Nat /\ Near(waiver, refund, T, q.waiver)
  <2>1. CASE q.waiver = 0
    BY <1>1, <2>1 DEF Near
  <2>2. CASE q.waiver # 0
    <3> DEFINE a == q.waiver  b == q.total - q.waiver
               part == AllocateProportionally(refund, <<a, b>>)[1]
    <3>1. a \in Nat /\ b \in Nat /\ a + b = T /\ waiver = part
      BY <1>1, <2>2
    <3> HIDE DEF a, b, T, waiver
    <3>2. part \in Nat /\ part * (a + b) - refund * a \in (-(a + b))..(a + b)
      BY <1>1, <3>1, TwoWeightsExact
    <3> HIDE DEF part
    <3>3. part \in Nat /\ part * T - refund * a \in (-T)..T
      BY <3>1, <3>2
    <3> QED BY <3>1, <3>3 DEF Near, a
  <2> QED BY <2>1, <2>2
<1>6. w[2] = q.fee /\ w[3] = q.gst
  OBVIOUS
<1> DEFINE y == parts[2]  z == parts[3]
<1>7. y \in Nat /\ z \in Nat /\ y * T - refund * q.fee \in (1 - T)..T /\ z * T - refund * q.gst \in (1 - T)..T
  BY <1>4, <1>6
<1>8. /\ p.refunds = -refund /\ p.receivable = 0 /\ p.clearing = 0
      /\ p.revenue = y /\ p.gst = z /\ -p.promo = waiver
  BY <1>2, <1>5 DEF Posting
<1> HIDE DEF y, z, waiver, p, T
<1>9. Near(y, refund, T, q.fee) /\ Near(z, refund, T, q.gst)
  BY <1>1, <1>7 DEF Near
<1> QED BY <1>3, <1>5, <1>8, <1>9 DEF p, T

(* A cancellation that gives anything back: in full, with the fee kept or   *)
(* the apology added, or in proportion.                                     *)
CalledOffEntries(q, refund, retained, goodwill) ==
  Posting(0, q.owner, q.fee - retained, q.gst, -refund - goodwill, goodwill - q.waiver, 0, 0)

LEMMA CancellationEntries ==
  ASSUME NEW q \in Quotes, NEW at \in Int, NEW by \in Cancellers,
         ResolveRefund(q.total, 0, at, by).refund > 0
  PROVE  LET o == ResolveRefund(q.total, 0, at, by) IN
         /\ o.refund \in 1..q.total /\ o.retained \in Nat /\ o.goodwill \in Nat
         /\ \/ /\ o.tier \in FullReversalReasons /\ o.refund + o.retained = q.total
               /\ RefundEntries(q, o) = CalledOffEntries(q, o.refund, o.retained, o.goodwill)
            \/ /\ o.tier = "active_grace" /\ o.goodwill = 0
               /\ RefundEntries(q, o) = ProportionalRefund(q, o.refund)
<1> DEFINE o == ResolveRefund(q.total, 0, at, by)
<1>q. q.total \in Nat /\ q.owner \in Nat /\ q.fee \in Nat /\ q.gst \in Nat /\ q.waiver \in Nat
  BY QuoteFacts
<1>1. o.refund \in 0..q.total /\ o.retained \in 0..q.total /\ o.refund + o.retained = q.total /\ o.tier \in Tiers
  BY <1>q, RefundSplitsTotal
<1>2. /\ o.goodwill \in Nat
      /\ o.tier \in { "before_start", "active_grace" } => o.goodwill = 0
      /\ o.tier = "no_refund" => o.refund = 0
  BY RefundPolicyAssumption DEF ResolveRefund, Outcome
<1> SUFFICES /\ o.refund \in 1..q.total /\ o.retained \in Nat /\ o.goodwill \in Nat
             /\ \/ /\ o.tier \in FullReversalReasons /\ o.refund + o.retained = q.total
                   /\ RefundEntries(q, o) = CalledOffEntries(q, o.refund, o.retained, o.goodwill)
                \/ /\ o.tier = "active_grace" /\ o.goodwill = 0
                   /\ RefundEntries(q, o) = ProportionalRefund(q, o.refund)
  OBVIOUS
<1>0. o.refund > 0
  OBVIOUS
<1> HIDE DEF o
<1>3. o.refund \in 1..q.total /\ o.retained \in Nat /\ o.goodwill \in Nat
  BY <1>0, <1>1, <1>2
<1>4. CASE o.tier = "before_start"
  <2>1. RefundEntries(q, o) = FullReversalLegs(q, o.refund, o.retained)
    BY <1>4 DEF RefundEntries
  <2>2. o.goodwill = 0
    BY <1>2, <1>4
  <2>3. RefundEntries(q, o) = CalledOffEntries(q, o.refund, o.retained, o.goodwill)
    BY <1>q, <1>3, <2>1, <2>2 DEF FullReversalLegs, CalledOffEntries, Posting
  <2> QED BY <1>1, <1>3, <1>4, <2>3 DEF FullReversalReasons
<1>5. CASE o.tier = "owner_cancelled"
  <2>1. RefundEntries(q, o) = Plus(FullReversalLegs(q, o.refund, o.retained),
                                   Posting(0, 0, 0, 0, -o.goodwill, o.goodwill, 0, 0))
    BY <1>5 DEF RefundEntries
  <2>2. RefundEntries(q, o) = CalledOffEntries(q, o.refund, o.retained, o.goodwill)
    BY <1>q, <1>3, <2>1 DEF Plus, FullReversalLegs, CalledOffEntries, Posting
  <2> QED BY <1>1, <1>3, <1>5, <2>2 DEF FullReversalReasons
<1>6. CASE o.tier = "active_grace"
  <2>1. RefundEntries(q, o) = ProportionalRefund(q, o.refund)
    BY <1>6 DEF RefundEntries
  <2> QED BY <1>2, <1>3, <1>6, <2>1
<1> QED BY <1>0, <1>1, <1>2, <1>4, <1>5, <1>6 DEF Tiers

LEMMA CalledOffTyped ==
  ASSUME NEW q \in Quotes, NEW refund \in Int, NEW retained \in Int, NEW goodwill \in Int
  PROVE  CalledOffEntries(q, refund, retained, goodwill) \in PostingRecords
BY QuoteFacts DEF CalledOffEntries, Posting, PostingRecords

-----------------------------------------------------------------------------
(* What a step does to the rows, the transfer and the books.                *)
Quiet == UNCHANGED <<booking, ledger, refunds>>

DecidesFully(r, row, posting) ==
  /\ Decided = {} /\ row.reason \in FullReversalReasons
  /\ row.amount + row.retained = price.total
  /\ row.share = IF routed THEN price.owner ELSE 0
  /\ posting = CalledOffEntries(price, row.amount, row.retained, row.goodwill)

DecidesInPart(r, row, posting) ==
  /\ \A q \in Decided : refunds[q].reason \notin FullReversalReasons
  /\ row.reason \notin FullReversalReasons
  /\ row.goodwill = 0 /\ row.amount \in 1..price.total
  /\ posting = ProportionalRefund(price, row.amount)

Decides(r, row, posting) ==
  /\ r \in Refunds /\ r \notin Decided
  /\ row \in RefundRows /\ row.reason # "none"
  /\ row.sent = 0 /\ row.reversed = 0 /\ row.status = "pending"
  /\ posting \in PostingRecords /\ posting.refunds = -(row.amount + row.goodwill)
  /\ DecidesFully(r, row, posting) \/ DecidesInPart(r, row, posting)
  /\ refunds' = [refunds EXCEPT ![r] = row]
  /\ ledger' = Plus(ledger, posting)
  /\ outbox' = [outbox EXCEPT ![<<r, "issue">>] = "pending"]
  /\ UNCHANGED <<booking, attempts, job, retries, faults, deliveries, made, settles>>

(* The amounts of undecided refunds are nothing, so the sum is no less.     *)
LEMMA RefundedNat ==
  ASSUME TypeOK
  PROVE  RefundedPaise \in Nat
<1> DEFINE f == [r \in Refunds |-> refunds[r].amount]
           zero == [r \in Refunds |-> 0]
<1>1. MaxRefunds \in Nat /\ \A i \in 1..MaxRefunds : f[i] \in Nat /\ zero[i] = 0
  BY SettlementAssumption DEF TypeOK, Refunds
<1> HIDE DEF f, zero
<1>2. SumTo(f, MaxRefunds) \in Int
  BY <1>1, SumInt
<1>3. SumTo(zero, MaxRefunds) = 0
  BY <1>1, SumOfZeros
<1>4. SumTo(zero, MaxRefunds) =< SumTo(f, MaxRefunds)
  BY <1>1, SumGrows
<1> QED BY <1>2, <1>3, <1>4 DEF RefundedPaise, f

LEMMA QuotePrice ==
  ASSUME PriceQuoted
  PROVE  /\ price.total \in Nat /\ price.owner \in Nat /\ price.fee \in Nat
         /\ price.gst \in Nat /\ price.waiver \in Nat
BY QuoteFacts DEF PriceQuoted

LEMMA ShareNat ==
  ASSUME PriceQuoted, TypeOK, NEW posting \in PostingRecords
  PROVE  RouteReversalPaise(posting) \in Nat
BY QuotePrice DEF RouteReversalPaise, PartnerShare, Lesser, PostingRecords, TypeOK

LEMMA CancelDecides ==
  ASSUME RowsInv, NEW by \in Cancellers, NEW at \in Int, Cancel(by, at)
  PROVE  \E r, row, posting : Decides(r, row, posting)
<1> DEFINE o == ResolveRefund(price.total, 0, at, by)
           posting == RefundEntries(price, o)
           row == Refund(o.tier, o.refund, RouteReversalPaise(posting), o.retained, o.goodwill)
<1>1. Decided = {} /\ Decide(1, o.tier, o.refund, o.retained, o.goodwill, posting)
  BY DEF Cancel
<1>t. TypeOK /\ PriceQuoted /\ price \in Quotes
  BY DEF RowsInv, PriceQuoted
<1>2. /\ o.refund \in 1..price.total /\ o.retained \in Nat /\ o.goodwill \in Nat
      /\ \/ /\ o.tier \in FullReversalReasons /\ o.refund + o.retained = price.total
            /\ posting = CalledOffEntries(price, o.refund, o.retained, o.goodwill)
         \/ /\ o.tier = "active_grace" /\ o.goodwill = 0
            /\ posting = ProportionalRefund(price, o.refund)
  <2>1. o.refund > 0
    BY <1>1 DEF Decide
  <2> QED BY <1>t, <2>1, CancellationEntries
<1> HIDE DEF o, posting
<1>3. posting \in PostingRecords /\ posting.refunds = -(o.refund + o.goodwill)
  <2>1. CASE posting = CalledOffEntries(price, o.refund, o.retained, o.goodwill)
    BY <1>t, <1>2, <2>1, CalledOffTyped DEF CalledOffEntries, Posting
  <2>2. CASE o.goodwill = 0 /\ posting = ProportionalRefund(price, o.refund)
    BY <1>t, <1>2, <2>2, ProportionalExact
  <2> QED BY <1>2, <2>1, <2>2
<1>4. o.tier \in Reasons \ { "none" }
  BY <1>2 DEF FullReversalReasons, Reasons, Tiers
<1>5. /\ row = [reason |-> o.tier, amount |-> o.refund, share |-> RouteReversalPaise(posting),
                retained |-> o.retained, goodwill |-> o.goodwill, sent |-> 0, reversed |-> 0, status |-> "pending"]
      /\ row \in RefundRows
  <2> DEFINE share == RouteReversalPaise(posting)
  <2>1. share \in Nat
    BY <1>t, <1>3, ShareNat
  <2> HIDE DEF share
  <2>2. row = [reason |-> o.tier, amount |-> o.refund, share |-> share,
               retained |-> o.retained, goodwill |-> o.goodwill, sent |-> 0, reversed |-> 0, status |-> "pending"]
    BY DEF Refund, share
  <2>3. o.refund \in Nat /\ o.retained \in Nat /\ o.goodwill \in Nat /\ o.tier \in Reasons
    BY <1>2, <1>4, <1>t, QuotePrice
  <2> HIDE DEF row
  <2>4. row \in RefundRows
    BY <2>1, <2>2, <2>3 DEF RefundRows
  <2> QED BY <2>2, <2>4 DEF share
<1>6. DecidesFully(1, row, posting) \/ DecidesInPart(1, row, posting)
  <2>1. CASE /\ o.tier \in FullReversalReasons /\ o.refund + o.retained = price.total
             /\ posting = CalledOffEntries(price, o.refund, o.retained, o.goodwill)
    <3>1. PartnerShare(posting) = price.owner
      BY <2>1 DEF CalledOffEntries, Posting, PartnerShare
    <3>2. RouteReversalPaise(posting) = IF routed THEN price.owner ELSE 0
      BY <1>t, <3>1, QuotePrice DEF RouteReversalPaise, Lesser
    <3> QED BY <1>1, <1>5, <2>1, <3>2 DEF DecidesFully
  <2>2. CASE o.tier = "active_grace" /\ o.goodwill = 0 /\ posting = ProportionalRefund(price, o.refund)
    BY <1>1, <1>2, <1>5, <2>2 DEF DecidesInPart, FullReversalReasons
  <2> QED BY <1>2, <2>1, <2>2
<1> HIDE DEF row
<1>7. Decides(1, row, posting)
  BY <1>1, <1>3, <1>4, <1>5, <1>6 DEF Decides, Decide, row
<1> QED BY <1>7

LEMMA AdminDecides ==
  ASSUME RowsInv, NEW r \in Refunds, NEW amount \in Int, AdminRefund(r, amount)
  PROVE  \E row, posting : Decides(r, row, posting)
<1> DEFINE posting == ProportionalRefund(price, amount)
           row == Refund("admin", amount, RouteReversalPaise(posting), 0, 0)
<1>1. /\ amount =< RefundableOf(price.total, RefundedPaise, { refunds[q].reason : q \in Decided })
      /\ Decide(r, "admin", amount, 0, 0, posting)
  BY DEF AdminRefund
<1>t. TypeOK /\ PriceQuoted /\ price \in Quotes
  BY DEF RowsInv, PriceQuoted
<1>2. amount \in 1..price.total /\ { refunds[q].reason : q \in Decided } \cap FullReversalReasons = {}
  <2>1. amount > 0
    BY <1>1 DEF Decide
  <2> QED BY <1>1, <1>t, <2>1, QuotePrice, RefundedNat DEF RefundableOf
<1>3. posting \in PostingRecords /\ posting.refunds = -amount
  BY <1>t, <1>2, ProportionalExact
<1> HIDE DEF posting
<1>4. /\ row = [reason |-> "admin", amount |-> amount, share |-> RouteReversalPaise(posting),
                retained |-> 0, goodwill |-> 0, sent |-> 0, reversed |-> 0, status |-> "pending"]
      /\ row \in RefundRows
  <2> DEFINE share == RouteReversalPaise(posting)
  <2>1. share \in Nat
    BY <1>t, <1>3, ShareNat
  <2> HIDE DEF share
  <2>2. row = [reason |-> "admin", amount |-> amount, share |-> share,
               retained |-> 0, goodwill |-> 0, sent |-> 0, reversed |-> 0, status |-> "pending"]
    BY DEF Refund, share
  <2>3. amount \in Nat /\ "admin" \in Reasons
    BY <1>2, <1>t, QuotePrice DEF Reasons
  <2> HIDE DEF row
  <2>4. row \in RefundRows
    BY <2>1, <2>2, <2>3 DEF RefundRows
  <2> QED BY <2>2, <2>4 DEF share
<1>5. DecidesInPart(r, row, posting)
  BY <1>2, <1>4 DEF DecidesInPart, FullReversalReasons, posting
<1> HIDE DEF row
<1>6. r \notin Decided
  BY <1>1, SettlementAssumption DEF Decide, Refunds
<1>7. row.reason # "none" /\ row.sent = 0 /\ row.reversed = 0 /\ row.status = "pending"
      /\ posting.refunds = -(row.amount + row.goodwill)
  BY <1>2, <1>3, <1>4
<1>8. Decides(r, row, posting)
  BY <1>1, <1>3, <1>4, <1>5, <1>6, <1>7 DEF Decides, Decide, row
<1> QED BY <1>8

LEMMA DecidesOnce ==
  ASSUME RowsInv, NEW r, NEW row, NEW posting, Decides(r, row, posting)
  PROVE  /\ refunds' \in [Refunds -> RefundRows] /\ refunds'[r] = row
         /\ \A q \in Refunds \ {r} : refunds'[q] = refunds[q]
         /\ Decided' = Decided \cup {r} /\ refunds[r] = NoRefund
         /\ ledger' \in PostingRecords
<1>1. refunds \in [Refunds -> RefundRows] /\ r \in Refunds /\ row \in RefundRows /\ row.reason # "none"
      /\ refunds' = [refunds EXCEPT ![r] = row]
  BY DEF RowsInv, TypeOK, RefundRows, Decides
<1>2. refunds[r] = NoRefund
  BY DEF RowsInv, RowsDecided, Decides
<1>3. ledger' \in PostingRecords
  BY DEF RowsInv, TypeOK, Decides, Plus, Posting, PostingRecords
<1> QED BY <1>1, <1>2, <1>3 DEF Decided

LEMMA NextCases ==
  ASSUME RowsInv, [Next]_vars
  PROVE  \/ \E r, row, posting : Decides(r, row, posting)
         \/ \E m \in Messages : Relay(m) \/ RelayRollsBack(m) \/ RelayFails(m)
         \/ \E m \in Messages, n \in 1..MaxDeliveries : Start(m, n)
         \/ \E d \in deliveries : Find(d) \/ Create(d) \/ Store(d) \/ Fail(d)
         \/ \E r \in Refunds, n \in 1..MaxSettles : SettleRead(r, n)
         \/ \E s \in settles : SettleWrite(s)
         \/ Reconcile
         \/ UNCHANGED vars
<1>1. ASSUME NEW by \in Cancellers, NEW at \in { -1, 0, Grace }, Cancel(by, at)
      PROVE  \E r, row, posting : Decides(r, row, posting)
  <2>1. at \in Int
    BY RefundPolicyAssumption
  <2> QED BY <1>1, <2>1, CancelDecides
<1>2. ASSUME NEW r \in Refunds, NEW amount \in Amounts \cup { price.total - RefundedPaise }, AdminRefund(r, amount)
      PROVE  \E q, row, posting : Decides(q, row, posting)
  <2>1. amount \in Int
    BY SettlementAssumption, QuotePrice, RefundedNat DEF RowsInv
  <2> QED BY <1>2, <2>1, AdminDecides
<1>3. ASSUME NEW m \in Messages, Deliver(m)
      PROVE  \/ \E n \in 1..MaxDeliveries : Start(m, n)
             \/ \E d \in deliveries : Find(d) \/ Create(d) \/ Store(d)
  BY <1>3 DEF Deliver, Running
<1> QED BY <1>1, <1>2, <1>3 DEF Next, Settle

(* A delivery is of a refund that was decided. *)
LEMMA DeliveryFacts ==
  ASSUME RowsInv, NEW d \in deliveries
  PROVE  /\ d \in DeliveryRecords /\ d.message \in Messages
         /\ d.message = <<d.message[1], d.message[2]>>
         /\ d.message[1] \in Refunds /\ d.message[2] \in Kinds
         /\ outbox[d.message] # "none" /\ Caused(d.message)
BY DEF RowsInv, TypeOK, DeliveryRecords, Messages, Kinds, MessagesCaused, DeliveriesQueued

LEMMA SentDecided ==
  ASSUME RowsInv, NEW r \in Refunds, refunds[r].sent # 0
  PROVE  r \in Decided
BY DEF RowsInv, RowsDecided, NoRefund, Refund

LEMMA CausedDecided ==
  ASSUME RowsInv, NEW m \in Messages, outbox[m] # "none"
  PROVE  m[1] \in Decided
BY SentDecided DEF RowsInv, MessagesCaused, Caused, Messages, Kinds

(* What Store writes, to the first id of a message and to no later one.     *)
StoresSent(d) ==
  /\ d.message[2] = "issue"
  /\ refunds' = [refunds EXCEPT ![d.message[1]].sent = d.id]
  /\ outbox' = IF refunds[d.message[1]].share = 0 THEN outbox
               ELSE [outbox EXCEPT ![<<d.message[1], "reverse">>] = "pending"]
  /\ UNCHANGED ledger

StoresReversed(d) ==
  /\ d.message[2] = "reverse"
  /\ refunds' = [refunds EXCEPT ![d.message[1]].reversed = d.id]
  /\ ledger' = Plus(ledger, RouteReversal(refunds[d.message[1]].share))
  /\ UNCHANGED outbox

LEMMA StoreCases ==
  ASSUME RowsInv, NEW d \in deliveries, Store(d)
  PROVE  /\ d.id \in Nat \ {0} /\ d.message[1] \in Decided
         /\ deliveries' = deliveries \ {d} /\ job' = [job EXCEPT ![d.message] = "done"]
         /\ UNCHANGED <<booking, attempts, retries, faults, made, settles>>
         /\ \/ UNCHANGED <<refunds, ledger, outbox>>
            \/ StoresSent(d) /\ refunds[d.message[1]].sent = 0
            \/ StoresReversed(d) /\ refunds[d.message[1]].reversed = 0
<1>1. d \in DeliveryRecords /\ d.message[2] \in Kinds /\ d.message[1] \in Decided
  BY DeliveryFacts, CausedDecided
<1>2. d.id \in Nat \ {0}
  BY <1>1 DEF Store, RowsInv, DeliveriesQueued, DeliveryRecords
<1> QED BY <1>1, <1>2 DEF Store, StoredId, StoresSent, StoresReversed, Kinds

(* The rows after one field of one of them was written. *)
LEMMA RowWritten ==
  ASSUME RowsInv, NEW r \in Decided, NEW id \in Nat,
         \/ refunds' = [refunds EXCEPT ![r].sent = id]
         \/ refunds' = [refunds EXCEPT ![r].reversed = id]
         \/ refunds' = [refunds EXCEPT ![r].status = "processed"]
  PROVE  /\ refunds' \in [Refunds -> RefundRows] /\ Decided' = Decided
         /\ \A q \in Refunds \ {r} : refunds'[q] = refunds[q]
         /\ refunds'[r].reason = refunds[r].reason /\ refunds'[r].amount = refunds[r].amount
         /\ refunds'[r].share = refunds[r].share /\ refunds'[r].retained = refunds[r].retained
         /\ refunds'[r].goodwill = refunds[r].goodwill
<1>1. refunds \in [Refunds -> RefundRows] /\ r \in Refunds
  BY DEF RowsInv, TypeOK, RefundRows, Decided
<1> QED BY <1>1 DEF Decided, RefundRows

LEMMA PostingsTyped ==
  /\ \A share \in Int : RouteReversal(share) \in PostingRecords
  /\ \A amount \in Int : RefundSettled(amount) \in PostingRecords /\ SettlementCleared(amount) \in PostingRecords
                         /\ RouteDischarge(amount) \in PostingRecords
  /\ \A p, o \in PostingRecords : Plus(p, o) \in PostingRecords
BY DEF RouteReversal, RefundSettled, SettlementCleared, RouteDischarge, Plus, Posting, PostingRecords

LEMMA InitRows == Init => RowsInv
<1> SUFFICES ASSUME Init PROVE RowsInv
  OBVIOUS
<1>1. PICK base \in Bases, waived \in Waivers : price = Quote(base, BasisPoints, waived)
  BY DEF Init
<1>2. price \in Quotes
  <2>1. base \in Nat /\ waived \in BOOLEAN /\ BasisPoints \in Multipliers
    BY SettlementAssumption DEF Multipliers, BasisPoints
  <2> QED BY <1>1, <2>1 DEF Quotes
<1>3. ledger \in PostingRecords
  <2>1. BookingReceivable(price) \in PostingRecords
    BY <1>2, QuoteFacts DEF BookingReceivable, Posting, PostingRecords
  <2>2. RouteDischarge(price.owner) \in PostingRecords
    BY <1>2, QuoteFacts, PostingsTyped
  <2> QED BY <2>1, <2>2, PostingsTyped DEF Init
<1>4. NoRefund \in RefundRows /\ Decided = {}
  BY DEF Init, NoRefund, Refund, RefundRows, Reasons, Decided
<1>5. TypeOK
  BY <1>3, <1>4, SettlementAssumption
  DEF Init, TypeOK, RefundRows, OutboxStatuses, JobStatuses
<1> QED BY <1>2, <1>4, <1>5, SettlementAssumption
  DEF Init, RowsInv, RowsDecided, PriceQuoted, MessagesCaused, DeliveriesQueued, SettlesDecided, AttemptsLeft

LEMMA DecidesRows ==
  ASSUME RowsInv, NEW r, NEW row, NEW posting, Decides(r, row, posting)
  PROVE  RowsInv'
<1> USE DEF RowsInv
<1>1. /\ refunds' \in [Refunds -> RefundRows] /\ refunds'[r] = row /\ r \in Refunds
      /\ \A q \in Refunds \ {r} : refunds'[q] = refunds[q]
      /\ Decided' = Decided \cup {r} /\ refunds[r] = NoRefund /\ r \notin Decided
      /\ ledger' \in PostingRecords
  BY DecidesOnce DEF Decides
<1>2. /\ outbox' = [outbox EXCEPT ![<<r, "issue">>] = "pending"] /\ <<r, "issue">> \in Messages
      /\ UNCHANGED <<booking, attempts, job, retries, faults, deliveries, made, settles>>
  BY <1>1 DEF Decides, Messages, Kinds
<1>3. TypeOK'
  BY <1>1, <1>2 DEF TypeOK, RefundRows, booking, OutboxStatuses
<1>4. outbox[<<r, "issue">>] = "none" /\ attempts[<<r, "issue">>] = 0
  BY <1>1, <1>2, CausedDecided DEF AttemptsLeft
<1>5. \A m \in Messages : Caused(m) => Caused(m)'
  <2>1. refunds[r].sent = 0
    BY <1>1 DEF NoRefund, Refund
  <2> QED BY <1>1, <2>1 DEF Caused, Messages
<1>6. Caused(<<r, "issue">>)'
  BY <1>1 DEF Caused
<1>7. MessagesCaused' /\ AttemptsLeft'
  BY <1>2, <1>4, <1>5, <1>6, SettlementAssumption DEF MessagesCaused, AttemptsLeft, TypeOK
<1>8. RowsDecided' /\ PriceQuoted' /\ DeliveriesQueued'
  BY <1>1, <1>2 DEF RowsDecided, PriceQuoted, DeliveriesQueued, booking
<1>9. SettlesDecided'
  BY <1>1, <1>2 DEF SettlesDecided, TypeOK, NoRefund, Refund
<1> QED BY <1>3, <1>7, <1>8, <1>9

(* A step of the queue leaves the rows and the books alone. *)
LEMMA QueueRows ==
  ASSUME RowsInv, UNCHANGED <<booking, ledger, refunds, settles>>, TypeOK',
         MessagesCaused', DeliveriesQueued', AttemptsLeft'
  PROVE  RowsInv'
BY DEF RowsInv, RowsDecided, PriceQuoted, SettlesDecided, Decided, booking

LEMMA RelayRows ==
  ASSUME RowsInv, NEW m \in Messages, Relay(m) \/ RelayRollsBack(m) \/ RelayFails(m)
  PROVE  RowsInv'
<1> USE DEF RowsInv
<1>1. UNCHANGED <<booking, ledger, refunds, settles, retries, deliveries, made>> /\ outbox[m] = "pending"
  BY DEF Relay, RelayRollsBack, RelayFails, Pending
<1>2. /\ job' \in [Messages -> JobStatuses]
      /\ \A k \in Messages : job[k] # "none" => job'[k] # "none"
      /\ \A k \in Messages : job'[k] # "none" => job[k] # "none" \/ k = m
  BY DEF TypeOK, Relay, RelayRollsBack, RelayFails, WithJob, JobStatuses
<1>3. /\ outbox' \in [Messages -> OutboxStatuses] /\ outbox'[m] # "none"
      /\ \A k \in Messages \ {m} : outbox'[k] = outbox[k]
  BY <1>1 DEF TypeOK, Relay, RelayRollsBack, RelayFails, OutboxStatuses
<1>4. /\ attempts' \in [Messages -> 0..MaxAttempts]
      /\ outbox'[m] = "pending" => attempts'[m] < MaxAttempts
      /\ \A k \in Messages \ {m} : attempts'[k] = attempts[k]
  <2>1. attempts[m] < MaxAttempts /\ attempts \in [Messages -> 0..MaxAttempts] /\ MaxAttempts \in Nat
    BY <1>1, SettlementAssumption DEF AttemptsLeft, TypeOK
  <2>2. CASE Relay(m) \/ RelayRollsBack(m)
    BY <2>1, <2>2 DEF Relay, RelayRollsBack, TypeOK
  <2>3. CASE RelayFails(m)
    BY <2>1, <2>3 DEF RelayFails, GivesUp, TypeOK
  <2> QED BY <2>2, <2>3
<1>5. faults' \in 0..MaxFaults
  BY SettlementAssumption DEF TypeOK, Relay, RelayRollsBack, RelayFails, MayFail
<1>6. TypeOK'
  BY <1>1, <1>2, <1>3, <1>4, <1>5 DEF TypeOK, booking
<1>7. \A k \in Messages : Caused(k)' <=> Caused(k)
  BY <1>1 DEF Caused, Decided
<1>8. MessagesCaused'
  BY <1>1, <1>2, <1>3, <1>7 DEF MessagesCaused
<1>9. AttemptsLeft'
  BY <1>3, <1>4 DEF AttemptsLeft
<1>10. DeliveriesQueued'
  BY <1>1, <1>2 DEF DeliveriesQueued, TypeOK
<1> QED BY <1>1, <1>6, <1>8, <1>9, <1>10, QueueRows

LEMMA StartRows ==
  ASSUME RowsInv, NEW m \in Messages, NEW n \in 1..MaxDeliveries, Start(m, n)
  PROVE  RowsInv'
<1> USE DEF RowsInv
<1>1. /\ UNCHANGED <<booking, ledger, refunds, settles, outbox, attempts, retries, faults, made>>
      /\ job[m] = "ready"
  BY DEF Start
<1>2. /\ job' \in [Messages -> JobStatuses]
      /\ \A k \in Messages : job[k] # "none" <=> job'[k] # "none"
  BY <1>1 DEF TypeOK, Start, JobStatuses
<1>3. deliveries' \subseteq deliveries \cup {Delivery(m, n)}
  BY DEF Start
<1>4. Delivery(m, n) \in DeliveryRecords
  BY DEF Delivery, DeliveryRecords, DeliverySteps
<1>5. TypeOK'
  BY <1>1, <1>2, <1>3, <1>4 DEF TypeOK, booking, DeliveryRecords
<1>6. DeliveriesQueued'
  BY <1>1, <1>2, <1>3 DEF DeliveriesQueued, Delivery, TypeOK
<1>7. MessagesCaused' /\ AttemptsLeft'
  BY <1>1, <1>2 DEF MessagesCaused, AttemptsLeft, Caused, Decided
<1> QED BY <1>1, <1>5, <1>6, <1>7, QueueRows

LEMMA FindCreateRows ==
  ASSUME RowsInv, NEW d \in deliveries, Find(d) \/ Create(d)
  PROVE  RowsInv'
<1> USE DEF RowsInv
<1>1. UNCHANGED <<booking, ledger, refunds, settles, outbox, attempts, job, retries, faults>>
  BY DEF Find, Create, queue
<1>2. d \in DeliveryRecords /\ d.message \in Messages /\ made \in [Messages -> Nat]
  BY DeliveryFacts DEF TypeOK
<1>3. PICK step \in DeliverySteps, id \in Nat :
        Advance(d, step, id) /\ (step = "store" => id # 0)
  BY <1>2 DEF Find, Create, HeldByGateway, DeliverySteps, DeliveryRecords
<1>4. made' \in [Messages -> Nat]
  BY <1>2 DEF Find, Create
<1> DEFINE e == [d EXCEPT !.step = step, !.id = id]
<1>5. e \in DeliveryRecords /\ e.message = d.message /\ e.step = step /\ e.id = id
  BY <1>2 DEF DeliveryRecords
<1>6. deliveries' \subseteq deliveries \cup {e}
  BY <1>3 DEF Advance
<1> HIDE DEF e
<1>7. TypeOK'
  BY <1>1, <1>4, <1>5, <1>6 DEF TypeOK, booking, DeliveryRecords
<1>8. DeliveriesQueued'
  BY <1>1, <1>3, <1>5, <1>6 DEF DeliveriesQueued
<1>9. MessagesCaused' /\ AttemptsLeft'
  BY <1>1 DEF MessagesCaused, AttemptsLeft, Caused, Decided
<1> QED BY <1>1, <1>7, <1>8, <1>9, QueueRows

LEMMA FailRows ==
  ASSUME RowsInv, NEW d \in deliveries, Fail(d)
  PROVE  RowsInv'
<1> USE DEF RowsInv
<1> DEFINE m == d.message
<1>1. UNCHANGED <<booking, ledger, refunds, settles, outbox, attempts, made>>
  BY DEF Fail
<1>2. m \in Messages /\ job[m] # "none"
  BY DeliveryFacts DEF DeliveriesQueued
<1>3. /\ job' = [job EXCEPT ![m] = AfterFailure(m)] /\ AfterFailure(m) \in { "ready", "done", "dead" }
      /\ job' \in [Messages -> JobStatuses]
      /\ \A k \in Messages : job[k] # "none" <=> job'[k] # "none"
  BY <1>2 DEF Fail, TypeOK, AfterFailure, JobStatuses
<1>4. retries' \in [Messages -> 0..RetryLimit]
  BY <1>2, SettlementAssumption DEF Fail, TypeOK, AfterFailure
<1>5. faults' \in 0..MaxFaults /\ deliveries' \subseteq deliveries
  BY SettlementAssumption DEF Fail, TypeOK, MayFail
<1>6. TypeOK'
  BY <1>1, <1>3, <1>4, <1>5 DEF TypeOK, booking
<1>7. DeliveriesQueued'
  BY <1>3, <1>5 DEF DeliveriesQueued, TypeOK
<1>8. MessagesCaused' /\ AttemptsLeft'
  BY <1>1, <1>3 DEF MessagesCaused, AttemptsLeft, Caused, Decided
<1> QED BY <1>1, <1>6, <1>7, <1>8, QueueRows

LEMMA StoreRows ==
  ASSUME RowsInv, NEW d \in deliveries, Store(d)
  PROVE  RowsInv'
<1> USE DEF RowsInv
<1> DEFINE m == d.message  r == d.message[1]
<1>1. /\ d.id \in Nat \ {0} /\ r \in Decided
      /\ deliveries' = deliveries \ {d} /\ job' = [job EXCEPT ![m] = "done"]
      /\ UNCHANGED <<booking, attempts, retries, faults, made, settles>>
      /\ \/ UNCHANGED <<refunds, ledger, outbox>>
         \/ StoresSent(d) /\ refunds[r].sent = 0
         \/ StoresReversed(d) /\ refunds[r].reversed = 0
  BY StoreCases
<1>2. m \in Messages /\ r \in Refunds /\ outbox[m] # "none" /\ job[m] # "none"
  BY DeliveryFacts DEF DeliveriesQueued
<1>3. /\ job' \in [Messages -> JobStatuses]
      /\ \A k \in Messages : job[k] # "none" <=> job'[k] # "none"
  BY <1>1, <1>2 DEF TypeOK, JobStatuses
<1>4. DeliveriesQueued'
  BY <1>1, <1>3 DEF DeliveriesQueued, TypeOK
<1>5. CASE UNCHANGED <<refunds, ledger, outbox>>
  <2>1. TypeOK'
    BY <1>1, <1>3, <1>5 DEF TypeOK, booking
  <2>2. MessagesCaused' /\ AttemptsLeft'
    BY <1>1, <1>3, <1>5 DEF MessagesCaused, AttemptsLeft, Caused, Decided
  <2> QED BY <1>1, <1>4, <1>5, <2>1, <2>2, QueueRows
<1>6. CASE (StoresSent(d) /\ refunds[r].sent = 0) \/ (StoresReversed(d) /\ refunds[r].reversed = 0)
  <2>1. /\ refunds' \in [Refunds -> RefundRows] /\ Decided' = Decided
        /\ \A q \in Refunds \ {r} : refunds'[q] = refunds[q]
    BY <1>1, <1>6, RowWritten DEF StoresSent, StoresReversed
  <2>2. \A q \in Refunds : refunds[q].sent # 0 => refunds'[q].sent # 0
    BY <1>1, <1>2, <1>6, <2>1 DEF StoresSent, StoresReversed, TypeOK
  <2>3. ledger' \in PostingRecords
    <3>1. refunds[r].share \in Int /\ ledger \in PostingRecords
      BY <1>2 DEF TypeOK
    <3> QED BY <1>6, <3>1, PostingsTyped DEF StoresSent, StoresReversed
  <2>4. /\ outbox' \in [Messages -> OutboxStatuses]
        /\ \A k \in Messages : outbox'[k] = outbox[k]
             \/ (k = <<r, "reverse">> /\ outbox'[k] = "pending" /\ refunds'[r].sent # 0 /\ refunds[r].sent = 0)
    <3>1. CASE StoresReversed(d)
      BY <3>1 DEF StoresReversed, TypeOK
    <3>2. CASE StoresSent(d) /\ refunds[r].sent = 0
      <4>1. refunds'[r].sent # 0
        BY <1>1, <1>2, <3>2 DEF StoresSent, TypeOK
      <4> QED BY <3>2, <4>1 DEF StoresSent, TypeOK, OutboxStatuses
    <3> QED BY <1>6, <3>1, <3>2
  <2>5. TypeOK'
    BY <1>1, <1>3, <2>1, <2>3, <2>4 DEF TypeOK, RefundRows, booking
  <2>6. \A k \in Messages : Caused(k) => Caused(k)'
    BY <2>1, <2>2 DEF Caused, Messages
  <2>7. refunds[r].sent = 0 => outbox[<<r, "reverse">>] = "none"
    <3>1. <<r, "reverse">> \in Messages
      BY <1>2 DEF Messages, Kinds
    <3> QED BY <3>1 DEF MessagesCaused, Caused
  <2>8. MessagesCaused'
    <3>1. ASSUME NEW k \in Messages
          PROVE  (outbox'[k] # "none" => Caused(k)') /\ (job'[k] # "none" => outbox'[k] # "none")
      BY <1>3, <2>4, <2>6 DEF MessagesCaused, Caused
    <3> QED BY <3>1 DEF MessagesCaused
  <2>9. AttemptsLeft'
    <3>1. ASSUME NEW k \in Messages
          PROVE  /\ outbox'[k] = "none" => attempts'[k] = 0
                 /\ outbox'[k] = "pending" => attempts'[k] < MaxAttempts
      <4>1. attempts'[k] = attempts[k] /\ (outbox[k] = "none" => attempts[k] = 0)
            /\ (outbox[k] = "pending" => attempts[k] < MaxAttempts)
        BY <1>1 DEF AttemptsLeft
      <4>2. outbox'[k] = outbox[k] \/ (outbox'[k] = "pending" /\ outbox[k] = "none")
        BY <2>4, <2>7
      <4> QED BY <4>1, <4>2, SettlementAssumption
    <3> QED BY <3>1 DEF AttemptsLeft
  <2>10. RowsDecided' /\ PriceQuoted' /\ SettlesDecided'
    BY <1>1, <2>1, <2>2 DEF RowsDecided, PriceQuoted, SettlesDecided, booking, TypeOK
  <2> QED BY <1>4, <2>5, <2>8, <2>9, <2>10
<1> QED BY <1>1, <1>5, <1>6

LEMMA SettleRows ==
  ASSUME RowsInv, NEW s \in settles, SettleWrite(s)
  PROVE  /\ RowsInv' /\ s[1] \in Decided /\ s \in Refunds \X (1..MaxSettles)
         /\ refunds[s[1]].amount \in Nat
<1> USE DEF RowsInv
<1> DEFINE r == s[1]
<1>1. s \in Refunds \X (1..MaxSettles) /\ r \in Refunds /\ refunds[r].sent # 0 /\ refunds[r].amount \in Nat
  BY DEF SettlesDecided, TypeOK
<1>2. /\ settles' = settles \ {s} /\ refunds' = [refunds EXCEPT ![r].status = "processed"]
      /\ ledger' = Plus(ledger, RefundSettled(refunds[r].amount))
      /\ UNCHANGED <<booking, queue, deliveries, made>>
  BY DEF SettleWrite
<1>3. r \in Decided
  BY <1>1, SentDecided
<1>4. /\ refunds' \in [Refunds -> RefundRows] /\ Decided' = Decided
      /\ \A q \in Refunds \ {r} : refunds'[q] = refunds[q]
  BY <1>2, <1>3, RowWritten
<1>5. \A q \in Refunds : refunds'[q].sent = refunds[q].sent
  BY <1>1, <1>2, <1>4 DEF TypeOK
<1>6. ledger' \in PostingRecords
  BY <1>1, <1>2, PostingsTyped DEF TypeOK
<1>7. TypeOK'
  BY <1>2, <1>4, <1>6 DEF TypeOK, RefundRows, booking, queue
<1>8. \A k \in Messages : Caused(k)' <=> Caused(k)
  BY <1>4, <1>5 DEF Caused, Messages
<1>9. RowsDecided' /\ PriceQuoted' /\ SettlesDecided' /\ DeliveriesQueued' /\ AttemptsLeft'
  BY <1>2, <1>3, <1>4, <1>5
  DEF RowsDecided, PriceQuoted, SettlesDecided, booking, TypeOK, queue, DeliveriesQueued, AttemptsLeft
<1>10. MessagesCaused'
  BY <1>2, <1>8 DEF MessagesCaused, queue
<1> QED BY <1>1, <1>3, <1>7, <1>9, <1>10

LEMMA ReconcileRows ==
  ASSUME RowsInv, Reconcile
  PROVE  RowsInv'
<1> USE DEF RowsInv
<1>1. UNCHANGED <<price, routed, refunds, queue, deliveries, made, settles>> /\ transfer' \in { "cleared", "flagged" }
  BY DEF Reconcile
<1>2. ledger' \in PostingRecords
  BY QuotePrice, PostingsTyped DEF Reconcile, TypeOK
<1>3. TypeOK'
  BY <1>1, <1>2 DEF TypeOK, queue
<1> QED BY <1>1, <1>3
  DEF RowsDecided, PriceQuoted, MessagesCaused, DeliveriesQueued, SettlesDecided, AttemptsLeft, Caused, Decided, queue

LEMMA RowsStep == ASSUME RowsInv, [Next]_vars PROVE RowsInv'
<1>1. ASSUME NEW r \in Refunds, NEW n \in 1..MaxSettles, SettleRead(r, n) PROVE RowsInv'
  <2>1. UNCHANGED <<booking, ledger, refunds, queue, deliveries, made>> /\ settles' = settles \cup {<<r, n>>}
        /\ refunds[r].sent # 0
    BY <1>1 DEF SettleRead
  <2> QED BY <2>1 DEF RowsInv, TypeOK, RowsDecided, PriceQuoted, MessagesCaused, DeliveriesQueued, SettlesDecided,
                      AttemptsLeft, Caused, Decided, queue, booking
<1>2. CASE UNCHANGED vars
  BY <1>2 DEF RowsInv, TypeOK, RowsDecided, PriceQuoted, MessagesCaused, DeliveriesQueued, SettlesDecided,
              AttemptsLeft, Caused, Decided, vars, queue, booking
<1> QED BY <1>1, <1>2, NextCases, DecidesRows, RelayRows, StartRows, FindCreateRows, FailRows, StoreRows,
           SettleRows, ReconcileRows

(* Rows, messages, jobs, deliveries and the books keep their types, and the *)
(* relay and the queue stay within their attempts.                          *)
THEOREM SettlementTypeCorrect == Spec => []TypeOK
<1>1. RowsInv => TypeOK
  BY DEF RowsInv
<1> QED BY InitRows, RowsStep, <1>1, PTL DEF Spec

-----------------------------------------------------------------------------
(* The queue hands a job to one worker at a time. *)
OneDeliveryAtATime == MaxDeliveries =< 1

(* The worker that found nothing at the gateway is the only one to make it. *)
OneDelivers == \A d, e \in deliveries : d.message = e.message => d = e

CreatesFirst == \A d \in deliveries : d.step = "create" => made[d.message] = 0

SentInv == TypeOK /\ OneDelivers /\ CreatesFirst /\ SentOnce

LEMMA SentStep ==
  ASSUME OneDeliveryAtATime, RowsInv, SentInv, [Next]_vars
  PROVE  OneDelivers' /\ CreatesFirst' /\ SentOnce'
<1> DEFINE Goal == OneDelivers' /\ CreatesFirst' /\ SentOnce'
<1>t. /\ made \in [Messages -> Nat] /\ MaxDeliveries \in Nat
      /\ \A d \in deliveries : d \in DeliveryRecords /\ d.message \in Messages
  BY SettlementAssumption DEF SentInv, TypeOK, DeliveryRecords
<1>i. OneDelivers /\ CreatesFirst /\ SentOnce
  BY DEF SentInv
<1>1. CASE UNCHANGED made /\ deliveries' \subseteq deliveries
  BY <1>1, <1>i DEF OneDelivers, CreatesFirst, SentOnce
<1>2. ASSUME NEW m \in Messages, NEW n \in 1..MaxDeliveries, Start(m, n) PROVE Goal
  <2>1. CASE UNCHANGED deliveries
    BY <1>1, <1>2, <2>1 DEF Start
  <2>2. CASE deliveries' = deliveries \cup {Delivery(m, n)}
    <3>1. \A d \in deliveries : d.message # m
      BY <1>t, <1>2 DEF Start, Running, DeliveryRecords, OneDeliveryAtATime
    <3>2. Delivery(m, n).message = m /\ Delivery(m, n).step = "find" /\ UNCHANGED made
      BY <1>2 DEF Delivery, Start
    <3> QED BY <1>i, <2>2, <3>1, <3>2 DEF OneDelivers, CreatesFirst, SentOnce
  <2> QED BY <1>2, <2>1, <2>2 DEF Start
<1>3. ASSUME NEW d \in deliveries, Find(d) \/ Create(d) PROVE Goal
  <2> DEFINE m == d.message
  <2>1. PICK step \in DeliverySteps, id \in Nat :
          /\ Advance(d, step, id)
          /\ step = "create" => Find(d) /\ made[m] = 0
          /\ Create(d) => step = "store"
    <3>1. CASE Find(d)
      <4>1. d.id \in Nat /\ ~ Create(d) /\ "create" \in DeliverySteps /\ "store" \in DeliverySteps
        BY <1>t, <3>1 DEF Find, Create, DeliverySteps, DeliveryRecords
      <4>2. CASE made[m] = 0
        <5>1. Advance(d, "create", d.id)
          BY <3>1, <4>2 DEF Find, HeldByGateway
        <5> QED BY <3>1, <4>1, <4>2, <5>1
      <4>3. CASE made[m] # 0
        <5>1. Advance(d, "store", 1)
          BY <3>1, <4>3 DEF Find, HeldByGateway
        <5> QED BY <4>1, <5>1
      <4> QED BY <4>2, <4>3
    <3>2. CASE Create(d)
      BY <1>t, <1>3, <3>2 DEF Create, Find, DeliverySteps, DeliveryRecords
    <3> QED BY <1>3, <3>1, <3>2
  <2> DEFINE e == [d EXCEPT !.step = step, !.id = id]
  <2>2. e.message = m /\ e.step = step
    BY <1>t DEF DeliveryRecords
  <2>3. deliveries' = (deliveries \ {d}) \cup {e}
    BY <2>1 DEF Advance
  <2> HIDE DEF e
  <2>4. OneDelivers'
    BY <1>i, <2>2, <2>3 DEF OneDelivers
  <2>5. \A k \in Messages : made'[k] = made[k] \/ (k = m /\ made[m] = 0 /\ made'[m] = 1 /\ step = "store")
    BY <1>t, <1>i, <1>3, <2>1 DEF Find, Create, CreatesFirst
  <2>6. CreatesFirst'
    <3>1. ASSUME NEW c \in deliveries', c.step = "create" PROVE made'[c.message] = 0
      <4>1. CASE c = e
        BY <1>t, <2>1, <2>2, <2>5, <3>1, <4>1
      <4>2. CASE c \in deliveries \ {d}
        BY <1>t, <1>i, <2>5, <3>1, <4>2 DEF OneDelivers, CreatesFirst
      <4> QED BY <2>3, <4>1, <4>2
    <3> QED BY <3>1 DEF CreatesFirst
  <2>7. SentOnce'
    BY <1>t, <1>i, <2>5 DEF SentOnce
  <2> QED BY <2>4, <2>6, <2>7
<1>4. ASSUME NEW d \in deliveries, Store(d) \/ Fail(d) PROVE Goal
  BY <1>1, <1>4 DEF Store, Fail
<1>5. CASE \/ \E r, row, posting : Decides(r, row, posting)
           \/ \E m \in Messages : Relay(m) \/ RelayRollsBack(m) \/ RelayFails(m)
           \/ \E r \in Refunds, n \in 1..MaxSettles : SettleRead(r, n)
           \/ \E s \in settles : SettleWrite(s)
           \/ Reconcile
           \/ UNCHANGED vars
  BY <1>1, <1>5 DEF Decides, Relay, RelayRollsBack, RelayFails, SettleRead, SettleWrite, Reconcile, vars
<1> QED BY <1>2, <1>3, <1>4, <1>5, NextCases

(* issue-refund.job and reverse-transfer.job: however deliveries are cut    *)
(* short and retried, the gateway makes one refund for one row, and one     *)
(* reversal, as long as the queue runs one delivery of a job at a time.     *)
THEOREM RefundSentOnce ==
  ASSUME OneDeliveryAtATime
  PROVE  Spec => []SentOnce
<1>1. Init => SentInv
  BY InitRows DEF Init, SentInv, RowsInv, OneDelivers, CreatesFirst, SentOnce
<1>2. RowsInv /\ SentInv /\ [Next]_vars => SentInv'
  BY RowsStep, SentStep DEF SentInv, RowsInv
<1>3. SentInv => SentOnce
  BY DEF SentInv
<1>4. RowsInv /\ [Next]_vars => RowsInv'
  BY RowsStep
<1> QED BY InitRows, <1>1, <1>2, <1>3, <1>4, PTL DEF Spec

-----------------------------------------------------------------------------
(* The webhook claim lets one event of a refund be handled at a time.       *)
OneEventAtATime == MaxSettles =< 1

SettlesPending == \A s \in settles : refunds[s[1]].status = "pending"

SettledInv == SettlesPending /\ SettledOnce

(* One row is all that changes what is due, and what was refunded.          *)
LEMMA DueChanges ==
  ASSUME RowsInv, RowsInv', NEW r \in Refunds, \A q \in Refunds \ {r} : refunds'[q] = refunds[q]
  PROVE  /\ Due(r) \in Int /\ Due(r)' \in Int
         /\ SumTo([q \in Refunds |-> Due(q)], MaxRefunds) \in Int
         /\ SumTo([q \in Refunds |-> Due(q)], MaxRefunds)' =
              SumTo([q \in Refunds |-> Due(q)], MaxRefunds) + (Due(r)' - Due(r))
<1> DEFINE f == [q \in Refunds |-> Due(q)]
           g == [q \in Refunds |-> Due(q)']
<1>1. /\ refunds \in [Refunds -> RefundRows] /\ refunds' \in [Refunds -> RefundRows]
      /\ MaxRefunds \in Nat /\ Refunds = 1..MaxRefunds
  BY SettlementAssumption DEF RowsInv, TypeOK, RefundRows, Refunds
<1>2. \A i \in Refunds : Due(i) \in Int /\ Due(i)' \in Int
  BY <1>1 DEF Due, RefundRows
<1>3. \A i \in Refunds \ {r} : Due(i)' = Due(i)
  BY DEF Due
<1>4. /\ \A i \in 1..MaxRefunds : f[i] \in Int /\ g[i] \in Int
      /\ \A i \in (1..MaxRefunds) \ {r} : g[i] = f[i]
      /\ g[r] = Due(r)' /\ f[r] = Due(r)
  BY <1>1, <1>2, <1>3
<1>5. SumTo([q \in Refunds |-> Due(q)], MaxRefunds)' = SumTo(g, MaxRefunds)
  BY DEF SumTo
<1> HIDE DEF f, g
<1>6. SumTo(g, MaxRefunds) = SumTo(f, MaxRefunds) + (g[r] - f[r]) /\ SumTo(f, MaxRefunds) \in Int
  BY <1>1, <1>4, SumChanges, SumInt
<1> QED BY <1>2, <1>4, <1>5, <1>6 DEF f

LEMMA RefundedChanges ==
  ASSUME RowsInv, RowsInv', NEW r \in Refunds, \A q \in Refunds \ {r} : refunds'[q] = refunds[q]
  PROVE  /\ RefundedPaise \in Int
         /\ RefundedPaise' = RefundedPaise + (refunds'[r].amount - refunds[r].amount)
<1> DEFINE f == [q \in Refunds |-> refunds[q].amount]
           g == [q \in Refunds |-> refunds'[q].amount]
<1>1. /\ refunds \in [Refunds -> RefundRows] /\ refunds' \in [Refunds -> RefundRows]
      /\ MaxRefunds \in Nat /\ Refunds = 1..MaxRefunds
  BY SettlementAssumption DEF RowsInv, TypeOK, RefundRows, Refunds
<1>2. \A i \in Refunds : refunds[i].amount \in Int /\ refunds'[i].amount \in Int
  BY <1>1 DEF RefundRows
<1>3. /\ \A i \in 1..MaxRefunds : f[i] \in Int /\ g[i] \in Int
      /\ \A i \in (1..MaxRefunds) \ {r} : g[i] = f[i]
      /\ g[r] = refunds'[r].amount /\ f[r] = refunds[r].amount
  BY <1>1, <1>2
<1>4. RefundedPaise' = SumTo(g, MaxRefunds) /\ RefundedPaise = SumTo(f, MaxRefunds)
  BY DEF RefundedPaise, SumTo
<1> HIDE DEF f, g
<1>5. SumTo(g, MaxRefunds) = SumTo(f, MaxRefunds) + (g[r] - f[r]) /\ SumTo(f, MaxRefunds) \in Int
  BY <1>1, <1>3, SumChanges, SumInt
<1> QED BY <1>3, <1>4, <1>5

LEMMA SettledStep ==
  ASSUME OneEventAtATime, RowsInv, SettledInv, [Next]_vars
  PROVE  SettledInv'
<1>r. RowsInv' /\ ledger \in PostingRecords
  BY RowsStep DEF RowsInv, TypeOK
<1>t. /\ refunds \in [Refunds -> RefundRows] /\ MaxSettles \in Nat
      /\ settles \subseteq Refunds \X (1..MaxSettles)
  BY SettlementAssumption DEF RowsInv, TypeOK, RefundRows
<1> DEFINE dues == SumTo([q \in Refunds |-> Due(q)], MaxRefunds)
<1>i. SettlesPending /\ ledger.refunds = -dues
  BY DEF SettledInv, SettledOnce
<1>s. UNCHANGED refunds => dues' = dues
  BY DEF Due, SumTo
<1> HIDE DEF dues
<1>g. SettledOnce' <=> ledger'.refunds = -dues'
  BY DEF SettledOnce, dues
<1>1. ASSUME UNCHANGED <<ledger, refunds>>, settles' \subseteq settles PROVE SettledInv'
  BY <1>1, <1>i, <1>s, <1>g DEF SettledInv, SettlesPending
<1>2. ASSUME NEW r, NEW row, NEW posting, Decides(r, row, posting) PROVE SettledInv'
  <2>1. /\ refunds'[r] = row /\ refunds[r] = NoRefund /\ r \in Refunds /\ row \in RefundRows
        /\ \A q \in Refunds \ {r} : refunds'[q] = refunds[q]
        /\ row.status = "pending" /\ UNCHANGED settles
    BY <1>2, DecidesOnce DEF Decides
  <2>2. dues' = dues + (Due(r)' - Due(r)) /\ dues \in Int
    BY <1>r, <2>1, DueChanges DEF dues
  <2>3. Due(r) = 0 /\ Due(r)' = row.goodwill + row.amount
    BY <2>1 DEF Due, NoRefund, Refund
  <2>4. ledger'.refunds = ledger.refunds - (row.amount + row.goodwill)
    BY <1>r, <1>2, <2>1 DEF Decides, Plus, Posting, PostingRecords, RefundRows
  <2>5. row.amount \in Int /\ row.goodwill \in Int
    BY <2>1 DEF RefundRows
  <2>6. SettledOnce'
    BY <1>i, <1>g, <2>2, <2>3, <2>4, <2>5
  <2>7. SettlesPending'
    BY <1>i, <1>t, <2>1 DEF SettlesPending
  <2> QED BY <2>6, <2>7 DEF SettledInv
<1>3. ASSUME NEW d \in deliveries, Store(d) PROVE SettledInv'
  <2> DEFINE r == d.message[1]
  <2>1. /\ d.id \in Nat \ {0} /\ r \in Decided /\ r \in Refunds /\ UNCHANGED settles
        /\ \/ UNCHANGED <<refunds, ledger, outbox>>
           \/ StoresSent(d) /\ refunds[r].sent = 0
           \/ StoresReversed(d) /\ refunds[r].reversed = 0
    BY <1>3, StoreCases, DeliveryFacts
  <2>2. CASE UNCHANGED <<refunds, ledger, outbox>>
    BY <1>1, <2>1, <2>2
  <2>3. CASE StoresSent(d) \/ StoresReversed(d)
    <3>1. \A q \in Refunds : Due(q)' = Due(q) /\ refunds'[q].status = refunds[q].status
      BY <1>t, <2>1, <2>3 DEF StoresSent, StoresReversed, Due, RefundRows
    <3>2. dues' = dues
      <4>1. [q \in Refunds |-> Due(q)'] = [q \in Refunds |-> Due(q)]
        BY <3>1
      <4>2. dues' = SumTo([q \in Refunds |-> Due(q)'], MaxRefunds)
        BY DEF dues, SumTo
      <4> QED BY <4>1, <4>2 DEF dues
    <3>3. ledger'.refunds = ledger.refunds
      BY <1>r, <2>3 DEF StoresSent, StoresReversed, Plus, RouteReversal, Posting, PostingRecords
    <3>4. SettlesPending'
      BY <1>i, <1>t, <2>1, <3>1 DEF SettlesPending
    <3> QED BY <1>i, <1>g, <3>2, <3>3, <3>4 DEF SettledInv
  <2> QED BY <2>1, <2>2, <2>3
<1>4. ASSUME NEW s \in settles, SettleWrite(s) PROVE SettledInv'
  <2> DEFINE r == s[1]
  <2>1. /\ r \in Decided /\ r \in Refunds /\ s \in Refunds \X (1..MaxSettles)
        /\ settles' = settles \ {s} /\ refunds' = [refunds EXCEPT ![r].status = "processed"]
        /\ ledger' = Plus(ledger, RefundSettled(refunds[r].amount))
    BY <1>4, SettleRows DEF SettleWrite
  <2>2. /\ \A q \in Refunds \ {r} : refunds'[q] = refunds[q]
        /\ refunds'[r].amount = refunds[r].amount /\ refunds'[r].goodwill = refunds[r].goodwill
        /\ refunds'[r].status = "processed" /\ refunds[r].status = "pending"
        /\ refunds[r].amount \in Int /\ refunds[r].goodwill \in Int
    BY <1>i, <1>t, <2>1 DEF SettlesPending, RefundRows
  <2>3. dues' = dues + (Due(r)' - Due(r)) /\ dues \in Int
    BY <1>r, <2>1, <2>2, DueChanges DEF dues
  <2>4. Due(r)' - Due(r) = -refunds[r].amount
    BY <2>2 DEF Due
  <2>5. ledger'.refunds = ledger.refunds + refunds[r].amount
    BY <1>r, <2>1, <2>2 DEF Plus, RefundSettled, Posting, PostingRecords
  <2>6. SettledOnce'
    BY <1>i, <1>g, <2>2, <2>3, <2>4, <2>5
  <2>7. \A c \in settles : c[1] = r => c = s
    BY <1>t, <2>1 DEF OneEventAtATime
  <2>8. SettlesPending'
    BY <1>i, <1>t, <2>1, <2>2, <2>7 DEF SettlesPending
  <2> QED BY <2>6, <2>8 DEF SettledInv
<1>5. ASSUME Reconcile PROVE SettledInv'
  <2>1. UNCHANGED <<refunds, settles>> /\ price.owner \in Int
    BY <1>5, QuotePrice DEF Reconcile, RowsInv
  <2>2. ledger'.refunds = ledger.refunds
    BY <1>r, <1>5, <2>1 DEF Reconcile, Plus, SettlementCleared, Posting, PostingRecords
  <2> QED BY <1>i, <1>s, <1>g, <2>1, <2>2 DEF SettledInv, SettlesPending
<1>6. ASSUME NEW r \in Refunds, NEW n \in 1..MaxSettles, SettleRead(r, n) PROVE SettledInv'
  <2>1. /\ UNCHANGED <<ledger, refunds>> /\ settles' = settles \cup {<<r, n>>}
        /\ refunds[r].status # "processed"
    BY <1>6 DEF SettleRead, AlreadySettled
  <2>2. refunds[r].status = "pending"
    BY <1>t, <2>1 DEF RefundRows
  <2> QED BY <1>i, <1>s, <1>g, <2>1, <2>2 DEF SettledInv, SettlesPending
<1>7. CASE \/ \E m \in Messages : Relay(m) \/ RelayRollsBack(m) \/ RelayFails(m)
           \/ \E m \in Messages, n \in 1..MaxDeliveries : Start(m, n)
           \/ \E d \in deliveries : Find(d) \/ Create(d) \/ Fail(d)
           \/ UNCHANGED vars
  BY <1>1, <1>7 DEF Relay, RelayRollsBack, RelayFails, Start, Find, Create, Fail, vars
<1> QED BY <1>2, <1>3, <1>4, <1>5, <1>6, <1>7, NextCases

LEMMA InitSettled == Init => SettledInv
<1> SUFFICES ASSUME Init PROVE SettledInv
  OBVIOUS
<1>1. RowsInv
  BY InitRows
<1>2. MaxRefunds \in Nat /\ \A i \in 1..MaxRefunds : [q \in Refunds |-> Due(q)][i] = 0
  BY SettlementAssumption DEF Init, Due, NoRefund, Refund, Refunds
<1>3. SumTo([q \in Refunds |-> Due(q)], MaxRefunds) = 0
  BY <1>2, SumOfZeros
<1>4. ledger.refunds = 0
  BY DEF Init, BookingReceivable, RouteDischarge, Plus, Posting
<1> QED BY <1>3, <1>4 DEF Init, SettledInv, SettlesPending, SettledOnce

(* ProcessRefundCommand: whatever repeats of refund.processed are handled,  *)
(* one at a time, what is still payable to the driver is exactly what was   *)
(* decided and not yet reported paid.                                       *)
THEOREM RefundSettledOnce ==
  ASSUME OneEventAtATime
  PROVE  Spec => []SettledOnce
<1>1. RowsInv /\ SettledInv /\ [Next]_vars => RowsInv' /\ SettledInv'
  BY RowsStep, SettledStep
<1>2. SettledInv => SettledOnce
  BY DEF SettledInv
<1> QED BY InitRows, InitSettled, <1>1, <1>2, PTL DEF Spec

-----------------------------------------------------------------------------
(* What the platform, the tax authority and the promotion gave back or got  *)
(* back, beside their exact share of the driver's refunds.                  *)
Drift(moved, weight) == moved * price.total - RefundedPaise * weight

Slack == Cardinality(Decided) * price.total

InPart == \A r \in Decided : refunds[r].reason \notin FullReversalReasons

LEMMA DecidedCounted ==
  ASSUME TypeOK, NEW r \in Refunds, r \notin Decided
  PROVE  /\ IsFiniteSet(Decided) /\ Cardinality(Decided) \in Nat
         /\ Cardinality(Decided \cup {r}) = Cardinality(Decided) + 1
<1>1. IsFiniteSet(Refunds)
  BY SettlementAssumption, FS_Interval DEF Refunds
<1>2. Decided \subseteq Refunds
  BY DEF Decided
<1> QED BY <1>1, <1>2, FS_Subset, FS_CardinalityType, FS_AddElement

(* One more partial refund drifts by its own part at most. *)
LEMMA DriftGrows ==
  ASSUME NEW total \in Nat, NEW weight \in Int, NEW moved \in Int, NEW part \in Int,
         NEW refunded \in Int, NEW amount \in Int, NEW n \in Nat,
         moved * total - refunded * weight \in (-(n * total))..(n * total),
         part * total - amount * weight \in (-total)..total
  PROVE  (moved + part) * total - (refunded + amount) * weight \in (-((n + 1) * total))..((n + 1) * total)
<1> DEFINE a == moved * total  b == refunded * weight  c == part * total  d == amount * weight  e == n * total
<1>1. a \in Int /\ b \in Int /\ c \in Int /\ d \in Int /\ e \in Int
  OBVIOUS
<1>2. /\ (moved + part) * total = a + c /\ (refunded + amount) * weight = b + d
      /\ (n + 1) * total = e + total
  OBVIOUS
<1> HIDE DEF a, b, c, d, e
<1>3. a - b \in (-e)..e /\ c - d \in (-total)..total
  BY DEF a, b, c, d, e
<1>4. (a + c) - (b + d) \in (-(e + total))..(e + total)
  BY <1>1, <1>3
<1> QED BY <1>2, <1>4

DriftInv ==
  InPart =>
    /\ Balances(ledger)
    /\ Drift(price.fee + ledger.revenue, price.fee) \in (-Slack)..Slack
    /\ Drift(price.gst + ledger.gst, price.gst) \in (-Slack)..Slack
    /\ Drift(price.waiver - ledger.promo, price.waiver) \in (-Slack)..Slack

(* A posting of any other kind touches none of the three accounts.          *)
LEMMA DriftStays ==
  ASSUME RowsInv, DriftInv, NEW posting \in PostingRecords, Balances(posting),
         posting.revenue = 0, posting.gst = 0, posting.promo = 0,
         ledger' = Plus(ledger, posting) \/ ledger' = ledger,
         UNCHANGED price, refunds' \in [Refunds -> RefundRows], Decided' = Decided,
         \A r \in Refunds : refunds'[r].reason = refunds[r].reason /\ refunds'[r].amount = refunds[r].amount
  PROVE  DriftInv'
<1>1. ledger \in PostingRecords
  BY DEF RowsInv, TypeOK
<1>2. /\ ledger'.revenue = ledger.revenue /\ ledger'.gst = ledger.gst /\ ledger'.promo = ledger.promo
      /\ Balances(ledger) => Balances(ledger')
  BY <1>1, PlusBalances DEF Plus, Posting, PostingRecords
<1>3. RefundedPaise' = RefundedPaise
  <2>1. [r \in Refunds |-> refunds'[r].amount] = [r \in Refunds |-> refunds[r].amount]
    OBVIOUS
  <2>2. RefundedPaise' = SumTo([r \in Refunds |-> refunds'[r].amount], MaxRefunds)
    BY DEF RefundedPaise, SumTo
  <2> QED BY <2>1, <2>2 DEF RefundedPaise
<1>4. Slack' = Slack
  BY DEF Slack
<1>5. InPart' <=> InPart
  BY DEF InPart, Decided
<1>6. \A m, w : Drift(m, w)' = Drift(m, w)
  BY <1>3 DEF Drift
<1>7. /\ Drift(price.fee + ledger.revenue, price.fee)' = Drift(price.fee + ledger.revenue, price.fee)
      /\ Drift(price.gst + ledger.gst, price.gst)' = Drift(price.gst + ledger.gst, price.gst)
      /\ Drift(price.waiver - ledger.promo, price.waiver)' = Drift(price.waiver - ledger.promo, price.waiver)
  BY <1>2, <1>3 DEF Drift
<1>8. Balances(ledger)' <=> Balances(ledger')
  BY DEF Balances
<1> QED BY <1>2, <1>4, <1>5, <1>7, <1>8 DEF DriftInv

LEMMA DecidesDrift ==
  ASSUME RowsInv, DriftInv, NEW r, NEW row, NEW posting, Decides(r, row, posting)
  PROVE  DriftInv'
<1>1. /\ refunds'[r] = row /\ refunds[r] = NoRefund /\ r \in Refunds /\ r \notin Decided /\ row \in RefundRows
      /\ \A q \in Refunds \ {r} : refunds'[q] = refunds[q]
      /\ Decided' = Decided \cup {r} /\ UNCHANGED price /\ ledger' = Plus(ledger, posting)
  BY DecidesOnce DEF Decides, booking
<1>2. CASE DecidesFully(r, row, posting)
  <2>1. ~ InPart'
    BY <1>1, <1>2 DEF DecidesFully, InPart
  <2> QED BY <2>1 DEF DriftInv
<1>3. CASE DecidesInPart(r, row, posting)
  <2> DEFINE T == price.total  n == Cardinality(Decided)
  <2>1. price \in Quotes /\ row.amount \in 1..T /\ posting = ProportionalRefund(price, row.amount)
    BY <1>3 DEF DecidesInPart, RowsInv, PriceQuoted
  <2>2. /\ posting \in PostingRecords /\ Balances(posting)
        /\ Near(posting.revenue, row.amount, T, price.fee)
        /\ Near(posting.gst, row.amount, T, price.gst)
        /\ Near(-posting.promo, row.amount, T, price.waiver)
    BY <2>1, ProportionalExact
  <2>3. InPart
    BY <1>3 DEF InPart, DecidesInPart
  <2>4. n \in Nat /\ Cardinality(Decided') = n + 1
    BY <1>1, DecidedCounted DEF RowsInv
  <2>5. RefundedPaise' = RefundedPaise + row.amount /\ RefundedPaise \in Int
    <3>1. RowsInv'
      BY DecidesRows
    <3> QED BY <1>1, <2>1, <3>1, RefundedChanges DEF NoRefund, Refund, RefundRows
  <2>6. ledger \in PostingRecords /\ ledger' = Plus(ledger, posting)
    BY <1>1 DEF RowsInv, TypeOK
  <2>7. /\ ledger'.revenue = ledger.revenue + posting.revenue
        /\ ledger'.gst = ledger.gst + posting.gst
        /\ ledger'.promo = ledger.promo + posting.promo
        /\ ledger.revenue \in Int /\ ledger.gst \in Int /\ ledger.promo \in Int
        /\ posting.revenue \in Int /\ posting.gst \in Int /\ posting.promo \in Int
    BY <2>2, <2>6 DEF Plus, Posting, PostingRecords
  <2>8. /\ T \in Nat /\ price.fee \in Int /\ price.gst \in Int /\ price.waiver \in Int /\ row.amount \in Int
    BY <1>1, QuotePrice DEF RowsInv, RefundRows
  <2>9. Balances(ledger')
    BY <2>2, <2>3, <2>6, PlusBalances DEF DriftInv
  <2> DEFINE R == RefundedPaise
  <2>10. Slack = n * T /\ Slack' = (n + 1) * T
    BY <1>1, <2>4 DEF Slack
  <2>11. ASSUME NEW moved \in Int, NEW part \in Int, NEW w \in Int,
                Drift(moved, w) \in (-Slack)..Slack, Near(part, row.amount, T, w)
         PROVE  (moved + part) * T - R' * w \in (-(Slack'))..(Slack')
    <3>1. moved * T - R * w \in (-(n * T))..(n * T)
      BY <2>10, <2>11 DEF Drift
    <3>2. part * T - row.amount * w \in (-T)..T
      BY <2>11 DEF Near
    <3> HIDE DEF T, n, R
    <3>3. (moved + part) * T - (R + row.amount) * w \in (-((n + 1) * T))..((n + 1) * T)
      BY <2>4, <2>5, <2>8, <2>11, <3>1, <3>2, DriftGrows DEF R
    <3>4. R' = R + row.amount
      BY <2>5 DEF R
    <3> QED BY <2>10, <3>3, <3>4
  <2>12. /\ Drift(price.fee + ledger.revenue, price.fee) \in (-Slack)..Slack
         /\ Drift(price.gst + ledger.gst, price.gst) \in (-Slack)..Slack
         /\ Drift(price.waiver - ledger.promo, price.waiver) \in (-Slack)..Slack
    BY <2>3 DEF DriftInv
  <2> HIDE DEF T, n, R
  <2>13. ((price.fee + ledger.revenue) + posting.revenue) * T - R' * price.fee \in (-(Slack'))..(Slack')
    BY <2>2, <2>7, <2>8, <2>11, <2>12
  <2>14. ((price.gst + ledger.gst) + posting.gst) * T - R' * price.gst \in (-(Slack'))..(Slack')
    BY <2>2, <2>7, <2>8, <2>11, <2>12
  <2>15. ((price.waiver - ledger.promo) + (-posting.promo)) * T - R' * price.waiver \in (-(Slack'))..(Slack')
    BY <2>2, <2>7, <2>8, <2>11, <2>12
  <2>16. /\ price.fee + ledger'.revenue = (price.fee + ledger.revenue) + posting.revenue
         /\ price.gst + ledger'.gst = (price.gst + ledger.gst) + posting.gst
         /\ price.waiver - ledger'.promo = (price.waiver - ledger.promo) + (-posting.promo)
    BY <2>7, <2>8
  <2>17. /\ Drift(price.fee + ledger.revenue, price.fee)' = (price.fee + ledger'.revenue) * T - R' * price.fee
         /\ Drift(price.gst + ledger.gst, price.gst)' = (price.gst + ledger'.gst) * T - R' * price.gst
         /\ Drift(price.waiver - ledger.promo, price.waiver)' = (price.waiver - ledger'.promo) * T - R' * price.waiver
    BY <1>1 DEF Drift, T, R
  <2>18. Balances(ledger)'
    BY <2>9 DEF Balances
  <2> QED BY <2>13, <2>14, <2>15, <2>16, <2>17, <2>18 DEF DriftInv
<1> QED BY <1>2, <1>3 DEF Decides

LEMMA NeutralPostings ==
  \A amount \in Int :
    /\ \A p \in { RouteReversal(amount), RefundSettled(amount), SettlementCleared(amount), RouteDischarge(amount) } :
         /\ p \in PostingRecords /\ Balances(p)
         /\ p.revenue = 0 /\ p.gst = 0 /\ p.promo = 0
BY DEF RouteReversal, RefundSettled, SettlementCleared, RouteDischarge, Posting, PostingRecords, Balances

LEMMA DriftStep ==
  ASSUME RowsInv, DriftInv, [Next]_vars
  PROVE  DriftInv'
<1>t. refunds \in [Refunds -> RefundRows] /\ price.owner \in Int
  BY QuotePrice DEF RowsInv, TypeOK, RefundRows
<1>1. ASSUME UNCHANGED <<price, ledger, refunds>> PROVE DriftInv'
  BY <1>1, <1>t, NeutralPostings, DriftStays DEF Decided
<1>2. ASSUME NEW d \in deliveries, Store(d) PROVE DriftInv'
  <2> DEFINE r == d.message[1]
  <2>1. /\ d.id \in Nat /\ r \in Decided /\ r \in Refunds /\ UNCHANGED price
        /\ \/ UNCHANGED <<refunds, ledger, outbox>>
           \/ StoresSent(d)
           \/ StoresReversed(d)
    BY <1>2, StoreCases, DeliveryFacts DEF booking
  <2>2. CASE UNCHANGED <<refunds, ledger, outbox>>
    BY <1>1, <2>1, <2>2
  <2>3. CASE StoresSent(d) \/ StoresReversed(d)
    <3>1. /\ refunds' \in [Refunds -> RefundRows] /\ Decided' = Decided
          /\ \A q \in Refunds : refunds'[q].reason = refunds[q].reason /\ refunds'[q].amount = refunds[q].amount
      BY <2>1, <2>3, RowWritten DEF StoresSent, StoresReversed
    <3>2. refunds[r].share \in Int
      BY <1>t, <2>1 DEF RefundRows
    <3>3. ledger' = Plus(ledger, RouteReversal(refunds[r].share)) \/ ledger' = ledger
      BY <2>3 DEF StoresSent, StoresReversed
    <3> QED BY <2>1, <3>1, <3>2, <3>3, NeutralPostings, DriftStays
  <2> QED BY <2>1, <2>2, <2>3
<1>3. ASSUME NEW s \in settles, SettleWrite(s) PROVE DriftInv'
  <2> DEFINE r == s[1]
  <2>0. r \in Decided /\ refunds[r].amount \in Int
    BY <1>3, SettleRows
  <2>1. /\ refunds' = [refunds EXCEPT ![r].status = "processed"]
        /\ ledger' = Plus(ledger, RefundSettled(refunds[r].amount))
        /\ UNCHANGED price
    BY <1>3 DEF SettleWrite, booking
  <2>2. /\ refunds' \in [Refunds -> RefundRows] /\ Decided' = Decided
        /\ \A q \in Refunds : refunds'[q].reason = refunds[q].reason /\ refunds'[q].amount = refunds[q].amount
    BY <2>0, <2>1, RowWritten
  <2> QED BY <2>0, <2>1, <2>2, NeutralPostings, DriftStays
<1>4. ASSUME Reconcile PROVE DriftInv'
  <2>1. UNCHANGED <<price, refunds>> /\ (ledger' = Plus(ledger, SettlementCleared(price.owner)) \/ ledger' = ledger)
    BY <1>4 DEF Reconcile
  <2> QED BY <1>t, <2>1, NeutralPostings, DriftStays DEF Decided
<1>5. CASE \/ \E m \in Messages : Relay(m) \/ RelayRollsBack(m) \/ RelayFails(m)
           \/ \E m \in Messages, n \in 1..MaxDeliveries : Start(m, n)
           \/ \E d \in deliveries : Find(d) \/ Create(d) \/ Fail(d)
           \/ \E r \in Refunds, n \in 1..MaxSettles : SettleRead(r, n)
           \/ UNCHANGED vars
  BY <1>1, <1>5 DEF Relay, RelayRollsBack, RelayFails, Start, Find, Create, Fail, SettleRead, booking, vars
<1> QED BY <1>2, <1>3, <1>4, <1>5, DecidesDrift, NextCases

LEMMA InitDrift == Init => DriftInv
<1> SUFFICES ASSUME Init PROVE DriftInv
  OBVIOUS
<1>1. PriceQuoted /\ price \in Quotes
  BY InitRows DEF RowsInv, PriceQuoted
<1>2. /\ price.total \in Int /\ price.owner \in Int /\ price.fee \in Int /\ price.gst \in Int /\ price.waiver \in Int
  BY <1>1, QuotePrice
<1>3. Decided = {} /\ MaxRefunds \in Nat /\ \A i \in 1..MaxRefunds : [r \in Refunds |-> refunds[r].amount][i] = 0
  BY SettlementAssumption DEF Init, Decided, NoRefund, Refund, Refunds
<1>4. RefundedPaise = 0
  BY <1>3, SumOfZeros DEF RefundedPaise
<1>5. Slack = 0
  BY <1>2, <1>3, FS_EmptySet DEF Slack
<1>6. /\ ledger.revenue = -price.fee /\ ledger.gst = -price.gst /\ ledger.promo = price.waiver
  BY <1>2 DEF Init, BookingReceivable, RouteDischarge, Plus, Posting
<1>7. Balances(ledger)
  <2>1. BookingReceivable(price) \in PostingRecords /\ Balances(BookingReceivable(price))
    BY <1>1, <1>2, ReceivableBalances DEF BookingReceivable, Posting, PostingRecords
  <2> QED BY <1>2, <2>1, NeutralPostings, PlusBalances DEF Init
<1>8. /\ Drift(price.fee + ledger.revenue, price.fee) = 0 /\ Drift(price.gst + ledger.gst, price.gst) = 0
      /\ Drift(price.waiver - ledger.promo, price.waiver) = 0
  BY <1>2, <1>4, <1>6 DEF Drift
<1> QED BY <1>5, <1>7, <1>8 DEF DriftInv

(* refund-policy's promise of partial refunds, for every quote and any      *)
(* number of refunds: no paisa is made or lost, and what platform, tax and  *)
(* promotion gave back is within one paisa per refund of its exact share.   *)
THEOREM PartialRefundsInProportion == Spec => []DriftBounded
<1>1. RowsInv /\ DriftInv /\ [Next]_vars => RowsInv' /\ DriftInv'
  BY RowsStep, DriftStep
<1>2. RowsInv /\ DriftInv => DriftBounded
  <2> SUFFICES ASSUME RowsInv, DriftInv, InPart PROVE DriftBounded
    BY DEF DriftBounded, InPart
  <2>1. /\ Slack \in Int
        /\ Drift(price.fee + ledger.revenue, price.fee) \in (-Slack)..Slack
        /\ Drift(price.gst + ledger.gst, price.gst) \in (-Slack)..Slack
        /\ Drift(price.waiver - ledger.promo, price.waiver) \in (-Slack)..Slack
        /\ Balances(ledger)
    <3>1. IsFiniteSet(Decided)
      <4>1. IsFiniteSet(Refunds) /\ Decided \subseteq Refunds
        BY SettlementAssumption, FS_Interval DEF Refunds, Decided
      <4> QED BY <4>1, FS_Subset
    <3>2. Cardinality(Decided) \in Nat /\ price.total \in Nat
      BY <3>1, FS_CardinalityType, QuotePrice DEF RowsInv
    <3>3. Slack \in Int
      BY <3>2 DEF Slack
    <3> QED BY <3>3 DEF DriftInv
  <2> QED BY <2>1 DEF DriftBounded, Drift, Slack
<1> QED BY InitRows, InitDrift, <1>1, <1>2, PTL DEF Spec

-----------------------------------------------------------------------------
(* The books of a booking nobody gave anything back of, and of one that was *)
(* called off in full.                                                      *)
If(condition, amount) == IF condition THEN amount ELSE 0

StandingBooks ==
  Posting(price.total - If(transfer = "cleared", price.owner),
          If(routed, price.owner) - price.owner,
          -price.fee, -price.gst, 0, price.waiver,
          If(transfer = "cleared", price.owner) - If(routed, price.owner), 0)

CalledOffBooks(r) ==
  Posting(price.total - If(refunds[r].status = "processed", refunds[r].amount)
                      + If(refunds[r].reversed # 0, refunds[r].share) - If(transfer = "cleared", price.owner),
          If(routed, price.owner) - If(refunds[r].reversed # 0, refunds[r].share),
          -refunds[r].retained, 0,
          If(refunds[r].status = "processed", refunds[r].amount) - refunds[r].amount - refunds[r].goodwill,
          refunds[r].goodwill,
          If(transfer = "cleared", price.owner) - If(routed, price.owner), 0)

CalledOff(r) ==
  /\ Decided = {r}
  /\ refunds[r].amount + refunds[r].retained = price.total
  /\ refunds[r].share = If(routed, price.owner)
  /\ ledger = CalledOffBooks(r)

CalledOffInv ==
  /\ transfer = "cleared" => routed
  /\ Decided = {} => ledger = StandingBooks
  /\ \A r \in Decided : refunds[r].reason \in FullReversalReasons => CalledOff(r)

LEMMA CalledOffStep ==
  ASSUME OneEventAtATime, RowsInv, SettlesPending, CalledOffInv, [Next]_vars
  PROVE  CalledOffInv'
<1>t. /\ refunds \in [Refunds -> RefundRows] /\ ledger \in PostingRecords /\ Decided \subseteq Refunds
      /\ price.total \in Int /\ price.owner \in Int /\ price.fee \in Int /\ price.gst \in Int /\ price.waiver \in Int
      /\ routed \in BOOLEAN
  BY QuotePrice DEF RowsInv, TypeOK, RefundRows, Decided
<1>1. ASSUME UNCHANGED <<booking, ledger, refunds>> PROVE CalledOffInv'
  BY <1>1 DEF CalledOffInv, CalledOff, CalledOffBooks, StandingBooks, If, Decided, booking
<1>2. ASSUME NEW r, NEW row, NEW posting, Decides(r, row, posting) PROVE CalledOffInv'
  <2>1. /\ refunds'[r] = row /\ r \in Refunds /\ r \notin Decided /\ row \in RefundRows
        /\ \A q \in Refunds \ {r} : refunds'[q] = refunds[q]
        /\ Decided' = Decided \cup {r} /\ UNCHANGED booking /\ ledger' = Plus(ledger, posting)
        /\ row.status = "pending" /\ row.reversed = 0
    BY <1>2, DecidesOnce DEF Decides
  <2>2. CASE DecidesFully(r, row, posting)
    <3>1. /\ Decided = {} /\ row.amount + row.retained = price.total
          /\ row.share = If(routed, price.owner)
          /\ posting = CalledOffEntries(price, row.amount, row.retained, row.goodwill)
          /\ row.amount \in Int /\ row.retained \in Int /\ row.goodwill \in Int
      BY <2>1, <2>2 DEF DecidesFully, If, RefundRows
    <3>2. ledger = StandingBooks
      BY <3>1 DEF CalledOffInv
    <3>3. ledger' = CalledOffBooks(r)'
      BY <1>t, <2>1, <3>1, <3>2 DEF StandingBooks, CalledOffBooks, CalledOffEntries, Plus, Posting, If, booking
    <3>4. CalledOff(r)'
      BY <2>1, <3>1, <3>3 DEF CalledOff, If, booking
    <3> QED BY <2>1, <3>1, <3>4 DEF CalledOffInv, booking
  <2>3. CASE DecidesInPart(r, row, posting)
    <3>1. \A q \in Decided' : refunds'[q].reason \notin FullReversalReasons
      BY <1>t, <2>1, <2>3 DEF DecidesInPart
    <3> QED BY <2>1, <3>1 DEF CalledOffInv, booking
  <2> QED BY <1>2, <2>2, <2>3 DEF Decides
<1>3. ASSUME NEW d \in deliveries, Store(d) PROVE CalledOffInv'
  <2> DEFINE r == d.message[1]
  <2>1. /\ d.id \in Nat \ {0} /\ r \in Decided /\ r \in Refunds /\ UNCHANGED booking
        /\ \/ UNCHANGED <<refunds, ledger, outbox>>
           \/ StoresSent(d) /\ refunds[r].sent = 0
           \/ StoresReversed(d) /\ refunds[r].reversed = 0
    BY <1>3, StoreCases, DeliveryFacts
  <2>2. CASE UNCHANGED <<refunds, ledger, outbox>>
    BY <1>1, <2>1, <2>2
  <2>3. CASE StoresSent(d) \/ (StoresReversed(d) /\ refunds[r].reversed = 0)
    <3>1. /\ Decided' = Decided /\ \A q \in Refunds \ {r} : refunds'[q] = refunds[q]
          /\ refunds'[r].reason = refunds[r].reason /\ refunds'[r].amount = refunds[r].amount
          /\ refunds'[r].share = refunds[r].share /\ refunds'[r].retained = refunds[r].retained
          /\ refunds'[r].goodwill = refunds[r].goodwill
      BY <2>1, <2>3, RowWritten DEF StoresSent, StoresReversed
    <3>2. /\ refunds'[r].status = refunds[r].status
          /\ \/ refunds'[r].reversed = refunds[r].reversed /\ ledger' = ledger
             \/ refunds'[r].reversed # 0 /\ refunds[r].reversed = 0
                /\ ledger' = Plus(ledger, RouteReversal(refunds[r].share))
      BY <1>t, <2>1, <2>3 DEF StoresSent, StoresReversed, RefundRows
    <3>3. /\ refunds[r].amount \in Int /\ refunds[r].share \in Int /\ refunds[r].retained \in Int
          /\ refunds[r].goodwill \in Int
      BY <1>t, <2>1 DEF RefundRows
    <3>4. ASSUME ledger = CalledOffBooks(r) PROVE ledger' = CalledOffBooks(r)'
      <4>1. CASE refunds'[r].reversed = refunds[r].reversed /\ ledger' = ledger
        BY <2>1, <3>1, <3>2, <3>4, <4>1 DEF CalledOffBooks, If, booking
      <4>2. CASE /\ refunds'[r].reversed # 0 /\ refunds[r].reversed = 0
                 /\ ledger' = Plus(ledger, RouteReversal(refunds[r].share))
        <5> DEFINE settled == If(refunds[r].status = "processed", refunds[r].amount)
                   cleared == If(transfer = "cleared", price.owner)
                   sent == If(routed, price.owner)
        <5>1. settled \in Int /\ cleared \in Int /\ sent \in Int
          BY <1>t, <3>3 DEF If
        <5>2. /\ CalledOffBooks(r) =
                   Posting(price.total - settled + 0 - cleared, sent - 0, -refunds[r].retained, 0,
                           settled - refunds[r].amount - refunds[r].goodwill, refunds[r].goodwill, cleared - sent, 0)
              /\ CalledOffBooks(r)' =
                   Posting(price.total - settled + refunds[r].share - cleared, sent - refunds[r].share,
                           -refunds[r].retained, 0,
                           settled - refunds[r].amount - refunds[r].goodwill, refunds[r].goodwill, cleared - sent, 0)
          BY <2>1, <3>1, <3>2, <4>2 DEF CalledOffBooks, If, booking
        <5> HIDE DEF settled, cleared, sent
        <5> QED BY <1>t, <3>3, <3>4, <4>2, <5>1, <5>2 DEF RouteReversal, Plus, Posting
      <4> QED BY <3>2, <4>1, <4>2
    <3>5. CalledOff(r) => CalledOff(r)'
      BY <2>1, <3>1, <3>4 DEF CalledOff, booking, If
    <3> QED BY <1>t, <2>1, <3>1, <3>5 DEF CalledOffInv, CalledOff, booking
  <2> QED BY <2>1, <2>2, <2>3
<1>4. ASSUME NEW s \in settles, SettleWrite(s) PROVE CalledOffInv'
  <2> DEFINE r == s[1]
  <2>1. /\ r \in Decided /\ r \in Refunds /\ UNCHANGED booking
        /\ refunds' = [refunds EXCEPT ![r].status = "processed"]
        /\ ledger' = Plus(ledger, RefundSettled(refunds[r].amount))
        /\ refunds[r].status = "pending"
    BY <1>t, <1>4, SettleRows DEF SettleWrite, SettlesPending
  <2>2. /\ Decided' = Decided /\ \A q \in Refunds \ {r} : refunds'[q] = refunds[q]
        /\ refunds'[r].reason = refunds[r].reason /\ refunds'[r].amount = refunds[r].amount
        /\ refunds'[r].share = refunds[r].share /\ refunds'[r].retained = refunds[r].retained
        /\ refunds'[r].goodwill = refunds[r].goodwill
    BY <2>1, RowWritten
  <2>3. refunds'[r].status = "processed" /\ refunds'[r].reversed = refunds[r].reversed
    BY <1>t, <2>1 DEF RefundRows
  <2>4. /\ refunds[r].amount \in Int /\ refunds[r].share \in Int /\ refunds[r].retained \in Int
        /\ refunds[r].goodwill \in Int
    BY <1>t, <2>1 DEF RefundRows
  <2>5. CalledOff(r) => ledger' = CalledOffBooks(r)'
    BY <1>t, <2>1, <2>2, <2>3, <2>4 DEF CalledOff, CalledOffBooks, RefundSettled, Plus, Posting, If, booking
  <2>6. CalledOff(r) => CalledOff(r)'
    BY <2>1, <2>2, <2>5 DEF CalledOff, booking, If
  <2> QED BY <1>t, <2>1, <2>2, <2>6 DEF CalledOffInv, CalledOff, booking
<1>5. ASSUME Reconcile PROVE CalledOffInv'
  <2>1. UNCHANGED <<price, routed, refunds>> /\ Decided' = Decided /\ routed /\ transfer = "open"
    BY <1>5 DEF Reconcile, Decided
  <2>2. \/ transfer' = "cleared" /\ ledger' = Plus(ledger, SettlementCleared(price.owner))
        \/ transfer' = "flagged" /\ ledger' = ledger
    BY <1>5 DEF Reconcile
  <2>3. ledger = StandingBooks => ledger' = StandingBooks'
    BY <1>t, <2>1, <2>2 DEF StandingBooks, SettlementCleared, Plus, Posting, If
  <2>4. ASSUME NEW r \in Decided, CalledOff(r) PROVE CalledOff(r)'
    <3>1. /\ refunds[r].amount \in Int /\ refunds[r].share \in Int /\ refunds[r].retained \in Int
          /\ refunds[r].goodwill \in Int
      BY <1>t DEF RefundRows
    <3>2. ledger' = CalledOffBooks(r)'
      BY <1>t, <2>1, <2>2, <2>4, <3>1 DEF CalledOff, CalledOffBooks, SettlementCleared, Plus, Posting, If
    <3> QED BY <2>1, <2>4, <3>2 DEF CalledOff, If
  <2> QED BY <2>1, <2>3, <2>4 DEF CalledOffInv
<1>6. CASE \/ \E m \in Messages : Relay(m) \/ RelayRollsBack(m) \/ RelayFails(m)
           \/ \E m \in Messages, n \in 1..MaxDeliveries : Start(m, n)
           \/ \E d \in deliveries : Find(d) \/ Create(d) \/ Fail(d)
           \/ \E r \in Refunds, n \in 1..MaxSettles : SettleRead(r, n)
           \/ UNCHANGED vars
  BY <1>1, <1>6 DEF Relay, RelayRollsBack, RelayFails, Start, Find, Create, Fail, SettleRead, vars
<1> QED BY <1>2, <1>3, <1>4, <1>5, <1>6, NextCases

LEMMA InitCalledOff == Init => CalledOffInv
<1> SUFFICES ASSUME Init PROVE CalledOffInv
  OBVIOUS
<1>1. /\ price.total \in Int /\ price.owner \in Int /\ price.fee \in Int /\ price.gst \in Int /\ price.waiver \in Int
  BY InitRows, QuotePrice DEF RowsInv
<1>2. ledger = StandingBooks
  BY <1>1 DEF Init, StandingBooks, If, BookingReceivable, RouteDischarge, Plus, Posting
<1> QED BY <1>2 DEF Init, CalledOffInv, Decided, NoRefund, Refund

(* refundForCancellation, issue-refund, reverse-transfer, refund.processed  *)
(* and the reconcile together: a booking called off in full leaves nothing  *)
(* but what was kept and the apology, for every quote, routed or not, in    *)
(* whatever order they come, as long as one event of a refund is handled at *)
(* a time.                                                                  *)
THEOREM NothingLeftOfCalledOff ==
  ASSUME OneEventAtATime
  PROVE  Spec => []CalledOffLeavesNoTrace
<1>1. RowsInv /\ SettledInv /\ CalledOffInv /\ [Next]_vars => RowsInv' /\ SettledInv' /\ CalledOffInv'
  BY RowsStep, SettledStep, CalledOffStep DEF SettledInv
<1>2. RowsInv /\ CalledOffInv => CalledOffLeavesNoTrace
  <2> SUFFICES ASSUME RowsInv, CalledOffInv, NEW r \in Decided,
                      refunds[r].reason \in FullReversalReasons, Returned(r), routed => transfer = "cleared"
               PROVE  ledger = Posting(refunds[r].retained, 0, -refunds[r].retained, 0, -refunds[r].goodwill,
                                       refunds[r].goodwill, 0, 0)
    BY DEF CalledOffLeavesNoTrace
  <2>1. CalledOff(r) /\ (transfer = "cleared" => routed)
    BY DEF CalledOffInv
  <2>2. /\ refunds[r].amount \in Int /\ refunds[r].retained \in Int /\ refunds[r].goodwill \in Int
        /\ price.total \in Int /\ price.owner \in Int
    BY QuotePrice DEF RowsInv, TypeOK, Decided
  <2>3. If(refunds[r].reversed # 0, refunds[r].share) = If(routed, price.owner)
    BY <2>1 DEF CalledOff, Returned, If
  <2> QED BY <2>1, <2>2, <2>3 DEF CalledOff, CalledOffBooks, Returned, If, Posting
<1> QED BY InitRows, InitSettled, InitCalledOff, <1>1, <1>2, PTL DEF Spec
=============================================================================
