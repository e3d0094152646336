----------------------------- MODULE MoneyProofs -----------------------------
(***************************************************************************)
(* The arithmetic of money, for every amount: rounding, the refund policy, *)
(* the quote, the postings, the surge ladder and sums over a range.        *)
(***************************************************************************)
EXTENDS Postings, RefundPolicy, FiniteSetTheorems, WellFoundedInduction, TLAPS

(* mulRate never makes money: a rate of at most one takes at most the whole. *)
LEMMA MulRateNat ==
  ASSUME NEW amount \in Nat, NEW rate \in Nat
  PROVE  MulRate(amount, rate) \in Nat
<1>1. amount * rate \in Nat
  OBVIOUS
<1> QED BY <1>1 DEF MulRate, BasisPoints

LEMMA MulRateBounded ==
  ASSUME NEW amount \in Nat, NEW rate \in 0..BasisPoints
  PROVE  MulRate(amount, rate) \in 0..amount
<1> DEFINE n == amount * rate
<1>1. n \in Nat
  BY DEF BasisPoints
<1>2. n =< amount * 10000
  BY DEF BasisPoints
<1> HIDE DEF n
<1>3. n \div 10000 + (IF 2 * (n % 10000) >= 10000 THEN 1 ELSE 0) \in 0..amount
  BY <1>1, <1>2
<1> QED BY <1>3 DEF MulRate, BasisPoints, n

-----------------------------------------------------------------------------
(* What resolveRefund returns is a split of the total: nothing negative is  *)
(* refunded or retained, whoever cancels and whenever.                      *)
THEOREM RefundSplitsTotal ==
  ASSUME NEW total \in Nat, NEW startsAt \in Int, NEW at \in Int, NEW by \in Cancellers
  PROVE  LET o == ResolveRefund(total, startsAt, at, by) IN
         /\ o.refund \in 0..total
         /\ o.retained \in 0..total
         /\ o.refund + o.retained = total
         /\ o.tier \in Tiers
BY RefundPolicyAssumption DEF ResolveRefund, Outcome, HalfUp, Lesser, Tiers

(* refundableOf, presetAmount and resolveAdminRefund: no preset is more     *)
(* than what is left, so that only a custom amount is ever refused for its  *)
(* size; and whatever the request moves is something, moves nothing of a    *)
(* booking reversed in full, and with all that went before stays within the *)
(* capture.                                                                 *)
THEOREM RefundableBounded ==
  ASSUME NEW captured \in Nat, NEW refunded \in 0..captured, NEW reasons
  PROVE  LET left == RefundableOf(captured, refunded, reasons) IN
         /\ \A option \in Presets :
              /\ PresetAmount(option, left) \in 0..left
              /\ AdminRefundAmounts(option, left) = { PresetAmount(option, left) } \ {0}
         /\ \A option \in Presets \cup {"custom"} : \A amount \in AdminRefundAmounts(option, left) :
              /\ amount > 0
              /\ refunded + amount =< captured
              /\ reasons \cap FullReversalReasons = {}
<1> DEFINE left == RefundableOf(captured, refunded, reasons)
<1>1. left \in Nat /\ refunded + left =< captured
      /\ (reasons \cap FullReversalReasons # {} => left = 0)
  BY DEF RefundableOf
<1> HIDE DEF left
<1>2. \A option \in Presets : PresetAmount(option, left) \in 0..left
  BY <1>1, RefundPolicyAssumption DEF Presets, PresetAmount, Lesser
<1>3. ASSUME NEW option \in Presets
      PROVE  AdminRefundAmounts(option, left) = { PresetAmount(option, left) } \ {0}
  <2>1. option # "custom"
    BY DEF Presets
  <2> DEFINE preset == PresetAmount(option, left)
  <2>2. preset \in 0..left /\ AdminRefundAmounts(option, left) = { a \in 1..left : a = preset }
    BY <1>2, <2>1 DEF AdminRefundAmounts
  <2> HIDE DEF preset
  <2>3. { a \in 1..left : a = preset } = { preset } \ {0}
    BY <1>1, <2>2
  <2> QED BY <2>2, <2>3 DEF preset
<1>4. ASSUME NEW option, NEW amount \in AdminRefundAmounts(option, left)
      PROVE  amount > 0 /\ refunded + amount =< captured /\ reasons \cap FullReversalReasons = {}
  <2>1. amount \in 1..left
    BY DEF AdminRefundAmounts
  <2> QED BY <1>1, <2>1
<1> QED BY <1>2, <1>3, <1>4 DEF left

-----------------------------------------------------------------------------
(* The quotes the code can produce: quote refuses a multiplier below 1.0x. *)
Multipliers == { n \in Nat : n >= BasisPoints }
Quotes == { Quote(base, surge, waived) : base \in Nat, surge \in Multipliers, waived \in BOOLEAN }

QuoteRecords ==
  [base : Nat, premium : Nat, commission : Nat, fee : Nat, gst : Nat, waiver : Nat, owner : Nat, total : Nat]

(* assertQuoteBalances never throws: whatever the base price, the surge and *)
(* the waiver, nothing in a quote is negative, what the driver pays and the *)
(* waiver are exactly what owner, platform and tax get, and the waiver      *)
(* leaves the owner the whole base price and the driver's total as it was.  *)
THEOREM QuoteIsBalanced ==
  ASSUME NEW base \in Nat, NEW surge \in Multipliers, NEW waived \in BOOLEAN
  PROVE  LET q == Quote(base, surge, waived) IN
         /\ q \in QuoteRecords
         /\ QuoteBalances(q)
         /\ q.waiver = (IF waived THEN q.commission ELSE 0)
         /\ q.waiver =< q.owner
         /\ waived => q.owner = base
         /\ q.total = Quote(base, surge, ~waived).total
<1> DEFINE premium == MulRate(base, surge - BasisPoints)
           commission == MulRate(base, CommissionRate)
           gst == MulRate(commission + premium, GstRate)
<1>0. surge - BasisPoints \in Nat /\ CommissionRate \in 0..BasisPoints /\ GstRate \in Nat
  BY DEF Multipliers, BasisPoints, CommissionRate, GstRate
<1>1. premium \in Nat
  BY <1>0, MulRateNat
<1>2. commission \in 0..base
  BY <1>0, MulRateBounded
<1>3. gst \in Nat
  <2>1. commission + premium \in Nat
    BY <1>1, <1>2
  <2> HIDE DEF premium, commission
  <2> QED BY <1>0, <2>1, MulRateNat DEF gst
<1> HIDE DEF premium, commission, gst
<1>4. ASSUME NEW w \in BOOLEAN
      PROVE  Quote(base, surge, w) =
               [base |-> base, premium |-> premium, commission |-> commission, fee |-> commission + premium,
                gst |-> gst, waiver |-> IF w THEN commission ELSE 0,
                owner |-> (base - commission) + (IF w THEN commission ELSE 0),
                total |-> base + premium + gst]
  BY DEF Quote, premium, commission, gst
<1> DEFINE q == Quote(base, surge, waived)
           other == Quote(base, surge, ~waived)
<1>5. q \in QuoteRecords
  BY <1>1, <1>2, <1>3, <1>4 DEF QuoteRecords
<1>6. QuoteBalances(q)
  BY <1>1, <1>2, <1>3, <1>4 DEF QuoteBalances
<1>7. q.waiver = (IF waived THEN q.commission ELSE 0) /\ q.waiver =< q.owner /\ (waived => q.owner = base)
  BY <1>1, <1>2, <1>3, <1>4
<1>8. \A w \in BOOLEAN : Quote(base, surge, w).total = base + premium + gst
  BY <1>4
<1>9. q.total = other.total
  BY <1>8
<1> QED BY <1>5, <1>6, <1>7, <1>9
-----------------------------------------------------------------------------
LEMMA SumOfThree ==
  ASSUME NEW f, f[1] \in Int, f[2] \in Int, f[3] \in Int
  PROVE  SumTo(f, 3) = f[1] + f[2] + f[3]
<1> DEFINE Step(g) == [i \in 0..3 |-> IF i = 0 THEN 0 ELSE g[i - 1] + f[i]]
           sum == CHOOSE g : g = Step(g)
           w == [i \in 0..3 |-> IF i = 0 THEN 0 ELSE IF i = 1 THEN f[1]
                                ELSE IF i = 2 THEN f[1] + f[2] ELSE f[1] + f[2] + f[3]]
<1>1. w = Step(w)
  OBVIOUS
<1>2. sum = Step(sum)
  BY <1>1
<1>3. SumTo(f, 3) = sum[3]
  BY DEF SumTo
<1> HIDE DEF sum
<1>4. sum[0] = 0 /\ sum[1] = sum[0] + f[1] /\ sum[2] = sum[1] + f[2] /\ sum[3] = sum[2] + f[3]
  BY <1>2
<1> QED BY <1>3, <1>4

LEMMA DivMod ==
  ASSUME NEW x \in Nat, NEW d \in Nat \ {0}
  PROVE  /\ x \div d \in Nat
         /\ x % d \in 0..(d - 1)
         /\ x = d * (x \div d) + (x % d)
OBVIOUS

LEMMA PairCardinality ==
  ASSUME NEW x, NEW y, x # y, NEW S \in SUBSET {x, y}
  PROVE  Cardinality(S) = (IF x \in S THEN 1 ELSE 0) + (IF y \in S THEN 1 ELSE 0)
<1>1. Cardinality({}) = 0
  BY FS_EmptySet
<1>2. \A z : Cardinality({z}) = 1
  BY FS_Singleton
<1>3. Cardinality({x, y}) = 2
  <2>1. IsFiniteSet({x}) /\ Cardinality({x}) = 1
    BY FS_Singleton
  <2>2. Cardinality({x} \cup {y}) = Cardinality({x}) + 1
    BY <2>1, FS_AddElement
  <2>3. {x, y} = {x} \cup {y}
    OBVIOUS
  <2> QED BY <2>1, <2>2, <2>3
<1>4. S = {} \/ S = {x} \/ S = {y} \/ S = {x, y}
  OBVIOUS
<1>5. CASE S = {}
  BY <1>1, <1>5
<1>6. CASE S = {x}
  BY <1>2, <1>6
<1>7. CASE S = {y}
  BY <1>2, <1>7
<1>8. CASE S = {x, y}
  BY <1>3, <1>8
<1> QED BY <1>4, <1>5, <1>6, <1>7, <1>8

(* In a strict order of three the ranks are 0, 1 and 2, so the first k in   *)
(* rank are k of them.                                                      *)
LEMMA ThreeRanks ==
  ASSUME NEW r \in [1..3 -> Int], NEW spare \in 0..2
  PROVE  LET Before(i, j) == r[i] > r[j] \/ (r[i] = r[j] /\ i < j)
             Rank(i) == Cardinality({ j \in 1..3 : Before(j, i) })
             Bump(i) == IF Rank(i) < spare THEN 1 ELSE 0
         IN  Bump(1) + Bump(2) + Bump(3) = spare
<1> DEFINE Before(i, j) == r[i] > r[j] \/ (r[i] = r[j] /\ i < j)
           Ahead(i) == { j \in 1..3 : Before(j, i) }
           One(i, j) == IF Before(i, j) THEN 1 ELSE 0
<1>1. Cardinality(Ahead(1)) = One(2, 1) + One(3, 1)
  <2>1. Ahead(1) \in SUBSET {2, 3}
    OBVIOUS
  <2>2. (2 \in Ahead(1) <=> Before(2, 1)) /\ (3 \in Ahead(1) <=> Before(3, 1))
    OBVIOUS
  <2> HIDE DEF Ahead
  <2> QED BY <2>1, <2>2, PairCardinality
<1>2. Cardinality(Ahead(2)) = One(1, 2) + One(3, 2)
  <2>1. Ahead(2) \in SUBSET {1, 3}
    OBVIOUS
  <2>2. (1 \in Ahead(2) <=> Before(1, 2)) /\ (3 \in Ahead(2) <=> Before(3, 2))
    OBVIOUS
  <2> HIDE DEF Ahead
  <2> QED BY <2>1, <2>2, PairCardinality
<1>3. Cardinality(Ahead(3)) = One(1, 3) + One(2, 3)
  <2>1. Ahead(3) \in SUBSET {1, 2}
    OBVIOUS
  <2>2. (1 \in Ahead(3) <=> Before(1, 3)) /\ (2 \in Ahead(3) <=> Before(2, 3))
    OBVIOUS
  <2> HIDE DEF Ahead
  <2> QED BY <2>1, <2>2, PairCardinality
<1>4. r[1] \in Int /\ r[2] \in Int /\ r[3] \in Int
  OBVIOUS
<1> DEFINE c(i) == Cardinality(Ahead(i))
<1>5. /\ c(1) \in 0..2 /\ c(2) \in 0..2 /\ c(3) \in 0..2
      /\ c(1) # c(2) /\ c(1) # c(3) /\ c(2) # c(3)
  <2> HIDE DEF Ahead
  <2> QED BY <1>1, <1>2, <1>3, <1>4
<1>6. (IF c(1) < spare THEN 1 ELSE 0) + (IF c(2) < spare THEN 1 ELSE 0) + (IF c(3) < spare THEN 1 ELSE 0) = spare
  <2> HIDE DEF c
  <2> QED BY <1>5
<1> QED BY <1>6

(* allocateProportionally, of an amount over three parties: the parts are   *)
(* natural numbers that add up to the amount to the last paisa, and none is *)
(* a whole paisa away from its exact share.                                 *)
THEOREM AllocationIsExact ==
  ASSUME NEW total \in Nat, NEW weights \in [1..3 -> Nat], Len(weights) = 3,
         NEW sum, sum = weights[1] + weights[2] + weights[3], sum > 0
  PROVE  LET parts == AllocateProportionally(total, weights) IN
         /\ \A i \in 1..3 : /\ parts[i] \in Nat
                            /\ parts[i] * sum - total * weights[i] \in (1 - sum)..sum
         /\ parts[1] + parts[2] + parts[3] = total
<1> DEFINE Floor(i) == Share(total, weights, i, sum)
           r == [i \in 1..3 |-> RemainderOf(total, weights, i, sum)]
           floors == [i \in 1..3 |-> Floor(i)]
           spare == total - (floors[1] + floors[2] + floors[3])
           Before(i, j) == r[i] > r[j] \/ (r[i] = r[j] /\ i < j)
           Rank(i) == Cardinality({ j \in 1..3 : Before(j, i) })
           Bump(i) == IF Rank(i) < spare THEN 1 ELSE 0
<1>1. sum \in Nat \ {0} /\ \A i \in 1..3 : weights[i] \in Nat
  OBVIOUS
<1>2. \A i \in 1..3 : total * weights[i] \in Nat
  BY <1>1
<1>3. ASSUME NEW i \in 1..3
      PROVE  /\ floors[i] \in Nat
             /\ r[i] \in 0..(sum - 1)
             /\ total * weights[i] = sum * floors[i] + r[i]
  BY <1>1, <1>2, DivMod DEF Share, RemainderOf
<1>4. AllocateProportionally(total, weights) = [i \in 1..3 |-> floors[i] + Bump(i)]
  <2>1. DOMAIN weights = 1..3
    OBVIOUS
  <2>2. SumTo(weights, 3) = sum
    BY <1>1, SumOfThree
  <2>3. AllocateProportionally(total, weights) = Shares(total, weights, sum)
    BY <2>2, <1>1 DEF AllocateProportionally
  <2>4. SumTo(floors, 3) = floors[1] + floors[2] + floors[3]
    BY <1>3, SumOfThree
  <2> QED BY <2>1, <2>3, <2>4 DEF Shares
<1> HIDE DEF r, floors
<1>5. spare \in 0..2
  <2>1. sum * spare = r[1] + r[2] + r[3]
    <3>1. total * sum = total * weights[1] + total * weights[2] + total * weights[3]
      BY <1>1
    <3>2. sum * (total - (floors[1] + floors[2] + floors[3]))
            = total * sum - (sum * floors[1] + sum * floors[2] + sum * floors[3])
      BY <1>1, <1>3
    <3>3. /\ total * weights[1] = sum * floors[1] + r[1]
          /\ total * weights[2] = sum * floors[2] + r[2]
          /\ total * weights[3] = sum * floors[3] + r[3]
          /\ total * sum \in Int
          /\ r[1] \in Int /\ r[2] \in Int /\ r[3] \in Int
          /\ sum * floors[1] \in Int /\ sum * floors[2] \in Int /\ sum * floors[3] \in Int
      BY <1>1, <1>3
    <3>4. sum * spare = total * sum - (sum * floors[1] + sum * floors[2] + sum * floors[3])
      BY <3>2
    <3> HIDE DEF spare
    <3> QED BY <3>1, <3>3, <3>4
  <2>2. spare \in Int
    BY <1>3
  <2> DEFINE s == spare
  <2> HIDE DEF s
  <2>3. 0 =< sum * s /\ sum * s < 3 * sum
    BY <2>1, <1>1, <1>3 DEF s
  <2>4. s \in 0..2
    BY <1>1, <2>2, <2>3 DEF s
  <2> QED BY <2>4 DEF s
<1>6. Bump(1) + Bump(2) + Bump(3) = spare
  <2>1. r \in [1..3 -> Int]
    BY <1>3 DEF r
  <2> HIDE DEF spare
  <2> QED BY <1>5, <2>1, ThreeRanks
<1>7. \A i \in 1..3 : Bump(i) \in 0..1
  OBVIOUS
<1> HIDE DEF Bump
<1>8. ASSUME NEW i \in 1..3
      PROVE  (floors[i] + Bump(i)) * sum - total * weights[i] \in (1 - sum)..sum
  <2>1. (floors[i] + Bump(i)) * sum = sum * floors[i] + (IF Bump(i) = 1 THEN sum ELSE 0)
    BY <1>1, <1>3, <1>7
  <2> QED BY <1>1, <1>3, <1>7, <2>1
<1> DEFINE parts == AllocateProportionally(total, weights)
<1>9. \A i \in 1..3 : parts[i] = floors[i] + Bump(i)
  BY <1>4
<1>10. \A i \in 1..3 : parts[i] \in Nat /\ parts[i] * sum - total * weights[i] \in (1 - sum)..sum
  BY <1>3, <1>7, <1>8, <1>9
<1>11. parts[1] + parts[2] + parts[3] = total
  <2>1. /\ floors[1] \in Int /\ floors[2] \in Int /\ floors[3] \in Int
        /\ Bump(1) \in Int /\ Bump(2) \in Int /\ Bump(3) \in Int
    BY <1>3, <1>7
  <2>2. parts[1] = floors[1] + Bump(1) /\ parts[2] = floors[2] + Bump(2) /\ parts[3] = floors[3] + Bump(3)
    BY <1>9
  <2>3. Bump(1) + Bump(2) + Bump(3) = total - (floors[1] + floors[2] + floors[3])
    BY <1>6
  <2> DEFINE x == floors[1]  y == floors[2]  z == floors[3]
             i == Bump(1)  j == Bump(2)  k == Bump(3)
  <2>4. x \in Int /\ y \in Int /\ z \in Int /\ i \in Int /\ j \in Int /\ k \in Int
    BY <2>1
  <2>5. i + j + k = total - (x + y + z)
    BY <2>3
  <2>6. parts[1] = x + i /\ parts[2] = y + j /\ parts[3] = z + k
    BY <2>2
  <2> HIDE DEF x, y, z, i, j, k, parts
  <2> QED BY <2>4, <2>5, <2>6
<1> QED BY <1>10, <1>11

-----------------------------------------------------------------------------
(* What the postings of a quote need of it. *)
LEMMA QuoteFacts ==
  ASSUME NEW q \in Quotes
  PROVE  /\ q.total \in Nat /\ q.owner \in Nat /\ q.fee \in Nat /\ q.gst \in Nat /\ q.waiver \in Nat
         /\ q.owner - q.waiver \in Nat
         /\ q.total - q.waiver \in Nat
         /\ q.owner + q.fee + q.gst = q.total + q.waiver
<1>1. PICK base \in Nat, surge \in Multipliers, waived \in BOOLEAN : q = Quote(base, surge, waived)
  BY DEF Quotes
<1>2. q \in QuoteRecords /\ QuoteBalances(q) /\ q.waiver =< q.owner
      /\ q.waiver = (IF waived THEN q.commission ELSE 0)
  BY <1>1, QuoteIsBalanced
<1>3. q.total = q.base + q.premium + q.gst /\ q.commission =< q.base
  <2>1. CommissionRate \in 0..BasisPoints
    BY DEF CommissionRate, BasisPoints
  <2>2. MulRate(base, CommissionRate) \in 0..base
    BY <2>1, MulRateBounded
  <2> QED BY <1>1, <2>2 DEF Quote
<1> QED BY <1>2, <1>3 DEF QuoteRecords, QuoteBalances

(* The capture of a booking balances. *)
LEMMA ReceivableBalances ==
  ASSUME NEW q \in Quotes
  PROVE  Balances(BookingReceivable(q))
BY QuoteFacts DEF BookingReceivable, Posting, Balances

LEMMA FullReversalBalances ==
  ASSUME NEW q \in Quotes, NEW refund \in Int, NEW retained \in Int, refund + retained = q.total
  PROVE  FullReversalLegs(q, refund, retained) \in PostingRecords /\ Balances(FullReversalLegs(q, refund, retained))
BY QuoteFacts DEF FullReversalLegs, Posting, Balances, PostingRecords

LEMMA PlusBalances ==
  ASSUME NEW p \in PostingRecords, NEW o \in PostingRecords, Balances(p), Balances(o)
  PROVE  Plus(p, o) \in PostingRecords /\ Balances(Plus(p, o))
BY DEF Plus, Posting, Balances, PostingRecords

LEMMA ReversalBalances ==
  ASSUME NEW p \in PostingRecords, Balances(p)
  PROVE  ReverseEntries(p) \in PostingRecords /\ Balances(ReverseEntries(p))
BY DEF ReverseEntries, Posting, Balances, PostingRecords

LEMMA ThreeWeights ==
  ASSUME NEW total \in Nat, NEW a \in Nat, NEW b \in Nat, NEW c \in Nat, total =< a + b + c
  PROVE  LET parts == AllocateProportionally(total, <<a, b, c>>) IN
         parts[1] \in Nat /\ parts[2] \in Nat /\ parts[3] \in Nat /\ parts[1] + parts[2] + parts[3] = total
<1> DEFINE w == <<a, b, c>>
<1>1. w \in [1..3 -> Nat] /\ Len(w) = 3 /\ w[1] = a /\ w[2] = b /\ w[3] = c
  OBVIOUS
<1>2. CASE a + b + c = 0
  <2>1. SumTo(w, 3) = 0
    BY <1>1, <1>2, SumOfThree
  <2>2. AllocateProportionally(total, w) = [i \in 1..3 |-> 0]
    BY <1>1, <2>1 DEF AllocateProportionally
  <2>3. total = 0
    BY <1>2
  <2> QED BY <2>2, <2>3
<1>3. CASE a + b + c > 0
  <2> DEFINE sum == a + b + c
             parts == AllocateProportionally(total, w)
  <2>1. sum = w[1] + w[2] + w[3] /\ sum > 0
    BY <1>1, <1>3
  <2> HIDE DEF w, sum
  <2>2. (\A i \in 1..3 : parts[i] \in Nat) /\ parts[1] + parts[2] + parts[3] = total
    BY <1>1, <2>1, AllocationIsExact
  <2> QED BY <2>2 DEF w
<1>4. a + b + c = 0 \/ a + b + c > 0
  OBVIOUS
<1> QED BY <1>2, <1>3, <1>4

LEMMA SumOfTwo ==
  ASSUME NEW a \in Int, NEW b \in Int
  PROVE  SumTo(<<a, b>>, 2) = a + b
<1> DEFINE w == <<a, b>>
           Step(g) == [i \in 0..2 |-> IF i = 0 THEN 0 ELSE g[i - 1] + w[i]]
           s == CHOOSE g : g = Step(g)
           v == [i \in 0..2 |-> IF i = 0 THEN 0 ELSE IF i = 1 THEN a ELSE a + b]
<1>1. v = Step(v)
  OBVIOUS
<1>2. s = Step(s)
  BY <1>1
<1>3. SumTo(w, 2) = s[2]
  BY DEF SumTo
<1> HIDE DEF s
<1>4. s[0] = 0 /\ s[1] = s[0] + a /\ s[2] = s[1] + b
  BY <1>2
<1> QED BY <1>3, <1>4

LEMMA TwoWeights ==
  ASSUME NEW total \in Nat, NEW a \in Nat, NEW b \in Nat
  PROVE  AllocateProportionally(total, <<a, b>>)[1] \in Nat
<1> DEFINE w == <<a, b>>
           sum == SumTo(w, 2)
<1>1. DOMAIN w = 1..2 /\ Len(w) = 2 /\ w[1] = a
  OBVIOUS
<1>2. sum = a + b
  BY SumOfTwo
<1>3. CASE sum = 0
  BY <1>1, <1>3 DEF AllocateProportionally
<1>4. CASE sum # 0
  <2>1. AllocateProportionally(total, w) = Shares(total, w, sum)
    BY <1>1, <1>4 DEF AllocateProportionally
  <2>2. total * a \in Nat /\ sum \in Nat \ {0}
    BY <1>2, <1>4
  <2> HIDE DEF sum
  <2>3. Share(total, w, 1, sum) \in Nat
    <3>1. Share(total, w, 1, sum) = (total * a) \div sum
      BY <1>1 DEF Share
    <3> QED BY <2>2, <3>1, DivMod
  <2>4. \E bump \in 0..1 : Shares(total, w, sum)[1] = Share(total, w, 1, sum) + bump
    BY <1>1 DEF Shares
  <2> QED BY <2>1, <2>3, <2>4
<1> QED BY <1>3, <1>4

(* A partial refund, split twice and rounded twice, still balances. *)
LEMMA ProportionalBalances ==
  ASSUME NEW q \in Quotes, NEW refund \in 0..q.total
  PROVE  ProportionalRefund(q, refund) \in PostingRecords /\ Balances(ProportionalRefund(q, refund))
<1> DEFINE parts == AllocateProportionally(refund, <<q.owner - q.waiver, q.fee, q.gst>>)
           waiver == IF q.waiver = 0 THEN 0
                     ELSE AllocateProportionally(refund, <<q.waiver, q.total - q.waiver>>)[1]
<1>1. refund \in Nat /\ refund =< (q.owner - q.waiver) + q.fee + q.gst
  BY QuoteFacts
<1>2. parts[1] \in Nat /\ parts[2] \in Nat /\ parts[3] \in Nat /\ parts[1] + parts[2] + parts[3] = refund
  <2> DEFINE a == q.owner - q.waiver  b == q.fee  c == q.gst
  <2>1. a \in Nat /\ b \in Nat /\ c \in Nat /\ refund =< a + b + c
    BY <1>1, QuoteFacts
  <2> HIDE DEF a, b, c
  <2>2. LET p == AllocateProportionally(refund, <<a, b, c>>) IN
          p[1] \in Nat /\ p[2] \in Nat /\ p[3] \in Nat /\ p[1] + p[2] + p[3] = refund
    BY <1>1, <2>1, ThreeWeights
  <2> QED BY <2>2 DEF a, b, c
<1>3. waiver \in Nat
  BY <1>1, QuoteFacts, TwoWeights
<1>4. ProportionalRefund(q, refund) = Posting(0, parts[1] + waiver, parts[2], parts[3], -refund, -waiver, 0, 0)
  BY DEF ProportionalRefund, DriverPaid
<1> DEFINE x == parts[1]  y == parts[2]  z == parts[3]
<1> HIDE DEF x, y, z, waiver
<1>5. x \in Nat /\ y \in Nat /\ z \in Nat /\ x + y + z = refund
  BY <1>2 DEF x, y, z
<1>6. ProportionalRefund(q, refund) = Posting(0, x + waiver, y, z, -refund, -waiver, 0, 0)
  BY <1>4 DEF x, y, z, waiver
<1> QED BY <1>1, <1>3, <1>5, <1>6 DEF Posting, Balances, PostingRecords

(* assertEntriesBalance never aborts a cancellation: whoever cancels, and   *)
(* whenever, the posting of the refund balances, whatever the price, the    *)
(* surge and the waiver.                                                    *)
THEOREM RefundPostingBalances ==
  ASSUME NEW q \in Quotes, NEW startsAt \in Int, NEW at \in Int, NEW by \in Cancellers
  PROVE  Balances(RefundEntries(q, ResolveRefund(q.total, startsAt, at, by)))
<1> DEFINE o == ResolveRefund(q.total, startsAt, at, by)
<1>1. q.total \in Nat
  BY QuoteFacts
<1>2. o.refund \in 0..q.total /\ o.retained \in 0..q.total /\ o.refund + o.retained = q.total /\ o.tier \in Tiers
  BY <1>1, RefundSplitsTotal
<1>3. o.goodwill \in Nat
  BY RefundPolicyAssumption DEF ResolveRefund, Outcome
<1> SUFFICES Balances(RefundEntries(q, o))
  OBVIOUS
<1> HIDE DEF o
<1>4. CASE o.tier = "no_refund"
  <2>1. RefundEntries(q, o) = NoPosting
    BY <1>4 DEF RefundEntries
  <2> QED BY <2>1 DEF NoPosting, Posting, Balances
<1>5. CASE o.tier = "before_start"
  <2>1. RefundEntries(q, o) = FullReversalLegs(q, o.refund, o.retained)
    BY <1>5 DEF RefundEntries
  <2> QED BY <1>2, <2>1, FullReversalBalances
<1>6. CASE o.tier = "owner_cancelled"
  <2> DEFINE goodwill == Posting(0, 0, 0, 0, -o.goodwill, o.goodwill, 0, 0)
  <2>1. goodwill \in PostingRecords /\ Balances(goodwill)
    BY <1>3 DEF Posting, PostingRecords, Balances
  <2>2. RefundEntries(q, o) = Plus(FullReversalLegs(q, o.refund, o.retained), goodwill)
    BY <1>6 DEF RefundEntries
  <2> DEFINE legs == FullReversalLegs(q, o.refund, o.retained)
  <2>3. legs \in PostingRecords /\ Balances(legs)
    BY <1>2, FullReversalBalances
  <2> HIDE DEF goodwill, legs
  <2>4. Balances(Plus(legs, goodwill))
    BY <2>1, <2>3, PlusBalances
  <2> QED BY <2>2, <2>4 DEF legs
<1>7. CASE o.tier = "active_grace"
  <2>1. RefundEntries(q, o) = ProportionalRefund(q, o.refund)
    BY <1>7 DEF RefundEntries
  <2> QED BY <1>2, <2>1, ProportionalBalances
<1> QED BY <1>2, <1>4, <1>5, <1>6, <1>7 DEF Tiers

-----------------------------------------------------------------------------
(* Fees of a valet leg and of a wash. *)
Fees == { LegFee(km) : km \in Nat } \cup { WashFee(price) : price \in Nat }

LEMMA FeeFacts ==
  ASSUME NEW fee \in Fees
  PROVE  /\ fee.commission \in Nat /\ fee.earnings \in Nat /\ fee.gst \in Nat /\ fee.total \in Nat
         /\ fee.total = fee.earnings + fee.commission + fee.gst
<1>1. ASSUME NEW price \in Nat
      PROVE  /\ MulRate(price, ServiceCommissionRate) \in 0..price
             /\ MulRate(MulRate(price, ServiceCommissionRate), GstRate) \in Nat
  <2>1. ServiceCommissionRate \in 0..BasisPoints /\ GstRate \in Nat
    BY DEF ServiceCommissionRate, GstRate, BasisPoints
  <2>2. MulRate(price, ServiceCommissionRate) \in 0..price
    BY <2>1, MulRateBounded
  <2> DEFINE commission == MulRate(price, ServiceCommissionRate)
  <2>3. commission \in Nat
    BY <2>2
  <2> HIDE DEF commission
  <2>4. MulRate(commission, GstRate) \in Nat
    BY <2>1, <2>3, MulRateNat
  <2> QED BY <2>2, <2>4 DEF commission
<1>2. CASE \E km \in Nat : fee = LegFee(km)
  <2>1. PICK km \in Nat : fee = LegFee(km)
    BY <1>2
  <2> DEFINE price == ValetBaseFee + km * ValetPerKm
  <2>2. price \in Nat
    BY DEF ValetBaseFee, ValetPerKm
  <2> HIDE DEF price
  <2>3. fee = [fee |-> price, commission |-> MulRate(price, ServiceCommissionRate),
               earnings |-> price - MulRate(price, ServiceCommissionRate),
               gst |-> MulRate(MulRate(price, ServiceCommissionRate), GstRate),
               total |-> price + MulRate(MulRate(price, ServiceCommissionRate), GstRate)]
    BY <2>1 DEF LegFee, price
  <2> QED BY <1>1, <2>2, <2>3
<1>3. CASE \E price \in Nat : fee = WashFee(price)
  <2>1. PICK price \in Nat : fee = WashFee(price)
    BY <1>3
  <2>2. fee = [fee |-> price, commission |-> MulRate(price, ServiceCommissionRate),
               earnings |-> price - MulRate(price, ServiceCommissionRate),
               gst |-> MulRate(MulRate(price, ServiceCommissionRate), GstRate),
               total |-> price + MulRate(MulRate(price, ServiceCommissionRate), GstRate)]
    BY <2>1 DEF WashFee
  <2> QED BY <1>1, <2>2
<1> QED BY <1>2, <1>3 DEF Fees

(* A leg or a wash that is charged, and one charge adjusted to another,     *)
(* balance: what the driver gets back is what the valet, the platform and   *)
(* the tax authority give up.                                               *)
THEOREM ServicePostingBalances ==
  ASSUME NEW charged \in Fees, NEW retained \in Fees
  PROVE  /\ Balances(ServiceEntries(charged))
         /\ Balances(ChargeAdjustment(charged, retained))
         /\ Plus(ServiceEntries(charged), ChargeAdjustment(charged, retained)).payable = ServiceEntries(retained).payable
BY FeeFacts DEF ServiceEntries, ChargeAdjustment, Posting, Balances, Plus

(* A payout balances whatever the tax rates, its deductions are never more  *)
(* than rates of at most one allow, and reversing it leaves nothing.        *)
THEOREM PayoutPostingBalances ==
  ASSUME NEW gross \in Nat, NEW tcs \in 0..BasisPoints, NEW tds \in 0..BasisPoints
  PROVE  LET p == PayoutEntries(gross, tcs, tds) IN
         /\ p \in PostingRecords
         /\ Balances(p)
         /\ p.withheld \in (-2 * gross)..0
         /\ Plus(p, ReverseEntries(p)) = NoPosting
<1> DEFINE a == MulRate(gross, tcs)
           b == MulRate(gross, tds)
<1>1. a \in 0..gross /\ b \in 0..gross
  BY MulRateBounded
<1>2. PayoutEntries(gross, tcs, tds) = Posting(0, gross, 0, 0, 0, 0, -(gross - (a + b)), -(a + b))
  BY DEF PayoutEntries
<1> HIDE DEF a, b
<1> QED BY <1>1, <1>2 DEF Posting, PostingRecords, Balances, Plus, ReverseEntries, NoPosting

-----------------------------------------------------------------------------
LEMMA GreatestIndex ==
  ASSUME NEW n \in Nat, NEW S \in SUBSET (1..n), S # {}
  PROVE  \E i \in S : \A j \in S : j =< i
<1> DEFINE T == { n - i : i \in S }
<1>0. \A i \in S : i \in Nat /\ i =< n /\ n - i \in Nat
  OBVIOUS
<1>1. T \subseteq Nat /\ T # {}
  <2>1. T \subseteq Nat
    BY <1>0
  <2>2. PICK i : i \in S
    OBVIOUS
  <2>3. n - i \in T
    BY <2>2
  <2> QED BY <2>1, <2>3
<1>2. PICK m \in T : \A k \in T : ~ (<<k, m>> \in OpToRel(<, Nat))
  BY <1>1, NatLessThanWellFounded, WFMin
<1>3. \A k \in T : ~ (k < m)
  BY <1>1, <1>2 DEF OpToRel
<1>4. PICK i \in S : m = n - i
  OBVIOUS
<1>5. ASSUME NEW j \in S
      PROVE  j =< i
  <2>1. ~ (n - j < m)
    BY <1>3
  <2> QED BY <1>0, <1>4, <2>1
<1> QED BY <1>5

(* LastTier, of the indexes that hold: on the ladder, and past all of them. *)
LEMMA LastHeld ==
  ASSUME NEW ladder \in Ladders, NEW held \in SUBSET (DOMAIN ladder)
  PROVE  LET tier == IF held = {} THEN ladder[1] ELSE ladder[CHOOSE i \in held : \A j \in held : j =< i] IN
         /\ held = {} => tier = ladder[1]
         /\ held # {} => \E i \in held : tier = ladder[i] /\ \A j \in held : j =< i
<1>1. Len(ladder) \in Nat /\ DOMAIN ladder = 1..Len(ladder)
  BY DEF Ladders
<1>2. held # {} => \E i \in held : \A j \in held : j =< i
  BY <1>1, GreatestIndex
<1> QED BY <1>2

LEMMA OnLadder ==
  ASSUME NEW ladder \in Ladders
  PROVE  /\ 1 \in DOMAIN ladder /\ ladder[1].multiplier = BasisPoints
         /\ \A i \in DOMAIN ladder : i \in Nat /\ ladder[i].multiplier \in Nat /\ ladder[i].occupancy \in Nat
         /\ \A i \in DOMAIN ladder : ladder[i].multiplier >= BasisPoints
         /\ \A i, j \in DOMAIN ladder : i =< j => ladder[i].multiplier =< ladder[j].multiplier
<1>1. 1 \in DOMAIN ladder /\ ladder[1].multiplier = BasisPoints
  BY DEF Ladders
<1>2. ASSUME NEW i \in DOMAIN ladder
      PROVE  i \in Nat /\ i >= 1 /\ ladder[i].occupancy \in Nat /\ ladder[i].multiplier \in Nat
  <2> DEFINE Tier == [occupancy : 0..BasisPoints, multiplier : Nat]
  <2>1. ladder \in Seq(Tier)
    BY DEF Ladders
  <2>2. ASSUME NEW tier \in Tier
        PROVE  tier.occupancy \in Nat /\ tier.multiplier \in Nat
    <3>1. tier.occupancy \in 0..BasisPoints /\ tier.multiplier \in Nat
      OBVIOUS
    <3> QED BY <3>1
  <2> HIDE DEF Tier
  <2>3. i \in 1..Len(ladder) /\ ladder[i] \in Tier
    BY <2>1
  <2> QED BY <2>2, <2>3
<1>3. ASSUME NEW i \in DOMAIN ladder, NEW j \in DOMAIN ladder, i =< j
      PROVE  ladder[i].multiplier =< ladder[j].multiplier
  <2>1. i = j \/ i < j
    BY <1>2, <1>3
  <2>2. i < j => ladder[i].multiplier < ladder[j].multiplier
    BY DEF Ladders, Ascending
  <2> QED BY <1>2, <2>1, <2>2
<1>4. \A i \in DOMAIN ladder : ladder[i].multiplier >= BasisPoints
  BY <1>1, <1>2, <1>3 DEF BasisPoints
<1>5. \A i \in DOMAIN ladder : i \in Nat /\ ladder[i].multiplier \in Nat /\ ladder[i].occupancy \in Nat
  BY <1>2
<1> QED BY <1>1, <1>3, <1>4, <1>5

(* The occupancy a tier asks for, exceeded. *)
Exceeded(occupied, slots, tier) == slots > 0 /\ occupied * BasisPoints > tier.occupancy * slots

LEMMA EarnedTier ==
  ASSUME NEW ladder \in Ladders, NEW occupied \in Nat, NEW slots \in Nat
  PROVE  LET earned == TierForOccupancy(occupied, slots, ladder) IN
         /\ \E i \in DOMAIN ladder : earned = ladder[i] /\ (i # 1 => Exceeded(occupied, slots, ladder[i]))
         /\ \A i \in DOMAIN ladder : Exceeded(occupied, slots, ladder[i]) => ladder[i].multiplier =< earned.multiplier
<1> DEFINE held == { i \in DOMAIN ladder : Exceeded(occupied, slots, ladder[i]) }
           earned == IF held = {} THEN ladder[1] ELSE ladder[CHOOSE i \in held : \A j \in held : j =< i]
<1>1. TierForOccupancy(occupied, slots, ladder) = earned
  BY DEF TierForOccupancy, LastTier, Exceeded
<1>2. held \in SUBSET (DOMAIN ladder)
  OBVIOUS
<1> HIDE DEF held
<1>3. held = {} => earned = ladder[1]
  BY <1>2, LastHeld
<1>4. held # {} => \E i \in held : earned = ladder[i] /\ \A j \in held : j =< i
  BY <1>2, LastHeld
<1> HIDE DEF earned
<1>5. CASE held = {}
  BY <1>1, <1>3, <1>5, OnLadder DEF held
<1>6. CASE held # {}
  <2>1. PICK i \in held : earned = ladder[i] /\ \A j \in held : j =< i
    BY <1>4, <1>6
  <2>2. \A j \in held : ladder[j].multiplier =< ladder[i].multiplier
    BY <1>2, <2>1, OnLadder
  <2> QED BY <1>1, <1>2, <2>1, <2>2 DEF held
<1> QED BY <1>5, <1>6

LEMMA SnappedTier ==
  ASSUME NEW ladder \in Ladders, NEW value \in Nat, value >= BasisPoints
  PROVE  LET tier == SnapDownToTier(value, ladder) IN
         /\ \E i \in DOMAIN ladder : tier = ladder[i]
         /\ tier.multiplier =< value
         /\ \A i \in DOMAIN ladder : ladder[i].multiplier =< value => ladder[i].multiplier =< tier.multiplier
<1> DEFINE held == { i \in DOMAIN ladder : ladder[i].multiplier =< value }
           tier == IF held = {} THEN ladder[1] ELSE ladder[CHOOSE i \in held : \A j \in held : j =< i]
<1>1. SnapDownToTier(value, ladder) = tier
  BY DEF SnapDownToTier, LastTier
<1>2. held \in SUBSET (DOMAIN ladder) /\ 1 \in held
  BY OnLadder
<1> HIDE DEF held
<1>3. held # {} => \E i \in held : tier = ladder[i] /\ \A j \in held : j =< i
  BY <1>2, LastHeld
<1> HIDE DEF tier
<1>4. PICK i \in held : tier = ladder[i] /\ \A j \in held : j =< i
  BY <1>2, <1>3
<1>5. \A j \in held : ladder[j].multiplier =< ladder[i].multiplier
  BY <1>2, <1>4, OnLadder
<1> QED BY <1>1, <1>2, <1>4, <1>5 DEF held

LEMMA EscalateUp ==
  ASSUME NEW multiplier \in Nat, NEW modifier \in Multipliers
  PROVE  Escalate(multiplier, modifier) \in Nat /\ multiplier =< Escalate(multiplier, modifier)
<1> DEFINE n == multiplier * modifier
<1>1. n \in Nat /\ n >= multiplier * 10000
  BY DEF Multipliers, BasisPoints
<1> HIDE DEF n
<1>2. (2 * n + 10000) \div (2 * 10000) \in Nat /\ multiplier =< (2 * n + 10000) \div (2 * 10000)
  BY <1>1
<1> QED BY <1>2 DEF Escalate, Rounded, BasisPoints, n

(* surgeConfigSchema: modifiers never discount, and the cap is a tier. *)
SurgeConfigs ==
  { config \in [ladder : Ladders, peak : Multipliers, weekend : Multipliers, event : Multipliers, cap : Multipliers] :
      \E i \in DOMAIN config.ladder : config.ladder[i].multiplier = config.cap }

(* calculateSurge, for every ladder, occupancy, modifier and cap: the       *)
(* multiplier is one the ladder has, between 1.0x and the cap; where        *)
(* occupancy earned nothing no modifier creates a surge, an empty zone and  *)
(* one exactly at its first threshold included; and where the cap allows it *)
(* the driver is charged at least the tier that occupancy earned.           *)
THEOREM SurgeOnLadder ==
  ASSUME NEW config \in SurgeConfigs, NEW occupied \in Nat, NEW slots \in Nat
  PROVE  LET surge == CalculateSurge(occupied, slots, config)
             earned == TierForOccupancy(occupied, slots, config.ladder).multiplier
         IN  /\ \E i \in DOMAIN config.ladder : surge = config.ladder[i].multiplier
             /\ surge \in BasisPoints..config.cap
             /\ (\A i \in DOMAIN config.ladder \ {1} : ~ Exceeded(occupied, slots, config.ladder[i])) => surge = BasisPoints
             /\ earned =< config.cap => earned =< surge
             /\ config.cap = BasisPoints => surge = BasisPoints
<1> DEFINE ladder == config.ladder
           earned == TierForOccupancy(occupied, slots, ladder).multiplier
           first == Escalate(earned, config.peak)
           second == Escalate(first, config.weekend)
           escalated == Escalate(second, config.event)
           capped == IF escalated > config.cap THEN config.cap ELSE escalated
           surge == CalculateSurge(occupied, slots, config)
<1>1. /\ ladder \in Ladders /\ config.cap \in Multipliers
      /\ config.peak \in Multipliers /\ config.weekend \in Multipliers /\ config.event \in Multipliers
  BY DEF SurgeConfigs
<1>2. surge = IF earned = BasisPoints THEN BasisPoints ELSE SnapDownToTier(capped, ladder).multiplier
  BY DEF CalculateSurge
<1> HIDE DEF ladder, surge, earned
<1>3. /\ \E i \in DOMAIN ladder :
           earned = ladder[i].multiplier /\ (i # 1 => Exceeded(occupied, slots, ladder[i]))
      /\ earned \in Nat /\ earned >= BasisPoints
  <2>1. PICK i \in DOMAIN ladder :
          /\ TierForOccupancy(occupied, slots, ladder) = ladder[i]
          /\ i # 1 => Exceeded(occupied, slots, ladder[i])
    BY <1>1, EarnedTier
  <2>2. earned = ladder[i].multiplier
    BY <2>1 DEF earned
  <2>3. ladder[i].multiplier \in Nat /\ ladder[i].multiplier >= BasisPoints
    BY <1>1, OnLadder
  <2> QED BY <2>1, <2>2, <2>3
<1>4. first \in Nat /\ second \in Nat /\ escalated \in Nat /\ earned =< escalated
  <2>1. first \in Nat /\ earned =< first
    BY <1>1, <1>3, EscalateUp
  <2> HIDE DEF first
  <2>2. second \in Nat /\ first =< second
    BY <1>1, <2>1, EscalateUp
  <2> HIDE DEF second
  <2>3. escalated \in Nat /\ second =< escalated
    BY <1>1, <2>2, EscalateUp
  <2> HIDE DEF escalated
  <2> QED BY <1>3, <2>1, <2>2, <2>3
<1> HIDE DEF first, second, escalated
<1>5. /\ capped \in Nat /\ capped >= BasisPoints /\ capped =< config.cap
      /\ earned =< config.cap => earned =< capped
  BY <1>1, <1>3, <1>4 DEF Multipliers, BasisPoints
<1> HIDE DEF capped
<1> DEFINE snapped == SnapDownToTier(capped, ladder).multiplier
<1>6. /\ \E i \in DOMAIN ladder : snapped = ladder[i].multiplier
      /\ snapped =< capped
      /\ \A i \in DOMAIN ladder : ladder[i].multiplier =< capped => ladder[i].multiplier =< snapped
  BY <1>1, <1>5, SnappedTier
<1> HIDE DEF snapped
<1>7. snapped \in Nat /\ snapped >= BasisPoints
  BY <1>1, <1>6, OnLadder
<1>8. \E i \in DOMAIN ladder : surge = ladder[i].multiplier
  BY <1>1, <1>2, <1>6, OnLadder DEF snapped
<1>9. surge \in BasisPoints..config.cap
  BY <1>1, <1>2, <1>5, <1>6, <1>7 DEF snapped, Multipliers, BasisPoints
<1>10. (\A i \in DOMAIN ladder \ {1} : ~ Exceeded(occupied, slots, ladder[i])) => surge = BasisPoints
  BY <1>1, <1>2, <1>3, OnLadder
<1>11. earned =< config.cap => earned =< surge
  <2>1. earned =< capped => earned =< snapped
    BY <1>3, <1>6
  <2> QED BY <1>2, <1>3, <1>5, <2>1 DEF snapped
<1>12. config.cap = BasisPoints => surge = BasisPoints
  BY <1>9 DEF BasisPoints
<1> QED BY <1>8, <1>9, <1>10, <1>11, <1>12 DEF surge, earned, ladder

-----------------------------------------------------------------------------
(* billableUnits: a longer stay has no fewer units, and a unit at least.    *)
LEMMA UnitsGrow ==
  ASSUME NEW unit \in Nat \ {0}, NEW span \in Nat, NEW newSpan \in Nat, span =< newSpan
  PROVE  /\ BillableUnits(span, unit) \in Nat \ {0}
         /\ BillableUnits(newSpan, unit) \in Nat \ {0}
         /\ BillableUnits(span, unit) =< BillableUnits(newSpan, unit)
<1> DEFINE x(n) == n + unit - 1
           q(n) == x(n) \div unit
<1>1. ASSUME NEW n \in Nat, n >= 1
      PROVE  q(n) \in Nat \ {0} /\ unit * q(n) =< x(n) /\ x(n) < unit * (q(n) + 1)
  <2>1. x(n) \in Nat /\ x(n) >= unit
    BY <1>1
  <2>2. q(n) \in Nat /\ x(n) % unit \in 0..(unit - 1) /\ x(n) = unit * q(n) + (x(n) % unit)
    BY <2>1, DivMod
  <2>3. q(n) # 0
    BY <2>1, <2>2
  <2>4. unit * (q(n) + 1) = unit * q(n) + unit
    BY <2>2
  <2> QED BY <2>2, <2>3, <2>4
<1>2. ASSUME span >= 1
      PROVE  q(span) =< q(newSpan)
  <2>1. unit * q(span) < unit * (q(newSpan) + 1)
    BY <1>1, <1>2
  <2>2. ASSUME NEW a \in Nat, NEW b \in Nat, unit * a < unit * b
        PROVE  a < b
    <3>1. SUFFICES ASSUME b =< a PROVE FALSE
      BY <2>2
    <3>2. PICK k \in Nat : a = b + k
      BY <3>1
    <3>3. unit * a = unit * b + unit * k /\ unit * k \in Nat
      BY <3>2
    <3> QED BY <3>3, <2>2
  <2> QED BY <2>1, <2>2, <1>1, <1>2
<1>3. CeilDiv(span, unit) = q(span) /\ CeilDiv(newSpan, unit) = q(newSpan)
  BY DEF CeilDiv
<1> HIDE DEF q, x
<1> QED BY <1>1, <1>2, <1>3 DEF BillableUnits

(* The base of an extension at an unchanged rate is exactly what the stay   *)
(* as extended costs beyond what it cost.                                   *)
LEMMA ExtensionIsDifference ==
  ASSUME NEW rate \in Nat, NEW unit \in Nat \ {0},
         NEW span \in Nat, NEW newSpan \in Nat, span =< newSpan
  PROVE  /\ BasePrice(rate, span, unit) \in Nat
         /\ ExtensionBase(rate, span, newSpan, unit) \in Nat
         /\ BasePrice(rate, span, unit) + ExtensionBase(rate, span, newSpan, unit)
              = BasePrice(rate, newSpan, unit)
<1> DEFINE a == BillableUnits(span, unit)
           b == BillableUnits(newSpan, unit)
<1>1. a \in Nat /\ b \in Nat /\ a =< b
  BY UnitsGrow
<1> HIDE DEF a, b
<1>2. PICK k \in Nat : b = a + k
  BY <1>1
<1>3. rate * b = rate * a + rate * k /\ rate * k \in Nat /\ rate * a \in Nat
  BY <1>1, <1>2
<1>4. BasePrice(rate, span, unit) = rate * a /\ BasePrice(rate, newSpan, unit) = rate * b
  BY DEF BasePrice, a, b
<1> QED BY <1>3, <1>4 DEF ExtensionBase

LEMMA MulRateGrows ==
  ASSUME NEW amount \in Nat, NEW more \in Nat, amount =< more, NEW rate \in Nat
  PROVE  MulRate(amount, rate) =< MulRate(more, rate)
<1> DEFINE n == amount * rate
           m == more * rate
<1>1. n \in Nat /\ m \in Nat /\ n =< m
  <2>1. PICK k \in Nat : more = amount + k
    OBVIOUS
  <2>2. more * rate = amount * rate + k * rate /\ k * rate \in Nat /\ amount * rate \in Nat
    BY <2>1
  <2> QED BY <2>2
<1> HIDE DEF n, m
<1>2. n \div 10000 + (IF 2 * (n % 10000) >= 10000 THEN 1 ELSE 0)
        =< m \div 10000 + (IF 2 * (m % 10000) >= 10000 THEN 1 ELSE 0)
  BY <1>1
<1> QED BY <1>2 DEF MulRate, BasisPoints, n, m

(* At one multiplier a higher base price never makes a lower total. *)
LEMMA TotalGrows ==
  ASSUME NEW base \in Nat, NEW more \in Nat, base =< more, NEW surge \in Multipliers, NEW waived \in BOOLEAN
  PROVE  Quote(base, surge, waived).total =< Quote(more, surge, waived).total
<1> DEFINE premium(b) == MulRate(b, surge - BasisPoints)
           commission(b) == MulRate(b, CommissionRate)
           gst(b) == MulRate(commission(b) + premium(b), GstRate)
<1>0. surge - BasisPoints \in Nat /\ CommissionRate \in Nat /\ GstRate \in Nat
  BY DEF Multipliers, BasisPoints, CommissionRate, GstRate
<1>1. \A b \in Nat : Quote(b, surge, waived).total = b + premium(b) + gst(b)
  BY DEF Quote
<1>2. \A b \in Nat : premium(b) \in Nat /\ commission(b) \in Nat
  BY <1>0, MulRateNat
<1>3. premium(base) =< premium(more) /\ commission(base) =< commission(more)
  BY <1>0, MulRateGrows
<1> HIDE DEF premium, commission
<1>4. /\ commission(base) + premium(base) \in Nat
      /\ commission(more) + premium(more) \in Nat
      /\ commission(base) + premium(base) =< commission(more) + premium(more)
  BY <1>2, <1>3
<1>5. gst(base) \in Nat /\ gst(more) \in Nat /\ gst(base) =< gst(more)
  BY <1>0, <1>4, MulRateNat, MulRateGrows
<1> HIDE DEF gst
<1> QED BY <1>1, <1>2, <1>3, <1>5

(* duration, quote: by the hour, the day or the week, at one rate and one   *)
(* multiplier, a stay that is booked longer never has a lower base price or *)
(* a lower total; and forExtension adds exactly the difference of the two   *)
(* base prices.  Of the totals that is not so: an extension is rounded as a *)
(* quote of its own.                                                        *)
THEOREM LongerCostsNoLess ==
  ASSUME NEW rate \in Nat, NEW kind \in DOMAIN UnitMinutes, NEW surge \in Multipliers,
         NEW span \in Nat, NEW newSpan \in Nat, span =< newSpan
  PROVE  LET unit == UnitMinutes[kind]
             Base(s) == BasePrice(rate, s, unit)
             Total(s) == Quote(Base(s), surge, FALSE).total
         IN  /\ Base(span) =< Base(newSpan)
             /\ Total(span) =< Total(newSpan)
             /\ Base(span) + ExtensionBase(rate, span, newSpan, unit) = Base(newSpan)
<1> DEFINE unit == UnitMinutes[kind]
           short == BasePrice(rate, span, unit)
           long == BasePrice(rate, newSpan, unit)
           added == ExtensionBase(rate, span, newSpan, unit)
<1>1. unit \in Nat \ {0}
  BY DEF UnitMinutes
<1> HIDE DEF unit
<1>2. short \in Nat /\ added \in Nat /\ short + added = long
  BY <1>1, ExtensionIsDifference
<1> HIDE DEF short, long, added
<1>3. long \in Nat /\ short =< long
  BY <1>2
<1>4. Quote(short, surge, FALSE).total =< Quote(long, surge, FALSE).total
  <2>1. FALSE \in BOOLEAN
    OBVIOUS
  <2> QED BY <1>2, <1>3, <2>1, TotalGrows
<1> QED BY <1>2, <1>3, <1>4 DEF unit, short, long, added

(* Two rates at most: a stay paid for at one rate and extended at another   *)
(* is paid for, as extended, at the lower of them.                          *)
LEMMA ExtensionCovers ==
  ASSUME NEW lo \in Nat, NEW rate \in Nat, NEW unit \in Nat \ {0}, NEW base \in Nat,
         NEW span \in Nat, NEW newSpan \in Nat, span =< newSpan,
         base >= BasePrice(lo, span, unit)
  PROVE  \E least \in {lo, rate} :
           base + ExtensionBase(rate, span, newSpan, unit) >= BasePrice(least, newSpan, unit)
<1> DEFINE a == BillableUnits(span, unit)
           b == BillableUnits(newSpan, unit)
           added == ExtensionBase(rate, span, newSpan, unit)
<1>1. a \in Nat /\ b \in Nat /\ a =< b
  BY UnitsGrow
<1>2. added \in Nat /\ rate * a + added = rate * b
  <2>1. added \in Nat /\ BasePrice(rate, span, unit) + added = BasePrice(rate, newSpan, unit)
    BY ExtensionIsDifference
  <2> HIDE DEF added
  <2> QED BY <2>1 DEF BasePrice
<1>3. base >= lo * a
  BY DEF BasePrice
<1> HIDE DEF a, b, added
<1>4. CASE rate =< lo
  <2>1. PICK k \in Nat : lo = rate + k
    BY <1>4
  <2>2. lo * a = rate * a + k * a /\ k * a \in Nat /\ rate * a \in Nat
    BY <1>1, <2>1
  <2>3. base + added >= rate * b
    BY <1>2, <1>3, <2>2
  <2> QED BY <2>3 DEF BasePrice, a, b, added
<1>5. CASE lo =< rate
  <2>1. PICK k \in Nat : rate = lo + k
    BY <1>5
  <2>2. PICK j \in Nat : b = a + j
    BY <1>1
  <2>3. rate * b = rate * a + rate * j /\ rate * a \in Nat /\ rate * j \in Nat
    BY <1>1, <2>2
  <2>4. rate * j = lo * j + k * j /\ lo * j \in Nat /\ k * j \in Nat
    BY <2>1, <2>2
  <2>5. lo * b = lo * a + lo * j /\ lo * a \in Nat
    BY <1>1, <2>2
  <2>6. added = rate * j
    BY <1>2, <2>3
  <2>7. base + added >= lo * b
    BY <1>3, <2>4, <2>5, <2>6
  <2> QED BY <2>7 DEF BasePrice, a, b, added
<1> QED BY <1>4, <1>5

(* surge-config: the ladder used unless an administrator sets another is one *)
(* that surgeTierLadderSchema accepts.                                      *)
LEMMA DefaultIsLadder == DefaultLadder \in Ladders
<1>1. DefaultLadder \in Seq([occupancy : 0..BasisPoints, multiplier : Nat])
  BY DEF DefaultLadder, BasisPoints
<1>2. Len(DefaultLadder) = 4 /\ DOMAIN DefaultLadder = 1..4
  BY DEF DefaultLadder
<1>3. ASSUME NEW i \in 1..4, NEW j \in 1..4, i < j
      PROVE  Ascending(DefaultLadder, i, j)
  BY <1>3 DEF DefaultLadder, Ascending
<1> QED BY <1>1, <1>2, <1>3 DEF Ladders, DefaultLadder, BasisPoints

-----------------------------------------------------------------------------
(* Sums over any number of terms.                                           *)
LEMMA LeastIndex ==
  ASSUME NEW S \in SUBSET Nat, S # {}
  PROVE  \E m \in S : \A k \in S : m =< k
<1>1. PICK m \in S : \A k \in S : ~ (<<k, m>> \in OpToRel(<, Nat))
  BY NatLessThanWellFounded, WFMin
<1>2. \A k \in S : ~ (k < m)
  BY <1>1 DEF OpToRel
<1> QED BY <1>2

RunningSum(f, n, g) == g = [i \in 0..n |-> IF i = 0 THEN 0 ELSE g[i - 1] + f[i]]

LEMMA RunningSumExists ==
  ASSUME NEW f, NEW n \in Nat
  PROVE  \E g : RunningSum(f, n, g)
<1> DEFINE Lacking == { k \in Nat : ~ \E g : RunningSum(f, k, g) }
<1>1. SUFFICES ASSUME Lacking # {} PROVE FALSE
  OBVIOUS
<1>2. PICK m \in Lacking : \A k \in Lacking : m =< k
  BY <1>1, LeastIndex
<1>3. m # 0
  <2>1. RunningSum(f, 0, [i \in 0..0 |-> 0])
    BY DEF RunningSum
  <2> QED BY <2>1
<1>4. m - 1 \in Nat /\ m - 1 \notin Lacking
  BY <1>2, <1>3
<1>5. PICK g : RunningSum(f, m - 1, g)
  BY <1>4
<1> DEFINE h == [i \in 0..m |-> IF i = m THEN g[m - 1] + f[m] ELSE g[i]]
<1>6. ASSUME NEW i \in 0..m
      PROVE  h[i] = IF i = 0 THEN 0 ELSE h[i - 1] + f[i]
  <2>1. \A j \in 0..(m - 1) : g[j] = IF j = 0 THEN 0 ELSE g[j - 1] + f[j]
    BY <1>5 DEF RunningSum
  <2>2. CASE i = m
    BY <1>3, <2>2
  <2>3. CASE i # m
    <3>1. i \in 0..(m - 1) /\ h[i] = g[i]
      BY <2>3
    <3>2. i # 0 => i - 1 \in 0..m /\ i - 1 # m /\ h[i - 1] = g[i - 1]
      BY <2>3
    <3> QED BY <2>1, <3>1, <3>2
  <2> QED BY <2>2, <2>3
<1>7. h = [i \in 0..m |-> h[i]]
  OBVIOUS
<1> HIDE DEF h
<1>8. RunningSum(f, m, h)
  BY <1>6, <1>7 DEF RunningSum
<1> QED BY <1>8

(* SumTo up to k is one of the values of a single function. *)
LEMMA SumUnfolds ==
  ASSUME NEW f, NEW n \in Nat
  PROVE  \E g : RunningSum(f, n, g) /\ SumTo(f, n) = g[n]
<1> DEFINE sum == CHOOSE g : RunningSum(f, n, g)
<1>1. RunningSum(f, n, sum)
  BY RunningSumExists
<1>2. SumTo(f, n) = sum[n]
  BY DEF SumTo, RunningSum
<1> HIDE DEF sum
<1> QED BY <1>1, <1>2

LEMMA RunningSumUnique ==
  ASSUME NEW f, NEW n \in Nat, NEW m \in 0..n, NEW g, NEW h, RunningSum(f, n, g), RunningSum(f, m, h)
  PROVE  \A i \in 0..m : g[i] = h[i]
<1> DEFINE Apart == { i \in 0..m : g[i] # h[i] }
<1>1. SUFFICES ASSUME Apart # {} PROVE FALSE
  OBVIOUS
<1>2. PICK i \in Apart : \A k \in Apart : i =< k
  <2>1. Apart \in SUBSET Nat
    OBVIOUS
  <2> HIDE DEF Apart
  <2> QED BY <1>1, <2>1, LeastIndex
<1>3. g[i] = (IF i = 0 THEN 0 ELSE g[i - 1] + f[i]) /\ h[i] = IF i = 0 THEN 0 ELSE h[i - 1] + f[i]
  BY DEF RunningSum
<1>4. i # 0
  BY <1>3
<1>5. i - 1 \in 0..m /\ i - 1 \notin Apart
  BY <1>2, <1>4
<1> QED BY <1>3, <1>4, <1>5

(* The equations of a sum. *)
LEMMA SumOfNone == ASSUME NEW f PROVE SumTo(f, 0) = 0
<1>1. PICK g : RunningSum(f, 0, g) /\ SumTo(f, 0) = g[0]
  BY SumUnfolds
<1> QED BY <1>1 DEF RunningSum

LEMMA SumOfMore ==
  ASSUME NEW f, NEW n \in Nat, n # 0
  PROVE  SumTo(f, n) = SumTo(f, n - 1) + f[n]
<1>1. PICK g : RunningSum(f, n, g) /\ SumTo(f, n) = g[n]
  BY SumUnfolds
<1>2. PICK h : RunningSum(f, n - 1, h) /\ SumTo(f, n - 1) = h[n - 1]
  BY SumUnfolds
<1>3. n \in 0..n /\ n - 1 \in 0..n /\ n - 1 \in Nat /\ n - 1 \in 0..(n - 1)
  OBVIOUS
<1>4. g[n - 1] = h[n - 1]
  BY <1>1, <1>2, <1>3, RunningSumUnique
<1>5. g[n] = g[n - 1] + f[n]
  BY <1>1, <1>3 DEF RunningSum
<1> QED BY <1>1, <1>2, <1>4, <1>5

(* A sum of integers is an integer. *)
LEMMA SumType ==
  ASSUME NEW n \in Nat, NEW f, \A i \in 1..n : f[i] \in Int
  PROVE  \A k \in 0..n : SumTo(f, k) \in Int
<1> DEFINE Bad == { k \in 0..n : SumTo(f, k) \notin Int }
<1>1. SUFFICES ASSUME Bad # {} PROVE FALSE
  OBVIOUS
<1>2. PICK k \in Bad : \A j \in Bad : k =< j
  <2>1. Bad \in SUBSET Nat
    OBVIOUS
  <2> HIDE DEF Bad
  <2> QED BY <1>1, <2>1, LeastIndex
<1>3. k # 0
  BY SumOfNone
<1>4. k - 1 \in 0..n /\ k - 1 \notin Bad /\ k \in 1..n /\ k \in Nat
  BY <1>2, <1>3
<1>5. SumTo(f, k) = SumTo(f, k - 1) + f[k]
  BY <1>3, <1>4, SumOfMore
<1> QED BY <1>4, <1>5

LEMMA SumInt ==
  ASSUME NEW n \in Nat, NEW f, \A i \in 1..n : f[i] \in Int
  PROVE  SumTo(f, n) \in Int
<1>1. n \in 0..n
  OBVIOUS
<1> QED BY <1>1, SumType

LEMMA SumOfZeros ==
  ASSUME NEW n \in Nat, NEW f, \A i \in 1..n : f[i] = 0
  PROVE  SumTo(f, n) = 0
<1> DEFINE Bad == { k \in 0..n : SumTo(f, k) # 0 }
<1>1. SUFFICES ASSUME Bad # {} PROVE FALSE
  OBVIOUS
<1>2. PICK k \in Bad : \A j \in Bad : k =< j
  <2>1. Bad \in SUBSET Nat
    OBVIOUS
  <2> HIDE DEF Bad
  <2> QED BY <1>1, <2>1, LeastIndex
<1>3. k # 0
  BY SumOfNone
<1>4. k - 1 \in 0..n /\ k - 1 \notin Bad /\ k \in 1..n /\ k \in Nat
  BY <1>2, <1>3
<1>5. SumTo(f, k) = SumTo(f, k - 1) + f[k]
  BY <1>3, <1>4, SumOfMore
<1> QED BY <1>4, <1>5

(* No term is larger, so the sum is not. *)
LEMMA SumGrows ==
  ASSUME NEW n \in Nat, NEW f, NEW g,
         \A i \in 1..n : f[i] \in Int /\ g[i] \in Int /\ f[i] =< g[i]
  PROVE  SumTo(f, n) =< SumTo(g, n)
<1> DEFINE Bad == { k \in 0..n : ~ (SumTo(f, k) =< SumTo(g, k)) }
<1>1. SUFFICES ASSUME Bad # {} PROVE FALSE
  BY SumType
<1>2. PICK k \in Bad : \A j \in Bad : k =< j
  <2>1. Bad \in SUBSET Nat
    OBVIOUS
  <2> HIDE DEF Bad
  <2> QED BY <1>1, <2>1, LeastIndex
<1>3. k # 0
  BY SumOfNone
<1>4. k - 1 \in 0..n /\ k - 1 \notin Bad /\ k \in 1..n /\ k \in Nat
  BY <1>2, <1>3
<1>5. SumTo(f, k) = SumTo(f, k - 1) + f[k] /\ SumTo(g, k) = SumTo(g, k - 1) + g[k]
  BY <1>3, <1>4, SumOfMore
<1>6. SumTo(f, k - 1) \in Int /\ SumTo(g, k - 1) \in Int
  BY <1>4, SumType
<1> QED BY <1>4, <1>5, <1>6

(* One term changes the sum by as much. *)
LEMMA SumChanges ==
  ASSUME NEW n \in Nat, NEW at \in 1..n, NEW f, NEW g,
         \A i \in 1..n : f[i] \in Int /\ g[i] \in Int,
         \A i \in (1..n) \ {at} : g[i] = f[i]
  PROVE  SumTo(g, n) = SumTo(f, n) + (g[at] - f[at])
<1> DEFINE Change(k) == IF k < at THEN 0 ELSE g[at] - f[at]
           Bad == { k \in 0..n : SumTo(g, k) # SumTo(f, k) + Change(k) }
<1>0. \A k \in 0..n : SumTo(f, k) \in Int /\ SumTo(g, k) \in Int
  BY SumType
<1>1. SUFFICES ASSUME Bad # {} PROVE FALSE
  BY <1>0
<1>2. PICK k \in Bad : \A j \in Bad : k =< j
  <2>1. Bad \in SUBSET Nat
    OBVIOUS
  <2> HIDE DEF Bad
  <2> QED BY <1>1, <2>1, LeastIndex
<1>3. k # 0
  BY SumOfNone
<1>4. k - 1 \in 0..n /\ k - 1 \notin Bad /\ k \in 1..n /\ k \in Nat
  BY <1>2, <1>3
<1>5. SumTo(f, k) = SumTo(f, k - 1) + f[k] /\ SumTo(g, k) = SumTo(g, k - 1) + g[k]
  BY <1>3, <1>4, SumOfMore
<1>6. SumTo(g, k - 1) = SumTo(f, k - 1) + Change(k - 1)
  BY <1>4
<1>7. k # at => g[k] = f[k] /\ Change(k) = Change(k - 1)
  BY <1>4
<1>8. k = at => Change(k - 1) = 0 /\ Change(k) = g[k] - f[k]
  OBVIOUS
<1>9. f[k] \in Int /\ g[k] \in Int /\ f[at] \in Int /\ g[at] \in Int
  BY <1>4
<1>10. Change(k - 1) \in Int
  BY <1>9
<1> HIDE DEF Change
<1>11. SumTo(g, k) = SumTo(f, k) + Change(k)
  BY <1>0, <1>4, <1>5, <1>6, <1>7, <1>8, <1>9, <1>10
<1> QED BY <1>11
=============================================================================
