-------------------------------- MODULE Paise --------------------------------
(***************************************************************************)
(* Whole paise and the one rounding rule.  A rate is in basis points: the  *)
(* code scales every Rate by RATE_SCALE before it multiplies.              *)
(***************************************************************************)
EXTENDS Integers

BasisPoints == 10000

(* BigInt arithmetic: the quotient, and one more when the remainder is at   *)
(* least half.                                                              *)
MulRate(amount, rate) ==
  LET numerator == amount * rate
      remainder == numerator % BasisPoints
  IN  numerator \div BasisPoints + (IF 2 * remainder >= BasisPoints THEN 1 ELSE 0)

CommissionRate == 1500          \* PLATFORM_COMMISSION_RATE, of the base
GstRate == 1800                 \* GST_RATE, of the platform's fee only
ServiceCommissionRate == 2000   \* VALET_COMMISSION_RATE and CARWASH_COMMISSION_RATE
ValetBaseFee == 5000            \* VALET_BASE_FEE_PAISE
ValetPerKm == 1000              \* VALET_PER_KM_PAISE
MetresPerKm == 1000
MinimumPayout == 10000          \* MINIMUM_PAYOUT_PAISE
=============================================================================
