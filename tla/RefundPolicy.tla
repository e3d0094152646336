---------------------------- MODULE RefundPolicy ----------------------------
(***************************************************************************)
(* What goes back to a driver.  Pure arithmetic over whole paise: the      *)
(* published cancellation tiers and the administrator's refund of what is  *)
(* left on a capture.  Times are in the same unit as the bookings'.        *)
(***************************************************************************)
EXTENDS Integers

CONSTANTS
  ProcessingFee,   \* REFUND_PROCESSING_FEE_PAISE, kept when cancelling ahead of the start
  Goodwill,        \* OWNER_CANCEL_GOODWILL_PAISE, our apology, never part of the refund
  Grace            \* ACTIVE_GRACE_MINUTES, how long after the start half is still given back

ASSUME RefundPolicyAssumption ==
  /\ ProcessingFee \in Nat
  /\ Goodwill \in Nat
  /\ Grace \in Nat

Cancellers == { "driver", "owner", "admin" }

Tiers == { "before_start", "active_grace", "no_refund", "owner_cancelled" }

Lesser(a, b) == IF a < b THEN a ELSE b

(* mulRate(total, 0.5): BigInt arithmetic that rounds a half up. *)
HalfUp(total) == (total + 1) \div 2

Outcome(tier, total, refund, goodwill) ==
  [tier |-> tier, refund |-> refund, retained |-> total - refund, goodwill |-> goodwill]

ResolveRefund(total, startsAt, at, by) ==
  IF by # "driver" THEN Outcome("owner_cancelled", total, total, Goodwill)
  ELSE IF at < startsAt
       THEN Outcome("before_start", total, total - Lesser(ProcessingFee, total), 0)
  ELSE IF at < startsAt + Grace
       THEN Outcome("active_grace", total, HalfUp(total), 0)
  ELSE Outcome("no_refund", total, 0, 0)

-----------------------------------------------------------------------------
(* The reasons whose posting already reversed the booking in full. *)
FullReversalReasons == { "before_start", "owner_cancelled" }

RefundableAfterReversal(captured, refunded, reasons) == captured - refunded

RefundableOf(captured, refunded, reasons) ==
  IF reasons \cap FullReversalReasons # {} THEN 0 ELSE captured - refunded

AdminRefundableStatuses == { "completed", "no_show", "cancelled" }

Presets == { "full_minus_fee", "half" }

PresetAmount(option, refundable) ==
  IF option = "half" THEN refundable \div 2
                     ELSE refundable - Lesser(ProcessingFee, refundable)

(* The amounts one administrator's request can move: its preset when that is *)
(* worth something, or the custom amount asked for, up to what is left.       *)
AdminRefundAmounts(option, refundable) ==
  { a \in 1..refundable : option = "custom" \/ a = PresetAmount(option, refundable) }
=============================================================================
