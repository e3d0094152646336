------------------------------- MODULE Pricing -------------------------------
(***************************************************************************)
(* What a booking costs: billable units, the surge multiplier of its zone, *)
(* and the quote that splits the driver's total between the owner, the     *)
(* platform and the tax authority.                                         *)
(***************************************************************************)
EXTENDS Paise, Sequences

(* FIXED_UNIT_MS: minutes to the unit, for the units that are fixed. *)
UnitMinutes == [hourly |-> 60, daily |-> 24 * 60, weekly |-> 7 * 24 * 60]

CeilDiv(n, d) == (n + d - 1) \div d

(* Part units round up; there is always one. *)
BillableUnits(span, unit) == IF span < 1 THEN 1 ELSE CeilDiv(span, unit)

BasePrice(rate, span, unit) == rate * BillableUnits(span, unit)

(* parkEaseFee and quote.  A waived commission is paid to the owner by the  *)
(* platform and never moves the driver's price.                             *)
Quote(base, surge, waived) ==
  LET premium == MulRate(base, surge - BasisPoints)
      commission == MulRate(base, CommissionRate)
      fee == commission + premium
      gst == MulRate(fee, GstRate)
      waiver == IF waived THEN commission ELSE 0
  IN  [base |-> base, premium |-> premium, commission |-> commission, fee |-> fee, gst |-> gst,
       waiver |-> waiver, owner |-> (base - commission) + waiver, total |-> base + premium + gst]

(* assertQuoteBalances: the driver's total and the waiver are what is split. *)
QuoteBalances(q) == q.owner + q.fee + q.gst = q.total + q.waiver

(* An extension is the whole new window less the whole old one, at the      *)
(* multiplier frozen on the booking.                                        *)
ExtensionBase(rate, span, newSpan, unit) ==
  LET delta == BasePrice(rate, newSpan, unit) - BasePrice(rate, span, unit)
  IN  IF delta < 0 THEN 0 ELSE delta

-----------------------------------------------------------------------------
(* surgeTierLadderSchema: tiers that ascend in occupancy and in multiplier  *)
(* from a floor that charges nothing extra.                                 *)
Ascending(ladder, i, j) ==
  ladder[i].occupancy < ladder[j].occupancy /\ ladder[i].multiplier < ladder[j].multiplier

Ladders ==
  { ladder \in Seq([occupancy : 0..BasisPoints, multiplier : Nat]) :
      /\ Len(ladder) >= 2
      /\ ladder[1] = [occupancy |-> 0, multiplier |-> BasisPoints]
      /\ \A i, j \in DOMAIN ladder : i < j => Ascending(ladder, i, j) }

DefaultLadder ==
  << [occupancy |-> 0, multiplier |-> 10000], [occupancy |-> 6000, multiplier |-> 12500],
     [occupancy |-> 7500, multiplier |-> 15000], [occupancy |-> 9000, multiplier |-> 20000] >>

LastTier(ladder, Holds(_)) ==
  LET held == { i \in DOMAIN ladder : Holds(ladder[i]) }
  IN  IF held = {} THEN ladder[1] ELSE ladder[CHOOSE i \in held : \A j \in held : j =< i]

(* Exact integer comparison; a zone with no slots is empty, not full. *)
TierForOccupancy(occupied, slots, ladder) ==
  LET Exceeds(tier) == slots > 0 /\ occupied * BasisPoints > tier.occupancy * slots
  IN  LastTier(ladder, Exceeds)

SnapDownToTier(value, ladder) ==
  LET AtMost(tier) == tier.multiplier =< value
  IN  LastTier(ladder, AtMost)

(* Math.round: halves go up. *)
Rounded(n, d) == (2 * n + d) \div (2 * d)
Escalate(multiplier, modifier) == Rounded(multiplier * modifier, BasisPoints)

(* config.peak, weekend and event are the modifiers that apply now, 1.0x    *)
(* when one does not; config.cap is the zone's, or the global, maximum.     *)
CalculateSurge(occupied, slots, config) ==
  LET earned == TierForOccupancy(occupied, slots, config.ladder).multiplier
      escalated == Escalate(Escalate(Escalate(earned, config.peak), config.weekend), config.event)
      capped == IF escalated > config.cap THEN config.cap ELSE escalated
  IN  IF earned = BasisPoints THEN BasisPoints
      ELSE SnapDownToTier(capped, config.ladder).multiplier
=============================================================================
