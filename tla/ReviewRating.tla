---------------------------- MODULE ReviewRating ----------------------------
(***************************************************************************)
(* The rating of one target, a space, a valet or a washer: a read model    *)
(* that every write of a review recomputes in its own transaction, and     *)
(* that a nightly job recomputes when a review leaves the recent window.   *)
(*                                                                         *)
(* A transaction writes its review, waits for the lock on the read model,  *)
(* counts what is committed and what it wrote itself (READ COMMITTED), and *)
(* commits.  It weighs reviews as of the time it took before it waited.    *)
(***************************************************************************)
EXTENDS Integers, FiniteSets, FiniteSetsExt

CONSTANTS
  Reviews,    \* one per counterparty and booking
  Job,        \* the nightly job, as the owner of a transaction
  Stars,      \* what reviewers give
  Window,     \* RECENCY_WINDOW_MS, in days
  CatchUp,    \* CATCH_UP_MS, in days
  MaxDay      \* bound: days

ASSUME RatingAssumption ==
  /\ Job \notin Reviews
  /\ IsFiniteSet(Reviews)
  /\ Stars \subseteq 1..5
  /\ Window \in Nat /\ CatchUp \in Nat /\ MaxDay \in Nat

VARIABLES
  today,
  reviews,    \* status, stars and day of each review
  rating,     \* rating_avg_bp and rating_count of the read model
  txs,        \* the open transaction of each review, and of the job
  lastNight   \* day of the last nightly run that did not fail

ratingVars == <<today, reviews, rating, txs, lastNight>>

Days == 0..MaxDay
BpPerStar == 10000
RecentWeight == 2
OlderWeight == 1

Review(status, stars, day) == [status |-> status, stars |-> stars, day |-> day]
Unwritten == Review("none", 1, 0)

DivRoundHalfUp(numerator, denominator) == (2 * numerator + denominator) \div (2 * denominator)

(* weightedAverageBp.  The average is null, here 0, of no reviews. *)
Weight(day, now) == IF day >= now - Window THEN RecentWeight ELSE OlderWeight

WeightedAverageBp(rows, counted, now) ==
  LET weight(r) == Weight(rows[r].day, now)
      weighted(r) == weight(r) * rows[r].stars * BpPerStar
  IN  DivRoundHalfUp(MapThenSumSet(weighted, counted), MapThenSumSet(weight, counted))

(* COUNTS_TOWARD_RATING *)
Counted(rows) == { r \in Reviews : rows[r].status = "visible" }

RatingOf(rows, now) ==
  LET counted == Counted(rows)
  IN  [bp |-> IF counted = {} THEN 0 ELSE WeightedAverageBp(rows, counted, now),
       count |-> Cardinality(counted)]

NoRating == [bp |-> 0, count |-> 0]

(* row: what it wrote to its review; result: what it counted. *)
Tx(step, row, now, result) == [step |-> step, row |-> row, now |-> now, result |-> result]
NoTx == Tx("none", Unwritten, 0, NoRating)

RatingInit ==
  /\ today = 0
  /\ reviews = [r \in Reviews |-> Unwritten]
  /\ rating = NoRating
  /\ txs = [t \in Reviews \cup {Job} |-> NoTx]
  /\ lastNight = 0

-----------------------------------------------------------------------------
(* CreateReviewCommand: the insert.  The unique index admits one. *)
Create(r, stars) ==
  /\ reviews[r].status = "none" /\ txs[r] = NoTx
  /\ txs' = [txs EXCEPT ![r] = Tx("written", Review("visible", stars, today), today, NoRating)]
  /\ UNCHANGED <<today, reviews, rating, lastNight>>

(* ModerateReviewCommand.remove: the soft delete, under the review's lock. *)
Remove(r) ==
  /\ reviews[r].status = "visible" /\ txs[r] = NoTx
  /\ txs' = [txs EXCEPT ![r] =
       Tx("written", [reviews[r] EXCEPT !.status = "removed"], today, NoRating)]
  /\ UNCHANGED <<today, reviews, rating, lastNight>>

(* ageingReviewTargets: a visible review left the window within CatchUp.    *)
LeftYesterday(day) == day = today - Window - 1
Left(day) == today - Window - CatchUp =< day /\ day < today - Window
Ageing == \E r \in Counted(reviews) : Left(reviews[r].day)

(* recomputeAgeingAggregates.  The clock stops at MaxDay, the nights do not. *)
StartNight ==
  /\ txs[Job] = NoTx
  /\ lastNight < today \/ today = MaxDay
  /\ IF Ageing
     THEN /\ txs' = [txs EXCEPT ![Job] = Tx("written", Unwritten, today, NoRating)]
          /\ UNCHANGED lastNight
     ELSE lastNight' = today /\ UNCHANGED txs
  /\ UNCHANGED <<today, reviews, rating>>

(* recomputeRatingAggregate: the lock, then a statement that sees whatever  *)
(* was committed by then, and the transaction's own write.                  *)
UnlockedAlways == TRUE
Unlocked == \A t \in DOMAIN txs : txs[t].step # "counted"

SeenBy(t) == IF t = Job THEN reviews ELSE [reviews EXCEPT ![t] = txs[t].row]

Recompute(t) ==
  /\ txs[t].step = "written"
  /\ Unlocked
  /\ txs' = [txs EXCEPT ![t] = Tx("counted", @.row, @.now, RatingOf(SeenBy(t), @.now))]
  /\ UNCHANGED <<today, reviews, rating, lastNight>>

CommitTx(t) ==
  /\ txs[t].step = "counted"
  /\ reviews' = SeenBy(t)
  /\ rating' = txs[t].result
  /\ lastNight' = IF t = Job THEN txs[t].now ELSE lastNight
  /\ txs' = [txs EXCEPT ![t] = NoTx]
  /\ UNCHANGED today

(* A statement fails, or the process dies. *)
RollBack(t) ==
  /\ txs[t].step # "none"
  /\ txs' = [txs EXCEPT ![t] = NoTx]
  /\ UNCHANGED <<today, reviews, rating, lastNight>>

(* A transaction may outlast one night, not two.  Of the CatchUp - 1 nights *)
(* that the code lets pass in a row one is kept for it: a rating written    *)
(* after a night by a transaction that weighed the reviews before it waits  *)
(* for the next night.                                                      *)
NextDay ==
  /\ today < MaxDay
  /\ today + 1 < lastNight + CatchUp
  /\ \A t \in DOMAIN txs : txs[t] # NoTx => txs[t].now = today
  /\ today' = today + 1
  /\ UNCHANGED <<reviews, rating, txs, lastNight>>

RatingNext ==
  \/ \E r \in Reviews : Remove(r) \/ \E stars \in Stars : Create(r, stars)
  \/ StartNight
  \/ \E t \in Reviews \cup {Job} : Recompute(t) \/ CommitTx(t) \/ RollBack(t)
  \/ NextDay

RatingSpec == RatingInit /\ [][RatingNext]_ratingVars

(* A transaction ends, the job is run again until it succeeds, the days     *)
(* pass.                                                                    *)
RatingFairSpec ==
  /\ RatingSpec
  /\ WF_ratingVars(NextDay)
  /\ WF_ratingVars(StartNight)
  /\ \A t \in Reviews \cup {Job} : SF_ratingVars(Recompute(t)) /\ SF_ratingVars(CommitTx(t))

-----------------------------------------------------------------------------
ReviewRows == [status : {"none", "visible", "removed"}, stars : 1..5, day : Days]

(* No transaction has a time to come, and the job writes no review.         *)
RatingTypeOK ==
  /\ today \in Days /\ lastNight \in 0..today
  /\ reviews \in [Reviews -> ReviewRows]
  /\ DOMAIN txs = Reviews \cup {Job}
  /\ \A t \in Reviews \cup {Job} :
       /\ txs[t] = Tx(txs[t].step, txs[t].row, txs[t].now, txs[t].result)
       /\ txs[t].step \in {"none", "written", "counted"}
       /\ txs[t].row \in ReviewRows /\ txs[t].now \in 0..today

(* rating-aggregate: two reviews that commit at once, a removal beside a    *)
(* creation, or the job beside both leave the rating of exactly the reviews *)
(* that are visible, as they weighed on a day no later than today.          *)
RatingOfVisible == \E day \in 0..today : rating = RatingOf(reviews, day)

(* recompute-aggregates.job: a weight halves with no write to notice it;    *)
(* the rating follows in the end, nights being missed.                      *)
RatingCatchesUp == rating # RatingOf(reviews, today) ~> rating = RatingOf(reviews, today)
=============================================================================
