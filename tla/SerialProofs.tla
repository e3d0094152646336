---------------------------- MODULE SerialProofs ----------------------------
(***************************************************************************)
(* Two components that are right because one party at a time gets through: *)
(* the attempts at one idempotency key, and the transactions that count    *)
(* the reviews of one target.  They share nothing else.                    *)
(*                                                                         *)
(* For every number of attempts and every stale threshold a request is     *)
(* written once and the answer stored for it stands.  For any set of       *)
(* reviews, any window and any number of days the rating is that of        *)
(* exactly the reviews that are visible; what RatingOf computes plays no   *)
(* part in it.                                                             *)
(***************************************************************************)
EXTENDS IdempotencyKey, ReviewRating, FiniteSetTheorems, TLAPS

(* No attempt of a request that may still write, or may still delete the    *)
(* row without looking, holds a row that is marked committed.               *)
Uncommitted(a) == HeldBy(a) => ~ row.committed

HoldersUncommitted ==
  \A a \in Attempts :
    attempt[a].pc \in { "running", "release_rerunnable" } => Uncommitted(a)

(* The mark outlives the attempt that made it, and the row keeps the mark.  *)
WriteIsMarked == writes > 0 => row.exists /\ row.committed

OnceInv == kind = "request" => writes =< 1 /\ WriteIsMarked /\ HoldersUncommitted

Inv == TypeOK /\ OnceInv

-----------------------------------------------------------------------------
LEMMA Records ==
  /\ Away \in AttemptRecords /\ Away.pc = "away"
  /\ NoRow \in Rows /\ ~ NoRow.exists /\ NoRow.token = None
  /\ \A age \in Ages : Older(age) \in Ages
  BY IdempotencyKeyAssumption DEF Away, AttemptRecords, NoRow, Rows, Places, Ages, Older

(* What Goto and Answer do to the attempts: one moves, the others stay.     *)
LEMMA GotoMoves ==
  ASSUME TypeOK, NEW a \in Attempts, NEW place \in Places, Goto(a, place)
  PROVE  /\ attempt' \in [Attempts -> AttemptRecords]
         /\ attempt'[a].pc = place
         /\ \A b \in Attempts \ {a} : attempt'[b] = attempt[b]
  BY DEF Goto, TypeOK, AttemptRecords

LEMMA AnswerMoves ==
  ASSUME TypeOK, NEW a \in Attempts, attempt' = [attempt EXCEPT ![a] = Away]
  PROVE  /\ attempt' \in [Attempts -> AttemptRecords]
         /\ attempt'[a].pc = "away"
         /\ \A b \in Attempts \ {a} : attempt'[b] = attempt[b]
  BY Records DEF TypeOK

LEMMA ArriveMoves ==
  ASSUME TypeOK, NEW a \in Attempts, Arrive(a)
  PROVE  /\ attempt' \in [Attempts -> AttemptRecords]
         /\ attempt'[a].pc = "insert"
         /\ \A b \in Attempts \ {a} : attempt'[b] = attempt[b]
<1>1. [pc |-> "insert", age |-> 0] \in AttemptRecords
  BY IdempotencyKeyAssumption DEF AttemptRecords, Places, Ages
<1> QED
  BY <1>1 DEF Arrive, TypeOK

LEMMA TickMoves ==
  ASSUME TypeOK, Tick
  PROVE  /\ attempt' \in [Attempts -> AttemptRecords]
         /\ \A b \in Attempts : attempt'[b].pc = attempt[b].pc
<1>1. ASSUME NEW b \in Attempts
      PROVE  /\ attempt'[b] \in AttemptRecords
             /\ attempt'[b].pc = attempt[b].pc
  BY Records DEF Tick, TypeOK, AttemptRecords
<1> QED
  BY <1>1 DEF Tick

LEMMA InitInv == Init => Inv
<1> SUFFICES ASSUME Init PROVE Inv
  OBVIOUS
<1>1. TypeOK
  <2>1. attempt \in [Attempts -> AttemptRecords]
    BY Records DEF Init
  <2>2. kind \in Kinds /\ row \in Rows
    BY Records DEF Init
  <2>3. writes \in Writes
    BY DEF Init, Writes
  <2>4. acked \in BOOLEAN
    BY DEF Init
  <2> QED
    BY <2>1, <2>2, <2>3, <2>4 DEF TypeOK
<1>2. OnceInv
  BY Records DEF Init, OnceInv, WriteIsMarked, HoldersUncommitted, Uncommitted, HeldBy
<1> QED
  BY <1>1, <1>2 DEF Inv

(* Every step keeps the types: ages stop at the threshold, and a token or   *)
(* an answer belongs to an attempt.                                         *)
LEMMA TypeStep == TypeOK /\ [Next]_vars => TypeOK'
<1> SUFFICES ASSUME TypeOK, [Next]_vars PROVE TypeOK'
  OBVIOUS
<1> USE DEF TypeOK
<1>1. CASE UNCHANGED vars
  BY <1>1 DEF vars
<1>2. ASSUME NEW a \in Attempts, Arrive(a) PROVE TypeOK'
  BY <1>2, ArriveMoves DEF Arrive
<1>3. ASSUME NEW a \in Attempts, InsertClaim(a) PROVE TypeOK'
  <2>1. Claimed(a) \in Rows
    BY DEF Claimed, Rows, AttemptRecords
  <2> QED
    BY <1>3, <2>1, GotoMoves DEF InsertClaim, Places
<1>4. ASSUME NEW a \in Attempts, ReadClaim(a) PROVE TypeOK'
  BY <1>4, GotoMoves, AnswerMoves DEF ReadClaim, Answer, Places
<1>5. ASSUME NEW a \in Attempts, TakeOver(a) PROVE TypeOK'
  <2>1. [row EXCEPT !.token = a, !.age = attempt[a].age] \in Rows
    BY DEF Rows, AttemptRecords
  <2> QED
    BY <1>5, <2>1, GotoMoves, AnswerMoves DEF TakeOver, Answer, Places
<1>6. ASSUME NEW a \in Attempts, Handle(a) PROVE TypeOK'
  <2>1. [row EXCEPT !.committed = TRUE] \in Rows
    BY DEF Rows
  <2>2. CASE Commit(a)
    BY <2>1, <2>2, GotoMoves DEF Commit, Fence, Places, Writes
  <2>3. CASE FinishUnwritten(a)
    BY <2>3, GotoMoves DEF FinishUnwritten, Places
  <2>4. CASE Superseded(a) \/ Refuse(a) \/ Break(a)
    BY <2>4, GotoMoves DEF Superseded, Refuse, Break, Fails, Places
  <2> QED
    BY <1>6, <2>2, <2>3, <2>4 DEF Handle
<1>7. ASSUME NEW a \in Attempts, Finish(a) PROVE TypeOK'
  <2>1. /\ [row EXCEPT !.stored = a, !.token = None] \in Rows
        /\ [row EXCEPT !.token = None] \in Rows
    BY DEF Rows
  <2> QED
    BY <1>7, <2>1, Records, AnswerMoves
    DEF Finish, Store, StoreFails, Release, ReleaseFails, Answer
<1>8. ASSUME NEW a \in Attempts, Crash(a) PROVE TypeOK'
  BY <1>8, AnswerMoves DEF Crash
<1>9. ASSUME Tick PROVE TypeOK'
  <2>1. [row EXCEPT !.age = Older(@)] \in Rows
    BY Records DEF Rows
  <2> QED
    BY <1>9, <2>1, TickMoves DEF Tick
<1> QED
  BY <1>1, <1>2, <1>3, <1>4, <1>5, <1>6, <1>7, <1>8, <1>9 DEF Next, Claim

(* One case per action: the fence refuses a second commit, a takeover finds *)
(* the mark, and only an unmarked row is deleted.                           *)
LEMMA OnceStep == Inv /\ [Next]_vars => OnceInv'
<1> SUFFICES ASSUME Inv, [Next]_vars, kind' = "request"
             PROVE  (writes =< 1 /\ WriteIsMarked /\ HoldersUncommitted)'
  BY DEF OnceInv
<1> DEFINE Goal == (writes =< 1 /\ WriteIsMarked /\ HoldersUncommitted)'
<1>k. kind = "request"
  BY DEF Next, vars, Arrive, Claim, InsertClaim, ReadClaim, TakeOver, Handle, Commit,
         FinishUnwritten, Superseded, Refuse, Break, Fails, Finish, Store, StoreFails, Release,
         ReleaseFails, Crash, Tick
<1>a. TypeOK /\ row \in Rows /\ writes \in Writes
  BY DEF Inv, TypeOK
<1>b. writes =< 1 /\ WriteIsMarked /\ HoldersUncommitted
  BY <1>k DEF Inv, OnceInv
<1> USE IdempotencyKeyAssumption, <1>k, <1>a, <1>b
    DEF Rows, Writes, WriteIsMarked, HoldersUncommitted, Uncommitted, HeldBy
<1>1. CASE UNCHANGED vars
  BY <1>1 DEF vars
<1>2. ASSUME NEW a \in Attempts, Arrive(a) PROVE Goal
  BY <1>2, ArriveMoves DEF Arrive
<1>3. ASSUME NEW a \in Attempts, InsertClaim(a) PROVE Goal
  BY <1>3, GotoMoves DEF InsertClaim, Claimed, Places
<1>4. ASSUME NEW a \in Attempts, ReadClaim(a) PROVE Goal
  BY <1>4, GotoMoves, AnswerMoves DEF ReadClaim, Answer, Places
<1>5. ASSUME NEW a \in Attempts, TakeOver(a) PROVE Goal
  BY <1>5, GotoMoves, AnswerMoves DEF TakeOver, CanTakeOver, Answer, Places
<1>6. ASSUME NEW a \in Attempts, Commit(a) PROVE Goal
  BY <1>6, GotoMoves DEF Commit, Fence, Places
<1>7. ASSUME NEW a \in Attempts, FinishUnwritten(a) PROVE Goal
  BY <1>7, GotoMoves DEF FinishUnwritten, Places
<1>8. ASSUME NEW a \in Attempts, Superseded(a) \/ Refuse(a) PROVE Goal
  BY <1>8, GotoMoves DEF Superseded, Refuse, Fails, Places
<1>9. ASSUME NEW a \in Attempts, Break(a) PROVE Goal
  BY <1>9, GotoMoves DEF Break, Fails, RerunnableOnError, Places
<1>10. ASSUME NEW a \in Attempts, Store(a) PROVE Goal
  <2>1. CASE HeldBy(a)
    <3>1. row'.token = None /\ row'.exists = row.exists /\ row'.committed = row.committed
      BY <1>10, <2>1 DEF Store
    <3>2. None \notin Attempts
      BY DEF IdempotencyKeyAssumption
    <3> QED
      BY <1>10, <3>1, <3>2, AnswerMoves DEF Store, Answer
  <2>2. CASE ~ HeldBy(a)
    BY <1>10, <2>2, AnswerMoves DEF Store, Answer
  <2> QED
    BY <2>1, <2>2
<1>11. ASSUME NEW a \in Attempts, Release(a) PROVE Goal
  BY <1>11, Records, AnswerMoves DEF Release, Answer
<1>12. ASSUME NEW a \in Attempts, StoreFails(a) \/ ReleaseFails(a) \/ Crash(a) PROVE Goal
  BY <1>12, AnswerMoves DEF StoreFails, ReleaseFails, Crash, Answer
<1>13. ASSUME Tick PROVE Goal
  BY <1>13, TickMoves DEF Tick
<1> QED
  BY <1>1, <1>2, <1>3, <1>4, <1>5, <1>6, <1>7, <1>8, <1>9, <1>10, <1>11, <1>12, <1>13
  DEF Next, Claim, Handle, Finish

(* The rows, the attempts and the counters stay in their types.             *)
THEOREM KeyTypeCorrect == Spec => []TypeOK
<1>1. Init => TypeOK
  BY InitInv DEF Inv
<1> QED
  BY <1>1, TypeStep, PTL DEF Spec

(* A request's write commits at most once under its key, whatever attempts  *)
(* retry it, take it over, break off after the commit or die.               *)
THEOREM RequestWrittenOnce == Spec => []WrittenOnce
<1>1. Inv /\ [Next]_vars => Inv'
  BY TypeStep, OnceStep DEF Inv
<1>2. Inv => WrittenOnce
  BY DEF Inv, OnceInv, WrittenOnce
<1> QED
  BY InitInv, <1>1, <1>2, PTL DEF Spec

-----------------------------------------------------------------------------
(* A row that holds an answer is nobody's: Store lets go of the claim in    *)
(* the statement that writes the answer, and no takeover claims it again.   *)
AnsweredUnclaimed == row.stored # None => row.exists /\ row.token = None

(* What a step may do to the row's answer while the row lives.              *)
AnswerStands == row.stored # None /\ row'.exists => row'.stored = row.stored

LEMMA AnswerStep ==
  TypeOK /\ AnsweredUnclaimed /\ [Next]_vars => AnsweredUnclaimed' /\ AnswerStands
<1> SUFFICES ASSUME TypeOK, AnsweredUnclaimed, [Next]_vars
             PROVE  AnsweredUnclaimed' /\ AnswerStands
  OBVIOUS
<1>a. row \in Rows /\ None \notin Attempts
  BY IdempotencyKeyAssumption DEF TypeOK
<1> USE <1>a DEF Rows, AnsweredUnclaimed, AnswerStands
<1>1. CASE UNCHANGED row
  BY <1>1
<1>2. ASSUME NEW a \in Attempts, InsertClaim(a) PROVE AnsweredUnclaimed' /\ AnswerStands
  <2>1. UNCHANGED row \/ (~ row.exists /\ row' = Claimed(a))
    BY <1>2 DEF InsertClaim
  <2>2. CASE ~ row.exists /\ row' = Claimed(a)
    <3>1. row'.stored = None
      BY <2>2 DEF Claimed
    <3> QED BY <2>2, <3>1
  <2> QED BY <1>1, <2>1, <2>2
<1>3. ASSUME NEW a \in Attempts, TakeOver(a) PROVE AnsweredUnclaimed' /\ AnswerStands
  BY <1>1, <1>3 DEF TakeOver, CanTakeOver
<1>4. ASSUME NEW a \in Attempts, Commit(a) PROVE AnsweredUnclaimed' /\ AnswerStands
  BY <1>4 DEF Commit, Fence
<1>5. ASSUME NEW a \in Attempts, Store(a) PROVE AnsweredUnclaimed' /\ AnswerStands
  BY <1>1, <1>5 DEF Store, HeldBy
<1>6. ASSUME NEW a \in Attempts, Release(a) PROVE AnsweredUnclaimed' /\ AnswerStands
  BY <1>1, <1>6, Records DEF Release, HeldBy, NoRow
<1>7. ASSUME Tick PROVE AnsweredUnclaimed' /\ AnswerStands
  BY <1>1, <1>7 DEF Tick
<1> QED
  BY <1>1, <1>2, <1>3, <1>4, <1>5, <1>6, <1>7
  DEF Next, vars, Arrive, Claim, ReadClaim, Handle, FinishUnwritten, Superseded, Refuse, Break,
      Fails, Finish, StoreFails, ReleaseFails, Crash

(* The answer a key replays is never replaced by another attempt's, however *)
(* many attempts take the key over and however late each of them finishes.  *)
THEOREM AnswerNeverReplaced == Spec => AnswerKept
<1>1. Init => AnsweredUnclaimed
  BY Records DEF Init, AnsweredUnclaimed, NoRow
<1>2. TypeOK /\ AnsweredUnclaimed /\ [Next]_vars => [AnswerStands]_vars
  BY AnswerStep
<1> QED
  BY <1>1, <1>2, AnswerStep, KeyTypeCorrect, PTL DEF Spec, AnswerKept, AnswerStands

-----------------------------------------------------------------------------
(* The rating of one target. *)
Owners == Reviews \cup {Job}

(* What a transaction has counted still is what its commit leaves, since it *)
(* is the only one to have counted.                                         *)
OneCounts ==
  \A t, u \in Owners : txs[t].step = "counted" /\ txs[u].step = "counted" => t = u

CountedStands ==
  \A t \in Owners : txs[t].step = "counted" => txs[t].result = RatingOf(SeenBy(t), txs[t].now)

RatingInv == RatingTypeOK /\ OneCounts /\ CountedStands /\ RatingOfVisible

LEMMA NobodyRated == RatingOf([r \in Reviews |-> Unwritten], 0) = NoRating
<1>1. Counted([r \in Reviews |-> Unwritten]) = {}
  BY DEF Counted, Unwritten, Review
<1>2. Cardinality({}) = 0
  BY FS_EmptySet
<1> QED BY <1>1, <1>2 DEF RatingOf, NoRating

LEMMA NoTxTyped ==
  /\ NoTx = Tx(NoTx.step, NoTx.row, NoTx.now, NoTx.result)
  /\ NoTx.step = "none" /\ NoTx.row \in ReviewRows /\ NoTx.now = 0
BY RatingAssumption DEF NoTx, Tx, Unwritten, Review, ReviewRows, Days

LEMMA InitRated == RatingInit => RatingInv
<1> SUFFICES ASSUME RatingInit PROVE RatingInv
  OBVIOUS
<1>1. RatingTypeOK
  <2>1. Unwritten \in ReviewRows
    BY RatingAssumption DEF Unwritten, Review, ReviewRows, Days
  <2> QED BY <2>1, NoTxTyped, RatingAssumption DEF RatingInit, RatingTypeOK, Days
<1>2. OneCounts /\ CountedStands
  BY NoTxTyped DEF RatingInit, OneCounts, CountedStands, Owners
<1>3. RatingOfVisible
  BY NobodyRated DEF RatingInit, RatingOfVisible
<1> QED BY <1>1, <1>2, <1>3 DEF RatingInv

(* One transaction moved and nothing else: what it then has counted is      *)
(* right if it was right when it counted.                                   *)
LEMMA OneMoves ==
  ASSUME RatingInv, NEW t \in Owners, NEW STATE new,
         txs' = [txs EXCEPT ![t] = new],
         UNCHANGED <<today, reviews, rating>>,
         lastNight' \in 0..today,
         new = Tx(new.step, new.row, new.now, new.result),
         new.step \in {"none", "written", "counted"},
         new.row \in ReviewRows, new.now \in 0..today,
         new.step = "counted" =>
           /\ \A u \in Owners \ {t} : txs[u].step # "counted"
           /\ new.result = RatingOf(SeenBy(t)', new.now)
  PROVE  RatingInv'
<1>1. /\ DOMAIN txs = Owners /\ txs'[t] = new
      /\ \A u \in Owners \ {t} : txs'[u] = txs[u]
  BY DEF RatingInv, RatingTypeOK, Owners
<1>2. RatingTypeOK'
  BY <1>1 DEF RatingInv, RatingTypeOK, Owners
<1>3. OneCounts'
  BY <1>1 DEF RatingInv, OneCounts
<1>4. CountedStands'
  <2> SUFFICES ASSUME NEW u \in Owners, txs'[u].step = "counted"
               PROVE  txs'[u].result = RatingOf(SeenBy(u)', txs'[u].now)
    BY DEF CountedStands
  <2>1. CASE u = t
    BY <2>1, <1>1
  <2>2. CASE u # t
    <3>1. SeenBy(u)' = SeenBy(u)
      BY <2>2, <1>1 DEF SeenBy
    <3> QED BY <3>1, <2>2, <1>1 DEF RatingInv, CountedStands
  <2> QED BY <2>1, <2>2
<1>5. RatingOfVisible'
  BY DEF RatingInv, RatingOfVisible
<1> QED BY <1>2, <1>3, <1>4, <1>5 DEF RatingInv

LEMMA StepRated == RatingInv /\ [RatingNext]_ratingVars => RatingInv'
<1> SUFFICES ASSUME RatingInv, [RatingNext]_ratingVars PROVE RatingInv'
  OBVIOUS
<1>t. /\ today \in Nat /\ today \in Days /\ 0 \in 0..today
      /\ lastNight \in 0..today /\ today \in 0..today
  BY RatingAssumption DEF RatingInv, RatingTypeOK, Days
<1>1. ASSUME NEW r \in Reviews, NEW stars \in Stars, Create(r, stars) PROVE RatingInv'
  <2> DEFINE new == Tx("written", Review("visible", stars, today), today, NoRating)
  <2>1. new.row \in ReviewRows /\ new.step = "written" /\ new.now = today
        /\ new = Tx(new.step, new.row, new.now, new.result)
    BY <1>t, RatingAssumption DEF Tx, Review, ReviewRows
  <2>2. txs' = [txs EXCEPT ![r] = new] /\ r \in Owners /\ UNCHANGED <<today, reviews, rating, lastNight>>
    BY <1>1 DEF Create, Owners
  <2> HIDE DEF new
  <2> QED BY <2>1, <2>2, <1>t, OneMoves
<1>2. ASSUME NEW r \in Reviews, Remove(r) PROVE RatingInv'
  <2> DEFINE new == Tx("written", [reviews[r] EXCEPT !.status = "removed"], today, NoRating)
  <2>1. new.row \in ReviewRows /\ new.step = "written" /\ new.now = today
        /\ new = Tx(new.step, new.row, new.now, new.result)
    BY <1>t, <1>2 DEF RatingInv, RatingTypeOK, Tx, ReviewRows
  <2>2. txs' = [txs EXCEPT ![r] = new] /\ r \in Owners /\ UNCHANGED <<today, reviews, rating, lastNight>>
    BY <1>2 DEF Remove, Owners
  <2> HIDE DEF new
  <2> QED BY <2>1, <2>2, <1>t, OneMoves
<1>3. ASSUME StartNight PROVE RatingInv'
  <2>1. CASE Ageing
    <3> DEFINE new == Tx("written", Unwritten, today, NoRating)
    <3>1. new.row \in ReviewRows /\ new.step = "written" /\ new.now = today
          /\ new = Tx(new.step, new.row, new.now, new.result)
      BY RatingAssumption DEF Tx, Unwritten, Review, ReviewRows, Days
    <3>2. txs' = [txs EXCEPT ![Job] = new] /\ Job \in Owners /\ UNCHANGED <<today, reviews, rating, lastNight>>
      BY <1>3, <2>1 DEF StartNight, Owners
    <3> HIDE DEF new
    <3> QED BY <3>1, <3>2, <1>t, OneMoves
  <2>2. CASE ~ Ageing
    <3>1. UNCHANGED <<today, reviews, rating, txs>> /\ lastNight' = today
      BY <1>3, <2>2 DEF StartNight
    <3>2. \A t : SeenBy(t)' = SeenBy(t)
      BY <3>1 DEF SeenBy
    <3> QED BY <3>1, <3>2, <1>t DEF RatingInv, RatingTypeOK, OneCounts, CountedStands, RatingOfVisible
  <2> QED BY <2>1, <2>2
<1>4. ASSUME NEW t \in Owners, Recompute(t) PROVE RatingInv'
  <2> DEFINE new == Tx("counted", txs[t].row, txs[t].now, RatingOf(SeenBy(t), txs[t].now))
  <2>1. txs[t] = Tx(txs[t].step, txs[t].row, txs[t].now, txs[t].result)
        /\ txs[t].row \in ReviewRows /\ txs[t].now \in 0..today /\ DOMAIN txs = Owners
    BY DEF RatingInv, RatingTypeOK, Owners
  <2>2. txs' = [txs EXCEPT ![t] = new] /\ UNCHANGED <<today, reviews, rating, lastNight>>
    BY <1>4 DEF Recompute
  <2>4. new.row = txs[t].row /\ new.now = txs[t].now /\ new.step = "counted"
        /\ new.result = RatingOf(SeenBy(t), txs[t].now)
        /\ new = Tx(new.step, new.row, new.now, new.result)
    BY DEF Tx
  <2>5. SeenBy(t)' = SeenBy(t)
    BY <2>1, <2>2, <2>4 DEF SeenBy
  <2>6. \A u \in Owners : txs[u].step # "counted"
    BY <1>4, <2>1 DEF Recompute, Unlocked
  <2> HIDE DEF new
  <2>7. /\ lastNight' \in 0..today /\ new.row \in ReviewRows /\ new.now \in 0..today
        /\ new.result = RatingOf(SeenBy(t)', new.now)
    BY <2>1, <2>2, <2>4, <2>5, <1>t
  <2> QED BY <2>2, <2>4, <2>6, <2>7, OneMoves
<1>5. ASSUME NEW t \in Owners, CommitTx(t) PROVE RatingInv'
  <2>1. /\ txs[t].step = "counted" /\ reviews' = SeenBy(t) /\ rating' = txs[t].result
        /\ txs' = [txs EXCEPT ![t] = NoTx] /\ today' = today
        /\ lastNight' = IF t = Job THEN txs[t].now ELSE lastNight
    BY <1>5 DEF CommitTx
  <2>2. /\ DOMAIN txs = Owners /\ txs'[t] = NoTx
        /\ \A u \in Owners \ {t} : txs'[u] = txs[u]
        /\ txs[t].row \in ReviewRows /\ txs[t].now \in 0..today
    BY <2>1 DEF RatingInv, RatingTypeOK, Owners
  <2>3. reviews' \in [Reviews -> ReviewRows]
    BY <2>1, <2>2 DEF RatingInv, RatingTypeOK, SeenBy
  <2>4. RatingTypeOK'
    BY <2>1, <2>2, <2>3, <1>t, NoTxTyped DEF RatingInv, RatingTypeOK, Owners
  <2>5. \A u \in Owners : txs'[u].step # "counted"
    BY <2>1, <2>2, NoTxTyped DEF RatingInv, OneCounts
  <2>6. RatingOfVisible'
    BY <2>1, <2>2 DEF RatingInv, CountedStands, RatingOfVisible
  <2> QED BY <2>4, <2>5, <2>6 DEF RatingInv, OneCounts, CountedStands
<1>6. ASSUME NEW t \in Owners, RollBack(t) PROVE RatingInv'
  BY <1>6, <1>t, NoTxTyped, OneMoves DEF RollBack
<1>7. ASSUME NextDay PROVE RatingInv'
  <2>1. today' = today + 1 /\ today < MaxDay /\ UNCHANGED <<reviews, rating, txs, lastNight>>
    BY <1>7 DEF NextDay
  <2>2. today' \in Days /\ 0..today \subseteq 0..today'
    BY <2>1, <1>t, RatingAssumption DEF Days
  <2>3. RatingTypeOK'
    BY <2>1, <2>2, <1>t DEF RatingInv, RatingTypeOK
  <2>4. \A t : SeenBy(t)' = SeenBy(t)
    BY <2>1 DEF SeenBy
  <2> QED BY <2>1, <2>2, <2>3, <2>4 DEF RatingInv, OneCounts, CountedStands, RatingOfVisible
<1>8. CASE UNCHANGED ratingVars
  <2>1. UNCHANGED <<today, reviews, rating, txs, lastNight>>
    BY <1>8 DEF ratingVars
  <2>2. \A t : SeenBy(t)' = SeenBy(t)
    BY <2>1 DEF SeenBy
  <2> QED BY <2>1, <2>2 DEF RatingInv, RatingTypeOK, OneCounts, CountedStands, RatingOfVisible
<1> QED BY <1>1, <1>2, <1>3, <1>4, <1>5, <1>6, <1>7, <1>8 DEF RatingNext, Owners

-----------------------------------------------------------------------------
(* rating-aggregate: for any number of reviews of one target, created,      *)
(* removed and recomputed at once, the rating is that of the visible ones.  *)
THEOREM RatingAlwaysOfVisible == RatingSpec => []RatingOfVisible
<1>1. RatingSpec => []RatingInv
  BY InitRated, StepRated, PTL DEF RatingSpec
<1>2. RatingInv => RatingOfVisible
  BY DEF RatingInv
<1> QED BY <1>1, <1>2, PTL

(* The types of the reviews and of the transactions that write them.        *)
THEOREM RatingTypeCorrect == RatingSpec => []RatingTypeOK
<1>1. RatingSpec => []RatingInv
  BY InitRated, StepRated, PTL DEF RatingSpec
<1>2. RatingInv => RatingTypeOK
  BY DEF RatingInv
<1> QED BY <1>1, <1>2, PTL
=============================================================================
