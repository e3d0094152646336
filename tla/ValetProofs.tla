----------------------------- MODULE ValetProofs -----------------------------
(***************************************************************************)
(* ValetDispatch for any number of valets, rounds, calls and searches:     *)
(* types, that everybody who was offered a taken job has an answer, that a *)
(* waiting driver is watched, that it implements ValetLifecycle, and that  *)
(* the ledger charges and pays what the job came to.                       *)
(***************************************************************************)
EXTENDS ValetDispatch, MoneyProofs

(* Every event has one status it leads to. *)
Target ==
  [offer |-> "offered", accept |-> "accepted", depart |-> "en_route", arrive |-> "arrived",
   start_parking |-> "parking", confirm_parked |-> "parked", request_return |-> "return_requested",
   depart_return |-> "returning", complete |-> "completed", cancel |-> "cancelled", no_show |-> "no_show"]

LEMMA TableTargets ==
  \A t \in Lifecycle!Transitions : t.event \in Lifecycle!Events /\ t.to = Target[t.event]
BY DEF Lifecycle!Transitions, Lifecycle!Events, Target

LEMMA FiredStatus ==
  ASSUME NEW from, NEW event, CanFire(from, event)
  PROVE  event \in Lifecycle!Events /\ NextValetStatus(from, event) = Target[event]
<1>1. PICK t \in Lifecycle!Transitions : t.from = from /\ t.event = event
  BY DEF CanFire, Lifecycle!CanFire
<1> DEFINE u == CHOOSE u \in Lifecycle!Transitions : u.from = from /\ u.event = event
<1>2. u \in Lifecycle!Transitions /\ u.from = from /\ u.event = event
  BY <1>1
<1>3. NextValetStatus(from, event) = u.to
  BY DEF NextValetStatus, Lifecycle!NextValetStatus
<1> HIDE DEF u
<1> QED BY <1>2, <1>3, TableTargets

LEMMA TargetIsStatus ==
  \A event \in Lifecycle!Events :
    /\ Target[event] \in Lifecycle!Statuses
    /\ Target[event] \notin { "none", "requested" }
    /\ event # "offer" => Target[event] # "offered"
BY DEF Lifecycle!Events, Lifecycle!Statuses, Target

(* What the ledger is moved by has the type of a posting. *)
LEMMA LegsArePostings ==
  /\ \A km \in Nat : ServiceEntries(LegFee(km)) \in PostingRecords
  /\ \A charged, kept \in Nat : ChargeAdjustment(LegFee(charged), LegFee(kept)) \in PostingRecords
<1>1. \A km \in Nat : LegFee(km) \in Fees
  BY DEF Fees
<1>2. \A fee \in Fees : ServiceEntries(fee) \in PostingRecords
  BY FeeFacts DEF ServiceEntries, Posting, PostingRecords
<1>3. \A f, g \in Fees : ChargeAdjustment(f, g) \in PostingRecords
  BY FeeFacts DEF ChargeAdjustment, Posting, PostingRecords
<1> QED BY <1>1, <1>2, <1>3

LEMMA PlusType ==
  ASSUME NEW p \in PostingRecords, NEW o \in PostingRecords
  PROVE  Plus(p, o) \in PostingRecords
BY DEF Plus, Posting, PostingRecords

LEMMA NoPostingType == NoPosting \in PostingRecords
BY DEF NoPosting, Posting, PostingRecords

LEMMA DistanceTypes ==
  ASSUME NEW d \in Nat
  PROVE  /\ Rounded(d, 10) \in Nat
         /\ ChargeableKm(d) \in Nat
         /\ ServiceEntries(LegFee(ChargeableKm(d))) \in PostingRecords
<1>1. Rounded(d, 10) \in Nat
  BY DEF Rounded
<1>2. ChargeableKm(d) \in Nat
  BY DEF ChargeableKm, CeilDiv, MetresPerKm
<1> QED BY <1>1, <1>2, LegsArePostings

LEMMA CalloutType == metres \in Nat \cup {NoLeg} => CalloutAdjustment \in PostingRecords
<1> SUFFICES ASSUME metres \in Nat \cup {NoLeg}
             PROVE  CalloutAdjustment \in PostingRecords
  OBVIOUS
<1> DEFINE km == CeilDiv(metres, MetresPerKm)
<1>1. km \in Nat
  BY DEF CeilDiv, MetresPerKm, NoLeg
<1>2. ChargeAdjustment(LegFee(km), NoShowFee) \in PostingRecords
  BY <1>1, LegsArePostings DEF NoShowFee
<1> HIDE DEF km
<1> QED BY <1>2, NoPostingType DEF CalloutAdjustment, km

-----------------------------------------------------------------------------
(* A call in flight can still do what it came for: the valet of an accept   *)
(* was offered the job, any other event leads somewhere from what was read. *)
CallsCanFire ==
  \A c \in calls :
    IF c.event = "accept" THEN c.by \in Valets /\ offers[c.by] # "none"
                          ELSE CanFire(c.seen, c.event)

(* A job that was taken is never on offer again. *)
TakenIsOffTheMarket ==
  assignee # Nobody => status \notin { "none", "requested", "offered" }

OpenOffersWait ==
  assignee = Nobody => \A v \in Valets : offers[v] \in { "none", "pending" }

(* A search in flight is of a round that has begun, and while that round is *)
(* open the job is as the search read it.                                   *)
SearchesBehind ==
  /\ status = "none" => round = 0 /\ searches = {}
  /\ \A s \in searches : s.round =< round /\ (Waiting /\ s.round = round => s.seen = status)

IInv ==
  /\ TypeOK
  /\ CallsCanFire
  /\ TakenIsOffTheMarket
  /\ OpenOffersWait
  /\ TakenIsSettled
  /\ SearchesBehind
  /\ WaitingIsWatched

LEMMA ValetInit == Init => IInv
<1> SUFFICES ASSUME Init PROVE IInv
  OBVIOUS
<1> USE ValetAssumption DEF Init
<1>1. TypeOK
  <2>1. status \in Lifecycle!Statuses /\ round \in Rounds /\ offers \in [Valets -> Outcomes]
    BY DEF Lifecycle!Statuses, Rounds, Outcomes
  <2>2. metres \in {NoLeg} /\ backMetres \in {NoLeg} /\ ledger \in PostingRecords
    BY NoPostingType
  <2>3. watch \in BOOLEAN /\ lapsed \in BOOLEAN
    OBVIOUS
  <2>4. timeouts \subseteq Rounds /\ calls \subseteq CallRecords /\ searches \subseteq SearchRecords
    OBVIOUS
  <2> QED BY <2>1, <2>2, <2>3, <2>4 DEF TypeOK
<1>2. CallsCanFire /\ TakenIsOffTheMarket /\ OpenOffersWait /\ TakenIsSettled
  BY DEF CallsCanFire, TakenIsOffTheMarket, OpenOffersWait, TakenIsSettled
<1>3. SearchesBehind /\ WaitingIsWatched
  BY DEF SearchesBehind, WaitingIsWatched, Waiting
<1> QED BY <1>1, <1>2, <1>3 DEF IInv

-----------------------------------------------------------------------------
LEMMA RequestStep == IInv /\ (\E found \in SUBSET Valets : RequestValet(found)) => IInv'
<1> SUFFICES ASSUME IInv, NEW found \in SUBSET Valets, RequestValet(found) PROVE IInv'
  OBVIOUS
<1> USE ValetAssumption DEF IInv, RequestValet, RecordOffers
<1>1. TypeOK'
  BY DEF TypeOK, Lifecycle!Statuses, Rounds, Outcomes
<1>2. assignee = Nobody
  BY DEF TakenIsOffTheMarket
<1>3. CallsCanFire'
  BY DEF CallsCanFire, TypeOK
<1>4. TakenIsOffTheMarket' /\ TakenIsSettled'
  BY <1>2 DEF TakenIsOffTheMarket, TakenIsSettled
<1>5. OpenOffersWait'
  BY DEF OpenOffersWait, TypeOK
<1>6. SearchesBehind' /\ WaitingIsWatched'
  BY DEF SearchesBehind, WaitingIsWatched, Waiting
<1> QED BY <1>1, <1>3, <1>4, <1>5, <1>6

LEMMA ReadStep ==
  ASSUME IInv,
         \/ \E event \in DriverEvents : ReadAsDriver(event)
         \/ Valet
  PROVE  IInv'
<1> USE ValetAssumption DEF IInv
<1>1. PICK c : /\ calls' = calls \cup {c}
               /\ c \in CallRecords
               /\ IF c.event = "accept" THEN c.by \in Valets /\ offers[c.by] # "none"
                                        ELSE CanFire(c.seen, c.event)
               /\ UNCHANGED <<row, offers, ledger, messages, searches>>
  <2>1. CASE \E event \in DriverEvents : ReadAsDriver(event)
    BY <2>1 DEF ReadAsDriver, Read, Call, CallRecords, DriverEvents, TypeOK
  <2>2. CASE \E v \in Valets : ReadAsOffered(v)
    BY <2>2 DEF ReadAsOffered, Call, CallRecords, Lifecycle!Statuses
  <2>3. CASE \E v \in Valets, event \in ValetEvents : ReadAsAssigned(v, event)
    BY <2>3 DEF ReadAsAssigned, Read, Call, CallRecords, ValetEvents, TypeOK
  <2> QED BY <2>1, <2>2, <2>3 DEF Valet
<1>2. TypeOK'
  BY <1>1 DEF TypeOK, row, messages
<1>3. CallsCanFire'
  BY <1>1 DEF CallsCanFire, row
<1>4. /\ TakenIsOffTheMarket' /\ OpenOffersWait' /\ TakenIsSettled' /\ SearchesBehind' /\ WaitingIsWatched'
  BY <1>1 DEF TakenIsOffTheMarket, OpenOffersWait, TakenIsSettled, SearchesBehind, WaitingIsWatched, Waiting, row, messages
<1> QED BY <1>2, <1>3, <1>4

LEMMA AbandonStep == ASSUME IInv, NEW c, Abandon(c) PROVE IInv'
<1> USE DEF IInv, Abandon
<1>1. TypeOK'
  BY DEF TypeOK, row, messages
<1>2. CallsCanFire' /\ TakenIsOffTheMarket' /\ OpenOffersWait'
  BY DEF CallsCanFire, TakenIsOffTheMarket, OpenOffersWait, row
<1>3. TakenIsSettled' /\ SearchesBehind' /\ WaitingIsWatched'
  BY DEF TakenIsSettled, SearchesBehind, WaitingIsWatched, Waiting, row, messages
<1> QED BY <1>1, <1>2, <1>3

LEMMA AcceptStep == ASSUME IInv, NEW c, NEW d \in Distances, Accept(c, d) PROVE IInv'
<1> USE ValetAssumption DEF IInv, Accept, Open
<1>1. c \in CallRecords /\ c.by \in Valets /\ offers[c.by] = "pending"
  BY DEF CallsCanFire, OpenOffersWait, TypeOK
<1>2. /\ offers' \in [Valets -> Outcomes] /\ offers'[c.by] = "won"
      /\ \A v \in Valets \ {c.by} : offers'[v] \in { "none", "lost" }
      /\ \A v \in Valets : offers[v] # "none" => offers'[v] # "none"
  BY <1>1 DEF ResolveOffers, TypeOK, Outcomes, OpenOffersWait
<1>3. d \in Nat
  OBVIOUS
<1>4. TypeOK'
  <2>1. ledger' \in PostingRecords
    BY <1>3, DistanceTypes, PlusType DEF TypeOK
  <2>2. metres' \in Nat
    BY <1>3, DistanceTypes
  <2> QED BY <1>1, <1>2, <2>1, <2>2 DEF TypeOK, Lifecycle!Statuses, messages
<1>5. CallsCanFire'
  BY <1>2 DEF CallsCanFire
<1>6. TakenIsOffTheMarket' /\ OpenOffersWait'
  BY <1>1 DEF TakenIsOffTheMarket, OpenOffersWait
<1>7. TakenIsSettled'
  BY <1>1, <1>2 DEF TakenIsSettled
<1>8. SearchesBehind' /\ WaitingIsWatched'
  BY DEF SearchesBehind, WaitingIsWatched, Waiting, messages
<1> QED BY <1>4, <1>5, <1>6, <1>7, <1>8

(* A pinned update fires an event of the table that nobody waits for. *)
LEMMA Applied ==
  ASSUME IInv, NEW c, ApplyEvent(c), c.event # "accept", c.event # "offer"
  PROVE  /\ c \in calls
         /\ status = c.seen
         /\ CanFire(status, c.event)
         /\ status' = Target[c.event]
         /\ status' \in Lifecycle!Statuses
         /\ status' \notin { "none", "requested", "offered" }
<1>1. c \in calls /\ status = c.seen /\ CanFire(c.seen, c.event) /\ status' = NextValetStatus(c.seen, c.event)
  BY DEF IInv, CallsCanFire, ApplyEvent, Pinned
<1> QED BY <1>1, FiredStatus, TargetIsStatus

(* What a pinned update that moves no offer and no timeout preserves, apart *)
(* from the types.                                                          *)
LEMMA AppliedStep ==
  ASSUME IInv, NEW c, ApplyEvent(c), c.event # "accept", c.event # "offer",
         UNCHANGED <<assignee, round, offers, timeouts, searches>>
  PROVE  /\ CallsCanFire' /\ TakenIsOffTheMarket' /\ OpenOffersWait'
         /\ TakenIsSettled' /\ SearchesBehind' /\ WaitingIsWatched'
<1>1. c \in calls /\ status' \notin { "none", "requested", "offered" } /\ calls' = calls \ {c}
  BY Applied DEF ApplyEvent
<1>2. CallsCanFire' /\ TakenIsOffTheMarket' /\ OpenOffersWait' /\ TakenIsSettled'
  BY <1>1 DEF IInv, CallsCanFire, TakenIsOffTheMarket, OpenOffersWait, TakenIsSettled
<1>3. SearchesBehind' /\ WaitingIsWatched'
  BY <1>1 DEF IInv, SearchesBehind, WaitingIsWatched, Waiting
<1> QED BY <1>2, <1>3

LEMMA AdvanceStep == ASSUME IInv, NEW c, Advance(c) PROVE IInv'
<1>1. ApplyEvent(c) /\ c.event # "accept" /\ c.event # "offer"
      /\ UNCHANGED <<assignee, round, metres, backMetres, offers, ledger, timeouts, lapsed, searches>>
  BY DEF Advance, ValetEvents
<1>2. watch' \in BOOLEAN
  BY Zenon DEF Advance
<1>3. TypeOK'
  BY <1>1, <1>2, Applied DEF IInv, TypeOK, ApplyEvent
<1> QED BY <1>1, <1>3, AppliedStep DEF IInv

LEMMA CancelStep == ASSUME IInv, NEW c, Cancel(c) PROVE IInv'
<1>1. ApplyEvent(c) /\ c.event # "accept" /\ c.event # "offer"
      /\ UNCHANGED <<assignee, round, metres, backMetres, offers, messages, searches>>
  BY DEF Cancel
<1>2. ledger' \in PostingRecords
  BY CalloutType, PlusType DEF Cancel, IInv, TypeOK
<1>3. TypeOK'
  BY <1>1, <1>2, Applied DEF IInv, TypeOK, ApplyEvent, messages
<1> QED BY <1>1, <1>3, AppliedStep DEF IInv, messages

LEMMA ReturnStep == ASSUME IInv, NEW c, NEW d \in Distances, RequestReturn(c, d) PROVE IInv'
<1> USE ValetAssumption
<1>1. ApplyEvent(c) /\ c.event # "accept" /\ c.event # "offer"
      /\ UNCHANGED <<assignee, round, metres, offers, messages, searches>>
  BY DEF RequestReturn
<1>2. d \in Nat
  OBVIOUS
<1>3. ledger' \in PostingRecords
  BY <1>2, DistanceTypes, PlusType DEF RequestReturn, IInv, TypeOK
<1>4. backMetres' \in Nat
  BY <1>2, DistanceTypes DEF RequestReturn
<1>5. TypeOK'
  BY <1>1, <1>3, <1>4, Applied DEF IInv, TypeOK, ApplyEvent, messages
<1> QED BY <1>1, <1>5, AppliedStep DEF IInv, messages

-----------------------------------------------------------------------------
(* The worker's searches. *)
LEMMA TimeoutReadStep == ASSUME IInv, NEW r, NEW found \in SUBSET Valets, TimeoutRead(r, found) PROVE IInv'
<1> USE DEF IInv, TimeoutRead
<1>1. Search(r, status, found) \in SearchRecords
  BY DEF Search, SearchRecords, TypeOK, Waiting
<1>2. TypeOK'
  BY <1>1 DEF TypeOK, row, messages
<1>3. CallsCanFire' /\ TakenIsOffTheMarket' /\ OpenOffersWait' /\ TakenIsSettled' /\ WaitingIsWatched'
  BY DEF CallsCanFire, TakenIsOffTheMarket, OpenOffersWait, TakenIsSettled, WaitingIsWatched, Waiting, row, messages
<1>4. SearchesBehind'
  BY DEF SearchesBehind, Search, Waiting, row, TypeOK, Rounds
<1> QED BY <1>2, <1>3, <1>4

LEMMA StaleStep == ASSUME IInv, NEW r, TimeoutStale(r) PROVE IInv'
<1> USE DEF IInv, TimeoutStale, DoneWith
<1>1. TypeOK'
  BY DEF TypeOK, row
<1>2. CallsCanFire' /\ TakenIsOffTheMarket' /\ OpenOffersWait' /\ TakenIsSettled'
  BY DEF CallsCanFire, TakenIsOffTheMarket, OpenOffersWait, TakenIsSettled, row
<1>3. SearchesBehind' /\ WaitingIsWatched'
  BY DEF SearchesBehind, WaitingIsWatched, Waiting, row
<1> QED BY <1>1, <1>2, <1>3

LEMMA WidenStep == ASSUME IInv, NEW s, Widen(s) PROVE IInv'
<1> USE ValetAssumption DEF IInv, Widen, PinnedSearch
<1>1. s \in SearchRecords /\ s.round = round /\ round \in Nat /\ round + 1 \in Rounds /\ status \in { "requested", "offered" }
  BY DEF TypeOK, SearchRecords, MoreRadii, Rounds
<1>2. assignee = Nobody
  BY <1>1 DEF TakenIsOffTheMarket
<1>3. /\ offers' \in [Valets -> Outcomes]
      /\ \A v \in Valets : offers'[v] \in { "none", "pending" }
      /\ \A v \in Valets : offers[v] # "none" => offers'[v] # "none"
  BY <1>1, <1>2 DEF RecordOffers, TypeOK, OpenOffersWait, Outcomes
<1>4. TypeOK'
  BY <1>1, <1>3 DEF TypeOK, Rearm, Lifecycle!Statuses
<1>5. CallsCanFire'
  BY <1>3 DEF CallsCanFire
<1>6. TakenIsOffTheMarket' /\ OpenOffersWait' /\ TakenIsSettled'
  BY <1>2, <1>3 DEF TakenIsOffTheMarket, OpenOffersWait, TakenIsSettled
<1>7. SearchesBehind'
  BY <1>1 DEF SearchesBehind, TypeOK, SearchRecords, Rounds
<1>8. WaitingIsWatched'
  BY <1>1 DEF WaitingIsWatched, Rearm
<1> QED BY <1>4, <1>5, <1>6, <1>7, <1>8

LEMMA GiveUpStep == ASSUME IInv, NEW s, GiveUp(s) PROVE IInv'
<1> USE DEF IInv, GiveUp, DoneWith
<1>1. TypeOK'
  BY DEF TypeOK, Lifecycle!Statuses
<1>2. CallsCanFire' /\ TakenIsOffTheMarket' /\ OpenOffersWait' /\ TakenIsSettled'
  BY DEF CallsCanFire, TakenIsOffTheMarket, OpenOffersWait, TakenIsSettled
<1>3. SearchesBehind' /\ WaitingIsWatched'
  BY DEF SearchesBehind, WaitingIsWatched, Waiting
<1> QED BY <1>1, <1>2, <1>3

LEMMA MovedOnStep == ASSUME IInv, NEW s, MovedOn(s) PROVE IInv'
<1> USE DEF IInv, MovedOn, DoneWith, PinnedSearch
<1>1. TypeOK'
  BY DEF TypeOK, row
<1>2. CallsCanFire' /\ TakenIsOffTheMarket' /\ OpenOffersWait' /\ TakenIsSettled'
  BY DEF CallsCanFire, TakenIsOffTheMarket, OpenOffersWait, TakenIsSettled, row
<1>3. SearchesBehind'
  BY DEF SearchesBehind, Waiting, row
<1>4. WaitingIsWatched'
  BY DEF SearchesBehind, WaitingIsWatched, Waiting, row
<1> QED BY <1>1, <1>2, <1>3, <1>4

LEMMA DiesStep == ASSUME IInv, NEW s, SearchDies(s) PROVE IInv'
<1> USE DEF IInv, SearchDies
<1>1. TypeOK'
  BY DEF TypeOK, row, messages
<1>2. CallsCanFire' /\ TakenIsOffTheMarket' /\ OpenOffersWait' /\ TakenIsSettled'
  BY DEF CallsCanFire, TakenIsOffTheMarket, OpenOffersWait, TakenIsSettled, row
<1>3. SearchesBehind' /\ WaitingIsWatched'
  BY DEF SearchesBehind, WaitingIsWatched, Waiting, row, messages
<1> QED BY <1>1, <1>2, <1>3

LEMMA LapseStep == ASSUME IInv, GraceLapses PROVE IInv'
<1> USE DEF IInv, GraceLapses
<1>1. TypeOK'
  BY DEF TypeOK, row
<1>2. CallsCanFire' /\ TakenIsOffTheMarket' /\ OpenOffersWait' /\ TakenIsSettled'
  BY DEF CallsCanFire, TakenIsOffTheMarket, OpenOffersWait, TakenIsSettled, row
<1>3. SearchesBehind' /\ WaitingIsWatched'
  BY DEF SearchesBehind, WaitingIsWatched, Waiting, row
<1> QED BY <1>1, <1>2, <1>3

LEMMA NoShowStep == ASSUME IInv, NoShow PROVE IInv'
<1> USE DEF IInv, NoShow
<1>1. status' = status \/ status' = "no_show"
  OBVIOUS
<1>2. ledger' \in PostingRecords
  BY CalloutType, PlusType DEF TypeOK
<1>3. watch' \in BOOLEAN
  OBVIOUS
<1>4. TypeOK'
  BY <1>1, <1>2, <1>3 DEF TypeOK, Lifecycle!Statuses
<1>5. CallsCanFire' /\ TakenIsOffTheMarket' /\ OpenOffersWait' /\ TakenIsSettled'
  BY <1>1 DEF CallsCanFire, TakenIsOffTheMarket, OpenOffersWait, TakenIsSettled
<1>6. SearchesBehind' /\ WaitingIsWatched'
  BY <1>1 DEF SearchesBehind, WaitingIsWatched, Waiting
<1> QED BY <1>4, <1>5, <1>6

LEMMA StutterStep == ASSUME IInv, UNCHANGED vars PROVE IInv'
<1> USE DEF IInv, vars, row, messages
<1>1. TypeOK'
  BY DEF TypeOK
<1>2. CallsCanFire' /\ TakenIsOffTheMarket' /\ OpenOffersWait' /\ TakenIsSettled'
  BY DEF CallsCanFire, TakenIsOffTheMarket, OpenOffersWait, TakenIsSettled
<1>3. SearchesBehind' /\ WaitingIsWatched'
  BY DEF SearchesBehind, WaitingIsWatched, Waiting
<1> QED BY <1>1, <1>2, <1>3

LEMMA ValetStep == IInv /\ [Next]_vars => IInv'
<1> SUFFICES ASSUME IInv, [Next]_vars PROVE IInv'
  OBVIOUS
<1>1. CASE Driver
  BY <1>1, RequestStep, ReadStep DEF Driver
<1>2. CASE Valet
  BY <1>2, ReadStep
<1>3. CASE Commands
  BY <1>3, AbandonStep, AdvanceStep, CancelStep, AcceptStep, ReturnStep DEF Commands
<1>4. CASE Worker
  BY <1>4, TimeoutReadStep, StaleStep, WidenStep, GiveUpStep, MovedOnStep, DiesStep, NoShowStep
     DEF Worker, TimeoutStarts, TimeoutEnds
<1>5. CASE GraceLapses
  BY <1>5, LapseStep
<1>6. CASE UNCHANGED vars
  BY <1>6, StutterStep
<1> QED BY <1>1, <1>2, <1>3, <1>4, <1>5, <1>6 DEF Next

-----------------------------------------------------------------------------
(* A write that follows an event of the table is a step of ValetLifecycle,  *)
(* and so is one that leaves the status and the assignee alone.             *)
LEMMA FollowsTable ==
  ASSUME NEW event, CanFire(status, event), status' = Target[event],
         IF event = "accept" THEN assignee' \in Valets ELSE UNCHANGED assignee
  PROVE  Lifecycle!Next
<1>1. event \in Lifecycle!Events /\ status' = NextValetStatus(status, event)
  BY FiredStatus
<1>2. Lifecycle!Fire(event)
  BY <1>1 DEF Lifecycle!Fire, CanFire, NextValetStatus
<1> QED BY <1>1, <1>2 DEF Lifecycle!Next

LEMMA WorkerEvents ==
  /\ \A s \in { "requested", "offered" } : CanFire(s, "offer") /\ CanFire(s, "cancel")
  /\ CanFire("offered", "accept") /\ CanFire("arrived", "no_show")
<1>1. /\ [from |-> "requested", event |-> "offer", to |-> "offered"] \in Lifecycle!Transitions
      /\ [from |-> "offered", event |-> "offer", to |-> "offered"] \in Lifecycle!Transitions
      /\ [from |-> "offered", event |-> "accept", to |-> "accepted"] \in Lifecycle!Transitions
      /\ [from |-> "arrived", event |-> "no_show", to |-> "no_show"] \in Lifecycle!Transitions
      /\ \A s \in { "requested", "offered" } :
           [from |-> s, event |-> "cancel", to |-> "cancelled"] \in Lifecycle!Transitions
  BY DEF Lifecycle!Transitions
<1> HIDE DEF Lifecycle!Transitions
<1> QED BY <1>1 DEF CanFire, Lifecycle!CanFire

LEMMA CommandFollows ==
  ASSUME IInv, NEW c, ApplyEvent(c), c.event # "accept", c.event # "offer", UNCHANGED assignee
  PROVE  Lifecycle!Next
BY Applied, FollowsTable

LEMMA LifecycleStep == IInv /\ [Next]_vars => [Lifecycle!Next]_<<status, assignee>>
<1> SUFFICES ASSUME IInv, [Next]_vars, ~ UNCHANGED <<status, assignee>>
             PROVE  Lifecycle!Next
  OBVIOUS
<1>1. CASE Driver
  <2>1. PICK found \in SUBSET Valets : RequestValet(found)
    BY <1>1 DEF Driver, ReadAsDriver, Read, row
  <2> QED BY <2>1 DEF RequestValet, Lifecycle!Next, Lifecycle!Open
<1>2. CASE Valet
  BY <1>2 DEF Valet, ReadAsOffered, ReadAsAssigned, Read, row
<1>3. CASE Commands
  <2>1. PICK c \in calls : \/ Advance(c) \/ Cancel(c)
                           \/ \E d \in Distances : Accept(c, d) \/ RequestReturn(c, d)
    BY <1>3 DEF Commands, Abandon, row
  <2>2. CASE Advance(c)
    BY <2>2, CommandFollows DEF Advance, ValetEvents
  <2>3. CASE Cancel(c)
    BY <2>3, CommandFollows DEF Cancel
  <2>4. CASE \E d \in Distances : RequestReturn(c, d)
    BY <2>4, CommandFollows DEF RequestReturn
  <2>5. CASE \E d \in Distances : Accept(c, d)
    <3>1. status = "offered" /\ status' = Target["accept"] /\ assignee' \in Valets
      BY <2>5 DEF Accept, Open, Target, IInv, CallsCanFire
    <3> QED BY <3>1, FollowsTable, WorkerEvents
  <2> QED BY <2>1, <2>2, <2>3, <2>4, <2>5
<1>4. CASE Worker
  <2>1. CASE \E s \in searches : Widen(s)
    <3>1. status \in { "requested", "offered" } /\ status' = Target["offer"] /\ UNCHANGED assignee
      BY <2>1 DEF Widen, PinnedSearch, Target, IInv, TypeOK, SearchRecords
    <3> QED BY <3>1, FollowsTable, WorkerEvents
  <2>2. CASE \E s \in searches : GiveUp(s)
    <3>1. status \in { "requested", "offered" } /\ status' = Target["cancel"] /\ UNCHANGED assignee
      BY <2>2 DEF GiveUp, PinnedSearch, Target, IInv, TypeOK, SearchRecords
    <3> QED BY <3>1, FollowsTable, WorkerEvents
  <2>3. CASE NoShow
    <3>1. status = "arrived" /\ status' = Target["no_show"] /\ UNCHANGED assignee
      BY <2>3 DEF NoShow, AbsentTooLong, Target
    <3> QED BY <3>1, FollowsTable, WorkerEvents
  <2>4. CASE \/ TimeoutStarts \/ \E s \in searches : MovedOn(s) \/ SearchDies(s)
             \/ \E r \in timeouts : TimeoutStale(r)
    BY <2>4 DEF TimeoutStarts, TimeoutRead, MovedOn, SearchDies, TimeoutStale, row
  <2> QED BY <1>4, <2>1, <2>2, <2>3, <2>4 DEF Worker, TimeoutEnds
<1>5. CASE GraceLapses
  BY <1>5 DEF GraceLapses, row
<1>6. CASE UNCHANGED vars
  BY <1>6 DEF vars, row
<1> QED BY <1>1, <1>2, <1>3, <1>4, <1>5, <1>6 DEF Next

-----------------------------------------------------------------------------
(* The job, its offers, its postings and its messages keep their types      *)
(* through every interleaving of commands, searches and checks.             *)
THEOREM ValetTypeCorrect == Spec => []TypeOK
<1>1. IInv => TypeOK
  BY DEF IInv
<1> QED BY ValetInit, ValetStep, <1>1, PTL DEF Spec

(* Whoever raced for the job, and however late a search came back: once it  *)
(* is taken, one valet has won and no other still waits for an answer.      *)
THEOREM TakenSettled == Spec => []TakenIsSettled
<1>1. IInv => TakenIsSettled
  BY DEF IInv
<1> QED BY ValetInit, ValetStep, <1>1, PTL DEF Spec

(* While a driver waits, the timeout of the open round is still to come:    *)
(* stale, duplicated and dying deliveries never use it up.                  *)
THEOREM WaitingWatched == Spec => []WaitingIsWatched
<1>1. IInv => WaitingIsWatched
  BY DEF IInv
<1> QED BY ValetInit, ValetStep, <1>1, PTL DEF Spec

(* Reading first and writing later, on what was read, the commands and the  *)
(* worker together still follow the published table, and a taken job keeps  *)
(* its valet.                                                               *)
THEOREM ImplementsLifecycle == Spec => LifecycleSpec
<1>1. Init => Lifecycle!Init
  BY DEF Init, Lifecycle!Init
<1> QED BY <1>1, ValetInit, ValetStep, LifecycleStep, PTL DEF Spec, LifecycleSpec, Lifecycle!Spec

-----------------------------------------------------------------------------
(* The fees are linear in the kilometres: no rate leaves a rounding behind. *)
TotalFor(km) == 5180 + 1036 * km
EarningsFor(km) == 4000 + 800 * km

LEMMA LegAmounts ==
  ASSUME NEW km \in Nat
  PROVE  LegFee(km).total = TotalFor(km) /\ LegFee(km).earnings = EarningsFor(km)
<1> DEFINE fee == 5000 + km * 1000
<1>1. MulRate(fee, 2000) = 1000 + 200 * km
  BY DEF MulRate, BasisPoints
<1>2. MulRate(1000 + 200 * km, 1800) = 180 + 36 * km
  BY DEF MulRate, BasisPoints
<1> QED BY <1>1, <1>2
    DEF LegFee, ValetBaseFee, ValetPerKm, ServiceCommissionRate, GstRate, TotalFor, EarningsFor

LEMMA FlatAmounts ==
  /\ NoShowFee.total = 5180 /\ NoShowFee.earnings = 4000
  /\ Kilometre.total = 1036 /\ Kilometre.earnings = 800
<1>1. /\ LegFee(0).total = TotalFor(0) /\ LegFee(0).earnings = EarningsFor(0)
      /\ LegFee(1).total = TotalFor(1) /\ LegFee(1).earnings = EarningsFor(1)
  BY LegAmounts
<1>2. TotalFor(0) = 5180 /\ TotalFor(1) = 6216 /\ EarningsFor(0) = 4000 /\ EarningsFor(1) = 4800
  BY DEF TotalFor, EarningsFor
<1> QED BY <1>1, <1>2 DEF NoShowFee, Kilometre

(* Whole metres lose at most half a metre, so at most one started kilometre. *)
LEMMA StoredKm ==
  ASSUME NEW d \in Nat
  PROVE  LET km == CeilDiv(Rounded(d, 10), MetresPerKm)
         IN  km \in Nat /\ \E k \in 0..1 : ChargeableKm(d) = km + k
<1>1. Rounded(d, 10) = (2 * d + 10) \div 20
  BY DEF Rounded
<1>2. ChargeableKm(d) = (d + 9999) \div 10000
  BY DEF ChargeableKm, CeilDiv, MetresPerKm
<1> DEFINE m == (2 * d + 10) \div 20
<1>3. m \in Nat /\ 20 * m =< 2 * d + 10 /\ 2 * d + 10 < 20 * m + 20
  OBVIOUS
<1> HIDE DEF m
<1> DEFINE km == (m + 999) \div 1000
           exact == (d + 9999) \div 10000
<1>4. km \in Nat /\ 1000 * km =< m + 999 /\ m + 999 < 1000 * km + 1000
  BY <1>3
<1>5. exact \in Nat /\ 10000 * exact =< d + 9999 /\ d + 9999 < 10000 * exact + 10000
  OBVIOUS
<1>6. CeilDiv(m, MetresPerKm) = km
  BY DEF CeilDiv, MetresPerKm
<1> HIDE DEF km, exact
<1>7. exact = km \/ exact = km + 1
  BY <1>3, <1>4, <1>5
<1>8. \E k \in 0..1 : exact = km + k
  BY <1>4, <1>5, <1>7
<1> QED BY <1>1, <1>2, <1>4, <1>6, <1>8 DEF m, exact

(* The table as the postings see it: only a visit that has not begun is     *)
(* cancelled, and only a parked car is asked back.                          *)
LEMMA TableForBilling ==
  ASSUME NEW s, NEW event, CanFire(s, event)
  PROVE  /\ event = "cancel" => s \in { "requested", "offered", "accepted", "en_route", "arrived" }
         /\ event = "request_return" => s = "parked"
         /\ event \in ValetEvents =>
              /\ s \notin { "none", "requested", "offered", "cancelled", "no_show", "completed" }
              /\ Target[event] \notin { "cancelled", "no_show", "return_requested" }
              /\ Target[event] \in { "en_route", "arrived", "parking", "parked" } =>
                   s \notin { "return_requested", "returning", "completed" }
<1>1. PICK t \in Lifecycle!Transitions : t.from = s /\ t.event = event
  BY DEF CanFire, Lifecycle!CanFire
<1>2. /\ t.event = "cancel" => t.from \in { "requested", "offered", "accepted", "en_route", "arrived" }
      /\ t.event = "request_return" => t.from = "parked"
      /\ t.event \in ValetEvents =>
           /\ t.from \notin { "none", "requested", "offered", "cancelled", "no_show", "completed" }
           /\ Target[t.event] \notin { "cancelled", "no_show", "return_requested" }
           /\ Target[t.event] \in { "en_route", "arrived", "parking", "parked" } =>
                t.from \notin { "return_requested", "returning", "completed" }
  BY DEF Lifecycle!Transitions, ValetEvents, Target
<1> QED BY <1>1, <1>2

(* What the ledger says is what the rows come to, plus k kilometres: one at *)
(* most for each leg that was driven.                                       *)
Charged(k) ==
  /\ ledger.receivable + ledger.refunds = Expected.total + k * 1036
  /\ -ledger.payable = Expected.earnings + k * 800

Returning == status \in { "return_requested", "returning", "completed" }

ChargesInv ==
  /\ Balances(ledger)
  /\ assignee = Nobody =>
       ledger = NoPosting /\ status \in { "none", "requested", "offered", "cancelled" }
  /\ ~ Returning => backMetres = NoLeg
  /\ assignee # Nobody =>
       /\ metres \in Nat
       /\ \E k \in 0..(IF backMetres = NoLeg THEN 1 ELSE 2) : Charged(k)

LEMMA ChargesInit == Init => ChargesInv
BY DEF Init, ChargesInv, NoPosting, Posting, Balances, Returning

LEMMA SameCharges ==
  ASSUME ChargesInv, UNCHANGED <<assignee, metres, backMetres, ledger>>,
         UNCHANGED status \/ (assignee = Nobody /\ status' \in { "requested", "offered", "cancelled" }
                                /\ status \in { "none", "requested", "offered" })
  PROVE  ChargesInv'
<1>1. CASE UNCHANGED status
  BY <1>1 DEF ChargesInv, Returning, Charged, Expected
<1>2. CASE ~ UNCHANGED status
  BY <1>2 DEF ChargesInv, Returning
<1> QED BY <1>1, <1>2

LEMMA AcceptCharges ==
  ASSUME IInv, ChargesInv, NEW c, NEW d \in Distances, Accept(c, d)
  PROVE  ChargesInv'
<1> DEFINE leg == ServiceEntries(LegFee(ChargeableKm(d)))
<1>1. /\ d \in Nat /\ c.by \in Valets /\ Nobody \notin Valets
      /\ ledger = NoPosting /\ backMetres = NoLeg /\ ledger \in PostingRecords
  BY ValetAssumption DEF Accept, Open, IInv, CallsCanFire, ChargesInv, Returning, TypeOK
<1>2. leg \in PostingRecords /\ ChargeableKm(d) \in Nat /\ Rounded(d, 10) \in Nat
  BY <1>1, DistanceTypes
<1>3. LegFee(ChargeableKm(d)) \in Fees
  BY <1>2 DEF Fees
<1>4. Balances(leg)
  BY <1>3, ServicePostingBalances
<1>5. ledger' = Plus(ledger, leg) /\ assignee' = c.by /\ metres' = Rounded(d, 10)
      /\ backMetres' = NoLeg /\ status' = "accepted"
  BY <1>1 DEF Accept
<1>6. Balances(ledger')
  BY <1>1, <1>2, <1>4, <1>5, PlusBalances DEF ChargesInv
<1>7. PICK k \in 0..1 : /\ CeilDiv(metres', MetresPerKm) \in Nat
                        /\ ChargeableKm(d) = CeilDiv(metres', MetresPerKm) + k
  BY <1>1, <1>5, StoredKm
<1> DEFINE km == CeilDiv(metres', MetresPerKm)
<1>8. /\ LegFee(km).total = TotalFor(km) /\ LegFee(km).earnings = EarningsFor(km)
      /\ LegFee(km + k).total = TotalFor(km + k) /\ LegFee(km + k).earnings = EarningsFor(km + k)
  BY <1>7, LegAmounts
<1>9. /\ ledger'.receivable + ledger'.refunds = LegFee(km + k).total
      /\ ledger'.payable = -LegFee(km + k).earnings
  BY <1>1, <1>3, <1>5, <1>7, FeeFacts DEF Plus, Posting, NoPosting, ServiceEntries
<1>10. Expected' = LegFee(km)
  BY <1>1, <1>5 DEF Expected, Stored
<1> HIDE DEF km
<1>11. Charged(k)'
  BY <1>7, <1>8, <1>9, <1>10 DEF Charged, km, TotalFor, EarningsFor
<1> QED BY <1>1, <1>2, <1>5, <1>6, <1>11 DEF ChargesInv, Returning

(* Cancelling, or not coming, leaves the call-out fee and the kilometre     *)
(* that storing the distance may have lost.                                 *)
LEMMA CalloutCharges ==
  ASSUME IInv, ChargesInv, assignee # Nobody, backMetres = NoLeg,
         status \notin { "cancelled", "no_show" },
         status' \in { "cancelled", "no_show" },
         ledger' = Plus(ledger, CalloutAdjustment), UNCHANGED <<assignee, metres, backMetres>>
  PROVE  ChargesInv'
<1> DEFINE km == CeilDiv(metres, MetresPerKm)
           charged == LegFee(km)
<1>1. metres \in Nat /\ ledger \in PostingRecords
  BY DEF ChargesInv, IInv, TypeOK
<1>2. km \in Nat
  BY <1>1 DEF CeilDiv, MetresPerKm
<1>3. CalloutAdjustment = IF charged.total = NoShowFee.total THEN NoPosting
                                                            ELSE ChargeAdjustment(charged, NoShowFee)
  BY DEF CalloutAdjustment
<1>4. Expected = charged /\ Expected' = NoShowFee
  BY DEF Expected, Stored
<1>5. PICK k \in 0..1 : Charged(k)
  BY DEF ChargesInv
<1> HIDE DEF km
<1>6. charged.total = TotalFor(km) /\ charged.earnings = EarningsFor(km)
  BY <1>2, LegAmounts
<1>7. charged \in Fees /\ NoShowFee \in Fees
  BY <1>2 DEF Fees, NoShowFee
<1> HIDE DEF charged
<1>8. /\ CalloutAdjustment \in PostingRecords /\ Balances(CalloutAdjustment)
      /\ CalloutAdjustment.receivable + CalloutAdjustment.refunds = NoShowFee.total - charged.total
      /\ CalloutAdjustment.payable = charged.earnings - NoShowFee.earnings
  <2>1. CASE charged.total = NoShowFee.total
    <3>1. charged.earnings = NoShowFee.earnings
      BY <1>2, <1>6, <2>1, FlatAmounts DEF TotalFor, EarningsFor
    <3>2. CalloutAdjustment = NoPosting
      BY <1>3, <2>1
    <3> QED BY <1>7, <2>1, <3>1, <3>2, FeeFacts, NoPostingType DEF NoPosting, Posting, Balances
  <2>2. CASE charged.total # NoShowFee.total
    <3>1. CalloutAdjustment = ChargeAdjustment(charged, NoShowFee)
      BY <1>3, <2>2
    <3>2. Balances(ChargeAdjustment(charged, NoShowFee))
      BY <1>7, ServicePostingBalances
    <3> HIDE <1>3
    <3> QED BY <1>7, <3>1, <3>2, FeeFacts DEF ChargeAdjustment, Posting, PostingRecords
  <2> QED BY <2>1, <2>2
<1>9. /\ ledger'.receivable + ledger'.refunds
           = (ledger.receivable + ledger.refunds) + (NoShowFee.total - charged.total)
      /\ ledger'.payable = ledger.payable + (charged.earnings - NoShowFee.earnings)
  BY <1>1, <1>7, <1>8, FeeFacts DEF Plus, Posting, PostingRecords
<1>10. Balances(ledger')
  BY <1>1, <1>8, PlusBalances DEF ChargesInv
<1>11. Charged(k)'
  BY <1>1, <1>4, <1>5, <1>7, <1>9, FeeFacts DEF Charged, PostingRecords
<1> QED BY <1>1, <1>10, <1>11 DEF ChargesInv, Returning

LEMMA CancelCharges ==
  ASSUME IInv, ChargesInv, NEW c, Cancel(c)
  PROVE  ChargesInv'
<1>1. /\ ApplyEvent(c) /\ c.event = "cancel" /\ CanFire(status, "cancel")
      /\ status' = "cancelled" /\ UNCHANGED <<assignee, metres, backMetres>>
  BY Applied DEF Cancel, Target
<1>2. status \in { "requested", "offered", "accepted", "en_route", "arrived" }
  BY <1>1, TableForBilling
<1>3. CASE assignee = Nobody
  <2>1. status \in { "requested", "offered" } /\ UNCHANGED ledger
    BY <1>2, <1>3 DEF ChargesInv, Cancel
  <2> QED BY <1>1, <1>3, <2>1, SameCharges
<1>4. CASE assignee # Nobody
  <2>1. backMetres = NoLeg /\ ledger' = Plus(ledger, CalloutAdjustment)
    BY <1>2, <1>4 DEF ChargesInv, Returning, Cancel
  <2> QED BY <1>1, <1>2, <1>4, <2>1, CalloutCharges
<1> QED BY <1>3, <1>4

LEMMA NoShowCharges ==
  ASSUME IInv, ChargesInv, NoShow
  PROVE  ChargesInv'
<1>1. CASE ~ AbsentTooLong
  BY <1>1, SameCharges DEF NoShow
<1>2. CASE AbsentTooLong
  <2>1. /\ status = "arrived" /\ status' = "no_show" /\ ledger' = Plus(ledger, CalloutAdjustment)
        /\ UNCHANGED <<assignee, metres, backMetres>>
    BY <1>2 DEF NoShow, AbsentTooLong
  <2>2. assignee # Nobody /\ backMetres = NoLeg
    BY <2>1 DEF ChargesInv, Returning
  <2> QED BY <2>1, <2>2, CalloutCharges
<1> QED BY <1>1, <1>2

LEMMA AdvanceCharges ==
  ASSUME IInv, ChargesInv, NEW c, Advance(c)
  PROVE  ChargesInv'
<1>1. /\ c.event \in ValetEvents /\ CanFire(status, c.event) /\ status' = Target[c.event]
      /\ UNCHANGED <<assignee, metres, backMetres, ledger>>
  BY Applied DEF Advance, ValetEvents
<1>2. /\ status \notin { "none", "requested", "offered", "cancelled", "no_show", "completed" }
      /\ status' \notin { "cancelled", "no_show", "return_requested" }
      /\ status' \in { "en_route", "arrived", "parking", "parked" } =>
           status \notin { "return_requested", "returning", "completed" }
  BY <1>1, TableForBilling
<1>3. status' \in { "en_route", "arrived", "parking", "parked", "returning", "completed" }
  BY <1>1 DEF ValetEvents, Target
<1>4. UNCHANGED Expected
  BY <1>1, <1>2 DEF Expected
<1> QED BY <1>1, <1>2, <1>3, <1>4 DEF ChargesInv, Returning, Charged

LEMMA ReturnCharges ==
  ASSUME IInv, ChargesInv, NEW c, NEW d \in Distances, RequestReturn(c, d)
  PROVE  ChargesInv'
<1> DEFINE leg == ServiceEntries(LegFee(ChargeableKm(d)))
<1>1. /\ d \in Nat /\ CanFire(status, "request_return") /\ status' = "return_requested"
      /\ ledger' = Plus(ledger, leg) /\ backMetres' = Rounded(d, 10) /\ UNCHANGED <<assignee, metres>>
  BY ValetAssumption, Applied DEF RequestReturn, Target
<1>2. status = "parked"
  BY <1>1, TableForBilling
<1>3. /\ assignee # Nobody /\ backMetres = NoLeg /\ metres \in Nat
      /\ ledger \in PostingRecords
  BY <1>2 DEF ChargesInv, Returning, IInv, TypeOK
<1>4. PICK j \in 0..1 : Charged(j)
  BY <1>3 DEF ChargesInv
<1>5. leg \in PostingRecords /\ ChargeableKm(d) \in Nat /\ Rounded(d, 10) \in Nat
  BY <1>1, DistanceTypes
<1>6. LegFee(ChargeableKm(d)) \in Fees
  BY <1>5 DEF Fees
<1>7. Balances(ledger')
  <2>1. Balances(leg)
    BY <1>6, ServicePostingBalances
  <2> QED BY <1>1, <1>3, <1>5, <2>1, PlusBalances DEF ChargesInv
<1> DEFINE km == CeilDiv(Rounded(d, 10), MetresPerKm)
           out == Stored(metres)
<1>8. PICK k \in 0..1 : km \in Nat /\ ChargeableKm(d) = km + k
  BY <1>1, StoredKm
<1>9. /\ LegFee(km).total = TotalFor(km) /\ LegFee(km).earnings = EarningsFor(km)
      /\ LegFee(km + k).total = TotalFor(km + k) /\ LegFee(km + k).earnings = EarningsFor(km + k)
  BY <1>8, LegAmounts
<1>10. /\ ledger'.receivable + ledger'.refunds
            = (ledger.receivable + ledger.refunds) + LegFee(km + k).total
       /\ ledger'.payable = ledger.payable - LegFee(km + k).earnings
  BY <1>1, <1>3, <1>6, <1>8, FeeFacts DEF Plus, Posting, ServiceEntries, PostingRecords
<1>11. Expected = out /\ Expected' = Both(out, LegFee(km))
  <2>1. backMetres' # NoLeg
    BY <1>1, <1>5 DEF NoLeg
  <2> QED BY <1>1, <1>2, <1>3, <2>1 DEF Expected, Stored
<1>12. out.total \in Int /\ out.earnings \in Int
  <2>1. out \in Fees
    BY <1>3 DEF Stored, Fees, CeilDiv, MetresPerKm
  <2> QED BY <2>1, FeeFacts
<1> HIDE DEF km, out
<1>13. Charged(j + k)'
  <2>1. /\ Expected'.total = out.total + TotalFor(km)
        /\ Expected'.earnings = out.earnings + EarningsFor(km)
    BY <1>9, <1>11 DEF Both
  <2>2. /\ TotalFor(km + k) = TotalFor(km) + k * 1036 /\ EarningsFor(km + k) = EarningsFor(km) + k * 800
        /\ TotalFor(km) \in Int /\ EarningsFor(km) \in Int
    BY <1>8 DEF TotalFor, EarningsFor
  <2>3. /\ ledger.receivable + ledger.refunds = out.total + j * 1036
        /\ -ledger.payable = out.earnings + j * 800
        /\ ledger.receivable + ledger.refunds \in Int /\ ledger.payable \in Int
    BY <1>3, <1>4, <1>11 DEF Charged, PostingRecords
  <2>4. /\ ledger'.receivable + ledger'.refunds = Expected'.total + (j + k) * 1036
        /\ -ledger'.payable = Expected'.earnings + (j + k) * 800
    <3>1. /\ ledger'.receivable + ledger'.refunds
                = (ledger.receivable + ledger.refunds) + (TotalFor(km) + k * 1036)
          /\ ledger'.payable = ledger.payable - (EarningsFor(km) + k * 800)
      BY <1>9, <1>10, <2>2
    <3> HIDE <1>9, <1>10
    <3> QED BY <1>8, <1>12, <2>1, <2>2, <2>3, <3>1
  <2> QED BY <2>4 DEF Charged
<1>14. backMetres' # NoLeg /\ j + k \in 0..2
  BY <1>1, <1>5 DEF NoLeg
<1> QED BY <1>1, <1>3, <1>7, <1>13, <1>14 DEF ChargesInv, Returning

LEMMA ChargesStep == IInv /\ ChargesInv /\ [Next]_vars => ChargesInv'
<1> SUFFICES ASSUME IInv, ChargesInv, [Next]_vars PROVE ChargesInv'
  OBVIOUS
<1>1. CASE UNCHANGED <<row, ledger>>
  BY <1>1, SameCharges DEF row
<1>2. ASSUME NEW found \in SUBSET Valets, RequestValet(found) PROVE ChargesInv'
  <2>1. status' \in { "requested", "offered" } /\ status = "none"
    BY <1>2 DEF RequestValet
  <2> QED BY <1>2, <2>1, SameCharges DEF RequestValet, IInv, TakenIsOffTheMarket
<1>3. ASSUME NEW s \in searches, Widen(s) \/ GiveUp(s) PROVE ChargesInv'
  <2>1. status \in { "requested", "offered" } /\ status' \in { "offered", "cancelled" }
    BY <1>3 DEF Widen, GiveUp, PinnedSearch, IInv, TypeOK, SearchRecords
  <2> QED BY <1>3, <2>1, SameCharges DEF Widen, GiveUp, IInv, TakenIsOffTheMarket
<1>4. CASE Driver
  BY <1>1, <1>2, <1>4 DEF Driver, ReadAsDriver, Read
<1>5. CASE Valet
  BY <1>1, <1>5 DEF Valet, ReadAsOffered, ReadAsAssigned, Read
<1>6. CASE Commands
  BY <1>1, <1>6, AdvanceCharges, CancelCharges, AcceptCharges, ReturnCharges DEF Commands, Abandon
<1>7. CASE Worker
  BY <1>1, <1>3, <1>7, NoShowCharges
  DEF Worker, TimeoutStarts, TimeoutEnds, TimeoutRead, MovedOn, SearchDies, TimeoutStale
<1>8. CASE GraceLapses \/ UNCHANGED vars
  BY <1>1, <1>8 DEF GraceLapses, vars
<1> QED BY <1>4, <1>5, <1>6, <1>7, <1>8 DEF Next

(* Whatever was cancelled, asked back or not come to, and in whatever order *)
(* it was read and written: the books balance, and the driver is billed     *)
(* and the valet paid what the job came to, give or take a stored kilometre *)
(* for each leg.                                                            *)
THEOREM ChargedAsDone == Spec => []ChargedForWorkDone
<1>1. ChargesInv => ChargedForWorkDone
  <2> SUFFICES ASSUME ChargesInv PROVE ChargedForWorkDone
    OBVIOUS
  <2>1. CASE assignee = Nobody
    <3>1. /\ ledger.receivable + ledger.refunds = 0 /\ -ledger.payable = 0
          /\ Expected.total = 0 /\ Expected.earnings = 0
      BY <2>1 DEF ChargesInv, NoPosting, Posting, Expected, Nothing
    <3> QED BY <3>1, FlatAmounts DEF ChargedForWorkDone, ChargesInv, Within
  <2>2. CASE assignee # Nobody
    <3>1. PICK k \in 0..2 : Charged(k)
      BY <2>2 DEF ChargesInv
    <3> QED BY <3>1, FlatAmounts DEF ChargedForWorkDone, ChargesInv, Within, Charged
  <2> QED BY <2>1, <2>2
<1> QED BY ValetInit, ValetStep, ChargesInit, ChargesStep, <1>1, PTL DEF Spec
=============================================================================
