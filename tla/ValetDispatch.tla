---------------------------- MODULE ValetDispatch ----------------------------
(***************************************************************************)
(* One valet job: offered in widening rounds by the worker, raced for by   *)
(* the valets who were offered it, driven through its statuses by whoever  *)
(* won, and called off by the driver or the no-show check.                 *)
(*                                                                         *)
(* A command of the API, and a search of the worker, reads the job, takes  *)
(* its time, and then writes with an UPDATE that is pinned on what it read *)
(* (applyEvent): between the two everybody else may write.  Which valets a *)
(* search finds near is left open; other jobs matter to this one only      *)
(* there.  A booking that may not have a valet, and a parked claim without *)
(* its photo, is refused, which is no step.                                *)
(***************************************************************************)
EXTENDS Postings

CONSTANTS
  Valets,       \* who can be offered the job
  Nobody,       \* no valet
  LastRound,    \* of OFFER_RADII_M, counted from 0
  Distances,    \* of a leg, exact, in decimetres
  MaxCalls,     \* bound: API commands between read and write
  MaxSearches   \* bound: worker searches between read and write

ASSUME ValetAssumption ==
  /\ Nobody \notin Valets
  /\ LastRound \in Nat
  /\ Distances \subseteq Nat
  /\ MaxCalls \in Nat /\ MaxSearches \in Nat

VARIABLES
  status, assignee,  \* of the valet_jobs row
  round,             \* offer_round
  metres,            \* distance_m, the outbound leg's, rounded when stored
  backMetres,        \* return_distance_m
  offers,            \* outcome of each valet's valet_job_offers row
  ledger,            \* net postings for the job; payable is to the assignee
  timeouts,          \* accept-timeout messages not yet done with, by round
  watch,             \* a no-show message is not yet done with
  lapsed,            \* NO_SHOW_GRACE_MS have passed since the arrival
  calls,             \* API commands that have read the job
  searches           \* accept-timeout deliveries that have read the job

row == <<status, assignee, round, metres, backMetres>>
messages == <<timeouts, watch, lapsed>>
vars == <<row, offers, ledger, messages, calls, searches>>

Lifecycle == INSTANCE ValetLifecycle
CanFire(from, event) == Lifecycle!CanFire(from, event)
NextValetStatus(from, event) == Lifecycle!NextValetStatus(from, event)

Rounds == 0..LastRound
Outcomes == { "none", "pending", "won", "lost" }
ValetEvents == { "depart", "arrive", "start_parking", "confirm_parked", "depart_return", "complete" }
DriverEvents == { "cancel", "request_return" }

NoLeg == -1   \* a null distance

HoldsVehicle == { "parking", "return_requested", "returning" }

Call(event, seen, by) == [event |-> event, seen |-> seen, by |-> by]
Search(r, seen, found) == [round |-> r, seen |-> seen, found |-> found]

Init ==
  /\ status = "none" /\ assignee = Nobody /\ round = 0 /\ metres = NoLeg /\ backMetres = NoLeg
  /\ offers = [v \in Valets |-> "none"]
  /\ ledger = NoPosting
  /\ timeouts = {} /\ watch = FALSE /\ lapsed = FALSE
  /\ calls = {} /\ searches = {}

-----------------------------------------------------------------------------
(* RequestValetCommand and recordOffers: the job, its first offers and the  *)
(* first timeout in one transaction.                                        *)
RecordOffers(found) ==
  offers' = [v \in Valets |-> IF v \in found THEN "pending" ELSE offers[v]]

RequestValet(found) ==
  /\ status = "none"
  /\ status' = IF found = {} THEN "requested" ELSE "offered"
  /\ RecordOffers(found)
  /\ timeouts' = {0}
  /\ UNCHANGED <<assignee, round, metres, backMetres, ledger, watch, lapsed, calls, searches>>

(* A command's reads and refusals, before its transaction. *)
Read(event, by) ==
  /\ Cardinality(calls) < MaxCalls
  /\ status # "none"
  /\ calls' = calls \cup {Call(event, status, by)}
  /\ UNCHANGED <<row, offers, ledger, messages, searches>>

ReadAsOffered(v) ==
  /\ offers[v] # "none"
  /\ Cardinality(calls) < MaxCalls
  /\ calls' = calls \cup {Call("accept", "offered", v)}
  /\ UNCHANGED <<row, offers, ledger, messages, searches>>

ReadAsAssigned(v, event) == assignee = v /\ CanFire(status, event) /\ Read(event, v)

ReadAsDriver(event) ==
  /\ CanFire(status, event)
  /\ event = "cancel" => status \notin HoldsVehicle
  /\ Read(event, Nobody)

(* The 409 of a pinned update that matched nothing, or a process that died. *)
Abandon(c) ==
  /\ c \in calls
  /\ calls' = calls \ {c}
  /\ UNCHANGED <<row, offers, ledger, messages, searches>>

-----------------------------------------------------------------------------
(* AcceptJobCommand's WHERE, which is its concurrency control. *)
Open == status = "offered" /\ assignee = Nobody

(* resolveOffers *)
ResolveAllWon(winner) == [v \in Valets |-> IF offers[v] = "pending" THEN "won" ELSE offers[v]]
ResolveOffers(winner) ==
  [v \in Valets |-> IF offers[v] # "pending" THEN offers[v] ELSE IF v = winner THEN "won" ELSE "lost"]

(* The price is of the exact distance; the row keeps whole metres. *)
Accept(c, distance) ==
  /\ c \in calls /\ c.event = "accept"
  /\ Open
  /\ status' = "accepted" /\ assignee' = c.by /\ metres' = Rounded(distance, 10)
  /\ offers' = ResolveOffers(c.by)
  /\ ledger' = Plus(ledger, ServiceEntries(LegFee(ChargeableKm(distance))))
  /\ calls' = calls \ {c}
  /\ UNCHANGED <<round, backMetres, messages, searches>>

PinnedOnNothing(c) == TRUE
Pinned(c) == status = c.seen

ApplyEvent(c) ==
  /\ c \in calls
  /\ Pinned(c)
  /\ status' = NextValetStatus(c.seen, c.event)
  /\ calls' = calls \ {c}

(* AdvanceJobCommand *)
Advance(c) ==
  /\ c.event \in ValetEvents
  /\ ApplyEvent(c)
  /\ watch' = (watch \/ c.event = "arrive")
  /\ UNCHANGED <<assignee, round, metres, backMetres, offers, ledger, timeouts, lapsed, searches>>

(* What is given back when the call-out fee is all that is kept: computed   *)
(* again, from the stored distance.                                         *)
CalloutAdjustment ==
  LET charged == LegFee(CeilDiv(metres, MetresPerKm))
  IN  IF charged.total = NoShowFee.total THEN NoPosting ELSE ChargeAdjustment(charged, NoShowFee)

Cancel(c) ==
  /\ c.event = "cancel"
  /\ ApplyEvent(c)
  /\ ledger' = IF assignee = Nobody THEN ledger ELSE Plus(ledger, CalloutAdjustment)
  /\ UNCHANGED <<assignee, round, metres, backMetres, offers, messages, searches>>

RequestReturn(c, distance) ==
  /\ c.event = "request_return"
  /\ ApplyEvent(c)
  /\ backMetres' = Rounded(distance, 10)
  /\ ledger' = Plus(ledger, ServiceEntries(LegFee(ChargeableKm(distance))))
  /\ UNCHANGED <<assignee, round, metres, offers, messages, searches>>

-----------------------------------------------------------------------------
(* acceptTimeout: the guards and the search, then the widening or the       *)
(* giving up.  A message stays until its delivery is done, so one whose     *)
(* process dies is delivered again, and two may run at once.  One that came *)
(* back after it was done would be stale, and do nothing.                   *)
DoneWith(r) == timeouts' = timeouts \ {r}

Rearm(r) == timeouts' = (timeouts \ {r}) \cup {r + 1}

WaitingOffered == status = "offered"
Waiting == status \in { "requested", "offered" }

MoreRadii(r) == r < LastRound

TimeoutRead(r, found) ==
  /\ r \in timeouts
  /\ Waiting /\ round = r
  /\ Cardinality(searches) < MaxSearches
  /\ \A v \in found : offers[v] = "none"
  /\ found # {} => MoreRadii(r)
  /\ searches' = searches \cup {Search(r, status, found)}
  /\ UNCHANGED <<row, offers, ledger, messages, calls>>

TimeoutStale(r) ==
  /\ r \in timeouts
  /\ ~ Waiting \/ round # r
  /\ DoneWith(r)
  /\ UNCHANGED <<row, offers, ledger, watch, lapsed, calls, searches>>

PinnedSearch(s) == status = s.seen /\ round = s.round

Widen(s) ==
  /\ s \in searches /\ MoreRadii(s.round)
  /\ PinnedSearch(s)
  /\ status' = "offered" /\ round' = s.round + 1
  /\ RecordOffers(s.found)
  /\ Rearm(s.round)
  /\ searches' = searches \ {s}
  /\ UNCHANGED <<assignee, metres, backMetres, ledger, watch, lapsed, calls>>

GiveUp(s) ==
  /\ s \in searches /\ ~ MoreRadii(s.round)
  /\ PinnedSearch(s)
  /\ status' = "cancelled"
  /\ DoneWith(s.round)
  /\ searches' = searches \ {s}
  /\ UNCHANGED <<assignee, round, metres, backMetres, offers, ledger, watch, lapsed, calls>>

MovedOn(s) ==
  /\ s \in searches
  /\ ~ PinnedSearch(s)
  /\ DoneWith(s.round)
  /\ searches' = searches \ {s}
  /\ UNCHANGED <<row, offers, ledger, watch, lapsed, calls>>

SearchDies(s) ==
  /\ s \in searches
  /\ searches' = searches \ {s}
  /\ UNCHANGED <<row, offers, ledger, messages, calls>>

-----------------------------------------------------------------------------
GraceLapses ==
  /\ status = "arrived" /\ ~ lapsed
  /\ lapsed' = TRUE
  /\ UNCHANGED <<row, offers, ledger, timeouts, watch, calls, searches>>

AbsentTooLong == status = "arrived" /\ lapsed

(* noShow, under a lock on the row.  A check that comes early, or finds the *)
(* job elsewhere, is acknowledged and not repeated.                         *)
NoShow ==
  /\ watch
  /\ IF AbsentTooLong
     THEN status' = "no_show" /\ ledger' = Plus(ledger, CalloutAdjustment)
     ELSE UNCHANGED <<status, ledger>>
  /\ watch' \in {FALSE, TRUE}
  /\ UNCHANGED <<assignee, round, metres, backMetres, offers, timeouts, lapsed, calls, searches>>

Driver ==
  \/ \E found \in SUBSET Valets : RequestValet(found)
  \/ \E event \in DriverEvents : ReadAsDriver(event)

Valet == \E v \in Valets : ReadAsOffered(v) \/ \E event \in ValetEvents : ReadAsAssigned(v, event)

Commands ==
  \E c \in calls :
    \/ Abandon(c)
    \/ Advance(c)
    \/ Cancel(c)
    \/ \E d \in Distances : Accept(c, d) \/ RequestReturn(c, d)

TimeoutStarts == \E r \in timeouts : \E found \in SUBSET Valets : TimeoutRead(r, found)
TimeoutEnds == \E s \in searches : Widen(s) \/ GiveUp(s) \/ MovedOn(s)

Worker ==
  \/ TimeoutStarts
  \/ TimeoutEnds
  \/ \E r \in timeouts : TimeoutStale(r)
  \/ \E s \in searches : SearchDies(s)
  \/ NoShow

Next == Driver \/ Valet \/ Commands \/ Worker \/ GraceLapses

Spec == Init /\ [][Next]_vars

(* The queue delivers, and a delivery is not killed every time it is made. *)
FairSpec == Spec /\ WF_vars(TimeoutStarts) /\ SF_vars(TimeoutEnds)

-----------------------------------------------------------------------------
CallRecords ==
  [event : {"accept"} \cup ValetEvents \cup DriverEvents, seen : Lifecycle!Statuses,
   by : Valets \cup {Nobody}]

SearchRecords == [round : Rounds, seen : {"requested", "offered"}, found : SUBSET Valets]

TypeOK ==
  /\ status \in Lifecycle!Statuses
  /\ assignee \in Valets \cup {Nobody}
  /\ round \in Rounds
  /\ metres \in Nat \cup {NoLeg} /\ backMetres \in Nat \cup {NoLeg}
  /\ offers \in [Valets -> Outcomes]
  /\ ledger \in PostingRecords
  /\ timeouts \subseteq Rounds
  /\ watch \in BOOLEAN /\ lapsed \in BOOLEAN
  /\ calls \subseteq CallRecords
  /\ searches \subseteq SearchRecords

(* A job that a valet took is settled with everybody who was offered it:    *)
(* the one who has it won, and nobody waits for an answer, however late a   *)
(* widening search comes back.                                              *)
TakenIsSettled ==
  assignee # Nobody =>
    /\ offers[assignee] = "won"
    /\ \A v \in Valets \ {assignee} : offers[v] \in { "none", "lost" }

(* A driver who is waiting is never forgotten: the timeout of the round     *)
(* that is open is still to come.                                           *)
WaitingIsWatched == Waiting => round \in timeouts

(* What the driver owes for the job, and what its valet earns, is what the  *)
(* job came to: nothing unassigned, a leg taken, both legs, or the call-out *)
(* fee when the driver cancelled or did not come - to within the kilometre  *)
(* a leg's stored distance may round away.                                  *)
Nothing == [total |-> 0, earnings |-> 0]
Stored(m) == LegFee(CeilDiv(m, MetresPerKm))
Both(f, g) == [total |-> f.total + g.total, earnings |-> f.earnings + g.earnings]

Expected ==
  CASE assignee = Nobody -> Nothing
    [] assignee # Nobody /\ status \in { "cancelled", "no_show" } -> NoShowFee
    [] OTHER -> IF backMetres = NoLeg THEN Stored(metres) ELSE Both(Stored(metres), Stored(backMetres))

Kilometre == [total |-> LegFee(1).total - LegFee(0).total, earnings |-> LegFee(1).earnings - LegFee(0).earnings]
Within(actual, exact, slack) == \E k \in 0..2 : actual = exact + k * slack

ChargedForWorkDone ==
  /\ Balances(ledger)
  /\ Within(ledger.receivable + ledger.refunds, Expected.total, Kilometre.total)
  /\ Within(-ledger.payable, Expected.earnings, Kilometre.earnings)

LifecycleSpec == Lifecycle!Spec

(* A driver is told, one way or the other. *)
OfferResolves == status \in { "requested", "offered" } ~> status \notin { "requested", "offered" }
=============================================================================
