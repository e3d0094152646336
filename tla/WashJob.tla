------------------------------- MODULE WashJob -------------------------------
(***************************************************************************)
(* One car wash sold on top of a booking: offered, accepted at the         *)
(* partner's own price, paid through its own gateway order, done or called *)
(* off.  As in ValetDispatch a command and a search read, take their time, *)
(* and write with a pinned update; which partners a search finds, and      *)
(* whether a partner is verified, onboarded and has taken the photographs, *)
(* is left open: a refusal is no step.                                     *)
(***************************************************************************)
EXTENDS Postings

CONSTANTS
  Washers,
  Nobody,
  LastRound,    \* of WASH_OFFER_RADII_M, counted from 0
  Price,        \* of the service in the menu of whoever accepts, in paise
  Orders,       \* bound: gateway orders for the wash, 1, 2, .. in creation order
  MaxCalls,     \* bound: API commands between read and write
  MaxSearches   \* bound: worker searches between read and write

ASSUME WashAssumption ==
  /\ Nobody \notin Washers
  /\ LastRound \in Nat
  /\ Price \in Nat \ {0}
  /\ Orders \subseteq Nat
  /\ MaxCalls \in Nat /\ MaxSearches \in Nat

VARIABLES
  status, washer, round,  \* of the wash_jobs row
  offered,                \* washers with a wash_job_offers row
  ledger,                 \* net postings; payable is to the partner
  timeouts,               \* accept-timeout messages not yet done with, by round
  calls,                  \* API commands that have read the job
  searches,               \* accept-timeout deliveries that have read the job
  payments,               \* status of each order's payments row
  reports,                \* what the gateway has yet to tell, [order, what, from]
  discharges,             \* Route discharges posted for each order: 0, 1, more
  refunded                \* orders with a refunds row

row == <<status, washer, round>>
money == <<payments, reports, discharges, refunded>>
vars == <<row, offered, ledger, timeouts, calls, searches, money>>

Statuses ==
  { "none", "requested", "offered", "accepted", "en_route", "washing", "completed", "cancelled" }

Rounds == 0..LastRound
PaymentStatuses == { "none", "created", "captured", "failed", "refunded" }

(* CARWASH_TRANSITIONS, of the events a participant fires. *)
Cancellable == { "requested", "offered", "accepted", "en_route" }

NextCarwashStatus(from, event) ==
  CASE event = "cancel" /\ from \in Cancellable -> "cancelled"
    [] event = "en_route" /\ from = "accepted" -> "en_route"
    [] event = "start_washing" /\ from = "en_route" -> "washing"
    [] event = "complete" /\ from = "washing" -> "completed"
    [] OTHER -> "none"

WasherEvents == { "en_route", "start_washing", "complete" }

Call(event, seen, by) == [event |-> event, seen |-> seen, by |-> by, found |-> {}]
Search(r, seen, found) == [round |-> r, seen |-> seen, found |-> found]
Report(order, what, from) == [order |-> order, what |-> what, from |-> from]

Init ==
  /\ status = "none" /\ washer = Nobody /\ round = 0
  /\ offered = {}
  /\ ledger = NoPosting
  /\ timeouts = {} /\ calls = {} /\ searches = {}
  /\ payments = [o \in Orders |-> "none"]
  /\ reports = {}
  /\ discharges = [o \in Orders |-> 0]
  /\ refunded = {}

-----------------------------------------------------------------------------
(* RequestCarwashCommand *)
RequestCarwash(found) ==
  /\ status = "none"
  /\ status' = IF found = {} THEN "requested" ELSE "offered"
  /\ offered' = found
  /\ timeouts' = {0}
  /\ UNCHANGED <<washer, round, ledger, calls, searches, money>>

Read(event, by) ==
  /\ Cardinality(calls) < MaxCalls
  /\ calls' = calls \cup {Call(event, status, by)}
  /\ UNCHANGED <<row, offered, ledger, timeouts, searches, money>>

ReadAsDriver == NextCarwashStatus(status, "cancel") # "none" /\ Read("cancel", Nobody)

ReadAsWasher(event) ==
  /\ washer # Nobody
  /\ NextCarwashStatus(status, event) # "none"
  /\ Read(event, washer)

ReadAsOffered(w) ==
  /\ w \in offered
  /\ Cardinality(calls) < MaxCalls
  /\ calls' = calls \cup {Call("accept", "offered", w)}
  /\ UNCHANGED <<row, offered, ledger, timeouts, searches, money>>

(* The 409 of an update that matched nothing, or a process that died. *)
Abandon(c) ==
  /\ c \in calls
  /\ calls' = calls \ {c}
  /\ UNCHANGED <<row, offered, ledger, timeouts, searches, money>>

(* AcceptWashCommand: the price is frozen and goes on the books with the    *)
(* assignment.                                                              *)
Accept(c) ==
  /\ c \in calls /\ c.event = "accept"
  /\ status = "offered" /\ washer = Nobody
  /\ status' = "accepted" /\ washer' = c.by
  /\ ledger' = Plus(ledger, ServiceEntries(WashFee(Price)))
  /\ calls' = calls \ {c}
  /\ UNCHANGED <<round, offered, timeouts, searches, money>>

PinnedOnNothing(c) == TRUE
Pinned(c) == status = c.seen

ApplyEvent(c, event) ==
  /\ c \in calls
  /\ Pinned(c)
  /\ status' = NextCarwashStatus(c.seen, event)
  /\ calls' = calls \ {c}

(* A cancellation has updated the row and not committed.  It had a washer,  *)
(* so that no acceptance and no search meets the lock.                      *)
RowLocked == \E c \in calls : c.event = "refund"

Advance(c) ==
  /\ c.event \in WasherEvents
  /\ ~ RowLocked
  /\ ApplyEvent(c, c.event)
  /\ UNCHANGED <<washer, round, offered, ledger, timeouts, searches, money>>

(* findLatestCapturedForWashJob, as the whole of its answer: none or one. *)
LatestCaptured ==
  LET captured == { o \in Orders : payments[o] = "captured" }
  IN  { o \in captured : \A p \in captured : p =< o }

(* CancelWashCommand before anybody accepted: nothing to take back. *)
CancelUnassigned(c) ==
  /\ c.event = "cancel"
  /\ washer = Nobody
  /\ ApplyEvent(c, "cancel")
  /\ UNCHANGED <<washer, round, offered, ledger, timeouts, searches, money>>

(* And after.  The captured payment is looked for beside the transaction    *)
(* that has updated the job, on another connection ..                       *)
LookForCapture(c) ==
  /\ c \in calls /\ c.event = "cancel"
  /\ washer # Nobody
  /\ ~ RowLocked
  /\ Pinned(c)
  /\ calls' = (calls \ {c}) \cup {[c EXCEPT !.event = "refund", !.found = LatestCaptured]}
  /\ UNCHANGED <<row, offered, ledger, timeouts, searches, money>>

Reverse == ReverseEntries(ServiceEntries(WashFee(Price)))

(* .. and then the transaction commits: what was posted is taken back, and  *)
(* what was found given back, whatever was captured meanwhile.              *)
Cancel(c) ==
  /\ c.event = "refund"
  /\ ApplyEvent(c, "cancel")
  /\ ledger' = Plus(ledger, Reverse)
  /\ refunded' = refunded \cup c.found
  /\ payments' = [o \in Orders |-> IF o \in c.found THEN "refunded" ELSE payments[o]]
  /\ UNCHANGED <<washer, round, offered, timeouts, searches, reports, discharges>>

-----------------------------------------------------------------------------
(* acceptTimeout and giveUp, which is pinned on the status alone. *)
WaitingOffered == status = "offered"
Waiting == status \in { "requested", "offered" }

DoneWith(r) == timeouts' = timeouts \ {r}

Rearm(r) == timeouts' = (timeouts \ {r}) \cup {r + 1}

MoreRadii(r) == r < LastRound

TimeoutRead(r, found) ==
  /\ r \in timeouts
  /\ Waiting /\ round = r
  /\ Cardinality(searches) < MaxSearches
  /\ found \cap offered = {}
  /\ found # {} => MoreRadii(r)
  /\ searches' = searches \cup {Search(r, status, found)}
  /\ UNCHANGED <<row, offered, ledger, timeouts, calls, money>>

TimeoutStale(r) ==
  /\ r \in timeouts
  /\ ~ Waiting \/ round # r
  /\ DoneWith(r)
  /\ UNCHANGED <<row, offered, ledger, calls, searches, money>>

StatusPinned(s) == status = s.seen
RoundPinned(s) == status = s.seen /\ round = s.round

Widen(s) ==
  /\ s \in searches /\ MoreRadii(s.round)
  /\ RoundPinned(s)
  /\ status' = "offered" /\ round' = s.round + 1
  /\ offered' = offered \cup s.found
  /\ Rearm(s.round)
  /\ searches' = searches \ {s}
  /\ UNCHANGED <<washer, ledger, calls, money>>

GiveUp(s) ==
  /\ s \in searches /\ ~ MoreRadii(s.round)
  /\ StatusPinned(s)
  /\ status' = "cancelled"
  /\ DoneWith(s.round)
  /\ searches' = searches \ {s}
  /\ UNCHANGED <<washer, round, offered, ledger, calls, money>>

MovedOn(s) ==
  /\ s \in searches
  /\ IF MoreRadii(s.round) THEN ~ RoundPinned(s) ELSE ~ StatusPinned(s)
  /\ DoneWith(s.round)
  /\ searches' = searches \ {s}
  /\ UNCHANGED <<row, offered, ledger, calls, money>>

SearchDies(s) ==
  /\ s \in searches
  /\ searches' = searches \ {s}
  /\ UNCHANGED <<row, offered, ledger, timeouts, calls, money>>

-----------------------------------------------------------------------------
(* CreateWashOrderCommand: the job and the open order are read, the gateway *)
(* mints an order, and only then is its row inserted.                       *)
ReadForOrder ==
  /\ washer # Nobody /\ status # "cancelled"
  /\ \A o \in Orders : payments[o] # "created"
  /\ Read("order", Nobody)

InsertOrder(c, o) ==
  /\ c \in calls /\ c.event = "order"
  /\ payments[o] = "none" /\ \A p \in Orders : p < o => payments[p] # "none"
  /\ payments' = [payments EXCEPT ![o] = "created"]
  /\ calls' = calls \ {c}
  /\ UNCHANGED <<row, offered, ledger, timeouts, searches, reports, discharges, refunded>>

(* What the driver does at the gateway, and what it will tell us, once each *)
(* and in any order.                                                        *)
Reported(o, what) == \E r \in reports : r.order = o /\ r.what = what

Pay(o) ==
  /\ payments[o] \in { "created", "failed" } /\ o \notin refunded
  /\ ~ Reported(o, "captured")
  /\ reports' = reports \cup { Report(o, "captured", from) : from \in {"callback", "webhook"} }
  /\ UNCHANGED <<row, offered, ledger, timeouts, calls, searches, payments, discharges, refunded>>

FailAttempt(o) ==
  /\ payments[o] = "created" /\ ~ Reported(o, "captured")
  /\ reports' = reports \cup {Report(o, "failed", "webhook")}
  /\ UNCHANGED <<row, offered, ledger, timeouts, calls, searches, payments, discharges, refunded>>

(* ConfirmPaymentCommand's car wash branch, under the payment's lock. *)
AlreadyCaptured(o) == payments[o] = "captured"

Confirm(r) ==
  /\ r \in reports /\ r.what = "captured"
  /\ reports' = reports \ {r}
  /\ IF AlreadyCaptured(r.order)
     THEN UNCHANGED <<payments, discharges, ledger>>
     ELSE /\ payments' = [payments EXCEPT ![r.order] = "captured"]
          /\ discharges' = [discharges EXCEPT ![r.order] = IF @ < 2 THEN @ + 1 ELSE @]
          /\ ledger' = Plus(ledger, RouteDischarge(WashFee(Price).earnings))
  /\ UNCHANGED <<row, offered, timeouts, calls, searches, refunded>>

(* FailPaymentCommand *)
FailPayment(r) ==
  /\ r \in reports /\ r.what = "failed"
  /\ reports' = reports \ {r}
  /\ payments' = IF AlreadyCaptured(r.order) THEN payments ELSE [payments EXCEPT ![r.order] = "failed"]
  /\ UNCHANGED <<row, offered, ledger, timeouts, calls, searches, discharges, refunded>>

Driver ==
  \/ \E found \in SUBSET Washers : RequestCarwash(found)
  \/ ReadAsDriver \/ ReadForOrder
  \/ \E o \in Orders : Pay(o) \/ FailAttempt(o)

Washer == \E w \in Washers : ReadAsOffered(w)
Assigned == \E event \in WasherEvents : ReadAsWasher(event)

Commands ==
  \E c \in calls :
    \/ Abandon(c) \/ Accept(c) \/ Advance(c)
    \/ CancelUnassigned(c) \/ LookForCapture(c) \/ Cancel(c)
    \/ \E o \in Orders : InsertOrder(c, o)

Gateway == \E r \in reports : Confirm(r) \/ FailPayment(r)

TimeoutStarts == \E r \in timeouts : \E found \in SUBSET Washers : TimeoutRead(r, found)
TimeoutEnds == \E s \in searches : Widen(s) \/ GiveUp(s) \/ MovedOn(s)

Worker ==
  \/ TimeoutStarts
  \/ TimeoutEnds
  \/ \E r \in timeouts : TimeoutStale(r)
  \/ \E s \in searches : SearchDies(s)

Next == Driver \/ Washer \/ Assigned \/ Commands \/ Gateway \/ Worker

Spec == Init /\ [][Next]_vars

(* The queue delivers, and a delivery is not killed every time it is made. *)
FairSpec == Spec /\ WF_vars(TimeoutStarts) /\ SF_vars(TimeoutEnds)

-----------------------------------------------------------------------------
CallRecords ==
  [event : {"accept", "cancel", "refund", "order"} \cup WasherEvents, seen : Statuses,
   by : Washers \cup {Nobody}, found : SUBSET Orders]

SearchRecords == [round : Rounds, seen : {"requested", "offered"}, found : SUBSET Washers]

ReportRecords == [order : Orders, what : {"captured", "failed"}, from : {"callback", "webhook"}]

TypeOK ==
  /\ status \in Statuses
  /\ washer \in Washers \cup {Nobody}
  /\ round \in Rounds
  /\ offered \subseteq Washers
  /\ ledger \in PostingRecords
  /\ timeouts \subseteq Rounds
  /\ calls \subseteq CallRecords
  /\ searches \subseteq SearchRecords
  /\ payments \in [Orders -> PaymentStatuses]
  /\ reports \subseteq ReportRecords
  /\ discharges \in [Orders -> 0..2]
  /\ refunded \subseteq Orders

(* The driver owes for the wash exactly while it is somebody's job and was  *)
(* not called off, and only a wash that was called off is refunded: a       *)
(* cancellation that raced the washer's start either stands or is refused.  *)
(* Once the partner's share was discharged the order stays captured until   *)
(* it is refunded, and only then a late report discharges it again.         *)
BilledWhileItStands ==
  /\ Balances(ledger)
  /\ ledger.receivable = IF washer # Nobody /\ status # "cancelled" THEN WashFee(Price).total ELSE 0
  /\ refunded # {} => status = "cancelled"
  /\ \A o \in Orders :
       /\ discharges[o] > 0 => payments[o] = "captured" \/ o \in refunded
       /\ discharges[o] > 1 => o \in refunded

(* A driver is told, one way or the other. *)
SearchResolves == status \in { "requested", "offered" } ~> status \notin { "requested", "offered" }
=============================================================================
