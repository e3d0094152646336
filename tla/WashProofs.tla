----------------------------- MODULE WashProofs -----------------------------
(***************************************************************************)
(* WashJob for any number of washers, rounds, orders, calls and searches:  *)
(* types, that the driver owes for a wash exactly while it stands, and     *)
(* that a waiting driver is watched.                                       *)
(***************************************************************************)
EXTENDS WashJob, MoneyProofs

Fee == WashFee(Price)

LEMMA WashFeeFacts ==
  /\ Fee.total \in Nat /\ Fee.earnings \in Nat /\ Fee.commission \in Nat /\ Fee.gst \in Nat
  /\ Fee.total = Fee.earnings + Fee.commission + Fee.gst
<1>1. Fee \in Fees
  BY WashAssumption DEF Fee, Fees
<1> QED BY <1>1, FeeFacts

LEMMA WashPostings ==
  /\ ServiceEntries(Fee) \in PostingRecords /\ Balances(ServiceEntries(Fee))
  /\ ServiceEntries(Fee).receivable = Fee.total
  /\ Reverse \in PostingRecords /\ Balances(Reverse) /\ Reverse.receivable = -Fee.total
  /\ RouteDischarge(Fee.earnings) \in PostingRecords /\ Balances(RouteDischarge(Fee.earnings))
  /\ RouteDischarge(Fee.earnings).receivable = 0
<1>1. ServiceEntries(Fee) \in PostingRecords /\ Balances(ServiceEntries(Fee))
      /\ ServiceEntries(Fee).receivable = Fee.total
  <2>1. Balances(ServiceEntries(Fee))
    BY WashAssumption, ServicePostingBalances DEF Fee, Fees
  <2>2. ServiceEntries(Fee) \in PostingRecords /\ ServiceEntries(Fee).receivable = Fee.total
    BY WashFeeFacts DEF ServiceEntries, Posting, PostingRecords
  <2> QED BY <2>1, <2>2
<1>2. Reverse \in PostingRecords /\ Balances(Reverse)
  BY <1>1, ReversalBalances DEF Reverse, Fee
<1>3. Reverse.receivable = -Fee.total
  BY <1>1 DEF Reverse, Fee, ReverseEntries, Posting
<1>4. RouteDischarge(Fee.earnings) \in PostingRecords /\ Balances(RouteDischarge(Fee.earnings))
      /\ RouteDischarge(Fee.earnings).receivable = 0
  BY WashFeeFacts DEF RouteDischarge, Posting, PostingRecords, Balances
<1> QED BY <1>1, <1>2, <1>3, <1>4

LEMMA Posted ==
  ASSUME NEW p \in PostingRecords, NEW o \in PostingRecords, Balances(p), Balances(o)
  PROVE  /\ Plus(p, o) \in PostingRecords /\ Balances(Plus(p, o))
         /\ Plus(p, o).receivable = p.receivable + o.receivable
<1>1. Plus(p, o).receivable = p.receivable + o.receivable
  BY DEF Plus, Posting
<1> QED BY <1>1, PlusBalances

-----------------------------------------------------------------------------
(* Every event has one status it leads to, and none leads out of the end or *)
(* back to the market.                                                      *)
LEMMA Leads ==
  ASSUME NEW from \in Statuses, NEW event, NextCarwashStatus(from, event) # "none"
  PROVE  /\ from \notin { "none", "cancelled", "completed" }
         /\ event = "cancel" => NextCarwashStatus(from, event) = "cancelled"
         /\ event \in WasherEvents =>
              /\ from \in { "accepted", "en_route", "washing" }
              /\ NextCarwashStatus(from, event) \in { "en_route", "washing", "completed" }
<1>1. CASE event = "cancel" /\ from \in Cancellable
  BY <1>1 DEF NextCarwashStatus, Cancellable, WasherEvents
<1>2. CASE event = "en_route" /\ from = "accepted"
  BY <1>2 DEF NextCarwashStatus, Cancellable, WasherEvents
<1>3. CASE event = "start_washing" /\ from = "en_route"
  BY <1>3 DEF NextCarwashStatus, Cancellable, WasherEvents
<1>4. CASE event = "complete" /\ from = "washing"
  BY <1>4 DEF NextCarwashStatus, Cancellable, WasherEvents
<1>5. ~ (\/ event = "cancel" /\ from \in Cancellable
         \/ event = "en_route" /\ from = "accepted"
         \/ event = "start_washing" /\ from = "en_route"
         \/ event = "complete" /\ from = "washing") => NextCarwashStatus(from, event) = "none"
  BY DEF NextCarwashStatus
<1> QED BY <1>1, <1>2, <1>3, <1>4, <1>5

-----------------------------------------------------------------------------
(* A call in flight can still do what it came for. *)
CallsLead ==
  \A c \in calls :
    /\ c.event = "accept" => c.by \in Washers
    /\ c.event \in {"cancel"} \cup WasherEvents => NextCarwashStatus(c.seen, c.event) # "none"
    /\ c.event = "refund" => NextCarwashStatus(c.seen, "cancel") # "none" /\ washer # Nobody

(* A wash is somebody's from the moment it leaves the market for good. *)
MarketOrWasher ==
  /\ washer # Nobody => status \notin { "none", "requested", "offered" }
  /\ washer = Nobody => status \in { "none", "requested", "offered", "cancelled" }

(* A search in flight is of a round that has begun, and while that round is *)
(* open the job is as the search read it.                                   *)
SearchesBehind ==
  /\ status = "none" => round = 0 /\ searches = {}
  /\ \A s \in searches : s.round =< round /\ (Waiting /\ s.round = round => s.seen = status)

(* The timeout of the round that is open is still to come. *)
WaitingIsWatched == Waiting => round \in timeouts

Inv ==
  /\ TypeOK
  /\ CallsLead
  /\ MarketOrWasher
  /\ SearchesBehind
  /\ WaitingIsWatched
  /\ BilledWhileItStands

LEMMA WashInit == Init => Inv
<1> SUFFICES ASSUME Init PROVE Inv
  OBVIOUS
<1> USE WashAssumption DEF Init
<1>1. NoPosting \in PostingRecords /\ Balances(NoPosting) /\ NoPosting.receivable = 0
  BY DEF NoPosting, Posting, PostingRecords, Balances
<1>2. TypeOK
  BY <1>1 DEF TypeOK, Statuses, Rounds, PaymentStatuses
<1>3. CallsLead /\ MarketOrWasher /\ SearchesBehind /\ WaitingIsWatched
  BY DEF CallsLead, MarketOrWasher, SearchesBehind, WaitingIsWatched, Waiting
<1>4. BilledWhileItStands
  BY <1>1 DEF BilledWhileItStands
<1> QED BY <1>2, <1>3, <1>4 DEF Inv

-----------------------------------------------------------------------------
LEMMA RequestStep == ASSUME Inv, NEW found \in SUBSET Washers, RequestCarwash(found) PROVE Inv'
<1> USE WashAssumption DEF Inv, RequestCarwash
<1>1. washer = Nobody
  BY DEF MarketOrWasher
<1>2. TypeOK'
  BY DEF TypeOK, Statuses, Rounds, money
<1>3. CallsLead' /\ MarketOrWasher' /\ SearchesBehind' /\ WaitingIsWatched'
  BY <1>1 DEF CallsLead, MarketOrWasher, SearchesBehind, WaitingIsWatched, Waiting, TypeOK
<1>4. BilledWhileItStands'
  BY <1>1 DEF BilledWhileItStands, money
<1> QED BY <1>2, <1>3, <1>4

(* A read adds a call, an abandoned one is dropped, one that looked for a   *)
(* capture remembers it: nothing else moves.                                *)
LEMMA ReadStep ==
  ASSUME Inv, \/ ReadAsDriver \/ ReadForOrder
              \/ \E w \in Washers : ReadAsOffered(w)
              \/ \E event \in WasherEvents : ReadAsWasher(event)
              \/ \E c \in calls : Abandon(c) \/ LookForCapture(c)
  PROVE  Inv'
<1> USE WashAssumption DEF Inv
<1>1. /\ UNCHANGED <<row, offered, ledger, timeouts, searches, money>>
      /\ \A c \in calls' \ calls :
           /\ c \in CallRecords
           /\ c.event = "accept" => c.by \in Washers
           /\ c.event \in {"cancel"} \cup WasherEvents => NextCarwashStatus(c.seen, c.event) # "none"
           /\ c.event = "refund" => NextCarwashStatus(c.seen, "cancel") # "none" /\ washer # Nobody
  <2>1. CASE ReadAsDriver
    BY <2>1 DEF ReadAsDriver, Read, Call, CallRecords, TypeOK
  <2>2. CASE ReadForOrder
    BY <2>2 DEF ReadForOrder, Read, Call, CallRecords, TypeOK, WasherEvents
  <2>3. CASE \E w \in Washers : ReadAsOffered(w)
    BY <2>3 DEF ReadAsOffered, Call, CallRecords, Statuses, WasherEvents
  <2>4. CASE \E event \in WasherEvents : ReadAsWasher(event)
    BY <2>4 DEF ReadAsWasher, Read, Call, CallRecords, TypeOK, WasherEvents
  <2>5. CASE \E c \in calls : Abandon(c)
    BY <2>5 DEF Abandon
  <2>6. CASE \E c \in calls : LookForCapture(c)
    <3>1. PICK c \in calls : LookForCapture(c)
      BY <2>6
    <3> DEFINE looked == [c EXCEPT !.event = "refund", !.found = LatestCaptured]
    <3>2. c \in CallRecords /\ NextCarwashStatus(c.seen, "cancel") # "none" /\ washer # Nobody
      BY <3>1 DEF LookForCapture, CallsLead, TypeOK
    <3>3. LatestCaptured \subseteq Orders
      BY DEF LatestCaptured
    <3>4. looked \in CallRecords /\ looked.event = "refund" /\ looked.seen = c.seen
      BY <3>2, <3>3 DEF CallRecords
    <3>5. calls' = (calls \ {c}) \cup {looked} /\ UNCHANGED <<row, offered, ledger, timeouts, searches, money>>
      BY <3>1 DEF LookForCapture
    <3> HIDE DEF looked
    <3> QED BY <3>2, <3>4, <3>5 DEF WasherEvents
  <2> QED BY <2>1, <2>2, <2>3, <2>4, <2>5, <2>6
<1>2. TypeOK'
  BY <1>1 DEF TypeOK, row, money
<1>3. CallsLead'
  BY <1>1 DEF CallsLead, row
<1>4. MarketOrWasher' /\ SearchesBehind' /\ WaitingIsWatched' /\ BilledWhileItStands'
  BY <1>1 DEF MarketOrWasher, SearchesBehind, WaitingIsWatched, Waiting, BilledWhileItStands, row, money
<1> QED BY <1>2, <1>3, <1>4

LEMMA AcceptStep == ASSUME Inv, NEW c, Accept(c) PROVE Inv'
<1> USE WashAssumption DEF Inv, Accept
<1>1. c.by \in Washers /\ ledger \in PostingRecords /\ Balances(ledger) /\ ledger.receivable = 0 /\ refunded = {}
  BY DEF CallsLead, TypeOK, BilledWhileItStands
<1>2. ledger' \in PostingRecords /\ Balances(ledger') /\ ledger'.receivable = Fee.total
  <2>1. ledger' = Plus(ledger, ServiceEntries(Fee))
    BY DEF Fee
  <2>2. ledger' \in PostingRecords /\ Balances(ledger')
        /\ ledger'.receivable = ledger.receivable + ServiceEntries(Fee).receivable
    BY <1>1, <2>1, WashPostings, Posted
  <2>3. ledger'.receivable = 0 + Fee.total
    BY <1>1, <2>2, WashPostings
  <2> QED BY <2>2, <2>3, WashFeeFacts
<1>3. TypeOK'
  BY <1>1, <1>2 DEF TypeOK, Statuses, money
<1>4. CallsLead' /\ MarketOrWasher' /\ SearchesBehind' /\ WaitingIsWatched'
  BY <1>1 DEF CallsLead, MarketOrWasher, SearchesBehind, WaitingIsWatched, Waiting
<1>5. BilledWhileItStands'
  BY <1>1, <1>2 DEF BilledWhileItStands, Fee, money
<1> QED BY <1>3, <1>4, <1>5

LEMMA AdvanceStep == ASSUME Inv, NEW c, Advance(c) PROVE Inv'
<1> USE DEF Inv
<1>1. /\ c \in calls /\ status = c.seen /\ status \in Statuses
      /\ status' = NextCarwashStatus(status, c.event) /\ NextCarwashStatus(status, c.event) # "none"
      /\ c.event \in WasherEvents /\ calls' = calls \ {c}
      /\ UNCHANGED <<washer, round, offered, ledger, timeouts, searches, money>>
  BY DEF Advance, ApplyEvent, Pinned, CallsLead, TypeOK
<1>2. status \in { "accepted", "en_route", "washing" } /\ status' \in { "en_route", "washing", "completed" }
  BY <1>1, Leads
<1>3. washer # Nobody
  BY <1>2 DEF MarketOrWasher
<1>4. TypeOK'
  BY <1>1, <1>2 DEF TypeOK, Statuses, money
<1>5. CallsLead' /\ MarketOrWasher' /\ SearchesBehind' /\ WaitingIsWatched'
  BY <1>1, <1>2, <1>3 DEF CallsLead, MarketOrWasher, SearchesBehind, WaitingIsWatched, Waiting
<1>6. BilledWhileItStands'
  BY <1>1, <1>2, <1>3 DEF BilledWhileItStands, money
<1> QED BY <1>4, <1>5, <1>6

LEMMA CancelStep == ASSUME Inv, NEW c, CancelUnassigned(c) \/ Cancel(c) PROVE Inv'
<1> USE DEF Inv
<1>1. /\ c \in calls /\ status = c.seen /\ status \in Statuses /\ calls' = calls \ {c}
      /\ NextCarwashStatus(status, "cancel") # "none" /\ status' = NextCarwashStatus(status, "cancel")
      /\ UNCHANGED <<washer, round, offered, timeouts, searches, reports, discharges>>
  BY DEF CancelUnassigned, Cancel, ApplyEvent, Pinned, CallsLead, TypeOK, money
<1>2. status' = "cancelled" /\ status \notin { "none", "cancelled", "completed" }
  BY <1>1, Leads
<1>3. /\ ledger' \in PostingRecords /\ Balances(ledger') /\ ledger'.receivable = 0
      /\ payments' \in [Orders -> PaymentStatuses] /\ refunded' \subseteq Orders
  <2>1. CASE CancelUnassigned(c)
    BY <2>1 DEF CancelUnassigned, BilledWhileItStands, TypeOK, money
  <2>2. CASE Cancel(c)
    <3>0. washer # Nobody
      BY <2>2 DEF Cancel, ApplyEvent, CallsLead
    <3>1. ledger \in PostingRecords /\ Balances(ledger) /\ ledger.receivable = Fee.total
      BY <1>2, <3>0 DEF BilledWhileItStands, Fee, TypeOK
    <3>2. ledger' = Plus(ledger, Reverse)
      BY <2>2 DEF Cancel
    <3>3. ledger' \in PostingRecords /\ Balances(ledger') /\ ledger'.receivable = 0
      <4>1. ledger' \in PostingRecords /\ Balances(ledger')
            /\ ledger'.receivable = ledger.receivable + Reverse.receivable
        BY <3>1, <3>2, WashPostings, Posted
      <4>2. ledger'.receivable = Fee.total + -Fee.total
        BY <3>1, <4>1, WashPostings
      <4> QED BY <4>1, <4>2, WashFeeFacts
    <3>4. payments' \in [Orders -> PaymentStatuses]
      BY <2>2 DEF Cancel, TypeOK, PaymentStatuses
    <3>5. c.found \subseteq Orders
      BY <1>1 DEF TypeOK, CallRecords
    <3>6. refunded' \subseteq Orders
      BY <2>2, <3>5 DEF Cancel, TypeOK
    <3> QED BY <3>3, <3>4, <3>6
  <2> QED BY <2>1, <2>2
<1>4. TypeOK'
  BY <1>1, <1>2, <1>3 DEF TypeOK, Statuses
<1>5. CallsLead' /\ MarketOrWasher' /\ SearchesBehind' /\ WaitingIsWatched'
  BY <1>1, <1>2 DEF CallsLead, MarketOrWasher, SearchesBehind, WaitingIsWatched, Waiting
<1>6. \A o \in Orders :
        /\ discharges'[o] > 0 => payments'[o] = "captured" \/ o \in refunded'
        /\ discharges'[o] > 1 => o \in refunded'
  <2>1. CASE CancelUnassigned(c)
    BY <2>1 DEF CancelUnassigned, BilledWhileItStands, money
  <2>2. CASE Cancel(c)
    BY <2>2 DEF Cancel, BilledWhileItStands
  <2> QED BY <2>1, <2>2
<1>7. BilledWhileItStands'
  BY <1>2, <1>3, <1>6 DEF BilledWhileItStands
<1> QED BY <1>4, <1>5, <1>7

-----------------------------------------------------------------------------
(* Orders, payments and their reports touch neither the job nor what is     *)
(* owed for it.                                                             *)
LEMMA MoneyStep ==
  ASSUME Inv, \/ \E c \in calls, o \in Orders : InsertOrder(c, o)
              \/ \E o \in Orders : Pay(o) \/ FailAttempt(o)
              \/ \E r \in reports : Confirm(r) \/ FailPayment(r)
  PROVE  Inv'
<1> USE DEF Inv
<1>1. UNCHANGED <<row, offered, timeouts, searches, refunded>> /\ calls' \subseteq calls
  BY DEF InsertOrder, Pay, FailAttempt, Confirm, FailPayment
<1>2. reports' \subseteq ReportRecords
  BY DEF InsertOrder, Pay, FailAttempt, Confirm, FailPayment, TypeOK, Report, ReportRecords
<1>3. payments' \in [Orders -> PaymentStatuses]
  BY DEF InsertOrder, Pay, FailAttempt, Confirm, FailPayment, TypeOK, PaymentStatuses
<1>4. discharges' \in [Orders -> 0..2]
  BY DEF InsertOrder, Pay, FailAttempt, Confirm, FailPayment, TypeOK
<1>5. ledger' \in PostingRecords /\ Balances(ledger') /\ ledger'.receivable = ledger.receivable
  <2>1. ledger \in PostingRecords /\ Balances(ledger)
    BY DEF TypeOK, BilledWhileItStands
  <2>2. CASE ledger' = ledger
    BY <2>1, <2>2
  <2>3. CASE ledger' = Plus(ledger, RouteDischarge(Fee.earnings))
    <3>1. ledger.receivable \in Int
      BY <2>1 DEF PostingRecords
    <3>2. ledger' \in PostingRecords /\ Balances(ledger')
          /\ ledger'.receivable = ledger.receivable + RouteDischarge(Fee.earnings).receivable
      BY <2>1, <2>3, WashPostings, Posted
    <3>3. ledger'.receivable = ledger.receivable + 0
      BY <3>2, WashPostings
    <3> QED BY <3>1, <3>2, <3>3
  <2> QED BY <2>2, <2>3 DEF InsertOrder, Pay, FailAttempt, Confirm, FailPayment, Fee
<1>6. TypeOK'
  BY <1>1, <1>2, <1>3, <1>4, <1>5 DEF TypeOK, row
<1>7. CallsLead' /\ MarketOrWasher' /\ SearchesBehind' /\ WaitingIsWatched'
  BY <1>1 DEF CallsLead, MarketOrWasher, SearchesBehind, WaitingIsWatched, Waiting, row
<1>8. \A o \in Orders :
        /\ discharges'[o] > 0 => payments'[o] = "captured" \/ o \in refunded
        /\ discharges'[o] > 1 => o \in refunded
  <2>1. \A o \in Orders :
          /\ discharges[o] > 0 => payments[o] = "captured" \/ o \in refunded
          /\ discharges[o] > 1 => o \in refunded
    BY DEF BilledWhileItStands
  <2>2. CASE \E r \in reports : Confirm(r)
    BY <2>1, <2>2 DEF Confirm, AlreadyCaptured, TypeOK
  <2>3. CASE ~ \E r \in reports : Confirm(r)
    <3>1. /\ UNCHANGED discharges
          /\ \A o \in Orders : payments[o] = "captured" => payments'[o] = "captured"
      BY <2>3 DEF InsertOrder, Pay, FailAttempt, FailPayment, AlreadyCaptured, TypeOK
    <3> QED BY <2>1, <3>1
  <2> QED BY <2>2, <2>3
<1>9. BilledWhileItStands'
  BY <1>1, <1>5, <1>8 DEF BilledWhileItStands, row
<1> QED BY <1>6, <1>7, <1>9

-----------------------------------------------------------------------------
(* The worker's searches. *)
LEMMA TimeoutReadStep ==
  ASSUME Inv, NEW r, NEW found \in SUBSET Washers, TimeoutRead(r, found) PROVE Inv'
<1> USE DEF Inv, TimeoutRead
<1>1. Search(r, status, found) \in SearchRecords
  BY DEF Search, SearchRecords, TypeOK, Waiting
<1>2. TypeOK'
  BY <1>1 DEF TypeOK, row, money
<1>3. CallsLead' /\ MarketOrWasher' /\ WaitingIsWatched' /\ BilledWhileItStands'
  BY DEF CallsLead, MarketOrWasher, WaitingIsWatched, Waiting, BilledWhileItStands, row, money
<1>4. SearchesBehind'
  BY DEF SearchesBehind, Search, Waiting, row, TypeOK, Rounds
<1> QED BY <1>2, <1>3, <1>4

LEMMA StaleStep == ASSUME Inv, NEW r, TimeoutStale(r) PROVE Inv'
<1> USE DEF Inv, TimeoutStale, DoneWith
<1>1. TypeOK'
  BY DEF TypeOK, row, money
<1>2. CallsLead' /\ MarketOrWasher' /\ SearchesBehind' /\ WaitingIsWatched' /\ BilledWhileItStands'
  BY DEF CallsLead, MarketOrWasher, SearchesBehind, WaitingIsWatched, Waiting, BilledWhileItStands, row, money
<1> QED BY <1>1, <1>2

LEMMA WidenStep == ASSUME Inv, NEW s, Widen(s) PROVE Inv'
<1> USE WashAssumption DEF Inv, Widen, RoundPinned
<1>1. s \in SearchRecords /\ s.round = round /\ round \in Nat /\ round + 1 \in Rounds /\ status \in { "requested", "offered" }
  BY DEF TypeOK, SearchRecords, MoreRadii, Rounds
<1>2. washer = Nobody
  BY <1>1 DEF MarketOrWasher
<1>3. TypeOK'
  BY <1>1 DEF TypeOK, Rearm, Statuses, SearchRecords, money
<1>4. CallsLead' /\ MarketOrWasher' /\ BilledWhileItStands'
  BY <1>1, <1>2 DEF CallsLead, MarketOrWasher, BilledWhileItStands, money
<1>5. SearchesBehind'
  BY <1>1 DEF SearchesBehind, TypeOK, SearchRecords, Rounds
<1>6. WaitingIsWatched'
  BY <1>1 DEF WaitingIsWatched, Rearm
<1> QED BY <1>3, <1>4, <1>5, <1>6

LEMMA GiveUpStep == ASSUME Inv, NEW s, GiveUp(s) PROVE Inv'
<1> USE WashAssumption DEF Inv, GiveUp, DoneWith, StatusPinned
<1>1. status \in { "requested", "offered" }
  BY DEF TypeOK, SearchRecords
<1>2. washer = Nobody
  BY <1>1 DEF MarketOrWasher
<1>3. TypeOK'
  BY DEF TypeOK, Statuses, money
<1>4. CallsLead' /\ MarketOrWasher' /\ SearchesBehind' /\ WaitingIsWatched' /\ BilledWhileItStands'
  BY <1>1, <1>2 DEF CallsLead, MarketOrWasher, SearchesBehind, WaitingIsWatched, Waiting, BilledWhileItStands, money
<1> QED BY <1>3, <1>4

(* A search that comes back too late was not of the open round. *)
LEMMA MovedOnStep == ASSUME Inv, NEW s, MovedOn(s) PROVE Inv'
<1> USE DEF Inv, MovedOn, DoneWith
<1>1. Waiting => s.round # round
  BY DEF SearchesBehind, RoundPinned, StatusPinned
<1>2. TypeOK'
  BY DEF TypeOK, row, money
<1>3. CallsLead' /\ MarketOrWasher' /\ SearchesBehind' /\ BilledWhileItStands'
  BY DEF CallsLead, MarketOrWasher, SearchesBehind, Waiting, BilledWhileItStands, row, money
<1>4. WaitingIsWatched'
  BY <1>1 DEF WaitingIsWatched, Waiting, row
<1> QED BY <1>2, <1>3, <1>4

LEMMA DiesStep == ASSUME Inv, NEW s, SearchDies(s) PROVE Inv'
<1> USE DEF Inv, SearchDies
<1>1. TypeOK'
  BY DEF TypeOK, row, money
<1>2. CallsLead' /\ MarketOrWasher' /\ SearchesBehind' /\ WaitingIsWatched' /\ BilledWhileItStands'
  BY DEF CallsLead, MarketOrWasher, SearchesBehind, WaitingIsWatched, Waiting, BilledWhileItStands, row, money
<1> QED BY <1>1, <1>2

LEMMA WashStep == Inv /\ [Next]_vars => Inv'
<1> SUFFICES ASSUME Inv, [Next]_vars PROVE Inv'
  OBVIOUS
<1>1. CASE Driver
  BY <1>1, RequestStep, ReadStep, MoneyStep DEF Driver
<1>2. CASE Washer \/ Assigned
  BY <1>2, ReadStep DEF Washer, Assigned
<1>3. CASE Commands
  BY <1>3, ReadStep, AcceptStep, AdvanceStep, CancelStep, MoneyStep DEF Commands
<1>4. CASE Gateway
  BY <1>4, MoneyStep DEF Gateway
<1>5. CASE Worker
  BY <1>5, TimeoutReadStep, StaleStep, WidenStep, GiveUpStep, MovedOnStep, DiesStep
     DEF Worker, TimeoutStarts, TimeoutEnds
<1>6. CASE UNCHANGED vars
  <2> USE <1>6 DEF vars, row, money, Inv
  <2>1. TypeOK'
    BY DEF TypeOK
  <2>2. CallsLead' /\ MarketOrWasher' /\ SearchesBehind' /\ WaitingIsWatched' /\ BilledWhileItStands'
    BY DEF CallsLead, MarketOrWasher, SearchesBehind, WaitingIsWatched, Waiting, BilledWhileItStands
  <2> QED BY <2>1, <2>2
<1> QED BY <1>1, <1>2, <1>3, <1>4, <1>5, <1>6 DEF Next

-----------------------------------------------------------------------------
(* The job, its calls and searches, the payments and the reports keep their *)
(* types, for any number of them.                                           *)
THEOREM WashTypeCorrect == Spec => []TypeOK
<1>1. Inv => TypeOK
  BY DEF Inv
<1> QED BY WashInit, WashStep, <1>1, PTL DEF Spec

(* However acceptances, starts, cancellations, searches and captures        *)
(* overtake each other, the driver owes exactly the price of a wash that    *)
(* has a washer and was not called off, and no other wash is refunded.      *)
THEOREM OwedWhileItStands == Spec => []BilledWhileItStands
<1>1. Inv => BilledWhileItStands
  BY DEF Inv
<1> QED BY WashInit, WashStep, <1>1, PTL DEF Spec

(* While a driver waits for a washer, the timeout of the open round is      *)
(* still to come, though giving up is pinned on the status alone.           *)
THEOREM WashWaitingWatched == Spec => []WaitingIsWatched
<1>1. Inv => WaitingIsWatched
  BY DEF Inv
<1> QED BY WashInit, WashStep, <1>1, PTL DEF Spec
=============================================================================
