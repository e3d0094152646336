--------------------------- MODULE PartnerPayout ---------------------------
(***************************************************************************)
(* The weekly RazorpayX payout of one payee: the Monday run owes it, the   *)
(* send job hands it to the gateway, and webhooks and the daily poll say   *)
(* what became of it, while the payee may replace the bank account.        *)
(*                                                                         *)
(* A crash may end a send between any two of its statements; the message   *)
(* stays and is delivered again.  A week's run has ended before the next   *)
(* Monday.  The balance a run reads only grows until it writes: a refund   *)
(* that claws back earnings meanwhile is left out.                         *)
(***************************************************************************)
EXTENDS Postings

CONSTANTS
  LastWeek,      \* bound: Mondays
  Earning,       \* what one booking adds to the payable balance, in paise
  MaxEarnings,   \* bound: bookings
  MaxAccounts,   \* bound: accounts the payee registers, 1, 2, .. in order
  MaxDeaths,     \* bound: sends cut short
  MaxApplies,    \* bound: statuses being applied at a time
  TcsRate, TdsRate

ASSUME PayoutAssumption ==
  /\ LastWeek \in Nat \ {0}
  /\ Earning \in Nat
  /\ MaxEarnings \in Nat /\ MaxAccounts \in Nat /\ MaxDeaths \in Nat /\ MaxApplies \in Nat
  /\ TcsRate \in 0..BasisPoints /\ TdsRate \in 0..BasisPoints

VARIABLES
  week,        \* the payout period of the clock
  earned,      \* bookings credited to the payee so far
  bank,        \* account in bank_details, 0 before there is one
  held,        \* payouts_held_until is ahead
  payouts,     \* the payouts row of each week
  posted,      \* net of the ledger entries that carry the week's payout
  runs,        \* runs that have read the balance and not written
  sends,       \* weeks whose payout.send message is not done with
  sending,     \* how far the delivery of that message is
  deaths,
  gateway,     \* what RazorpayX made of the week's payout
  events,      \* webhooks still to come
  applies,     \* statuses learned and not yet applied
  lapsed       \* weeks paid too long ago for the poll to ask about again

money == <<payouts, posted>>
jobs == <<runs, sends, sending, deaths>>
outside == <<gateway, events, applies, lapsed>>
vars == <<week, earned, bank, held, money, jobs, outside>>

Weeks == 1..LastWeek
Accounts == 0..MaxAccounts
PayoutStatuses == { "none", "pending", "processing", "paid", "failed", "cancelled" }
SendSteps == { "idle", "claimed", "creating", "refused", "created" }
GatewayStatuses == { "none", "created", "processed", "failed", "reversed" }
FailedStatuses == { "failed", "reversed" }   \* PAYOUT_FAILED_STATUSES

(* initiated is the account on file when initiated_at was written; saved,   *)
(* that razorpay_payout_id was.                                             *)
Row(status, gross, account) ==
  [status |-> status, gross |-> gross, account |-> account, initiated |-> 0, saved |-> FALSE]
NoRow == Row("none", 0, 0)

PayoutPosting(gross) == PayoutEntries(gross, TcsRate, TdsRate)
Net(gross) == -PayoutPosting(gross).clearing

(* PAYABLE_BALANCE of partnerPayable *)
PaidOut == [w \in Weeks |-> posted[w].payable]
Balance == earned * Earning - SumTo(PaidOut, LastWeek)

Init ==
  /\ week = 1 /\ earned = 0 /\ bank = 0 /\ held = FALSE
  /\ payouts = [w \in Weeks |-> NoRow]
  /\ posted = [w \in Weeks |-> NoPosting]
  /\ runs = {} /\ sends = {} /\ sending = [w \in Weeks |-> "idle"] /\ deaths = 0
  /\ gateway = [w \in Weeks |-> "none"] /\ events = {} /\ applies = {} /\ lapsed = {}

-----------------------------------------------------------------------------
(* The world: bookings are earned, the week turns, a hold runs out. *)
Earn ==
  /\ earned < MaxEarnings
  /\ earned' = earned + 1
  /\ UNCHANGED <<week, bank, held, money, jobs, outside>>

NextMonday ==
  /\ week < LastWeek
  /\ runs = {}
  /\ week' = week + 1
  /\ UNCHANGED <<earned, bank, held, money, jobs, outside>>

HoldLapses ==
  /\ held
  /\ held' = FALSE
  /\ UNCHANGED <<week, earned, bank, money, jobs, outside>>

-----------------------------------------------------------------------------
(* runWeeklyPayouts and payOne *)
WorthPaying == { paise \in Nat : paise >= MinimumPayout }

PayRead ==
  /\ bank # 0
  /\ Balance \in WorthPaying
  /\ runs = {}
  /\ runs' = { [week |-> week, account |-> bank, gross |-> Balance] }
  /\ UNCHANGED <<week, earned, bank, held, money, sends, sending, deaths, outside>>

(* payouts_user_id_period_key *)
UnpaidThisWeek(w) == payouts[w].status = "none"

PayCommit(run) ==
  /\ run \in runs
  /\ runs' = runs \ {run}
  /\ IF UnpaidThisWeek(run.week)
       THEN /\ payouts' = [payouts EXCEPT ![run.week] = Row("pending", run.gross, run.account)]
            /\ posted' = [posted EXCEPT ![run.week] = PayoutPosting(run.gross)]
            /\ sends' = sends \cup {run.week}
       ELSE UNCHANGED <<money, sends>>
  /\ UNCHANGED <<week, earned, bank, held, sending, deaths, outside>>

-----------------------------------------------------------------------------
(* UpsertBankDetailsCommand and cancelPending *)
UnsentOrSending(w) == payouts[w].status \in { "pending", "processing" }
Unsent(w) == payouts[w].status = "pending"

UpsertBankDetails ==
  /\ bank < MaxAccounts
  /\ bank' = bank + 1
  /\ held' = (bank # 0)
  /\ payouts' = [w \in Weeks |-> IF Unsent(w) THEN [payouts[w] EXCEPT !.status = "cancelled"] ELSE payouts[w]]
  /\ posted' = [w \in Weeks |-> IF Unsent(w) THEN Plus(posted[w], ReverseEntries(posted[w])) ELSE posted[w]]
  /\ UNCHANGED <<week, earned, jobs, outside>>

-----------------------------------------------------------------------------
(* failPayout: everything posted against the payout is taken back, in the   *)
(* transaction that moves the status.                                       *)
ReversalOfPosting(w) == ReverseEntries(PayoutPosting(payouts[w].gross))
Reversal(w) == ReverseEntries(posted[w])

FailPayout(w, from) ==
  IF payouts[w].status \in from
    THEN /\ payouts' = [payouts EXCEPT ![w].status = "failed"]
         /\ posted' = [posted EXCEPT ![w] = Plus(@, Reversal(w))]
    ELSE UNCHANGED money

InFlight == { "pending", "processing" }

-----------------------------------------------------------------------------
(* sendPayout, one statement at a time.  A delivery inside the hold is put  *)
(* off to its end: the message stays.                                       *)
Step(w, step) == sending' = [sending EXCEPT ![w] = step]
Finish(w) == Step(w, "idle") /\ sends' = sends \ {w}

Delivered(w) == w \in sends /\ sending[w] = "idle" /\ ~held

Claim(w) ==
  /\ Delivered(w)
  /\ payouts[w].status = "pending"
  /\ payouts' = [payouts EXCEPT ![w].status = "processing", ![w].initiated = bank]
  /\ Step(w, "claimed")
  /\ UNCHANGED <<week, earned, bank, held, posted, runs, sends, deaths, outside>>

(* A claim whose call may or may not have landed. *)
ClaimedUnseen(w) == FALSE
Unrecorded(w) == payouts[w].status = "processing" /\ ~payouts[w].saved

Resume(w) ==
  /\ Delivered(w)
  /\ Unrecorded(w)
  /\ Step(w, "creating")
  /\ UNCHANGED <<week, earned, bank, held, money, runs, sends, deaths, outside>>

NothingToSend(w) ==
  /\ Delivered(w)
  /\ payouts[w].status # "pending" /\ ~Unrecorded(w)
  /\ Finish(w)
  /\ UNCHANGED <<week, earned, bank, held, money, runs, deaths, outside>>

(* Only a fresh claim asks whether its account is still the payee's. *)
AnyAccount(w) == TRUE
SameAccount(w) == payouts[w].account = bank

CheckAccount(w) ==
  /\ sending[w] = "claimed"
  /\ IF SameAccount(w)
       THEN Step(w, "creating") /\ UNCHANGED <<money, sends>>
       ELSE FailPayout(w, InFlight) /\ Finish(w)
  /\ UNCHANGED <<week, earned, bank, held, runs, deaths, outside>>

(* X-Payout-Idempotency: a payout the gateway has is handed back as it is. *)
Create(w) ==
  /\ sending[w] = "creating"
  /\ gateway' = [gateway EXCEPT ![w] = IF @ = "none" THEN "created" ELSE @]
  /\ Step(w, "created")
  /\ UNCHANGED <<week, earned, bank, held, money, runs, sends, deaths, events, applies, lapsed>>

Refuse(w) ==
  /\ sending[w] = "creating"
  /\ gateway[w] = "none"
  /\ Step(w, "refused")
  /\ UNCHANGED <<week, earned, bank, held, money, runs, sends, deaths, outside>>

FailRefused(w) ==
  /\ sending[w] = "refused"
  /\ FailPayout(w, InFlight)
  /\ Finish(w)
  /\ UNCHANGED <<week, earned, bank, held, runs, deaths, outside>>

SaveId(w) ==
  /\ sending[w] = "created"
  /\ payouts' = [payouts EXCEPT ![w].saved = TRUE]
  /\ Finish(w)
  /\ UNCHANGED <<week, earned, bank, held, posted, runs, deaths, outside>>

(* The worker dies, or RazorpayX is out of reach: delivered again. *)
Die(w) ==
  /\ sending[w] # "idle"
  /\ deaths < MaxDeaths
  /\ deaths' = deaths + 1
  /\ Step(w, "idle")
  /\ UNCHANGED <<week, earned, bank, held, money, runs, sends, outside>>

-----------------------------------------------------------------------------
(* RazorpayX. A webhook may be lost; the poll asks again. *)
GatewayMoves(w, next) ==
  /\ <<gateway[w], next>> \in
       { <<"created", "processed">>, <<"created", "failed">>, <<"processed", "reversed">> }
  /\ gateway' = [gateway EXCEPT ![w] = next]
  /\ events' = events \cup {[week |-> w, status |-> next]}
  /\ UNCHANGED <<week, earned, bank, held, money, jobs, applies, lapsed>>

LoseEvent(event) ==
  /\ event \in events
  /\ events' = events \ {event}
  /\ UNCHANGED <<week, earned, bank, held, money, jobs, gateway, applies, lapsed>>

Learn(w, status, by, rest) ==
  /\ Cardinality(applies) < MaxApplies
  /\ applies' = applies \cup {[week |-> w, status |-> status, by |-> by, seen |-> "none"]}
  /\ events' = rest
  /\ UNCHANGED <<week, earned, bank, held, money, jobs, gateway>>

(* applyPayoutStatusJob: an event that outran SaveId is retried. *)
Webhook(event) ==
  /\ event \in events
  /\ payouts[event.week].saved
  /\ Learn(event.week, event.status, "webhook", events \ {event})
  /\ UNCHANGED lapsed

(* reconcilePayouts, one run at a time: what is in flight, and what was     *)
(* paid within REVERSAL_LOOKBACK_MS, seven days.  Any poll of a paid payout *)
(* may be the last that falls within them.                                  *)
PolledInFlightOnly == { "processing" }
Polled == { "processing", "paid" }

Poll(w) ==
  /\ payouts[w].status \in Polled
  /\ payouts[w].status = "paid" => w \notin lapsed
  /\ payouts[w].saved
  /\ gateway[w] # "created"
  /\ \A a \in applies : a.by = "poll" => a.week # w
  /\ Learn(w, gateway[w], "poll", events)
  /\ \/ UNCHANGED lapsed
     \/ payouts[w].status = "paid" /\ lapsed' = lapsed \cup {w}

-----------------------------------------------------------------------------
(* applyPayoutStatus: a failure is read against the status and written in   *)
(* two steps, a success in one.                                             *)
ReadBeforeFailing(a) ==
  /\ a \in applies /\ a.status \in FailedStatuses /\ a.seen = "none"
  /\ applies' = (applies \ {a}) \cup {[a EXCEPT !.seen = payouts[a.week].status]}
  /\ UNCHANGED <<week, earned, bank, held, money, jobs, gateway, events, lapsed>>

(* Only a reversal undoes a paid payout. *)
ApplyFailure(a) ==
  /\ a \in applies /\ a.status \in FailedStatuses /\ a.seen # "none"
  /\ IF a.seen # "paid" THEN FailPayout(a.week, InFlight)
     ELSE IF a.status = "reversed" THEN FailPayout(a.week, {"paid"})
     ELSE UNCHANGED money
  /\ applies' = applies \ {a}
  /\ UNCHANGED <<week, earned, bank, held, jobs, gateway, events, lapsed>>

ApplyProcessed(a) ==
  /\ a \in applies /\ a.status = "processed"
  /\ IF payouts[a.week].status = "processing"
       THEN /\ payouts' = [payouts EXCEPT ![a.week].status = "paid"]
            /\ posted' = [posted EXCEPT ![a.week] = Plus(@, SettlementCleared(Net(payouts[a.week].gross)))]
       ELSE UNCHANGED money
  /\ applies' = applies \ {a}
  /\ UNCHANGED <<week, earned, bank, held, jobs, gateway, events, lapsed>>

-----------------------------------------------------------------------------
Send(w) ==
  \/ Claim(w) \/ Resume(w) \/ NothingToSend(w) \/ CheckAccount(w)
  \/ Create(w) \/ Refuse(w) \/ FailRefused(w) \/ SaveId(w)

Apply(a) == ReadBeforeFailing(a) \/ ApplyFailure(a) \/ ApplyProcessed(a)

Learned(w) == \E a \in applies : a.week = w /\ Apply(a)

Settles(w) == GatewayMoves(w, "processed") \/ GatewayMoves(w, "failed")

Next ==
  \/ Earn \/ NextMonday \/ HoldLapses \/ UpsertBankDetails
  \/ PayRead \/ \E run \in runs : PayCommit(run)
  \/ \E w \in Weeks : Send(w) \/ Die(w) \/ Poll(w)
  \/ \E w \in Weeks, next \in GatewayStatuses : GatewayMoves(w, next)
  \/ \E event \in events : LoseEvent(event) \/ Webhook(event)
  \/ \E a \in applies : Apply(a)

Spec == Init /\ [][Next]_vars

(* The queue redelivers, the poll is daily, a hold is 48 hours, and the     *)
(* gateway decides every payout.  Nobody need earn, run, or change anything.*)
FairSpec ==
  /\ Spec
  /\ WF_vars(HoldLapses)
  /\ \A w \in Weeks :
       WF_vars(Send(w)) /\ WF_vars(Settles(w)) /\ SF_vars(Poll(w)) /\ WF_vars(Learned(w))

-----------------------------------------------------------------------------
TypeOK ==
  /\ week \in Weeks /\ earned \in 0..MaxEarnings /\ bank \in Accounts /\ held \in BOOLEAN
  /\ payouts \in [Weeks -> [status : PayoutStatuses, gross : Nat, account : Accounts,
                            initiated : Accounts, saved : BOOLEAN]]
  /\ posted \in [Weeks -> PostingRecords]
  /\ runs \subseteq [week : Weeks, account : Accounts, gross : Nat]
  /\ sends \subseteq Weeks /\ sending \in [Weeks -> SendSteps] /\ deaths \in 0..MaxDeaths
  /\ gateway \in [Weeks -> GatewayStatuses]
  /\ events \subseteq [week : Weeks, status : GatewayStatuses]
  /\ applies \subseteq [week : Weeks, status : GatewayStatuses, by : { "webhook", "poll" }, seen : PayoutStatuses]
  /\ lapsed \subseteq Weeks

Carried(payout) ==
  CASE payout.status \in { "none", "failed", "cancelled" } -> NoPosting
    [] payout.status \in InFlight -> PayoutPosting(payout.gross)
    [] payout.status = "paid" -> Plus(PayoutPosting(payout.gross), SettlementCleared(Net(payout.gross)))

(* However a payout came to its status, and whatever raced it there (the    *)
(* webhook, the poll, a bank change, a refusal), the entries that carry it  *)
(* are those of that status: nothing once it failed or was cancelled, the   *)
(* transit leg open while it is on its way and closed once it is paid.      *)
LedgerFollowsStatus == \A w \in Weeks : posted[w] = Carried(payouts[w])

Sent == [w \in Weeks |-> IF gateway[w] \in { "created", "processed" } THEN payouts[w].gross ELSE 0]

(* What is at the gateway or already with the payee never exceeds what the  *)
(* payee earned: no payout is owed again while its money may still arrive.  *)
NeverOverpaid == SumTo(Sent, LastWeek) =< earned * Earning

(* "The old account must never receive money after a change": an account    *)
(* that had been replaced when its payout was claimed is not paid, as long  *)
(* as no send was cut short.  After one that was it can be: Resume goes to  *)
(* the gateway without asking again.                                        *)
ReplacedIsNotPaid ==
  deaths = 0 => \A w \in Weeks : gateway[w] # "none" => payouts[w].account = payouts[w].initiated

(* A payout the run committed is decided: it does not stay half sent after  *)
(* a crash, or in flight because a webhook was lost.                        *)
PayoutResolves ==
  \A w \in Weeks : payouts[w].status \in InFlight ~> payouts[w].status \notin InFlight

(* Money the gateway could not deliver, or the bank sent back after it was  *)
(* reported paid, is owed again, in whatever order the two were heard and   *)
(* though every webhook is lost, as long as the poll still asks: once it    *)
(* asked for the last time, a return is heard of by webhook or not at all.  *)
ReturnedIsOwedAgain ==
  \A w \in Weeks :
    gateway[w] \in FailedStatuses /\ w \notin lapsed ~> payouts[w].status = "failed"
=============================================================================
