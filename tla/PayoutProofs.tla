---------------------------- MODULE PayoutProofs ----------------------------
(***************************************************************************)
(* PartnerPayout for any number of weeks, bookings, accounts, crashes and  *)
(* reports: types, that the ledger follows the status of every payout,     *)
(* that a replaced account is not paid by a send that was not cut short,   *)
(* and that the payee is never paid more than was earned.                  *)
(***************************************************************************)
EXTENDS PartnerPayout, MoneyProofs

PayoutRows ==
  [status : PayoutStatuses, gross : Nat, account : Accounts, initiated : Accounts, saved : BOOLEAN]
RunRecords == [week : Weeks, account : Accounts, gross : Nat]
EventRecords == [week : Weeks, status : GatewayStatuses]
ApplyRecords ==
  [week : Weeks, status : GatewayStatuses, by : { "webhook", "poll" }, seen : PayoutStatuses]

LEMMA PayoutPostingFacts ==
  ASSUME NEW gross \in Nat
  PROVE  /\ PayoutPosting(gross) \in PostingRecords
         /\ Net(gross) \in Int
         /\ SettlementCleared(Net(gross)) \in PostingRecords
<1>1. PayoutPosting(gross) \in PostingRecords
  BY PayoutAssumption, PayoutPostingBalances DEF PayoutPosting
<1>2. Net(gross) \in Int
  BY <1>1 DEF Net, PostingRecords
<1> QED BY <1>1, <1>2 DEF SettlementCleared, Posting, PostingRecords

LEMMA SumOfPostings ==
  ASSUME NEW p \in PostingRecords, NEW o \in PostingRecords
  PROVE  Plus(p, o) \in PostingRecords
BY DEF Plus, Posting, PostingRecords

LEMMA ReversedIsNothing ==
  ASSUME NEW p \in PostingRecords
  PROVE  Plus(p, ReverseEntries(p)) = NoPosting
BY DEF Plus, ReverseEntries, NoPosting, Posting, PostingRecords

LEMMA CarriedType == ASSUME NEW p \in PayoutRows PROVE Carried(p) \in PostingRecords
<1>1. p.gross \in Nat /\ p.status \in PayoutStatuses
  BY DEF PayoutRows
<1>2. NoPosting \in PostingRecords
  BY DEF NoPosting, Posting, PostingRecords
<1>3. PayoutPosting(p.gross) \in PostingRecords
      /\ Plus(PayoutPosting(p.gross), SettlementCleared(Net(p.gross))) \in PostingRecords
  BY <1>1, PayoutPostingFacts, SumOfPostings
<1> QED BY <1>1, <1>2, <1>3 DEF Carried, InFlight, PayoutStatuses

LEMMA CarriedByStatus ==
  ASSUME NEW p
  PROVE  /\ p.status \in { "none", "failed", "cancelled" } => Carried(p) = NoPosting
         /\ p.status \in { "pending", "processing" } => Carried(p) = PayoutPosting(p.gross)
         /\ p.status = "paid" =>
              Carried(p) = Plus(PayoutPosting(p.gross), SettlementCleared(Net(p.gross)))
BY DEF Carried, InFlight

-----------------------------------------------------------------------------
(* Before its claim a payout has not been near the gateway, and before its  *)
(* run there is nothing to send.                                            *)
NothingBeforeClaim ==
  \A w \in Weeks :
    /\ payouts[w].status \in { "none", "pending" } => sending[w] = "idle" /\ gateway[w] = "none"
    /\ payouts[w].status = "none" => w \notin sends

(* Accounts are replaced by later ones only. *)
AccountsInOrder ==
  /\ \A run \in runs : run.account =< bank
  /\ \A w \in Weeks : payouts[w].account =< bank /\ payouts[w].initiated =< bank

(* A fresh claim is of the account that was on file, or is still to be      *)
(* checked; without a crash every claim is a fresh one.                     *)
ClaimIsChecked ==
  \A w \in Weeks :
    /\ sending[w] = "claimed" => payouts[w].account =< payouts[w].initiated
    /\ deaths = 0 =>
         /\ sending[w] \in { "creating", "refused", "created" } => payouts[w].account = payouts[w].initiated
         /\ gateway[w] # "none" => payouts[w].account = payouts[w].initiated
         /\ w \in sends /\ sending[w] = "idle" => payouts[w].status # "processing"

SendInv == NothingBeforeClaim /\ AccountsInOrder /\ ClaimIsChecked

Inv == TypeOK /\ LedgerFollowsStatus /\ SendInv

LEMMA PayoutInit == Init => Inv
<1> SUFFICES ASSUME Init PROVE Inv
  OBVIOUS
<1> USE PayoutAssumption DEF Init
<1>1. NoRow \in PayoutRows /\ NoRow.status = "none" /\ NoRow.account = 0 /\ NoRow.initiated = 0
  BY DEF NoRow, Row, PayoutRows, PayoutStatuses, Accounts
<1>2. NoPosting \in PostingRecords
  BY DEF NoPosting, Posting, PostingRecords
<1>3. TypeOK
  <2>1. week \in Weeks /\ earned \in 0..MaxEarnings /\ bank \in Accounts /\ deaths \in 0..MaxDeaths
    BY DEF Weeks, Accounts
  <2>2. held \in BOOLEAN
    OBVIOUS
  <2>3. payouts \in [Weeks -> PayoutRows] /\ posted \in [Weeks -> PostingRecords]
    BY <1>1, <1>2
  <2>4. sending \in [Weeks -> SendSteps] /\ gateway \in [Weeks -> GatewayStatuses]
    BY DEF SendSteps, GatewayStatuses
  <2> QED BY <2>1, <2>2, <2>3, <2>4 DEF TypeOK, PayoutRows
<1>4. LedgerFollowsStatus
  BY <1>1, CarriedByStatus DEF LedgerFollowsStatus
<1>5. SendInv
  BY <1>1 DEF SendInv, NothingBeforeClaim, AccountsInOrder, ClaimIsChecked
<1> QED BY <1>3, <1>4, <1>5 DEF Inv

-----------------------------------------------------------------------------
(* Rows that are at most decided, while sends and gateway stand still.      *)
OnlyDecided ==
  \A w \in Weeks :
    /\ payouts'[w].account = payouts[w].account /\ payouts'[w].initiated = payouts[w].initiated
    /\ \/ payouts'[w].status = payouts[w].status
       \/ payouts[w].status # "none" /\ payouts'[w].status \in { "paid", "failed", "cancelled" }

LEMMA DecidedStep ==
  ASSUME TypeOK, SendInv, OnlyDecided, bank' \in Accounts, bank' >= bank,
         UNCHANGED <<runs, sends, sending, deaths, gateway>>
  PROVE  SendInv'
<1> USE PayoutAssumption DEF OnlyDecided, TypeOK, Accounts
<1>1. NothingBeforeClaim'
  BY DEF SendInv, NothingBeforeClaim
<1>2. AccountsInOrder'
  BY DEF SendInv, AccountsInOrder
<1>3. ClaimIsChecked'
  BY DEF SendInv, ClaimIsChecked
<1> QED BY <1>1, <1>2, <1>3 DEF SendInv

(* A failed payout carries nothing, and nobody else's payout is touched.    *)
LEMMA FailFacts ==
  ASSUME TypeOK, LedgerFollowsStatus, NEW w \in Weeks,
         NEW from \in SUBSET { "pending", "processing", "paid" }, FailPayout(w, from)
  PROVE  /\ payouts' \in [Weeks -> PayoutRows] /\ posted' \in [Weeks -> PostingRecords]
         /\ LedgerFollowsStatus'
         /\ OnlyDecided
<1>1. CASE payouts[w].status \notin from
  BY <1>1 DEF FailPayout, money, TypeOK, PayoutRows, LedgerFollowsStatus, OnlyDecided
<1>2. CASE payouts[w].status \in from
  <2>1. payouts' = [payouts EXCEPT ![w].status = "failed"] /\ payouts \in [Weeks -> PayoutRows]
        /\ posted' = [posted EXCEPT ![w] = Plus(@, Reversal(w))] /\ posted \in [Weeks -> PostingRecords]
    BY <1>2 DEF FailPayout, TypeOK, PayoutRows
  <2>2. posted'[w] = NoPosting
    BY <2>1, ReversedIsNothing DEF Reversal
  <2>3. posted' \in [Weeks -> PostingRecords] /\ \A v \in Weeks \ {w} : posted'[v] = posted[v]
    BY <2>1, <2>2 DEF NoPosting, Posting, PostingRecords
  <2>4. payouts' \in [Weeks -> PayoutRows] /\ payouts'[w].status = "failed"
        /\ \A v \in Weeks \ {w} : payouts'[v] = payouts[v]
    BY <2>1 DEF PayoutRows, PayoutStatuses
  <2>5. OnlyDecided
    BY <1>2, <2>1, <2>4 DEF OnlyDecided, PayoutRows
  <2>6. LedgerFollowsStatus'
    BY <2>2, <2>3, <2>4, CarriedByStatus DEF LedgerFollowsStatus
  <2> QED BY <2>3, <2>4, <2>5, <2>6
<1> QED BY <1>1, <1>2

(* Steps that touch neither rows nor sends. *)
LEMMA QuietStep ==
  ASSUME Inv, UNCHANGED <<bank, money, runs, sends, sending, deaths>>, TypeOK',
         \A w \in Weeks : gateway'[w] # "none" => gateway[w] # "none"
  PROVE  Inv'
<1> USE DEF Inv, money
<1>1. LedgerFollowsStatus'
  BY DEF LedgerFollowsStatus
<1>2. SendInv'
  BY DEF SendInv, NothingBeforeClaim, AccountsInOrder, ClaimIsChecked
<1> QED BY <1>1, <1>2

-----------------------------------------------------------------------------
LEMMA WorldStep == Inv /\ (Earn \/ NextMonday \/ HoldLapses) => Inv'
<1> SUFFICES ASSUME Inv, Earn \/ NextMonday \/ HoldLapses PROVE Inv'
  OBVIOUS
<1>1. UNCHANGED <<bank, money, jobs, outside>>
  BY DEF Earn, NextMonday, HoldLapses
<1>2. week' \in Weeks /\ earned' \in 0..MaxEarnings
  BY PayoutAssumption DEF Inv, TypeOK, Earn, NextMonday, HoldLapses, Weeks
<1>3. held' \in BOOLEAN
  BY DEF Inv, TypeOK, Earn, NextMonday, HoldLapses
<1>4. TypeOK'
  BY <1>1, <1>2, <1>3 DEF Inv, TypeOK, money, jobs, outside
<1> QED BY <1>1, <1>4, QuietStep DEF jobs, outside

LEMMA GatewayStep ==
  ASSUME Inv, \/ \E w \in Weeks, next \in GatewayStatuses : GatewayMoves(w, next)
              \/ \E event \in events : LoseEvent(event) \/ Webhook(event)
              \/ \E w \in Weeks : Poll(w)
              \/ \E a \in applies : ReadBeforeFailing(a)
  PROVE  Inv'
<1>1. UNCHANGED <<week, earned, bank, held, money, jobs>>
      /\ \A w \in Weeks : gateway'[w] # "none" => gateway[w] # "none"
  BY DEF GatewayMoves, LoseEvent, Webhook, Poll, Learn, ReadBeforeFailing, Inv, TypeOK
<1>2. gateway' \in [Weeks -> GatewayStatuses]
  BY DEF GatewayMoves, LoseEvent, Webhook, Poll, Learn, ReadBeforeFailing, Inv, TypeOK
<1>3. events' \subseteq EventRecords
  BY DEF GatewayMoves, LoseEvent, Webhook, Poll, Learn, ReadBeforeFailing, Inv, TypeOK, EventRecords
<1>4. applies' \subseteq ApplyRecords
  <2>1. \A w \in Weeks : payouts[w].status \in PayoutStatuses
    BY DEF Inv, TypeOK
  <2> USE <2>1 DEF Inv, TypeOK, ApplyRecords
  <2>2. CASE \E w \in Weeks, next \in GatewayStatuses : GatewayMoves(w, next)
    BY <2>2 DEF GatewayMoves
  <2>3. CASE \E event \in events : LoseEvent(event)
    BY <2>3 DEF LoseEvent
  <2>4. CASE \E event \in events : Webhook(event)
    BY <2>4 DEF Webhook, Learn, PayoutStatuses
  <2>5. CASE \E w \in Weeks : Poll(w)
    BY <2>5 DEF Poll, Learn, PayoutStatuses
  <2>6. CASE \E a \in applies : ReadBeforeFailing(a)
    BY <2>6 DEF ReadBeforeFailing
  <2> QED BY <2>2, <2>3, <2>4, <2>5, <2>6
<1>5. lapsed' \subseteq Weeks
  BY DEF GatewayMoves, LoseEvent, Webhook, Poll, Learn, ReadBeforeFailing, Inv, TypeOK
<1>6. TypeOK'
  BY <1>1, <1>2, <1>3, <1>4, <1>5 DEF Inv, TypeOK, money, jobs, EventRecords, ApplyRecords
<1> QED BY <1>1, <1>6, QuietStep DEF jobs

-----------------------------------------------------------------------------
(* The Monday run. *)
LEMMA PayReadStep == Inv /\ PayRead => Inv'
<1> SUFFICES ASSUME Inv, PayRead PROVE Inv'
  OBVIOUS
<1> DEFINE gross == Balance
           run == [week |-> week, account |-> bank, gross |-> gross]
<1>1. runs' = {run} /\ UNCHANGED <<week, earned, bank, held, money, sends, sending, deaths, outside>>
  BY DEF PayRead
<1>2. gross \in Nat
  BY DEF PayRead, WorthPaying
<1> HIDE DEF gross
<1>3. run \in RunRecords /\ run.account = bank /\ bank =< bank
  BY <1>2 DEF Inv, TypeOK, RunRecords, Accounts
<1> HIDE DEF run
<1>4. TypeOK'
  BY <1>1, <1>3 DEF Inv, TypeOK, RunRecords, money, outside
<1>5. LedgerFollowsStatus'
  BY <1>1 DEF Inv, LedgerFollowsStatus, money
<1>6. SendInv'
  BY <1>1, <1>3 DEF Inv, SendInv, NothingBeforeClaim, AccountsInOrder, ClaimIsChecked, money, outside
<1> QED BY <1>4, <1>5, <1>6 DEF Inv

LEMMA PayCommitStep == ASSUME Inv, NEW run, PayCommit(run) PROVE Inv'
<1>1. run \in runs /\ run.week \in Weeks /\ run.account \in Accounts /\ run.account =< bank /\ run.gross \in Nat
      /\ runs' = runs \ {run} /\ UNCHANGED <<week, earned, bank, held, sending, deaths, outside>>
  BY DEF PayCommit, Inv, TypeOK, SendInv, AccountsInOrder
<1>2. CASE ~ UnpaidThisWeek(run.week)
  <2>1. UNCHANGED <<money, sends>>
    BY <1>2 DEF PayCommit
  <2>2. TypeOK'
    BY <1>1, <2>1 DEF Inv, TypeOK, money, outside
  <2>3. LedgerFollowsStatus'
    BY <2>1 DEF Inv, LedgerFollowsStatus, money
  <2>4. SendInv'
    BY <1>1, <2>1 DEF Inv, SendInv, NothingBeforeClaim, AccountsInOrder, ClaimIsChecked, money, outside
  <2> QED BY <2>2, <2>3, <2>4 DEF Inv
<1>3. CASE UnpaidThisWeek(run.week)
  <2> DEFINE w == run.week
             fresh == Row("pending", run.gross, run.account)
  <2>1. w \in Weeks /\ payouts[w].status = "none" /\ sends' = sends \cup {w}
        /\ payouts' = [payouts EXCEPT ![w] = fresh] /\ posted' = [posted EXCEPT ![w] = PayoutPosting(run.gross)]
    BY <1>1, <1>3 DEF PayCommit, UnpaidThisWeek
  <2>2. fresh \in PayoutRows /\ fresh.status = "pending" /\ fresh.gross = run.gross
        /\ fresh.account = run.account /\ fresh.initiated = 0
    BY <1>1, PayoutAssumption DEF Row, PayoutRows, PayoutStatuses, Accounts
  <2>3. PayoutPosting(run.gross) \in PostingRecords /\ PayoutPosting(run.gross) = Carried(fresh)
    BY <1>1, <2>2, PayoutPostingFacts, CarriedByStatus
  <2> HIDE DEF fresh, w
  <2>4. payouts' \in [Weeks -> PayoutRows] /\ posted' \in [Weeks -> PostingRecords]
        /\ payouts'[w] = fresh /\ posted'[w] = Carried(fresh)
        /\ \A v \in Weeks \ {w} : payouts'[v] = payouts[v] /\ posted'[v] = posted[v]
    BY <2>1, <2>2, <2>3 DEF Inv, TypeOK, PayoutRows
  <2>5. TypeOK'
    BY <1>1, <2>1, <2>4 DEF Inv, TypeOK, PayoutRows, outside
  <2>6. LedgerFollowsStatus'
    BY <2>4 DEF Inv, LedgerFollowsStatus
  <2>7. sending[w] = "idle" /\ gateway[w] = "none"
    BY <2>1 DEF Inv, SendInv, NothingBeforeClaim
  <2>8. NothingBeforeClaim' /\ ClaimIsChecked'
    BY <1>1, <2>1, <2>2, <2>4, <2>7 DEF Inv, SendInv, NothingBeforeClaim, ClaimIsChecked, outside
  <2>9. AccountsInOrder'
    BY <1>1, <2>1, <2>2, <2>4 DEF Inv, TypeOK, Accounts, SendInv, AccountsInOrder
  <2> QED BY <2>5, <2>6, <2>8, <2>9 DEF Inv, SendInv
<1> QED BY <1>2, <1>3

-----------------------------------------------------------------------------
(* A new account cancels what is pending and nothing else. *)
LEMMA BankStep == Inv /\ UpsertBankDetails => Inv'
<1> SUFFICES ASSUME Inv, UpsertBankDetails PROVE Inv'
  OBVIOUS
<1>1. bank' \in Accounts /\ bank' >= bank /\ held' \in BOOLEAN /\ UNCHANGED <<week, earned, jobs, outside>>
  BY PayoutAssumption DEF UpsertBankDetails, Inv, TypeOK, Accounts
<1>2. ASSUME NEW w \in Weeks
      PROVE  /\ payouts[w] \in PayoutRows /\ payouts'[w] \in PayoutRows
             /\ posted[w] \in PostingRecords /\ posted'[w] \in PostingRecords
             /\ payouts'[w].account = payouts[w].account /\ payouts'[w].initiated = payouts[w].initiated
             /\ \/ payouts'[w].status = payouts[w].status
                \/ payouts[w].status # "none" /\ payouts'[w].status \in { "paid", "failed", "cancelled" }
             /\ posted'[w] = Carried(payouts'[w])
  <2>1. payouts[w] \in PayoutRows /\ posted[w] \in PostingRecords /\ posted[w] = Carried(payouts[w])
    BY DEF Inv, TypeOK, PayoutRows, LedgerFollowsStatus
  <2>2. CASE Unsent(w)
    <3>1. payouts'[w] = [payouts[w] EXCEPT !.status = "cancelled"] /\ payouts[w].status = "pending"
      BY <2>2 DEF UpsertBankDetails, Unsent
    <3>2. posted'[w] = NoPosting
      BY <2>1, <2>2, ReversedIsNothing DEF UpsertBankDetails
    <3>3. payouts'[w] \in PayoutRows /\ payouts'[w].status = "cancelled"
          /\ payouts'[w].account = payouts[w].account /\ payouts'[w].initiated = payouts[w].initiated
      BY <2>1, <3>1 DEF PayoutRows, PayoutStatuses
    <3>4. NoPosting \in PostingRecords
      BY DEF NoPosting, Posting, PostingRecords
    <3> QED BY <2>1, <3>1, <3>2, <3>3, <3>4, CarriedByStatus
  <2>3. CASE ~ Unsent(w)
    <3>1. payouts'[w] = payouts[w] /\ posted'[w] = posted[w]
      BY <2>3 DEF UpsertBankDetails
    <3> QED BY <2>1, <3>1
  <2> QED BY <2>2, <2>3
<1>3. payouts' = [w \in Weeks |-> payouts'[w]] /\ posted' = [w \in Weeks |-> posted'[w]]
  BY DEF UpsertBankDetails
<1>4. payouts' \in [Weeks -> PayoutRows] /\ posted' \in [Weeks -> PostingRecords]
  BY <1>2, <1>3
<1>5. TypeOK'
  BY <1>1, <1>4 DEF Inv, TypeOK, PayoutRows, jobs, outside
<1>6. LedgerFollowsStatus'
  BY <1>2 DEF LedgerFollowsStatus
<1>7. SendInv'
  BY <1>1, <1>2, DecidedStep DEF Inv, OnlyDecided, jobs, outside
<1> QED BY <1>5, <1>6, <1>7 DEF Inv

(* What is heard of a payout decides its row and nothing else. *)
LEMMA ApplyStep == ASSUME Inv, NEW a \in applies, ApplyFailure(a) \/ ApplyProcessed(a) PROVE Inv'
<1>1. a.week \in Weeks /\ applies' \subseteq applies
      /\ UNCHANGED <<week, earned, bank, held, jobs, gateway, events, lapsed>>
  BY DEF ApplyFailure, ApplyProcessed, Inv, TypeOK
<1>2. /\ payouts' \in [Weeks -> PayoutRows] /\ posted' \in [Weeks -> PostingRecords]
      /\ LedgerFollowsStatus'
      /\ OnlyDecided
  <2>1. CASE \E from \in SUBSET { "pending", "processing", "paid" } : FailPayout(a.week, from)
    BY <1>1, <2>1, FailFacts DEF Inv
  <2>2. CASE UNCHANGED money
    BY <2>2 DEF money, Inv, TypeOK, PayoutRows, LedgerFollowsStatus, OnlyDecided
  <2>3. CASE ApplyFailure(a)
    BY <2>1, <2>2, <2>3 DEF ApplyFailure, InFlight
  <2>4. CASE ApplyProcessed(a) /\ payouts[a.week].status = "processing"
    <3> DEFINE w == a.week
               cleared == SettlementCleared(Net(payouts[w].gross))
    <3>1. w \in Weeks /\ payouts[w] \in PayoutRows /\ payouts[w].gross \in Nat /\ payouts[w].status = "processing"
          /\ payouts \in [Weeks -> PayoutRows] /\ posted \in [Weeks -> PostingRecords]
          /\ payouts' = [payouts EXCEPT ![w].status = "paid"] /\ posted' = [posted EXCEPT ![w] = Plus(@, cleared)]
      BY <1>1, <2>4 DEF ApplyProcessed, Inv, TypeOK, PayoutRows
    <3>2. posted[w] = PayoutPosting(payouts[w].gross)
      BY <3>1, CarriedByStatus DEF Inv, LedgerFollowsStatus
    <3>3. Plus(posted[w], cleared) \in PostingRecords
      BY <3>1, PayoutPostingFacts, SumOfPostings
    <3>4. posted'[w] = Plus(PayoutPosting(payouts[w].gross), cleared)
      BY <3>1, <3>2
    <3>5. payouts' \in [Weeks -> PayoutRows] /\ payouts'[w].status = "paid" /\ payouts'[w].gross = payouts[w].gross
          /\ payouts'[w].account = payouts[w].account /\ payouts'[w].initiated = payouts[w].initiated
          /\ \A v \in Weeks \ {w} : payouts'[v] = payouts[v]
      BY <3>1 DEF PayoutRows, PayoutStatuses
    <3>6. posted' \in [Weeks -> PostingRecords] /\ \A v \in Weeks \ {w} : posted'[v] = posted[v]
      BY <3>1, <3>3
    <3>7. posted'[w] = Carried(payouts'[w])
      BY <3>4, <3>5, CarriedByStatus
    <3> HIDE DEF w
    <3>8. LedgerFollowsStatus'
      BY <3>5, <3>6, <3>7 DEF Inv, LedgerFollowsStatus
    <3>9. OnlyDecided
      BY <3>1, <3>5 DEF OnlyDecided
    <3> QED BY <3>5, <3>6, <3>8, <3>9
  <2>5. CASE ApplyProcessed(a) /\ payouts[a.week].status # "processing"
    BY <2>2, <2>5 DEF ApplyProcessed
  <2> QED BY <2>3, <2>4, <2>5
<1>3. TypeOK'
  BY <1>1, <1>2 DEF Inv, TypeOK, PayoutRows, jobs
<1>4. SendInv'
  BY <1>1, <1>2, DecidedStep DEF Inv, TypeOK, Accounts, jobs
<1> QED BY <1>2, <1>3, <1>4 DEF Inv

-----------------------------------------------------------------------------
(* The send.  A step that leaves rows and gateway alone moves the delivery  *)
(* on, ends it, or cuts it short.                                           *)
MovesTo(w, step) ==
  /\ sending' = [sending EXCEPT ![w] = step]
  /\ UNCHANGED <<week, earned, bank, held, money, runs, outside>>
  /\ sends' \subseteq sends /\ deaths' \in 0..MaxDeaths /\ deaths' >= deaths
  /\ \/ deaths' > 0 /\ step = "idle"
     \/ step = "idle" /\ w \notin sends'
     \/ step = "creating" /\ sending[w] = "claimed" /\ SameAccount(w)
     \/ step = "refused" /\ sending[w] = "creating"
     \/ step = "creating" /\ payouts[w].status = "processing" /\ w \in sends /\ sending[w] = "idle"
  /\ payouts[w].status \in { "none", "pending" } => step = "idle"

LEMMA MovesDelivery ==
  ASSUME Inv, NEW w \in Weeks, NEW step \in SendSteps, MovesTo(w, step)
  PROVE  Inv'
<1> USE DEF MovesTo
<1>1. TypeOK'
  BY DEF Inv, TypeOK, money, outside
<1>2. LedgerFollowsStatus'
  BY DEF Inv, LedgerFollowsStatus, money
<1>3. sending'[w] = step /\ \A v \in Weeks \ {w} : sending'[v] = sending[v]
  BY DEF Inv, TypeOK
<1>4. NothingBeforeClaim'
  BY <1>3 DEF Inv, SendInv, NothingBeforeClaim, money, outside
<1>5. AccountsInOrder'
  BY DEF Inv, SendInv, AccountsInOrder, money, outside
<1>6. deaths' = 0 => deaths = 0
  BY PayoutAssumption DEF Inv, TypeOK
<1>7. SameAccount(w) /\ sending[w] = "claimed" => payouts[w].account = payouts[w].initiated
  <2>1. payouts[w].account \in Nat /\ payouts[w].initiated \in Nat /\ bank \in Nat
    BY PayoutAssumption DEF Inv, TypeOK, Accounts
  <2>2. /\ payouts[w].initiated =< bank
        /\ sending[w] = "claimed" => payouts[w].account =< payouts[w].initiated
    BY DEF Inv, SendInv, AccountsInOrder, ClaimIsChecked
  <2> QED BY <2>1, <2>2 DEF SameAccount
<1>8. ClaimIsChecked'
  <2> SUFFICES ASSUME NEW v \in Weeks
               PROVE  /\ sending'[v] = "claimed" => payouts[v].account =< payouts[v].initiated
                      /\ deaths' = 0 =>
                           /\ sending'[v] \in { "creating", "refused", "created" } => payouts[v].account = payouts[v].initiated
                           /\ gateway[v] # "none" => payouts[v].account = payouts[v].initiated
                           /\ v \in sends' /\ sending'[v] = "idle" => payouts[v].status # "processing"
    BY DEF ClaimIsChecked, money, outside
  <2>1. CASE v # w
    BY <1>3, <1>6, <2>1 DEF Inv, SendInv, ClaimIsChecked
  <2>2. CASE v = w
    BY <1>3, <1>6, <1>7, <2>2 DEF Inv, SendInv, ClaimIsChecked
  <2> QED BY <2>1, <2>2
<1> QED BY <1>1, <1>2, <1>4, <1>5, <1>8 DEF Inv, SendInv

LEMMA DeliveryStep ==
  ASSUME Inv, NEW w \in Weeks,
         \/ Resume(w) \/ NothingToSend(w) \/ Refuse(w) \/ Die(w)
         \/ CheckAccount(w) /\ SameAccount(w)
  PROVE  Inv'
<1> USE DEF SendSteps, Step
<1>1. payouts[w].status \in { "none", "pending" } => sending[w] = "idle"
  BY DEF Inv, SendInv, NothingBeforeClaim
<1>2. deaths \in 0..MaxDeaths /\ MaxDeaths \in Nat
  BY PayoutAssumption DEF Inv, TypeOK
<1>3. CASE Resume(w)
  <2>1. MovesTo(w, "creating")
    BY <1>1, <1>2, <1>3 DEF MovesTo, Resume, Delivered, Unrecorded
  <2> QED BY <2>1, MovesDelivery
<1>4. CASE NothingToSend(w)
  <2>1. MovesTo(w, "idle")
    BY <1>1, <1>2, <1>4 DEF MovesTo, NothingToSend, Finish
  <2> QED BY <2>1, MovesDelivery
<1>5. CASE Refuse(w)
  <2>1. MovesTo(w, "refused")
    BY <1>1, <1>2, <1>5 DEF MovesTo, Refuse
  <2> QED BY <2>1, MovesDelivery
<1>6. CASE Die(w)
  <2>1. MovesTo(w, "idle")
    BY <1>1, <1>2, <1>6 DEF MovesTo, Die
  <2> QED BY <2>1, MovesDelivery
<1>7. CASE CheckAccount(w) /\ SameAccount(w)
  <2>1. MovesTo(w, "creating")
    BY <1>1, <1>2, <1>7 DEF MovesTo, CheckAccount
  <2> QED BY <2>1, MovesDelivery
<1> QED BY <1>3, <1>4, <1>5, <1>6, <1>7

LEMMA FailedSendStep ==
  ASSUME Inv, NEW w \in Weeks, FailRefused(w) \/ (CheckAccount(w) /\ ~ SameAccount(w))
  PROVE  Inv'
<1>1. /\ FailPayout(w, { "pending", "processing" })
      /\ sending' = [sending EXCEPT ![w] = "idle"] /\ sends' = sends \ {w}
      /\ sending[w] \in { "claimed", "refused" }
      /\ UNCHANGED <<week, earned, bank, held, runs, deaths, outside>>
  BY DEF FailRefused, CheckAccount, Finish, Step, InFlight
<1>2. payouts' \in [Weeks -> PayoutRows] /\ posted' \in [Weeks -> PostingRecords] /\ LedgerFollowsStatus' /\ OnlyDecided
  BY <1>1, FailFacts DEF Inv
<1>3. sending'[w] = "idle" /\ \A v \in Weeks \ {w} : sending'[v] = sending[v]
  BY <1>1 DEF Inv, TypeOK
<1>4. TypeOK'
  BY <1>1, <1>2 DEF Inv, TypeOK, PayoutRows, SendSteps, outside
<1>5. NothingBeforeClaim'
  BY <1>1, <1>2, <1>3 DEF Inv, SendInv, NothingBeforeClaim, OnlyDecided, outside
<1>6. AccountsInOrder'
  BY <1>1, <1>2 DEF Inv, SendInv, AccountsInOrder, OnlyDecided
<1>7. ClaimIsChecked'
  BY <1>1, <1>2, <1>3 DEF Inv, SendInv, ClaimIsChecked, OnlyDecided, outside
<1> QED BY <1>2, <1>4, <1>5, <1>6, <1>7 DEF Inv, SendInv

LEMMA ClaimStep == ASSUME Inv, NEW w \in Weeks, Claim(w) PROVE Inv'
<1>1. /\ payouts[w].status = "pending" /\ payouts[w] \in PayoutRows /\ payouts \in [Weeks -> PayoutRows]
      /\ payouts' = [payouts EXCEPT ![w].status = "processing", ![w].initiated = bank]
      /\ sending' = [sending EXCEPT ![w] = "claimed"] /\ sending \in [Weeks -> SendSteps]
      /\ UNCHANGED <<week, earned, bank, held, posted, runs, sends, deaths, outside>>
      /\ bank \in Accounts
  BY DEF Claim, Step, Inv, TypeOK, PayoutRows
<1>2. payouts' \in [Weeks -> PayoutRows] /\ payouts'[w].status = "processing" /\ payouts'[w].initiated = bank
      /\ payouts'[w].account = payouts[w].account /\ payouts'[w].gross = payouts[w].gross
      /\ \A v \in Weeks \ {w} : payouts'[v] = payouts[v]
  BY <1>1 DEF PayoutRows, PayoutStatuses
<1>3. sending' \in [Weeks -> SendSteps] /\ sending'[w] = "claimed"
      /\ \A v \in Weeks \ {w} : sending'[v] = sending[v]
  BY <1>1 DEF SendSteps
<1>4. TypeOK'
  BY <1>1, <1>2, <1>3 DEF Inv, TypeOK, PayoutRows, outside
<1>5. LedgerFollowsStatus'
  <2>1. Carried(payouts'[w]) = Carried(payouts[w])
    <3>1. Carried(payouts[w]) = PayoutPosting(payouts[w].gross)
      BY <1>1, CarriedByStatus
    <3>2. Carried(payouts'[w]) = PayoutPosting(payouts'[w].gross)
      BY <1>2, CarriedByStatus
    <3> QED BY <1>2, <3>1, <3>2
  <2> QED BY <1>1, <1>2, <2>1 DEF Inv, LedgerFollowsStatus
<1>6. payouts[w].account =< bank /\ gateway[w] = "none" /\ bank =< bank
  BY <1>1 DEF Inv, SendInv, AccountsInOrder, NothingBeforeClaim, Accounts
<1>7. NothingBeforeClaim' /\ AccountsInOrder' /\ ClaimIsChecked'
  BY <1>1, <1>2, <1>3, <1>6 DEF Inv, SendInv, NothingBeforeClaim, AccountsInOrder, ClaimIsChecked, outside
<1> QED BY <1>4, <1>5, <1>7 DEF Inv, SendInv

LEMMA CreateStep == ASSUME Inv, NEW w \in Weeks, Create(w) PROVE Inv'
<1>1. sending[w] = "creating" /\ sending \in [Weeks -> SendSteps] /\ gateway \in [Weeks -> GatewayStatuses]
      /\ gateway' = [gateway EXCEPT ![w] = IF @ = "none" THEN "created" ELSE @]
      /\ sending' = [sending EXCEPT ![w] = "created"]
      /\ UNCHANGED <<week, earned, bank, held, money, runs, sends, deaths, events, applies, lapsed>>
  BY DEF Create, Step, Inv, TypeOK
<1>2. sending' \in [Weeks -> SendSteps] /\ sending'[w] = "created"
      /\ \A v \in Weeks \ {w} : sending'[v] = sending[v]
  BY <1>1 DEF SendSteps
<1>3. gateway' \in [Weeks -> GatewayStatuses] /\ \A v \in Weeks \ {w} : gateway'[v] = gateway[v]
  BY <1>1 DEF GatewayStatuses
<1>4. TypeOK'
  BY <1>1, <1>2, <1>3 DEF Inv, TypeOK, money
<1>5. LedgerFollowsStatus'
  BY <1>1 DEF Inv, LedgerFollowsStatus, money
<1>6. NothingBeforeClaim' /\ AccountsInOrder' /\ ClaimIsChecked'
  BY <1>1, <1>2, <1>3 DEF Inv, SendInv, NothingBeforeClaim, AccountsInOrder, ClaimIsChecked, money
<1> QED BY <1>4, <1>5, <1>6 DEF Inv, SendInv

LEMMA SaveStep == ASSUME Inv, NEW w \in Weeks, SaveId(w) PROVE Inv'
<1>1. sending[w] = "created" /\ sending \in [Weeks -> SendSteps] /\ payouts \in [Weeks -> PayoutRows]
      /\ payouts' = [payouts EXCEPT ![w].saved = TRUE]
      /\ sending' = [sending EXCEPT ![w] = "idle"] /\ sends' = sends \ {w}
      /\ UNCHANGED <<week, earned, bank, held, posted, runs, deaths, outside>>
  BY DEF SaveId, Finish, Step, Inv, TypeOK, PayoutRows
<1>2. payouts' \in [Weeks -> PayoutRows]
      /\ \A v \in Weeks : /\ payouts'[v].status = payouts[v].status /\ payouts'[v].gross = payouts[v].gross
                          /\ payouts'[v].account = payouts[v].account /\ payouts'[v].initiated = payouts[v].initiated
  BY <1>1 DEF PayoutRows
<1>3. sending' \in [Weeks -> SendSteps] /\ sending'[w] = "idle"
      /\ \A v \in Weeks \ {w} : sending'[v] = sending[v]
  BY <1>1 DEF SendSteps
<1>4. TypeOK'
  BY <1>1, <1>2, <1>3 DEF Inv, TypeOK, PayoutRows, outside
<1>5. \A v \in Weeks : Carried(payouts'[v]) = Carried(payouts[v])
  BY <1>2 DEF Carried
<1>6. LedgerFollowsStatus'
  BY <1>1, <1>5 DEF Inv, LedgerFollowsStatus
<1>7. NothingBeforeClaim' /\ AccountsInOrder' /\ ClaimIsChecked'
  BY <1>1, <1>2, <1>3 DEF Inv, SendInv, NothingBeforeClaim, AccountsInOrder, ClaimIsChecked, outside
<1> QED BY <1>4, <1>6, <1>7 DEF Inv, SendInv

LEMMA PayoutStep == Inv /\ [Next]_vars => Inv'
<1> SUFFICES ASSUME Inv, [Next]_vars PROVE Inv'
  OBVIOUS
<1>1. CASE Earn \/ NextMonday \/ HoldLapses
  BY <1>1, WorldStep
<1>2. CASE UpsertBankDetails \/ PayRead \/ \E run \in runs : PayCommit(run)
  BY <1>2, BankStep, PayReadStep, PayCommitStep
<1>3. CASE \E w \in Weeks : Send(w) \/ Die(w)
  <2>1. PICK w \in Weeks : Send(w) \/ Die(w)
    BY <1>3
  <2>2. CASE CheckAccount(w)
    BY <2>2, DeliveryStep, FailedSendStep
  <2>3. CASE Claim(w)
    BY <2>3, ClaimStep
  <2>4. CASE Create(w)
    BY <2>4, CreateStep
  <2>5. CASE SaveId(w)
    BY <2>5, SaveStep
  <2>6. CASE FailRefused(w)
    BY <2>6, FailedSendStep
  <2>7. CASE Resume(w) \/ NothingToSend(w) \/ Refuse(w) \/ Die(w)
    BY <2>7, DeliveryStep
  <2> QED BY <2>1, <2>2, <2>3, <2>4, <2>5, <2>6, <2>7 DEF Send
<1>4. CASE \/ \E w \in Weeks : Poll(w)
           \/ \E w \in Weeks, next \in GatewayStatuses : GatewayMoves(w, next)
           \/ \E event \in events : LoseEvent(event) \/ Webhook(event)
  BY <1>4, GatewayStep
<1>5. CASE \E a \in applies : Apply(a)
  BY <1>5, GatewayStep, ApplyStep DEF Apply
<1>6. CASE UNCHANGED vars
  <2>1. UNCHANGED <<week, earned, held, bank, payouts, posted, runs, sends, sending, deaths, gateway, events, applies, lapsed>>
    BY <1>6 DEF vars, money, jobs, outside
  <2>2. TypeOK'
    BY <2>1 DEF Inv, TypeOK
  <2> QED BY <2>1, <2>2, QuietStep DEF money
<1> QED BY <1>1, <1>2, <1>3, <1>4, <1>5, <1>6 DEF Next

-----------------------------------------------------------------------------
(* Payouts, postings, messages and reports keep their types, for any number *)
(* of weeks and crashes.                                                    *)
THEOREM PayoutTypeCorrect == Spec => []TypeOK
<1>1. Inv => TypeOK
  BY DEF Inv
<1> QED BY PayoutInit, PayoutStep, <1>1, PTL DEF Spec

(* Whatever raced a payout to its status (webhook, poll, bank change,       *)
(* refusal, crash), its entries are those of that status: nothing is left   *)
(* of a failed or cancelled one, and a paid one has closed its transit leg. *)
THEOREM LedgerAlwaysFollows == Spec => []LedgerFollowsStatus
<1>1. Inv => LedgerFollowsStatus
  BY DEF Inv
<1> QED BY PayoutInit, PayoutStep, <1>1, PTL DEF Spec

(* Unless a send was cut short, money goes to no account that had been      *)
(* replaced when the payout was claimed, however the change raced the run,  *)
(* the claim and the check.                                                 *)
THEOREM ReplacedNeverPaid == Spec => []ReplacedIsNotPaid
<1>1. Inv => ReplacedIsNotPaid
  BY DEF Inv, SendInv, ClaimIsChecked, ReplacedIsNotPaid
<1> QED BY PayoutInit, PayoutStep, <1>1, PTL DEF Spec

-----------------------------------------------------------------------------
(* What the payee is owed.  No run was told more than is owed now, and what *)
(* is owed is never below nothing.                                          *)
OwedOnce ==
  /\ Balance >= 0
  /\ \A run \in runs : run.gross =< Balance
  /\ \A r \in runs, s \in runs : r = s

(* Of each week: a delivery under way is of an unsaved payout in            *)
(* processing, a claim or a refusal has not reached the gateway, an id that *)
(* was saved is the gateway's, and what the gateway holds or has handed     *)
(* over is still in the books.                                              *)
GatewayBacked ==
  \A w \in Weeks :
    /\ sending[w] # "idle" => payouts[w].status = "processing" /\ ~ payouts[w].saved
    /\ sending[w] \in { "claimed", "refused" } => gateway[w] = "none"
    /\ sending[w] = "created" => gateway[w] # "none"
    /\ payouts[w].saved => gateway[w] # "none"
    /\ gateway[w] \in { "created", "processed" } => payouts[w].status \in { "processing", "paid" }

(* A report is of what happened, and is applied only to a saved payout. *)
Truthful(e) == gateway[e.week] # "none" /\ (e.status \in FailedStatuses => gateway[e.week] \in FailedStatuses)
ReportsTrue ==
  /\ \A e \in events : Truthful(e)
  /\ \A a \in applies : Truthful(a) /\ payouts[a.week].saved

OwedInv == OwedOnce /\ GatewayBacked /\ ReportsTrue

(* What a posting takes from the balance is the gross of a payout that      *)
(* stands, and nothing of one that does not.                                *)
LEMMA PayableCarried ==
  ASSUME NEW p \in PayoutRows
  PROVE  /\ Carried(p).payable \in Nat
         /\ p.status \in { "none", "failed", "cancelled" } => Carried(p).payable = 0
         /\ p.status \in { "pending", "processing", "paid" } => Carried(p).payable = p.gross
<1>1. p.gross \in Nat /\ p.status \in PayoutStatuses
  BY DEF PayoutRows
<1>2. NoPosting.payable = 0
  BY DEF NoPosting, Posting
<1>3. PayoutPosting(p.gross).payable = p.gross
  BY DEF PayoutPosting, PayoutEntries, Posting
<1>4. Plus(PayoutPosting(p.gross), SettlementCleared(Net(p.gross))).payable = p.gross
  BY <1>1, <1>3 DEF Plus, SettlementCleared, Posting
<1> QED BY <1>1, <1>2, <1>3, <1>4, CarriedByStatus DEF PayoutStatuses

LEMMA WeeksOfSums ==
  /\ LastWeek \in Nat
  /\ \A w : w \in 1..LastWeek <=> w \in Weeks
BY PayoutAssumption DEF Weeks

LEMMA PaidOutFacts ==
  ASSUME Inv
  PROVE  /\ \A w \in Weeks : PaidOut[w] = Carried(payouts[w]).payable /\ PaidOut[w] \in Nat
         /\ SumTo(PaidOut, LastWeek) \in Int
         /\ Balance \in Int
<1>1. \A w \in Weeks : payouts[w] \in PayoutRows /\ posted[w] = Carried(payouts[w])
  BY DEF Inv, TypeOK, LedgerFollowsStatus, PayoutRows
<1>2. \A w \in Weeks : PaidOut[w] = Carried(payouts[w]).payable /\ PaidOut[w] \in Nat
  BY <1>1, PayableCarried DEF PaidOut
<1>3. SumTo(PaidOut, LastWeek) \in Int
  <2>1. \A w \in 1..LastWeek : PaidOut[w] \in Int
    BY <1>2, WeeksOfSums
  <2>2. LastWeek \in 0..LastWeek
    BY WeeksOfSums
  <2> HIDE DEF PaidOut
  <2> QED BY <2>1, <2>2, WeeksOfSums, SumType
<1>4. earned * Earning \in Nat
  BY PayoutAssumption DEF Inv, TypeOK
<1> QED BY <1>2, <1>3, <1>4 DEF Balance

PaidOutInt == \A w \in Weeks : PaidOut[w] \in Int
LEMMA PaidOutThen == Inv => PaidOutInt /\ Balance \in Int
BY PaidOutFacts DEF PaidOutInt

LEMMA PaidOutNext == Inv' => PaidOutInt' /\ (Balance \in Int)'
BY PaidOutThen, PTL

LEMMA ProductGrows ==
  ASSUME NEW x \in Nat, NEW y \in Nat, NEW each \in Nat, x =< y
  PROVE  x * each \in Nat /\ y * each \in Nat /\ x * each =< y * each
<1>1. PICK k \in Nat : y = x + k
  OBVIOUS
<1>2. y * each = x * each + k * each
  BY <1>1
<1> DEFINE a == x * each
           b == k * each
<1>3. a \in Nat /\ b \in Nat /\ y * each = a + b
  BY <1>2
<1> HIDE DEF a, b
<1>4. a + b \in Nat /\ a =< a + b
  BY <1>3
<1> QED BY <1>3, <1>4 DEF a

(* Where no week takes more from the balance, the balance does not fall. *)
Sinks == \A w \in Weeks : PaidOut'[w] =< PaidOut[w]

LEMMA BalanceRises ==
  ASSUME Inv, Inv', Sinks, earned' \in Nat, earned' >= earned
  PROVE  Balance' >= Balance
<1>1. \A w \in 1..LastWeek : PaidOut'[w] \in Int /\ PaidOut[w] \in Int /\ PaidOut'[w] =< PaidOut[w]
  BY PaidOutThen, PaidOutNext, WeeksOfSums DEF PaidOutInt, Sinks
<1> DEFINE before == PaidOut
           after == PaidOut'
<1>2. LastWeek \in 0..LastWeek /\ LastWeek \in Nat
  BY WeeksOfSums
<1> HIDE DEF before, after
<1>3. SumTo(after, LastWeek) =< SumTo(before, LastWeek)
      /\ SumTo(after, LastWeek) \in Int /\ SumTo(before, LastWeek) \in Int
  <2>1. \A w \in 1..LastWeek : after[w] \in Int /\ before[w] \in Int /\ after[w] =< before[w]
    BY <1>1 DEF before, after
  <2> QED BY <1>2, <2>1, SumGrows, SumType
<1>4. earned' * Earning \in Nat /\ earned * Earning \in Nat /\ earned * Earning =< earned' * Earning
  <2>1. earned \in Nat /\ Earning \in Nat
    BY PayoutAssumption DEF Inv, TypeOK
  <2> QED BY <2>1, ProductGrows
<1>5. Balance = earned * Earning - SumTo(before, LastWeek)
      /\ Balance' = earned' * Earning - SumTo(after, LastWeek)
  BY DEF Balance, before, after
<1> DEFINE x == earned * Earning
           y == earned' * Earning
           u == SumTo(before, LastWeek)
           v == SumTo(after, LastWeek)
<1>6. x \in Int /\ y \in Int /\ u \in Int /\ v \in Int /\ x =< y /\ v =< u
  BY <1>3, <1>4
<1>7. Balance = x - u /\ Balance' = y - v
  BY <1>5
<1> HIDE DEF x, y, u, v
<1> QED BY <1>6, <1>7

Standing == { "pending", "processing", "paid" }
NoneRaised ==
  \A w \in Weeks :
    /\ payouts'[w].gross = payouts[w].gross
    /\ payouts[w].status \in Standing \/ payouts'[w].status \notin Standing

PayableByStatus ==
  \A w \in Weeks : /\ PaidOut[w] \in Nat /\ payouts[w].gross \in Nat
                   /\ PaidOut[w] = IF payouts[w].status \in Standing THEN payouts[w].gross ELSE 0

LEMMA PayableThen == Inv => PayableByStatus
<1> SUFFICES ASSUME Inv, NEW w \in Weeks
             PROVE  /\ PaidOut[w] \in Nat /\ payouts[w].gross \in Nat
                    /\ PaidOut[w] = IF payouts[w].status \in Standing THEN payouts[w].gross ELSE 0
  BY DEF PayableByStatus
<1>1. payouts[w] \in PayoutRows
  BY DEF Inv, TypeOK, PayoutRows
<1>2. payouts[w].gross \in Nat /\ payouts[w].status \in PayoutStatuses
  BY <1>1 DEF PayoutRows
<1>3. PaidOut[w] = Carried(payouts[w]).payable /\ PaidOut[w] \in Nat
  BY PaidOutFacts
<1> QED BY <1>1, <1>2, <1>3, PayableCarried DEF PayoutStatuses, Standing

LEMMA PayableNext == Inv' => PayableByStatus'
BY PayableThen, PTL

LEMMA OwedKept ==
  ASSUME Inv, Inv', OwedOnce, NoneRaised, earned' >= earned, runs' \subseteq runs
  PROVE  OwedOnce'
<1>1. Sinks
  BY PayableThen, PayableNext DEF PayableByStatus, Sinks, NoneRaised
<1>2. earned' \in Nat
  BY DEF Inv, TypeOK
<1>3. Balance' >= Balance /\ Balance \in Int /\ Balance' \in Int
  BY <1>1, <1>2, BalanceRises, PaidOutThen, PaidOutNext
<1>4. \A run \in runs : run.gross \in Nat
  BY DEF Inv, TypeOK
<1> HIDE DEF Balance
<1> QED BY <1>3, <1>4 DEF OwedOnce

LEMMA UnchangedRows == ASSUME UNCHANGED payouts PROVE NoneRaised
BY DEF NoneRaised, Standing

LEMMA OwedInit == Init => OwedInv
<1> SUFFICES ASSUME Init PROVE OwedInv
  OBVIOUS
<1>1. Inv
  BY PayoutInit
<1>2. \A w \in Weeks : /\ payouts[w].status = "none" /\ ~ payouts[w].saved
                       /\ sending[w] = "idle" /\ gateway[w] = "none"
  BY DEF Init, NoRow, Row
<1>3. GatewayBacked /\ ReportsTrue
  BY <1>2 DEF Init, GatewayBacked, ReportsTrue
<1>4. \A w \in Weeks : PaidOut[w] = 0
  BY <1>1, <1>2, PayableThen DEF PayableByStatus, Standing
<1>5. SumTo(PaidOut, LastWeek) = 0
  <2> HIDE DEF PaidOut
  <2> QED BY <1>4, WeeksOfSums, SumOfZeros
<1>6. OwedOnce
  <2>1. Balance >= 0
    <3>1. earned = 0 /\ 0 * Earning = 0
      BY PayoutAssumption DEF Init
    <3> HIDE DEF PaidOut
    <3> QED BY <1>1, <1>5, <3>1, PaidOutFacts DEF Balance
  <2> HIDE DEF Balance
  <2> QED BY <2>1 DEF Init, OwedOnce
<1> QED BY <1>3, <1>6 DEF OwedInv

(* The world moves no payout. *)
LEMMA QuietOwed ==
  ASSUME Inv, Inv', OwedInv, earned' >= earned, UNCHANGED <<money, jobs, outside>>
  PROVE  OwedInv'
<1>1. OwedOnce'
  BY UnchangedRows, OwedKept DEF OwedInv, money, jobs
<1>2. GatewayBacked' /\ ReportsTrue'
  BY DEF OwedInv, GatewayBacked, ReportsTrue, Truthful, money, jobs, outside
<1> QED BY <1>1, <1>2 DEF OwedInv

LEMMA PayReadOwed == ASSUME Inv, Inv', OwedInv, PayRead PROVE OwedInv'
<1>1. runs' = { [week |-> week, account |-> bank, gross |-> Balance] }
      /\ UNCHANGED <<earned, money, sends, sending, outside>>
  BY DEF PayRead
<1>2. Balance' = Balance
  BY <1>1 DEF Balance, PaidOut, money
<1>3. Balance \in Int /\ Balance >= 0
  BY PaidOutThen DEF OwedInv, OwedOnce
<1> HIDE DEF Balance
<1>4. OwedOnce'
  BY <1>1, <1>2, <1>3 DEF OwedOnce
<1>5. GatewayBacked' /\ ReportsTrue'
  BY <1>1 DEF OwedInv, GatewayBacked, ReportsTrue, Truthful, money, outside
<1> QED BY <1>4, <1>5 DEF OwedInv

(* The run writes what it read: one week takes more, and no more than was   *)
(* owed.                                                                    *)
LEMMA PayCommitOwed == ASSUME Inv, Inv', OwedInv, NEW run \in runs, PayCommit(run) PROVE OwedInv'
<1> DEFINE w == run.week
<1>1. w \in Weeks /\ run.gross \in Nat /\ runs' = {} /\ run.gross =< Balance
      /\ UNCHANGED <<earned, sending, outside>>
  BY DEF PayCommit, Inv, TypeOK, OwedInv, OwedOnce
<1>2. CASE ~ UnpaidThisWeek(w)
  <2>1. UNCHANGED <<money, sends>>
    BY <1>2 DEF PayCommit
  <2>2. OwedOnce'
    BY <1>1, <2>1, UnchangedRows, OwedKept DEF OwedInv, Inv, TypeOK, money
  <2>3. GatewayBacked' /\ ReportsTrue'
    BY <1>1, <2>1 DEF OwedInv, GatewayBacked, ReportsTrue, Truthful, money, outside
  <2> QED BY <2>2, <2>3 DEF OwedInv
<1>3. CASE UnpaidThisWeek(w)
  <2>1. /\ payouts[w].status = "none"
        /\ payouts'[w].status = "pending" /\ payouts'[w].gross = run.gross /\ ~ payouts'[w].saved
        /\ \A v \in Weeks \ {w} : payouts'[v] = payouts[v]
    BY <1>1, <1>3 DEF PayCommit, UnpaidThisWeek, Row, Inv, TypeOK
  <2>2. sending[w] = "idle" /\ gateway[w] = "none"
    BY <1>1, <2>1 DEF Inv, SendInv, NothingBeforeClaim
  <2>3. GatewayBacked'
    BY <1>1, <2>1, <2>2 DEF OwedInv, GatewayBacked, outside
  <2>4. ReportsTrue'
    BY <1>1, <2>1, <2>2 DEF OwedInv, ReportsTrue, Truthful, outside, Inv, TypeOK
  <2> DEFINE before == PaidOut
             after == PaidOut'
  <2>5. /\ \A v \in 1..LastWeek : before[v] \in Int /\ after[v] \in Int
        /\ \A v \in (1..LastWeek) \ {w} : after[v] = before[v]
        /\ before[w] = 0 /\ after[w] = run.gross
    BY <1>1, <2>1, WeeksOfSums, PayableThen, PayableNext DEF PayableByStatus, Standing
  <2> DEFINE u == SumTo(before, LastWeek)
             v == SumTo(after, LastWeek)
  <2>6. Balance = earned * Earning - u /\ Balance' = earned * Earning - v
    BY <1>1 DEF Balance
  <2> HIDE DEF before, after
  <2>7. v = u + (after[w] - before[w]) /\ u \in Int /\ v \in Int
    <3> DEFINE n == LastWeek
    <3>1. n \in Nat /\ w \in 1..n
      BY <1>1, WeeksOfSums
    <3>2. u \in Int /\ v \in Int
      BY <2>5, <3>1, SumInt
    <3> HIDE DEF n, w
    <3>3. SumTo(after, n) = SumTo(before, n) + (after[w] - before[w])
      BY <2>5, <3>1, SumChanges DEF n
    <3> QED BY <3>2, <3>3 DEF n
  <2>8. earned * Earning \in Int
    BY PayoutAssumption DEF Inv, TypeOK
  <2> DEFINE x == earned * Earning
  <2> HIDE DEF u, v, x, w, Balance
  <2>9. Balance' >= 0
    <3>1. x \in Int /\ Balance = x - u /\ Balance' = x - v
      BY <2>6, <2>8 DEF x
    <3> QED BY <1>1, <2>5, <2>7, <3>1
  <2>10. OwedOnce'
    BY <1>1, <2>9 DEF OwedOnce
  <2> QED BY <2>3, <2>4, <2>10 DEF OwedInv
<1> QED BY <1>2, <1>3

(* Rows that are failed or cancelled, or paid, and so take no more.         *)
LEMMA FailRaisesNone ==
  ASSUME Inv, NEW w \in Weeks, NEW from \in SUBSET Standing, FailPayout(w, from)
  PROVE  /\ NoneRaised
         /\ \A v \in Weeks : payouts'[v].saved = payouts[v].saved
         /\ \A v \in Weeks \ {w} : payouts'[v].status = payouts[v].status
         /\ payouts'[w].status = IF payouts[w].status \in from THEN "failed" ELSE payouts[w].status
<1>1. CASE payouts[w].status \notin from
  BY <1>1, UnchangedRows DEF FailPayout, money
<1>2. CASE payouts[w].status \in from
  <2>1. payouts' = [payouts EXCEPT ![w].status = "failed"] /\ payouts \in [Weeks -> PayoutRows]
    BY <1>2 DEF FailPayout, Inv, TypeOK, PayoutRows
  <2>2. \A v \in Weeks : payouts'[v].saved = payouts[v].saved /\ payouts'[v].gross = payouts[v].gross
    BY <2>1 DEF PayoutRows
  <2>3. \A v \in Weeks \ {w} : payouts'[v].status = payouts[v].status
    BY <2>1
  <2>4. payouts'[w].status = "failed"
    BY <2>1 DEF PayoutRows
  <2> QED BY <1>2, <2>2, <2>3, <2>4 DEF NoneRaised, Standing
<1> QED BY <1>1, <1>2

LEMMA BankOwed == ASSUME Inv, Inv', OwedInv, UpsertBankDetails PROVE OwedInv'
<1>1. ASSUME NEW w \in Weeks
      PROVE  /\ payouts'[w].gross = payouts[w].gross /\ payouts'[w].saved = payouts[w].saved
             /\ payouts'[w].status = IF payouts[w].status = "pending" THEN "cancelled" ELSE payouts[w].status
  <2>1. payouts[w] \in PayoutRows
        /\ payouts'[w] = IF Unsent(w) THEN [payouts[w] EXCEPT !.status = "cancelled"] ELSE payouts[w]
    BY DEF UpsertBankDetails, Inv, TypeOK, PayoutRows
  <2> QED BY <2>1 DEF Unsent, PayoutRows
<1>2. UNCHANGED <<earned, runs, sending, gateway, events, applies>>
  BY DEF UpsertBankDetails, jobs, outside
<1>3. OwedOnce'
  <2>1. NoneRaised
    BY <1>1 DEF NoneRaised, Standing
  <2> QED BY <1>2, <2>1, OwedKept DEF OwedInv, Inv, TypeOK
<1>4. GatewayBacked'
  BY <1>1, <1>2 DEF OwedInv, GatewayBacked
<1>5. ReportsTrue'
  BY <1>1, <1>2 DEF OwedInv, ReportsTrue, Truthful, Inv, TypeOK
<1> QED BY <1>3, <1>4, <1>5 DEF OwedInv

(* One statement of a send. *)
LEMMA SendOwed == ASSUME Inv, Inv', OwedInv, NEW w \in Weeks, Send(w) \/ Die(w) PROVE OwedInv'
<1> USE DEF Step, Finish
<1>1. sending' = [sending EXCEPT ![w] = sending'[w]]
      /\ sending \in [Weeks -> SendSteps] /\ gateway \in [Weeks -> GatewayStatuses]
      /\ UNCHANGED <<earned, runs, events, applies>>
  BY DEF Inv, TypeOK, Send, Claim, Resume, NothingToSend, CheckAccount, Create, Refuse, FailRefused, SaveId, Die, outside
<1>2. \A v \in Weeks \ {w} : sending'[v] = sending[v]
  BY <1>1
<1>3. CASE Resume(w) \/ NothingToSend(w) \/ Refuse(w) \/ Die(w) \/ (CheckAccount(w) /\ SameAccount(w))
  <2>1. UNCHANGED <<payouts, gateway>>
    BY <1>3 DEF Resume, NothingToSend, Refuse, Die, CheckAccount, money, outside
  <2>2. \/ sending'[w] = "idle"
        \/ sending'[w] = "creating" /\ payouts[w].status = "processing" /\ ~ payouts[w].saved
        \/ sending'[w] = "creating" /\ sending[w] # "idle"
        \/ sending'[w] = "refused" /\ sending[w] # "idle" /\ gateway[w] = "none"
    BY <1>1, <1>3 DEF Resume, NothingToSend, Refuse, Die, CheckAccount, Unrecorded
  <2>3. OwedOnce'
    BY <1>1, <2>1, UnchangedRows, OwedKept DEF OwedInv, Inv, TypeOK
  <2>4. GatewayBacked'
    BY <1>2, <2>1, <2>2 DEF OwedInv, GatewayBacked
  <2>5. ReportsTrue'
    BY <1>1, <2>1 DEF OwedInv, ReportsTrue, Truthful
  <2> QED BY <2>3, <2>4, <2>5 DEF OwedInv
<1>4. CASE FailRefused(w) \/ (CheckAccount(w) /\ ~ SameAccount(w))
  <2>1. FailPayout(w, { "pending", "processing" }) /\ sending[w] \in { "claimed", "refused" }
        /\ sending'[w] = "idle" /\ gateway' = gateway
    BY <1>1, <1>4 DEF FailRefused, CheckAccount, InFlight, outside
  <2>2. gateway[w] = "none"
    BY <2>1 DEF OwedInv, GatewayBacked
  <2>3. /\ NoneRaised
        /\ \A v \in Weeks : payouts'[v].saved = payouts[v].saved
        /\ \A v \in Weeks \ {w} : payouts'[v].status = payouts[v].status
    BY <2>1, FailRaisesNone DEF Standing
  <2>4. OwedOnce'
    BY <1>1, <2>3, OwedKept DEF OwedInv, Inv, TypeOK
  <2>5. GatewayBacked'
    BY <1>2, <2>1, <2>2, <2>3 DEF OwedInv, GatewayBacked
  <2>6. ReportsTrue'
    BY <1>1, <2>1, <2>3 DEF OwedInv, ReportsTrue, Truthful, Inv, TypeOK
  <2> QED BY <2>4, <2>5, <2>6 DEF OwedInv
<1>5. CASE Claim(w) \/ SaveId(w)
  <2>1. /\ gateway' = gateway
        /\ \A v \in Weeks : payouts'[v].gross = payouts[v].gross
        /\ \A v \in Weeks \ {w} : payouts'[v] = payouts[v]
    <3>1. payouts \in [Weeks -> PayoutRows]
      BY DEF Inv, TypeOK, PayoutRows
    <3>2. CASE Claim(w)
      BY <3>1, <3>2 DEF Claim, outside, PayoutRows
    <3>3. CASE SaveId(w)
      BY <3>1, <3>3 DEF SaveId, outside, PayoutRows
    <3> QED BY <1>5, <3>2, <3>3
  <2>2. \/ /\ payouts[w].status = "pending" /\ payouts'[w].status = "processing"
           /\ payouts'[w].saved = payouts[w].saved /\ sending'[w] = "claimed"
        \/ /\ payouts'[w].status = payouts[w].status /\ payouts'[w].saved
           /\ sending[w] = "created" /\ sending'[w] = "idle"
    BY <1>5, <1>1 DEF Claim, SaveId, Inv, TypeOK
  <2>3. payouts[w].status = "pending" => gateway[w] = "none"
    BY DEF Inv, SendInv, NothingBeforeClaim
  <2>4. OwedOnce'
    <3>1. NoneRaised
      BY <2>1, <2>2 DEF NoneRaised, Standing
    <3> QED BY <1>1, <3>1, OwedKept DEF OwedInv, Inv, TypeOK
  <2>5. GatewayBacked'
    BY <1>2, <2>1, <2>2, <2>3 DEF OwedInv, GatewayBacked
  <2>6. ReportsTrue'
    <3>1. \A v \in Weeks : payouts[v].saved => payouts'[v].saved
      BY <2>1, <2>2
    <3> QED BY <1>1, <2>1, <3>1 DEF OwedInv, ReportsTrue, Truthful, Inv, TypeOK
  <2> QED BY <2>4, <2>5, <2>6 DEF OwedInv
<1>6. CASE Create(w)
  <2>1. UNCHANGED payouts /\ sending[w] = "creating" /\ sending'[w] = "created"
        /\ gateway'[w] = (IF gateway[w] = "none" THEN "created" ELSE gateway[w])
        /\ \A v \in Weeks \ {w} : gateway'[v] = gateway[v]
    BY <1>1, <1>6 DEF Create, money
  <2>2. OwedOnce'
    BY <1>1, <2>1, UnchangedRows, OwedKept DEF OwedInv, Inv, TypeOK
  <2>3. GatewayBacked'
    BY <1>2, <2>1 DEF OwedInv, GatewayBacked
  <2>4. ReportsTrue'
    <3>1. \A v \in Weeks : gateway[v] # "none" => gateway'[v] = gateway[v]
      BY <2>1
    <3> QED BY <1>1, <2>1, <3>1 DEF OwedInv, ReportsTrue, Truthful, Inv, TypeOK
  <2> QED BY <2>2, <2>3, <2>4 DEF OwedInv
<1> QED BY <1>3, <1>4, <1>5, <1>6 DEF Send

(* What is heard is of the gateway as it is or was; a failure is for good.  *)
LEMMA GatewayOwed ==
  ASSUME Inv, Inv', OwedInv,
         \/ \E w \in Weeks, next \in GatewayStatuses : GatewayMoves(w, next)
         \/ \E event \in events : LoseEvent(event) \/ Webhook(event)
         \/ \E w \in Weeks : Poll(w)
         \/ \E a \in applies : ReadBeforeFailing(a)
  PROVE  OwedInv'
<1>1. UNCHANGED <<earned, payouts, runs, sending>>
  BY DEF GatewayMoves, LoseEvent, Webhook, Poll, Learn, ReadBeforeFailing, money, jobs
<1>2. OwedOnce'
  BY <1>1, UnchangedRows, OwedKept DEF OwedInv, Inv, TypeOK
<1>3. /\ \A e \in events : e.week \in Weeks
      /\ \A a \in applies : a.week \in Weeks
      /\ gateway \in [Weeks -> GatewayStatuses]
  BY DEF Inv, TypeOK
<1>4. CASE \E w \in Weeks, next \in GatewayStatuses : GatewayMoves(w, next)
  <2>1. PICK w \in Weeks, next \in GatewayStatuses : GatewayMoves(w, next)
    BY <1>4
  <2>2. /\ gateway'[w] = next /\ \A v \in Weeks \ {w} : gateway'[v] = gateway[v]
        /\ \/ gateway[w] = "created" /\ next \in { "processed", "failed" }
           \/ gateway[w] = "processed" /\ next = "reversed"
        /\ events' = events \cup {[week |-> w, status |-> next]} /\ applies' = applies
    BY <1>3, <2>1 DEF GatewayMoves
  <2>3. GatewayBacked'
    BY <1>1, <2>2 DEF OwedInv, GatewayBacked
  <2>4. \A v \in Weeks : /\ gateway[v] # "none" => gateway'[v] # "none"
                         /\ gateway[v] \in FailedStatuses => gateway'[v] \in FailedStatuses
    BY <2>2 DEF FailedStatuses
  <2>5. next \in FailedStatuses => gateway'[w] \in FailedStatuses
    BY <2>2
  <2>6. ReportsTrue'
    BY <1>1, <1>3, <2>2, <2>4, <2>5 DEF OwedInv, ReportsTrue, Truthful
  <2> QED BY <1>2, <2>3, <2>6 DEF OwedInv
<1>5. CASE \/ \E event \in events : LoseEvent(event) \/ Webhook(event)
           \/ \E w \in Weeks : Poll(w)
           \/ \E a \in applies : ReadBeforeFailing(a)
  <2>1. gateway' = gateway
    BY <1>5 DEF LoseEvent, Webhook, Poll, Learn, ReadBeforeFailing
  <2>2. GatewayBacked'
    BY <1>1, <2>1 DEF OwedInv, GatewayBacked
  <2>3. ReportsTrue'
    <3> USE <1>1, <2>1 DEF OwedInv, ReportsTrue, Truthful
    <3>1. CASE \E event \in events : LoseEvent(event)
      BY <3>1 DEF LoseEvent
    <3>2. CASE \E event \in events : Webhook(event)
      BY <3>2 DEF Webhook, Learn
    <3>3. CASE \E w \in Weeks : Poll(w)
      <4>1. PICK w \in Weeks : Poll(w)
        BY <3>3
      <4>2. gateway[w] # "none" /\ payouts[w].saved
        BY <4>1 DEF Poll, GatewayBacked
      <4> QED BY <4>1, <4>2 DEF Poll, Learn
    <3>4. CASE \E a \in applies : ReadBeforeFailing(a)
      <4>1. PICK a \in applies : ReadBeforeFailing(a)
        BY <3>4
      <4>2. a \in ApplyRecords /\ events' = events
            /\ applies' = (applies \ {a}) \cup {[a EXCEPT !.seen = payouts[a.week].status]}
        BY <4>1 DEF ReadBeforeFailing, Inv, TypeOK, ApplyRecords
      <4>3. /\ [a EXCEPT !.seen = payouts[a.week].status].week = a.week
            /\ [a EXCEPT !.seen = payouts[a.week].status].status = a.status
        BY <4>2 DEF ApplyRecords
      <4> QED BY <4>2, <4>3
    <3> QED BY <1>5, <3>1, <3>2, <3>3, <3>4
  <2> QED BY <1>2, <2>2, <2>3 DEF OwedInv
<1> QED BY <1>4, <1>5, <1>3

(* A failure that is applied is of money the gateway does not hold. *)
LEMMA ApplyOwed == ASSUME Inv, Inv', OwedInv, NEW a \in applies, ApplyFailure(a) \/ ApplyProcessed(a) PROVE OwedInv'
<1> DEFINE w == a.week
<1>1. w \in Weeks /\ applies' \subseteq applies /\ UNCHANGED <<earned, runs, sending, gateway, events>>
  BY DEF ApplyFailure, ApplyProcessed, Inv, TypeOK, jobs
<1>2. sending[w] = "idle" /\ Truthful(a)
  BY <1>1 DEF OwedInv, ReportsTrue, GatewayBacked
<1>3. /\ NoneRaised
      /\ \A v \in Weeks : payouts'[v].saved = payouts[v].saved
      /\ \A v \in Weeks \ {w} : payouts'[v].status = payouts[v].status
      /\ \/ payouts'[w].status = payouts[w].status
         \/ payouts'[w].status = "failed" /\ gateway[w] \in FailedStatuses
         \/ payouts'[w].status = "paid" /\ payouts[w].status = "processing"
  <2>1. CASE UNCHANGED money
    BY <2>1, UnchangedRows DEF money
  <2>2. CASE ApplyFailure(a) /\ ~ UNCHANGED money
    <3>1. gateway[w] \in FailedStatuses
      BY <1>2, <2>2 DEF ApplyFailure, Truthful
    <3>2. PICK from \in SUBSET Standing : FailPayout(w, from)
      <4>1. FailPayout(w, { "pending", "processing" }) \/ FailPayout(w, { "paid" })
        BY <2>2 DEF ApplyFailure, InFlight
      <4>2. { "pending", "processing" } \in SUBSET Standing /\ { "paid" } \in SUBSET Standing
        BY DEF Standing
      <4> QED BY <4>1, <4>2
    <3> HIDE DEF w
    <3> QED BY <1>1, <3>1, <3>2, FailRaisesNone
  <2>3. CASE ApplyProcessed(a) /\ ~ UNCHANGED money
    <3>1. payouts[w].status = "processing" /\ payouts' = [payouts EXCEPT ![w].status = "paid"]
          /\ payouts \in [Weeks -> PayoutRows]
      BY <2>3 DEF ApplyProcessed, Inv, TypeOK, PayoutRows
    <3> HIDE DEF w
    <3>2. /\ \A v \in Weeks : payouts'[v].saved = payouts[v].saved /\ payouts'[v].gross = payouts[v].gross
          /\ \A v \in Weeks \ {w} : payouts'[v].status = payouts[v].status
          /\ payouts'[w].status = "paid"
      BY <1>1, <3>1 DEF PayoutRows
    <3> QED BY <3>1, <3>2 DEF NoneRaised, Standing
  <2> QED BY <2>1, <2>2, <2>3
<1>4. OwedOnce'
  BY <1>1, <1>3, OwedKept DEF OwedInv, Inv, TypeOK
<1> HIDE DEF w
<1>5. GatewayBacked'
  BY <1>1, <1>2, <1>3 DEF OwedInv, GatewayBacked, FailedStatuses
<1>6. ReportsTrue'
  BY <1>1, <1>3 DEF OwedInv, ReportsTrue, Truthful, Inv, TypeOK
<1> QED BY <1>4, <1>5, <1>6 DEF OwedInv

LEMMA OwedStep == Inv /\ OwedInv /\ [Next]_vars => OwedInv'
<1> SUFFICES ASSUME Inv, OwedInv, [Next]_vars PROVE OwedInv'
  OBVIOUS
<1>0. Inv'
  BY PayoutStep
<1>1. CASE Earn \/ NextMonday \/ HoldLapses \/ UNCHANGED vars
  <2>1. earned' >= earned /\ UNCHANGED <<money, jobs, outside>>
    BY <1>1 DEF Earn, NextMonday, HoldLapses, vars, Inv, TypeOK
  <2> QED BY <1>0, <2>1, QuietOwed
<1>2. CASE UpsertBankDetails \/ PayRead \/ \E run \in runs : PayCommit(run)
  BY <1>0, <1>2, BankOwed, PayReadOwed, PayCommitOwed
<1>3. CASE \E w \in Weeks : Send(w) \/ Die(w)
  BY <1>0, <1>3, SendOwed
<1>4. CASE \/ \E w \in Weeks : Poll(w)
           \/ \E w \in Weeks, next \in GatewayStatuses : GatewayMoves(w, next)
           \/ \E event \in events : LoseEvent(event) \/ Webhook(event)
  BY <1>0, <1>4, GatewayOwed
<1>5. CASE \E a \in applies : Apply(a)
  BY <1>0, <1>5, GatewayOwed, ApplyOwed DEF Apply
<1> QED BY <1>1, <1>2, <1>3, <1>4, <1>5 DEF Next

(* What the gateway holds or has handed over is covered week by week by the *)
(* balance it was taken from, and that is never overdrawn.                  *)
LEMMA NothingBeyondEarned == Inv /\ OwedInv => NeverOverpaid
<1> SUFFICES ASSUME Inv, OwedInv PROVE NeverOverpaid
  OBVIOUS
<1>1. \A w \in Weeks : Sent[w] \in Nat /\ PaidOut[w] \in Nat /\ Sent[w] =< PaidOut[w]
  BY PayableThen DEF PayableByStatus, Standing, Sent, OwedInv, GatewayBacked
<1>2. SumTo(Sent, LastWeek) =< SumTo(PaidOut, LastWeek)
      /\ SumTo(Sent, LastWeek) \in Int /\ SumTo(PaidOut, LastWeek) \in Int
  <2>1. \A w \in 1..LastWeek : Sent[w] \in Int /\ PaidOut[w] \in Int /\ Sent[w] =< PaidOut[w]
    BY <1>1, WeeksOfSums
  <2> HIDE DEF Sent, PaidOut
  <2> QED BY <2>1, WeeksOfSums, SumGrows, SumInt
<1>3. earned * Earning \in Int
  BY PayoutAssumption DEF Inv, TypeOK
<1>4. earned * Earning - SumTo(PaidOut, LastWeek) >= 0
  BY DEF OwedInv, OwedOnce, Balance
<1> DEFINE x == earned * Earning
           u == SumTo(PaidOut, LastWeek)
           v == SumTo(Sent, LastWeek)
<1>5. x \in Int /\ u \in Int /\ v \in Int /\ v =< u /\ x - u >= 0
  BY <1>2, <1>3, <1>4
<1> HIDE DEF x, u, v
<1>6. v =< x
  BY <1>5
<1> QED BY <1>6 DEF NeverOverpaid, x, v

(* Crashes, a change of account, lost and late reports, a return after the  *)
(* money was reported paid: what is at the gateway or with the payee never  *)
(* exceeds what the payee earned.                                           *)
THEOREM PaidWithinEarnings == Spec => []NeverOverpaid
<1>1. Init => Inv /\ OwedInv
  BY PayoutInit, OwedInit
<1>2. (Inv /\ OwedInv) /\ [Next]_vars => (Inv /\ OwedInv)'
  BY PayoutStep, OwedStep
<1> QED BY <1>1, <1>2, NothingBeyondEarned, PTL DEF Spec
=============================================================================
