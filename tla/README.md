# ParkEase: a TLA+ verification project

ParkEase rents parking spaces by the hour: a driver books a slot, pays through
Razorpay, checks in, may extend or cancel; washes and valets are sold beside the
stay; owners are paid weekly. The API (`src/apps/api`) and the worker
(`src/apps/worker`) share one PostgreSQL database. The API writes rows and outbox
messages in one transaction; a relay moves the messages to pg-boss queues, whose jobs
the worker runs, at least once. What can go wrong lies between these: two requests
about one booking, a request and a job, a webhook delivered twice or late, a process
that dies between two steps.

This project models that core, checks it with TLC on small instances, and proves its
most important safety properties with TLAPS for instances of any size.

## Components

| Component | State | Operations | Interacts through | Hard behaviour | What makes it correct | Module |
|---|---|---|---|---|---|---|
| Parking bookings (`domains/booking`) | `bookings`, `booking_slots` | create, check in, extend, cancel | rows, outbox, ledger | commands that read before the transaction that writes | the lifecycle table; a live booking occupies its slot; every unit of the window is charged for | ParkingBooking |
| Slot allocation (`availability.service`) | `booking_slots` under an exclusion constraint | allocate, extend, release, set status | the constraint | requests for the last slot | no slot occupied twice | ParkingBooking |
| Payments (`domains/payment`) | `payments` | order, confirm, fail | gateway, callback, webhook | two reports of a capture, late and repeated | a reported capture is recorded or sent back; a booking is paid once | ParkingBooking, WashJob |
| Refund decision (`refund.service`, `refund-options`, `refund-policy`) | `refunds`, `payments.status` | on cancellation, by administrator, for an orphan | trigger 0057, jobs | several reasons falling on one capture | never more back than came in; nothing after a full reversal | ParkingBooking, RefundPolicy, RefundSettlement |
| Booking jobs (`jobs/booking`, `jobs/payment/reconcile-orphan`) | the rows above | expire, complete, reconcile | pg-boss | redelivery, racing the API | nothing stays pending; a stay ends; jobs are idempotent | ParkingBooking |
| Idempotency keys (`platform/idempotency`, `webhook.service`) | `idempotency_keys` | claim, take over, fence, store, release | every mutation | crashes, takeover of a slow attempt | a request is written once; its key is not blocked for good | IdempotencyKey |
| Outbox relay (`jobs/outbox`) | `outbox_messages` | relay, back off, give up | queues | crash between send and mark; ten failures | at least once, or recorded as failed | RefundSettlement (one message) |
| Refund issue, transfer reversal (`jobs/payment`), transfer reconcile (`jobs/payout`) | `refunds`, transfers, gateway | find or create, settle, reverse, clear | gateway | gateway call outside the lock | one gateway refund per row, settled once | RefundSettlement |
| Ledger and prices (`contracts/src/money`) | ledger rows | quote, surge, post, reverse | all of the above | rounding, splits of three weights | what is posted balances; no paisa made or lost | Paise, Pricing, Postings |
| Valet jobs (`domains/valet`, `jobs/valet`) | `valet_jobs`, offers | request, offer, accept, advance, return, cancel, no-show | timers, ledger | valets accept at once while the search widens | one valet per job; every search ends; charged for the work done | ValetLifecycle, ValetDispatch |
| Car washes (`domains/carwash`, `jobs/carwash`) | `wash_jobs`, `payments` | request, order, accept, advance, cancel | payments, timers | cancellation racing the capture | owed while it stands, refunded only when called off | WashJob |
| Payouts (`domains/payout`, `jobs/payout`) | `payouts`, bank details | run, send, fail, apply status, reconcile | RazorpayX | bank change during a send, crash inside it | paid once; not to a replaced account; the ledger follows | PartnerPayout |
| Route onboarding (`submit-route-onboarding`, `apply-route-status`) | `linked_accounts`, `route_onboarding_claims` | claim, four gateway calls, save, apply a status | Razorpay, webhooks | calls that fail, die or are answered late; events out of order | nothing made twice; the status ends at the last one | RouteOnboarding |
| Commission waiver grants (`commission-waiver.service`) | `commission_waivers` | grant | account, space | two commits that each see the other undone | who qualifies is granted | RouteOnboarding |
| Reviews (`domains/review`, `rating-aggregate`) | `reviews`, the rating of each target | create, remove, recompute nightly | the read model's row lock | concurrent writes, weights that age | the rating is that of the visible reviews, and ages with them | ReviewRating |
| Spaces (`domains/space`) | `spaces` | approve, pause, resume; edit, search | waiver | approval beside the activation | (with the waiver) | RouteOnboarding, in part |
| Sessions (`platform/auth`) | `refresh_tokens` | rotate, revoke | clients | rotation racing a revocation | no token outlives a revocation | - |
| Notifications, HTTP, clients | their rows | | | | | - |

`PROJECT.json` lists the same components with their sources and status.

## Modules

**BookingLifecycle** and **ValetLifecycle** are the abstract specifications: the
transition tables of `domains/booking/lifecycle.ts` and `packages/contracts/src/valet/lifecycle.ts`, one set of edges each, a status, and for
a valet job its assignee.

**RefundPolicy**, **Paise**, **Pricing** and **Postings** are arithmetic, in whole paise:
`resolveRefund` with its tiers and what an administrator may give back; `mulRate` with its rounding;
billable units, the quote, an extension's price and the surge of a zone; and each builder of
`ledger-entries.ts` as the net movement of every account, with `allocateProportionally`.

**ParkingBooking** is the core. Its variables are the tables: `booking`, `slot`,
`payment` (with the refunds written against each), `receivable`, `discharged` and `reopened` (what a booking is
billed, how often a transfer was discharged, what the orphan job debits the driver again), `jobs` (the committed and unacknowledged outbox
messages), plus `request` (what each API request in flight has read), `paid` and
`reported` (what the gateway knows) and the clock. Actions follow the code's transactions:

| Action | Code |
|---|---|
| `Create` | `CreateBookingCommand`: one transaction under the advisory lock of the space |
| `OrderRead`, `OrderCommit` | `CreateOrderCommand`: reads, then a gateway call, then the insert |
| `ConfirmRead`, then `ConfirmReplay`, `ConfirmOrphan` or `ConfirmCapture` | `ConfirmPaymentCommand`: the locking statement locks the payment and joins the booking unlocked, so at READ COMMITTED the booking may be older than the payment |
| `Fail` | `FailPaymentCommand` |
| `CheckInRead`, `CheckInCommit` | `CheckInCommand`: decides on a row read outside the transaction |
| `ExtendRead`, `ExtendCommit` | `ExtendBookingCommand`: checks and prices outside the transaction |
| `CancelRead`, then `CancelPaid` or `CancelUnpaid` | `CancelBookingCommand`: the payment is looked for and locked by the first statement, the booking by the second |
| `AdminRefund` | `AdminRefundCommand`: under the payment lock throughout |
| `Expire`, `Complete`, `Orphan` | the three jobs, each one transaction under a row lock, with or without the acknowledgement; `Orphan` refunds the capture, debits the receivable by it (`reopened`) and records the discharge of its transfer |
| `Abandon` | a request refused, rolled back or lost with its process |
| `Pay`, `Tick` | the driver at the gateway, the clock |

`Calls` says which calls an instance makes and `Overlapping` which commands another
request may overtake between Read and Commit. With all five in `Overlapping` the model
is the code. A smaller set is a stated assumption, used to say which property needs which
command not to be overtaken. The gateway's truth is `paid`; a job message is a
record that is not due before `at`.

**ParkingProperties** states what must hold of it.

**ValetDispatch** is one valet job. A command reads and decides (`ReadAs...`), and later writes with an UPDATE pinned on
what it read; between the two everybody else may write.

| Action | Code |
|---|---|
| `RequestValet` | `RequestValetCommand` with `recordOffers`: job, first offers, first timeout |
| `ReadAsOffered`, `Accept` | `AcceptJobCommand`: guarded by status and assignee in the WHERE clause; prices, posts, resolves the offers |
| `ReadAsAssigned`, `Advance` | `AdvanceJobCommand`, through `applyEvent` |
| `ReadAsDriver`, `Cancel`, `RequestReturn` | `CancelJobCommand`, `RequestReturnCommand` |
| `TimeoutRead`, then `Widen`, `GiveUp` or `MovedOn`; `TimeoutStale` | `accept-timeout.job.ts`: guards and search, then the pinned widening or cancellation |
| `SearchDies`, `Abandon` | a process that dies, or a 409 |
| `NoShow`, `GraceLapses` | `no-show.job.ts` under a row lock, and its grace |

**WashJob** has the same shape for a wash, plus its gateway orders: `ReadForOrder`/`InsertOrder`
(`CreateWashOrderCommand`), `Pay` and `FailAttempt` (the driver), `Confirm` (the wash branch of
`ConfirmPaymentCommand`), `FailPayment`, and a cancellation in two steps: `LookForCapture` reads the latest captured order on another connection, with
the row already locked, and `Cancel` reverses the posting and refunds what was found.

**PartnerPayout** is the weekly payout of one payee.

| Action | Code |
|---|---|
| `PayRead`, `PayCommit` | `run-weekly.job.ts`: the balance is read, then row, posting and message are written |
| `UpsertBankDetails` | the command with `cancelPending`: unsent payouts are cancelled and reversed, payouts held |
| `Claim` or `Resume`, `CheckAccount`, `Create` or `Refuse`, `SaveId` or `FailRefused`, `NothingToSend`, `Die` | `send.job.ts`, a statement at a time, cut short anywhere |
| `GatewayMoves`, `LoseEvent` | RazorpayX (external) |
| `Webhook`, `Poll` | `apply-status.job.ts`, `reconcile.job.ts`; a payout once paid may at any time have left the poll's look-back of seven days (`lapsed`) |
| `ReadBeforeFailing`, `ApplyFailure`, `ApplyProcessed` | `applyPayoutStatus`: a failure reads the status before it writes |

**RefundSettlement** follows refunds from the decision to the driver's account, to the paisa.

| Action | Code |
|---|---|
| `Cancel`, `AdminRefund` | `refundForCancellation`, `AdminRefundCommand`: posting, row and message in one transaction |
| `Relay`, `RelayRollsBack`, `RelayFails` | `relay.job.ts`: sent and marked, sent and rolled back, not sent (and given up at the limit) |
| `Start`, `Find`, `Create`, `Store`, `Fail` | `issue-refund.job.ts` and `reverse-transfer.job.ts`: read under the lock, ask and create outside it, store |
| `SettleRead`, `SettleWrite` | `ProcessRefundCommand` |
| `Reconcile` | `reconcileTransfer` in `src/apps/worker/src/jobs/payout/reconcile.job.ts` |

**IdempotencyKey** is one key and its attempts: the three statements of a claim,
the fence that ends the handler's transaction, store and release, any of which may be cut
short by a crash.

**RouteOnboarding** is how one owner comes to be paid.

| Action | Code |
|---|---|
| `Claim`, `ReadLinked`, `Release` | `SubmitRouteOnboardingCommand.execute`: the claim, the row it reads once, the release |
| `CallGateway`, `SaveLinked` | account, stakeholder, product: a call at Razorpay, then its id saved in a statement of its own |
| `SendSettlement`, then `BeginAnswer` or `DropAnswer` | the settlement call, and its answer applied as of the second it was sent |
| `Fail`, `Die` | a call refused or answered too late, a process that ends, at any of these points |
| `BeginEvent` or `DropEvent`, then `CommitEvent` or `RollBack` | `ApplyRouteStatusCommand`: the row lock, staleness, the write and the grant; the webhook may be repeated |
| `BeginApproval`, `CommitApproval`, `ToggleSpace` | `ReviewSpaceCommand.decide` when it approves, `ToggleSpaceCommand` |
| `AnswerSettlement`, `RouteMoves`, `Tick` | Razorpay (external), the clock in whole seconds |

A transaction is there from its lock (`applying`, `approving`) to its commit, and what it read of the other is what was committed
when it began. `unseen` records that the owner came to qualify where the code does not look (below).

**ReviewRating** is the rating of one target. `Create` and `Remove` write a review in a transaction, `StartNight` starts the
nightly job if a review left the window lately; `Recompute` takes the lock on the read model and counts what is committed by then,
`CommitTx` writes. `NextDay` is the clock. What is weighed as of when is kept in the transaction: its time is taken before it waits for the lock.

The **MC...** modules instantiate each of these for TLC and the **...Proofs** modules hold the
theorems. Definitions such as `PinnedOnNothing`, `ResolveAllWon`, `ClaimableAlways` or
`ClaimedUnseen` are not used by any specification: each is what its neighbour would be with a plausible bug, and
serves to show that a property notices. `PROJECT.json` pairs them.

**How the models fit together.** They share the postings and the refund policy, not their states.
ParkingBooking ends where a refund row is written and its message queued; RefundSettlement starts
there, with any outcome of `ResolveRefund` and any administrator's amount. ParkingBooking's `jobs` is an
at-least-once channel; IdempotencyKey is what makes a request, or a webhook, one step in the others.
PartnerPayout's `Earn` is any posting that credits a payee.
RouteOnboarding decides whether a quote is waived; ReviewRating stands alone.

## Runs

| Run | Instance | Shows |
|---|---|---|
| `parking_races` | 2 bookings, 1 slot, 1 order, 2 requests; every command may be overtaken | `SlotExclusive`, `RefundsWithinCapture`, `CaptureNeverLost` hold whatever overtakes what |
| `parking_lifecycle` | 1 booking, clock to 3, 2 hourly rates, units of 2; orders, extensions and cancellations may be overtaken | the rows implement `BookingLifecycle`; a live booking and only it occupies its slot; every unit of a window was charged for, also when extensions cross |
| `parking_serial` | 1 booking, 2 orders, both reports of each capture, failures, administrator refunds; one command at a time | the ledger bills what stands, a booking is paid once, a cancellation settles, no capture is lost though an attempt fails, a redelivery discharges nothing twice |
| `parking_live` | 1 booking, 2 requests, every command but administrator refunds, any of which may be overtaken, fairness | nothing stays pending, a stay ends, money taken is answered for |
| `idempotent` | 2 attempts, each made again and again, both kinds of carrier, fairness | `WrittenOnce`, `AnswerKept`, `Unblocked` |
| `valet` | 2 valets, 2 rounds, 2 commands and 2 searches in flight, fairness | the rows implement `ValetLifecycle`; offers are settled; the driver is charged for the work done and is told in the end |
| `wash` | 2 washers, 2 rounds, 2 orders, 2 commands in flight, fairness | owed exactly while it stands; refunded only when called off; discharged for captures only; a search ends |
| `payout` | 2 weeks, 1 booking of Rs 200, 2 accounts, 1 send cut short, 2 statuses being applied, fairness | the ledger follows the status, nothing is overpaid, a replaced account is not paid, everything resolves |
| `refunds` | 2 refunds of one capture, 2 faults on the first, fairness | one gateway refund per row, settled once, no trace of a booking called off, drift of a paisa per refund at most |
| `onboarding` | 2 submits, seconds 0 to 2, 1 part made and never saved | nothing is made twice, the status ends at Razorpay's, who qualifies is granted |
| `reviews` | 2 reviews, 1 or 5 stars, window of 1 day, catch-up of 3, days 0 to 5, fairness | the rating is always that of the visible reviews, and follows their age |
| `double_sale` | 2 bookings, 1 slot | a counterexample, below |

**Bounds.** Two bookings on one slot are what it takes to contend for it: every clause of
the exclusion constraint is about a pair. Two requests are what it takes to overtake; the
jobs, the gateway and the clock act beside them. Two orders show double payment. `MaxTime`
is at least the payment window plus a unit, so that a window can start before, at and
after the expiry, and 3 where chains of extensions matter. A stay is priced as the code does, from a rate per
unit, the billable units and the surge the booking was quoted. Units of 2 make some extensions free; two
`Rates` are an owner who changes the price between booking and extension; a surge of 1.25x on so small a base makes two quotes cost
more than the quote of their sum. `ProcessingFee`, `Goodwill` and
`Grace` of 1 put each boundary inside the clock. `Create` requires that the expiry falls
within `MaxTime`. Two attempts of a key suffice because
an attempt that ended is made again under the same name: a zombie, the attempt that took
over and a third that claims afresh all occur. Ages stop at `StaleAfter`; commits are counted as
none, one, more.

The dispatch models need two parties, one to win and one to lose, and two rounds, one to widen and one to give
up. `MaxCalls` and `MaxSearches` bound what is between read and write at one moment, not how often it happens.
`Distances` are 0 and 1000.3 m: the second is charged two kilometres and stored as one, which is where the two computations
of a fee differ. `Price` 29999 and `Bases` 10003 are such that the commission, its tax and their shares all round.
In `payout` the booking of 20000 clears the minimum of 10000; one
booking over two weeks is what shows a payout owed again. `MaxDeaths` of 1
covers a crash at every step, and `MaxApplies` of 2 a webhook against the poll. In `refunds`, faults fall on the first refund
only (`Faulty`): the rows are independent except through the ledger and the cap.
`MaxDeliveries` and `MaxSettles` are 1 there because the webhook claim serialises deliveries of one event and the queue
hands a job to one worker at a time; with two deliveries of a job at once `SentOnce` does not hold (below).
In `onboarding` a second submit is what it takes to race the first, and three seconds are an event before, in and after the one
a call was made in. In `reviews` two reviews are what it takes to overwrite a count; the window and the catch-up are shortened so that a
review ages, a night is missed and the next catches up within `MaxDay`. The code's catch-up of seven days allows for six missed nights; the model
keeps one of its `CatchUp - 1` for a transaction that weighed before a night and commits after it.
Searches, menus, availability, documents and photographs decide only whether a step is refused, so the models leave
the choice open. `CHECK_DEADLOCK FALSE` is where a system really may stop: the clock at `MaxTime`, a job that ended, a refund that
settled.

**Fairness.** In ParkingBooking the clock advances (WF). A due message is eventually processed and
acknowledged (WF): pg-boss retries and the relay polls. Both give up, after five and ten
failures; that is `GivenUp` in RefundSettlement, and outside the parking runs.
A request in flight ends, by commit or abandonment (WF). The webhook is repeated
until a delivery is answered 2xx, and a delivery that is repeated for ever eventually
commits (SF). `ConfirmRead` is a delivery that got past its claim: a redelivery answered
200 while a dead claim is fresh (below) is not covered by `PaidIsAnswered`.
In `IdempotencyKey` clients retry, and no step is killed or fails every time it is
come to (SF); a plain WF would let every attempt die at the same point for ever.

In ValetDispatch and WashJob the queue delivers a timeout (WF of `TimeoutStarts`) and a delivery is not killed
every time (SF of `TimeoutEnds`). No valet, washer or driver need do anything.
In PartnerPayout a hold runs out, a send that is queued takes its next step, the gateway decides, a status that was learned is applied (WF), and the
poll, which is daily, gets to every payout it still asks about (SF: it is disabled while it is applying). Webhooks are not fair: they may all be lost.
In ReviewRating the days pass and the job is started again until it succeeds (WF), and a transaction is not rolled back every time it gets to its lock or its
commit (SF). RouteOnboarding states no liveness: its properties hold of any run.
In RefundSettlement the pump relays every second, jobs are delivered and the gateway repeats its event until it is answered (WF).

## Disagreements between the code and what it says

Shown by a run:

- `double_sale`: `ConfirmPaymentCommand` writes `confirmed` by id on a booking that its
  locking statement did not lock. An expiry that commits meanwhile has released the slot;
  the exclusion constraint does not see the revived booking.

Met while modelling; the properties are stated so as to leave them out, which is where they show:

- A cancellation looks for the payment before it locks the booking: a
  capture in between leaves a paid booking cancelled as unpaid. A check-in read before a cancellation revives the booking.
  (`parking_lifecycle` and `parking_serial` say which commands must not be overtaken.)
- An extension is checked and priced on a row read outside its transaction: of two at once both surcharges are added, and the one that commits last sets the end, which may be
  the earlier of the two. The driver then pays for more than the window held, never for less: `WindowPaidFor` has no hypothesis and says just that.
- An extension is a quote of its own, rounded on its own, at the rate of the day it is asked for (`quote.service.ts:111`, `extend-booking.command.ts:67`). At 2550 paise an hour and 1.25x an hour extended
  by an hour costs 6744 paise, two hours at once 6742: the total of an extended booking is not the price of its window, and no property says so.
- The second report of a capture, after check-in, is an "orphan", and the orphan job refunds the stay.
- Two reports of one capture, the callback and the webhook, may wait on the payment lock together. The one that waited finds the payment captured but keeps the booking its statement joined
  before, still `pending_payment`, and captures and discharges again, although the comment at `confirm-payment.command.ts:163` says
  "Redelivery is safe: a second capture finds the booking `confirmed` and returns `replayed`". `PaidOnce`, `DischargesExplained` and `NothingAfterFullReversal` are
  stated for captures that are not overtaken; `parking_serial` has both reports, one after the other.
- A webhook delivery dies; its redelivery within five minutes is answered 200 and the event is never applied (`Unblocked` is about requests).
- An extended stay is completed by the job queued for its old end.
- The refund of a cancelled valet job, or a no-show, is queued with a payload the worker's schema refuses. The ledger owes it for ever.
- `no-show.job.ts:21` says that the driver of a no-show is charged "the **base component only**". The job computes the leg anew from the stored distance, which is in whole metres; the leg was charged
  from the exact one. At 1000.3 metres the second kilometre stays charged beside the base (`ChargedForWorkDone` allows a kilometre for each leg).
- A no-show check that comes early is acknowledged and not scheduled again (`NoShow`).
- A wash captured after it was cancelled is not refunded, nor is the second of two captured orders (`BilledWhileItStands` does not say that every capture of a cancelled wash is refunded).
- The wash branch of `ConfirmPaymentCommand` replays only a payment that is `captured`. The second report of a wash that was paid, cancelled and
  marked `refunded` captures it again and discharges the partner twice, though the comment at `confirm-payment.command.ts:109` says a redelivery
  cannot (`BilledWhileItStands` allows a second discharge only of such a wash).
- `issueRefund` lets go of the row lock before it asks the gateway, though `issue-refund.job.ts:25` says that two deliveries cannot both proceed. Two
  deliveries in that gap make two refunds (`SentOnce` is checked with one delivery at a time).
- `ProcessRefundCommand` reads the status before its transaction and locks no row: two events of one refund handled at once both settle it (`SettledOnce` is checked with one at a time).
- The activation of the account and the approval of the space, committing at once, each see the other undone, and nobody grants; nor does
  `ToggleSpaceCommand` when it resumes an approved space after the activation, though `commission-waiver.service.ts:42` speaks of "both writes
  that can complete eligibility" and "whichever comes last" (`unseen`). An owner role that becomes active last is not looked at either; in the model it is active.
- A submit whose call made a stakeholder or a product and lost the answer makes another on the next (`lost`). An account is found again by its email address: a resubmission
  under another address makes a second one, so all submits of the model carry one.
- A send resumed after a crash does not ask again whether the account is still the payee's (`ReplacedIsNotPaid` holds as long as no send was cut short).
- A paid payout is asked about for seven days after it completed (`reconcile.job.ts:52`, `:104`). One that the bank returns later, and whose webhook is lost, stays `paid` and is never owed
  again, though `:95` speaks of a bank that "can return a payout days after it was processed" (`ReturnedIsOwedAgain` is about payouts within the look-back, by `lapsed`).
- A pending payout whose send the queue gave up is never looked at by the poll, which asks about `processing` and `paid`.
- The weekly balance is read, then paid, without a lock: a refund in between is paid out. PartnerPayout lets the balance only grow meanwhile.
- A transfer from which a refund was taken no longer matches what was discharged: the reconcile flags it and its clearing leg stays open
  (`CalledOffLeavesNoTrace` is conditional on a cleared transfer).
- Goodwill is credited to `refunds_payable` and no refund row carries it: `SettledOnce` counts it as owed for ever.

## What is proved

All theorems hold for every value of the constants that satisfies the named assumptions, which are
types and signs of the numbers, rates above zero and multipliers of at least one (`ParkingBookingAssumption`, `RefundPolicyAssumption`,
`IdempotencyKeyAssumption`, `ValetAssumption`, `WashAssumption`, `PayoutAssumption`, `SettlementAssumption`, `OnboardingAssumption`,
`RatingAssumption`). That rates and prices are above zero is
what the check constraints of `packages/db/src/schema/booking.ts:57` and `payment.ts:92` say.

Every invariant, action property and refinement that a run checks is stated by a theorem. Some theorems have a hypothesis, which is named in front of them;
what it excludes is something the code does allow, and a line under "Disagreements" says what happens then.

Parking (ParkingProofs):

- `TypeCorrect` (`Spec => []TypeOK`). `TypeOK` is not inductive: an extension's surcharge is a
  natural number only because its new end lies after the end it saw and longer stays take no fewer units. `TypeInv` adds that windows are ordered, and that an extension in flight ends
  after its booking starts.
- `SlotsNeverShared` (`Spec => []SlotExclusive`). Inductive beside the types: each of the
  writers of an occupying row is guarded by `FreeSlots` or `Admits`, and the others only
  release.
- `RefundsNeverExceed` (`Spec => []RefundsWithinCapture`). Strengthened by
  `RefundsBacked`: an order that is not yet created has nothing refunded, so creating it
  cannot undercut a refund.
- `NoCaptureLost` (`Spec => []CaptureNeverLost`). A report is answered only by a replay of a captured
  payment, by queueing the orphan job, or by the capture; afterwards a failed
  attempt does not touch a captured row, refund reasons only grow, and an orphan message is acknowledged
  only once a refund stands.

The rest of ParkingProofs is about what the rows of one booking owe each other. Each theorem names the commands that may not be overtaken between their read and
their write, and only those; `Overlapping` is otherwise any set, so the theorems cover more than the two runs do.

| Theorem | States | Not overtaken |
|---|---|---|
| `LiveBookingsHold` | `LiveHoldsSlot` | captures, check-ins |
| `ImplementsLifecycle` | `LifecycleSpec`, the refinement of BookingLifecycle | captures, check-ins |
| `WindowAlwaysPaid` | `WindowPaidFor` | none: everything may be overtaken |
| `PaidAtMostOnce`, `DischargedAsExplained`, `ReversedForGood` | `PaidOnce`, `DischargesExplained`, `NothingAfterFullReversal` | captures |
| `BilledExactly`, `CancellingSettles` | `BilledWhileItStands`, `CancelSettles` | everything but orders |

- `RowsInv` is inductive without any hypothesis: an order in flight asks for a booking that was sold, every order has one booking and an amount, and what was read by a
  command that may not be overtaken still stands (`ReadsStand`). The last is where the hypotheses enter, one command at a time.
- Two lemmas then say once what a step can do: `BookingStep` (one booking moves, in one of seven ways, or none) and `PayStep` (one payment moves, in one of
  six ways, or none). Each property is shown against these, not against the actions.
- `PaidInv` is what makes `WindowPaidFor` inductive although extensions cross: the surcharge of an extension in flight makes up the difference between what was paid for up to the end it
  saw, which some rate always covers, and the end it will write (`ExtensionsPaid`). Others that commit meanwhile only add to the base, and a rate that rose or fell
  leaves the lower of the two as witness.
- `MoneyInv` adds for captures that an unpaid order is untouched, that a payment refunded as an orphan is refunded whole, that it is discharged
  twice only then, and that one capture of a booking stands. A price above zero is needed: the refund of a free stay would leave no amount to know it by.
- `BillInv` adds what each booking is billed by its status and the money taken for it, and that a cancellation in flight knows the payment it will write.

Idempotency (SerialProofs, with the reviews: two small components that are each right because one party at a time gets through):

- `RequestWrittenOnce` (`Spec => []WrittenOnce`). The invariant: once a write committed, the
  row exists and is marked, and no attempt that is running, or releasing in the way that
  deletes a marked row, holds a marked row. Without the first part a deleted row could be
  claimed afresh; without the second the holder could commit again. `KeyTypeCorrect` goes with it.
- `AnswerNeverReplaced` (`Spec => AnswerKept`, an action property). A row that has an answer is claimed by nobody (`AnsweredUnclaimed`), so every later store, release
  or takeover misses it.

Money, for every amount (MoneyProofs):

- `QuoteIsBalanced`: no part of a quote is negative and `assertQuoteBalances` never throws, at any surge of at least 1.0x, waived or not.
  It rests on `MulRate` staying within its amount for rates up to one.
- `AllocationIsExact`: three parts add up to the total and each is within a paisa of its exact share. The floors leave a remainder below
  the number of parts that have one, and ranks are distinct, so exactly that many parts get a paisa.
- `RefundPostingBalances`, `ServicePostingBalances`, `PayoutPostingBalances`: every posting of these balances.
- `SurgeOnLadder`: the multiplier charged is always one of the ladder's.
- `LongerCostsNoLess`: for units of fixed length, at one rate and one multiplier, neither the base price nor the total quoted for a longer stay is less, and the base of an extension is exactly the
  difference of the two bases. It does not say so of totals: an extension's is rounded on its own, and rates change.
- `RefundSplitsTotal`: the refund policy, for every total, instant and canceller.
- `RefundableBounded`: of what an administrator may ask, a preset or an amount, each request moves something, with all that went back before no more than was captured, and nothing
  once a reversal in full stands.

Valet and wash (ValetProofs, WashProofs):

- `TakenSettled`, `WaitingWatched`, `ImplementsLifecycle`, `ValetTypeCorrect`. The invariant (`IInv`) relates what a search or a call
  in flight has read to the row it will write: an accept was offered the job, a search was made in a round that was open and cannot be
  ahead of the row, and a waiting job's round is among the timeouts. The refinement is then one step per action:
  a pinned write fires the event of the table, everything else stutters.
- `OwedWhileItStands` (which includes that the partner is discharged only for a captured or refunded order), `WashWaitingWatched`, `WashTypeCorrect`. `BilledWhileItStands` is not inductive: that a wash without a washer is
  in the market and has nothing posted, that a call leads on from what it read, and that a pinned giving up meets no washer are the other conjuncts
  (`MarketOrWasher`, `CallsLead`, `SearchesBehind`, `WaitingIsWatched`).
- `ChargedAsDone` (ValetProofs). The ledger is what the row says by its status, and a call in flight knows the distance, the fees and the status it will write by. The tolerance in
  `ChargedForWorkDone`, a stored kilometre for each leg, is there because the fee is charged from the exact distance and reversed from the stored one.

Payout (PayoutProofs):

- `LedgerAlwaysFollows`: beside the types, each writer of a status writes in the same transaction the reversal or the clearing of what is posted.
- `ReplacedNeverPaid`: `NothingBeforeClaim` (the gateway knows nothing of a payout that was not claimed), `AccountsInOrder` (a row's account
  was on file no later than the bank's) and `ClaimIsChecked` (after a claim that was not cut short, creating comes after the check).
- `PaidWithinEarnings`. `OwedInv`: the balance, which is what was earned less what the standing payouts took, is not negative and covers the run in flight, of which there is one (`OwedOnce`); the gateway has sent only for payouts that
  stand (`GatewayBacked`); and a report still to be applied says nothing that is not so (`ReportsTrue`). What was sent is then at most what was taken, week by week, and the sums compare by
  `SumGrows`. The balance can only grow between the read and the write of the run (below).
- `PayoutTypeCorrect`.

Refunds (RefundProofs):

- `PartialRefundsInProportion` (`Spec => []DriftBounded`). The invariant (`DriftInv`) counts: after n partial refunds each account is within n paise of its exact share, because
  one allocation is within a paisa (`AllocationIsExact`) and shares add up; and the ledger balances, because every posting does.
- `RefundSentOnce`, if a job has one delivery at a time. A delivery that is about to create found nothing, and nothing is made by anybody else before it does (`CreatesFirst`). With two
  deliveries this is false.
- `RefundSettledOnce`, if one event of a refund is handled at a time. A settlement in flight has read a row that is still pending (`SettlesPending`); `refunds_payable` is
  the sum over the rows of what was decided and not yet settled.
- `NothingLeftOfCalledOff`, under the same hypothesis. The whole ledger is written out as a function of the one row: as booked while it stands (`StandingBooks`),
  and after it was called off as booked less the refund, plus what the settlement, the reversal and the reconcile each put back (`CalledOffBooks`). Each step turns one switch of that function.
- `SettlementTypeCorrect`: beside the types, messages have a cause, jobs a message, deliveries a job (`RowsInv`).

Onboarding (OnboardingProofs):

- `NothingMadeTwice`. The claim keeps all but one submit from running (`OneRuns`), so a part in hand is of the submit that holds the claim (`InHand`), what it read
  of the row is what is in the row (`Known`), a write of its answer is its own (`Writing`), and every part made is saved, in hand or lost (`AllAccounted`).
- `StatusAlwaysSettles`. What is stored is the last change at Razorpay, or the event of that change is still to come and will not be found stale (`ToldLast`);
  an event still to come is no further on than that change (`EventsTold`); and an answer not yet written is the present status, or was asked for no later than the
  change it missed, whose event then overrides it (`AnswersMissed`, `Writes`).
- `QualifiedAlwaysGranted`, `OnboardingTypeCorrect`. Of two transactions one sees the other committed or `unseen` says that they overlapped.

Reviews (SerialProofs):

- `RatingAlwaysOfVisible`: beside the types, a transaction that counted holds the lock, so nothing it counted changes before it commits.
  `RatingTypeCorrect` goes with it.

**Model-checked only.** Liveness under fairness is beyond the prover: `PendingResolves`, `ActiveEnds`, `PaidIsAnswered`, `Unblocked`,
`OfferResolves`, `SearchResolves`, `PayoutResolves`, `ReturnedIsOwedAgain`, `DecidedIsSettled`, `RatingCatchesUp`. So is that `NoDoubleSale` fails, which is a counterexample. What the rating of a
set of reviews comes to is left to TLC as well: the theorem says that it is the rating of the right set.

## Not modelled

The commands start after authentication, roles, rate limits and input validation. Left out
of the modelled components: opening hours, minimum durations, add-on prices and calendar months; how occupancy is counted;
the amount check and the signatures of a confirmation; notifications; the 24-hour prune of idempotency
keys, after which a key is fresh again; the second transaction of handlers that have two; a valet's other jobs;
the poll's flags; who may review, reports and responses; the numbers of the fifty waiver slots (one is free) and a failed grant's savepoint.
A claim of an onboarding is taken over only when its holder died: four calls of ten seconds end within its two minutes. Within a second a status at Razorpay only
gets further along, which is what the code's tie-break assumes. A clock unit stands for whatever makes the boundaries distinct. In ParkingBooking whether a message is in the
outbox or in a queue is not told apart.

Most of the repository is clients: the mobile, web and administration applications, their components and styles,
generated API types, migrations, seeds and tests. They keep no state of the system beyond caches of what the API told them, and their calls
are the inputs of the models. Of spaces only the approval and the pausing are modelled; the rest, and search, are row edits by their owner and read-side geometry.
The worst of notifications is a lost push. Sessions are an authentication mechanism, left aside here.

## Plan

1. Stronger lemmas for the liveness properties, as safety: that a booking that is pending has its expiry queued, that a decided refund has a message, a job or a record of failure, and that a payout in
   hand has a send to come.
2. What holds when everything may be overtaken: which of the properties of a booking survive once its captures are late, stated of the bookings that were not overtaken.
3. The weekly run composed with refunds that claw back earnings, and a wash with RefundSettlement.
4. The fifty waiver slots (no slot twice, the lowest free one reused when an owner leaves) and `RefreshTokens`.
5. Two jobs and one valet, to state what accepting both would break.
