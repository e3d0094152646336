-------------------------- MODULE RouteOnboarding --------------------------
(***************************************************************************)
(* How an owner comes to be paid: the Route linked account that a submit   *)
(* makes at Razorpay call by call, the status that Razorpay reports of it  *)
(* by webhook and in answers, and the commission-free window granted once  *)
(* the account is activated and a space approved.                          *)
(*                                                                         *)
(* Gateway calls are made outside transactions and each may fail, or be    *)
(* answered too late, or be the last thing a process does.  A claim is     *)
(* taken over only when its holder died: four calls of ten seconds end     *)
(* well within its two minutes.  All submits carry one email address, the  *)
(* user's owner role is active, and a waiver slot is free.                 *)
(***************************************************************************)
EXTENDS Integers, FiniteSets

CONSTANTS
  Submits,    \* requests to submit the form, made again once they ended
  Nobody,     \* claims: there is none,
  Dead,       \*   or its holder died
  MaxTime,    \* bound: seconds
  MaxLost     \* bound: parts that were made and whose id was not saved

ASSUME OnboardingAssumption ==
  /\ {Nobody, Dead} \cap Submits = {} /\ Nobody # Dead
  /\ MaxTime \in Nat /\ MaxLost \in Nat

VARIABLES
  kyc, statusAt,     \* kyc_status and route_status_at of the linked account
  saved,             \* parts whose id is in its row
  claim,             \* holder of the onboarding claim
  submits,           \* how far each submit is, and what it read
  made, lost,        \* parts at Razorpay, and of them those never saved
  route, changedAt,  \* status of the product at Razorpay, and since when
  events,            \* webhooks that have not been answered
  clock,
  applying,          \* the transaction that holds the linked account's row
  space,             \* approval status of the owner's space
  approving,         \* the transaction that approves it
  granted,           \* the owner has a waiver slot
  unseen             \* the owner came to qualify where no grant looks

row == <<kyc, statusAt, saved>>
gateway == <<made, lost, route, changedAt, events>>
waiver == <<space, approving, granted, unseen>>
vars == <<row, claim, submits, gateway, clock, applying, waiver>>

Parts == { "account", "stakeholder", "product" }
RouteStatuses ==
  { "pending", "under_review", "needs_clarification", "activated", "rejected", "suspended" }

(* LIFECYCLE *)
LifecycleOf(status) ==
  CASE status = "pending" -> 0
    [] status = "under_review" -> 1
    [] status = "needs_clarification" -> 2
    [] OTHER -> 3

Open == { "none", "pending", "needs_clarification" }

Steps == { "idle", "claimed", "release", "settlement", "status" } \cup Parts

After(step) ==
  CASE step = "account" -> "stakeholder"
    [] step = "stakeholder" -> "product"
    [] step = "product" -> "settlement"
    [] OTHER -> "release"

(* existing: parts of the row it read; inHand: whether the call of this     *)
(* step was made, and made something; answer: the settlement's.             *)
Idle == [step |-> "idle", existing |-> {}, inHand |-> "none", sentAt |-> 0, answer |-> "pending"]

(* A status being written by a submit, or by a webhook if by is Nobody.     *)
Application(by, status, at, seesSpace) ==
  [by |-> by, status |-> status, at |-> at, seesSpace |-> seesSpace]

Event(status, at) == [status |-> status, at |-> at]
Never == -1

Init ==
  /\ kyc = "none" /\ statusAt = Never /\ saved = {}
  /\ claim = Nobody /\ submits = [s \in Submits |-> Idle]
  /\ made = [p \in Parts |-> 0] /\ lost = [p \in Parts |-> 0]
  /\ route = "pending" /\ changedAt = Never /\ events = {}
  /\ clock = 0
  /\ applying = {}
  /\ space = "pending_approval" /\ approving = {}
  /\ granted = FALSE /\ unseen = FALSE

-----------------------------------------------------------------------------
(* SubmitRouteOnboardingCommand *)
At(s, step) == submits[s].step = step

Ended == [Idle EXCEPT !.step = "release"]
End(s) == submits' = [submits EXCEPT ![s] = Ended]

ClaimableAlways == TRUE
Claimable == claim \in {Nobody, Dead}

Claim(s) ==
  /\ At(s, "idle") /\ Claimable
  /\ claim' = s
  /\ submits' = [submits EXCEPT ![s].step = "claimed"]
  /\ UNCHANGED <<row, gateway, clock, applying, waiver>>

(* linkedFor; the row is locked to a submit that is not wanted. *)
ReadLinked(s) ==
  /\ At(s, "claimed")
  /\ IF kyc \in Open
     THEN submits' = [submits EXCEPT ![s].existing = saved, ![s].step = "account"]
     ELSE End(s)
  /\ UNCHANGED <<row, claim, gateway, clock, applying, waiver>>

(* A create is refused, naming the account, when there is one already.      *)
Exists(s, part) == part \in submits[s].existing \/ (part = "account" /\ made[part] > 0)

(* upsertAccount, upsertStakeholder, requestProduct *)
CallGateway(s) ==
  LET part == submits[s].step IN
  /\ part \in Parts /\ submits[s].inHand = "none"
  /\ made' = IF Exists(s, part) THEN made ELSE [made EXCEPT ![part] = @ + 1]
  /\ submits' = [submits EXCEPT ![s].inHand = IF Exists(s, part) THEN "old" ELSE "new"]
  /\ UNCHANGED <<row, claim, lost, route, changedAt, events, clock, applying, waiver>>

(* saveLinked, a statement of its own: it waits for a lock on the row. *)
SaveLinked(s) ==
  LET part == submits[s].step IN
  /\ part \in Parts /\ submits[s].inHand # "none"
  /\ applying = {}
  /\ saved' = saved \cup {part}
  /\ kyc' = IF kyc = "none" THEN "pending" ELSE kyc
  /\ submits' = [submits EXCEPT ![s].step = After(part), ![s].inHand = "none"]
  /\ UNCHANGED <<statusAt, claim, gateway, clock, applying, waiver>>

SendSettlement(s) ==
  /\ At(s, "settlement") /\ submits[s].inHand = "none"
  /\ submits' = [submits EXCEPT ![s].inHand = "old", ![s].sentAt = clock]
  /\ UNCHANGED <<row, claim, gateway, clock, applying, waiver>>

(* A step that fails, whatever the gateway made of it, releases the claim;  *)
(* one that dies leaves it.                                                 *)
Running(s) ==
  /\ submits[s].step \notin { "idle", "release" }
  /\ \A a \in applying : a.by # s

LosesAnswer(s) ==
  IF At(s, "settlement") \/ submits[s].inHand # "new"
  THEN UNCHANGED lost
  ELSE /\ lost["account"] + lost["stakeholder"] + lost["product"] < MaxLost
       /\ lost' = [lost EXCEPT ![submits[s].step] = @ + 1]

Fail(s) ==
  /\ Running(s)
  /\ LosesAnswer(s)
  /\ End(s)
  /\ UNCHANGED <<row, claim, made, route, changedAt, events, clock, applying, waiver>>

Die(s) ==
  /\ Running(s) \/ At(s, "release")
  /\ LosesAnswer(s)
  /\ submits' = [submits EXCEPT ![s] = Idle]
  /\ claim' = IF claim = s THEN Dead ELSE claim
  /\ UNCHANGED <<row, made, route, changedAt, events, clock, applying, waiver>>

Release(s) ==
  /\ At(s, "release")
  /\ submits' = [submits EXCEPT ![s] = Idle]
  /\ claim' = IF claim = s THEN Nobody ELSE claim
  /\ UNCHANGED <<row, gateway, clock, applying, waiver>>

-----------------------------------------------------------------------------
(* Razorpay.  Every change of status is told by an event; within a second   *)
(* a status only gets further along.                                        *)
MayBecome(next) == clock > changedAt \/ LifecycleOf(next) > LifecycleOf(route)

Become(next) ==
  /\ MayBecome(next)
  /\ route' = next /\ changedAt' = clock
  /\ events' = events \cup {Event(next, clock)}

AnswerSettlement(s) ==
  /\ At(s, "settlement") /\ submits[s].inHand # "none"
  /\ \/ UNCHANGED <<route, changedAt, events>>
     \/ /\ route \in { "pending", "needs_clarification" }
        /\ \E next \in { "under_review", "activated" } : Become(next)
  /\ submits' = [submits EXCEPT ![s].step = "status", ![s].inHand = "none", ![s].answer = route']
  /\ UNCHANGED <<row, claim, made, lost, clock, applying, waiver>>

Verdicts ==
  CASE route = "under_review" -> { "needs_clarification", "activated", "rejected" }
    [] route = "activated" -> { "suspended" }
    [] route = "suspended" -> { "activated" }
    [] OTHER -> {}

RouteMoves ==
  /\ \E next \in Verdicts : Become(next)
  /\ UNCHANGED <<row, claim, submits, made, lost, clock, applying, waiver>>

Tick ==
  /\ clock < MaxTime
  /\ clock' = clock + 1
  /\ UNCHANGED <<row, claim, submits, gateway, applying, waiver>>

-----------------------------------------------------------------------------
(* applyRouteStatus: a webhook is ordered by its own time and, within a     *)
(* second, by how far along it is; an answer yields to any webhook of the   *)
(* second it was asked in, and leaves the time alone.                       *)
StaleEvent(status, at) ==
  statusAt > at \/ (statusAt = at /\ LifecycleOf(status) < LifecycleOf(kyc))

StaleIfAsOld(at) == statusAt > at
StaleAnswer(at) == statusAt # Never /\ statusAt >= at

Activating(status) == status = "activated" /\ kyc # "activated"

(* The row is locked, the status written, and grantIfEligible looks at the  *)
(* space as committed.                                                      *)
Begin(by, status, at) ==
  /\ applying = {}
  /\ applying' = {Application(by, status, at, space = "active")}
  /\ unseen' = (unseen \/ (Activating(status) /\ approving # {}))
  /\ UNCHANGED <<row, claim, submits, gateway, clock, space, approving, granted>>

BeginAnswer(s) ==
  /\ At(s, "status") /\ ~ StaleAnswer(submits[s].sentAt)
  /\ Begin(s, submits[s].answer, submits[s].sentAt)

DropAnswer(s) ==
  /\ At(s, "status") /\ StaleAnswer(submits[s].sentAt) /\ applying = {}
  /\ End(s)
  /\ UNCHANGED <<row, claim, gateway, clock, applying, waiver>>

BeginEvent(e) ==
  /\ kyc # "none" /\ ~ StaleEvent(e.status, e.at)
  /\ Begin(Nobody, e.status, e.at)

Answered(e) == events' = events \ {e}

(* Older than what is stored, or of an account that is not held. *)
DropEvent(e) ==
  /\ kyc = "none" \/ StaleEvent(e.status, e.at)
  /\ applying = {}
  /\ Answered(e)
  /\ UNCHANGED <<row, claim, submits, made, lost, route, changedAt, clock, applying, waiver>>

(* CommissionWaiverService.grant: once ever. *)
GrantIfEligible(eligible) == granted' = (granted \/ eligible)

AsksForGrantAsWebhook(a) == a.by = Nobody /\ Activating(a.status)
AsksForGrant(a) == Activating(a.status)

Commit(a) ==
  /\ kyc' = a.status
  /\ statusAt' = IF a.by = Nobody THEN a.at ELSE statusAt
  /\ GrantIfEligible(AsksForGrant(a) /\ a.seesSpace)
  /\ applying' = {}
  /\ UNCHANGED <<saved, claim, made, lost, route, changedAt, clock, space, approving, unseen>>

CommitAnswer(a) ==
  /\ a.by \in Submits
  /\ End(a.by)
  /\ Commit(a)
  /\ UNCHANGED events

(* The 200 may be lost: the event comes again. *)
CommitEvent(a) ==
  /\ a.by = Nobody
  /\ Answered(Event(a.status, a.at)) \/ UNCHANGED events
  /\ Commit(a)
  /\ UNCHANGED submits

RollBack(a) ==
  /\ applying' = {}
  /\ IF a.by = Nobody THEN UNCHANGED submits ELSE End(a.by)
  /\ UNCHANGED <<row, claim, gateway, clock, waiver>>

-----------------------------------------------------------------------------
(* ReviewSpaceCommand.approve, from the lock on the space to its commit. *)
BeginApproval ==
  /\ space = "pending_approval" /\ approving = {}
  /\ approving' = {kyc = "activated"}
  /\ unseen' = (unseen \/ \E a \in applying : Activating(a.status))
  /\ UNCHANGED <<row, claim, submits, gateway, clock, applying, space, granted>>

CommitApproval ==
  /\ approving # {}
  /\ space' = "active" /\ approving' = {}
  /\ GrantIfEligible(TRUE \in approving)
  /\ UNCHANGED <<row, claim, submits, gateway, clock, applying, unseen>>

(* ToggleSpaceCommand: what it resumes was approved, and it grants nothing. *)
ToggleSpace ==
  /\ space \in { "active", "inactive" }
  /\ space' = IF space = "active" THEN "inactive" ELSE "active"
  /\ unseen' = (unseen \/ space = "inactive")
  /\ UNCHANGED <<row, claim, submits, gateway, clock, applying, approving, granted>>

Submit(s) ==
  \/ Claim(s) \/ ReadLinked(s) \/ CallGateway(s) \/ SaveLinked(s)
  \/ SendSettlement(s) \/ AnswerSettlement(s) \/ BeginAnswer(s) \/ DropAnswer(s)
  \/ Fail(s) \/ Die(s) \/ Release(s)

Webhook == \E e \in events : BeginEvent(e) \/ DropEvent(e)
Transaction == \E a \in applying : CommitAnswer(a) \/ CommitEvent(a) \/ RollBack(a)
Listing == BeginApproval \/ CommitApproval \/ ToggleSpace

Next ==
  \/ \E s \in Submits : Submit(s)
  \/ Webhook \/ Transaction
  \/ Listing
  \/ RouteMoves \/ Tick

Spec == Init /\ [][Next]_vars

-----------------------------------------------------------------------------
SubmitRecords ==
  [step : Steps, existing : SUBSET Parts, inHand : {"none", "old", "new"},
   sentAt : 0..MaxTime, answer : RouteStatuses]

Applications ==
  [by : Submits \cup {Nobody}, status : RouteStatuses, at : 0..MaxTime, seesSpace : BOOLEAN]

TypeOK ==
  /\ kyc \in RouteStatuses \cup {"none"} /\ statusAt \in Never..MaxTime
  /\ saved \subseteq Parts
  /\ claim \in Submits \cup {Nobody, Dead}
  /\ submits \in [Submits -> SubmitRecords]
  /\ made \in [Parts -> Nat] /\ lost \in [Parts -> 0..MaxLost]
  /\ route \in RouteStatuses /\ changedAt \in Never..MaxTime
  /\ events \subseteq [status : RouteStatuses, at : 0..MaxTime]
  /\ clock \in 0..MaxTime
  /\ applying \subseteq Applications
  /\ space \in { "pending_approval", "active", "inactive" }
  /\ approving \subseteq BOOLEAN
  /\ granted \in BOOLEAN /\ unseen \in BOOLEAN

(* submit-route-onboarding.command: two submits, failures and crashes in    *)
(* any order make one account, and no part twice unless the id of the first *)
(* was never saved.                                                         *)
MadeOnce ==
  /\ made["account"] =< 1
  /\ \A p \in Parts : made[p] =< 1 + lost[p]

(* payout.service, applyRouteStatus: late events, repeated events and slow  *)
(* answers end at what Razorpay last said.                                  *)
Quiet ==
  /\ events = {} /\ applying = {}
  /\ \A s \in Submits : submits[s].step # "status"

StatusSettles == Quiet => kyc = route \/ (kyc = "none" /\ route = "pending")

(* commission-waiver.service: an owner qualifies by the activation or by    *)
(* the approval, whichever comes last, and is granted a slot then.          *)
QualifiedIsGranted ==
  kyc = "activated" /\ space = "active" => granted \/ unseen
=============================================================================
