-------------------------- MODULE OnboardingProofs --------------------------
(***************************************************************************)
(* RouteOnboarding for any number of submits, any length of time and any   *)
(* number of lost answers: types, that nothing is made twice, that the     *)
(* stored status settles at what Razorpay last said, and that an owner who *)
(* comes to qualify is granted the window where a grant looks for it.      *)
(***************************************************************************)
EXTENDS RouteOnboarding, TLAPS

LEMMA IdleTyped == Idle \in SubmitRecords /\ Ended \in SubmitRecords
BY OnboardingAssumption DEF Idle, Ended, SubmitRecords, Steps, Parts, RouteStatuses

LEMMA InitTypeOK == Init => TypeOK
<1> SUFFICES ASSUME Init PROVE TypeOK
  OBVIOUS
<1>1. statusAt \in Never..MaxTime /\ changedAt \in Never..MaxTime /\ clock \in 0..MaxTime
  BY OnboardingAssumption DEF Init, Never
<1>2. submits \in [Submits -> SubmitRecords]
  BY IdleTyped DEF Init
<1>3. made \in [Parts -> Nat] /\ lost \in [Parts -> 0..MaxLost]
  BY OnboardingAssumption DEF Init
<1> QED BY <1>1, <1>2, <1>3 DEF Init, TypeOK, RouteStatuses

LEMMA BecomeTyped ==
  ASSUME TypeOK, NEW next \in RouteStatuses, Become(next)
  PROVE  /\ route' \in RouteStatuses /\ changedAt' \in Never..MaxTime
         /\ events' \subseteq [status : RouteStatuses, at : 0..MaxTime]
BY OnboardingAssumption DEF TypeOK, Become, Event, Never

LEMMA BeginTyped ==
  ASSUME TypeOK, NEW by \in Submits \cup {Nobody}, NEW status \in RouteStatuses,
         NEW at \in 0..MaxTime, Begin(by, status, at)
  PROVE  TypeOK'
<1>1. applying' \subseteq Applications
  BY DEF Begin, Application, Applications
<1>2. unseen' \in BOOLEAN
  BY DEF TypeOK, Begin, Activating
<1> QED BY <1>1, <1>2 DEF TypeOK, Begin, row, gateway

LEMMA CommitTyped ==
  ASSUME TypeOK, NEW a \in applying, Commit(a),
         submits' \in [Submits -> SubmitRecords],
         events' \subseteq [status : RouteStatuses, at : 0..MaxTime]
  PROVE  TypeOK'
<1>1. a \in Applications
  BY DEF TypeOK
<1>2. a.status \in RouteStatuses /\ a.at \in Never..MaxTime /\ a.seesSpace \in BOOLEAN
  BY <1>1, OnboardingAssumption DEF Applications, Never
<1>3. granted' \in BOOLEAN
  BY <1>2 DEF TypeOK, Commit, GrantIfEligible, AsksForGrant, Activating
<1> QED BY <1>2, <1>3 DEF TypeOK, Commit

LEMMA LostTyped ==
  ASSUME TypeOK, NEW s \in Submits, LosesAnswer(s)
  PROVE  lost' \in [Parts -> 0..MaxLost]
<1>1. CASE UNCHANGED lost
  BY <1>1 DEF TypeOK
<1>2. CASE /\ lost["account"] + lost["stakeholder"] + lost["product"] < MaxLost
           /\ lost' = [lost EXCEPT ![submits[s].step] = @ + 1]
  <2>1. \A p \in Parts : lost[p] \in Nat /\ lost[p] + 1 \in 0..MaxLost
    BY <1>2, OnboardingAssumption DEF TypeOK, Parts
  <2> QED BY <1>2, <2>1 DEF TypeOK
<1> QED BY <1>1, <1>2 DEF LosesAnswer

LEMMA NextTypeOK == TypeOK /\ [Next]_vars => TypeOK'
<1> SUFFICES ASSUME TypeOK, [Next]_vars PROVE TypeOK'
  OBVIOUS
<1>s. ASSUME NEW s \in Submits, Submit(s) PROVE TypeOK'
  <2>r. submits[s] \in SubmitRecords
    BY DEF TypeOK
  <2>1. CASE Claim(s)
    <3>1. submits' \in [Submits -> SubmitRecords]
      BY <2>1 DEF TypeOK, Claim, SubmitRecords, Steps
    <3> QED BY <2>1, <3>1 DEF TypeOK, Claim, row, gateway, waiver
  <2>2. CASE ReadLinked(s)
    <3>1. submits' \in [Submits -> SubmitRecords]
      <4>1. CASE kyc \in Open
        BY <2>2, <4>1 DEF TypeOK, ReadLinked, SubmitRecords, Steps, Parts
      <4>2. CASE kyc \notin Open
        BY <2>2, <4>2, IdleTyped DEF TypeOK, ReadLinked, End
      <4> QED BY <4>1, <4>2
    <3> QED BY <2>2, <3>1 DEF TypeOK, ReadLinked, row, gateway, waiver
  <2>3. CASE CallGateway(s)
    <3>1. submits' \in [Submits -> SubmitRecords]
      BY <2>3 DEF TypeOK, CallGateway, SubmitRecords
    <3>2. made' \in [Parts -> Nat]
      BY <2>3 DEF TypeOK, CallGateway
    <3> QED BY <2>3, <3>1, <3>2 DEF TypeOK, CallGateway, row, waiver
  <2>4. CASE SaveLinked(s)
    <3>1. submits' \in [Submits -> SubmitRecords]
      BY <2>4 DEF TypeOK, SaveLinked, SubmitRecords, After, Steps, Parts
    <3>2. saved' \subseteq Parts /\ kyc' \in RouteStatuses \cup {"none"}
      BY <2>4 DEF TypeOK, SaveLinked, RouteStatuses
    <3> QED BY <2>4, <3>1, <3>2 DEF TypeOK, SaveLinked, gateway, waiver
  <2>5. CASE SendSettlement(s)
    <3>1. submits' \in [Submits -> SubmitRecords]
      BY <2>5 DEF TypeOK, SendSettlement, SubmitRecords
    <3> QED BY <2>5, <3>1 DEF TypeOK, SendSettlement, row, gateway, waiver
  <2>6. CASE AnswerSettlement(s)
    <3>1. /\ route' \in RouteStatuses /\ changedAt' \in Never..MaxTime
          /\ events' \subseteq [status : RouteStatuses, at : 0..MaxTime]
      <4>1. CASE UNCHANGED <<route, changedAt, events>>
        BY <4>1 DEF TypeOK
      <4>2. CASE \E next \in { "under_review", "activated" } : Become(next)
        BY <4>2, BecomeTyped DEF RouteStatuses
      <4> QED BY <2>6, <4>1, <4>2 DEF AnswerSettlement
    <3>2. submits' \in [Submits -> SubmitRecords]
      BY <2>6, <3>1 DEF TypeOK, AnswerSettlement, SubmitRecords, Steps
    <3> QED BY <2>6, <3>1, <3>2 DEF TypeOK, AnswerSettlement, row, waiver
  <2>7. CASE BeginAnswer(s)
    <3>1. submits[s].answer \in RouteStatuses /\ submits[s].sentAt \in 0..MaxTime
      BY <2>r DEF SubmitRecords
    <3> QED BY <2>7, <3>1, BeginTyped DEF BeginAnswer
  <2>8. CASE DropAnswer(s)
    BY <2>8, IdleTyped DEF TypeOK, DropAnswer, End, row, gateway, waiver
  <2>9. CASE Fail(s)
    <3>1. submits' \in [Submits -> SubmitRecords]
      BY <2>9, IdleTyped DEF TypeOK, Fail, End
    <3> QED BY <2>9, <3>1, LostTyped DEF TypeOK, Fail, row, waiver
  <2>10. CASE Die(s)
    <3>1. submits' \in [Submits -> SubmitRecords] /\ claim' \in Submits \cup {Nobody, Dead}
      BY <2>10, IdleTyped DEF TypeOK, Die
    <3> QED BY <2>10, <3>1, LostTyped DEF TypeOK, Die, row, waiver
  <2>11. CASE Release(s)
    BY <2>11, IdleTyped DEF TypeOK, Release, row, gateway, waiver
  <2> QED
    BY <1>s, <2>1, <2>2, <2>3, <2>4, <2>5, <2>6, <2>7, <2>8, <2>9, <2>10, <2>11 DEF Submit
<1>w. ASSUME NEW e \in events, BeginEvent(e) \/ DropEvent(e) PROVE TypeOK'
  <2>1. e.status \in RouteStatuses /\ e.at \in 0..MaxTime
    BY DEF TypeOK
  <2>2. CASE BeginEvent(e)
    BY <2>1, <2>2, BeginTyped DEF BeginEvent
  <2>3. CASE DropEvent(e)
    BY <2>3 DEF TypeOK, DropEvent, Answered, row, waiver
  <2> QED BY <1>w, <2>2, <2>3
<1>t. ASSUME NEW a \in applying, CommitAnswer(a) \/ CommitEvent(a) \/ RollBack(a) PROVE TypeOK'
  <2>1. a.by \in Submits \cup {Nobody}
    BY DEF TypeOK, Applications
  <2>2. CASE CommitAnswer(a)
    <3>1. submits' \in [Submits -> SubmitRecords]
      BY <2>2, IdleTyped DEF TypeOK, CommitAnswer, End
    <3>2. events' \subseteq [status : RouteStatuses, at : 0..MaxTime]
      BY <2>2 DEF TypeOK, CommitAnswer
    <3> QED BY <2>2, <3>1, <3>2, CommitTyped DEF CommitAnswer
  <2>3. CASE CommitEvent(a)
    <3>1. submits' \in [Submits -> SubmitRecords]
      BY <2>3 DEF TypeOK, CommitEvent
    <3>2. events' \subseteq [status : RouteStatuses, at : 0..MaxTime]
      BY <2>3 DEF TypeOK, CommitEvent, Answered
    <3> QED BY <2>3, <3>1, <3>2, CommitTyped DEF CommitEvent
  <2>4. CASE RollBack(a)
    <3>1. submits' \in [Submits -> SubmitRecords]
      BY <2>1, <2>4, IdleTyped DEF TypeOK, RollBack, End
    <3> QED BY <2>4, <3>1 DEF TypeOK, RollBack, row, gateway, waiver
  <2> QED BY <1>t, <2>2, <2>3, <2>4
<1>l. CASE Listing
  <2>1. CASE BeginApproval
    <3>1. unseen' \in BOOLEAN /\ approving' \subseteq BOOLEAN
      BY <2>1 DEF TypeOK, BeginApproval
    <3> QED BY <2>1, <3>1 DEF TypeOK, BeginApproval, row, gateway
  <2>2. CASE CommitApproval
    BY <2>2 DEF TypeOK, CommitApproval, GrantIfEligible, row, gateway
  <2>3. CASE ToggleSpace
    BY <2>3 DEF TypeOK, ToggleSpace, row, gateway
  <2> QED BY <1>l, <2>1, <2>2, <2>3 DEF Listing
<1>m. CASE RouteMoves
  <2>1. PICK next \in Verdicts : Become(next)
    BY <1>m DEF RouteMoves
  <2>2. next \in RouteStatuses
    BY DEF Verdicts, RouteStatuses
  <2>3. /\ route' \in RouteStatuses /\ changedAt' \in Never..MaxTime
        /\ events' \subseteq [status : RouteStatuses, at : 0..MaxTime]
    BY <2>1, <2>2, BecomeTyped
  <2> QED BY <1>m, <2>3 DEF TypeOK, RouteMoves, row, waiver
<1>c. CASE Tick
  BY <1>c, OnboardingAssumption DEF TypeOK, Tick, row, gateway, waiver
<1>u. CASE UNCHANGED vars
  BY <1>u DEF TypeOK, vars, row, gateway, waiver
<1> QED BY <1>s, <1>w, <1>t, <1>l, <1>m, <1>c, <1>u DEF Next, Webhook, Transaction

-----------------------------------------------------------------------------
(* Whoever runs holds the claim, so one submit runs at most; what it read   *)
(* of the parts it has yet to make is still what is saved; and each part at *)
(* Razorpay was lost, is saved, or is in the hand of who just made it.      *)
Remaining(step) ==
  CASE step = "account" -> Parts
    [] step = "stakeholder" -> { "stakeholder", "product" }
    [] step = "product" -> { "product" }
    [] OTHER -> {}

OneRuns == \A s \in Submits : submits[s].step # "idle" => claim = s
InHand == \A s \in Submits : submits[s].inHand = "new" => submits[s].step \in Parts
Known == \A s \in Submits : Remaining(submits[s].step) \cap saved \subseteq submits[s].existing
Writing == \A a \in applying : a.by \in Submits => submits[a.by].step = "status"

HasNew(p) == \E s \in Submits : submits[s].step = p /\ submits[s].inHand = "new"
Accounted(p) == made[p] =< lost[p] + IF p \in saved \/ HasNew(p) THEN 1 ELSE 0
AllAccounted == made["account"] =< 1 /\ \A p \in Parts : Accounted(p)

RunInv == OneRuns /\ InHand /\ Known /\ Writing /\ AllAccounted

LEMMA InitRunInv == Init => RunInv
<1> SUFFICES ASSUME Init PROVE RunInv
  OBVIOUS
<1>1. \A s \in Submits : submits[s].step = "idle" /\ submits[s].inHand = "none"
  BY DEF Init, Idle
<1>2. \A p \in Parts : made[p] = 0 /\ lost[p] = 0
  BY DEF Init
<1>3. Remaining("idle") = {}
  BY DEF Remaining
<1>4. AllAccounted
  BY <1>2 DEF AllAccounted, Accounted, Parts
<1>5. applying = {}
  BY DEF Init
<1> QED BY <1>1, <1>3, <1>4, <1>5 DEF RunInv, OneRuns, InHand, Known, Writing

LEMMA OthersIdle ==
  ASSUME TypeOK, RunInv, NEW s \in Submits, ~ At(s, "idle") \/ Claimable
  PROVE  \A u \in Submits \ {s} : submits[u].step = "idle"
BY OnboardingAssumption DEF RunInv, OneRuns, At, Claimable

(* One submit moved: the invariant is left to show for it alone.            *)
LEMMA OneMoves ==
  ASSUME TypeOK, RunInv, NEW s \in Submits, NEW STATE new,
         submits' = [submits EXCEPT ![s] = new],
         ~ At(s, "idle") \/ Claimable,
         new.step # "idle" => claim' = s,
         new.inHand = "new" => new.step \in Parts,
         Remaining(new.step) \cap saved' \subseteq new.existing,
         applying' \subseteq applying,
         \A a \in applying' : a.by = s => new.step = "status"
  PROVE  OneRuns' /\ InHand' /\ Known' /\ Writing'
<1>1. \A u \in Submits \ {s} : submits'[u] = submits[u] /\ submits[u].step = "idle"
  BY OthersIdle DEF TypeOK
<1>2. submits'[s] = new
  BY DEF TypeOK
<1>3. Remaining("idle") = {}
  BY DEF Remaining
<1>4. OneRuns' /\ InHand'
  BY <1>1, <1>2 DEF RunInv, OneRuns, InHand
<1>5. Known'
  BY <1>1, <1>2, <1>3 DEF Known
<1>6. Writing'
  BY <1>1, <1>2 DEF RunInv, Writing
<1> QED BY <1>4, <1>5, <1>6

(* A submit that held nothing new and holds nothing new leaves all parts as *)
(* they are accounted for.                                                  *)
LEMMA NothingNew ==
  ASSUME TypeOK, RunInv, NEW s \in Submits, NEW STATE new,
         submits' = [submits EXCEPT ![s] = new],
         submits[s].inHand # "new", new.inHand # "new",
         UNCHANGED <<made, lost, saved>>
  PROVE  AllAccounted'
<1>1. /\ submits'[s] = new
      /\ \A u \in Submits \ {s} : submits'[u] = submits[u]
  BY DEF TypeOK
<1>2. \A p \in Parts : HasNew(p)' <=> HasNew(p)
  BY <1>1 DEF HasNew
<1> QED BY <1>2 DEF RunInv, AllAccounted, Accounted

(* A step that fails takes what it has in hand to be lost.                  *)
LEMMA LosesAccounted ==
  ASSUME TypeOK, RunInv, NEW s \in Submits, NEW STATE new,
         submits' = [submits EXCEPT ![s] = new],
         ~ At(s, "idle"), new.inHand # "new", LosesAnswer(s),
         UNCHANGED <<made, saved>>
  PROVE  AllAccounted'
<1>1. /\ submits'[s] = new
      /\ \A u \in Submits \ {s} : submits'[u] = submits[u]
  BY DEF TypeOK
<1>2. CASE submits[s].inHand # "new"
  <2>1. UNCHANGED lost
    BY <1>2 DEF LosesAnswer
  <2> QED BY <1>2, <2>1, NothingNew
<1>3. CASE submits[s].inHand = "new"
  <2>1. PICK part \in Parts : part = submits[s].step
    BY <1>3 DEF RunInv, InHand
  <2>2. lost' = [lost EXCEPT ![part] = @ + 1]
    BY <1>3, <2>1 DEF LosesAnswer, At, Parts
  <2>3. \A p \in Parts \ {part} : HasNew(p)' <=> HasNew(p)
    BY <1>1, <1>3, <2>1 DEF HasNew
  <2>4. lost'[part] = lost[part] + 1 /\ \A p \in Parts \ {part} : lost'[p] = lost[p]
    BY <2>1, <2>2 DEF TypeOK
  <2>5. /\ made["account"] =< 1 /\ \A p \in Parts : Accounted(p)
        /\ made[part] \in Nat /\ lost[part] \in Nat
    BY <2>1, OnboardingAssumption DEF RunInv, AllAccounted, TypeOK
  <2>6. Accounted(part)'
    BY <2>1, <2>4, <2>5 DEF Accounted
  <2>7. \A p \in Parts \ {part} : Accounted(p)'
    BY <2>3, <2>4, <2>5 DEF Accounted
  <2> QED BY <2>5, <2>6, <2>7 DEF AllAccounted
<1> QED BY <1>2, <1>3

LEMMA NothingRemains ==
  /\ Remaining("idle") = {} /\ Remaining("claimed") = {} /\ Remaining("release") = {}
  /\ Remaining("settlement") = {} /\ Remaining("status") = {}
  /\ Idle.step = "idle" /\ Idle.inHand = "none"
  /\ Ended.step = "release" /\ Ended.inHand = "none"
BY DEF Remaining, Idle, Ended

(* The end of a submit, by failure, death or an answer dealt with.          *)
LEMMA EndsRunInv ==
  ASSUME TypeOK, RunInv, NEW s \in Submits, NEW STATE new, new \in {Idle, Ended},
         submits' = [submits EXCEPT ![s] = new],
         ~ At(s, "idle"), LosesAnswer(s), UNCHANGED <<made, saved>>,
         new = Idle \/ claim' = claim,
         applying' \subseteq applying, \A a \in applying' : a.by # s
  PROVE  RunInv'
<1>1. claim = s
  BY DEF RunInv, OneRuns, At
<1>2. OneRuns' /\ InHand' /\ Known' /\ Writing'
  BY <1>1, OneMoves, NothingRemains
<1>3. AllAccounted'
  BY LosesAccounted, NothingRemains
<1> QED BY <1>2, <1>3 DEF RunInv

LEMMA KeepsRunInv ==
  ASSUME RunInv, UNCHANGED <<claim, submits, saved, made, lost>>,
         \A a \in applying' : a \in applying \/ (a.by \in Submits => submits[a.by].step = "status")
  PROVE  RunInv'
<1>1. \A p : HasNew(p)' <=> HasNew(p)
  BY DEF HasNew
<1>2. AllAccounted'
  BY <1>1 DEF RunInv, AllAccounted, Accounted
<1> QED BY <1>2 DEF RunInv, OneRuns, InHand, Known, Writing

LEMMA SubmitRunInv ==
  ASSUME TypeOK, RunInv, NEW s \in Submits, Submit(s)
  PROVE  RunInv'
<1>r. submits[s] \in SubmitRecords
  BY DEF TypeOK
<1>i. \A a \in applying : a.by = s => At(s, "status")
  BY DEF RunInv, Writing, At
<1>1. CASE Claim(s)
  <2> DEFINE new == [submits[s] EXCEPT !.step = "claimed"]
  <2>1. new.step = "claimed" /\ new.inHand = submits[s].inHand
    BY <1>r DEF SubmitRecords
  <2>2. /\ submits' = [submits EXCEPT ![s] = new] /\ claim' = s /\ Claimable /\ At(s, "idle")
        /\ UNCHANGED <<applying, saved, made, lost>>
    BY <1>1 DEF Claim, gateway, row
  <2>3. submits[s].inHand # "new"
    BY <2>2 DEF RunInv, InHand, At, Parts
  <2> HIDE DEF new
  <2>4. OneRuns' /\ InHand' /\ Known' /\ Writing'
    BY <2>1, <2>2, <2>3, <1>i, OneMoves, NothingRemains DEF At
  <2>5. AllAccounted'
    BY <2>1, <2>2, <2>3, NothingNew
  <2> QED BY <2>4, <2>5 DEF RunInv
<1>2. CASE ReadLinked(s)
  <2>1. /\ At(s, "claimed") /\ claim' = claim /\ UNCHANGED <<applying, saved, made, lost>>
        /\ submits[s].inHand # "new" /\ ~ At(s, "idle") /\ claim = s
    BY <1>2 DEF ReadLinked, gateway, row, RunInv, InHand, OneRuns, At, Parts
  <2>2. CASE kyc \in Open
    <3> DEFINE new == [submits[s] EXCEPT !.existing = saved, !.step = "account"]
    <3>1. new.step = "account" /\ new.inHand = submits[s].inHand /\ new.existing = saved
      BY <1>r DEF SubmitRecords
    <3>2. submits' = [submits EXCEPT ![s] = new]
      BY <1>2, <2>2 DEF ReadLinked
    <3> HIDE DEF new
    <3>3. OneRuns' /\ InHand' /\ Known' /\ Writing'
      BY <2>1, <3>1, <3>2, <1>i, OneMoves DEF At
    <3>4. AllAccounted'
      BY <2>1, <3>1, <3>2, NothingNew
    <3> QED BY <3>3, <3>4 DEF RunInv
  <2>3. CASE kyc \notin Open
    <3>1. submits' = [submits EXCEPT ![s] = Ended]
      BY <1>2, <2>3 DEF ReadLinked, End
    <3>2. OneRuns' /\ InHand' /\ Known' /\ Writing'
      BY <2>1, <3>1, <1>i, OneMoves, NothingRemains DEF At
    <3>3. AllAccounted'
      BY <2>1, <3>1, NothingNew, NothingRemains
    <3> QED BY <3>2, <3>3 DEF RunInv
  <2> QED BY <2>2, <2>3
<1>3. CASE CallGateway(s)
  <2>p. PICK part \in Parts : part = submits[s].step
    BY <1>3 DEF CallGateway
  <2> DEFINE new == [submits[s] EXCEPT !.inHand = IF Exists(s, part) THEN "old" ELSE "new"]
  <2>1. /\ submits[s].inHand = "none"
        /\ submits' = [submits EXCEPT ![s] = new]
        /\ made' = IF Exists(s, part) THEN made ELSE [made EXCEPT ![part] = @ + 1]
        /\ UNCHANGED <<saved, claim, lost, applying>>
    BY <1>3, <2>p DEF CallGateway, row
  <2>2. /\ new.step = part /\ new.existing = submits[s].existing
        /\ new.inHand = IF Exists(s, part) THEN "old" ELSE "new"
    BY <1>r, <2>p DEF SubmitRecords
  <2>3. ~ At(s, "idle") /\ claim = s /\ ~ At(s, "status")
    BY <2>p DEF RunInv, OneRuns, At, Parts
  <2>4. Remaining(part) \cap saved \subseteq submits[s].existing
    BY <2>p DEF RunInv, Known
  <2>5. OneRuns' /\ InHand' /\ Known' /\ Writing'
    <3> HIDE DEF new
    <3> QED BY <2>1, <2>2, <2>3, <2>4, <1>i, OneMoves DEF At
  <2>6. AllAccounted'
    <3>1. CASE Exists(s, part)
      <4> HIDE DEF new
      <4> QED BY <2>1, <2>2, <3>1, NothingNew
    <3>2. CASE ~ Exists(s, part)
      <4>1. part \in Remaining(part)
        BY <2>p DEF Remaining, Parts
      <4>2. part \notin saved
        BY <2>4, <3>2, <4>1 DEF Exists
      <4>3. /\ submits'[s] = new
            /\ \A u \in Submits \ {s} : submits'[u] = submits[u] /\ submits[u].step = "idle"
        BY <2>1, <2>3, OthersIdle DEF TypeOK
      <4>4. ~ HasNew(part) /\ HasNew(part)'
        BY <2>1, <2>2, <2>p, <3>2, <4>3 DEF HasNew, Parts
      <4>5. \A p \in Parts \ {part} : HasNew(p)' <=> HasNew(p)
        BY <2>1, <2>2, <2>p, <4>3 DEF HasNew
      <4>6. made'[part] = made[part] + 1 /\ \A p \in Parts \ {part} : made'[p] = made[p]
        BY <2>1, <3>2 DEF TypeOK
      <4>7. /\ made["account"] =< 1 /\ \A p \in Parts : Accounted(p)
            /\ made[part] \in Nat /\ lost[part] \in Nat
        BY <2>1, OnboardingAssumption DEF RunInv, AllAccounted, TypeOK
      <4>8. Accounted(part)'
        BY <2>1, <4>2, <4>4, <4>6, <4>7 DEF Accounted
      <4>9. \A p \in Parts \ {part} : Accounted(p)'
        BY <2>1, <4>5, <4>6, <4>7 DEF Accounted
      <4>10. made'["account"] =< 1
        BY <3>2, <4>6, <4>7 DEF Exists, Parts
      <4> QED BY <4>8, <4>9, <4>10 DEF AllAccounted
    <3> QED BY <3>1, <3>2
  <2> QED BY <2>5, <2>6 DEF RunInv
<1>4. CASE SaveLinked(s)
  <2>p. PICK part \in Parts : part = submits[s].step
    BY <1>4 DEF SaveLinked
  <2> DEFINE new == [submits[s] EXCEPT !.step = After(part), !.inHand = "none"]
  <2>1. /\ submits[s].inHand # "none" /\ applying = {}
        /\ saved' = saved \cup {part}
        /\ submits' = [submits EXCEPT ![s] = new]
        /\ UNCHANGED <<made, claim, lost, applying>>
    BY <1>4, <2>p DEF SaveLinked, gateway
  <2>2. new.step = After(part) /\ new.existing = submits[s].existing /\ new.inHand = "none"
    BY <1>r DEF SubmitRecords
  <2>3. ~ At(s, "idle") /\ claim = s
    BY <2>p DEF RunInv, OneRuns, At, Parts
  <2>4. Remaining(After(part)) \cap saved' \subseteq new.existing
    <3>1. Remaining(part) \cap saved \subseteq submits[s].existing
      BY <2>p DEF RunInv, Known
    <3>2. Remaining(After(part)) \subseteq Remaining(part) \ {part}
      BY <2>p DEF Remaining, After, Parts
    <3> QED BY <2>1, <2>2, <3>1, <3>2
  <2>5. /\ submits'[s] = new
        /\ \A u \in Submits \ {s} : submits'[u] = submits[u]
    BY <2>1 DEF TypeOK
  <2>6. AllAccounted'
    <3>1. \A p \in Parts \ {part} : HasNew(p)' <=> HasNew(p)
      BY <2>2, <2>5, <2>p DEF HasNew
    <3>2. \A p \in Parts : Accounted(p) /\ made[p] \in Nat /\ lost[p] \in Nat
      BY OnboardingAssumption DEF RunInv, AllAccounted, TypeOK
    <3>3. \A p \in Parts \ {part} : Accounted(p)'
      BY <2>1, <3>1, <3>2 DEF Accounted
    <3>4. Accounted(part)'
      BY <2>1, <3>2 DEF Accounted
    <3> QED BY <2>1, <3>3, <3>4 DEF RunInv, AllAccounted
  <2> HIDE DEF new
  <2>7. OneRuns' /\ InHand' /\ Known' /\ Writing'
    BY <2>1, <2>2, <2>3, <2>4, OneMoves
  <2> QED BY <2>6, <2>7 DEF RunInv
<1>5. CASE SendSettlement(s)
  <2> DEFINE new == [submits[s] EXCEPT !.inHand = "old", !.sentAt = clock]
  <2>1. new.step = "settlement" /\ new.inHand = "old"
    BY <1>r, <1>5 DEF SubmitRecords, SendSettlement, At
  <2>2. /\ submits' = [submits EXCEPT ![s] = new] /\ UNCHANGED <<saved, claim, made, lost, applying>>
        /\ At(s, "settlement") /\ submits[s].inHand # "new" /\ ~ At(s, "idle") /\ claim = s
    BY <1>5 DEF SendSettlement, gateway, row, RunInv, OneRuns, At
  <2> HIDE DEF new
  <2>3. OneRuns' /\ InHand' /\ Known' /\ Writing'
    BY <2>1, <2>2, <1>i, OneMoves, NothingRemains DEF At
  <2>4. AllAccounted'
    BY <2>1, <2>2, NothingNew
  <2> QED BY <2>3, <2>4 DEF RunInv
<1>6. CASE AnswerSettlement(s)
  <2>2. /\ submits' = [submits EXCEPT ![s].step = "status", ![s].inHand = "none", ![s].answer = route']
        /\ UNCHANGED <<saved, claim, made, lost, applying>>
        /\ At(s, "settlement") /\ ~ At(s, "idle") /\ claim = s
    BY <1>6 DEF AnswerSettlement, row, RunInv, OneRuns, At
  <2>1. /\ submits[s].inHand # "new"
        /\ submits'[s].step = "status" /\ submits'[s].inHand = "none"
        /\ \A u \in Submits \ {s} : submits'[u] = submits[u] /\ submits[u].step = "idle"
    <3>1. submits[s].inHand # "new"
      BY <2>2 DEF RunInv, InHand, At, Parts
    <3>2. submits'[s].step = "status" /\ submits'[s].inHand = "none"
      BY <2>2, <1>r DEF TypeOK, SubmitRecords
    <3>3. \A u \in Submits \ {s} : submits'[u] = submits[u]
      BY <2>2 DEF TypeOK
    <3> QED BY <2>2, <3>1, <3>2, <3>3, OthersIdle
  <2>3. OneRuns' /\ InHand' /\ Writing'
    BY <2>1, <2>2 DEF RunInv, OneRuns, InHand, Writing
  <2>4. Known'
    BY <2>1, <2>2, NothingRemains DEF Known
  <2>5. \A p \in Parts : HasNew(p)' <=> HasNew(p)
    BY <2>1 DEF HasNew
  <2>6. AllAccounted'
    BY <2>2, <2>5 DEF RunInv, AllAccounted, Accounted
  <2> QED BY <2>3, <2>4, <2>6 DEF RunInv
<1>7. CASE BeginAnswer(s)
  <2>1. /\ At(s, "status") /\ UNCHANGED <<saved, claim, submits, made, lost>>
        /\ \A a \in applying' : a.by = s
    BY <1>7 DEF BeginAnswer, Begin, Application, row, gateway
  <2> QED BY <2>1, KeepsRunInv DEF At
<1>8. CASE DropAnswer(s)
  <2>1. /\ At(s, "status") /\ submits' = [submits EXCEPT ![s] = Ended] /\ applying = {}
        /\ UNCHANGED <<saved, claim, made, lost, applying>>
        /\ submits[s].inHand # "new" /\ ~ At(s, "idle") /\ claim = s
    BY <1>8 DEF DropAnswer, End, row, gateway, waiver, RunInv, InHand, OneRuns, At, Parts
  <2>2. OneRuns' /\ InHand' /\ Known' /\ Writing'
    BY <2>1, OneMoves, NothingRemains
  <2>3. AllAccounted'
    BY <2>1, NothingNew, NothingRemains
  <2> QED BY <2>2, <2>3 DEF RunInv
<1>9. CASE Fail(s)
  BY <1>9, EndsRunInv DEF Fail, Running, End, At, row
<1>10. CASE Die(s)
  <2>1. /\ \A a \in applying : a.by # s
        /\ ~ At(s, "idle")
    BY <1>10, <1>i DEF Die, Running, At
  <2> QED BY <1>10, <2>1, EndsRunInv DEF Die, row
<1>11. CASE Release(s)
  <2>1. /\ At(s, "release") /\ submits' = [submits EXCEPT ![s] = Idle]
        /\ UNCHANGED <<saved, made, lost, applying>>
        /\ submits[s].inHand # "new" /\ ~ At(s, "idle")
    BY <1>11 DEF Release, row, gateway, RunInv, InHand, At, Parts
  <2>2. OneRuns' /\ InHand' /\ Known' /\ Writing'
    BY <2>1, <1>i, OneMoves, NothingRemains DEF At
  <2>3. AllAccounted'
    BY <2>1, NothingNew, NothingRemains
  <2> QED BY <2>2, <2>3 DEF RunInv
<1> QED
  BY <1>1, <1>2, <1>3, <1>4, <1>5, <1>6, <1>7, <1>8, <1>9, <1>10, <1>11 DEF Submit

LEMMA NextRunInv == TypeOK /\ RunInv /\ [Next]_vars => RunInv'
<1> SUFFICES ASSUME TypeOK, RunInv, [Next]_vars PROVE RunInv'
  OBVIOUS
<1>w. ASSUME NEW e \in events, BeginEvent(e) \/ DropEvent(e) PROVE RunInv'
  <2>1. CASE BeginEvent(e)
    <3>1. \A a \in applying' : a.by \notin Submits
      BY <2>1, OnboardingAssumption DEF BeginEvent, Begin, Application
    <3> QED BY <2>1, <3>1, KeepsRunInv DEF BeginEvent, Begin, row, gateway
  <2>2. CASE DropEvent(e)
    BY <2>2, KeepsRunInv DEF DropEvent, row
  <2> QED BY <1>w, <2>1, <2>2
<1>t. ASSUME NEW a \in applying, CommitAnswer(a) \/ CommitEvent(a) \/ RollBack(a) PROVE RunInv'
  <2>1. ASSUME a.by \in Submits, End(a.by), applying' = {}, UNCHANGED <<saved, claim, made, lost>>
        PROVE  RunInv'
    <3>1. submits[a.by].step = "status"
      BY <2>1 DEF RunInv, Writing
    <3>2. /\ ~ At(a.by, "idle") /\ submits[a.by].inHand # "new" /\ claim = a.by
          /\ submits' = [submits EXCEPT ![a.by] = Ended]
      BY <2>1, <3>1 DEF RunInv, InHand, OneRuns, At, Parts, End
    <3>3. OneRuns' /\ InHand' /\ Known' /\ Writing'
      BY <2>1, <3>2, OneMoves, NothingRemains
    <3>4. AllAccounted'
      BY <2>1, <3>2, NothingNew, NothingRemains
    <3> QED BY <3>3, <3>4 DEF RunInv
  <2>2. CASE CommitAnswer(a)
    BY <2>1, <2>2 DEF CommitAnswer, Commit
  <2>3. CASE CommitEvent(a)
    BY <2>3, KeepsRunInv DEF CommitEvent, Commit
  <2>4. CASE RollBack(a)
    <3>1. a.by \in Submits \cup {Nobody}
      BY DEF TypeOK, Applications
    <3>2. CASE a.by = Nobody
      BY <2>4, <3>2, KeepsRunInv DEF RollBack, row, gateway
    <3>3. CASE a.by # Nobody
      BY <2>1, <2>4, <3>1, <3>3 DEF RollBack, row, gateway
    <3> QED BY <3>2, <3>3
  <2> QED BY <1>t, <2>2, <2>3, <2>4
<1>l. CASE Listing \/ RouteMoves \/ Tick \/ UNCHANGED vars
  BY <1>l, KeepsRunInv
  DEF Listing, BeginApproval, CommitApproval, ToggleSpace, RouteMoves, Tick, vars, row, gateway, waiver
<1> QED BY <1>w, <1>t, <1>l, SubmitRunInv DEF Next, Webhook, Transaction

-----------------------------------------------------------------------------
(* The types, for any number of submits and any bounds.                     *)
THEOREM OnboardingTypeCorrect == Spec => []TypeOK
BY InitTypeOK, NextTypeOK, PTL DEF Spec

(* submit-route-onboarding.command: however many submits run, fail and die, *)
(* one account is made, and no part twice unless its answer was lost.       *)
THEOREM NothingMadeTwice == Spec => []MadeOnce
<1>1. Spec => [](TypeOK /\ RunInv)
  BY InitTypeOK, NextTypeOK, InitRunInv, NextRunInv, PTL DEF Spec
<1>2. TypeOK /\ RunInv => MadeOnce
  BY OnboardingAssumption DEF TypeOK, RunInv, AllAccounted, Accounted, MadeOnce
<1> QED BY <1>1, <1>2, PTL

-----------------------------------------------------------------------------
(* The stored status is the last one unless the event that tells the last   *)
(* one is still to be answered; no other event is as late and as far along; *)
(* and an answer that is not the last status was asked for no later than    *)
(* the change it missed, so that the event of the change follows it.        *)
Told(status, at) ==
  /\ at =< changedAt
  /\ at = changedAt => status = route \/ LifecycleOf(status) < LifecycleOf(route)

Missed(status, at) == status = route \/ at =< changedAt

Past ==
  /\ statusAt =< changedAt /\ changedAt =< clock
  /\ \A s \in Submits : submits[s].sentAt =< clock
LinkedHeld ==
  /\ changedAt # Never => kyc # "none"
  /\ \A s \in Submits :
       submits[s].step \in { "stakeholder", "product", "settlement", "status" } => kyc # "none"
EventsTold == \A e \in events : Told(e.status, e.at)
AnswersMissed ==
  \A s \in Submits : submits[s].step = "status" => Missed(submits[s].answer, submits[s].sentAt)
Writes ==
  \A a \in applying :
    \/ /\ a.by = Nobody
       /\ Event(a.status, a.at) \in events
       /\ ~ StaleEvent(a.status, a.at)
    \/ /\ a.by # Nobody
       /\ a.at =< clock
       /\ Missed(a.status, a.at)
       /\ ~ StaleAnswer(a.at)

ToldLast ==
  \/ changedAt = Never /\ route = "pending" /\ kyc \in { "none", "pending" }
  \/ /\ changedAt # Never
     /\ \/ statusAt = changedAt /\ kyc = route
        \/ /\ Event(route, changedAt) \in events
           /\ statusAt < changedAt \/ LifecycleOf(kyc) < LifecycleOf(route)

StatusInv == Past /\ LinkedHeld /\ EventsTold /\ AnswersMissed /\ Writes /\ ToldLast

LEMMA LifecycleFact == \A status : LifecycleOf(status) \in 0..3
BY DEF LifecycleOf

LEMMA InitStatusInv == Init => StatusInv
<1> SUFFICES ASSUME Init PROVE StatusInv
  OBVIOUS
<1>1. \A s \in Submits : submits[s].step = "idle" /\ submits[s].sentAt = 0
  BY DEF Init, Idle
<1>2. Past
  BY <1>1 DEF Init, Past, Never
<1> QED
  BY <1>1, <1>2 DEF Init, StatusInv, LinkedHeld, EventsTold, AnswersMissed, Writes, ToldLast

(* A change of status at Razorpay: only its own event tells it.             *)
LEMMA BecomeStatus ==
  ASSUME TypeOK, StatusInv, NEW next \in RouteStatuses, Become(next), kyc # "none",
         UNCHANGED <<kyc, statusAt, clock, applying>>
  PROVE  /\ statusAt' =< changedAt' /\ changedAt' =< clock' /\ changedAt' # Never
         /\ EventsTold' /\ Writes' /\ ToldLast'
         /\ \A status, at : at \in 0..clock => Missed(status, at)'
<1>1. /\ route' = next /\ changedAt' = clock /\ events' = events \cup {Event(next, clock)}
      /\ clock > changedAt \/ LifecycleOf(next) > LifecycleOf(route)
  BY DEF Become, MayBecome
<1>2. /\ statusAt \in Int /\ changedAt \in Int /\ clock \in Nat
      /\ statusAt =< changedAt /\ changedAt =< clock
  BY OnboardingAssumption DEF TypeOK, StatusInv, Past, Never
<1>3. EventsTold'
  <2> SUFFICES ASSUME NEW e \in events' PROVE Told(e.status, e.at)'
    BY DEF EventsTold
  <2>1. CASE e = Event(next, clock)
    BY <1>1, <1>2, <2>1 DEF Told, Event
  <2>2. CASE e \in events
    <3>1. Told(e.status, e.at) /\ e.at \in Int
      BY <2>2 DEF StatusInv, EventsTold, TypeOK
    <3> QED BY <1>1, <1>2, <3>1, LifecycleFact DEF Told
  <2> QED BY <1>1, <2>1, <2>2
<1>4. \A status, at : at \in 0..clock => Missed(status, at)'
  BY <1>1, <1>2 DEF Missed
<1>5. Writes'
  <2> SUFFICES ASSUME NEW a \in applying
               PROVE  \/ /\ a.by = Nobody
                         /\ Event(a.status, a.at) \in events'
                         /\ ~ StaleEvent(a.status, a.at)'
                      \/ /\ a.by # Nobody
                         /\ a.at =< clock'
                         /\ Missed(a.status, a.at)'
                         /\ ~ StaleAnswer(a.at)'
    BY DEF Writes
  <2>1. a.at \in 0..MaxTime
    BY DEF TypeOK, Applications
  <2>2. a.by # Nobody => a.at \in 0..clock
    BY <1>2, <2>1, OnboardingAssumption DEF StatusInv, Writes
  <2> QED BY <1>1, <1>4, <2>2 DEF StatusInv, Writes, StaleEvent, StaleAnswer
<1>6. ToldLast'
  <2>1. clock # Never
    BY <1>2 DEF Never
  <2>2. statusAt < clock \/ LifecycleOf(kyc) < LifecycleOf(next)
    <3>1. CASE changedAt < clock
      BY <1>2, <3>1
    <3>2. CASE changedAt = clock /\ LifecycleOf(next) > LifecycleOf(route)
      BY <1>2, <2>1, <3>2, LifecycleFact DEF StatusInv, ToldLast
    <3> QED BY <1>1, <1>2, <3>1, <3>2
  <2> QED BY <1>1, <2>1, <2>2 DEF ToldLast
<1> QED BY <1>1, <1>2, <1>3, <1>4, <1>5, <1>6 DEF Never

(* Nothing was reported, asked or written.                                  *)
LEMMA KeepsStatus ==
  ASSUME StatusInv, UNCHANGED <<kyc, statusAt, route, changedAt, events, clock>>,
         Writes',
         \A s \in Submits : submits'[s] = submits[s]
                            \/ /\ submits'[s].sentAt =< clock
                               /\ submits'[s].step \in { "idle", "claimed", "account", "release" }
  PROVE  StatusInv'
BY DEF StatusInv, Past, LinkedHeld, EventsTold, AnswersMissed, ToldLast, Told, Missed

LEMMA WritesFewer ==
  ASSUME StatusInv, UNCHANGED <<kyc, statusAt, route, changedAt, events, clock>>, applying' \subseteq applying
  PROVE  Writes'
BY DEF StatusInv, Writes, StaleEvent, StaleAnswer, Missed

LEMMA ClockTyped == TypeOK => clock \in Nat
BY OnboardingAssumption DEF TypeOK

LEMMA SubmitStatusInv ==
  ASSUME TypeOK, StatusInv, NEW s \in Submits, Submit(s)
  PROVE  StatusInv'
<1>r. submits[s] \in SubmitRecords
  BY DEF TypeOK
<1>p. submits[s].sentAt =< clock /\ Idle.sentAt =< clock /\ Ended.sentAt =< clock
      /\ Idle.step = "idle" /\ Ended.step = "release"
  BY ClockTyped DEF StatusInv, Past, Idle, Ended
<1>1. CASE Claim(s)
  <2>1. /\ submits'[s].step = "claimed" /\ submits'[s].sentAt = submits[s].sentAt
        /\ \A u \in Submits \ {s} : submits'[u] = submits[u]
        /\ UNCHANGED <<kyc, statusAt, route, changedAt, events, clock, applying>>
    BY <1>1, <1>r DEF Claim, TypeOK, SubmitRecords, row, gateway
  <2> QED BY <1>p, <2>1, KeepsStatus, WritesFewer
<1>2. CASE ReadLinked(s)
  <2>1. /\ submits'[s].step \in { "account", "release" } /\ submits'[s].sentAt =< clock
        /\ \A u \in Submits \ {s} : submits'[u] = submits[u]
    <3>1. CASE kyc \in Open
      BY <1>2, <1>p, <1>r, <3>1 DEF ReadLinked, TypeOK, SubmitRecords
    <3>2. CASE kyc \notin Open
      BY <1>2, <1>p, <3>2 DEF ReadLinked, End, TypeOK
    <3> QED BY <3>1, <3>2
  <2>2. UNCHANGED <<kyc, statusAt, route, changedAt, events, clock, applying>>
    BY <1>2 DEF ReadLinked, row, gateway
  <2> QED BY <2>1, <2>2, KeepsStatus, WritesFewer
<1>3. CASE CallGateway(s)
  <2>1. /\ submits'[s].step = submits[s].step /\ submits'[s].sentAt = submits[s].sentAt
        /\ submits[s].step # "status"
        /\ \A u \in Submits \ {s} : submits'[u] = submits[u]
        /\ UNCHANGED <<kyc, statusAt, route, changedAt, events, clock, applying>>
    BY <1>3, <1>r DEF CallGateway, TypeOK, SubmitRecords, row, Parts
  <2>2. Writes'
    BY <2>1, WritesFewer
  <2> QED
    BY <2>1, <2>2
    DEF StatusInv, Past, LinkedHeld, EventsTold, AnswersMissed, ToldLast, Told, Missed
<1>4. CASE SaveLinked(s)
  <2>1. /\ submits'[s].step \notin { "status", "idle" } /\ submits'[s].sentAt = submits[s].sentAt
        /\ \A u \in Submits \ {s} : submits'[u] = submits[u]
    BY <1>4, <1>r DEF SaveLinked, TypeOK, SubmitRecords, After
  <2>2. /\ UNCHANGED <<statusAt, route, changedAt, events, clock, applying>> /\ applying = {}
        /\ kyc' = IF kyc = "none" THEN "pending" ELSE kyc
    BY <1>4 DEF SaveLinked, gateway
  <2>3. kyc' # "none"
    BY <2>2
  <2>4. ToldLast'
    <3>1. CASE changedAt = Never
      BY <2>2, <3>1 DEF StatusInv, ToldLast
    <3>2. CASE changedAt # Never
      BY <2>2, <3>2 DEF StatusInv, LinkedHeld, ToldLast
    <3> QED BY <3>1, <3>2
  <2>5. Past' /\ LinkedHeld' /\ EventsTold' /\ AnswersMissed' /\ Writes'
    BY <2>1, <2>2, <2>3
    DEF StatusInv, Past, LinkedHeld, EventsTold, AnswersMissed, Writes, Told, Missed
  <2> QED BY <2>4, <2>5 DEF StatusInv
<1>5. CASE SendSettlement(s)
  <2>1. /\ submits'[s].step = "settlement" /\ submits'[s].sentAt = clock
        /\ submits[s].step = "settlement"
        /\ \A u \in Submits \ {s} : submits'[u] = submits[u]
        /\ UNCHANGED <<kyc, statusAt, route, changedAt, events, clock, applying>>
    BY <1>5, <1>r DEF SendSettlement, At, TypeOK, SubmitRecords, row, gateway
  <2>2. Writes'
    BY <2>1, WritesFewer
  <2> QED
    BY <2>1, <2>2, ClockTyped
    DEF StatusInv, Past, LinkedHeld, EventsTold, AnswersMissed, ToldLast, Told, Missed
<1>6. CASE AnswerSettlement(s)
  <2>1. /\ submits[s].step = "settlement"
        /\ submits' = [submits EXCEPT ![s].step = "status", ![s].inHand = "none", ![s].answer = route']
        /\ UNCHANGED <<kyc, statusAt, clock, applying>>
    BY <1>6 DEF AnswerSettlement, At, row
  <2>2. /\ submits'[s].step = "status" /\ submits'[s].sentAt = submits[s].sentAt
        /\ submits'[s].answer = route'
        /\ \A u \in Submits \ {s} : submits'[u] = submits[u]
    <3>1. \A u \in Submits \ {s} : submits'[u] = submits[u]
      BY <2>1 DEF TypeOK
    <3> QED BY <2>1, <3>1, <1>r DEF TypeOK, SubmitRecords
  <2>3. kyc # "none"
    BY <2>1 DEF StatusInv, LinkedHeld
  <2>4. CASE UNCHANGED <<route, changedAt, events>>
    <3>1. Writes'
      BY <2>1, <2>4, WritesFewer
    <3> QED
      BY <2>1, <2>2, <2>3, <2>4, <3>1
      DEF StatusInv, Past, LinkedHeld, EventsTold, AnswersMissed, ToldLast, Told, Missed
  <2>5. ASSUME NEW next \in RouteStatuses, Become(next) PROVE StatusInv'
    <3>1. /\ statusAt' =< changedAt' /\ changedAt' =< clock' /\ changedAt' # Never
          /\ EventsTold' /\ Writes' /\ ToldLast'
          /\ \A status, at : at \in 0..clock => Missed(status, at)'
      BY <2>1, <2>3, <2>5, BecomeStatus
    <3>2. Past' /\ LinkedHeld'
      BY <2>1, <2>2, <2>3, <3>1 DEF StatusInv, Past, LinkedHeld
    <3>3. \A u \in Submits : submits[u].sentAt \in 0..clock
      BY ClockTyped, OnboardingAssumption DEF StatusInv, Past, TypeOK, SubmitRecords
    <3>4. \A u \in Submits : submits'[u].sentAt = submits[u].sentAt
      BY <2>2
    <3>5. AnswersMissed'
      BY <3>1, <3>3, <3>4 DEF AnswersMissed
    <3> QED BY <3>1, <3>2, <3>5 DEF StatusInv
  <2> QED BY <1>6, <2>4, <2>5 DEF AnswerSettlement, RouteStatuses
<1>7. CASE BeginAnswer(s)
  <2>1. /\ At(s, "status") /\ ~ StaleAnswer(submits[s].sentAt)
        /\ applying' = {Application(s, submits[s].answer, submits[s].sentAt, space = "active")}
        /\ UNCHANGED <<kyc, statusAt, route, changedAt, events, clock, submits>>
    BY <1>7 DEF BeginAnswer, Begin, row, gateway
  <2>2. Missed(submits[s].answer, submits[s].sentAt) /\ s # Nobody
    BY <2>1, OnboardingAssumption DEF StatusInv, AnswersMissed, At
  <2>3. Writes'
    BY <1>p, <2>1, <2>2 DEF Writes, Application, Missed, StaleAnswer
  <2> QED BY <2>1, <2>3, KeepsStatus
<1>8. CASE DropAnswer(s) \/ Fail(s) \/ Die(s) \/ Release(s)
  <2>1. /\ submits'[s].step \in { "idle", "release" } /\ submits'[s].sentAt =< clock
        /\ \A u \in Submits \ {s} : submits'[u] = submits[u]
        /\ UNCHANGED <<kyc, statusAt, route, changedAt, events, clock, applying>>
    BY <1>8, <1>p DEF DropAnswer, Fail, Die, Release, End, TypeOK, row, gateway, waiver
  <2> QED BY <2>1, KeepsStatus, WritesFewer
<1> QED BY <1>1, <1>2, <1>3, <1>4, <1>5, <1>6, <1>7, <1>8 DEF Submit

(* What a webhook's commit or an answer's leaves is the last status, or the *)
(* event that tells the last one is still to come.                          *)
LEMMA CommitStatus ==
  ASSUME TypeOK, StatusInv, NEW a \in applying, Commit(a),
         IF a.by = Nobody
         THEN events' = events \/ events' = events \ {Event(a.status, a.at)}
         ELSE events' = events,
         \A s \in Submits : submits'[s] = submits[s] \/ submits'[s] = Ended
  PROVE  StatusInv'
<1>1. /\ kyc' = a.status /\ statusAt' = (IF a.by = Nobody THEN a.at ELSE statusAt)
      /\ applying' = {} /\ UNCHANGED <<route, changedAt, clock>>
  BY DEF Commit
<1>2. a.status \in RouteStatuses /\ a.at \in Nat
  BY OnboardingAssumption DEF TypeOK, Applications
<1>3. kyc' # "none"
  BY <1>1, <1>2 DEF RouteStatuses
<1>4. Ended.step = "release" /\ Ended.sentAt = 0 /\ clock \in Nat
  BY ClockTyped DEF Ended, Idle
<1>5. /\ a.by = Nobody => /\ Event(a.status, a.at) \in events
                          /\ Told(a.status, a.at)
                          /\ ~ StaleEvent(a.status, a.at)
      /\ a.by # Nobody => Missed(a.status, a.at) /\ ~ StaleAnswer(a.at)
  BY DEF StatusInv, Writes, EventsTold, Event
<1>6. statusAt \in Int /\ changedAt \in Int /\ statusAt =< changedAt
  BY OnboardingAssumption DEF TypeOK, StatusInv, Past, Never
<1>7. Past' /\ LinkedHeld'
  <2>1. statusAt' =< changedAt
    BY <1>1, <1>5, <1>6 DEF Told
  <2> QED BY <1>1, <1>3, <1>4, <2>1 DEF StatusInv, Past, LinkedHeld
<1>8. EventsTold' /\ AnswersMissed' /\ Writes'
  BY <1>1, <1>4 DEF StatusInv, EventsTold, AnswersMissed, Writes, Told, Missed
<1>9. ToldLast'
  <2>1. CASE a.by = Nobody
    <3>1. statusAt =< a.at /\ a.at =< changedAt /\ changedAt # Never
      BY <1>2, <1>5, <1>6, <2>1 DEF StaleEvent, Told, Never
    <3>2. CASE a.at = changedAt /\ a.status = route
      BY <1>1, <2>1, <3>1, <3>2 DEF ToldLast
    <3>3. CASE a.at # changedAt \/ a.status # route
      <4>1. Event(route, changedAt) \in events
        <5>1. CASE a.at = changedAt
          <6>1. LifecycleOf(a.status) < LifecycleOf(route)
            BY <1>5, <2>1, <3>3, <5>1 DEF Told
          <6>2. CASE statusAt = changedAt /\ kyc = route
            BY <1>5, <2>1, <5>1, <6>1, <6>2 DEF StaleEvent
          <6> QED BY <3>1, <6>2 DEF StatusInv, ToldLast
        <5>2. CASE a.at # changedAt
          BY <1>2, <1>6, <3>1, <5>2 DEF StatusInv, ToldLast
        <5> QED BY <5>1, <5>2
      <4>2. Event(route, changedAt) # Event(a.status, a.at)
        BY <3>3 DEF Event
      <4>3. Event(route, changedAt) \in events'
        BY <2>1, <4>1, <4>2
      <4>4. a.at < changedAt \/ LifecycleOf(a.status) < LifecycleOf(route)
        BY <1>2, <1>5, <1>6, <2>1, <3>1, <3>3 DEF Told
      <4> QED BY <1>1, <2>1, <3>1, <4>3, <4>4 DEF ToldLast
    <3> QED BY <3>2, <3>3
  <2>2. CASE a.by # Nobody
    <3>1. CASE changedAt = Never
      <4>1. a.status = "pending" /\ route = "pending"
        BY <1>2, <1>5, <2>2, <3>1 DEF StatusInv, ToldLast, Missed, Never
      <4> QED BY <1>1, <3>1, <4>1 DEF ToldLast
    <3>2. CASE changedAt # Never
      <4>1. statusAt = changedAt \/ (statusAt < changedAt /\ Event(route, changedAt) \in events)
        BY <1>6, <3>2 DEF StatusInv, ToldLast
      <4>2. statusAt = changedAt => a.status = route
        BY <1>2, <1>5, <1>6, <2>2, <3>2 DEF StaleAnswer, Missed
      <4> QED BY <1>1, <2>2, <3>2, <4>1, <4>2 DEF ToldLast
    <3> QED BY <3>1, <3>2
  <2> QED BY <2>1, <2>2
<1> QED BY <1>7, <1>8, <1>9 DEF StatusInv

LEMMA NextStatusInv == TypeOK /\ StatusInv /\ [Next]_vars => StatusInv'
<1> SUFFICES ASSUME TypeOK, StatusInv, [Next]_vars PROVE StatusInv'
  OBVIOUS
<1>w. ASSUME NEW e \in events, BeginEvent(e) \/ DropEvent(e) PROVE StatusInv'
  <2>e. e = Event(e.status, e.at)
    BY DEF TypeOK, Event
  <2>1. CASE BeginEvent(e)
    <3>1. /\ applying' = {Application(Nobody, e.status, e.at, space = "active")}
          /\ UNCHANGED <<kyc, statusAt, route, changedAt, events, clock, submits>>
          /\ ~ StaleEvent(e.status, e.at)
      BY <2>1 DEF BeginEvent, Begin, row, gateway
    <3>2. Writes'
      BY <2>e, <3>1 DEF Writes, Application, StaleEvent
    <3> QED BY <3>1, <3>2, KeepsStatus
  <2>2. CASE DropEvent(e)
    <3>1. /\ events' = events \ {e} /\ applying = {}
          /\ UNCHANGED <<kyc, statusAt, route, changedAt, clock, submits, applying>>
          /\ kyc = "none" \/ StaleEvent(e.status, e.at)
      BY <2>2 DEF DropEvent, Answered, row, waiver
    <3>2. ToldLast'
      <4>1. CASE changedAt = Never
        BY <3>1, <4>1 DEF StatusInv, ToldLast
      <4>2. CASE changedAt # Never
        <5>1. StaleEvent(e.status, e.at)
          BY <3>1, <4>2 DEF StatusInv, LinkedHeld
        <5>2. statusAt \in Int /\ changedAt \in Int /\ statusAt =< changedAt
          BY OnboardingAssumption DEF TypeOK, StatusInv, Past, Never
        <5>3. CASE statusAt = changedAt /\ kyc = route
          BY <3>1, <4>2, <5>3 DEF ToldLast
        <5>4. CASE /\ Event(route, changedAt) \in events
                   /\ statusAt < changedAt \/ LifecycleOf(kyc) < LifecycleOf(route)
          <6>1. ASSUME e = Event(route, changedAt) PROVE FALSE
            BY <5>1, <5>2, <5>4, <6>1, LifecycleFact DEF StaleEvent, Event
          <6> QED BY <3>1, <4>2, <5>4, <6>1 DEF ToldLast
        <5> QED BY <4>2, <5>3, <5>4 DEF StatusInv, ToldLast
      <4> QED BY <4>1, <4>2
    <3> QED
      BY <3>1, <3>2
      DEF StatusInv, Past, LinkedHeld, EventsTold, AnswersMissed, Writes, Told, Missed
  <2> QED BY <1>w, <2>1, <2>2
<1>t. ASSUME NEW a \in applying, CommitAnswer(a) \/ CommitEvent(a) \/ RollBack(a) PROVE StatusInv'
  <2>1. a.by \in Submits \cup {Nobody}
    BY DEF TypeOK, Applications
  <2>2. End(a.by) => \A s \in Submits : submits'[s] = submits[s] \/ submits'[s] = Ended
    BY DEF End, TypeOK
  <2>3. CASE CommitAnswer(a)
    BY <2>2, <2>3, CommitStatus, OnboardingAssumption DEF CommitAnswer
  <2>4. CASE CommitEvent(a)
    BY <2>4, CommitStatus DEF CommitEvent, Answered
  <2>5. CASE RollBack(a)
    <3>1. /\ applying' = {} /\ UNCHANGED <<kyc, statusAt, route, changedAt, events, clock>>
          /\ \A s \in Submits : submits'[s] = submits[s] \/ submits'[s] = Ended
      BY <2>1, <2>2, <2>5 DEF RollBack, row, gateway
    <3>2. Ended.step = "release" /\ Ended.sentAt =< clock
      BY ClockTyped DEF Ended, Idle
    <3> QED BY <3>1, <3>2, KeepsStatus, WritesFewer
  <2> QED BY <1>t, <2>3, <2>4, <2>5
<1>l. CASE Listing \/ UNCHANGED vars
  <2>1. UNCHANGED <<kyc, statusAt, route, changedAt, events, clock, submits, applying>>
    BY <1>l DEF Listing, BeginApproval, CommitApproval, ToggleSpace, vars, row, gateway, waiver
  <2> QED BY <2>1, KeepsStatus, WritesFewer
<1>m. CASE RouteMoves
  <2>1. PICK next \in Verdicts : Become(next)
    BY <1>m DEF RouteMoves
  <2>2. next \in RouteStatuses /\ route # "pending"
    BY <2>1 DEF Verdicts, RouteStatuses
  <2>3. kyc # "none" /\ UNCHANGED <<kyc, statusAt, clock, applying, submits>>
    BY <1>m, <2>2 DEF RouteMoves, row, waiver, StatusInv, ToldLast, LinkedHeld
  <2>4. /\ statusAt' =< changedAt' /\ changedAt' =< clock' /\ changedAt' # Never
        /\ EventsTold' /\ Writes' /\ ToldLast'
        /\ \A status, at : at \in 0..clock => Missed(status, at)'
    BY <2>1, <2>2, <2>3, BecomeStatus
  <2>5. Past' /\ LinkedHeld'
    BY <2>3, <2>4 DEF StatusInv, Past, LinkedHeld
  <2>6. \A s \in Submits : submits[s].sentAt \in 0..clock
    BY ClockTyped, OnboardingAssumption DEF StatusInv, Past, TypeOK, SubmitRecords
  <2>7. AnswersMissed'
    BY <2>3, <2>4, <2>6 DEF AnswersMissed
  <2> QED BY <2>4, <2>5, <2>7 DEF StatusInv
<1>c. CASE Tick
  <2>1. clock' = clock + 1 /\ UNCHANGED <<kyc, statusAt, route, changedAt, events, submits, applying>>
    BY <1>c DEF Tick, row, gateway, waiver
  <2>2. /\ clock \in Nat /\ changedAt \in Int
        /\ \A s \in Submits : submits[s].sentAt \in Int
        /\ \A a \in applying : a.at \in Int
    BY ClockTyped, OnboardingAssumption DEF TypeOK, SubmitRecords, Applications, Never
  <2>3. Past'
    BY <2>1, <2>2 DEF StatusInv, Past
  <2>4. Writes'
    BY <2>1, <2>2 DEF StatusInv, Writes, StaleEvent, StaleAnswer, Missed
  <2>5. LinkedHeld' /\ EventsTold' /\ AnswersMissed' /\ ToldLast'
    BY <2>1 DEF StatusInv, LinkedHeld, EventsTold, AnswersMissed, ToldLast, Told, Missed
  <2> QED BY <2>3, <2>4, <2>5 DEF StatusInv
<1> QED BY <1>w, <1>t, <1>l, <1>m, <1>c, SubmitStatusInv DEF Next, Webhook, Transaction

(* payout.service, applyRouteStatus: however late and out of order events   *)
(* and answers come, once they are dealt with the status is the last one.   *)
THEOREM StatusAlwaysSettles == Spec => []StatusSettles
<1>1. Spec => [](TypeOK /\ StatusInv)
  BY InitTypeOK, NextTypeOK, InitStatusInv, NextStatusInv, PTL DEF Spec
<1>2. TypeOK /\ StatusInv => StatusSettles
  BY DEF TypeOK, StatusInv, ToldLast, StatusSettles, Quiet
<1> QED BY <1>1, <1>2, PTL

-----------------------------------------------------------------------------
(* Whoever is about to make the second of the two conditions true has seen  *)
(* the first, or the other was under way when it looked.                    *)
GrantInv ==
  /\ QualifiedIsGranted
  /\ \A a \in applying : Activating(a.status) =>
       /\ space = "active" => a.seesSpace \/ unseen
       /\ approving # {} => unseen
  /\ approving # {} /\ kyc = "activated" => TRUE \in approving \/ unseen

(* What the grant depends on stays, or changes with no one qualifying.      *)
LEMMA KeepsGrant ==
  ASSUME GrantInv, UNCHANGED <<space, approving, granted, unseen>>,
         kyc' = kyc \/ (kyc' # "activated" /\ applying' = {}),
         applying' \subseteq applying
  PROVE  GrantInv'
BY DEF GrantInv, QualifiedIsGranted, Activating

LEMMA BeginGrant ==
  ASSUME TypeOK, GrantInv, NEW by, NEW status, NEW at, Begin(by, status, at)
  PROVE  GrantInv'
<1>1. /\ applying' = {Application(by, status, at, space = "active")}
      /\ unseen' = (unseen \/ (Activating(status) /\ approving # {}))
      /\ UNCHANGED <<kyc, space, approving, granted>>
  BY DEF Begin, row
<1>2. \A a \in applying' : a.status = status /\ a.seesSpace = (space = "active")
  BY <1>1 DEF Application
<1> QED BY <1>1, <1>2 DEF GrantInv, QualifiedIsGranted, Activating

LEMMA CommitGrant ==
  ASSUME TypeOK, GrantInv, NEW a \in applying, Commit(a)
  PROVE  GrantInv'
<1>1. /\ kyc' = a.status /\ applying' = {} /\ UNCHANGED <<space, approving, unseen>>
      /\ granted' = (granted \/ (Activating(a.status) /\ a.seesSpace))
  BY DEF Commit, GrantIfEligible, AsksForGrant
<1>2. a.seesSpace \in BOOLEAN /\ granted \in BOOLEAN /\ unseen \in BOOLEAN
  BY DEF TypeOK, Applications
<1>3. CASE Activating(a.status)
  BY <1>1, <1>2, <1>3 DEF GrantInv, QualifiedIsGranted
<1>4. CASE ~ Activating(a.status)
  BY <1>1, <1>2, <1>4 DEF GrantInv, QualifiedIsGranted, Activating
<1> QED BY <1>3, <1>4

LEMMA NextGrantInv == TypeOK /\ GrantInv /\ [Next]_vars => GrantInv'
<1> SUFFICES ASSUME TypeOK, GrantInv, [Next]_vars PROVE GrantInv'
  OBVIOUS
<1>s. ASSUME NEW s \in Submits, Submit(s) PROVE GrantInv'
  <2>1. CASE BeginAnswer(s)
    BY <2>1, BeginGrant DEF BeginAnswer
  <2>2. CASE SaveLinked(s)
    <3>1. applying = {} /\ applying' = {} /\ UNCHANGED <<space, approving, granted, unseen>>
          /\ kyc' = IF kyc = "none" THEN "pending" ELSE kyc
      BY <2>2 DEF SaveLinked, waiver
    <3> QED BY <3>1, KeepsGrant
  <2>3. CASE ~ (BeginAnswer(s) \/ SaveLinked(s))
    <3>1. UNCHANGED <<kyc, applying, space, approving, granted, unseen>>
      BY <1>s, <2>3
      DEF Submit, Claim, ReadLinked, CallGateway, SendSettlement, AnswerSettlement,
          DropAnswer, Fail, Die, Release, row, waiver
    <3> QED BY <3>1, KeepsGrant
  <2> QED BY <2>1, <2>2, <2>3
<1>w. ASSUME NEW e \in events, BeginEvent(e) \/ DropEvent(e) PROVE GrantInv'
  <2>1. CASE BeginEvent(e)
    BY <2>1, BeginGrant DEF BeginEvent
  <2>2. CASE DropEvent(e)
    BY <2>2, KeepsGrant DEF DropEvent, row, waiver
  <2> QED BY <1>w, <2>1, <2>2
<1>t. ASSUME NEW a \in applying, CommitAnswer(a) \/ CommitEvent(a) \/ RollBack(a) PROVE GrantInv'
  <2>1. CASE CommitAnswer(a) \/ CommitEvent(a)
    BY <2>1, CommitGrant DEF CommitAnswer, CommitEvent
  <2>2. CASE RollBack(a)
    BY <2>2, KeepsGrant DEF RollBack, row, waiver
  <2> QED BY <1>t, <2>1, <2>2
<1>1. CASE BeginApproval
  <2>1. /\ space = "pending_approval" /\ approving' = {kyc = "activated"}
        /\ unseen' = (unseen \/ \E a \in applying : Activating(a.status))
        /\ UNCHANGED <<kyc, applying, space, granted>>
    BY <1>1 DEF BeginApproval, row
  <2> QED BY <2>1 DEF GrantInv, QualifiedIsGranted, Activating
<1>2. CASE CommitApproval
  <2>1. /\ approving # {} /\ approving' = {} /\ space' = "active"
        /\ granted' = (granted \/ TRUE \in approving)
        /\ UNCHANGED <<kyc, applying, unseen>>
    BY <1>2 DEF CommitApproval, GrantIfEligible, row
  <2>2. granted \in BOOLEAN /\ unseen \in BOOLEAN
    BY DEF TypeOK
  <2> QED BY <2>1, <2>2 DEF GrantInv, QualifiedIsGranted, Activating
<1>3. CASE ToggleSpace
  <2>1. /\ space \in { "active", "inactive" }
        /\ space' = IF space = "active" THEN "inactive" ELSE "active"
        /\ unseen' = (unseen \/ space = "inactive")
        /\ UNCHANGED <<kyc, applying, approving, granted>>
    BY <1>3 DEF ToggleSpace, row
  <2>2. granted \in BOOLEAN /\ unseen \in BOOLEAN
    BY DEF TypeOK
  <2> QED BY <2>1, <2>2 DEF GrantInv, QualifiedIsGranted, Activating
<1>4. CASE RouteMoves \/ Tick \/ UNCHANGED vars
  BY <1>4, KeepsGrant DEF RouteMoves, Tick, vars, row, waiver
<1> QED BY <1>s, <1>w, <1>t, <1>1, <1>2, <1>3, <1>4 DEF Next, Webhook, Transaction, Listing

(* commission-waiver.service: whichever of activation and approval comes    *)
(* last grants the window, unless the two were under way at once or the     *)
(* space became active again by being resumed.                              *)
THEOREM QualifiedAlwaysGranted == Spec => []QualifiedIsGranted
<1>1. Init => GrantInv
  BY DEF Init, GrantInv, QualifiedIsGranted
<1>2. Spec => [](TypeOK /\ GrantInv)
  BY <1>1, InitTypeOK, NextTypeOK, NextGrantInv, PTL DEF Spec
<1>3. GrantInv => QualifiedIsGranted
  BY DEF GrantInv
<1> QED BY <1>2, <1>3, PTL
=============================================================================
