--------------------------- MODULE IdempotencyKey ---------------------------
(***************************************************************************)
(* One key of the idempotency table and the attempts that carry it: an API *)
(* request its client retries, or a gateway event that is redelivered.     *)
(* Keys do not touch each other, so one stands for all.                    *)
(*                                                                         *)
(* The handler behind the key is a command with one domain transaction,    *)
(* which withTransaction fences on the claim, or one that writes nothing.  *)
(* The claim is three statements; between any two, and between the         *)
(* handler's commit and the store of its answer, the process may die and   *)
(* other attempts may run.                                                 *)
(***************************************************************************)
EXTENDS Naturals

CONSTANTS
  Attempts,      \* attempts in flight at once; a finished one may be made again
  StaleAfter,    \* IDEMPOTENCY_IN_FLIGHT_STALE_MS, in ticks
  Kinds,         \* who carries the key: "request", "webhook"
  None           \* no attempt

ASSUME IdempotencyKeyAssumption ==
  /\ StaleAfter \in Nat
  /\ Kinds \subseteq { "request", "webhook" }
  /\ None \notin Attempts

VARIABLES
  kind,          \* who carries this key
  row,           \* the idempotency_keys row
  attempt,       \* how far each attempt is
  writes,        \* how often the handler's transaction committed: 0, 1, more
  acked          \* the gateway was answered 2xx and stops redelivering

vars == <<kind, row, attempt, writes, acked>>

Ages == 0..StaleAfter

NoRow == [exists |-> FALSE, token |-> None, age |-> 0, committed |-> FALSE, stored |-> None]
Away == [pc |-> "away", age |-> 0]

Writes == 0..2

Places ==
  { "away", "insert", "read", "insert_again", "read_again", "take_over", "running", "finished",
    "release", "release_rerunnable" }

Init ==
  /\ kind \in Kinds
  /\ row = NoRow
  /\ attempt = [a \in Attempts |-> Away]
  /\ writes = 0
  /\ acked = FALSE

(* locked_at < now - IDEMPOTENCY_IN_FLIGHT_STALE_MS, or cleared. *)
StaleOnceReleased == row.token = None
Stale == row.token = None \/ row.age >= StaleAfter

HeldByAnyone(a) == row.exists
HeldBy(a) == row.exists /\ row.token = a

Goto(a, place) == attempt' = [attempt EXCEPT ![a].pc = place]

(* The attempt is over; a webhook's 2xx is the last one the gateway needs.  *)
Answer(a, ok) ==
  /\ attempt' = [attempt EXCEPT ![a] = Away]
  /\ acked' = (acked \/ (kind = "webhook" /\ ok))

-----------------------------------------------------------------------------
(* A client retries as long as it likes; the gateway until it is answered.  *)
(* The attempt mints its claim token, which is its age from here on.        *)
Arrive(a) ==
  /\ attempt[a].pc = "away"
  /\ ~ acked
  /\ attempt' = [attempt EXCEPT ![a] = [pc |-> "insert", age |-> 0]]
  /\ UNCHANGED <<kind, row, writes, acked>>

Claimed(a) ==
  [exists |-> TRUE, token |-> a, age |-> attempt[a].age, committed |-> FALSE, stored |-> None]

InsertClaim(a) ==
  /\ attempt[a].pc \in { "insert", "insert_again" }
  /\ IF row.exists
     THEN Goto(a, IF attempt[a].pc = "insert" THEN "read" ELSE "read_again") /\ UNCHANGED row
     ELSE Goto(a, "running") /\ row' = Claimed(a)
  /\ UNCHANGED <<kind, writes, acked>>

(* against: what the row that was found says.  A row that went away between *)
(* the two statements is inserted once more, and then taken for in flight.  *)
ReadClaim(a) ==
  /\ attempt[a].pc \in { "read", "read_again" }
  /\ \/ /\ ~ row.exists /\ attempt[a].pc = "read"
        /\ Goto(a, "insert_again") /\ UNCHANGED acked
     \/ /\ ~ row.exists /\ attempt[a].pc = "read_again"
        /\ Answer(a, TRUE)
     \/ /\ row.exists /\ (row.stored # None \/ row.committed)
        /\ Answer(a, TRUE)
     \/ /\ row.exists /\ row.stored = None /\ ~ row.committed
        /\ Goto(a, "take_over") /\ UNCHANGED acked
  /\ UNCHANGED <<kind, row, writes>>

CanTakeOver == row.exists /\ row.stored = None /\ ~ row.committed /\ Stale

(* takeOverIfStale: one conditional UPDATE; losing it is in_flight. *)
TakeOver(a) ==
  /\ attempt[a].pc = "take_over"
  /\ IF CanTakeOver
     THEN /\ row' = [row EXCEPT !.token = a, !.age = attempt[a].age]
          /\ Goto(a, "running")
          /\ UNCHANGED acked
     ELSE Answer(a, TRUE) /\ UNCHANGED row
  /\ UNCHANGED <<kind, writes>>

-----------------------------------------------------------------------------
(* fenceOnClaim ends the handler's transaction: it commits with its mark,   *)
(* or rolls back, superseded, with a 409.                                   *)
FenceForgotten(a) == row' = [row EXCEPT !.committed = TRUE]
Fence(a) == HeldBy(a) /\ row' = [row EXCEPT !.committed = TRUE]

Commit(a) ==
  /\ attempt[a].pc = "running"
  /\ Fence(a)
  /\ writes' = IF writes < 2 THEN writes + 1 ELSE writes
  /\ Goto(a, "finished")
  /\ UNCHANGED <<kind, acked>>

(* A transaction that wrote nothing is not fenced. *)
FinishUnwritten(a) ==
  /\ attempt[a].pc = "running"
  /\ Goto(a, "finished")
  /\ UNCHANGED <<kind, row, writes, acked>>

Fails(a, rerunnable) ==
  /\ Goto(a, IF rerunnable THEN "release_rerunnable" ELSE "release")
  /\ UNCHANGED <<kind, row, writes, acked>>

Superseded(a) ==
  /\ attempt[a].pc = "running"
  /\ ~ HeldBy(a)
  /\ Fails(a, TRUE)

(* A refusal, a 4xx, comes before the transaction commits. *)
Refuse(a) ==
  /\ attempt[a].pc = "running"
  /\ Fails(a, TRUE)

(* Anything else that goes wrong, before the commit or after it. *)
RerunnableOnError == kind = "webhook"

Break(a) ==
  /\ attempt[a].pc \in { "running", "finished" }
  /\ Fails(a, RerunnableOnError)

Store(a) ==
  /\ attempt[a].pc = "finished"
  /\ IF HeldBy(a) THEN row' = [row EXCEPT !.stored = a, !.token = None]
                  ELSE UNCHANGED row
  /\ Answer(a, TRUE)
  /\ UNCHANGED <<kind, writes>>

(* A store that fails, twice for a request, does not change its answer; a   *)
(* webhook whose store fails is released and answered with an error.        *)
StoreFails(a) ==
  /\ attempt[a].pc = "finished"
  /\ kind = "request"
  /\ Answer(a, TRUE)
  /\ UNCHANGED <<kind, row, writes>>

Release(a) ==
  /\ attempt[a].pc \in { "release", "release_rerunnable" }
  /\ row' = IF ~ HeldBy(a) THEN row
            ELSE IF attempt[a].pc = "release_rerunnable" \/ ~ row.committed THEN NoRow
            ELSE [row EXCEPT !.token = None]
  /\ Answer(a, FALSE)
  /\ UNCHANGED <<kind, writes>>

ReleaseFails(a) ==
  /\ attempt[a].pc \in { "release", "release_rerunnable" }
  /\ Answer(a, FALSE)
  /\ UNCHANGED <<kind, row, writes>>

(* The process dies: no answer, and the row stays as it is. *)
Crash(a) ==
  /\ attempt[a].pc # "away"
  /\ attempt' = [attempt EXCEPT ![a] = Away]
  /\ UNCHANGED <<kind, row, writes, acked>>

(* Ages stop at StaleAfter: older is not told apart. *)
Older(age) == IF age < StaleAfter THEN age + 1 ELSE age

Tick ==
  /\ row' = IF row.exists THEN [row EXCEPT !.age = Older(@)] ELSE row
  /\ attempt' = [a \in Attempts |->
                  IF attempt[a].pc = "away" THEN attempt[a]
                                            ELSE [attempt[a] EXCEPT !.age = Older(@)]]
  /\ UNCHANGED <<kind, writes, acked>>

Claim(a) == InsertClaim(a) \/ ReadClaim(a) \/ TakeOver(a)

Handle(a) == Commit(a) \/ FinishUnwritten(a) \/ Superseded(a) \/ Refuse(a) \/ Break(a)

Finish(a) == Store(a) \/ StoreFails(a) \/ Release(a) \/ ReleaseFails(a)

Next ==
  \/ \E a \in Attempts : Arrive(a) \/ Claim(a) \/ Handle(a) \/ Finish(a) \/ Crash(a)
  \/ Tick

Spec == Init /\ [][Next]_vars

(* Time passes, clients retry, and no step is killed, or fails, every time  *)
(* it is come to.                                                           *)
Fairness ==
  /\ WF_vars(Tick)
  /\ \A a \in Attempts :
       /\ WF_vars(Arrive(a))
       /\ SF_vars(InsertClaim(a))
       /\ SF_vars(ReadClaim(a))
       /\ SF_vars(TakeOver(a))
       /\ SF_vars(Handle(a))
       /\ SF_vars(Store(a) \/ Release(a))

FairSpec == Spec /\ Fairness

-----------------------------------------------------------------------------
Rows ==
  [exists : BOOLEAN, token : Attempts \cup {None}, age : Ages, committed : BOOLEAN,
   stored : Attempts \cup {None}]

AttemptRecords == [pc : Places, age : Ages]

TypeOK ==
  /\ kind \in Kinds
  /\ row \in Rows
  /\ attempt \in [Attempts -> AttemptRecords]
  /\ writes \in Writes
  /\ acked \in BOOLEAN

(* A request's write commits once at most while its key lives, however      *)
(* often it is retried, taken over, broken off after its commit or killed.  *)
WrittenOnce == kind = "request" => writes =< 1

(* The answer a key replays is never replaced by another attempt's: one     *)
(* that was taken over and finished late stores nothing.                    *)
AnswerKept == [][row.stored # None /\ row'.exists => row'.stored = row.stored]_vars

(* A request whose claim nobody finishes does not block its key for good:  *)
(* a retry takes it over, or it is known to have been committed.            *)
Blocks(a) == HeldBy(a) /\ row.stored = None /\ ~ (row.committed /\ Stale)

Unblocked ==
  \A a \in Attempts :
    (kind = "request" /\ attempt[a].pc = "away" /\ Blocks(a)) ~> ~ Blocks(a)
=============================================================================
