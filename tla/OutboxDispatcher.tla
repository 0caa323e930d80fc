-------------------------- MODULE OutboxDispatcher --------------------------
(***************************************************************************)
(* The outbox poller of claims-service.  The same code runs twice: over    *)
(* verification_dispatch_outbox (workers/verification-dispatcher.ts) and   *)
(* over agent_dispatch_outbox (workers/agent-dispatcher.ts).  One tick is  *)
(* one database transaction that stays open across the HTTP call:          *)
(*                                                                         *)
(*   SELECT .. FOR UPDATE SKIP LOCKED  ->  POST  ->  UPDATE row  ->  COMMIT *)
(*                                                                         *)
(* setInterval does not wait for the previous tick and the service may run *)
(* several instances, so ticks overlap; Tick is the set of ticks that can  *)
(* be open at once.  A tick's row lock is the transaction's: it is held    *)
(* exactly while the tick has the row, and a rollback (process crash, lost *)
(* connection, a failing UPDATE) releases it and leaves the row as it was. *)
(* Nothing takes a request back: one whose tick rolled back, or whose      *)
(* fetch() gave up on it, may still be served, during a retry or after.    *)
(***************************************************************************)
EXTENDS Naturals

CONSTANTS
    Row,            \* outbox rows, one per idempotency key
    Tick,           \* ticks that may be open at the same time
    NoRow,          \* a tick that holds no row
    MAX_ATTEMPTS,   \* 5 in the code
    MaxRollbacks    \* bound: rolled-back ticks per row

ASSUME NoRowAssumption == NoRow \notin Row
ASSUME AttemptsAssumption == MAX_ATTEMPTS \in Nat \ {0}
ASSUME RollbacksAssumption == MaxRollbacks \in Nat

VARIABLES
    row,            \* the table: status, attempts and whether nextAttemptAt has passed
    tick,           \* per tick, the row it has locked and how far its call is
    abandoned,      \* per row, requests that no tick waits for and that may yet be served
    served,         \* per row, how often the remote service did the work
    rollbacks       \* per row, how many ticks rolled back while they held it

vars == <<row, tick, abandoned, served, rollbacks>>

Status == {"absent", "pending", "sent", "failed"}

\* posting: the request is under way; worked: the remote service did the work and
\* has not answered yet; ok, error: what fetch() gave the tick.
Phase == {"idle", "posting", "worked", "ok", "error"}

Idle == [row |-> NoRow, phase |-> "idle"]

TypeOK ==
    /\ row \in [Row -> [status : Status, attempts : 0..MAX_ATTEMPTS, due : BOOLEAN]]
    /\ tick \in [Tick -> [row : Row \cup {NoRow}, phase : Phase]]
    /\ \A t \in Tick : tick[t].phase = "idle" <=> tick[t].row = NoRow
    /\ abandoned \in [Row -> Nat]
    /\ served \in [Row -> Nat]
    /\ rollbacks \in [Row -> 0..MaxRollbacks]

Init ==
    /\ row = [r \in Row |-> [status |-> "absent", attempts |-> 0, due |-> FALSE]]
    /\ tick = [t \in Tick |-> Idle]
    /\ abandoned = [r \in Row |-> 0]
    /\ served = [r \in Row |-> 0]
    /\ rollbacks = [r \in Row |-> 0]

Locked(r) == \E t \in Tick : tick[t].row = r

-----------------------------------------------------------------------------
(* The business transaction inserts a row: pending, no attempts, due now.   *)
Enqueue(r) ==
    /\ row[r].status = "absent"
    /\ row' = [row EXCEPT ![r] = [status |-> "pending", attempts |-> 0, due |-> TRUE]]
    /\ UNCHANGED <<tick, abandoned, served, rollbacks>>

(* nextAttemptAt passes.                                                    *)
BackoffElapses(r) ==
    /\ row[r].status = "pending"
    /\ ~row[r].due
    /\ row' = [row EXCEPT ![r].due = TRUE]
    /\ UNCHANGED <<tick, abandoned, served, rollbacks>>

(* Mutant: a retried row is not polled again.                               *)
ClaimFirstAttemptOnly(t, r) ==
    /\ tick[t] = Idle
    /\ row[r].status = "pending"
    /\ row[r].attempts = 0
    /\ ~Locked(r)
    /\ tick' = [tick EXCEPT ![t] = [row |-> r, phase |-> "posting"]]
    /\ UNCHANGED <<row, abandoned, served, rollbacks>>

(* SELECT .. WHERE pending AND due LIMIT 1 FOR UPDATE SKIP LOCKED, then the *)
(* POST: no ORDER BY, so any eligible row.                                  *)
Claim(t, r) ==
    /\ tick[t] = Idle
    /\ row[r].status = "pending"
    /\ row[r].due
    /\ ~Locked(r)
    /\ tick' = [tick EXCEPT ![t] = [row |-> r, phase |-> "posting"]]
    /\ UNCHANGED <<row, abandoned, served, rollbacks>>

-----------------------------------------------------------------------------
(* The remote service, as the dispatcher sees it.                           *)
Serve(t) ==
    /\ tick[t].phase = "posting"
    /\ tick' = [tick EXCEPT ![t].phase = "worked"]
    /\ served' = [served EXCEPT ![tick[t].row] = @ + 1]
    /\ UNCHANGED <<row, abandoned, rollbacks>>

ServeAbandoned(r) ==
    /\ abandoned[r] > 0
    /\ abandoned' = [abandoned EXCEPT ![r] = @ - 1]
    /\ served' = [served EXCEPT ![r] = @ + 1]
    /\ UNCHANGED <<row, tick, rollbacks>>

AnswerOk(t) ==
    /\ tick[t].phase = "worked"
    /\ tick' = [tick EXCEPT ![t].phase = "ok"]
    /\ UNCHANGED <<row, abandoned, served, rollbacks>>

\* The tick waits no longer for its request.  One that was refused or never arrived is
\* among those that are never served.
GivesUp(t) ==
    abandoned' = IF tick[t].phase = "posting"
                 THEN [abandoned EXCEPT ![tick[t].row] = @ + 1]
                 ELSE abandoned

(* fetch() throws (a timeout, a reset) or the status is not 2xx: before the *)
(* remote service did the work, which it may do all the same, or after it   *)
(* (the answer is lost).                                                    *)
AnswerError(t) ==
    /\ tick[t].phase \in {"posting", "worked"}
    /\ GivesUp(t)
    /\ tick' = [tick EXCEPT ![t].phase = "error"]
    /\ UNCHANGED <<row, served, rollbacks>>

-----------------------------------------------------------------------------
(* Mutant: any answer, an HTTP error included, marks the row sent.          *)
MarkSentOnAnyAnswer(t) ==
    /\ tick[t].phase \in {"ok", "error"}
    /\ row' = [row EXCEPT ![tick[t].row].status = "sent"]
    /\ tick' = [tick EXCEPT ![t] = Idle]
    /\ UNCHANGED <<abandoned, served, rollbacks>>

(* response.ok: UPDATE status = 'sent' and COMMIT.                          *)
MarkSent(t) ==
    /\ tick[t].phase = "ok"
    /\ row' = [row EXCEPT ![tick[t].row].status = "sent"]
    /\ tick' = [tick EXCEPT ![t] = Idle]
    /\ UNCHANGED <<abandoned, served, rollbacks>>

(* Mutant: the catch block reschedules without counting the attempt.        *)
RescheduleUncounted(t) ==
    /\ tick[t].phase = "error"
    /\ row' = [row EXCEPT ![tick[t].row].due = FALSE]
    /\ tick' = [tick EXCEPT ![t] = Idle]
    /\ UNCHANGED <<abandoned, served, rollbacks>>

(* Mutant: the limit is compared with the attempts before this one.         *)
RescheduleStaleCount(t) ==
    LET r == tick[t].row
    IN  /\ tick[t].phase = "error"
        /\ row' = [row EXCEPT ![r] =
                     [status |-> IF @.attempts >= MAX_ATTEMPTS THEN "failed" ELSE "pending",
                      attempts |-> @.attempts + 1,
                      due |-> FALSE]]
        /\ tick' = [tick EXCEPT ![t] = Idle]
        /\ UNCHANGED <<abandoned, served, rollbacks>>

(* The catch block: attempts + 1, failed once MAX_ATTEMPTS is reached and   *)
(* rescheduled with backoff until then; COMMIT.                             *)
Reschedule(t) ==
    LET r == tick[t].row
        attempts == row[r].attempts + 1
    IN  /\ tick[t].phase = "error"
        /\ row' = [row EXCEPT ![r] =
                     [status |-> IF attempts >= MAX_ATTEMPTS THEN "failed" ELSE "pending",
                      attempts |-> attempts,
                      due |-> FALSE]]
        /\ tick' = [tick EXCEPT ![t] = Idle]
        /\ UNCHANGED <<abandoned, served, rollbacks>>

(* The transaction rolls back: the process or its connection dies, or the   *)
(* UPDATE itself fails (the catch block's UPDATE then fails in the aborted  *)
(* transaction too).                                                        *)
Rollback(t) ==
    LET r == tick[t].row
    IN  /\ tick[t].phase # "idle"
        /\ rollbacks[r] < MaxRollbacks
        /\ rollbacks' = [rollbacks EXCEPT ![r] = @ + 1]
        /\ GivesUp(t)
        /\ tick' = [tick EXCEPT ![t] = Idle]
        /\ UNCHANGED <<row, served>>

-----------------------------------------------------------------------------
Call(t) == Serve(t) \/ AnswerOk(t) \/ AnswerError(t)

Commit(t) == MarkSent(t) \/ Reschedule(t)

Next ==
    \/ \E r \in Row : Enqueue(r) \/ BackoffElapses(r) \/ ServeAbandoned(r)
    \/ \E t \in Tick, r \in Row : Claim(t, r)
    \/ \E t \in Tick : Call(t) \/ Commit(t) \/ Rollback(t)

Spec == Init /\ [][Next]_vars

(* The interval keeps firing while an instance is up, fetch() ends in an    *)
(* answer or an error, and a tick that has its answer commits.  Nothing     *)
(* makes the remote service answer well, and nothing makes anyone submit.   *)
Fairness ==
    /\ \A r \in Row : WF_vars(BackoffElapses(r))
    /\ \A t \in Tick :
         /\ WF_vars(\E r \in Row : Claim(t, r))
         /\ WF_vars(Call(t))
         /\ WF_vars(Commit(t))

FairSpec == Spec /\ Fairness

-----------------------------------------------------------------------------
(* A row is claimed by one worker at a time, even with overlapping ticks    *)
(* and several instances (verification-dispatcher.ts:11-17).                *)
OneTickPerRow ==
    \A t, u \in Tick : tick[t].row = tick[u].row /\ tick[t].row # NoRow => t = u

(* The status and the attempt counter agree: a row is given up exactly when *)
(* its attempts are used up, never earlier and never later.                 *)
FailedIffExhausted ==
    \A r \in Row : row[r].status = "failed" <=> row[r].attempts = MAX_ATTEMPTS

(* Delivery is at least once; every extra execution on the remote side is   *)
(* accounted for by a failed attempt or by a rolled-back tick, also when a  *)
(* request is served after its caller gave up, while a retry is under way   *)
(* or once the row is settled.  Without failures a row is served once       *)
(* (verification-dispatcher.ts:47-92 against verifications.py:87-116).      *)
DuplicatesAccounted ==
    \A r \in Row : served[r] <= row[r].attempts + rollbacks[r] + 1

-----------------------------------------------------------------------------
(* The inductive invariant.  What the properties above leave implicit: a    *)
(* tick holds only a row nobody has settled, a tick whose request did work  *)
(* can point to it, attempts run out only by failing, and every request     *)
(* sent (served or still on its way) is paid for by an attempt, a rollback, *)
(* the tick that holds the row or the sent mark.                            *)
TickHoldsPendingRow ==
    \A t \in Tick : tick[t].row # NoRow => row[tick[t].row].status = "pending"

AttemptsMatchStatus ==
    \A r \in Row :
        /\ row[r].status = "absent" =>
             row[r].attempts = 0 /\ served[r] = 0 /\ abandoned[r] = 0
        /\ row[r].status = "failed" <=> row[r].attempts = MAX_ATTEMPTS

WorkWasDone ==
    /\ \A r \in Row : row[r].status = "sent" => served[r] > 0
    /\ \A t \in Tick : tick[t].phase \in {"worked", "ok"} => served[tick[t].row] > 0

RequestsAccounted ==
    /\ \A r \in Row :
         /\ served[r] + abandoned[r] <= row[r].attempts + rollbacks[r] + 1
         /\ ~Locked(r) /\ row[r].status # "sent" =>
              served[r] + abandoned[r] <= row[r].attempts + rollbacks[r]
    /\ \A t \in Tick : tick[t].phase = "posting" =>
         served[tick[t].row] + abandoned[tick[t].row]
             <= row[tick[t].row].attempts + rollbacks[tick[t].row]

IInv ==
    /\ TypeOK
    /\ OneTickPerRow
    /\ TickHoldsPendingRow
    /\ AttemptsMatchStatus
    /\ WorkWasDone
    /\ RequestsAccounted

-----------------------------------------------------------------------------
(* The dispatcher implements the promise of an outbox.                      *)
Outbox == INSTANCE DurableDispatch WITH
            state <- [r \in Row |-> row[r].status],
            done  <- {r \in Row : served[r] > 0}

ImplementsOutbox == Outbox!DispatchSpec

(* A queued row is settled in the end: the bounded attempts rule out a row  *)
(* that is polled for ever, and no row is overlooked while others wait.     *)
QueuedIsSettled ==
    \A r \in Row : row[r].status = "pending" ~> row[r].status \in {"sent", "failed"}
=============================================================================
