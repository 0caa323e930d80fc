--------------------------- MODULE ClaimsPipeline ---------------------------
(***************************************************************************)
(* A claim's way from submission to a verified or rejected claim, across   *)
(* claims-service, its verification outbox and verification-service:       *)
(*                                                                         *)
(*   submit --tx--> VERIFYING + outbox row --poller--> verification run    *)
(*   --callback--> VERIFIED + agent outbox row, or MANUAL_REVIEW + task    *)
(*   --admin--> VERIFIED + agent outbox row, or REJECTED                   *)
(*                                                                         *)
(* claims-service keeps no state but its Postgres database.  A request is  *)
(* a handler that reads in autocommit, awaits, and writes from what it     *)
(* read; handlers interleave at every await, and so do the instances of    *)
(* the service.  An action is one step of a handler up to its next         *)
(* database write; db.transaction() is one atomic action at its COMMIT     *)
(* (READ COMMITTED, and each transaction writes the claim row first or     *)
(* second, so its statements see no other half-done transaction on that    *)
(* claim).  Abandon* is a handler that ends there: a refusal (KYC, policy, *)
(* items, evidence), a failed statement, a unique violation that rolls the *)
(* transaction back, or a crash.                                           *)
(***************************************************************************)
EXTENDS Naturals, Sequences, FiniteSets, ClaimStateMachine

CONSTANTS
    Claim,          \* claims
    Key,            \* Idempotency-Key header values
    Run,            \* verification run ids verification-service may draw
    Task,           \* manual review task ids the database may draw
    Submit,         \* submit requests that may be in flight together
    Callback,       \* verification-result requests that may be in flight together
    Review,         \* resolve requests that may be in flight together
    Decision,       \* the decisions runs end in
    None

\* A run id keys one agent outbox row and a task id another: agent-dispatch:<run> and
\* agent-dispatch:manual-review:<task> never collide.
ASSUME AgentKeysAssumption == Run \cap Task = {}
\* A fail is handled like a review but for its reason code: "pass" and one of the two
\* show every behaviour.
ASSUME DecisionAssumption == Decision \subseteq {"pass", "fail", "review"}
ASSUME NoneAssumption == None \notin Claim \cup Key \cup Run \cup Task \cup Decision

VARIABLES
    status,         \* claims.status
    version,        \* claims.version
    events,         \* claim_events per claim, in commit order
    ledger,         \* idempotency_keys: the claim a key was used for
    outbox,         \* verification_dispatch_outbox, by idempotency key
    run,            \* verification-service's runs
    task,           \* manual_review_tasks
    agentOutbox,    \* agent_dispatch_outbox, by idempotency key: the claim
    submit,         \* submit handlers
    callback,       \* verification-result handlers
    review,         \* resolve handlers
    overtaken       \* history: claims moved by a handler that another had overtaken

claimsDb == <<status, version, events, overtaken>>
handlers == <<submit, callback, review>>
vars == <<status, version, events, ledger, outbox, run, task, agentOutbox,
          submit, callback, review, overtaken>>

EventType ==
    {"CLAIM_SUBMITTED", "VERIFICATION_DISPATCHED", "VERIFICATION_RESULT_RECEIVED",
     "CLAIM_VERIFIED", "CLAIM_SENT_TO_MANUAL_REVIEW", "MANUAL_REVIEW_APPROVED",
     "MANUAL_REVIEW_REJECTED"}

\* MANUAL_REVIEW_RESOLVED carries its decision in the payload; ref is the key, run or
\* task the event is about.
Event == [type : EventType, ref : Key \cup Run \cup Task]

TypeOK ==
    /\ status \in [Claim -> ClaimStatus]
    /\ version \in [Claim -> Nat]
    /\ events \in [Claim -> Seq(Event)]
    /\ ledger \in [Key -> Claim \cup {None}]
    /\ outbox \in [Key -> [claim : Claim \cup {None},
                           status : {"absent", "pending", "sent", "failed"}]]
    /\ run \in [Run -> [phase : {"unused", "posted", "completed"},
                        key : Key \cup {None}, decision : Decision \cup {None}]]
    /\ task \in [Task -> [claim : Claim \cup {None},
                          status : {"absent", "open", "approved", "rejected"}]]
    /\ agentOutbox \in [Run \cup Task -> Claim \cup {None}]
    /\ submit \in [Submit -> [pc : {"idle", "loaded"}, key : Key \cup {None},
                              claim : Claim \cup {None}, version : Nat]]
    /\ callback \in [Callback -> [pc : {"idle", "loaded", "recorded"},
                                  run : Run \cup {None}, version : Nat]]
    /\ review \in [Review -> [pc : {"idle", "task", "claim"}, task : Task \cup {None},
                              decision : {"approve", "reject"}, version : Nat]]
    /\ overtaken \in SUBSET Claim

NoSubmit == [pc |-> "idle", key |-> None, claim |-> None, version |-> 0]
NoCallback == [pc |-> "idle", run |-> None, version |-> 0]
NoReview == [pc |-> "idle", task |-> None, decision |-> "approve", version |-> 0]

Init ==
    /\ status = [c \in Claim |-> "DRAFT"]
    /\ version = [c \in Claim |-> 1]
    /\ events = [c \in Claim |-> <<>>]
    /\ ledger = [k \in Key |-> None]
    /\ outbox = [k \in Key |-> [claim |-> None, status |-> "absent"]]
    /\ run = [r \in Run |-> [phase |-> "unused", key |-> None, decision |-> None]]
    /\ task = [t \in Task |-> [claim |-> None, status |-> "absent"]]
    /\ agentOutbox = [a \in Run \cup Task |-> None]
    /\ submit = [s \in Submit |-> NoSubmit]
    /\ callback = [h \in Callback |-> NoCallback]
    /\ review = [v \in Review |-> NoReview]
    /\ overtaken = {}

\* The claim a run verifies: the body of the POST names the outbox row's claim.
ClaimOf(r) == outbox[run[r].key].claim

\* recordClaimEvent, for each event of a list.
Recorded(c, list) == [events EXCEPT ![c] = @ \o list]

Logged(c, type, ref) ==
    \E i \in 1..Len(events[c]) : events[c][i] = [type |-> type, ref |-> ref]

\* UPDATE claims SET status, version = <version as loaded> + 1 WHERE id: nothing compares
\* the version in the row, which may have been overtaken since.
UpdateClaim(c, to, loaded) ==
    /\ status' = [status EXCEPT ![c] = to]
    /\ version' = [version EXCEPT ![c] = loaded + 1]
    /\ overtaken' = IF version[c] = loaded THEN overtaken ELSE overtaken \cup {c}

-----------------------------------------------------------------------------
(* POST /v1/claims/:id/submit.                                              *)

(* The ledger knows no such key (a known key replays the stored answer and  *)
(* changes nothing) and the claim may move to SUBMITTED.  Reading the       *)
(* ledger first and the claim an await later makes no difference: whoever   *)
(* commits the key between the two makes this request fail at its own       *)
(* insert or at its transition check.                                       *)
LoadForSubmit(s, k, c) ==
    /\ submit[s] = NoSubmit
    /\ ledger[k] = None
    /\ canTransition(status[c], "SUBMITTED")
    /\ submit' = [submit EXCEPT
         ![s] = [pc |-> "loaded", key |-> k, claim |-> c, version |-> version[c]]]
    /\ UNCHANGED <<claimsDb, ledger, outbox, run, task, agentOutbox, callback, review>>

(* Mutant: no unique key stops the second transaction of a repeated submit. *)
SubmitAgain(s) ==
    LET k == submit[s].key
        c == submit[s].claim
    IN  /\ submit[s].pc = "loaded"
        /\ UpdateClaim(c, "VERIFYING", submit[s].version)
        /\ events' = Recorded(c, <<[type |-> "CLAIM_SUBMITTED", ref |-> k],
                                   [type |-> "VERIFICATION_DISPATCHED", ref |-> k]>>)
        /\ outbox' = [outbox EXCEPT ![k] = [claim |-> c, status |-> "pending"]]
        /\ ledger' = [ledger EXCEPT ![k] = c]
        /\ submit' = [submit EXCEPT ![s] = NoSubmit]
        /\ UNCHANGED <<run, task, agentOutbox, callback, review>>

(* The transaction: DRAFT -> SUBMITTED -> VERIFYING, both events, the       *)
(* outbox row and the ledger row.  The keys of the last two are unique.     *)
CommitSubmit(s) ==
    LET k == submit[s].key
        c == submit[s].claim
    IN  /\ submit[s].pc = "loaded"
        /\ ledger[k] = None
        /\ outbox[k].status = "absent"
        /\ UpdateClaim(c, "VERIFYING", submit[s].version)
        /\ events' = Recorded(c, <<[type |-> "CLAIM_SUBMITTED", ref |-> k],
                                   [type |-> "VERIFICATION_DISPATCHED", ref |-> k]>>)
        /\ outbox' = [outbox EXCEPT ![k] = [claim |-> c, status |-> "pending"]]
        /\ ledger' = [ledger EXCEPT ![k] = c]
        /\ submit' = [submit EXCEPT ![s] = NoSubmit]
        /\ UNCHANGED <<run, task, agentOutbox, callback, review>>

AbandonSubmit(s) ==
    /\ submit[s] # NoSubmit
    /\ submit' = [submit EXCEPT ![s] = NoSubmit]
    /\ UNCHANGED <<claimsDb, ledger, outbox, run, task, agentOutbox, callback, review>>

-----------------------------------------------------------------------------
(* The verification dispatcher and verification-service.  OutboxDispatcher  *)
(* has the polling, locking and retrying; here a pending row may be posted  *)
(* any number of times and each post that arrives is a new run.             *)

PostVerification(k, r) ==
    /\ outbox[k].status = "pending"
    /\ run[r].phase = "unused"
    /\ run' = [run EXCEPT ![r] = [phase |-> "posted", key |-> k, decision |-> None]]
    /\ UNCHANGED <<claimsDb, ledger, outbox, task, agentOutbox, handlers>>

(* create_verification commits the run and its signals.                     *)
CompleteRun(r, d) ==
    /\ run[r].phase = "posted"
    /\ run' = [run EXCEPT ![r].phase = "completed", ![r].decision = d]
    /\ UNCHANGED <<claimsDb, ledger, outbox, task, agentOutbox, handlers>>

(* Mutant: the row is marked sent before the answer to the POST is awaited. *)
MarkSentEarly(k) ==
    /\ outbox[k].status = "pending"
    /\ \E r \in Run : run[r].phase # "unused" /\ run[r].key = k
    /\ outbox' = [outbox EXCEPT ![k].status = "sent"]
    /\ UNCHANGED <<claimsDb, ledger, run, task, agentOutbox, handlers>>

(* The POST was answered 200: create_verification answers so once the run   *)
(* is committed and its callback attempted, whatever became of the callback *)
(* (applied, refused, timed out and still on its way, or lost).             *)
MarkSent(k) ==
    /\ outbox[k].status = "pending"
    /\ \E r \in Run : run[r].phase = "completed" /\ run[r].key = k
    /\ outbox' = [outbox EXCEPT ![k].status = "sent"]
    /\ UNCHANGED <<claimsDb, ledger, run, task, agentOutbox, handlers>>

(* The attempts are used up: a status, and nothing else.                    *)
MarkFailed(k) ==
    /\ outbox[k].status = "pending"
    /\ outbox' = [outbox EXCEPT ![k].status = "failed"]
    /\ UNCHANGED <<claimsDb, ledger, run, task, agentOutbox, handlers>>

-----------------------------------------------------------------------------
(* POST /v1/internal/claims/:id/verification-result.  A run's result may    *)
(* arrive any number of times.                                              *)

(* Mutant: a result that is not in the log is applied, whatever the claim   *)
(* has come to.                                                             *)
LoadAtAnyStatus(h, r) ==
    LET c == ClaimOf(r)
    IN  /\ callback[h] = NoCallback
        /\ run[r].phase = "completed"
        /\ ~Logged(c, "VERIFICATION_RESULT_RECEIVED", r)
        /\ callback' = [callback EXCEPT
             ![h] = [pc |-> "loaded", run |-> r, version |-> version[c]]]
        /\ UNCHANGED <<claimsDb, ledger, outbox, run, task, agentOutbox, submit, review>>

(* The claim is VERIFYING and the run is not in the event log (a run in the *)
(* log is answered 200 and nothing happens).  The claim is read before the  *)
(* log; the log only grows, so a run missing from it at the second read was *)
(* missing at the first.                                                    *)
LoadForCallback(h, r) ==
    LET c == ClaimOf(r)
    IN  /\ callback[h] = NoCallback
        /\ run[r].phase = "completed"
        /\ ~Logged(c, "VERIFICATION_RESULT_RECEIVED", r)
        /\ status[c] = "VERIFYING"
        /\ callback' = [callback EXCEPT
             ![h] = [pc |-> "loaded", run |-> r, version |-> version[c]]]
        /\ UNCHANGED <<claimsDb, ledger, outbox, run, task, agentOutbox, submit, review>>

(* Mutant: the result event is written after the transaction.               *)
SkipRecord(h) ==
    /\ callback[h].pc = "loaded"
    /\ callback' = [callback EXCEPT ![h].pc = "recorded"]
    /\ UNCHANGED <<claimsDb, ledger, outbox, run, task, agentOutbox, submit, review>>

(* recordClaimEvent(db, ..): a commit of its own.                           *)
RecordResult(h) ==
    LET r == callback[h].run
    IN  /\ callback[h].pc = "loaded"
        /\ events' = Recorded(ClaimOf(r),
                       <<[type |-> "VERIFICATION_RESULT_RECEIVED", ref |-> r]>>)
        /\ callback' = [callback EXCEPT ![h].pc = "recorded"]
        /\ UNCHANGED <<status, version, ledger, outbox, run, task, agentOutbox, submit,
                       review, overtaken>>

(* Mutant: the agent row's key is not unique (ON CONFLICT DO UPDATE).       *)
ApplyPassAgain(h) ==
    LET r == callback[h].run
        c == ClaimOf(r)
    IN  /\ callback[h].pc = "recorded"
        /\ run[r].decision = "pass"
        /\ UpdateClaim(c, "VERIFIED", callback[h].version)
        /\ events' = Recorded(c, <<[type |-> "CLAIM_VERIFIED", ref |-> r]>>)
        /\ agentOutbox' = [agentOutbox EXCEPT ![r] = c]
        /\ callback' = [callback EXCEPT ![h] = NoCallback]
        /\ UNCHANGED <<ledger, outbox, run, task, submit, review>>

(* The transaction for a pass: VERIFIED, and the agent run queued under a   *)
(* key that is unique per run.                                              *)
ApplyPass(h) ==
    LET r == callback[h].run
        c == ClaimOf(r)
    IN  /\ callback[h].pc = "recorded"
        /\ run[r].decision = "pass"
        /\ agentOutbox[r] = None
        /\ UpdateClaim(c, "VERIFIED", callback[h].version)
        /\ events' = Recorded(c, <<[type |-> "CLAIM_VERIFIED", ref |-> r]>>)
        /\ agentOutbox' = [agentOutbox EXCEPT ![r] = c]
        /\ callback' = [callback EXCEPT ![h] = NoCallback]
        /\ UNCHANGED <<ledger, outbox, run, task, submit, review>>

(* Mutant: the status change is not logged.                                 *)
ApplyReferUnlogged(h, t) ==
    LET r == callback[h].run
        c == ClaimOf(r)
    IN  /\ callback[h].pc = "recorded"
        /\ run[r].decision \in {"fail", "review"}
        /\ task[t].status = "absent"
        /\ UpdateClaim(c, "MANUAL_REVIEW", callback[h].version)
        /\ task' = [task EXCEPT ![t] = [claim |-> c, status |-> "open"]]
        /\ callback' = [callback EXCEPT ![h] = NoCallback]
        /\ UNCHANGED <<events, ledger, outbox, run, agentOutbox, submit, review>>

(* The transaction for a fail or a review: MANUAL_REVIEW and an open task.  *)
(* The reason code (fail or review) is left out.                            *)
ApplyRefer(h, t) ==
    LET r == callback[h].run
        c == ClaimOf(r)
    IN  /\ callback[h].pc = "recorded"
        /\ run[r].decision \in {"fail", "review"}
        /\ task[t].status = "absent"
        /\ UpdateClaim(c, "MANUAL_REVIEW", callback[h].version)
        /\ events' = Recorded(c, <<[type |-> "CLAIM_SENT_TO_MANUAL_REVIEW", ref |-> r]>>)
        /\ task' = [task EXCEPT ![t] = [claim |-> c, status |-> "open"]]
        /\ callback' = [callback EXCEPT ![h] = NoCallback]
        /\ UNCHANGED <<ledger, outbox, run, agentOutbox, submit, review>>

AbandonCallback(h) ==
    /\ callback[h] # NoCallback
    /\ callback' = [callback EXCEPT ![h] = NoCallback]
    /\ UNCHANGED <<claimsDb, ledger, outbox, run, task, agentOutbox, submit, review>>

-----------------------------------------------------------------------------
(* POST /v1/admin/manual-reviews/:id/resolve.                               *)

Outcome(d) == IF d = "approve" THEN "VERIFIED" ELSE "REJECTED"

LoadTask(v, t, d) ==
    /\ review[v] = NoReview
    /\ task[t].status = "open"
    /\ review' = [review EXCEPT ![v] = [pc |-> "task", task |-> t, decision |-> d, version |-> 0]]
    /\ UNCHANGED <<claimsDb, ledger, outbox, run, task, agentOutbox, submit, callback>>

LoadClaim(v) ==
    LET c == task[review[v].task].claim
    IN  /\ review[v].pc = "task"
        /\ canTransition(status[c], Outcome(review[v].decision))
        /\ review' = [review EXCEPT ![v].pc = "claim", ![v].version = version[c]]
        /\ UNCHANGED <<claimsDb, ledger, outbox, run, task, agentOutbox, submit, callback>>

(* Mutant: the task is left open.                                           *)
ResolveLeavingTask(v) ==
    LET t == review[v].task
        c == task[t].claim
        d == review[v].decision
    IN  /\ review[v].pc = "claim"
        /\ d = "approve" => agentOutbox[t] = None
        /\ UpdateClaim(c, Outcome(d), review[v].version)
        /\ events' = Recorded(c, <<[type |-> IF d = "approve" THEN "MANUAL_REVIEW_APPROVED"
                                             ELSE "MANUAL_REVIEW_REJECTED", ref |-> t]>>)
        /\ agentOutbox' = IF d = "approve" THEN [agentOutbox EXCEPT ![t] = c] ELSE agentOutbox
        /\ review' = [review EXCEPT ![v] = NoReview]
        /\ UNCHANGED <<ledger, outbox, run, task, submit, callback>>

(* The transaction: the task, the claim, the event and, for an approval,    *)
(* the agent run under a key that is unique per task.  Neither the task's   *)
(* nor the claim's status is read again.                                    *)
Resolve(v) ==
    LET t == review[v].task
        c == task[t].claim
        d == review[v].decision
    IN  /\ review[v].pc = "claim"
        /\ d = "approve" => agentOutbox[t] = None
        /\ task' = [task EXCEPT ![t].status = IF d = "approve" THEN "approved" ELSE "rejected"]
        /\ UpdateClaim(c, Outcome(d), review[v].version)
        /\ events' = Recorded(c, <<[type |-> IF d = "approve" THEN "MANUAL_REVIEW_APPROVED"
                                             ELSE "MANUAL_REVIEW_REJECTED", ref |-> t]>>)
        /\ agentOutbox' = IF d = "approve" THEN [agentOutbox EXCEPT ![t] = c] ELSE agentOutbox
        /\ review' = [review EXCEPT ![v] = NoReview]
        /\ UNCHANGED <<ledger, outbox, run, submit, callback>>

AbandonReview(v) ==
    /\ review[v] # NoReview
    /\ review' = [review EXCEPT ![v] = NoReview]
    /\ UNCHANGED <<claimsDb, ledger, outbox, run, task, agentOutbox, submit, callback>>

-----------------------------------------------------------------------------
SubmitNext ==
    \/ \E s \in Submit, k \in Key, c \in Claim : LoadForSubmit(s, k, c)
    \/ \E s \in Submit : CommitSubmit(s) \/ AbandonSubmit(s)

DispatchNext ==
    \/ \E k \in Key, r \in Run : PostVerification(k, r)
    \/ \E r \in Run, d \in Decision : CompleteRun(r, d)
    \/ \E k \in Key : MarkSent(k) \/ MarkFailed(k)

CallbackNext ==
    \/ \E h \in Callback, r \in Run : LoadForCallback(h, r)
    \/ \E h \in Callback : RecordResult(h) \/ ApplyPass(h) \/ AbandonCallback(h)
    \/ \E h \in Callback, t \in Task : ApplyRefer(h, t)

ReviewNext ==
    \/ \E v \in Review, t \in Task, d \in {"approve", "reject"} : LoadTask(v, t, d)
    \/ \E v \in Review : LoadClaim(v) \/ Resolve(v) \/ AbandonReview(v)

Next == SubmitNext \/ DispatchNext \/ CallbackNext \/ ReviewNext

Spec == Init /\ [][Next]_vars

-----------------------------------------------------------------------------
(* The status an event records, for the events that record one.             *)
MovesTo ==
    [VERIFICATION_DISPATCHED     |-> "VERIFYING",
     CLAIM_VERIFIED              |-> "VERIFIED",
     CLAIM_SENT_TO_MANUAL_REVIEW |-> "MANUAL_REVIEW",
     MANUAL_REVIEW_APPROVED      |-> "VERIFIED",
     MANUAL_REVIEW_REJECTED      |-> "REJECTED"]

Positions(c, types, ref) ==
    {i \in 1..Len(events[c]) : events[c][i].type \in types /\ events[c][i].ref = ref}

LatestIs(c, i, types) ==
    \A j \in 1..Len(events[c]) : j > i => events[c][j].type \notin types

\* A claim that has left DRAFT has a verification dispatch row: it is never VERIFYING with
\* nothing queued.
SubmittedHasDispatch ==
    \A c \in Claim : status[c] # "DRAFT" => \E k \in Key : outbox[k].claim = c

\* Ledger, outbox and event log agree on the one claim a key submitted, and the log has it
\* once.
SubmissionsLogged ==
    \A k \in Key :
        /\ outbox[k].claim = ledger[k]
        /\ \A c \in Claim : Cardinality(Positions(c, {"CLAIM_SUBMITTED"}, k))
                              = IF ledger[k] = c THEN 1 ELSE 0

(* Whatever requests crossed or crashed, a claim that was submitted has its *)
(* dispatch queued (schema.ts:265-271), and a duplicate submit with the     *)
(* same key did no new work (schema.ts:323-327).                            *)
OneSubmissionPerKey == SubmittedHasDispatch /\ SubmissionsLogged

(* The audit log tells the claim's status: the last event that records a    *)
(* move names the status in the row (schema.ts:207-211), so no committed    *)
(* move is unlogged and no logged move is undone by a lost update.          *)
StatusMatchesLog ==
    \A c \in Claim :
        \/ status[c] = "DRAFT" /\ events[c] = <<>>
        \/ \E i \in 1..Len(events[c]) :
             /\ events[c][i].type \in DOMAIN MovesTo
             /\ MovesTo[events[c][i].type] = status[c]
             /\ LatestIs(c, i, DOMAIN MovesTo)

\* A VERIFIED claim has an agent run queued, by the callback or by an administrator.
VerifiedHasAgentRun ==
    \A c \in Claim : status[c] = "VERIFIED" => \E a \in Run \cup Task : agentOutbox[a] = c

\* Each approval in the log has exactly one agent run queued, and no other run is.
ApprovalsLogged ==
    \A c \in Claim, a \in Run \cup Task :
        Cardinality(Positions(c, {"CLAIM_VERIFIED", "MANUAL_REVIEW_APPROVED"}, a))
            = IF agentOutbox[a] = c THEN 1 ELSE 0

(* However often a run's result is delivered and however its handlers and   *)
(* the reviews overlap, a pass is applied at most once, each approval,      *)
(* automatic or by an administrator, has its agent run, and a claim that    *)
(* stale handlers moved back and forth to VERIFIED has one too              *)
(* (internal.routes.ts:74-77, schema.ts:298-300).                           *)
AgentRunPerApproval == VerifiedHasAgentRun /\ ApprovalsLogged

(* The claim moves on a result only after the result is in the log, so the  *)
(* log never shows a decision without its evidence.                         *)
ResultBeforeMove ==
    \A c \in Claim : \A i \in 1..Len(events[c]) :
        events[c][i].type \in {"CLAIM_VERIFIED", "CLAIM_SENT_TO_MANUAL_REVIEW"} =>
            \E j \in 1..(i - 1) : events[c][j] = [type |-> "VERIFICATION_RESULT_RECEIVED",
                                                 ref  |-> events[c][i].ref]

(* Review tasks and the log agree: as many tasks as referrals, an open task *)
(* was never resolved, and a resolved one shows its latest resolution.      *)
TasksMatchLog ==
    /\ \A c \in Claim :
         Cardinality({t \in Task : task[t].claim = c})
           = Cardinality({i \in 1..Len(events[c]) :
                            events[c][i].type = "CLAIM_SENT_TO_MANUAL_REVIEW"})
    /\ \A t \in Task : task[t].status # "absent" =>
         LET c == task[t].claim
             resolutions == Positions(c, {"MANUAL_REVIEW_APPROVED", "MANUAL_REVIEW_REJECTED"}, t)
         IN  IF task[t].status = "open"
             THEN resolutions = {}
             ELSE \E i \in resolutions :
                    /\ \A j \in resolutions : j <= i
                    /\ events[c][i].type = IF task[t].status = "approved"
                                           THEN "MANUAL_REVIEW_APPROVED"
                                           ELSE "MANUAL_REVIEW_REJECTED"

(* What the handlers and rows refer to exists: the strengthening of TypeOK  *)
(* the proofs rest on (no foreign key of the schema says so).               *)
References ==
    /\ \A k \in Key : outbox[k].status = "absent" <=> outbox[k].claim = None
    /\ \A r \in Run : run[r].phase # "unused" =>
         run[r].key \in Key /\ outbox[run[r].key].status # "absent"
    /\ \A r \in Run : run[r].phase = "completed" => run[r].decision \in Decision
    /\ \A t \in Task : task[t].status # "absent" =>
         task[t].claim \in Claim /\ \E k \in Key : outbox[k].claim = task[t].claim
    /\ \A s \in Submit : submit[s].pc # "idle" =>
         submit[s].key \in Key /\ submit[s].claim \in Claim
    /\ \A h \in Callback : callback[h].pc # "idle" =>
         callback[h].run \in Run /\ run[callback[h].run].phase = "completed"
    /\ \A v \in Review : review[v].pc # "idle" =>
         review[v].task \in Task /\ task[review[v].task].status # "absent"

(* A handler past its own record found or made it: the result it applies is *)
(* in the log.                                                              *)
AppliesRecorded ==
    \A h \in Callback : callback[h].pc = "recorded" =>
        Logged(ClaimOf(callback[h].run), "VERIFICATION_RESULT_RECEIVED", callback[h].run)

(* The verification outbox keeps the promise of DurableDispatch while       *)
(* submits, polls and callbacks interleave: a row marked sent has a run.    *)
VerificationOutbox == INSTANCE DurableDispatch WITH
    Row   <- Key,
    state <- [k \in Key |-> outbox[k].status],
    done  <- {k \in Key : \E r \in Run : run[r].key = k /\ run[r].phase = "completed"}

VerificationDispatchKept == VerificationOutbox!DispatchSafety

-----------------------------------------------------------------------------
(* What the repository says of the pipeline and interleavings refute.       *)

(* "An illegal move fails the same way everywhere it's attempted" (claim-   *)
(* state-machine.ts:6-11): the claim row moves along the graph; the submit  *)
(* transaction makes two moves.                                             *)
LegalMove(from, to) ==
    \/ canTransition(from, to)
    \/ canTransition(from, "SUBMITTED") /\ canTransition("SUBMITTED", to)

LegalTransitions ==
    [][\A c \in Claim : status'[c] # status[c] => LegalMove(status[c], status'[c])]_vars

(* What version could do and nothing compares it for (schema.ts:132): as    *)
(* long as no handler moves a claim that another one moved since it loaded  *)
(* the claim, every move is along the graph, whatever number of submits,    *)
(* callbacks and reviews of the claim there is.  (An edit of a draft writes *)
(* version too, and moves nothing: ClaimDraft has edits.)                   *)
LegalUnlessOvertaken ==
    [][\A c \in Claim : status'[c] # status[c] /\ c \notin overtaken' =>
         LegalMove(status[c], status'[c])]_vars

(* A retried callback for a recorded run is a no-op (internal.routes.ts:    *)
(* 37-38), and so "a retry is always safe" (verifications.py:118-120): a    *)
(* recorded result has moved the claim, or the handler that recorded it is  *)
(* about to.                                                                *)
RecordedIsApplied ==
    \A c \in Claim, r \in Run : Logged(c, "VERIFICATION_RESULT_RECEIVED", r) =>
        \/ Positions(c, {"CLAIM_VERIFIED", "CLAIM_SENT_TO_MANUAL_REVIEW"}, r) # {}
        \/ \E h \in Callback : callback[h].run = r /\ callback[h].pc = "recorded"
=============================================================================
