----------------------- MODULE ClaimsPipeline_proofs -----------------------
(***************************************************************************)
(* Proofs about ClaimsPipeline for any sets of claims, keys, runs, tasks   *)
(* and requests in flight: its typing and the invariants that hold however *)
(* the requests interleave, die and are repeated.  Then its audit log: it  *)
(* only grows, a result precedes the move it causes, the last move it tells*)
(* is the claim's status, it approves a claim once per agent run, and it   *)
(* agrees with the review tasks.                                           *)
(***************************************************************************)
EXTENDS ClaimsPipeline, SequenceTheorems, FiniteSetTheorems, TLAPS

USE AgentKeysAssumption, DecisionAssumption, NoneAssumption

-----------------------------------------------------------------------------
(* Updating one field of a row of an outbox or of the task table.           *)
LEMMA SetStatus ==
    ASSUME NEW D, NEW A, NEW B, NEW f \in [D -> [claim : A, status : B]], NEW x \in D, NEW b \in B
    PROVE  /\ [f EXCEPT ![x].status = b] \in [D -> [claim : A, status : B]]
           /\ [f EXCEPT ![x].status = b][x] = [claim |-> f[x].claim, status |-> b]
           /\ \A y \in D \ {x} : [f EXCEPT ![x].status = b][y] = f[y]
  OBVIOUS

(* Moving a callback handler to its next step.                              *)
LEMMA SetPc ==
    ASSUME NEW D, NEW A, NEW B, NEW N, NEW f \in [D -> [pc : A, run : B, version : N]], NEW x \in D, NEW p \in A
    PROVE  /\ [f EXCEPT ![x].pc = p] \in [D -> [pc : A, run : B, version : N]]
           /\ [f EXCEPT ![x].pc = p][x] = [pc |-> p, run |-> f[x].run, version |-> f[x].version]
           /\ \A y \in D \ {x} : [f EXCEPT ![x].pc = p][y] = f[y]
  OBVIOUS

(* What recording one event does to the log.                                *)
LEMMA RecordedOne ==
    ASSUME events \in [Claim -> Seq(Event)], NEW c \in Claim, NEW e \in Event
    PROVE  /\ Recorded(c, <<e>>) \in [Claim -> Seq(Event)]
           /\ Len(Recorded(c, <<e>>)[c]) = Len(events[c]) + 1
           /\ Recorded(c, <<e>>)[c][Len(events[c]) + 1] = e
           /\ \A i \in 1..Len(events[c]) : Recorded(c, <<e>>)[c][i] = events[c][i]
           /\ \A d \in Claim \ {c} : Recorded(c, <<e>>)[d] = events[d]
  <1>1. events[c] \in Seq(Event) /\ <<e>> \in Seq(Event) /\ Len(<<e>>) = 1 /\ <<e>>[1] = e
    OBVIOUS
  <1>2. /\ events[c] \o <<e>> \in Seq(Event)
        /\ Len(events[c] \o <<e>>) = Len(events[c]) + 1
        /\ \A i \in 1..(Len(events[c]) + 1) : (events[c] \o <<e>>)[i]
              = IF i <= Len(events[c]) THEN events[c][i] ELSE <<e>>[i - Len(events[c])]
    BY <1>1, ConcatProperties
  <1>3. Len(events[c]) \in Nat
    BY <1>1
  <1>4. /\ (events[c] \o <<e>>)[Len(events[c]) + 1] = e
        /\ \A i \in 1..Len(events[c]) : (events[c] \o <<e>>)[i] = events[c][i]
    BY <1>1, <1>2, <1>3
  <1>5. QED
    BY <1>2, <1>4 DEF Recorded

(* What recording two events does to the log.                               *)
LEMMA RecordedTwo ==
    ASSUME events \in [Claim -> Seq(Event)], NEW c \in Claim,
           NEW e \in Event, NEW f \in Event
    PROVE  /\ Recorded(c, <<e, f>>) \in [Claim -> Seq(Event)]
           /\ Len(Recorded(c, <<e, f>>)[c]) = Len(events[c]) + 2
           /\ Recorded(c, <<e, f>>)[c][Len(events[c]) + 1] = e
           /\ Recorded(c, <<e, f>>)[c][Len(events[c]) + 2] = f
           /\ \A i \in 1..Len(events[c]) : Recorded(c, <<e, f>>)[c][i] = events[c][i]
           /\ \A d \in Claim \ {c} : Recorded(c, <<e, f>>)[d] = events[d]
  <1>1. /\ events[c] \in Seq(Event) /\ <<e, f>> \in Seq(Event) /\ Len(<<e, f>>) = 2
        /\ <<e, f>>[1] = e /\ <<e, f>>[2] = f
    OBVIOUS
  <1>2. /\ events[c] \o <<e, f>> \in Seq(Event)
        /\ Len(events[c] \o <<e, f>>) = Len(events[c]) + 2
        /\ \A i \in 1..(Len(events[c]) + 2) : (events[c] \o <<e, f>>)[i]
              = IF i <= Len(events[c]) THEN events[c][i] ELSE <<e, f>>[i - Len(events[c])]
    BY <1>1, ConcatProperties
  <1>3. Len(events[c]) \in Nat
    BY <1>1
  <1>4. /\ (events[c] \o <<e, f>>)[Len(events[c]) + 1] = e
        /\ (events[c] \o <<e, f>>)[Len(events[c]) + 2] = f
        /\ \A i \in 1..Len(events[c]) : (events[c] \o <<e, f>>)[i] = events[c][i]
    BY <1>1, <1>2, <1>3
  <1>5. QED
    BY <1>2, <1>4 DEF Recorded

-----------------------------------------------------------------------------
(* Typing and references.                                                   *)

Typed == TypeOK /\ References

(* A database of drafts satisfies the types and references.                 *)
LEMMA InitTyped == Init => Typed
  BY DEF Init, Typed, TypeOK, References, NoSubmit, NoCallback, NoReview, ClaimStatus

(* The claim a run with a row verifies is a claim.                          *)
LEMMA RunHasClaim ==
    ASSUME Typed, NEW r \in Run, run[r].phase # "unused"
    PROVE  ClaimOf(r) \in Claim
  BY DEF Typed, TypeOK, References, ClaimOf

(* Every handler step preserves the types and references.                   *)
LEMMA StepTyped == Typed /\ [Next]_vars => Typed'
<1> SUFFICES ASSUME Typed, [Next]_vars
             PROVE  Typed'
  OBVIOUS
<1> USE DEF Typed, TypeOK, References, UpdateClaim, NoSubmit, NoCallback, NoReview,
            claimsDb, handlers
<1>1. ASSUME NEW s \in Submit, NEW k \in Key, NEW c \in Claim, LoadForSubmit(s, k, c)
      PROVE  Typed'
  BY <1>1 DEF LoadForSubmit
<1>2. ASSUME NEW s \in Submit, CommitSubmit(s) PROVE Typed'
  <2> DEFINE k == submit[s].key
             c == submit[s].claim
             e == [type |-> "CLAIM_SUBMITTED", ref |-> k]
             f == [type |-> "VERIFICATION_DISPATCHED", ref |-> k]
  <2>1. k \in Key /\ c \in Claim /\ outbox[k].status = "absent"
    BY <1>2 DEF CommitSubmit
  <2>2. e \in Event /\ f \in Event
    BY <2>1 DEF Event, EventType
  <2>3. events' = Recorded(c, <<e, f>>)
    BY <1>2 DEF CommitSubmit
  <2>4. events' \in [Claim -> Seq(Event)]
    BY <2>1, <2>2, <2>3, RecordedTwo
  <2>5. /\ status' = [status EXCEPT ![c] = "VERIFYING"]
        /\ version' = [version EXCEPT ![c] = submit[s].version + 1]
        /\ outbox' = [outbox EXCEPT ![k] = [claim |-> c, status |-> "pending"]]
        /\ ledger' = [ledger EXCEPT ![k] = c]
        /\ submit' = [submit EXCEPT ![s] = NoSubmit]
        /\ overtaken' \in SUBSET Claim
        /\ UNCHANGED <<run, task, agentOutbox, callback, review>>
    BY <1>2, <2>1 DEF CommitSubmit
  <2> HIDE DEF k, c, e, f
  <2>6. TypeOK'
    BY <2>1, <2>4, <2>5 DEF ClaimStatus
  <2>7. /\ outbox'[k] = [claim |-> c, status |-> "pending"]
        /\ \A q \in Key \ {k} : outbox'[q] = outbox[q]
    BY <2>1, <2>5
  <2>8. \A q \in Key : outbox[q].claim # None => outbox'[q] = outbox[q]
    BY <2>1, <2>7
  <2>9. References'
    BY <2>1, <2>5, <2>7, <2>8
  <2>10. QED
    BY <2>6, <2>9
<1>3. ASSUME NEW s \in Submit, AbandonSubmit(s) PROVE Typed'
  BY <1>3 DEF AbandonSubmit
<1>4. ASSUME NEW k \in Key, NEW r \in Run, PostVerification(k, r) PROVE Typed'
  BY <1>4 DEF PostVerification
<1>5. ASSUME NEW r \in Run, NEW d \in Decision, CompleteRun(r, d) PROVE Typed'
  <2>1. run \in [Run -> [phase : {"unused", "posted", "completed"},
                        key : Key \cup {None}, decision : Decision \cup {None}]]
    OBVIOUS
  <2>2. /\ run' = [run EXCEPT ![r].phase = "completed", ![r].decision = d]
        /\ run[r].phase = "posted"
        /\ UNCHANGED <<claimsDb, ledger, outbox, task, agentOutbox, handlers>>
    BY <1>5, Zenon DEF CompleteRun
  <2>3. /\ run' \in [Run -> [phase : {"unused", "posted", "completed"},
                           key : Key \cup {None}, decision : Decision \cup {None}]]
        /\ run'[r] = [phase |-> "completed", key |-> run[r].key, decision |-> d]
        /\ \A q \in Run \ {r} : run'[q] = run[q]
    <3> HIDE DEF Typed, TypeOK, References
    <3>1. /\ "completed" \in {"unused", "posted", "completed"}
          /\ d \in Decision \cup {None}
      OBVIOUS
    <3>2. QED
      BY <2>1, <2>2, <3>1
  <2>4. TypeOK'
    BY <2>2, <2>3
  <2>5. References'
    BY <2>2, <2>3
  <2>6. QED
    BY <2>4, <2>5
<1>6. ASSUME NEW k \in Key, MarkSent(k) PROVE Typed'
  BY <1>6 DEF MarkSent
<1>7. ASSUME NEW k \in Key, MarkFailed(k) PROVE Typed'
  <2>1. outbox \in [Key -> [claim : Claim \cup {None},
                           status : {"absent", "pending", "sent", "failed"}]]
    OBVIOUS
  <2>2. /\ outbox' = [outbox EXCEPT ![k].status = "failed"]
        /\ outbox[k].status = "pending"
        /\ UNCHANGED <<claimsDb, ledger, run, task, agentOutbox, handlers>>
    BY <1>7, Zenon DEF MarkFailed
  <2>3. /\ outbox' \in [Key -> [claim : Claim \cup {None},
                              status : {"absent", "pending", "sent", "failed"}]]
        /\ outbox'[k] = [claim |-> outbox[k].claim, status |-> "failed"]
        /\ \A q \in Key \ {k} : outbox'[q] = outbox[q]
    <3> HIDE DEF Typed, TypeOK, References
    <3>1. "failed" \in {"absent", "pending", "sent", "failed"}
      OBVIOUS
    <3>2. QED
      BY <2>1, <2>2, <3>1, SetStatus
  <2>4. TypeOK'
    BY <2>2, <2>3
  <2>5. \A q \in Key : /\ outbox'[q].claim = outbox[q].claim
                       /\ outbox'[q].status = "absent" <=> outbox[q].status = "absent"
    BY <2>2, <2>3
  <2>6. References'
    BY <2>2, <2>5
  <2>7. QED
    BY <2>4, <2>6
<1>8. ASSUME NEW h \in Callback, NEW r \in Run, LoadForCallback(h, r) PROVE Typed'
  BY <1>8, RunHasClaim DEF LoadForCallback
<1>9. ASSUME NEW h \in Callback, RecordResult(h) PROVE Typed'
  <2> DEFINE r == callback[h].run
             c == ClaimOf(r)
             e == [type |-> "VERIFICATION_RESULT_RECEIVED", ref |-> r]
  <2>1. r \in Run /\ c \in Claim
    BY <1>9, RunHasClaim DEF RecordResult
  <2>2. e \in Event
    BY <2>1 DEF Event, EventType
  <2>3. events' = Recorded(c, <<e>>)
    BY <1>9 DEF RecordResult
  <2>4. events' \in [Claim -> Seq(Event)]
    BY <2>1, <2>2, <2>3, RecordedOne
  <2>5. /\ callback' = [callback EXCEPT ![h].pc = "recorded"]
        /\ callback[h].pc = "loaded"
        /\ UNCHANGED <<status, version, ledger, outbox, run, task, agentOutbox, submit, review,
                       overtaken>>
    BY <1>9, Zenon DEF RecordResult
  <2> HIDE DEF r, c, e
  <2>6. callback \in [Callback -> [pc : {"idle", "loaded", "recorded"},
                                  run : Run \cup {None}, version : Nat]]
    OBVIOUS
  <2>7. /\ callback' \in [Callback -> [pc : {"idle", "loaded", "recorded"},
                                     run : Run \cup {None}, version : Nat]]
        /\ callback'[h] = [pc |-> "recorded", run |-> callback[h].run,
                           version |-> callback[h].version]
        /\ \A g \in Callback \ {h} : callback'[g] = callback[g]
    <3> HIDE DEF Typed, TypeOK, References
    <3>1. QED
      BY <2>5, <2>6, SetPc, Zenon
  <2>8. TypeOK'
    BY <2>4, <2>5, <2>7
  <2>9. References'
    BY <2>5, <2>7
  <2>10. QED
    BY <2>8, <2>9
<1>10. ASSUME NEW h \in Callback, ApplyPass(h) PROVE Typed'
  <2> DEFINE r == callback[h].run
             c == ClaimOf(r)
             e == [type |-> "CLAIM_VERIFIED", ref |-> r]
  <2>1. r \in Run /\ c \in Claim
    BY <1>10, RunHasClaim DEF ApplyPass
  <2>2. e \in Event
    BY <2>1 DEF Event, EventType
  <2>3. events' = Recorded(c, <<e>>)
    BY <1>10 DEF ApplyPass
  <2>4. events' \in [Claim -> Seq(Event)]
    BY <2>1, <2>2, <2>3, RecordedOne
  <2>5. /\ status' = [status EXCEPT ![c] = "VERIFIED"]
        /\ version' = [version EXCEPT ![c] = callback[h].version + 1]
        /\ agentOutbox' = [agentOutbox EXCEPT ![r] = c]
        /\ callback' = [callback EXCEPT ![h] = NoCallback]
        /\ overtaken' \in SUBSET Claim
        /\ UNCHANGED <<ledger, outbox, run, task, submit, review>>
    BY <1>10, <2>1 DEF ApplyPass
  <2> HIDE DEF r, c, e
  <2>6. QED
    BY <2>1, <2>4, <2>5 DEF ClaimStatus
<1>11. ASSUME NEW h \in Callback, NEW t \in Task, ApplyRefer(h, t) PROVE Typed'
  <2> DEFINE r == callback[h].run
             c == ClaimOf(r)
             e == [type |-> "CLAIM_SENT_TO_MANUAL_REVIEW", ref |-> r]
  <2>1. r \in Run /\ c \in Claim /\ task[t].status = "absent"
    BY <1>11, RunHasClaim DEF ApplyRefer
  <2>2. e \in Event
    BY <2>1 DEF Event, EventType
  <2>3. events' = Recorded(c, <<e>>)
    BY <1>11 DEF ApplyRefer
  <2>4. events' \in [Claim -> Seq(Event)]
    BY <2>1, <2>2, <2>3, RecordedOne
  <2>5. /\ status' = [status EXCEPT ![c] = "MANUAL_REVIEW"]
        /\ version' = [version EXCEPT ![c] = callback[h].version + 1]
        /\ task' = [task EXCEPT ![t] = [claim |-> c, status |-> "open"]]
        /\ callback' = [callback EXCEPT ![h] = NoCallback]
        /\ overtaken' \in SUBSET Claim
        /\ UNCHANGED <<ledger, outbox, run, agentOutbox, submit, review>>
    BY <1>11, <2>1 DEF ApplyRefer
  <2>6. \E k \in Key : outbox[k].claim = c
    BY <1>11 DEF ApplyRefer, ClaimOf
  <2> HIDE DEF r, c, e
  <2>7. TypeOK'
    BY <2>1, <2>4, <2>5 DEF ClaimStatus
  <2>8. References'
    BY <2>1, <2>5, <2>6
  <2>9. QED
    BY <2>7, <2>8
<1>12. ASSUME NEW h \in Callback, AbandonCallback(h) PROVE Typed'
  BY <1>12 DEF AbandonCallback
<1>13. ASSUME NEW v \in Review, NEW t \in Task, NEW d \in {"approve", "reject"},
              LoadTask(v, t, d)
       PROVE  Typed'
  BY <1>13 DEF LoadTask
<1>14. ASSUME NEW v \in Review, LoadClaim(v) PROVE Typed'
  <2> DEFINE n == version[task[review[v].task].claim]
  <2>1. /\ review' = [review EXCEPT ![v].pc = "claim", ![v].version = n]
        /\ review[v].pc = "task"
        /\ UNCHANGED <<claimsDb, ledger, outbox, run, task, agentOutbox, submit, callback>>
    BY <1>14, Zenon DEF LoadClaim
  <2>2. n \in Nat
    BY <2>1
  <2>3. review \in [Review -> [pc : {"idle", "task", "claim"}, task : Task \cup {None},
                              decision : {"approve", "reject"}, version : Nat]]
    OBVIOUS
  <2>4. /\ review' \in [Review -> [pc : {"idle", "task", "claim"}, task : Task \cup {None},
                                 decision : {"approve", "reject"}, version : Nat]]
        /\ review'[v] = [pc |-> "claim", task |-> review[v].task,
                         decision |-> review[v].decision, version |-> n]
        /\ \A u \in Review \ {v} : review'[u] = review[u]
    <3> HIDE DEF Typed, TypeOK, References, n
    <3>1. "claim" \in {"idle", "task", "claim"}
      OBVIOUS
    <3>2. QED
      BY <2>1, <2>2, <2>3, <3>1
  <2> HIDE DEF n
  <2>5. TypeOK'
    BY <2>1, <2>4
  <2>6. References'
    BY <2>1, <2>4
  <2>7. QED
    BY <2>5, <2>6
<1>15. ASSUME NEW v \in Review, Resolve(v) PROVE Typed'
  <2> DEFINE t == review[v].task
             c == task[t].claim
             d == review[v].decision
             e == [type |-> IF d = "approve" THEN "MANUAL_REVIEW_APPROVED"
                            ELSE "MANUAL_REVIEW_REJECTED", ref |-> t]
  <2>1. t \in Task /\ c \in Claim /\ task[t].status # "absent" /\ d \in {"approve", "reject"}
    BY <1>15 DEF Resolve
  <2>2. e \in Event
    BY <2>1 DEF Event, EventType
  <2>3. events' = Recorded(c, <<e>>)
    BY <1>15 DEF Resolve
  <2>4. events' \in [Claim -> Seq(Event)]
    BY <2>1, <2>2, <2>3, RecordedOne
  <2>5. /\ status' = [status EXCEPT ![c] = Outcome(d)]
        /\ version' = [version EXCEPT ![c] = review[v].version + 1]
        /\ agentOutbox' = IF d = "approve" THEN [agentOutbox EXCEPT ![t] = c] ELSE agentOutbox
        /\ review' = [review EXCEPT ![v] = NoReview]
        /\ UNCHANGED <<ledger, outbox, run, submit, callback>>
    BY <1>15, Zenon DEF Resolve
  <2>6. task' = [task EXCEPT ![t].status = IF d = "approve" THEN "approved" ELSE "rejected"]
    BY <1>15, Zenon DEF Resolve
  <2>14. overtaken' = IF version[c] = review[v].version THEN overtaken ELSE overtaken \cup {c}
    BY <1>15, Zenon DEF Resolve
  <2>7. task \in [Task -> [claim : Claim \cup {None},
                          status : {"absent", "open", "approved", "rejected"}]]
    OBVIOUS
  <2> HIDE DEF t, c, d, e
  <2>8. /\ task' \in [Task -> [claim : Claim \cup {None},
                             status : {"absent", "open", "approved", "rejected"}]]
        /\ task'[t].claim = task[t].claim /\ task'[t].status # "absent"
        /\ \A u \in Task \ {t} : task'[u] = task[u]
    <3> HIDE DEF Typed, TypeOK, References
    <3> DEFINE s == IF d = "approve" THEN "approved" ELSE "rejected"
    <3>1. s \in {"absent", "open", "approved", "rejected"} /\ s # "absent"
      OBVIOUS
    <3>2. task' = [task EXCEPT ![t].status = s]
      BY <2>6
    <3> HIDE DEF s
    <3>3. /\ task' \in [Task -> [claim : Claim \cup {None},
                               status : {"absent", "open", "approved", "rejected"}]]
          /\ task'[t] = [claim |-> task[t].claim, status |-> s]
          /\ \A u \in Task \ {t} : task'[u] = task[u]
      BY <2>1, <2>7, <3>1, <3>2, SetStatus
    <3>4. QED
      BY <3>1, <3>3
  <2>9. /\ status' \in [Claim -> ClaimStatus]
        /\ version' \in [Claim -> Nat]
        /\ agentOutbox' \in [Run \cup Task -> Claim \cup {None}]
        /\ review' \in [Review -> [pc : {"idle", "task", "claim"}, task : Task \cup {None},
                                 decision : {"approve", "reject"}, version : Nat]]
        /\ overtaken' \in SUBSET Claim
    BY <2>1, <2>5, <2>14 DEF Outcome, ClaimStatus
  <2>10. TypeOK'
    BY <2>4, <2>5, <2>8, <2>9
  <2>11. \A u \in Task : /\ task'[u].claim = task[u].claim
                         /\ task'[u].status # "absent" => task[u].status # "absent"
                         /\ task[u].status # "absent" => task'[u].status # "absent"
    BY <2>1, <2>8
  <2>12. References'
    BY <2>5, <2>11
  <2>13. QED
    BY <2>10, <2>12
<1>16. ASSUME NEW v \in Review, AbandonReview(v) PROVE Typed'
  BY <1>16 DEF AbandonReview
<1>17. CASE UNCHANGED vars
  BY <1>17 DEF vars
<1>18. QED
  <2> HIDE DEF Typed, TypeOK, References
  <2>1. CASE SubmitNext
    BY <2>1, <1>1, <1>2, <1>3 DEF SubmitNext
  <2>2. CASE DispatchNext
    BY <2>2, <1>4, <1>5, <1>6, <1>7 DEF DispatchNext
  <2>3. CASE CallbackNext
    BY <2>3, <1>8, <1>9, <1>10, <1>11, <1>12 DEF CallbackNext
  <2>4. CASE ReviewNext
    BY <2>4, <1>13, <1>14, <1>15, <1>16 DEF ReviewNext
  <2>5. QED
    BY <2>1, <2>2, <2>3, <2>4, <1>17 DEF Next

(* The typing and the references hold in every state.                       *)
THEOREM Typing == Spec => []Typed
  <1>1. Init => Typed
    BY InitTyped
  <1>2. Typed /\ [Next]_vars => Typed'
    BY StepTyped
  <1>3. QED
    BY <1>1, <1>2, PTL DEF Spec

(* Types, for any number of claims, keys, runs, tasks and requests.         *)
THEOREM TypeCorrect == Spec => []TypeOK
  <1>1. Typed => TypeOK
    BY DEF Typed
  <1>2. QED
    BY <1>1, Typing, PTL

-----------------------------------------------------------------------------
(* A claim never waits with nothing queued.                                 *)

Dispatched == SubmittedHasDispatch /\ VerifiedHasAgentRun

(* Every handler step keeps a row queued for each claim past DRAFT and an   *)
(* agent run for each VERIFIED one.                                         *)
LEMMA StepDispatched == Typed /\ Dispatched /\ [Next]_vars => Dispatched'
<1> SUFFICES ASSUME Typed, Dispatched, [Next]_vars
             PROVE  Dispatched'
  OBVIOUS
<1> USE DEF Dispatched, SubmittedHasDispatch, VerifiedHasAgentRun
<1>1. ASSUME UNCHANGED <<status, agentOutbox>>,
             \A k \in Key : outbox'[k].claim = outbox[k].claim
      PROVE  Dispatched'
  BY <1>1
<1>2. ASSUME NEW s \in Submit, CommitSubmit(s) PROVE Dispatched'
  <2> DEFINE k == submit[s].key
             c == submit[s].claim
  <2>1. k \in Key /\ c \in Claim /\ outbox[k].status = "absent" /\ outbox[k].claim = None
    BY <1>2 DEF CommitSubmit, Typed, TypeOK, References
  <2>2. /\ status' = [status EXCEPT ![c] = "VERIFYING"]
        /\ outbox' = [outbox EXCEPT ![k] = [claim |-> c, status |-> "pending"]]
        /\ agentOutbox' = agentOutbox
    BY <1>2 DEF CommitSubmit, UpdateClaim
  <2>3. status \in [Claim -> ClaimStatus] /\ outbox'[k].claim = c
        /\ \A q \in Key \ {k} : outbox'[q].claim = outbox[q].claim
    BY <2>1, <2>2 DEF Typed, TypeOK
  <2> HIDE DEF k, c
  <2>4. SubmittedHasDispatch'
    BY <2>1, <2>2, <2>3, NoneAssumption
  <2>5. VerifiedHasAgentRun'
    BY <2>1, <2>2, <2>3
  <2>6. QED
    BY <2>4, <2>5
<1>3. ASSUME NEW h \in Callback, ApplyPass(h) PROVE Dispatched'
  <2> DEFINE r == callback[h].run
             c == ClaimOf(r)
  <2>1. r \in Run /\ c \in Claim /\ agentOutbox[r] = None
    BY <1>3, RunHasClaim DEF ApplyPass, Typed, TypeOK, References
  <2>2. /\ status' = [status EXCEPT ![c] = "VERIFIED"]
        /\ agentOutbox' = [agentOutbox EXCEPT ![r] = c]
        /\ outbox' = outbox
    BY <1>3 DEF ApplyPass, UpdateClaim
  <2>3. \E k \in Key : outbox[k].claim = c
    BY <1>3 DEF ApplyPass, ClaimOf, Typed, References
  <2>4. status \in [Claim -> ClaimStatus] /\ agentOutbox'[r] = c
        /\ \A a \in (Run \cup Task) \ {r} : agentOutbox'[a] = agentOutbox[a]
    BY <2>1, <2>2 DEF Typed, TypeOK
  <2> HIDE DEF r, c
  <2>5. SubmittedHasDispatch'
    BY <2>1, <2>2, <2>3, <2>4
  <2>6. VerifiedHasAgentRun'
    BY <2>1, <2>2, <2>4
  <2>7. QED
    BY <2>5, <2>6
<1>4. ASSUME NEW h \in Callback, NEW t \in Task, ApplyRefer(h, t) PROVE Dispatched'
  <2> DEFINE c == ClaimOf(callback[h].run)
  <2>1. c \in Claim /\ status \in [Claim -> ClaimStatus]
    BY <1>4, RunHasClaim DEF ApplyRefer, Typed, TypeOK, References
  <2>2. status' = [status EXCEPT ![c] = "MANUAL_REVIEW"] /\ UNCHANGED <<agentOutbox, outbox>>
    BY <1>4 DEF ApplyRefer, UpdateClaim
  <2>3. \E k \in Key : outbox[k].claim = c
    BY <1>4 DEF ApplyRefer, ClaimOf, Typed, References
  <2> HIDE DEF c
  <2>4. QED
    BY <2>1, <2>2, <2>3
<1>5. ASSUME NEW v \in Review, Resolve(v) PROVE Dispatched'
  <2> DEFINE t == review[v].task
             c == task[t].claim
             d == review[v].decision
  <2>1. /\ t \in Task /\ c \in Claim /\ status \in [Claim -> ClaimStatus]
        /\ agentOutbox \in [Run \cup Task -> Claim \cup {None}]
        /\ \E k \in Key : outbox[k].claim = c
    BY <1>5 DEF Resolve, Typed, TypeOK, References
  <2>2. /\ status' = [status EXCEPT ![c] = Outcome(d)]
        /\ agentOutbox' = IF d = "approve" THEN [agentOutbox EXCEPT ![t] = c] ELSE agentOutbox
        /\ d = "approve" => agentOutbox[t] = None
        /\ outbox' = outbox
    BY <1>5 DEF Resolve, UpdateClaim
  <2> HIDE DEF t, c, d
  <2>3. SubmittedHasDispatch'
    BY <2>1, <2>2
  <2>4. VerifiedHasAgentRun'
    <3>1. CASE d = "approve"
      BY <3>1, <2>1, <2>2
    <3>2. CASE d # "approve"
      BY <3>2, <2>1, <2>2 DEF Outcome
    <3>3. QED
      BY <3>1, <3>2
  <2>5. QED
    BY <2>3, <2>4
<1>6. ASSUME NEW k \in Key, MarkSent(k) \/ MarkFailed(k) PROVE Dispatched'
  <2>1. \A q \in Key : outbox'[q].claim = outbox[q].claim
    <3>1. outbox \in [Key -> [claim : Claim \cup {None},
                             status : {"absent", "pending", "sent", "failed"}]]
      BY DEF Typed, TypeOK
    <3>2. \/ outbox' = [outbox EXCEPT ![k].status = "sent"]
          \/ outbox' = [outbox EXCEPT ![k].status = "failed"]
      BY <1>6 DEF MarkSent, MarkFailed
    <3>3. QED
      BY <3>1, <3>2
  <2>2. QED
    BY <1>1, <1>6, <2>1 DEF MarkSent, MarkFailed, claimsDb
<1>7. QED
  <2> HIDE DEF Dispatched, SubmittedHasDispatch, VerifiedHasAgentRun
  <2> USE DEF claimsDb, handlers
  <2>1. SubmitNext => Dispatched'
    BY <1>1, <1>2 DEF SubmitNext, LoadForSubmit, AbandonSubmit
  <2>2. DispatchNext => Dispatched'
    BY <1>1, <1>6 DEF DispatchNext, PostVerification, CompleteRun
  <2>3. CallbackNext => Dispatched'
    BY <1>1, <1>3, <1>4 DEF CallbackNext, LoadForCallback, RecordResult, AbandonCallback
  <2>4. ReviewNext => Dispatched'
    BY <1>1, <1>5 DEF ReviewNext, LoadTask, LoadClaim, AbandonReview
  <2> QED
    BY <1>1, <2>1, <2>2, <2>3, <2>4 DEF Next, vars

(* No interleaving of submits, polls, callbacks and reviews loses a         *)
(* dispatch.                                                                *)
THEOREM Dispatching == Spec => []Dispatched
  <1>1. Init => Dispatched
    BY DEF Init, Dispatched, SubmittedHasDispatch, VerifiedHasAgentRun
  <1>2. Typed /\ Dispatched /\ [Next]_vars => Dispatched'
    BY StepDispatched
  <1>3. QED
    BY <1>1, <1>2, Typing, PTL DEF Spec

-----------------------------------------------------------------------------
(* The verification outbox keeps the promise of DurableDispatch.            *)

(* Every pipeline step is a step of the abstract outbox or leaves it        *)
(* alone.                                                                   *)
LEMMA VerificationStep ==
    Typed /\ [Next]_vars
        => [VerificationOutbox!DispatchNext]_(VerificationOutbox!dispatchVars)
<1> SUFFICES ASSUME Typed, [Next]_vars
             PROVE  [VerificationOutbox!DispatchNext]_(VerificationOutbox!dispatchVars)
  OBVIOUS
<1> DEFINE state == [k \in Key |-> outbox[k].status]
           ran(k) == \E r \in Run : run[r].key = k /\ run[r].phase = "completed"
           done  == {k \in Key : ran(k)}
<1> USE DEF claimsDb, handlers
<1>1. CASE UNCHANGED <<outbox, run>>
  BY <1>1 DEF VerificationOutbox!dispatchVars
<1>t. /\ outbox \in [Key -> [claim : Claim \cup {None},
                             status : {"absent", "pending", "sent", "failed"}]]
      /\ run \in [Run -> [phase : {"unused", "posted", "completed"},
                          key : Key \cup {None}, decision : Decision \cup {None}]]
  BY DEF Typed, TypeOK
<1>2. ASSUME NEW s \in Submit, CommitSubmit(s)
      PROVE  \E k \in Key : VerificationOutbox!Queue(k)
  <2> DEFINE k == submit[s].key
  <2>1. /\ k \in Key /\ outbox[k].status = "absent" /\ run' = run
        /\ outbox' = [outbox EXCEPT ![k] = [claim |-> submit[s].claim, status |-> "pending"]]
    BY <1>2 DEF CommitSubmit, Typed, References
  <2> HIDE DEF k
  <2>2. VerificationOutbox!Queue(k)
    BY <1>t, <2>1 DEF VerificationOutbox!Queue
  <2>3. QED
    BY <2>1, <2>2 DEF VerificationOutbox!Queue
<1>3. ASSUME NEW k \in Key, NEW r \in Run, PostVerification(k, r)
      PROVE  UNCHANGED <<state, done>>
  <2>1. /\ run[r].phase = "unused" /\ outbox' = outbox
        /\ run' = [run EXCEPT ![r] = [phase |-> "posted", key |-> k, decision |-> None]]
    BY <1>3 DEF PostVerification
  <2>2. run'[r].phase = "posted" /\ \A q \in Run \ {r} : run'[q] = run[q]
    BY <1>t, <2>1
  <2>3. \A q \in Run : run'[q].phase = "completed" <=> run[q].phase = "completed"
    BY <2>1, <2>2
  <2>4. \A q \in Run : run[q].phase = "completed" => run'[q] = run[q]
    BY <2>1, <2>2
  <2>5. QED
    BY <2>1, <2>3, <2>4
<1>4. ASSUME NEW r \in Run, NEW d \in Decision, CompleteRun(r, d)
      PROVE  \E k \in Key : VerificationOutbox!Work(k)
  <2> DEFINE k == run[r].key
  <2>1. /\ run[r].phase = "posted" /\ outbox' = outbox
        /\ run' = [run EXCEPT ![r].phase = "completed", ![r].decision = d]
    BY <1>4, Zenon DEF CompleteRun
  <2>2. k \in Key /\ outbox[k].status # "absent"
    BY <2>1 DEF Typed, References
  <2>3. /\ run'[r].phase = "completed" /\ run'[r].key = k
        /\ \A q \in Run \ {r} : run'[q] = run[q]
    BY <1>t, <2>1
  <2>4. \A q \in Key : ran(q)' <=> ran(q) \/ q = k
    BY <2>1, <2>3
  <2>5. done' = done \cup {k}
    BY <2>2, <2>4
  <2>6. state[k] # "absent" /\ state' = state
    BY <2>1, <2>2
  <2> HIDE DEF k, state, done
  <2>7. VerificationOutbox!Work(k)
    BY <2>2, <2>5, <2>6 DEF VerificationOutbox!Work, state, done
  <2>8. QED
    BY <2>2, <2>7 DEF VerificationOutbox!Work
<1>5. ASSUME NEW k \in Key, MarkSent(k) PROVE VerificationOutbox!Deliver(k)
  BY <1>5, <1>t DEF MarkSent, VerificationOutbox!Deliver
<1>6. ASSUME NEW k \in Key, MarkFailed(k) PROVE VerificationOutbox!GiveUp(k)
  BY <1>6, <1>t DEF MarkFailed, VerificationOutbox!GiveUp
<1>7. CASE SubmitNext
  BY <1>7, <1>1, <1>2
     DEF SubmitNext, LoadForSubmit, AbandonSubmit, VerificationOutbox!DispatchNext
<1>8. CASE DispatchNext
  <2>1. ASSUME NEW k \in Key, NEW r \in Run, PostVerification(k, r)
        PROVE  UNCHANGED VerificationOutbox!dispatchVars
    BY <1>3, <2>1 DEF VerificationOutbox!dispatchVars
  <2>2. QED
    BY <1>8, <2>1, <1>4, <1>5, <1>6
       DEF DispatchNext, VerificationOutbox!DispatchNext, VerificationOutbox!Settle
<1>9. CASE CallbackNext
  BY <1>9, <1>1 DEF CallbackNext, LoadForCallback, RecordResult, ApplyPass, ApplyRefer,
                    AbandonCallback
<1>10. CASE ReviewNext
  BY <1>10, <1>1 DEF ReviewNext, LoadTask, LoadClaim, Resolve, AbandonReview
<1>11. CASE UNCHANGED vars
  BY <1>11, <1>1 DEF vars
<1>12. QED
  BY <1>7, <1>8, <1>9, <1>10, <1>11 DEF Next

(* The pipeline, with its submits and callbacks, keeps the promise of       *)
(* DurableDispatch for its verification outbox: a queued verification       *)
(* stays queued until it is settled, and is marked sent only after a run    *)
(* exists.                                                                  *)
THEOREM VerificationRefinement == Spec => VerificationDispatchKept
<1>1. Init => VerificationOutbox!DispatchInit
  BY DEF Init, VerificationOutbox!DispatchInit
<1>2. QED
  BY <1>1, VerificationStep, Typing, PTL
     DEF Spec, VerificationDispatchKept, VerificationOutbox!DispatchSafety

-----------------------------------------------------------------------------
(* Appending one event to a log.                                            *)
LEMMA Appended ==
    ASSUME NEW log \in Seq(Event), NEW e \in Event
    PROVE  /\ Len(log) \in Nat
           /\ log \o <<e>> \in Seq(Event)
           /\ Len(log \o <<e>>) = Len(log) + 1
           /\ (log \o <<e>>)[Len(log) + 1] = e
           /\ \A i \in 1..Len(log) : (log \o <<e>>)[i] = log[i]
  <1>1. <<e>> \in Seq(Event) /\ Len(<<e>>) = 1 /\ <<e>>[1] = e
    OBVIOUS
  <1>2. /\ log \o <<e>> \in Seq(Event)
        /\ Len(log \o <<e>>) = Len(log) + 1
        /\ \A i \in 1..(Len(log) + 1) : (log \o <<e>>)[i]
              = IF i <= Len(log) THEN log[i] ELSE <<e>>[i - Len(log)]
    BY <1>1, ConcatProperties
  <1>3. Len(log) \in Nat
    OBVIOUS
  <1>4. QED
    BY <1>1, <1>2, <1>3

(* The positions of a log that hold an event of these types about ref.      *)
About(log, types, ref) ==
    {i \in 1..Len(log) : log[i].type \in types /\ log[i].ref = ref}

(* Appending an event adds at most its own position.                        *)
LEMMA AppendedAbout ==
    ASSUME NEW log \in Seq(Event), NEW e \in Event, NEW types, NEW ref
    PROVE  /\ Cardinality(About(log, types, ref)) \in Nat
           /\ Cardinality(About(log \o <<e>>, types, ref)) =
                Cardinality(About(log, types, ref))
                  + (IF e.type \in types /\ e.ref = ref THEN 1 ELSE 0)
  <1> DEFINE n == Len(log)
             new == log \o <<e>>
  <1>1. /\ n \in Nat /\ Len(new) = n + 1 /\ new[n + 1] = e
        /\ \A i \in 1..n : new[i] = log[i]
    BY Appended
  <1> HIDE DEF new
  <1>2. IsFiniteSet(About(log, types, ref)) /\ Cardinality(About(log, types, ref)) \in Nat
    <2>1. IsFiniteSet(1..n)
      BY <1>1, FS_Interval
    <2>2. About(log, types, ref) \in SUBSET (1..n)
      BY DEF About
    <2>3. QED
      BY <2>1, <2>2, FS_Subset, FS_CardinalityType
  <1>3. n + 1 \notin About(log, types, ref)
    BY <1>1 DEF About
  <1> HIDE DEF n
  <1>4. CASE e.type \in types /\ e.ref = ref
    <2>1. About(new, types, ref) = About(log, types, ref) \cup {n + 1}
      BY <1>1, <1>4 DEF About, n
    <2>2. QED
      BY <1>2, <1>3, <1>4, <2>1, FS_AddElement DEF new
  <1>5. CASE ~(e.type \in types /\ e.ref = ref)
    <2>1. About(new, types, ref) = About(log, types, ref)
      BY <1>1, <1>5 DEF About, n
    <2>2. QED
      BY <1>2, <1>5, <2>1 DEF new
  <1>6. QED
    BY <1>4, <1>5

(* The submit's two events, as two appends.                                 *)
LEMMA AppendedTwice ==
    ASSUME NEW log \in Seq(Event), NEW e \in Event, NEW f \in Event
    PROVE  log \o <<e, f>> = (log \o <<e>>) \o <<f>>
  <1>1. /\ <<e>> \in Seq(Event) /\ Len(<<e>>) = 1 /\ <<e>>[1] = e
        /\ <<f>> \in Seq(Event) /\ Len(<<f>>) = 1 /\ <<f>>[1] = f
        /\ <<e, f>> \in Seq(Event) /\ Len(<<e, f>>) = 2
        /\ <<e, f>>[1] = e /\ <<e, f>>[2] = f
    OBVIOUS
  <1>2. <<e>> \o <<f>> = <<e, f>>
    <2> DEFINE s == <<e>>
               t == <<f>>
               u == <<e, f>>
    <2>1. /\ s \in Seq(Event) /\ Len(s) = 1 /\ s[1] = e
          /\ t \in Seq(Event) /\ Len(t) = 1 /\ t[1] = f
          /\ u \in Seq(Event) /\ Len(u) = 2 /\ u[1] = e /\ u[2] = f
      BY <1>1
    <2> HIDE DEF s, t, u
    <2>2. /\ s \o t \in Seq(Event) /\ Len(s \o t) = 2
          /\ \A i \in 1..2 : (s \o t)[i] = IF i <= 1 THEN s[i] ELSE t[i - 1]
      <3>0. s \in Seq(Event) /\ t \in Seq(Event)
        BY <2>1
      <3>1. /\ s \o t \in Seq(Event) /\ Len(s \o t) = Len(s) + Len(t)
            /\ \A i \in 1..(Len(s) + Len(t)) : (s \o t)[i]
                  = IF i <= Len(s) THEN s[i] ELSE t[i - Len(s)]
        BY <3>0, ConcatProperties
      <3>2. QED
        BY <2>1, <3>1
    <2>3. \A i \in 1..2 : (s \o t)[i] = u[i]
      BY <2>1, <2>2
    <2>4. s \o t = u
      BY <2>1, <2>2, <2>3, SeqEqual
    <2>5. QED
      BY <2>4 DEF s, t, u
  <1>3. (log \o <<e>>) \o <<f>> = log \o (<<e>> \o <<f>>)
    <2> DEFINE s == <<e>>
               t == <<f>>
    <2>1. s \in Seq(Event) /\ t \in Seq(Event)
      BY <1>1
    <2> HIDE DEF s, t
    <2>2. (log \o s) \o t = log \o (s \o t)
      BY <2>1, ConcatAssociative
    <2>3. QED
      BY <2>2 DEF s, t
  <1>4. QED
    BY <1>2, <1>3, Zenon

-----------------------------------------------------------------------------
(* What each step does to the log and to what the log speaks of.            *)

Quiet ==
    /\ UNCHANGED <<status, events, ledger, agentOutbox>>
    /\ \A k \in Key : outbox'[k].claim = outbox[k].claim

(* A step either leaves the log, the status and the agent outbox alone or   *)
(* is one of the five that write them.                                      *)
LEMMA StepKinds ==
    ASSUME Typed, [Next]_vars
    PROVE  \/ Quiet
           \/ \E s \in Submit : CommitSubmit(s)
           \/ \E h \in Callback : RecordResult(h) \/ ApplyPass(h)
           \/ \E h \in Callback, t \in Task : ApplyRefer(h, t)
           \/ \E v \in Review : Resolve(v)
  <1> USE DEF claimsDb, handlers
  <1>1. ASSUME NEW k \in Key, MarkSent(k) \/ MarkFailed(k) PROVE Quiet
    <2>1. outbox \in [Key -> [claim : Claim \cup {None},
                             status : {"absent", "pending", "sent", "failed"}]]
      BY DEF Typed, TypeOK
    <2>2. \/ outbox' = [outbox EXCEPT ![k].status = "sent"]
          \/ outbox' = [outbox EXCEPT ![k].status = "failed"]
      BY <1>1 DEF MarkSent, MarkFailed
    <2>3. \A q \in Key : outbox'[q].claim = outbox[q].claim
      BY <2>1, <2>2
    <2>4. QED
      BY <1>1, <2>3 DEF Quiet, MarkSent, MarkFailed
  <1>2. CASE SubmitNext
    BY <1>2 DEF Quiet, SubmitNext, LoadForSubmit, AbandonSubmit
  <1>3. CASE DispatchNext
    BY <1>1, <1>3 DEF Quiet, DispatchNext, PostVerification, CompleteRun
  <1>4. CASE CallbackNext
    BY <1>4 DEF Quiet, CallbackNext, LoadForCallback, AbandonCallback
  <1>5. CASE ReviewNext
    BY <1>5 DEF Quiet, ReviewNext, LoadTask, LoadClaim, AbandonReview
  <1>6. CASE UNCHANGED vars
    BY <1>6 DEF Quiet, vars
  <1>7. QED
    BY <1>2, <1>3, <1>4, <1>5, <1>6 DEF Next

(* The claim gets one more event.                                           *)
Gains(c, e) ==
    /\ c \in Claim
    /\ e \in Event
    /\ events' = [events EXCEPT ![c] = events[c] \o <<e>>]

(* What the submit transaction writes.                                      *)
LEMMA SubmitEffect ==
    ASSUME Typed, NEW s \in Submit, CommitSubmit(s)
    PROVE  \E k \in Key, c \in Claim :
             /\ ledger[k] = None /\ ledger' = [ledger EXCEPT ![k] = c]
             /\ outbox[k].claim = None
             /\ outbox' = [outbox EXCEPT ![k] = [claim |-> c, status |-> "pending"]]
             /\ status' = [status EXCEPT ![c] = "VERIFYING"]
             /\ events' = [events EXCEPT ![c] =
                   (events[c] \o <<[type |-> "CLAIM_SUBMITTED", ref |-> k]>>)
                      \o <<[type |-> "VERIFICATION_DISPATCHED", ref |-> k]>>]
             /\ agentOutbox' = agentOutbox
  <1> DEFINE k == submit[s].key
             c == submit[s].claim
             e == [type |-> "CLAIM_SUBMITTED", ref |-> k]
             f == [type |-> "VERIFICATION_DISPATCHED", ref |-> k]
  <1>1. /\ k \in Key /\ c \in Claim /\ outbox[k].claim = None
        /\ events \in [Claim -> Seq(Event)]
    BY DEF CommitSubmit, Typed, TypeOK, References
  <1>2. e \in Event /\ f \in Event
    BY <1>1 DEF Event, EventType
  <1>3. events' = [events EXCEPT ![c] = events[c] \o <<e, f>>]
    BY DEF CommitSubmit, Recorded
  <1>4. /\ ledger[k] = None /\ ledger' = [ledger EXCEPT ![k] = c]
        /\ outbox' = [outbox EXCEPT ![k] = [claim |-> c, status |-> "pending"]]
        /\ status' = [status EXCEPT ![c] = "VERIFYING"]
        /\ agentOutbox' = agentOutbox
    BY DEF CommitSubmit, UpdateClaim
  <1>5. events[c] \o <<e, f>> = (events[c] \o <<e>>) \o <<f>>
    <2>1. events[c] \in Seq(Event)
      BY <1>1
    <2> HIDE DEF e, f
    <2>2. QED
      BY <1>2, <2>1, AppendedTwice
  <1> HIDE DEF k, c
  <1>6. QED
    BY <1>1, <1>3, <1>4, <1>5

(* What recording a verification result writes: one event.                  *)
LEMMA RecordEffect ==
    ASSUME Typed, NEW h \in Callback, RecordResult(h)
    PROVE  LET r == callback[h].run
           IN  /\ r \in Run
               /\ Gains(ClaimOf(r), [type |-> "VERIFICATION_RESULT_RECEIVED", ref |-> r])
               /\ \E k \in Key : outbox[k].claim = ClaimOf(r)
               /\ UNCHANGED <<status, ledger, agentOutbox, outbox>>
  <1> DEFINE r == callback[h].run
             e == [type |-> "VERIFICATION_RESULT_RECEIVED", ref |-> r]
  <1>1. /\ r \in Run /\ ClaimOf(r) \in Claim
        /\ \E k \in Key : outbox[k].claim = ClaimOf(r)
    BY RunHasClaim DEF RecordResult, Typed, References, ClaimOf
  <1>2. e \in Event
    BY <1>1 DEF Event, EventType
  <1>3. events' = [events EXCEPT ![ClaimOf(r)] = events[ClaimOf(r)] \o <<e>>]
        /\ UNCHANGED <<status, ledger, agentOutbox, outbox>>
    BY DEF RecordResult, Recorded
  <1>4. QED
    BY <1>1, <1>2, <1>3 DEF Gains

(* What applying a pass writes.                                             *)
LEMMA PassEffect ==
    ASSUME Typed, NEW h \in Callback, ApplyPass(h)
    PROVE  LET r == callback[h].run
           IN  /\ r \in Run
               /\ callback[h].pc = "recorded"
               /\ Gains(ClaimOf(r), [type |-> "CLAIM_VERIFIED", ref |-> r])
               /\ status' = [status EXCEPT ![ClaimOf(r)] = "VERIFIED"]
               /\ agentOutbox[r] = None
               /\ agentOutbox' = [agentOutbox EXCEPT ![r] = ClaimOf(r)]
               /\ UNCHANGED <<ledger, outbox>>
  <1> DEFINE r == callback[h].run
             e == [type |-> "CLAIM_VERIFIED", ref |-> r]
  <1>1. r \in Run /\ ClaimOf(r) \in Claim
    BY RunHasClaim DEF ApplyPass, Typed, References
  <1>2. e \in Event
    BY <1>1 DEF Event, EventType
  <1>3. events' = [events EXCEPT ![ClaimOf(r)] = events[ClaimOf(r)] \o <<e>>]
    BY DEF ApplyPass, Recorded
  <1>4. QED
    BY <1>1, <1>2, <1>3 DEF Gains, ApplyPass, UpdateClaim

(* What referring a claim to manual review writes.                          *)
LEMMA ReferEffect ==
    ASSUME Typed, NEW h \in Callback, NEW t \in Task, ApplyRefer(h, t)
    PROVE  LET r == callback[h].run
           IN  /\ r \in Run
               /\ callback[h].pc = "recorded"
               /\ Gains(ClaimOf(r), [type |-> "CLAIM_SENT_TO_MANUAL_REVIEW", ref |-> r])
               /\ status' = [status EXCEPT ![ClaimOf(r)] = "MANUAL_REVIEW"]
               /\ UNCHANGED <<ledger, outbox, agentOutbox>>
  <1> DEFINE r == callback[h].run
             e == [type |-> "CLAIM_SENT_TO_MANUAL_REVIEW", ref |-> r]
  <1>1. r \in Run /\ ClaimOf(r) \in Claim
    BY RunHasClaim DEF ApplyRefer, Typed, References
  <1>2. e \in Event
    BY <1>1 DEF Event, EventType
  <1>3. events' = [events EXCEPT ![ClaimOf(r)] = events[ClaimOf(r)] \o <<e>>]
    BY DEF ApplyRefer, Recorded
  <1>4. QED
    BY <1>1, <1>2, <1>3 DEF Gains, ApplyRefer, UpdateClaim

(* What an administrator's decision writes.                                 *)
LEMMA ResolveEffect ==
    ASSUME Typed, NEW v \in Review, Resolve(v)
    PROVE  \E t \in Task, c \in Claim :
             \/ /\ Gains(c, [type |-> "MANUAL_REVIEW_APPROVED", ref |-> t])
                /\ status' = [status EXCEPT ![c] = "VERIFIED"]
                /\ agentOutbox[t] = None
                /\ agentOutbox' = [agentOutbox EXCEPT ![t] = c]
                /\ UNCHANGED <<ledger, outbox>>
             \/ /\ Gains(c, [type |-> "MANUAL_REVIEW_REJECTED", ref |-> t])
                /\ status' = [status EXCEPT ![c] = "REJECTED"]
                /\ UNCHANGED <<ledger, outbox, agentOutbox>>
  <1> DEFINE t == review[v].task
             c == task[t].claim
             d == review[v].decision
  <1>1. t \in Task /\ c \in Claim
    BY DEF Resolve, Typed, TypeOK, References
  <1>2. CASE d = "approve"
    <2>1. [type |-> "MANUAL_REVIEW_APPROVED", ref |-> t] \in Event
      BY <1>1 DEF Event, EventType
    <2>2. /\ events' = [events EXCEPT ![c] = events[c]
                          \o <<[type |-> "MANUAL_REVIEW_APPROVED", ref |-> t]>>]
          /\ status' = [status EXCEPT ![c] = "VERIFIED"]
          /\ agentOutbox[t] = None
          /\ agentOutbox' = [agentOutbox EXCEPT ![t] = c]
          /\ UNCHANGED <<ledger, outbox>>
      BY <1>2 DEF Resolve, Recorded, UpdateClaim, Outcome
    <2> HIDE DEF t, c, d
    <2>3. QED
      BY <1>1, <2>1, <2>2 DEF Gains
  <1>3. CASE d # "approve"
    <2>1. [type |-> "MANUAL_REVIEW_REJECTED", ref |-> t] \in Event
      BY <1>1 DEF Event, EventType
    <2>2. /\ events' = [events EXCEPT ![c] = events[c]
                          \o <<[type |-> "MANUAL_REVIEW_REJECTED", ref |-> t]>>]
          /\ status' = [status EXCEPT ![c] = "REJECTED"]
          /\ UNCHANGED <<ledger, outbox, agentOutbox>>
      BY <1>3 DEF Resolve, Recorded, UpdateClaim, Outcome
    <2> HIDE DEF t, c, d
    <2>3. QED
      BY <1>1, <2>1, <2>2 DEF Gains
  <1>4. QED
    BY <1>2, <1>3

-----------------------------------------------------------------------------
(* The log tells the status.                                                *)

Moving == {"VERIFICATION_DISPATCHED", "CLAIM_VERIFIED", "CLAIM_SENT_TO_MANUAL_REVIEW",
           "MANUAL_REVIEW_APPROVED", "MANUAL_REVIEW_REJECTED"}

(* The events that record a move, listed.                                   *)
LEMMA MovingEvents == DOMAIN MovesTo = Moving
  BY DEF MovesTo, Moving

(* The last moving event of the log names st.                               *)
Tells(log, st) ==
    \/ st = "DRAFT" /\ log = <<>>
    \/ \E i \in 1..Len(log) : /\ log[i].type \in DOMAIN MovesTo
                             /\ MovesTo[log[i].type] = st
                             /\ \A j \in 1..Len(log) : j > i => log[j].type \notin DOMAIN MovesTo

(* StatusMatchesLog, one claim at a time.                                   *)
LEMMA StatusTold == StatusMatchesLog <=> \A c \in Claim : Tells(events[c], status[c])
  BY DEF StatusMatchesLog, Tells, LatestIs

(* A log that ends with a move tells its target.                            *)
LEMMA TellsMove ==
    ASSUME NEW log \in Seq(Event), NEW e \in Event, e.type \in DOMAIN MovesTo
    PROVE  Tells(log \o <<e>>, MovesTo[e.type])
  <1> DEFINE new == log \o <<e>>
             n == Len(log)
  <1>1. n \in Nat /\ Len(new) = n + 1 /\ new[n + 1] = e
    BY Appended
  <1> HIDE DEF new, n
  <1>2. n + 1 \in 1..Len(new) /\ \A j \in 1..Len(new) : ~(j > n + 1)
    BY <1>1
  <1>3. QED
    BY <1>1, <1>2 DEF Tells, new

(* An event that records no move leaves what the log tells.                 *)
LEMMA TellsOther ==
    ASSUME NEW log \in Seq(Event), NEW e \in Event, e.type \notin DOMAIN MovesTo,
           NEW st, st # "DRAFT", Tells(log, st)
    PROVE  Tells(log \o <<e>>, st)
  <1> DEFINE new == log \o <<e>>
             n == Len(log)
  <1>1. /\ n \in Nat /\ Len(new) = n + 1 /\ new[n + 1] = e
        /\ \A i \in 1..n : new[i] = log[i]
    BY Appended
  <1>2. PICK i \in 1..n : /\ log[i].type \in DOMAIN MovesTo
                         /\ MovesTo[log[i].type] = st
                         /\ \A j \in 1..n : j > i => log[j].type \notin DOMAIN MovesTo
    BY DEF Tells
  <1> HIDE DEF new, n
  <1>3. /\ i \in 1..Len(new)
        /\ new[i].type \in DOMAIN MovesTo /\ MovesTo[new[i].type] = st
    BY <1>1, <1>2
  <1>4. ASSUME NEW j \in 1..Len(new), j > i PROVE new[j].type \notin DOMAIN MovesTo
    <2>1. CASE j = n + 1
      BY <1>1, <2>1
    <2>2. CASE j # n + 1
      BY <1>1, <1>2, <1>4, <2>2
    <2>3. QED
      BY <2>1, <2>2
  <1>5. QED
    BY <1>3, <1>4 DEF Tells, new

(* A claim with a verification dispatch row has left DRAFT for good.        *)
PastDraft == \A k \in Key : outbox[k].claim \in Claim => status[outbox[k].claim] # "DRAFT"

LogTellsStatus == PastDraft /\ StatusMatchesLog

(* A step that logs a move to the status it writes keeps the log telling it.*)
LEMMA MoveTold ==
    ASSUME Typed, LogTellsStatus, UNCHANGED outbox, NEW c, NEW e, Gains(c, e),
           e.type \in DOMAIN MovesTo, MovesTo[e.type] # "DRAFT",
           status' = [status EXCEPT ![c] = MovesTo[e.type]]
    PROVE  LogTellsStatus'
  <1>1. /\ c \in Claim /\ e \in Event /\ events \in [Claim -> Seq(Event)]
        /\ status \in [Claim -> ClaimStatus]
        /\ events' = [events EXCEPT ![c] = events[c] \o <<e>>]
    BY DEF Gains, Typed, TypeOK
  <1>2. Tells(events[c] \o <<e>>, MovesTo[e.type])
    BY <1>1, TellsMove
  <1>3. /\ events'[c] = events[c] \o <<e>> /\ status'[c] = MovesTo[e.type]
        /\ \A d \in Claim \ {c} : events'[d] = events[d] /\ status'[d] = status[d]
    BY <1>1
  <1>4. \A d \in Claim : Tells(events[d], status[d])
    BY StatusTold DEF LogTellsStatus
  <1>5. \A d \in Claim : Tells(events'[d], status'[d])
    BY <1>2, <1>3, <1>4
  <1>6. StatusMatchesLog'
    BY <1>5 DEF StatusMatchesLog, Tells, LatestIs
  <1>7. PastDraft'
    BY <1>3 DEF LogTellsStatus, PastDraft
  <1>8. QED
    BY <1>6, <1>7 DEF LogTellsStatus

(* Every step keeps the log and the status together.                        *)
LEMMA StepLogTellsStatus == Typed /\ LogTellsStatus /\ [Next]_vars => LogTellsStatus'
<1> SUFFICES ASSUME Typed, LogTellsStatus, [Next]_vars
             PROVE  LogTellsStatus'
  OBVIOUS
<1>1. CASE Quiet
  <2>1. StatusMatchesLog'
    BY <1>1 DEF Quiet, LogTellsStatus, StatusMatchesLog, LatestIs
  <2>2. PastDraft'
    BY <1>1 DEF Quiet, LogTellsStatus, PastDraft
  <2>3. QED
    BY <2>1, <2>2 DEF LogTellsStatus
<1>2. ASSUME NEW s \in Submit, CommitSubmit(s) PROVE LogTellsStatus'
  <2>1. PICK k \in Key, c \in Claim :
             /\ ledger[k] = None /\ ledger' = [ledger EXCEPT ![k] = c]
             /\ outbox[k].claim = None
             /\ outbox' = [outbox EXCEPT ![k] = [claim |-> c, status |-> "pending"]]
             /\ status' = [status EXCEPT ![c] = "VERIFYING"]
             /\ events' = [events EXCEPT ![c] =
                   (events[c] \o <<[type |-> "CLAIM_SUBMITTED", ref |-> k]>>)
                      \o <<[type |-> "VERIFICATION_DISPATCHED", ref |-> k]>>]
             /\ agentOutbox' = agentOutbox
    BY <1>2, SubmitEffect
  <2> DEFINE e == [type |-> "CLAIM_SUBMITTED", ref |-> k]
             f == [type |-> "VERIFICATION_DISPATCHED", ref |-> k]
             mid == events[c] \o <<e>>
  <2>2. /\ e \in Event /\ f \in Event /\ events[c] \in Seq(Event)
        /\ status \in [Claim -> ClaimStatus] /\ events \in [Claim -> Seq(Event)]
        /\ outbox \in [Key -> [claim : Claim \cup {None},
                               status : {"absent", "pending", "sent", "failed"}]]
    BY DEF Event, EventType, Typed, TypeOK
  <2>3. f.type \in DOMAIN MovesTo /\ MovesTo[f.type] = "VERIFYING"
    BY DEF MovesTo
  <2>4. /\ status' = [status EXCEPT ![c] = "VERIFYING"]
        /\ events' = [events EXCEPT ![c] = mid \o <<f>>]
        /\ outbox' = [outbox EXCEPT ![k] = [claim |-> c, status |-> "pending"]]
    BY <2>1
  <2> HIDE DEF e, f
  <2>5. mid \in Seq(Event)
    BY <2>2, Appended
  <2> HIDE DEF mid
  <2>6. Tells(mid \o <<f>>, "VERIFYING")
    BY <2>2, <2>3, <2>5, TellsMove
  <2>7. /\ events'[c] = mid \o <<f>> /\ status'[c] = "VERIFYING"
        /\ \A d \in Claim \ {c} : events'[d] = events[d] /\ status'[d] = status[d]
    BY <2>2, <2>4
  <2>8. \A d \in Claim : Tells(events[d], status[d])
    BY StatusTold DEF LogTellsStatus
  <2>9. \A d \in Claim : Tells(events'[d], status'[d])
    BY <2>6, <2>7, <2>8
  <2>10. StatusMatchesLog'
    BY <2>9 DEF StatusMatchesLog, Tells, LatestIs
  <2>11. outbox'[k].claim = c /\ \A q \in Key \ {k} : outbox'[q] = outbox[q]
    BY <2>2, <2>4
  <2>12. PastDraft'
    BY <2>7, <2>11 DEF LogTellsStatus, PastDraft
  <2>13. QED
    BY <2>10, <2>12 DEF LogTellsStatus
<1>3. ASSUME NEW h \in Callback, RecordResult(h) PROVE LogTellsStatus'
  <2> DEFINE r == callback[h].run
             c == ClaimOf(r)
             e == [type |-> "VERIFICATION_RESULT_RECEIVED", ref |-> r]
  <2>1. /\ Gains(c, e) /\ UNCHANGED <<status, outbox>>
        /\ \E k \in Key : outbox[k].claim = c
    BY <1>3, RecordEffect
  <2>2. e.type \notin DOMAIN MovesTo
    BY DEF MovesTo
  <2> HIDE DEF r, c, e
  <2>3. /\ c \in Claim /\ e \in Event /\ events \in [Claim -> Seq(Event)]
        /\ events' = [events EXCEPT ![c] = events[c] \o <<e>>]
    BY <2>1 DEF Gains, Typed, TypeOK
  <2>4. status[c] # "DRAFT"
    BY <2>1, <2>3 DEF LogTellsStatus, PastDraft
  <2>5. \A d \in Claim : Tells(events[d], status[d])
    BY StatusTold DEF LogTellsStatus
  <2>6. Tells(events[c] \o <<e>>, status[c])
    BY <2>2, <2>3, <2>4, <2>5, TellsOther
  <2>7. \A d \in Claim : Tells(events'[d], status'[d])
    BY <2>1, <2>3, <2>5, <2>6
  <2>8. StatusMatchesLog'
    BY <2>7 DEF StatusMatchesLog, Tells, LatestIs
  <2>9. PastDraft'
    BY <2>1 DEF LogTellsStatus, PastDraft
  <2>10. QED
    BY <2>8, <2>9 DEF LogTellsStatus
<1>4. ASSUME NEW h \in Callback, ApplyPass(h) PROVE LogTellsStatus'
  <2> DEFINE c == ClaimOf(callback[h].run)
             e == [type |-> "CLAIM_VERIFIED", ref |-> callback[h].run]
  <2>1. e.type \in DOMAIN MovesTo /\ MovesTo[e.type] = "VERIFIED"
    BY DEF MovesTo
  <2>2. Gains(c, e) /\ status' = [status EXCEPT ![c] = "VERIFIED"] /\ UNCHANGED outbox
    BY <1>4, PassEffect
  <2> HIDE DEF c, e
  <2>3. QED
    BY <2>1, <2>2, MoveTold
<1>5. ASSUME NEW h \in Callback, NEW t \in Task, ApplyRefer(h, t) PROVE LogTellsStatus'
  <2> DEFINE c == ClaimOf(callback[h].run)
             e == [type |-> "CLAIM_SENT_TO_MANUAL_REVIEW", ref |-> callback[h].run]
  <2>1. e.type \in DOMAIN MovesTo /\ MovesTo[e.type] = "MANUAL_REVIEW"
    BY DEF MovesTo
  <2>2. Gains(c, e) /\ status' = [status EXCEPT ![c] = "MANUAL_REVIEW"] /\ UNCHANGED outbox
    BY <1>5, ReferEffect
  <2> HIDE DEF c, e
  <2>3. QED
    BY <2>1, <2>2, MoveTold
<1>6. ASSUME NEW v \in Review, Resolve(v) PROVE LogTellsStatus'
  <2>1. PICK t \in Task, c \in Claim :
             \/ /\ Gains(c, [type |-> "MANUAL_REVIEW_APPROVED", ref |-> t])
                /\ status' = [status EXCEPT ![c] = "VERIFIED"]
                /\ UNCHANGED outbox
             \/ /\ Gains(c, [type |-> "MANUAL_REVIEW_REJECTED", ref |-> t])
                /\ status' = [status EXCEPT ![c] = "REJECTED"]
                /\ UNCHANGED outbox
    BY <1>6, ResolveEffect
  <2> DEFINE e == [type |-> "MANUAL_REVIEW_APPROVED", ref |-> t]
             f == [type |-> "MANUAL_REVIEW_REJECTED", ref |-> t]
  <2>2. /\ e.type \in DOMAIN MovesTo /\ MovesTo[e.type] = "VERIFIED"
        /\ f.type \in DOMAIN MovesTo /\ MovesTo[f.type] = "REJECTED"
    BY DEF MovesTo
  <2>3. \/ Gains(c, e) /\ status' = [status EXCEPT ![c] = "VERIFIED"] /\ UNCHANGED outbox
        \/ Gains(c, f) /\ status' = [status EXCEPT ![c] = "REJECTED"] /\ UNCHANGED outbox
    BY <2>1
  <2> HIDE DEF e, f
  <2>4. QED
    BY <2>2, <2>3, MoveTold
<1>7. QED
  BY <1>1, <1>2, <1>3, <1>4, <1>5, <1>6, StepKinds

(* However handlers interleave, the audit log tells the claim's status.     *)
THEOREM LogTells == Spec => []StatusMatchesLog
  <1>1. Init => LogTellsStatus
    BY NoneAssumption DEF Init, LogTellsStatus, PastDraft, StatusMatchesLog
  <1>2. Typed /\ LogTellsStatus /\ [Next]_vars => LogTellsStatus'
    BY StepLogTellsStatus
  <1>3. LogTellsStatus => StatusMatchesLog
    BY DEF LogTellsStatus
  <1>4. QED
    BY <1>1, <1>2, <1>3, Typing, PTL DEF Spec

-----------------------------------------------------------------------------
(* One approval in the log per queued agent run, one submission per key.    *)

Approvals == {"CLAIM_VERIFIED", "MANUAL_REVIEW_APPROVED"}
Submissions == {"CLAIM_SUBMITTED"}

(* ApprovalsLogged as a count of events about a run or a task.          *)
LEMMA ApprovalsCounted ==
    ApprovalsLogged <=>
        \A c \in Claim, a \in Run \cup Task :
            Cardinality(About(events[c], Approvals, a)) = IF agentOutbox[a] = c THEN 1 ELSE 0
  BY DEF ApprovalsLogged, Positions, About, Approvals

(* SubmissionsLogged as a count of events about a key.                    *)
LEMMA SubmissionsCounted ==
    SubmissionsLogged <=>
        \A k \in Key :
            /\ outbox[k].claim = ledger[k]
            /\ \A c \in Claim : Cardinality(About(events[c], Submissions, k))
                                  = IF ledger[k] = c THEN 1 ELSE 0
  BY DEF SubmissionsLogged, Positions, About, Submissions

(* An event of these types about a adds one to the count of its claim ...   *)
LEMMA GainOne ==
    ASSUME Typed, NEW c, NEW e, Gains(c, e), NEW types, e.type \in types
    PROVE  /\ Cardinality(About(events[c], types, e.ref)) \in Nat
           /\ Cardinality(About(events'[c], types, e.ref))
                = Cardinality(About(events[c], types, e.ref)) + 1
  <1>1. /\ c \in Claim /\ e \in Event /\ events[c] \in Seq(Event)
        /\ events'[c] = events[c] \o <<e>>
    BY DEF Gains, Typed, TypeOK
  <1>2. QED
    BY <1>1, AppendedAbout

(* ... and leaves every other count as it was.                              *)
LEMMA GainNone ==
    ASSUME Typed, NEW c, NEW e, Gains(c, e), NEW types, NEW d \in Claim, NEW a,
           ~(d = c /\ e.type \in types /\ e.ref = a)
    PROVE  Cardinality(About(events'[d], types, a)) = Cardinality(About(events[d], types, a))
  <1>1. /\ c \in Claim /\ e \in Event /\ events \in [Claim -> Seq(Event)]
        /\ events' = [events EXCEPT ![c] = events[c] \o <<e>>]
    BY DEF Gains, Typed, TypeOK
  <1>2. CASE d = c
    <2>1. events'[d] = events[d] \o <<e>> /\ events[d] \in Seq(Event)
      BY <1>1, <1>2
    <2> DEFINE n == Cardinality(About(events[d], types, a))
    <2>2. n \in Nat /\ Cardinality(About(events'[d], types, a)) = n + 0
      BY <1>1, <1>2, <2>1, AppendedAbout
    <2> HIDE DEF n
    <2>3. n + 0 = n
      BY <2>2
    <2>4. QED
      BY <2>2, <2>3 DEF n
  <1>3. CASE d # c
    BY <1>1, <1>3
  <1>4. QED
    BY <1>2, <1>3

Counted == ApprovalsLogged /\ SubmissionsLogged

(* An event that is no approval and no submission counts for nothing.       *)
LEMMA OtherEvent ==
    ASSUME Typed, Counted, NEW c, NEW e, Gains(c, e), e.type \notin Approvals,
           e.type \notin Submissions, UNCHANGED <<ledger, outbox, agentOutbox>>
    PROVE  Counted'
  <1>1. \A d \in Claim, a \in Run \cup Task :
          Cardinality(About(events'[d], Approvals, a)) = Cardinality(About(events[d], Approvals, a))
    <2> SUFFICES ASSUME NEW d \in Claim, NEW a \in Run \cup Task
                 PROVE  Cardinality(About(events'[d], Approvals, a))
                          = Cardinality(About(events[d], Approvals, a))
      OBVIOUS
    <2>1. QED
      BY GainNone
  <1>2. \A d \in Claim, k \in Key :
          Cardinality(About(events'[d], Submissions, k)) = Cardinality(About(events[d], Submissions, k))
    <2> SUFFICES ASSUME NEW d \in Claim, NEW k \in Key
                 PROVE  Cardinality(About(events'[d], Submissions, k))
                          = Cardinality(About(events[d], Submissions, k))
      OBVIOUS
    <2>1. QED
      BY GainNone
  <1>3. ApprovalsLogged'
    BY <1>1, ApprovalsCounted DEF Counted, ApprovalsLogged, Positions, About, Approvals
  <1>4. \A k \in Key :
          /\ outbox'[k].claim = ledger'[k]
          /\ \A d \in Claim : Cardinality(About(events'[d], Submissions, k))
                                = IF ledger'[k] = d THEN 1 ELSE 0
    BY <1>2, SubmissionsCounted DEF Counted
  <1>5. SubmissionsLogged'
    BY <1>4 DEF SubmissionsLogged, Positions, About, Submissions
  <1>6. QED
    BY <1>3, <1>5 DEF Counted

(* An approval under a fresh key counts once for that key.                  *)
LEMMA ApprovalEvent ==
    ASSUME Typed, Counted, NEW c, NEW e, Gains(c, e), e.type \in Approvals,
           e.ref \in Run \cup Task, agentOutbox[e.ref] = None,
           agentOutbox' = [agentOutbox EXCEPT ![e.ref] = c], UNCHANGED <<ledger, outbox>>
    PROVE  Counted'
  <1>1. c \in Claim /\ agentOutbox \in [Run \cup Task -> Claim \cup {None}] /\ None # c
    BY NoneAssumption DEF Gains, Typed, TypeOK
  <1>2. \A d \in Claim, a \in Run \cup Task :
          Cardinality(About(events[d], Approvals, a)) = IF agentOutbox[a] = d THEN 1 ELSE 0
    BY ApprovalsCounted DEF Counted
  <1>3. ASSUME NEW d \in Claim, NEW a \in Run \cup Task
        PROVE  Cardinality(About(events'[d], Approvals, a)) = IF agentOutbox'[a] = d THEN 1 ELSE 0
    <2>1. Cardinality(About(events[d], Approvals, a)) = IF agentOutbox[a] = d THEN 1 ELSE 0
      BY <1>2
    <2>2. CASE a = e.ref /\ d = c
      <3>1. agentOutbox'[a] = d /\ agentOutbox[a] # d
        BY <1>1, <2>2
      <3>2. Cardinality(About(events'[d], Approvals, a))
              = Cardinality(About(events[d], Approvals, a)) + 1
        BY <2>2, GainOne
      <3>3. QED
        BY <2>1, <3>1, <3>2
    <2>3. CASE ~(a = e.ref /\ d = c)
      <3>1. agentOutbox'[a] = d <=> agentOutbox[a] = d
        BY <1>1, <2>3, NoneAssumption
      <3>2. Cardinality(About(events'[d], Approvals, a)) = Cardinality(About(events[d], Approvals, a))
        BY <2>3, GainNone
      <3>3. QED
        BY <2>1, <3>1, <3>2
    <2>4. QED
      BY <2>2, <2>3
  <1>4. ApprovalsLogged'
    BY <1>3 DEF ApprovalsLogged, Positions, About, Approvals
  <1>5. \A d \in Claim, k \in Key :
          Cardinality(About(events'[d], Submissions, k)) = Cardinality(About(events[d], Submissions, k))
    <2> SUFFICES ASSUME NEW d \in Claim, NEW k \in Key
                 PROVE  Cardinality(About(events'[d], Submissions, k))
                          = Cardinality(About(events[d], Submissions, k))
      OBVIOUS
    <2>1. e.type \notin Submissions
      BY DEF Approvals, Submissions
    <2>2. QED
      BY <2>1, GainNone
  <1>6. \A k \in Key :
          /\ outbox'[k].claim = ledger'[k]
          /\ \A d \in Claim : Cardinality(About(events'[d], Submissions, k))
                                = IF ledger'[k] = d THEN 1 ELSE 0
    BY <1>5, SubmissionsCounted DEF Counted
  <1>7. SubmissionsLogged'
    BY <1>6 DEF SubmissionsLogged, Positions, About, Submissions
  <1>8. QED
    BY <1>4, <1>7 DEF Counted

(* A submit preserves both counts: the key it spends was never in the log.  *)
LEMMA SubmitCounted ==
    ASSUME Typed, Counted, NEW s \in Submit, CommitSubmit(s)
    PROVE  Counted'
  <1>1. PICK k \in Key, c \in Claim :
             /\ ledger[k] = None /\ ledger' = [ledger EXCEPT ![k] = c]
             /\ outbox[k].claim = None
             /\ outbox' = [outbox EXCEPT ![k] = [claim |-> c, status |-> "pending"]]
             /\ status' = [status EXCEPT ![c] = "VERIFYING"]
             /\ events' = [events EXCEPT ![c] =
                   (events[c] \o <<[type |-> "CLAIM_SUBMITTED", ref |-> k]>>)
                      \o <<[type |-> "VERIFICATION_DISPATCHED", ref |-> k]>>]
             /\ agentOutbox' = agentOutbox
    BY SubmitEffect
  <1> DEFINE e == [type |-> "CLAIM_SUBMITTED", ref |-> k]
             f == [type |-> "VERIFICATION_DISPATCHED", ref |-> k]
             mid == events[c] \o <<e>>
  <1>2. /\ e \in Event /\ f \in Event /\ events[c] \in Seq(Event)
        /\ events \in [Claim -> Seq(Event)] /\ ledger \in [Key -> Claim \cup {None}]
        /\ outbox \in [Key -> [claim : Claim \cup {None},
                               status : {"absent", "pending", "sent", "failed"}]]
    BY DEF Event, EventType, Typed, TypeOK
  <1>3. /\ e.type = "CLAIM_SUBMITTED" /\ e.ref = k /\ f.type = "VERIFICATION_DISPATCHED"
        /\ "CLAIM_SUBMITTED" \notin Approvals /\ "VERIFICATION_DISPATCHED" \notin Approvals
    BY DEF Approvals
  <1>4. events' = [events EXCEPT ![c] = mid \o <<f>>]
    BY <1>1
  <1> HIDE DEF e, f
  <1>5. mid \in Seq(Event)
    BY <1>2, Appended
  <1>6. events'[c] = mid \o <<f>> /\ \A d \in Claim \ {c} : events'[d] = events[d]
    BY <1>2, <1>4
  <1>7. ASSUME NEW types, NEW a
        PROVE  /\ Cardinality(About(events[c], types, a)) \in Nat
               /\ Cardinality(About(mid, types, a)) = Cardinality(About(events[c], types, a))
                    + (IF e.type \in types /\ e.ref = a THEN 1 ELSE 0)
    BY <1>2, AppendedAbout
  <1> HIDE DEF mid
  <1>8. ASSUME NEW types, NEW a, f.type \notin types
        PROVE  Cardinality(About(events'[c], types, a)) = Cardinality(About(mid, types, a))
    <2> DEFINE n == Cardinality(About(mid, types, a))
    <2>1. n \in Nat /\ Cardinality(About(events'[c], types, a)) = n + 0
      BY <1>2, <1>5, <1>6, <1>8, AppendedAbout
    <2> HIDE DEF n
    <2>2. n + 0 = n
      BY <2>1
    <2>3. QED
      BY <2>1, <2>2 DEF n
  <1>9. ASSUME NEW d \in Claim, NEW a
        PROVE  Cardinality(About(events'[d], Approvals, a)) = Cardinality(About(events[d], Approvals, a))
    <2>1. CASE d = c
      <3> DEFINE n == Cardinality(About(events[c], Approvals, a))
      <3>1. n \in Nat /\ Cardinality(About(mid, Approvals, a)) = n + 0
        BY <1>3, <1>7
      <3>2. Cardinality(About(events'[c], Approvals, a)) = Cardinality(About(mid, Approvals, a))
        BY <1>3, <1>8
      <3> HIDE DEF n
      <3>3. n + 0 = n
        BY <3>1
      <3>4. QED
        BY <2>1, <3>1, <3>2, <3>3 DEF n
    <2>2. CASE d # c
      BY <1>6, <2>2
    <2>3. QED
      BY <2>1, <2>2
  <1>10. \A d \in Claim, a \in Run \cup Task :
           Cardinality(About(events'[d], Approvals, a)) = IF agentOutbox'[a] = d THEN 1 ELSE 0
    <2>1. \A d \in Claim, a \in Run \cup Task :
            Cardinality(About(events[d], Approvals, a)) = IF agentOutbox[a] = d THEN 1 ELSE 0
      BY ApprovalsCounted DEF Counted
    <2> SUFFICES ASSUME NEW d \in Claim, NEW a \in Run \cup Task
                 PROVE  Cardinality(About(events'[d], Approvals, a))
                          = IF agentOutbox'[a] = d THEN 1 ELSE 0
      OBVIOUS
    <2>2. Cardinality(About(events'[d], Approvals, a)) = Cardinality(About(events[d], Approvals, a))
      BY <1>9
    <2>3. agentOutbox'[a] = agentOutbox[a]
      BY <1>1
    <2>4. QED
      BY <2>1, <2>2, <2>3
  <1>11. ApprovalsLogged'
    BY <1>10 DEF ApprovalsLogged, Positions, About, Approvals
  <1>12. \A q \in Key : /\ outbox[q].claim = ledger[q]
                        /\ \A d \in Claim : Cardinality(About(events[d], Submissions, q))
                                              = IF ledger[q] = d THEN 1 ELSE 0
    BY SubmissionsCounted DEF Counted
  <1>13. /\ ledger'[k] = c /\ outbox'[k].claim = c
         /\ \A q \in Key \ {k} : ledger'[q] = ledger[q] /\ outbox'[q].claim = outbox[q].claim
    BY <1>1, <1>2
  <1>14. ASSUME NEW q \in Key, NEW d \in Claim
         PROVE  Cardinality(About(events'[d], Submissions, q)) = IF ledger'[q] = d THEN 1 ELSE 0
    <2>1. Cardinality(About(events[d], Submissions, q)) = IF ledger[q] = d THEN 1 ELSE 0
      BY <1>12
    <2>2. CASE d = c
      <3>1. Cardinality(About(mid, Submissions, q))
              = Cardinality(About(events[d], Submissions, q)) + (IF e.ref = q THEN 1 ELSE 0)
        BY <1>3, <1>7, <2>2 DEF Submissions
      <3>2. Cardinality(About(events'[d], Submissions, q)) = Cardinality(About(mid, Submissions, q))
        BY <1>3, <1>8, <2>2 DEF Submissions
      <3>3. CASE q = k
        <4>1. ledger[q] # d /\ ledger'[q] = d
          BY <1>1, <1>13, <2>2, <3>3, NoneAssumption
        <4>2. QED
          BY <1>3, <2>1, <3>1, <3>2, <3>3, <4>1
      <3>4. CASE q # k
        BY <1>3, <1>13, <2>1, <3>1, <3>2, <3>4
      <3>5. QED
        BY <3>3, <3>4
    <2>3. CASE d # c
      <3>1. events'[d] = events[d]
        BY <1>6, <2>3
      <3>2. ledger'[q] = d <=> ledger[q] = d
        BY <1>1, <1>13, <2>3, NoneAssumption
      <3>3. QED
        BY <2>1, <3>1, <3>2
    <2>4. QED
      BY <2>2, <2>3
  <1>15. SubmissionsLogged'
    <2>1. \A q \in Key : outbox'[q].claim = ledger'[q]
      BY <1>12, <1>13
    <2>2. QED
      BY <1>14, <2>1 DEF SubmissionsLogged, Positions, About, Submissions
  <1>16. QED
    BY <1>11, <1>15 DEF Counted

(* Every step preserves both counts.                                        *)
LEMMA StepCounted == Typed /\ Counted /\ [Next]_vars => Counted'
<1> SUFFICES ASSUME Typed, Counted, [Next]_vars
             PROVE  Counted'
  OBVIOUS
<1>1. CASE Quiet
  <2>1. ApprovalsLogged'
    BY <1>1 DEF Quiet, Counted, ApprovalsLogged, Positions
  <2>2. SubmissionsLogged'
    BY <1>1 DEF Quiet, Counted, SubmissionsLogged, Positions
  <2>3. QED
    BY <2>1, <2>2 DEF Counted
<1>2. ASSUME NEW s \in Submit, CommitSubmit(s) PROVE Counted'
  BY <1>2, SubmitCounted
<1>3. ASSUME NEW h \in Callback, RecordResult(h) PROVE Counted'
  <2> DEFINE c == ClaimOf(callback[h].run)
             e == [type |-> "VERIFICATION_RESULT_RECEIVED", ref |-> callback[h].run]
  <2>1. Gains(c, e) /\ UNCHANGED <<ledger, outbox, agentOutbox>>
    BY <1>3, RecordEffect
  <2>2. e.type \notin Approvals /\ e.type \notin Submissions
    BY DEF Approvals, Submissions
  <2> HIDE DEF c, e
  <2>3. QED
    BY <2>1, <2>2, OtherEvent
<1>4. ASSUME NEW h \in Callback, ApplyPass(h) PROVE Counted'
  <2> DEFINE r == callback[h].run
             c == ClaimOf(r)
             e == [type |-> "CLAIM_VERIFIED", ref |-> r]
  <2>1. /\ r \in Run /\ Gains(c, e) /\ agentOutbox[r] = None
        /\ agentOutbox' = [agentOutbox EXCEPT ![r] = c] /\ UNCHANGED <<ledger, outbox>>
    BY <1>4, PassEffect
  <2>2. e.type \in Approvals /\ e.ref = r
    BY DEF Approvals
  <2> HIDE DEF r, c, e
  <2>3. QED
    BY <2>1, <2>2, ApprovalEvent
<1>5. ASSUME NEW h \in Callback, NEW t \in Task, ApplyRefer(h, t) PROVE Counted'
  <2> DEFINE c == ClaimOf(callback[h].run)
             e == [type |-> "CLAIM_SENT_TO_MANUAL_REVIEW", ref |-> callback[h].run]
  <2>1. Gains(c, e) /\ UNCHANGED <<ledger, outbox, agentOutbox>>
    BY <1>5, ReferEffect
  <2>2. e.type \notin Approvals /\ e.type \notin Submissions
    BY DEF Approvals, Submissions
  <2> HIDE DEF c, e
  <2>3. QED
    BY <2>1, <2>2, OtherEvent
<1>6. ASSUME NEW v \in Review, Resolve(v) PROVE Counted'
  <2>1. PICK t \in Task, c \in Claim :
             \/ /\ Gains(c, [type |-> "MANUAL_REVIEW_APPROVED", ref |-> t])
                /\ agentOutbox[t] = None
                /\ agentOutbox' = [agentOutbox EXCEPT ![t] = c]
                /\ UNCHANGED <<ledger, outbox>>
             \/ /\ Gains(c, [type |-> "MANUAL_REVIEW_REJECTED", ref |-> t])
                /\ UNCHANGED <<ledger, outbox, agentOutbox>>
    BY <1>6, ResolveEffect
  <2> DEFINE e == [type |-> "MANUAL_REVIEW_APPROVED", ref |-> t]
             f == [type |-> "MANUAL_REVIEW_REJECTED", ref |-> t]
  <2>2. /\ e.type \in Approvals /\ e.ref = t
        /\ f.type \notin Approvals /\ f.type \notin Submissions
    BY DEF Approvals, Submissions
  <2>3. \/ /\ Gains(c, e) /\ agentOutbox[t] = None
           /\ agentOutbox' = [agentOutbox EXCEPT ![t] = c] /\ UNCHANGED <<ledger, outbox>>
        \/ Gains(c, f) /\ UNCHANGED <<ledger, outbox, agentOutbox>>
    BY <2>1
  <2> HIDE DEF e, f
  <2>4. QED
    BY <2>2, <2>3, ApprovalEvent, OtherEvent
<1>7. QED
  BY <1>1, <1>2, <1>3, <1>4, <1>5, <1>6, StepKinds

(* Submissions per key and approvals per agent run are counted right in     *)
(* every state: the inductive form of the next two theorems.                *)
THEOREM Counting == Spec => []Counted
  <1>1. Init => Counted
    <2> SUFFICES ASSUME Init PROVE Counted
      OBVIOUS
    <2>1. \A types, a : \A c \in Claim : About(events[c], types, a) = {}
      BY DEF Init, About
    <2>2. \A c \in Claim : None # c
      BY NoneAssumption
    <2>3. ApprovalsLogged
      BY <2>1, <2>2, FS_EmptySet, ApprovalsCounted DEF Init
    <2>4. SubmissionsLogged
      BY <2>1, <2>2, FS_EmptySet, SubmissionsCounted DEF Init
    <2>5. QED
      BY <2>3, <2>4 DEF Counted
  <1>2. Typed /\ Counted /\ [Next]_vars => Counted'
    BY StepCounted
  <1>3. QED
    BY <1>1, <1>2, Typing, PTL DEF Spec

(* Each approval of a claim has exactly one agent run queued, and a         *)
(* VERIFIED claim has one.                                                  *)
THEOREM ApprovedOnce == Spec => []AgentRunPerApproval
  <1>1. Counted /\ Dispatched => AgentRunPerApproval
    BY DEF Counted, Dispatched, AgentRunPerApproval
  <1>2. QED
    BY <1>1, Counting, Dispatching, PTL

(* A key submits one claim, once, and a submitted claim has its dispatch.   *)
THEOREM SubmittedOnce == Spec => []OneSubmissionPerKey
  <1>1. Counted /\ Dispatched => OneSubmissionPerKey
    BY DEF Counted, Dispatched, OneSubmissionPerKey
  <1>2. QED
    BY <1>1, Counting, Dispatching, PTL

-----------------------------------------------------------------------------
(* The result precedes the move.                                            *)

Results == {"CLAIM_VERIFIED", "CLAIM_SENT_TO_MANUAL_REVIEW"}

(* A claim that gains an event keeps the events it had, at their places.    *)
LEMMA GainKeeps ==
    ASSUME Typed, NEW c, NEW e, Gains(c, e)
    PROVE  /\ \A d \in Claim : /\ Len(events[d]) \in Nat
                              /\ \A i \in 1..Len(events[d]) : events'[d][i] = events[d][i]
           /\ \A d \in Claim \ {c} : Len(events'[d]) = Len(events[d])
           /\ Len(events'[c]) = Len(events[c]) + 1
           /\ events'[c][Len(events[c]) + 1] = e
  <1>1. /\ c \in Claim /\ e \in Event /\ events \in [Claim -> Seq(Event)]
        /\ events'[c] = events[c] \o <<e>>
        /\ \A d \in Claim \ {c} : events'[d] = events[d]
    BY DEF Gains, Typed, TypeOK
  <1>2. /\ Len(events[c]) \in Nat
        /\ Len(events'[c]) = Len(events[c]) + 1
        /\ events'[c][Len(events[c]) + 1] = e
        /\ \A i \in 1..Len(events[c]) : events'[c][i] = events[c][i]
    BY <1>1, Appended
  <1>3. \A d \in Claim : Len(events[d]) \in Nat
    BY <1>1
  <1>4. QED
    BY <1>1, <1>2, <1>3

(* What the submit transaction logs.                                        *)
LEMMA SubmitLogs ==
    ASSUME Typed, NEW s \in Submit, CommitSubmit(s), NEW c \in Claim
    PROVE  /\ Len(events[c]) \in Nat /\ Len(events'[c]) \in Nat
           /\ Len(events[c]) <= Len(events'[c])
           /\ \A i \in 1..Len(events[c]) : events'[c][i] = events[c][i]
           /\ \A i \in 1..Len(events'[c]) : i > Len(events[c]) =>
                events'[c][i].type \in {"CLAIM_SUBMITTED", "VERIFICATION_DISPATCHED"}
<1>0. events[c] \in Seq(Event) /\ Len(events[c]) \in Nat
  BY DEF Typed, TypeOK
<1>1. PICK k \in Key, d \in Claim :
             events' = [events EXCEPT ![d] =
               (events[d] \o <<[type |-> "CLAIM_SUBMITTED", ref |-> k]>>)
                  \o <<[type |-> "VERIFICATION_DISPATCHED", ref |-> k]>>]
  BY SubmitEffect
<1> DEFINE e == [type |-> "CLAIM_SUBMITTED", ref |-> k]
           f == [type |-> "VERIFICATION_DISPATCHED", ref |-> k]
           mid == events[d] \o <<e>>
           n == Len(events[c])
<1>2. /\ e \in Event /\ f \in Event /\ events \in [Claim -> Seq(Event)]
      /\ e.type = "CLAIM_SUBMITTED" /\ f.type = "VERIFICATION_DISPATCHED"
  BY DEF Event, EventType, Typed, TypeOK
<1>3. events' = [events EXCEPT ![d] = mid \o <<f>>] /\ events[d] \in Seq(Event)
  BY <1>1, <1>2
<1> HIDE DEF e, f
<1>4. CASE c = d
  <2>1. /\ mid \in Seq(Event) /\ Len(mid) = n + 1 /\ mid[n + 1] = e
        /\ \A i \in 1..n : mid[i] = events[c][i]
    BY <1>2, <1>3, <1>4, Appended
  <2> HIDE DEF mid
  <2>2. events'[c] = mid \o <<f>>
    BY <1>2, <1>3, <1>4
  <2>3. /\ Len(events'[c]) = Len(mid) + 1 /\ events'[c][Len(mid) + 1] = f
        /\ \A i \in 1..Len(mid) : events'[c][i] = mid[i]
    BY <1>2, <2>1, <2>2, Appended
  <2> HIDE DEF n
  <2>4. n \in Nat
    BY <1>0 DEF n
  <2>5. /\ Len(events'[c]) = n + 2 /\ events'[c][n + 2] = f /\ events'[c][n + 1] = e
        /\ \A i \in 1..n : events'[c][i] = events[c][i]
    BY <2>1, <2>3, <2>4
  <2>6. \A i \in 1..(n + 2) : i > n => i = n + 1 \/ i = n + 2
    BY <2>4
  <2> QED
    BY <1>2, <2>4, <2>5, <2>6 DEF n
<1>5. CASE c # d
  <2>1. events'[c] = events[c]
    BY <1>2, <1>3, <1>5
  <2> QED
    BY <1>0, <2>1
<1> QED
  BY <1>4, <1>5

(* The log only grows; each step adds what StepKinds says.                  *)
LEMMA LogGrows ==
    ASSUME Typed, [Next]_vars, NEW c \in Claim
    PROVE  /\ Len(events[c]) \in Nat /\ Len(events'[c]) \in Nat
           /\ Len(events[c]) <= Len(events'[c])
           /\ \A i \in 1..Len(events[c]) : events'[c][i] = events[c][i]
           /\ \A i \in 1..Len(events'[c]) :
                i > Len(events[c]) /\ events'[c][i].type \in Results =>
                  \E h \in Callback : /\ callback[h].pc = "recorded"
                                     /\ ClaimOf(callback[h].run) = c
                                     /\ callback[h].run = events'[c][i].ref
  <1>0. events[c] \in Seq(Event) /\ Len(events[c]) \in Nat
    BY DEF Typed, TypeOK
  <1>1. CASE events'[c] = events[c]
    BY <1>0, <1>1
  <1>2. ASSUME NEW d, NEW e, Gains(d, e),
               e.type \in Results => \E h \in Callback : /\ callback[h].pc = "recorded"
                                                        /\ ClaimOf(callback[h].run) = d
                                                        /\ callback[h].run = e.ref
        PROVE  /\ Len(events'[c]) \in Nat /\ Len(events[c]) <= Len(events'[c])
               /\ \A i \in 1..Len(events[c]) : events'[c][i] = events[c][i]
               /\ \A i \in 1..Len(events'[c]) :
                    i > Len(events[c]) /\ events'[c][i].type \in Results =>
                      \E h \in Callback : /\ callback[h].pc = "recorded"
                                         /\ ClaimOf(callback[h].run) = c
                                         /\ callback[h].run = events'[c][i].ref
    <2>1. CASE c = d
      <3>1. /\ Len(events'[c]) = Len(events[c]) + 1
            /\ events'[c][Len(events[c]) + 1] = e
            /\ \A i \in 1..Len(events[c]) : events'[c][i] = events[c][i]
        BY <1>2, <2>1, GainKeeps
      <3>2. \A i \in 1..Len(events'[c]) : i > Len(events[c]) => i = Len(events[c]) + 1
        BY <1>0, <3>1
      <3>3. QED
        BY <1>0, <1>2, <2>1, <3>1, <3>2
    <2>2. CASE c # d
      BY <1>0, <1>2, <2>2, GainKeeps
    <2>3. QED
      BY <2>1, <2>2
  <1>3. CASE Quiet
    BY <1>1, <1>3 DEF Quiet
  <1>4. ASSUME NEW s \in Submit, CommitSubmit(s)
        PROVE  /\ Len(events'[c]) \in Nat /\ Len(events[c]) <= Len(events'[c])
               /\ \A i \in 1..Len(events[c]) : events'[c][i] = events[c][i]
               /\ \A i \in 1..Len(events'[c]) :
                    i > Len(events[c]) => events'[c][i].type \notin Results
    BY <1>4, SubmitLogs DEF Results
  <1>5. ASSUME NEW h \in Callback, RecordResult(h)
        PROVE  \E d, e : Gains(d, e) /\ e.type \notin Results
    <2> DEFINE d == ClaimOf(callback[h].run)
               e == [type |-> "VERIFICATION_RESULT_RECEIVED", ref |-> callback[h].run]
    <2>1. Gains(d, e)
      BY <1>5, RecordEffect
    <2>2. e.type \notin Results
      BY DEF Results
    <2> HIDE DEF d, e
    <2>3. QED
      BY <2>1, <2>2
  <1>6. ASSUME NEW h \in Callback, ApplyPass(h) \/ \E t \in Task : ApplyRefer(h, t)
        PROVE  \E d, e : /\ Gains(d, e) /\ callback[h].pc = "recorded"
                         /\ ClaimOf(callback[h].run) = d /\ callback[h].run = e.ref
    <2> DEFINE r == callback[h].run
               e == [type |-> "CLAIM_VERIFIED", ref |-> r]
               f == [type |-> "CLAIM_SENT_TO_MANUAL_REVIEW", ref |-> r]
    <2>1. /\ callback[h].pc = "recorded"
          /\ Gains(ClaimOf(r), e) \/ Gains(ClaimOf(r), f)
      BY <1>6, PassEffect, ReferEffect
    <2>2. e.ref = r /\ f.ref = r
      OBVIOUS
    <2> HIDE DEF e, f
    <2>3. QED
      BY <2>1, <2>2
  <1>7. ASSUME NEW v \in Review, Resolve(v)
        PROVE  \E d, e : Gains(d, e) /\ e.type \notin Results
    <2>1. PICK t \in Task, d \in Claim :
            \/ Gains(d, [type |-> "MANUAL_REVIEW_APPROVED", ref |-> t])
            \/ Gains(d, [type |-> "MANUAL_REVIEW_REJECTED", ref |-> t])
      BY <1>7, ResolveEffect
    <2> DEFINE e == [type |-> "MANUAL_REVIEW_APPROVED", ref |-> t]
               f == [type |-> "MANUAL_REVIEW_REJECTED", ref |-> t]
    <2>2. e.type \notin Results /\ f.type \notin Results /\ (Gains(d, e) \/ Gains(d, f))
      BY <2>1 DEF Results
    <2> HIDE DEF e, f
    <2>3. QED
      BY <2>2
  <1>8. QED
    BY <1>0, <1>2, <1>3, <1>4, <1>5, <1>6, <1>7, <1>1, StepKinds DEF Quiet

(* A completed run stays what it is, and so does the claim it verifies.     *)
LEMMA RunsStay ==
    ASSUME Typed, [Next]_vars, NEW r \in Run, run[r].phase = "completed"
    PROVE  run'[r] = run[r] /\ ClaimOf(r)' = ClaimOf(r)
  <1>1. run'[r] = run[r]
    <2> USE DEF claimsDb, handlers
    <2>1. CASE DispatchNext
      BY <2>1 DEF DispatchNext, PostVerification, CompleteRun, MarkSent, MarkFailed, Typed, TypeOK
    <2>2. ASSUME ~DispatchNext PROVE UNCHANGED run
      <3>1. SubmitNext => UNCHANGED run
        BY DEF SubmitNext, LoadForSubmit, CommitSubmit, AbandonSubmit
      <3>2. CallbackNext => UNCHANGED run
        BY DEF CallbackNext, LoadForCallback, RecordResult, ApplyPass, ApplyRefer, AbandonCallback
      <3>3. ReviewNext => UNCHANGED run
        BY DEF ReviewNext, LoadTask, LoadClaim, Resolve, AbandonReview
      <3> QED
        BY <2>2, <3>1, <3>2, <3>3 DEF Next, vars
    <2> QED
      BY <2>1, <2>2
  <1>2. run[r].key \in Key /\ outbox[run[r].key].claim \in Claim
    BY RunHasClaim DEF Typed, References, ClaimOf
  <1>3. \A k \in Key : outbox[k].claim \in Claim => outbox'[k].claim = outbox[k].claim
    <2>1. CASE \E s \in Submit : CommitSubmit(s)
      <3>1. PICK k \in Key, c \in Claim :
               /\ outbox[k].claim = None
               /\ outbox' = [outbox EXCEPT ![k] = [claim |-> c, status |-> "pending"]]
        BY <2>1, SubmitEffect
      <3>2. outbox \in [Key -> [claim : Claim \cup {None},
                               status : {"absent", "pending", "sent", "failed"}]]
        BY DEF Typed, TypeOK
      <3>3. QED
        BY <3>1, <3>2, NoneAssumption
    <2>2. CASE Quiet
      BY <2>2 DEF Quiet
    <2>3. CASE UNCHANGED outbox
      BY <2>3
    <2>4. QED
      BY <2>1, <2>2, <2>3, StepKinds, RecordEffect, PassEffect, ReferEffect, ResolveEffect
  <1>4. QED
    BY <1>1, <1>2, <1>3 DEF ClaimOf

ResultsFirst == AppliesRecorded /\ ResultBeforeMove

(* Every step keeps each result ahead of the move it causes.                *)
LEMMA StepResultsFirst == Typed /\ ResultsFirst /\ [Next]_vars => ResultsFirst'
<1> SUFFICES ASSUME Typed, ResultsFirst, [Next]_vars
             PROVE  ResultsFirst'
  OBVIOUS
<1>1. ASSUME NEW h \in Callback, callback'[h].pc = "recorded"
      PROVE  Logged(ClaimOf(callback[h].run), "VERIFICATION_RESULT_RECEIVED", callback[h].run)'
  <2>1. CASE callback'[h] = callback[h]
    <3> DEFINE r == callback[h].run
               c == ClaimOf(r)
    <3>1. /\ r \in Run /\ run[r].phase = "completed"
          /\ Logged(c, "VERIFICATION_RESULT_RECEIVED", r)
      BY <1>1, <2>1 DEF Typed, References, ResultsFirst, AppliesRecorded
    <3>2. c \in Claim /\ ClaimOf(r)' = c /\ callback'[h].run = r
      BY <2>1, <3>1, RunHasClaim, RunsStay
    <3>3. PICK i \in 1..Len(events[c]) :
                 events[c][i] = [type |-> "VERIFICATION_RESULT_RECEIVED", ref |-> r]
      BY <3>1 DEF Logged
    <3>4. i \in 1..Len(events'[c]) /\ events'[c][i] = events[c][i]
      BY <3>2, <3>3, LogGrows
    <3>5. QED
      BY <2>1, <3>2, <3>3, <3>4 DEF Logged
  <2>2. CASE RecordResult(h)
    <3> DEFINE r == callback[h].run
               c == ClaimOf(r)
               e == [type |-> "VERIFICATION_RESULT_RECEIVED", ref |-> r]
    <3>1. r \in Run /\ run[r].phase = "completed" /\ Gains(c, e) /\ c \in Claim
      BY <2>2, RecordEffect DEF RecordResult, Typed, References, Gains
    <3>2. ClaimOf(r)' = c
      <4>1. outbox' = outbox /\ run' = run /\ callback' = [callback EXCEPT ![h].pc = "recorded"]
        BY <2>2 DEF RecordResult
      <4>2. callback'[h].run = callback[h].run
        BY <4>1 DEF Typed, TypeOK
      <4>3. QED
        BY <4>1, <4>2 DEF ClaimOf
    <3>3. callback'[h].run = r
      <4>1. callback' = [callback EXCEPT ![h].pc = "recorded"]
        BY <2>2 DEF RecordResult
      <4>2. QED
        BY <4>1 DEF Typed, TypeOK
    <3>4. Len(events[c]) \in Nat /\ Len(events'[c]) = Len(events[c]) + 1
          /\ events'[c][Len(events[c]) + 1] = e
      BY <3>1, GainKeeps
    <3>5. Len(events[c]) + 1 \in 1..Len(events'[c])
      BY <3>4
    <3>6. QED
      BY <3>2, <3>3, <3>4, <3>5 DEF Logged
  <2>3. callback'[h] = callback[h] \/ RecordResult(h)
    <3> USE DEF claimsDb, handlers
    <3>1. callback \in [Callback -> [pc : {"idle", "loaded", "recorded"},
                                    run : Run \cup {None}, version : Nat]]
      BY DEF Typed, TypeOK
    <3>2. CASE SubmitNext
      BY <3>2 DEF SubmitNext, LoadForSubmit, CommitSubmit, AbandonSubmit
    <3>3. CASE DispatchNext
      BY <3>3 DEF DispatchNext, PostVerification, CompleteRun, MarkSent, MarkFailed
    <3>4. CASE CallbackNext
      <4>1. ASSUME NEW g \in Callback, NEW r \in Run, LoadForCallback(g, r)
            PROVE  callback'[h] = callback[h]
        BY <1>1, <3>1, <4>1 DEF LoadForCallback
      <4>2. ASSUME NEW g \in Callback, RecordResult(g)
            PROVE  callback'[h] = callback[h] \/ RecordResult(h)
        BY <3>1, <4>2 DEF RecordResult
      <4>3. ASSUME NEW g \in Callback,
                   ApplyPass(g) \/ AbandonCallback(g) \/ \E t \in Task : ApplyRefer(g, t)
            PROVE  callback'[h] = callback[h]
        <5>1. callback' = [callback EXCEPT ![g] = NoCallback]
          BY <4>3 DEF ApplyPass, AbandonCallback, ApplyRefer
        <5>2. QED
          BY <1>1, <3>1, <5>1 DEF NoCallback
      <4>4. QED
        BY <3>4, <4>1, <4>2, <4>3 DEF CallbackNext
    <3>5. CASE ReviewNext
      BY <3>5 DEF ReviewNext, LoadTask, LoadClaim, Resolve, AbandonReview
    <3>6. CASE UNCHANGED vars
      BY <3>6 DEF vars
    <3>7. QED
      BY <3>2, <3>3, <3>4, <3>5, <3>6 DEF Next
  <2>4. QED
    BY <2>1, <2>2, <2>3
<1>2. ASSUME NEW c \in Claim, NEW i \in 1..Len(events'[c]), events'[c][i].type \in Results
      PROVE  \E j \in 1..(i - 1) : events'[c][j] =
               [type |-> "VERIFICATION_RESULT_RECEIVED", ref |-> events'[c][i].ref]
  <2> DEFINE n == Len(events[c])
  <2>1. /\ n \in Nat /\ Len(events'[c]) \in Nat
        /\ \A m \in 1..n : events'[c][m] = events[c][m]
    BY LogGrows
  <2>2. CASE i <= n
    <3>1. i \in 1..n /\ events'[c][i] = events[c][i]
      BY <2>1, <2>2
    <3>2. PICK j \in 1..(i - 1) : events[c][j] =
             [type |-> "VERIFICATION_RESULT_RECEIVED", ref |-> events[c][i].ref]
      BY <1>2, <3>1 DEF ResultsFirst, ResultBeforeMove, Results
    <3>3. j \in 1..n
      BY <2>1, <2>2, <3>1
    <3>4. QED
      BY <2>1, <3>1, <3>2, <3>3
  <2>3. CASE i > n
    <3>1. PICK h \in Callback : /\ callback[h].pc = "recorded"
                               /\ ClaimOf(callback[h].run) = c
                               /\ callback[h].run = events'[c][i].ref
      BY <1>2, <2>3, LogGrows
    <3>2. PICK j \in 1..n : events[c][j] =
             [type |-> "VERIFICATION_RESULT_RECEIVED", ref |-> events'[c][i].ref]
      BY <3>1 DEF ResultsFirst, AppliesRecorded, Logged
    <3>3. j \in 1..(i - 1) /\ events'[c][j] = events[c][j]
      BY <2>1, <2>3
    <3>4. QED
      BY <3>2, <3>3
  <2>4. i <= n \/ i > n
    BY <2>1
  <2>5. QED
    BY <2>2, <2>3, <2>4
<1>3. AppliesRecorded'
  BY <1>1 DEF AppliesRecorded
<1>4. ResultBeforeMove'
  BY <1>2 DEF ResultBeforeMove, Results
<1>5. QED
  BY <1>3, <1>4 DEF ResultsFirst

(* A claim moves on a result only after the result is in the log.           *)
THEOREM ResultsPrecedeMoves == Spec => []ResultBeforeMove
  <1>1. Init => ResultsFirst
    BY DEF Init, NoCallback, ResultsFirst, AppliesRecorded, ResultBeforeMove
  <1>2. Typed /\ ResultsFirst /\ [Next]_vars => ResultsFirst'
    BY StepResultsFirst
  <1>3. ResultsFirst => ResultBeforeMove
    BY DEF ResultsFirst
  <1>4. QED
    BY <1>1, <1>2, <1>3, Typing, PTL DEF Spec

-----------------------------------------------------------------------------
(* Review tasks and the log.                                                *)

Resolutions == {"MANUAL_REVIEW_APPROVED", "MANUAL_REVIEW_REJECTED"}

Referrals(log) == {i \in 1..Len(log) : log[i].type = "CLAIM_SENT_TO_MANUAL_REVIEW"}

TasksOf(c) == {t \in Task : task[t].claim = c}

(* The latest resolution of task t in this log is the one the task shows.   *)
ShowsLatest(log, t, s) ==
    \E i \in About(log, Resolutions, t) :
        /\ \A j \in About(log, Resolutions, t) : j <= i
        /\ log[i].type = IF s = "approved" THEN "MANUAL_REVIEW_APPROVED"
                         ELSE "MANUAL_REVIEW_REJECTED"

(* TasksMatchLog, and no resolution of a task in another claim's log, nor   *)
(* of a task that is not there yet.                                         *)
TasksTold ==
    /\ \A t \in Task : task[t].status = "absent" <=> task[t].claim = None
    /\ \A c \in Claim : /\ IsFiniteSet(TasksOf(c))
                        /\ Cardinality(TasksOf(c)) = Cardinality(Referrals(events[c]))
    /\ \A t \in Task, c \in Claim :
         c # task[t].claim \/ task[t].status = "open" => About(events[c], Resolutions, t) = {}
    /\ \A t \in Task : task[t].status \in {"approved", "rejected"} =>
         ShowsLatest(events[task[t].claim], t, task[t].status)

LEMMA ToldMatches == Typed /\ TasksTold => TasksMatchLog
<1> SUFFICES ASSUME Typed, TasksTold PROVE TasksMatchLog
  OBVIOUS
<1>1. \A c \in Claim :
         Cardinality({t \in Task : task[t].claim = c})
           = Cardinality({i \in 1..Len(events[c]) :
                            events[c][i].type = "CLAIM_SENT_TO_MANUAL_REVIEW"})
  BY DEF TasksTold, TasksOf, Referrals
<1>2. ASSUME NEW t \in Task, task[t].status # "absent"
      PROVE  LET c == task[t].claim
                 resolutions == Positions(c, {"MANUAL_REVIEW_APPROVED", "MANUAL_REVIEW_REJECTED"}, t)
             IN  IF task[t].status = "open"
                 THEN resolutions = {}
                 ELSE \E i \in resolutions :
                        /\ \A j \in resolutions : j <= i
                        /\ events[c][i].type = IF task[t].status = "approved"
                                               THEN "MANUAL_REVIEW_APPROVED"
                                               ELSE "MANUAL_REVIEW_REJECTED"
  <2> DEFINE c == task[t].claim
  <2>1. c \in Claim /\ task[t].status \in {"open", "approved", "rejected"}
    BY <1>2 DEF Typed, TypeOK, References
  <2>2. Positions(c, {"MANUAL_REVIEW_APPROVED", "MANUAL_REVIEW_REJECTED"}, t)
          = About(events[c], Resolutions, t)
    BY DEF Positions, About, Resolutions
  <2>3. CASE task[t].status = "open"
    BY <2>1, <2>2, <2>3 DEF TasksTold
  <2>4. CASE task[t].status \in {"approved", "rejected"}
    BY <2>2, <2>4 DEF TasksTold, ShowsLatest
  <2> QED
    BY <2>1, <2>3, <2>4
<1> QED
  BY <1>1, <1>2 DEF TasksMatchLog

LEMMA InitTold == Init => TasksTold
<1> SUFFICES ASSUME Init PROVE TasksTold
  OBVIOUS
<1>1. \A c \in Claim : events[c] = <<>> /\ Len(events[c]) = 0
  BY DEF Init
<1>2. \A t \in Task : task[t].status = "absent" /\ task[t].claim = None
  BY DEF Init
<1>3. \A c \in Claim : TasksOf(c) = {} /\ Referrals(events[c]) = {}
  BY <1>1, <1>2 DEF TasksOf, Referrals
<1>4. \A t \in Task, c \in Claim : About(events[c], Resolutions, t) = {}
  BY <1>1 DEF About
<1> QED
  BY <1>2, <1>3, <1>4, FS_EmptySet DEF TasksTold

(* A step that leaves the tasks alone may log what is no referral and no    *)
(* resolution.                                                              *)
LEMMA OtherLogged ==
    ASSUME TasksTold, Typed, task' = task,
           \A c \in Claim :
             /\ Len(events'[c]) \in Nat /\ Len(events'[c]) >= Len(events[c])
             /\ \A i \in 1..Len(events[c]) : events'[c][i] = events[c][i]
             /\ \A i \in (Len(events[c]) + 1)..Len(events'[c]) :
                  events'[c][i].type \notin Resolutions \cup {"CLAIM_SENT_TO_MANUAL_REVIEW"}
    PROVE  TasksTold'
<1>0. \A c \in Claim : Len(events[c]) \in Nat
  BY DEF Typed, TypeOK
<1>1. ASSUME NEW c \in Claim PROVE Referrals(events'[c]) = Referrals(events[c])
  BY <1>0 DEF Referrals
<1>2. ASSUME NEW c \in Claim, NEW t
      PROVE  About(events'[c], Resolutions, t) = About(events[c], Resolutions, t)
  BY <1>0 DEF About
<1>3. ASSUME NEW c \in Claim, NEW t, NEW s, ShowsLatest(events[c], t, s)
      PROVE  ShowsLatest(events'[c], t, s)
  <2>1. \A i \in About(events[c], Resolutions, t) : events'[c][i] = events[c][i]
    BY DEF About
  <2> QED
    BY <1>2, <1>3, <2>1 DEF ShowsLatest
<1>4. \A t \in Task : task[t].status \in {"approved", "rejected"} => task[t].claim \in Claim
  BY DEF Typed, References
<1>5. \A c \in Claim : TasksOf(c)' = TasksOf(c)
  BY DEF TasksOf
<1> QED
  BY <1>1, <1>2, <1>3, <1>4, <1>5 DEF TasksTold

(* The two steps that touch a task log one event each, of its claim.        *)
LEMMA EventLogged ==
    ASSUME Typed, NEW c, NEW e, Gains(c, e)
    PROVE  /\ \A d \in Claim : \A t : About(events'[d], Resolutions, t)
                = About(events[d], Resolutions, t)
                    \cup (IF d = c /\ e.type \in Resolutions /\ e.ref = t
                          THEN {Len(events[c]) + 1} ELSE {})
           /\ \A d \in Claim : Referrals(events'[d])
                = Referrals(events[d])
                    \cup (IF d = c /\ e.type = "CLAIM_SENT_TO_MANUAL_REVIEW"
                          THEN {Len(events[c]) + 1} ELSE {})
           /\ \A d \in Claim : /\ IsFiniteSet(Referrals(events[d]))
                               /\ Len(events[d]) + 1 \notin Referrals(events[d])
<1>0. /\ \A d \in Claim : /\ Len(events[d]) \in Nat
                          /\ \A i \in 1..Len(events[d]) : events'[d][i] = events[d][i]
      /\ \A d \in Claim \ {c} : Len(events'[d]) = Len(events[d])
      /\ Len(events'[c]) = Len(events[c]) + 1
      /\ events'[c][Len(events[c]) + 1] = e
      /\ c \in Claim
  BY GainKeeps DEF Gains
<1>1. ASSUME NEW d \in Claim, NEW t
      PROVE  About(events'[d], Resolutions, t)
                = About(events[d], Resolutions, t)
                    \cup (IF d = c /\ e.type \in Resolutions /\ e.ref = t
                          THEN {Len(events[c]) + 1} ELSE {})
  <2>1. CASE d = c
    BY <1>0, <2>1 DEF About
  <2>2. CASE d # c
    BY <1>0, <2>2 DEF About
  <2> QED
    BY <2>1, <2>2
<1>2. ASSUME NEW d \in Claim
      PROVE  Referrals(events'[d])
                = Referrals(events[d])
                    \cup (IF d = c /\ e.type = "CLAIM_SENT_TO_MANUAL_REVIEW"
                          THEN {Len(events[c]) + 1} ELSE {})
  <2>1. CASE d = c
    BY <1>0, <2>1 DEF Referrals
  <2>2. CASE d # c
    BY <1>0, <2>2 DEF Referrals
  <2> QED
    BY <2>1, <2>2
<1>3. ASSUME NEW d \in Claim
      PROVE  IsFiniteSet(Referrals(events[d])) /\ Len(events[d]) + 1 \notin Referrals(events[d])
  <2>1. IsFiniteSet(1..Len(events[d]))
    BY <1>0, FS_Interval
  <2>2. Referrals(events[d]) \in SUBSET (1..Len(events[d]))
    BY DEF Referrals
  <2> QED
    BY <1>0, <2>1, <2>2, FS_Subset
<1> QED
  BY <1>1, <1>2, <1>3

(* A step that records a result, or applies a pass.                         *)
LEMMA OtherEventTold ==
    ASSUME Typed, TasksTold, task' = task, NEW c, NEW e, Gains(c, e),
           e.type \notin Resolutions \cup {"CLAIM_SENT_TO_MANUAL_REVIEW"}
    PROVE  TasksTold'
<1>1. /\ \A d \in Claim : /\ Len(events[d]) \in Nat
                          /\ \A i \in 1..Len(events[d]) : events'[d][i] = events[d][i]
      /\ \A d \in Claim \ {c} : Len(events'[d]) = Len(events[d])
      /\ Len(events'[c]) = Len(events[c]) + 1
      /\ events'[c][Len(events[c]) + 1] = e
      /\ c \in Claim
  BY GainKeeps DEF Gains
<1>2. \A i \in (Len(events[c]) + 1)..Len(events'[c]) : i = Len(events[c]) + 1
  BY <1>1
<1>3. \A d \in Claim \ {c} : (Len(events[d]) + 1)..Len(events'[d]) = {}
  BY <1>1
<1> QED
  BY <1>1, <1>2, <1>3, OtherLogged

(* A referral opens a task nobody has resolved.                             *)
LEMMA ReferTold ==
    ASSUME Typed, TasksTold, NEW h \in Callback, NEW t \in Task, ApplyRefer(h, t)
    PROVE  TasksTold'
<1> DEFINE c == ClaimOf(callback[h].run)
           e == [type |-> "CLAIM_SENT_TO_MANUAL_REVIEW", ref |-> callback[h].run]
           n == Len(events[c])
<1>1. /\ Gains(c, e) /\ task[t].status = "absent"
      /\ task' = [task EXCEPT ![t] = [claim |-> c, status |-> "open"]]
  BY ReferEffect DEF ApplyRefer
<1>2. e.type = "CLAIM_SENT_TO_MANUAL_REVIEW" /\ e.type \notin Resolutions
  BY DEF Resolutions
<1>3. c \in Claim
  BY <1>1 DEF Gains
<1> HIDE DEF c, e
<1>4. /\ task \in [Task -> [claim : Claim \cup {None},
                            status : {"absent", "open", "approved", "rejected"}]]
      /\ task[t].claim = None
  BY <1>1 DEF Typed, TypeOK, TasksTold
<1>5. /\ task'[t].claim = c /\ task'[t].status = "open"
      /\ \A u \in Task \ {t} : task'[u] = task[u]
  BY <1>1, <1>4
<1>0. /\ \A d \in Claim : \A u : About(events'[d], Resolutions, u)
                = About(events[d], Resolutions, u)
                    \cup (IF d = c /\ e.type \in Resolutions /\ e.ref = u
                          THEN {Len(events[c]) + 1} ELSE {})
      /\ \A d \in Claim : Referrals(events'[d])
                = Referrals(events[d])
                    \cup (IF d = c /\ e.type = "CLAIM_SENT_TO_MANUAL_REVIEW"
                          THEN {Len(events[c]) + 1} ELSE {})
      /\ \A d \in Claim : /\ IsFiniteSet(Referrals(events[d]))
                           /\ Len(events[d]) + 1 \notin Referrals(events[d])
  BY <1>1, EventLogged
<1>6. \A d \in Claim : \A u : About(events'[d], Resolutions, u) = About(events[d], Resolutions, u)
  <2> SUFFICES ASSUME NEW d \in Claim, NEW u
               PROVE  About(events'[d], Resolutions, u) = About(events[d], Resolutions, u)
    OBVIOUS
  <2>1. About(events'[d], Resolutions, u) = About(events[d], Resolutions, u) \cup {}
    BY <1>0, <1>2
  <2> QED
    BY <2>1
<1>7. /\ Referrals(events'[c]) = Referrals(events[c]) \cup {n + 1}
      /\ IsFiniteSet(Referrals(events[c])) /\ n + 1 \notin Referrals(events[c])
      /\ \A d \in Claim \ {c} : Referrals(events'[d]) = Referrals(events[d])
  BY <1>0, <1>2, <1>3
<1>8. /\ t \notin TasksOf(c)
      /\ \A d \in Claim : TasksOf(d)' = IF d = c THEN TasksOf(d) \cup {t} ELSE TasksOf(d)
  BY <1>3, <1>4, <1>5 DEF TasksOf
<1>9. ASSUME NEW d \in Claim
      PROVE  /\ IsFiniteSet(TasksOf(d))'
             /\ Cardinality(TasksOf(d))' = Cardinality(Referrals(events'[d]))
  <2>1. IsFiniteSet(TasksOf(d)) /\ Cardinality(TasksOf(d)) = Cardinality(Referrals(events[d]))
    BY DEF TasksTold
  <2>2. CASE d = c
    <3>1. /\ IsFiniteSet(TasksOf(d) \cup {t})
          /\ Cardinality(TasksOf(d) \cup {t}) = Cardinality(TasksOf(d)) + 1
      BY <1>8, <2>1, <2>2, FS_AddElement
    <3>2. Cardinality(Referrals(events[c]) \cup {n + 1}) = Cardinality(Referrals(events[c])) + 1
      BY <1>7, FS_AddElement
    <3> QED
      BY <1>7, <1>8, <2>1, <2>2, <3>1, <3>2
  <2>3. CASE d # c
    BY <1>7, <1>8, <2>1, <2>3
  <2> QED
    BY <2>2, <2>3
<1>10. ASSUME NEW u \in Task, NEW d \in Claim,
              d # task'[u].claim \/ task'[u].status = "open"
       PROVE  About(events'[d], Resolutions, u) = {}
  <2>1. CASE u = t
    BY <1>3, <1>4, <1>6, <2>1 DEF TasksTold
  <2>2. CASE u # t
    BY <1>5, <1>6, <1>10, <2>2 DEF TasksTold
  <2> QED
    BY <2>1, <2>2
<1>11. ASSUME NEW u \in Task, task'[u].status \in {"approved", "rejected"}
       PROVE  ShowsLatest(events'[task'[u].claim], u, task'[u].status)
  <2>1. u # t /\ task'[u] = task[u]
    BY <1>5, <1>11
  <2>2. task[u].claim \in Claim
    BY <1>11, <2>1 DEF Typed, References
  <2>3. ShowsLatest(events[task[u].claim], u, task[u].status)
    BY <1>11, <2>1 DEF TasksTold
  <2>4. \A i \in About(events[task[u].claim], Resolutions, u) :
          events'[task[u].claim][i] = events[task[u].claim][i]
    BY <1>1, <2>2, GainKeeps DEF About
  <2> QED
    BY <1>6, <2>1, <2>2, <2>3, <2>4 DEF ShowsLatest
<1>12. \A u \in Task : task'[u].status = "absent" <=> task'[u].claim = None
  BY <1>3, <1>5 DEF TasksTold
<1> QED
  BY <1>9, <1>10, <1>11, <1>12 DEF TasksTold

(* A resolution is its task's latest event, whoever has resolved it before. *)
LEMMA ResolveTold ==
    ASSUME Typed, TasksTold, NEW v \in Review, Resolve(v)
    PROVE  TasksTold'
<1> DEFINE t == review[v].task
           c == task[t].claim
           s == IF review[v].decision = "approve" THEN "approved" ELSE "rejected"
           e == [type |-> IF s = "approved" THEN "MANUAL_REVIEW_APPROVED"
                          ELSE "MANUAL_REVIEW_REJECTED", ref |-> t]
           n == Len(events[c])
<1>1. /\ t \in Task /\ c \in Claim /\ task[t].status # "absent"
      /\ task' = [task EXCEPT ![t].status = s]
  BY DEF Resolve, Typed, TypeOK, References
<1>2. /\ e.type \in Resolutions /\ e.ref = t /\ e \in Event
      /\ e.type # "CLAIM_SENT_TO_MANUAL_REVIEW"
      /\ e.type = IF s = "approved" THEN "MANUAL_REVIEW_APPROVED" ELSE "MANUAL_REVIEW_REJECTED"
      /\ s \in {"approved", "rejected"}
  BY <1>1 DEF Resolutions, Event, EventType
<1>3. e = [type |-> IF review[v].decision = "approve" THEN "MANUAL_REVIEW_APPROVED"
                     ELSE "MANUAL_REVIEW_REJECTED", ref |-> t]
  OBVIOUS
<1>4. events' = [events EXCEPT ![c] = events[c] \o <<e>>]
  BY <1>3 DEF Resolve, Recorded
<1> HIDE DEF e, s
<1>5. Gains(c, e)
  BY <1>1, <1>2, <1>4 DEF Gains
<1> HIDE DEF t, c
<1>6. task \in [Task -> [claim : Claim \cup {None},
                         status : {"absent", "open", "approved", "rejected"}]]
  BY DEF Typed, TypeOK
<1>7. /\ task'[t].status = s /\ task'[t].claim = c
      /\ \A u \in Task \ {t} : task'[u] = task[u]
  BY <1>1, <1>6 DEF c
<1>0. /\ \A d \in Claim : \A u : About(events'[d], Resolutions, u)
                = About(events[d], Resolutions, u)
                    \cup (IF d = c /\ e.type \in Resolutions /\ e.ref = u
                          THEN {Len(events[c]) + 1} ELSE {})
      /\ \A d \in Claim : Referrals(events'[d])
                = Referrals(events[d])
                    \cup (IF d = c /\ e.type = "CLAIM_SENT_TO_MANUAL_REVIEW"
                          THEN {Len(events[c]) + 1} ELSE {})
      /\ \A d \in Claim : /\ IsFiniteSet(Referrals(events[d]))
                           /\ Len(events[d]) + 1 \notin Referrals(events[d])
  BY <1>5, EventLogged
<1>8. /\ About(events'[c], Resolutions, t) = About(events[c], Resolutions, t) \cup {n + 1}
      /\ \A d \in Claim : \A u : d # c \/ u # t =>
           About(events'[d], Resolutions, u) = About(events[d], Resolutions, u)
      /\ \A d \in Claim : Referrals(events'[d]) = Referrals(events[d])
  <2>1. About(events'[c], Resolutions, t) = About(events[c], Resolutions, t) \cup {n + 1}
    BY <1>0, <1>1, <1>2
  <2>2. ASSUME NEW d \in Claim, NEW u, d # c \/ u # t
        PROVE  About(events'[d], Resolutions, u) = About(events[d], Resolutions, u)
    <3>1. About(events'[d], Resolutions, u) = About(events[d], Resolutions, u) \cup {}
      BY <1>0, <1>2, <2>2
    <3> QED
      BY <3>1
  <2>3. ASSUME NEW d \in Claim PROVE Referrals(events'[d]) = Referrals(events[d])
    <3>1. Referrals(events'[d]) = Referrals(events[d]) \cup {}
      BY <1>0, <1>2
    <3> QED
      BY <3>1
  <2> QED
    BY <2>1, <2>2, <2>3
<1>9. /\ n \in Nat /\ events'[c][n + 1] = e
      /\ \A d \in Claim : \A i \in 1..Len(events[d]) : events'[d][i] = events[d][i]
  BY <1>1, <1>5, GainKeeps
<1>10. \A d \in Claim : TasksOf(d)' = TasksOf(d)
  BY <1>1, <1>7 DEF TasksOf, c
<1>11. ASSUME NEW u \in Task, NEW d \in Claim,
              d # task'[u].claim \/ task'[u].status = "open"
       PROVE  About(events'[d], Resolutions, u) = {}
  <2>1. CASE u = t
    BY <1>2, <1>7, <1>8, <1>11, <2>1 DEF TasksTold, c
  <2>2. CASE u # t
    BY <1>7, <1>8, <1>11, <2>2 DEF TasksTold
  <2> QED
    BY <2>1, <2>2
<1>12. ShowsLatest(events'[c], t, s)
  <2>1. \A j \in About(events[c], Resolutions, t) : j <= n + 1
    BY <1>9 DEF About
  <2> QED
    BY <1>2, <1>8, <1>9, <2>1 DEF ShowsLatest
<1>13. ASSUME NEW u \in Task, task'[u].status \in {"approved", "rejected"}
       PROVE  ShowsLatest(events'[task'[u].claim], u, task'[u].status)
  <2>1. CASE u = t
    BY <1>7, <1>12, <2>1
  <2>2. CASE u # t
    <3>1. task'[u] = task[u] /\ task[u].claim \in Claim
      BY <1>7, <1>13, <2>2 DEF Typed, References
    <3>2. ShowsLatest(events[task[u].claim], u, task[u].status)
      BY <1>13, <3>1 DEF TasksTold
    <3>3. \A i \in About(events[task[u].claim], Resolutions, u) :
            events'[task[u].claim][i] = events[task[u].claim][i]
      BY <1>9, <3>1 DEF About
    <3> QED
      BY <1>8, <2>2, <3>1, <3>2, <3>3 DEF ShowsLatest
  <2> QED
    BY <2>1, <2>2
<1>14. \A u \in Task : task'[u].status = "absent" <=> task'[u].claim = None
  BY <1>1, <1>2, <1>7 DEF TasksTold
<1> QED
  BY <1>8, <1>10, <1>11, <1>13, <1>14 DEF TasksTold

LEMMA StepTold == Typed /\ TasksTold /\ [Next]_vars => TasksTold'
<1> SUFFICES ASSUME Typed, TasksTold, [Next]_vars PROVE TasksTold'
  OBVIOUS
<1>0. \A c \in Claim : Len(events[c]) \in Nat
  BY DEF Typed, TypeOK
<1>1. CASE UNCHANGED <<events, task>>
  BY <1>1 DEF TasksTold, TasksOf
<1>2. ASSUME NEW s \in Submit, CommitSubmit(s) PROVE TasksTold'
  <2>1. task' = task
    BY <1>2 DEF CommitSubmit
  <2>2. \A c \in Claim :
          /\ Len(events'[c]) \in Nat /\ Len(events'[c]) >= Len(events[c])
          /\ \A i \in 1..Len(events[c]) : events'[c][i] = events[c][i]
          /\ \A i \in (Len(events[c]) + 1)..Len(events'[c]) :
               events'[c][i].type \notin Resolutions \cup {"CLAIM_SENT_TO_MANUAL_REVIEW"}
    BY <1>0, <1>2, SubmitLogs DEF Resolutions
  <2> QED
    BY <2>1, <2>2, OtherLogged
<1>3. ASSUME NEW h \in Callback, RecordResult(h) \/ ApplyPass(h) PROVE TasksTold'
  <2> DEFINE r == callback[h].run
             e == [type |-> "VERIFICATION_RESULT_RECEIVED", ref |-> r]
             f == [type |-> "CLAIM_VERIFIED", ref |-> r]
  <2>1. task' = task /\ (Gains(ClaimOf(r), e) \/ Gains(ClaimOf(r), f))
    BY <1>3, RecordEffect, PassEffect DEF RecordResult, ApplyPass
  <2>2. /\ e.type \notin Resolutions \cup {"CLAIM_SENT_TO_MANUAL_REVIEW"}
        /\ f.type \notin Resolutions \cup {"CLAIM_SENT_TO_MANUAL_REVIEW"}
    BY DEF Resolutions
  <2> HIDE DEF e, f
  <2> QED
    BY <2>1, <2>2, OtherEventTold
<1>4. CASE SubmitNext
  BY <1>1, <1>2, <1>4 DEF SubmitNext, LoadForSubmit, AbandonSubmit, claimsDb
<1>5. CASE DispatchNext
  BY <1>1, <1>5 DEF DispatchNext, PostVerification, CompleteRun, MarkSent, MarkFailed, claimsDb
<1>6. CASE CallbackNext
  BY <1>1, <1>3, <1>6, ReferTold DEF CallbackNext, LoadForCallback, AbandonCallback, claimsDb
<1>7. CASE ReviewNext
  BY <1>1, <1>7, ResolveTold DEF ReviewNext, LoadTask, LoadClaim, AbandonReview, claimsDb
<1>8. CASE UNCHANGED vars
  BY <1>1, <1>8 DEF vars, claimsDb
<1> QED
  BY <1>4, <1>5, <1>6, <1>7, <1>8 DEF Next

(* TasksMatchLog: as many review tasks as referrals in the log, an open one *)
(* was never resolved, and a resolved one shows its latest resolution,      *)
(* however often it was resolved.                                           *)
THEOREM TasksTell == Spec => []TasksMatchLog
<1>1. Spec => []TasksTold
  BY Typing, InitTold, StepTold, PTL DEF Spec
<1> QED
  BY <1>1, Typing, ToldMatches, PTL

-----------------------------------------------------------------------------
(* Every move is legal unless its handler had been overtaken.               *)

(* The moves handlers are about to make: of a claim c they loaded at version*)
(* n, to the status to.                                                     *)
SubmitIntends(s, c, n, to) ==
    submit[s].pc = "loaded" /\ submit[s].claim = c /\ submit[s].version = n /\ to = "VERIFYING"

CallbackIntends(h, c, n, to) ==
    /\ callback[h].pc # "idle" /\ ClaimOf(callback[h].run) = c /\ callback[h].version = n
    /\ to \in {"VERIFIED", "MANUAL_REVIEW"}

ReviewIntends(v, c, n, to) ==
    /\ review[v].pc = "claim" /\ task[review[v].task].claim = c /\ review[v].version = n
    /\ to = Outcome(review[v].decision)

Intends(c, n, to) ==
    \/ \E s \in Submit : SubmitIntends(s, c, n, to)
    \/ \E h \in Callback : CallbackIntends(h, c, n, to)
    \/ \E v \in Review : ReviewIntends(v, c, n, to)

(* A claim nobody was overtaken on has a version at least as high as every  *)
(* handler holds, and the handlers that hold that very version would make a *)
(* legal move.                                                              *)
UpToDate ==
    \A c \in Claim \ overtaken, n \in Nat, to \in ClaimStatus :
        Intends(c, n, to) => n <= version[c] /\ (n = version[c] => LegalMove(status[c], to))

(* What a step may do to a claim's status.                                  *)
MovesLegally ==
    \A c \in Claim : status'[c] # status[c] /\ c \notin overtaken' =>
        LegalMove(status[c], status'[c])

(* Intentions are about claims' versions, and statuses.                     *)
LEMMA IntentTyped ==
    ASSUME Typed, NEW c, NEW n, NEW to, Intends(c, n, to)
    PROVE  n \in Nat /\ to \in ClaimStatus
  BY DEF Typed, TypeOK, Intends, SubmitIntends, CallbackIntends, ReviewIntends, Outcome,
         ClaimStatus

(* A task keeps the claim it was opened for.                                *)
LEMMA TasksStay ==
    ASSUME Typed, [Next]_vars, NEW t \in Task, task[t].status # "absent"
    PROVE  task'[t].claim = task[t].claim
<1> USE DEF Typed, TypeOK
<1>1. CASE UNCHANGED task
  BY <1>1
<1>2. ASSUME NEW h \in Callback, NEW u \in Task, ApplyRefer(h, u) PROVE task'[t] = task[t]
  BY <1>2 DEF ApplyRefer
<1>3. ASSUME NEW v \in Review, Resolve(v) PROVE task'[t].claim = task[t].claim
  <2> DEFINE r == IF review[v].decision = "approve" THEN "approved" ELSE "rejected"
             u == review[v].task
  <2>1. task' = [task EXCEPT ![u].status = r] /\ r \in {"approved", "rejected"}
    BY <1>3, Zenon DEF Resolve
  <2>2. u \in Task
    BY <1>3 DEF Resolve, References
  <2>3. task \in [Task -> [claim : Claim \cup {None},
                          status : {"absent", "open", "approved", "rejected"}]]
    OBVIOUS
  <2> HIDE DEF r, u, Typed, TypeOK
  <2>4. /\ [task EXCEPT ![u].status = r][u] = [claim |-> task[u].claim, status |-> r]
        /\ \A w \in Task \ {u} : [task EXCEPT ![u].status = r][w] = task[w]
    BY <2>1, <2>2, <2>3, SetStatus
  <2>5. QED
    BY <2>1, <2>4
<1>4. CASE SubmitNext
  BY <1>4, <1>1 DEF SubmitNext, LoadForSubmit, CommitSubmit, AbandonSubmit
<1>5. CASE DispatchNext
  BY <1>5, <1>1 DEF DispatchNext, PostVerification, CompleteRun, MarkSent, MarkFailed
<1>6. CASE CallbackNext
  BY <1>6, <1>1, <1>2 DEF CallbackNext, LoadForCallback, RecordResult, ApplyPass, AbandonCallback
<1>7. CASE ReviewNext
  BY <1>7, <1>1, <1>3 DEF ReviewNext, LoadTask, LoadClaim, AbandonReview
<1>8. CASE UNCHANGED vars
  BY <1>8, <1>1 DEF vars
<1>9. QED
  BY <1>4, <1>5, <1>6, <1>7, <1>8 DEF Next

(* A callback handler that goes on with its run, as it loaded it, intends   *)
(* nothing new.                                                             *)
LEMMA CallbackIntentStays ==
    ASSUME Typed, [Next]_vars, NEW h \in Callback, NEW c, NEW n, NEW to,
           callback'[h].pc # "idle" =>
             /\ callback[h].pc # "idle" /\ callback'[h].run = callback[h].run
             /\ callback'[h].version = callback[h].version,
           CallbackIntends(h, c, n, to)'
    PROVE  CallbackIntends(h, c, n, to)
<1> DEFINE r == callback[h].run
<1>1. /\ callback'[h].pc # "idle" /\ callback'[h].version = n
      /\ outbox'[run'[callback'[h].run].key].claim = c /\ to \in {"VERIFIED", "MANUAL_REVIEW"}
  BY DEF CallbackIntends, ClaimOf
<1>2. r \in Run /\ run[r].phase = "completed"
  BY <1>1 DEF Typed, References
<1>3. run'[r] = run[r] /\ outbox'[run'[r].key].claim = outbox[run[r].key].claim
  BY <1>2, RunsStay DEF ClaimOf
<1>4. QED
  BY <1>1, <1>3 DEF CallbackIntends, ClaimOf

(* And a review that keeps its claim intends nothing new.                   *)
LEMMA ReviewIntentStays ==
    ASSUME Typed, [Next]_vars, NEW v \in Review, NEW c, NEW n, NEW to,
           review'[v].pc = "claim" => review'[v] = review[v],
           ReviewIntends(v, c, n, to)'
    PROVE  ReviewIntends(v, c, n, to)
<1>1. review'[v] = review[v] /\ review[v].pc = "claim"
  BY DEF ReviewIntends
<1>2. review[v].task \in Task /\ task[review[v].task].status # "absent"
  BY <1>1 DEF Typed, References
<1>3. QED
  BY <1>1, <1>2, TasksStay DEF ReviewIntends, Outcome

(* A move that was intended, of a handler that then intends nothing more:   *)
(* legal unless the handler was overtaken, and it outdates every other      *)
(* handler of the claim.                                                    *)
LEMMA MoveUpToDate ==
    ASSUME Typed, UpToDate, NEW c \in Claim, NEW n, NEW to,
           Intends(c, n, to), UpdateClaim(c, to, n),
           \A d, m, x : Intends(d, m, x)' => Intends(d, m, x)
    PROVE  UpToDate' /\ MovesLegally
<1>1. n \in Nat /\ to \in ClaimStatus
  BY IntentTyped
<1>2. /\ status' = [status EXCEPT ![c] = to]
      /\ version' = [version EXCEPT ![c] = n + 1]
      /\ overtaken' = IF version[c] = n THEN overtaken ELSE overtaken \cup {c}
  BY DEF UpdateClaim
<1>3. status \in [Claim -> ClaimStatus] /\ version \in [Claim -> Nat]
  BY DEF Typed, TypeOK
<1>4. /\ status'[c] = to /\ version'[c] = n + 1
      /\ \A d \in Claim \ {c} : status'[d] = status[d] /\ version'[d] = version[d]
  BY <1>2, <1>3
<1>5. c \notin overtaken' => c \notin overtaken /\ version[c] = n
  BY <1>2
<1>6. \A d \in Claim : d \notin overtaken' => d \notin overtaken
  BY <1>2
<1>7. MovesLegally
  BY <1>1, <1>4, <1>5 DEF MovesLegally, UpToDate
<1>8. ASSUME NEW d \in Claim \ overtaken', NEW m \in Nat, NEW x \in ClaimStatus,
             Intends(d, m, x)'
      PROVE  m <= version'[d] /\ (m = version'[d] => LegalMove(status'[d], x))
  <2>1. Intends(d, m, x) /\ d \in Claim \ overtaken
    BY <1>6, <1>8
  <2>2. m <= version[d] /\ (m = version[d] => LegalMove(status[d], x))
    BY <2>1 DEF UpToDate
  <2>3. CASE d = c
    BY <2>2, <2>3, <1>1, <1>3, <1>4, <1>5
  <2>4. CASE d # c
    BY <2>2, <2>4, <1>4
  <2>5. QED
    BY <2>3, <2>4
<1>9. UpToDate'
  <2>1. UpToDate' <=> \A d \in Claim \ overtaken', m \in Nat, x \in ClaimStatus :
          Intends(d, m, x)' => m <= version'[d] /\ (m = version'[d] => LegalMove(status'[d], x))
    BY DEF UpToDate, LegalMove
  <2>2. QED
    BY <1>8, <2>1
<1>10. QED
  BY <1>7, <1>9

(* A step that moves no claim, whose new intentions are of claims as they   *)
(* are and legal.                                                           *)
LEMMA LoadUpToDate ==
    ASSUME Typed, UpToDate, UNCHANGED <<status, version, overtaken>>,
           \A d \in Claim, m \in Nat, x \in ClaimStatus : Intends(d, m, x)' =>
               Intends(d, m, x) \/ (m = version[d] /\ LegalMove(status[d], x))
    PROVE  UpToDate' /\ MovesLegally
<1>1. \A d \in Claim : version[d] \in Nat
  BY DEF Typed, TypeOK
<1>2. UpToDate' <=> \A d \in Claim \ overtaken', m \in Nat, x \in ClaimStatus :
        Intends(d, m, x)' => m <= version'[d] /\ (m = version'[d] => LegalMove(status'[d], x))
  BY DEF UpToDate, LegalMove
<1>3. UpToDate'
  BY <1>1, <1>2 DEF UpToDate
<1>4. QED
  BY <1>3 DEF MovesLegally

LEMMA StepUpToDate == Typed /\ UpToDate /\ [Next]_vars => UpToDate' /\ MovesLegally
<1> SUFFICES ASSUME Typed, UpToDate, [Next]_vars PROVE UpToDate' /\ MovesLegally
  OBVIOUS
<1> USE DEF NoSubmit, NoCallback, NoReview
<1>0. /\ submit \in [Submit -> [pc : {"idle", "loaded"}, key : Key \cup {None},
                              claim : Claim \cup {None}, version : Nat]]
      /\ callback \in [Callback -> [pc : {"idle", "loaded", "recorded"},
                                  run : Run \cup {None}, version : Nat]]
      /\ review \in [Review -> [pc : {"idle", "task", "claim"}, task : Task \cup {None},
                              decision : {"approve", "reject"}, version : Nat]]
  BY DEF Typed, TypeOK
<1>s. ASSUME NEW s \in Submit, NEW d, NEW m, NEW x, SubmitIntends(s, d, m, x)',
             submit'[s] = submit[s] \/ submit'[s] = NoSubmit
      PROVE  SubmitIntends(s, d, m, x)
  BY <1>s DEF SubmitIntends
<1>h. ASSUME NEW h \in Callback, NEW d, NEW m, NEW x, CallbackIntends(h, d, m, x)',
             callback'[h] = callback[h] \/ callback'[h] = NoCallback
      PROVE  CallbackIntends(h, d, m, x)
  BY <1>h, CallbackIntentStays
<1>v. ASSUME NEW v \in Review, NEW d, NEW m, NEW x, ReviewIntends(v, d, m, x)',
             review'[v] = review[v] \/ review'[v] = NoReview
      PROVE  ReviewIntends(v, d, m, x)
  BY <1>v, ReviewIntentStays
<1>n. ASSUME \A s \in Submit : submit'[s] = submit[s] \/ submit'[s] = NoSubmit,
             \A h \in Callback : callback'[h] = callback[h] \/ callback'[h] = NoCallback,
             \A v \in Review : review'[v] = review[v] \/ review'[v] = NoReview
      PROVE  \A d, m, x : Intends(d, m, x)' => Intends(d, m, x)
  BY <1>n, <1>s, <1>h, <1>v DEF Intends
<1>1. ASSUME NEW s \in Submit, NEW k \in Key, NEW c \in Claim, LoadForSubmit(s, k, c)
      PROVE  UpToDate' /\ MovesLegally
  <2>1. /\ UNCHANGED <<status, version, overtaken>> /\ callback' = callback /\ review' = review
        /\ submit'[s] = [pc |-> "loaded", key |-> k, claim |-> c, version |-> version[c]]
        /\ \A u \in Submit \ {s} : submit'[u] = submit[u]
    BY <1>0, <1>1 DEF LoadForSubmit, claimsDb
  <2>2. LegalMove(status[c], "VERIFYING")
    BY <1>1 DEF LoadForSubmit, LegalMove, canTransition, TRANSITIONS
  <2>3. ASSUME NEW d \in Claim, NEW m \in Nat, NEW x \in ClaimStatus, Intends(d, m, x)'
        PROVE  Intends(d, m, x) \/ (m = version[d] /\ LegalMove(status[d], x))
    <3>1. CASE SubmitIntends(s, d, m, x)'
      BY <3>1, <2>1, <2>2 DEF SubmitIntends
    <3>2. CASE \E u \in Submit \ {s} : SubmitIntends(u, d, m, x)'
      BY <3>2, <2>1, <1>s DEF Intends
    <3>3. CASE \E h \in Callback : CallbackIntends(h, d, m, x)'
      BY <3>3, <2>1, <1>h DEF Intends
    <3>4. CASE \E v \in Review : ReviewIntends(v, d, m, x)'
      BY <3>4, <2>1, <1>v DEF Intends
    <3>5. QED
      BY <2>3, <3>1, <3>2, <3>3, <3>4 DEF Intends
  <2>4. QED
    BY <2>1, <2>3, LoadUpToDate
<1>2. ASSUME NEW s \in Submit, CommitSubmit(s) PROVE UpToDate' /\ MovesLegally
  <2> DEFINE c == submit[s].claim
             n == submit[s].version
  <2>1. /\ submit[s].pc = "loaded" /\ UpdateClaim(c, "VERIFYING", n)
        /\ submit' = [submit EXCEPT ![s] = NoSubmit] /\ UNCHANGED <<callback, review>>
    BY <1>2 DEF CommitSubmit
  <2>2. c \in Claim
    BY <2>1 DEF Typed, References
  <2>3. Intends(c, n, "VERIFYING")
    BY <2>1 DEF Intends, SubmitIntends
  <2>4. \A d, m, x : Intends(d, m, x)' => Intends(d, m, x)
    BY <1>0, <2>1, <1>n
  <2>5. QED
    BY <2>1, <2>2, <2>3, <2>4, MoveUpToDate
<1>3. ASSUME NEW h \in Callback, NEW r \in Run, LoadForCallback(h, r)
      PROVE  UpToDate' /\ MovesLegally
  <2> DEFINE c == ClaimOf(r)
  <2>1. /\ UNCHANGED <<status, version, overtaken, run, outbox>>
        /\ submit' = submit /\ review' = review
        /\ callback'[h] = [pc |-> "loaded", run |-> r, version |-> version[c]]
        /\ \A g \in Callback \ {h} : callback'[g] = callback[g]
    BY <1>0, <1>3 DEF LoadForCallback, claimsDb
  <2>2. LegalMove(status[c], "VERIFIED") /\ LegalMove(status[c], "MANUAL_REVIEW")
    BY <1>3 DEF LoadForCallback, LegalMove, canTransition, TRANSITIONS
  <2>3. ASSUME NEW d \in Claim, NEW m \in Nat, NEW x \in ClaimStatus, Intends(d, m, x)'
        PROVE  Intends(d, m, x) \/ (m = version[d] /\ LegalMove(status[d], x))
    <3>1. CASE CallbackIntends(h, d, m, x)'
      BY <3>1, <2>1, <2>2 DEF CallbackIntends, ClaimOf
    <3>2. CASE \E g \in Callback \ {h} : CallbackIntends(g, d, m, x)'
      BY <3>2, <2>1, <1>h DEF Intends
    <3>3. CASE \E s \in Submit : SubmitIntends(s, d, m, x)'
      BY <3>3, <2>1, <1>s DEF Intends
    <3>4. CASE \E v \in Review : ReviewIntends(v, d, m, x)'
      BY <3>4, <2>1, <1>v DEF Intends
    <3>5. QED
      BY <2>3, <3>1, <3>2, <3>3, <3>4 DEF Intends
  <2>4. QED
    BY <2>1, <2>3, LoadUpToDate
<1>4. ASSUME NEW h \in Callback, RecordResult(h) PROVE UpToDate' /\ MovesLegally
  <2>1. /\ UNCHANGED <<status, version, overtaken>> /\ submit' = submit /\ review' = review
        /\ callback[h].pc = "loaded" /\ callback' = [callback EXCEPT ![h].pc = "recorded"]
    BY <1>4, Zenon DEF RecordResult
  <2>2. /\ callback'[h] = [pc |-> "recorded", run |-> callback[h].run,
                           version |-> callback[h].version]
        /\ \A g \in Callback \ {h} : callback'[g] = callback[g]
    BY <1>0, <2>1, SetPc
  <2>3. ASSUME NEW g \in Callback, NEW d, NEW m, NEW x, CallbackIntends(g, d, m, x)'
        PROVE  CallbackIntends(g, d, m, x)
    BY <2>1, <2>2, <2>3, CallbackIntentStays
  <2>4. \A d, m, x : Intends(d, m, x)' => Intends(d, m, x)
    BY <2>1, <2>3, <1>s, <1>v DEF Intends
  <2>5. QED
    BY <2>1, <2>4, LoadUpToDate
<1>5. ASSUME NEW h \in Callback, NEW to \in {"VERIFIED", "MANUAL_REVIEW"},
             callback[h].pc = "recorded",
             UpdateClaim(ClaimOf(callback[h].run), to, callback[h].version),
             callback' = [callback EXCEPT ![h] = NoCallback], UNCHANGED <<submit, review>>
      PROVE  UpToDate' /\ MovesLegally
  <2> DEFINE c == ClaimOf(callback[h].run)
             n == callback[h].version
  <2>1. c \in Claim
    BY <1>5, RunHasClaim DEF Typed, References
  <2>2. Intends(c, n, to)
    BY <1>5 DEF Intends, CallbackIntends
  <2>3. \A d, m, x : Intends(d, m, x)' => Intends(d, m, x)
    BY <1>0, <1>5, <1>n
  <2>4. QED
    BY <1>5, <2>1, <2>2, <2>3, MoveUpToDate
<1>6. ASSUME NEW h \in Callback, ApplyPass(h) PROVE UpToDate' /\ MovesLegally
  BY <1>5, <1>6 DEF ApplyPass
<1>7. ASSUME NEW h \in Callback, NEW t \in Task, ApplyRefer(h, t)
      PROVE  UpToDate' /\ MovesLegally
  BY <1>5, <1>7 DEF ApplyRefer
<1>8. ASSUME NEW v \in Review, LoadClaim(v) PROVE UpToDate' /\ MovesLegally
  <2> DEFINE c == task[review[v].task].claim
             n == version[c]
  <2>1. /\ UNCHANGED <<status, version, overtaken, task>>
        /\ submit' = submit /\ callback' = callback
        /\ review[v].pc = "task"
        /\ review' = [review EXCEPT ![v].pc = "claim", ![v].version = n]
    BY <1>8, Zenon DEF LoadClaim, claimsDb
  <2>2. LegalMove(status[c], Outcome(review[v].decision))
    BY <1>8, Zenon DEF LoadClaim, LegalMove
  <2> HIDE DEF n
  <2>3. /\ review'[v].task = review[v].task /\ review'[v].decision = review[v].decision
        /\ review'[v].version = n
        /\ \A u \in Review \ {v} : review'[u] = review[u]
    BY <1>0, <2>1
  <2>4. ASSUME NEW d \in Claim, NEW m \in Nat, NEW x \in ClaimStatus, Intends(d, m, x)'
        PROVE  Intends(d, m, x) \/ (m = version[d] /\ LegalMove(status[d], x))
    <3>1. CASE ReviewIntends(v, d, m, x)'
      BY <3>1, <2>1, <2>2, <2>3 DEF ReviewIntends, Outcome, n
    <3>2. CASE \E u \in Review \ {v} : ReviewIntends(u, d, m, x)'
      BY <3>2, <2>3, <1>v DEF Intends
    <3>3. CASE \E s \in Submit : SubmitIntends(s, d, m, x)'
      BY <3>3, <2>1, <1>s DEF Intends
    <3>4. CASE \E h \in Callback : CallbackIntends(h, d, m, x)'
      BY <3>4, <2>1, <1>h DEF Intends
    <3>5. QED
      BY <2>4, <3>1, <3>2, <3>3, <3>4 DEF Intends
  <2>5. QED
    BY <2>1, <2>4, LoadUpToDate
<1>9. ASSUME NEW v \in Review, Resolve(v) PROVE UpToDate' /\ MovesLegally
  <2> DEFINE c == task[review[v].task].claim
             n == review[v].version
             to == Outcome(review[v].decision)
  <2>1. /\ review[v].pc = "claim" /\ UpdateClaim(c, to, n)
        /\ review' = [review EXCEPT ![v] = NoReview] /\ UNCHANGED <<submit, callback>>
    BY <1>9, Zenon DEF Resolve
  <2>2. c \in Claim
    BY <2>1 DEF Typed, References
  <2>3. Intends(c, n, to)
    BY <2>1 DEF Intends, ReviewIntends
  <2>4. \A d, m, x : Intends(d, m, x)' => Intends(d, m, x)
    BY <1>0, <2>1, <1>n
  <2>5. QED
    BY <2>1, <2>2, <2>3, <2>4, MoveUpToDate
<1>10. ASSUME NEW v \in Review, NEW t \in Task, NEW d \in {"approve", "reject"},
              LoadTask(v, t, d)
       PROVE  UpToDate' /\ MovesLegally
  <2>1. /\ UNCHANGED <<status, version, overtaken, submit, callback>>
        /\ review'[v].pc = "task"
        /\ \A u \in Review \ {v} : review'[u] = review[u]
    BY <1>0, <1>10 DEF LoadTask, claimsDb
  <2>2. ASSUME NEW u \in Review, NEW c, NEW m, NEW x, ReviewIntends(u, c, m, x)'
        PROVE  ReviewIntends(u, c, m, x)
    BY <2>1, <2>2, <1>v DEF ReviewIntends
  <2>3. \A c, m, x : Intends(c, m, x)' => Intends(c, m, x)
    BY <2>1, <2>2, <1>s, <1>h DEF Intends
  <2>4. QED
    BY <2>1, <2>3, LoadUpToDate
<1>11. CASE \/ DispatchNext \/ UNCHANGED vars
            \/ \E s \in Submit : AbandonSubmit(s)
            \/ \E h \in Callback : AbandonCallback(h)
            \/ \E v \in Review : AbandonReview(v)
  <2>1. UNCHANGED <<status, version, overtaken>>
    BY <1>11 DEF DispatchNext, PostVerification, CompleteRun, MarkSent, MarkFailed, AbandonSubmit,
                 AbandonCallback, AbandonReview, vars, claimsDb
  <2>2. /\ \A s \in Submit : submit'[s] = submit[s] \/ submit'[s] = NoSubmit
        /\ \A h \in Callback : callback'[h] = callback[h] \/ callback'[h] = NoCallback
        /\ \A v \in Review : review'[v] = review[v] \/ review'[v] = NoReview
    BY <1>0, <1>11 DEF DispatchNext, PostVerification, CompleteRun, MarkSent, MarkFailed,
                 AbandonSubmit, AbandonCallback, AbandonReview, vars, handlers
  <2>3. QED
    BY <2>1, <2>2, <1>n, LoadUpToDate
<1>12. QED
  BY <1>1, <1>2, <1>3, <1>4, <1>6, <1>7, <1>8, <1>9, <1>10, <1>11
     DEF Next, SubmitNext, CallbackNext, ReviewNext

(* However many submits, results and reviews of a claim cross, its status   *)
(* moves along the graph until a handler writes a version it had not seen:  *)
(* a comparison of the version at each write is all that is missing for     *)
(* every move to be legal.                                                  *)
THEOREM LegalMoves == Spec => LegalUnlessOvertaken
<1>1. Init => UpToDate
  BY DEF Init, UpToDate, Intends, SubmitIntends, CallbackIntends, ReviewIntends,
         NoSubmit, NoCallback, NoReview
<1>2. Typed /\ UpToDate /\ [Next]_vars => UpToDate'
  BY StepUpToDate
<1>3. Typed /\ UpToDate /\ [Next]_vars => [MovesLegally]_vars
  BY StepUpToDate
<1>4. LegalUnlessOvertaken <=> [][MovesLegally]_vars
  BY PTL DEF LegalUnlessOvertaken, MovesLegally
<1>5. QED
  BY <1>1, <1>2, <1>3, <1>4, Typing, PTL DEF Spec

(* If every write compared the version its handler loaded, no claim would   *)
(* ever be overtaken, and the status would move along the graph always,     *)
(* which as the code stands it does not.                                    *)
THEOREM ComparingSuffices == Spec /\ [](overtaken = {}) => LegalTransitions
<1> DEFINE Legal == \A c \in Claim : status'[c] # status[c] => LegalMove(status[c], status'[c])
<1>1. overtaken' = {} /\ [MovesLegally]_vars => [Legal]_vars
  BY DEF MovesLegally
<1>2. LegalUnlessOvertaken <=> [][MovesLegally]_vars
  BY PTL DEF LegalUnlessOvertaken, MovesLegally
<1>3. LegalTransitions <=> [][Legal]_vars
  BY PTL DEF LegalTransitions
<1>4. (overtaken = {})' <=> overtaken' = {}
  OBVIOUS
<1>5. QED
  BY <1>1, <1>2, <1>3, <1>4, LegalMoves, PTL
=============================================================================
