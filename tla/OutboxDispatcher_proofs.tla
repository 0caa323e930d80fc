---------------------- MODULE OutboxDispatcher_proofs ----------------------
(***************************************************************************)
(* Proofs about OutboxDispatcher for any set of rows and of ticks and any  *)
(* attempt limit: its inductive invariant, the safety properties that      *)
(* follow from it, and that every step of a tick is a step of the promise  *)
(* DurableDispatch states, or none.                                        *)
(***************************************************************************)
EXTENDS OutboxDispatcher, TLAPS

USE NoRowAssumption, AttemptsAssumption, RollbacksAssumption

(* An empty outbox satisfies the invariant.                                 *)
LEMMA InitIInv == Init => IInv
  BY DEF Init, IInv, TypeOK, OneTickPerRow, TickHoldsPendingRow, AttemptsMatchStatus,
         WorkWasDone, RequestsAccounted, Idle, Status, Phase, Locked

(* A step that leaves the table and the ticks alone but for one row that no *)
(* tick holds, or one tick, is examined action by action.                   *)
LEMMA StepIInv == IInv /\ [Next]_vars => IInv'
<1> SUFFICES ASSUME IInv, [Next]_vars
             PROVE  IInv'
  OBVIOUS
<1> USE DEF IInv, TypeOK, OneTickPerRow, TickHoldsPendingRow, AttemptsMatchStatus,
            WorkWasDone, RequestsAccounted, Idle, Status, Phase, Locked
<1>1. ASSUME NEW r \in Row, Enqueue(r) PROVE IInv'
  BY <1>1 DEF Enqueue
<1>2. ASSUME NEW r \in Row, BackoffElapses(r) PROVE IInv'
  <2>1. row' = [row EXCEPT ![r] = [row[r] EXCEPT !.due = TRUE]]
    BY <1>2 DEF BackoffElapses
  <2>2. \A q \in Row : /\ row'[q].status = row[q].status
                       /\ row'[q].attempts = row[q].attempts
    BY <2>1
  <2>3. UNCHANGED <<tick, abandoned, served, rollbacks>>
    BY <1>2 DEF BackoffElapses
  <2>4. TypeOK'
    <3>1. TypeOK
      OBVIOUS
    <3> HIDE DEF IInv, OneTickPerRow, TickHoldsPendingRow, AttemptsMatchStatus,
                 WorkWasDone, RequestsAccounted
    <3>2. QED
      BY <3>1, <2>1, <2>3
  <2>5. QED
    BY <2>2, <2>3, <2>4
<1>3. ASSUME NEW r \in Row, ServeAbandoned(r) PROVE IInv'
  BY <1>3 DEF ServeAbandoned
<1>4. ASSUME NEW t \in Tick, NEW r \in Row, Claim(t, r) PROVE IInv'
  BY <1>4 DEF Claim
<1>5. ASSUME NEW t \in Tick, Serve(t) PROVE IInv'
  BY <1>5 DEF Serve
<1>6. ASSUME NEW t \in Tick, AnswerOk(t) PROVE IInv'
  BY <1>6 DEF AnswerOk
<1>7. ASSUME NEW t \in Tick, AnswerError(t) PROVE IInv'
  <2> DEFINE r == tick[t].row
  <2>1. r \in Row /\ row[r].status = "pending"
    BY <1>7 DEF AnswerError
  <2>2. /\ tick'[t].row = r /\ tick'[t].phase = "error"
        /\ \A u \in Tick \ {t} : tick'[u] = tick[u]
        /\ \A u \in Tick \ {t} : tick[u].row # r
    BY <1>7, <2>1 DEF AnswerError
  <2>3. row' = row /\ served' = served /\ rollbacks' = rollbacks
    BY <1>7 DEF AnswerError
  <2>4. /\ abandoned'[r] = IF tick[t].phase = "posting"
                           THEN abandoned[r] + 1 ELSE abandoned[r]
        /\ \A q \in Row \ {r} : abandoned'[q] = abandoned[q]
    BY <1>7, <2>1 DEF AnswerError, GivesUp
  <2>5. TypeOK'
    BY <1>7, <2>1 DEF AnswerError, GivesUp
  <2>6. tick[t].phase = "posting" => served[r] + abandoned[r] <= row[r].attempts + rollbacks[r]
    OBVIOUS
  <2>7. \A u \in Tick : tick'[u].row = tick[u].row
    BY <2>2
  <2> HIDE DEF r
  <2>8. OneTickPerRow' /\ TickHoldsPendingRow'
    BY <2>3, <2>7
  <2>9. AttemptsMatchStatus' /\ WorkWasDone'
    BY <2>1, <2>2, <2>3, <2>4
  <2>10. RequestsAccounted'
    <3>1. \A q \in Row : (Locked(q)' <=> Locked(q)) /\ (q = r => Locked(q)')
      BY <2>2, <2>7
    <3>2. /\ abandoned[r] \in Nat /\ served[r] \in Nat
          /\ row[r].attempts \in Nat /\ rollbacks[r] \in Nat
      BY <2>1
    <3>3. served[r] + abandoned[r] <= row[r].attempts + rollbacks[r] + 1
      BY <2>1
    <3>4. served'[r] + abandoned'[r] <= row'[r].attempts + rollbacks'[r] + 1
      BY <2>3, <2>4, <2>6, <3>2, <3>3
    <3>5. ASSUME NEW q \in Row \ {r}
          PROVE  /\ served'[q] + abandoned'[q]
                      <= row'[q].attempts + rollbacks'[q] + 1
                 /\ ~Locked(q)' /\ row'[q].status # "sent" =>
                      served'[q] + abandoned'[q] <= row'[q].attempts + rollbacks'[q]
      BY <2>3, <2>4, <3>1
    <3>6. ASSUME NEW u \in Tick, tick'[u].phase = "posting"
          PROVE  served'[tick'[u].row] + abandoned'[tick'[u].row]
                   <= row'[tick'[u].row].attempts + rollbacks'[tick'[u].row]
      BY <3>6, <2>2, <2>3, <2>4
    <3>7. ASSUME NEW q \in Row
          PROVE  /\ served'[q] + abandoned'[q]
                      <= row'[q].attempts + rollbacks'[q] + 1
                 /\ ~Locked(q)' /\ row'[q].status # "sent" =>
                      served'[q] + abandoned'[q] <= row'[q].attempts + rollbacks'[q]
      <4> HIDE DEF Locked, IInv
      <4>1. CASE q = r
        BY <4>1, <3>1, <3>4
      <4>2. CASE q # r
        BY <4>2, <3>5
      <4>3. QED
        BY <4>1, <4>2
    <3>8. QED
      BY <3>6, <3>7
  <2>11. QED
    BY <2>5, <2>8, <2>9, <2>10
<1>8. ASSUME NEW t \in Tick, MarkSent(t) PROVE IInv'
  BY <1>8 DEF MarkSent
<1>9. ASSUME NEW t \in Tick, Reschedule(t) PROVE IInv'
  <2> DEFINE r == tick[t].row
             attempts == row[r].attempts + 1
  <2>1. /\ r \in Row
        /\ row[r].status = "pending"
        /\ attempts \in 1..MAX_ATTEMPTS
    <3>1. tick[t].phase # "idle"
      BY <1>9 DEF Reschedule
    <3>2. r \in Row
      BY <3>1
    <3>3. row[r].status = "pending"
      BY <3>2
    <3>4. row[r].attempts \in 0..MAX_ATTEMPTS /\ row[r].attempts # MAX_ATTEMPTS
      BY <3>2, <3>3
    <3> HIDE DEF r
    <3>5. \A n \in 0..MAX_ATTEMPTS : n # MAX_ATTEMPTS => n + 1 \in 1..MAX_ATTEMPTS
      OBVIOUS
    <3>6. attempts \in 1..MAX_ATTEMPTS
      BY <3>4, <3>5
    <3>7. QED
      BY <3>2, <3>3, <3>6
  <2>2. /\ row' = [row EXCEPT ![r] =
                     [status |-> IF attempts >= MAX_ATTEMPTS THEN "failed" ELSE "pending",
                      attempts |-> attempts,
                      due |-> FALSE]]
        /\ tick' = [tick EXCEPT ![t] = Idle]
        /\ UNCHANGED <<abandoned, served, rollbacks>>
    BY <1>9 DEF Reschedule
  <2>3. /\ row'[r].attempts = attempts
        /\ row'[r].status = IF attempts = MAX_ATTEMPTS THEN "failed" ELSE "pending"
        /\ \A q \in Row \ {r} : row'[q] = row[q]
    BY <2>1, <2>2
  <2>4. /\ tick'[t] = Idle
        /\ \A u \in Tick \ {t} : tick'[u] = tick[u] /\ tick[u].row # r
    BY <2>1, <2>2
  <2> HIDE DEF r, attempts
  <2>5. TypeOK'
    <3>1. TypeOK
      OBVIOUS
    <3> HIDE DEF IInv, OneTickPerRow, TickHoldsPendingRow, AttemptsMatchStatus,
                 WorkWasDone, RequestsAccounted
    <3>2. QED
      BY <3>1, <2>1, <2>2
  <2>6. OneTickPerRow' /\ TickHoldsPendingRow'
    <3>1. OneTickPerRow'
      BY <2>4
    <3>2. TickHoldsPendingRow'
      BY <2>3, <2>4
    <3>3. QED
      BY <3>1, <3>2
  <2>7. AttemptsMatchStatus'
    BY <2>1, <2>2, <2>3
  <2>8. WorkWasDone'
    BY <2>1, <2>2, <2>3, <2>4
  <2>9. RequestsAccounted'
    <3>1. ASSUME NEW q \in Row
          PROVE  /\ served'[q] + abandoned'[q]
                      <= row'[q].attempts + rollbacks'[q] + 1
                 /\ ~Locked(q)' /\ row'[q].status # "sent" =>
                      served'[q] + abandoned'[q] <= row'[q].attempts + rollbacks'[q]
      <4>1. CASE q = r
        BY <4>1, <2>1, <2>2, <2>3 DEF attempts
      <4>2. CASE q # r
        BY <4>2, <2>1, <2>2, <2>3, <2>4 DEF r
      <4>3. QED
        BY <4>1, <4>2
    <3>2. ASSUME NEW u \in Tick, tick'[u].phase = "posting"
          PROVE  served'[tick'[u].row] + abandoned'[tick'[u].row]
                   <= row'[tick'[u].row].attempts + rollbacks'[tick'[u].row]
      BY <3>2, <2>2, <2>3, <2>4
    <3>3. QED
      BY <3>1, <3>2
  <2>10. QED
    BY <2>5, <2>6, <2>7, <2>8, <2>9
<1>10. ASSUME NEW t \in Tick, Rollback(t) PROVE IInv'
  <2> DEFINE r == tick[t].row
  <2>1. r \in Row /\ row[r].status = "pending"
    BY <1>10 DEF Rollback
  <2>2. /\ tick'[t] = Idle
        /\ \A u \in Tick \ {t} : tick'[u] = tick[u] /\ tick[u].row # r
    BY <1>10, <2>1 DEF Rollback
  <2>3. row' = row /\ served' = served
    BY <1>10 DEF Rollback
  <2>4. /\ rollbacks'[r] = rollbacks[r] + 1
        /\ \A q \in Row \ {r} : rollbacks'[q] = rollbacks[q]
    BY <1>10, <2>1 DEF Rollback
  <2>5. /\ abandoned'[r] = IF tick[t].phase = "posting"
                           THEN abandoned[r] + 1 ELSE abandoned[r]
        /\ \A q \in Row \ {r} : abandoned'[q] = abandoned[q]
    BY <1>10, <2>1 DEF Rollback, GivesUp
  <2>6. TypeOK'
    BY <1>10, <2>1 DEF Rollback, GivesUp
  <2> HIDE DEF r
  <2>7. OneTickPerRow' /\ TickHoldsPendingRow'
    <3>1. OneTickPerRow'
      BY <2>2
    <3>2. TickHoldsPendingRow'
      BY <2>2, <2>3
    <3>3. QED
      BY <3>1, <3>2
  <2>8. AttemptsMatchStatus' /\ WorkWasDone'
    BY <2>1, <2>2, <2>3, <2>5
  <2>9. RequestsAccounted'
    <3>1. ASSUME NEW q \in Row
          PROVE  /\ served'[q] + abandoned'[q]
                      <= row'[q].attempts + rollbacks'[q] + 1
                 /\ ~Locked(q)' /\ row'[q].status # "sent" =>
                      served'[q] + abandoned'[q] <= row'[q].attempts + rollbacks'[q]
      <4>1. CASE q = r
        BY <4>1, <2>1, <2>3, <2>4, <2>5 DEF r
      <4>2. CASE q # r
        <5>1. Locked(q)' <=> Locked(q)
          BY <4>2, <2>2 DEF r
        <5>2. /\ row'[q] = row[q] /\ served'[q] = served[q]
              /\ rollbacks'[q] = rollbacks[q] /\ abandoned'[q] = abandoned[q]
          BY <4>2, <2>3, <2>4, <2>5
        <5>3. QED
          BY <5>1, <5>2
      <4>3. QED
        BY <4>1, <4>2
    <3>2. ASSUME NEW u \in Tick, tick'[u].phase = "posting"
          PROVE  served'[tick'[u].row] + abandoned'[tick'[u].row]
                   <= row'[tick'[u].row].attempts + rollbacks'[tick'[u].row]
      BY <3>2, <2>2, <2>3, <2>4, <2>5
    <3>3. QED
      BY <3>1, <3>2
  <2>10. QED
    BY <2>6, <2>7, <2>8, <2>9
<1>11. CASE UNCHANGED vars
  BY <1>11 DEF vars
<1>12. QED
  BY <1>1, <1>2, <1>3, <1>4, <1>5, <1>6, <1>7, <1>8, <1>9, <1>10, <1>11
     DEF Next, Call, Commit

(* The inductive invariant holds in every state.                            *)
THEOREM Invariance == Spec => []IInv
<1>1. QED
  BY InitIInv, StepIInv, PTL DEF Spec

(* Types, for every number of rows, ticks, attempts and rollbacks.          *)
THEOREM TypeCorrect == Spec => []TypeOK
<1>1. IInv => TypeOK
  BY DEF IInv
<1>2. QED
  BY <1>1, Invariance, PTL

(* A row is claimed by one worker at a time (verification-dispatcher.ts:    *)
(* 11-17), however many ticks overlap.                                      *)
THEOREM RowLock == Spec => []OneTickPerRow
<1>1. IInv => OneTickPerRow
  BY DEF IInv
<1>2. QED
  BY <1>1, Invariance, PTL

(* A row is given up exactly when its MAX_ATTEMPTS attempts have failed.    *)
THEOREM Exhaustion == Spec => []FailedIffExhausted
<1>1. IInv => FailedIffExhausted
  BY DEF IInv, AttemptsMatchStatus, FailedIffExhausted
<1>2. QED
  BY <1>1, Invariance, PTL

(* The remote service serves a row at most once more than the row's failed  *)
(* attempts and rolled-back ticks explain, the requests included that it    *)
(* serves after their caller gave up on them.                               *)
THEOREM BoundedDuplicates == Spec => []DuplicatesAccounted
<1>1. IInv => DuplicatesAccounted
  <2> SUFFICES ASSUME IInv, NEW r \in Row
               PROVE  served[r] <= row[r].attempts + rollbacks[r] + 1
    BY DEF DuplicatesAccounted
  <2>1. /\ served[r] \in Nat /\ abandoned[r] \in Nat
        /\ row[r].attempts \in Nat /\ rollbacks[r] \in Nat
    BY DEF IInv, TypeOK
  <2>2. served[r] + abandoned[r] <= row[r].attempts + rollbacks[r] + 1
    BY DEF IInv, RequestsAccounted
  <2>3. QED
    BY <2>1, <2>2
<1>2. QED
  BY <1>1, Invariance, PTL

-----------------------------------------------------------------------------
(* Under the mapping of Outbox, a step of the dispatcher is a step of       *)
(* DurableDispatch or changes nothing it speaks of.                         *)
LEMMA StepSimulation == IInv /\ [Next]_vars => [Outbox!DispatchNext]_(Outbox!dispatchVars)
<1> SUFFICES ASSUME IInv, [Next]_vars
             PROVE  [Outbox!DispatchNext]_(Outbox!dispatchVars)
  OBVIOUS
<1> DEFINE state == [r \in Row |-> row[r].status]
           done  == {r \in Row : served[r] > 0}
<1> USE DEF IInv, TypeOK, Idle, Phase, Status
<1>1. ASSUME NEW r \in Row, Enqueue(r) PROVE Outbox!Queue(r)
  BY <1>1 DEF Enqueue, Outbox!Queue
<1>2. ASSUME NEW r \in Row, BackoffElapses(r) PROVE UNCHANGED <<state, done>>
  BY <1>2 DEF BackoffElapses
<1>3. ASSUME NEW r \in Row, ServeAbandoned(r) PROVE Outbox!Work(r)
  BY <1>3 DEF ServeAbandoned, Outbox!Work, AttemptsMatchStatus
<1>4. ASSUME NEW t \in Tick, NEW r \in Row, Claim(t, r) PROVE UNCHANGED <<state, done>>
  BY <1>4 DEF Claim
<1>5. ASSUME NEW t \in Tick, Serve(t) PROVE \E r \in Row : Outbox!Work(r)
  <2>1. tick[t].row \in Row /\ row[tick[t].row].status = "pending"
    BY <1>5 DEF Serve, TickHoldsPendingRow
  <2>2. Outbox!Work(tick[t].row)
    BY <1>5, <2>1 DEF Serve, Outbox!Work
  <2>3. QED
    BY <2>1, <2>2 DEF Outbox!Work
<1>6. ASSUME NEW t \in Tick, AnswerOk(t) \/ AnswerError(t) PROVE UNCHANGED <<state, done>>
  BY <1>6 DEF AnswerOk, AnswerError
<1>7. ASSUME NEW t \in Tick, MarkSent(t) PROVE \E r \in Row : Outbox!Settle(r)
  <2>1. /\ tick[t].row \in Row
        /\ row[tick[t].row].status = "pending"
        /\ served[tick[t].row] > 0
    BY <1>7 DEF MarkSent, TickHoldsPendingRow, WorkWasDone
  <2>2. Outbox!Deliver(tick[t].row)
    BY <1>7, <2>1 DEF MarkSent, Outbox!Deliver
  <2>3. QED
    BY <2>1, <2>2 DEF Outbox!Settle, Outbox!Deliver
<1>8. ASSUME NEW t \in Tick, Reschedule(t)
      PROVE  \/ \E r \in Row : Outbox!Settle(r)
             \/ UNCHANGED <<state, done>>
  <2> DEFINE r == tick[t].row
  <2>1. r \in Row /\ row[r].status = "pending"
    BY <1>8 DEF Reschedule, TickHoldsPendingRow
  <2>2. CASE row[r].attempts + 1 >= MAX_ATTEMPTS
    <3>1. Outbox!GiveUp(r)
      BY <1>8, <2>1, <2>2 DEF Reschedule, Outbox!GiveUp
    <3>2. \E q \in Row : Outbox!Settle(q)
      BY <2>1, <3>1 DEF Outbox!Settle, Outbox!GiveUp
    <3>3. QED
      BY <3>2
  <2>3. CASE ~(row[r].attempts + 1 >= MAX_ATTEMPTS)
    BY <1>8, <2>1, <2>3 DEF Reschedule
  <2>4. QED
    BY <2>2, <2>3
<1>9. ASSUME NEW t \in Tick, Rollback(t) PROVE UNCHANGED <<state, done>>
  BY <1>9 DEF Rollback
<1>10. CASE UNCHANGED vars
  BY <1>10 DEF vars, Outbox!dispatchVars
<1>11. QED
  BY <1>1, <1>2, <1>3, <1>4, <1>5, <1>6, <1>7, <1>8, <1>9, <1>10
     DEF Next, Call, Commit, Outbox!DispatchNext, Outbox!dispatchVars

(* The dispatcher keeps the safety half of the outbox promise: queued stays *)
(* queued until settled, sent only after the work was done, settled for     *)
(* good.                                                                    *)
THEOREM Refinement == Spec => Outbox!DispatchSafety
<1>1. Init => Outbox!DispatchInit
  BY DEF Init, Outbox!DispatchInit
<1>2. QED
  BY <1>1, StepSimulation, Invariance, PTL DEF Spec, Outbox!DispatchSafety
=============================================================================
