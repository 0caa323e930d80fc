------------------------ MODULE ConnectionPool_proofs ------------------------
(***************************************************************************)
(* Proofs about ConnectionPool for any claims, ticks and connections: the  *)
(* safety its liveness rests on.  The queue for a connection lists exactly *)
(* those who wait for one, each once, so that a connection given back goes *)
(* to somebody who can use it; ticks hold at most the pool and never two   *)
(* the same row; and a row marked sent has moved its claim, or lost a      *)
(* callback, or has one in that queue.                                     *)
(***************************************************************************)
EXTENDS ConnectionPool, SequenceTheorems, FiniteSetTheorems, TLAPS

USE PoolAssumption, BoundsAssumption, NamesAssumption

-----------------------------------------------------------------------------
(* Queues.                                                                  *)

(* The queue q lists the members of W, each once.                           *)
Lists(q, W) ==
    /\ \A i \in 1..Len(q) : q[i] \in W
    /\ \A w \in W : \E i \in 1..Len(q) : q[i] = w
    /\ \A i, j \in 1..Len(q) : q[i] = q[j] => i = j

(* Somebody new goes to the end of a queue.                                 *)
LEMMA Joins ==
    ASSUME NEW S, NEW q \in Seq(S), NEW W, NEW w \in S, w \notin W, Lists(q, W)
    PROVE  Append(q, w) \in Seq(S) /\ Lists(Append(q, w), W \cup {w})
<1> DEFINE p == Append(q, w)
<1>1. /\ p \in Seq(S) /\ Len(p) = Len(q) + 1 /\ Len(q) \in Nat
      /\ p[Len(q) + 1] = w /\ \A i \in 1..Len(q) : p[i] = q[i]
  BY AppendProperties
<1>2. \A i \in 1..Len(p) : i \in 1..Len(q) \/ i = Len(q) + 1
  BY <1>1
<1>3. 1..Len(q) \subseteq 1..Len(p) /\ Len(q) + 1 \in 1..Len(p)
  BY <1>1
<1> HIDE DEF p
<1>4. \A i \in 1..Len(p) : p[i] \in W \cup {w}
  BY <1>1, <1>2 DEF Lists
<1>5. \A v \in W \cup {w} : \E i \in 1..Len(p) : p[i] = v
  BY <1>1, <1>3 DEF Lists
<1>6. \A i, j \in 1..Len(p) : p[i] = p[j] => i = j
  BY <1>1, <1>2 DEF Lists
<1> QED
  BY <1>1, <1>4, <1>5, <1>6 DEF Lists, p

(* The first of a queue leaves it.                                          *)
LEMMA Leaves ==
    ASSUME NEW S, NEW q \in Seq(S), NEW W, q # <<>>, Lists(q, W)
    PROVE  /\ Head(q) \in W /\ Tail(q) \in Seq(S)
           /\ Lists(Tail(q), W \ {Head(q)})
<1> DEFINE p == Tail(q)
<1>1. /\ p \in Seq(S) /\ Len(p) = Len(q) - 1 /\ Len(q) \in Nat \ {0}
      /\ Head(q) = q[1] /\ \A i \in 1..Len(p) : p[i] = q[i + 1]
  BY HeadTailProperties, LenProperties, EmptySeq
<1>2. \A i \in 1..Len(p) : i + 1 \in 1..Len(q) /\ i + 1 # 1
  BY <1>1
<1>3. \A i \in 1..Len(q) : i = 1 \/ (i - 1 \in 1..Len(p) /\ (i - 1) + 1 = i)
  BY <1>1
<1>4. 1 \in 1..Len(q)
  BY <1>1
<1> HIDE DEF p
<1>5. \A i \in 1..Len(p) : p[i] \in W \ {Head(q)}
  BY <1>1, <1>2, <1>4 DEF Lists
<1>6. ASSUME NEW w \in W \ {Head(q)} PROVE \E i \in 1..Len(p) : p[i] = w
  <2>1. PICK i \in 1..Len(q) : q[i] = w
    BY DEF Lists
  <2>2. i - 1 \in 1..Len(p) /\ p[i - 1] = w
    BY <1>1, <1>3, <2>1
  <2> QED
    BY <2>2
<1>7. ASSUME NEW i \in 1..Len(p), NEW j \in 1..Len(p), p[i] = p[j] PROVE i = j
  <2>1. q[i + 1] = q[j + 1] /\ i + 1 \in 1..Len(q) /\ j + 1 \in 1..Len(q)
    BY <1>1, <1>2, <1>7
  <2>2. i + 1 = j + 1
    BY <2>1 DEF Lists
  <2> QED
    BY <1>1, <2>2
<1> QED
  BY <1>1, <1>4, <1>5, <1>6, <1>7 DEF Lists, p

(* And the first goes to the end.                                           *)
LEMMA Requeues ==
    ASSUME NEW S, NEW q \in Seq(S), NEW W \in SUBSET S, q # <<>>, Lists(q, W)
    PROVE  /\ Append(Tail(q), Head(q)) \in Seq(S)
           /\ Lists(Append(Tail(q), Head(q)), W)
<1>1. /\ Head(q) \in W /\ Tail(q) \in Seq(S) /\ Lists(Tail(q), W \ {Head(q)})
  BY Leaves
<1>2. (W \ {Head(q)}) \cup {Head(q)} = W
  BY <1>1
<1>3. Lists(Append(Tail(q), Head(q)), (W \ {Head(q)}) \cup {Head(q)})
      /\ Append(Tail(q), Head(q)) \in Seq(S)
  BY <1>1, Joins
<1> QED
  BY <1>2, <1>3

-----------------------------------------------------------------------------
(* The inductive invariant.                                                 *)

TickType ==
    [at : {"idle", "waiting", "open", "calling", "ok", "error"},
     row : Claim \cup {None}, run : Run \cup {None}]

(* Callbacks with a database call to make.                                  *)
Open(r) == callback[r] \in {"load", "record", "apply"}

Waiters == {t \in Tick : tick[t].at = "waiting"} \cup {r \in Run : Open(r)}

(* Who waits for a connection is in the queue once, and nobody else is.     *)
NobodyForgotten == Lists(waiting, Waiters)

(* Ticks hold at most the pool's connections.                               *)
WithinPool == IsFiniteSet(Holding) /\ Cardinality(Holding) <= PoolSize

(* A row that is held is pending and held by one tick; one that has not     *)
(* failed has an attempt left.                                              *)
RowsHeld ==
    /\ \A t \in Holding : tick[t].row \in Claim /\ row[tick[t].row].status = "pending"
    /\ \A t, u \in Holding : tick[t].row = tick[u].row => t = u
    /\ \A c \in Claim : row[c].status # "failed" => row[c].attempts < MAX_ATTEMPTS

(* A tick knows the run its call made, for its row.                         *)
CallsRun ==
    \A t \in Tick :
        /\ tick[t].at \in {"idle", "waiting", "open"} => tick[t].run = None
        /\ tick[t].at \in {"calling", "ok"} =>
             tick[t].run \in Run /\ tick[t].run[1] = tick[t].row /\ callback[tick[t].run] # "none"

(* Runs are numbered in the order they are made.                            *)
RunsNumbered == \A r \in Run : callback[r] = "none" <=> r[2] > runs[r[1]]

(* A shutdown has come and its process has exited.                          *)
Exits == IF process = "up" THEN stops ELSE stops - 1

(* A call was answered or is under way, and has made its run or failed.     *)
Busy(c) ==
    \/ row[c].status = "sent"
    \/ \E t \in Holding : tick[t].row = c /\ (tick[t].run # None \/ tick[t].at = "error")

(* A claim has a run, made or still to be made by a request nobody waits    *)
(* for, per attempt used up, per rolled-back transaction, and for the call  *)
(* that is under way or was answered.                                       *)
RunsCounted ==
    /\ process = "stopping" => stops > 0
    /\ \A c \in Claim : /\ runs[c] + abandoned[c] <= row[c].attempts + Exits + 1
                        /\ ~Busy(c) => runs[c] + abandoned[c] <= row[c].attempts + Exits

(* A callback that ended has moved its claim, met a claim that had moved,   *)
(* or was lost; and a row is sent only after a run.                         *)
ResultsKept ==
    /\ \A r \in Run : callback[r] = "ended" => r[1] \in moved \cup lost
    /\ \A c \in Claim : row[c].status = "sent" => \E r \in Run : r[1] = c /\ callback[r] # "none"

IInv ==
    /\ TypeOK /\ NobodyForgotten /\ WithinPool /\ RowsHeld
    /\ CallsRun /\ RunsNumbered /\ RunsCounted /\ ResultsKept

(* Every row is pending and nothing is under way.                           *)
LEMMA InitInv == Init => IInv
<1> SUFFICES ASSUME Init PROVE IInv
  OBVIOUS
<1> USE DEF Init, Idle
<1>1. TypeOK
  BY DEF TypeOK, Run
<1>2. Waiters = {} /\ Holding = {}
  BY DEF Waiters, Open, Holding
<1>3. NobodyForgotten
  BY <1>2 DEF NobodyForgotten, Lists
<1>4. WithinPool
  BY <1>2, FS_EmptySet DEF WithinPool
<1>5. RowsHeld /\ CallsRun
  BY <1>2 DEF RowsHeld, CallsRun
<1>6. RunsNumbered
  BY DEF RunsNumbered, Run
<1>7. RunsCounted
  BY <1>2 DEF RunsCounted, Exits, Busy
<1>8. ResultsKept
  BY DEF ResultsKept
<1> QED
  BY <1>1, <1>3, <1>4, <1>5, <1>6, <1>7, <1>8 DEF IInv

(* What one tick turns into.                                                *)
Turns(t, k) == tick' = [tick EXCEPT ![t] = k]

LEMMA Turned ==
    ASSUME TypeOK, NEW t \in Tick, NEW k \in TickType, Turns(t, k)
    PROVE  /\ tick' \in [Tick -> TickType] /\ tick'[t] = k
           /\ \A u \in Tick \ {t} : tick'[u] = tick[u]
  BY DEF TypeOK, TickType, Turns

LEMMA TickTurns ==
    ASSUME TypeOK, NEW t \in Tick
    PROVE  /\ Fire(t) => Turns(t, [at |-> "waiting", row |-> None, run |-> None])
           /\ Return(t) => Turns(t, [at |-> "ok", row |-> tick[t].row, run |-> tick[t].run])
           /\ Fail(t) => Turns(t, [at |-> "error", row |-> tick[t].row, run |-> tick[t].run])
<1>1. tick[t] \in TickType /\ tick \in [Tick -> TickType]
  BY DEF TypeOK, TickType
<1>2. ASSUME NEW a
      PROVE  [tick[t] EXCEPT !.at = a] = [at |-> a, row |-> tick[t].row, run |-> tick[t].run]
  BY <1>1 DEF TickType
<1>3. ASSUME NEW a
      PROVE  [tick EXCEPT ![t].at = a]
               = [tick EXCEPT ![t] = [at |-> a, row |-> tick[t].row, run |-> tick[t].run]]
  BY <1>1, <1>2
<1>4. ASSUME Fire(t) PROVE Turns(t, [at |-> "waiting", row |-> None, run |-> None])
  <2>1. tick[t] = Idle /\ tick' = [tick EXCEPT ![t].at = "waiting"]
    BY <1>4, Zenon DEF Fire
  <2>2. tick[t].row = None /\ tick[t].run = None
    BY <2>1 DEF Idle
  <2> QED
    BY <1>3, <2>1, <2>2 DEF Turns
<1>5. Return(t) => Turns(t, [at |-> "ok", row |-> tick[t].row, run |-> tick[t].run])
  BY <1>3 DEF Return, Answer, GiveUp, Turns
<1>6. Fail(t) => Turns(t, [at |-> "error", row |-> tick[t].row, run |-> tick[t].run])
  BY <1>3 DEF Fail, Turns
<1> QED
  BY <1>4, <1>5, <1>6

(* Fewer ticks hold a connection, or the same.                              *)
LEMMA PoolShrinks ==
    ASSUME WithinPool, Holding' \subseteq Holding
    PROVE  WithinPool'
<1>1. IsFiniteSet(Holding') /\ Cardinality(Holding') <= Cardinality(Holding)
  BY FS_Subset DEF WithinPool
<1>2. Cardinality(Holding') \in Nat /\ Cardinality(Holding) \in Nat
  BY <1>1, FS_CardinalityType DEF WithinPool
<1> QED
  BY <1>1, <1>2 DEF WithinPool

(* An interval fires.                                                       *)
LEMMA FireKeeps == ASSUME IInv, NEW t \in Tick, Fire(t) PROVE IInv'
<1>0. /\ TypeOK /\ NobodyForgotten /\ WithinPool /\ RowsHeld
      /\ CallsRun /\ RunsNumbered /\ RunsCounted /\ ResultsKept
  BY DEF IInv
<1>1. /\ tick[t] = Idle /\ waiting' = Append(waiting, t)
      /\ UNCHANGED <<row, moved, runs, abandoned, callback, process, stops, lost>>
  BY DEF Fire
<1>2. /\ tick' \in [Tick -> TickType]
      /\ tick'[t] = [at |-> "waiting", row |-> None, run |-> None]
      /\ \A u \in Tick \ {t} : tick'[u] = tick[u]
  <2> DEFINE k == [at |-> "waiting", row |-> None, run |-> None]
  <2>1. k \in TickType /\ Turns(t, k)
    BY <1>0, TickTurns DEF TickType
  <2> HIDE DEF k
  <2>2. /\ tick' \in [Tick -> TickType] /\ tick'[t] = k
        /\ \A u \in Tick \ {t} : tick'[u] = tick[u]
    BY <1>0, <2>1, Turned
  <2> QED
    BY <2>2 DEF k
<1>3. Holding' = Holding
  BY <1>1, <1>2 DEF Holding, Idle
<1>4. \A u \in Holding : tick'[u] = tick[u]
  BY <1>1, <1>2 DEF Holding, Idle
<1>5. Waiters' = Waiters \cup {t} /\ t \notin Waiters
  BY <1>1, <1>2 DEF Waiters, Open, Idle
<1>6. waiting' \in Seq(Tick \cup Run) /\ NobodyForgotten'
  <2>1. waiting \in Seq(Tick \cup Run) /\ Lists(waiting, Waiters)
    BY <1>0 DEF NobodyForgotten, TypeOK
  <2>2. waiting' \in Seq(Tick \cup Run) /\ Lists(waiting', Waiters \cup {t})
    BY <1>1, <1>5, <2>1, Joins
  <2> QED
    BY <1>5, <2>2 DEF NobodyForgotten
<1>7. TypeOK'
  BY <1>0, <1>1, <1>2, <1>6 DEF TypeOK, TickType
<1>8. WithinPool' /\ RowsHeld'
  BY <1>0, <1>1, <1>3, <1>4 DEF WithinPool, RowsHeld
<1>9. CallsRun'
  BY <1>0, <1>1, <1>2 DEF CallsRun
<1>10. RunsNumbered' /\ ResultsKept'
  BY <1>0, <1>1 DEF RunsNumbered, ResultsKept
<1>11. RunsCounted'
  <2>1. \A c \in Claim : Busy(c)' <=> Busy(c)
    BY <1>1, <1>3, <1>4 DEF Busy
  <2> QED
    BY <1>0, <1>1, <2>1 DEF RunsCounted, Exits
<1> QED
  BY <1>6, <1>7, <1>8, <1>9, <1>10, <1>11 DEF IInv

(* A tick gets its connection, and locks a row or ends.                     *)
LEMMA BeginKeeps == ASSUME IInv, NEW t \in Tick, Begin(t) PROVE IInv'
<1>0. /\ TypeOK /\ NobodyForgotten /\ WithinPool /\ RowsHeld
      /\ CallsRun /\ RunsNumbered /\ RunsCounted /\ ResultsKept
  BY DEF IInv
<1>1. /\ waiting # <<>> /\ Head(waiting) = t /\ Cardinality(Holding) < PoolSize
      /\ waiting' = Tail(waiting)
      /\ UNCHANGED <<row, moved, runs, abandoned, callback, process, stops, lost>>
  BY DEF Begin, Served
<1>2. t \in Waiters /\ waiting' \in Seq(Tick \cup Run) /\ Lists(waiting', Waiters \ {t})
  BY <1>0, <1>1, Leaves DEF NobodyForgotten, TypeOK
<1>3. tick[t].at = "waiting" /\ t \notin Holding /\ t \notin Run
  BY <1>2 DEF Waiters, Holding
<1>4. PICK k : /\ Turns(t, k)
               /\ \/ k = Idle
                  \/ \E c \in Claim : /\ row[c].status = "pending" /\ ~Locked(c)
                                      /\ k = [at |-> "open", row |-> c, run |-> None]
  BY DEF Begin, Turns
<1>5. k \in TickType /\ k.at \in {"idle", "open"} /\ k.run = None
  BY <1>4 DEF TickType, Idle
<1>6. /\ tick' \in [Tick -> TickType] /\ tick'[t] = k
      /\ \A u \in Tick \ {t} : tick'[u] = tick[u]
  BY <1>0, <1>4, <1>5, Turned
<1>7. Waiters' = Waiters \ {t}
  BY <1>1, <1>3, <1>5, <1>6 DEF Waiters, Open
<1>8. NobodyForgotten'
  BY <1>2, <1>7 DEF NobodyForgotten
<1>9. TypeOK'
  BY <1>0, <1>1, <1>2, <1>6 DEF TypeOK, TickType
<1>10. /\ Holding' = IF k = Idle THEN Holding ELSE Holding \cup {t}
       /\ \A u \in Holding : tick'[u] = tick[u]
  BY <1>3, <1>4, <1>6 DEF Holding, Idle
<1>11. WithinPool'
  <2>1. CASE Holding' = Holding
    BY <2>1, <1>0 DEF WithinPool
  <2>2. CASE Holding' = Holding \cup {t}
    <3>1. IsFiniteSet(Holding') /\ Cardinality(Holding') = Cardinality(Holding) + 1
      BY <1>0, <1>3, <2>2, FS_AddElement DEF WithinPool
    <3>2. Cardinality(Holding) \in Nat
      BY <1>0, FS_CardinalityType DEF WithinPool
    <3> QED
      BY <1>1, <3>1, <3>2 DEF WithinPool
  <2> QED
    BY <1>10, <2>1, <2>2
<1>12. RowsHeld'
  BY <1>0, <1>1, <1>4, <1>6, <1>10 DEF RowsHeld, Locked
<1>13. CallsRun'
  BY <1>0, <1>1, <1>5, <1>6 DEF CallsRun
<1>14. RunsNumbered' /\ ResultsKept'
  BY <1>0, <1>1 DEF RunsNumbered, ResultsKept
<1>15. RunsCounted'
  <2>1. \A c \in Claim : Busy(c)' <=> Busy(c)
    BY <1>1, <1>5, <1>6, <1>10 DEF Busy
  <2> QED
    BY <1>0, <1>1, <2>1 DEF RunsCounted, Exits
<1> QED
  BY <1>8, <1>9, <1>11, <1>12, <1>13, <1>14, <1>15 DEF IInv

(* A tick whose request has made no run yet is alone with its row.          *)
LEMMA OpenNotBusy ==
    ASSUME RowsHeld, CallsRun, NEW t \in Tick, tick[t].at = "open"
    PROVE  /\ t \in Holding /\ tick[t].row \in Claim
           /\ row[tick[t].row].status = "pending" /\ tick[t].run = None
           /\ ~Busy(tick[t].row)
<1>1. t \in Holding
  BY DEF Holding
<1>2. /\ tick[t].row \in Claim /\ row[tick[t].row].status = "pending"
      /\ \A u \in Holding : tick[u].row = tick[t].row => u = t
  BY <1>1 DEF RowsHeld
<1>3. tick[t].run = None
  BY DEF CallsRun
<1> QED
  BY <1>1, <1>2, <1>3 DEF Busy

(* An answer, a timeout or a failure of a call: the tick keeps its row and  *)
(* its connection, and nobody leaves the queue.                             *)
LEMMA CallEndKeeps == ASSUME IInv, NEW t \in Tick, Return(t) \/ Fail(t) PROVE IInv'
<1>0. /\ TypeOK /\ NobodyForgotten /\ WithinPool /\ RowsHeld
      /\ CallsRun /\ RunsNumbered /\ RunsCounted /\ ResultsKept
  BY DEF IInv
<1>1. /\ tick[t].at \in {"open", "calling"} /\ (Return(t) => tick[t].at = "calling")
      /\ UNCHANGED <<row, moved, runs, callback, waiting, process, stops, lost>>
      /\ \/ abandoned' = abandoned
         \/ tick[t].at = "open" /\ Abandons({tick[t].row})
  <2>1. Abandons({}) => abandoned' = abandoned
    BY <1>0 DEF Abandons, TypeOK
  <2> QED
    BY <2>1 DEF Return, Answer, GiveUp, Fail
<1>2. PICK a \in {"ok", "error"} :
        /\ Turns(t, [at |-> a, row |-> tick[t].row, run |-> tick[t].run])
        /\ a = "ok" => tick[t].at = "calling"
  BY <1>0, <1>1, TickTurns
<1>3. /\ tick' \in [Tick -> TickType]
      /\ tick'[t].at = a /\ tick'[t].row = tick[t].row /\ tick'[t].run = tick[t].run
      /\ \A u \in Tick \ {t} : tick'[u] = tick[u]
  <2> DEFINE k == [at |-> a, row |-> tick[t].row, run |-> tick[t].run]
  <2>1. k \in TickType
    BY <1>0 DEF TypeOK, TickType
  <2>2. k.at = a /\ k.row = tick[t].row /\ k.run = tick[t].run
    OBVIOUS
  <2>3. Turns(t, k)
    BY <1>2
  <2> HIDE DEF k
  <2> QED
    BY <1>0, <2>1, <2>2, <2>3, Turned
<1>4. Holding' = Holding /\ Waiters' = Waiters
  BY <1>1, <1>3 DEF Holding, Waiters, Open
<1>5. \A u \in Tick : tick'[u].row = tick[u].row /\ tick'[u].run = tick[u].run
  BY <1>3
<1>6. TypeOK' /\ NobodyForgotten'
  <2>1. abandoned' \in [Claim -> Nat]
    <3>1. abandoned \in [Claim -> Nat]
      BY <1>0 DEF TypeOK
    <3>2. Abandons({tick[t].row}) => abandoned' \in [Claim -> Nat]
      BY <3>1 DEF Abandons
    <3> QED
      BY <1>1, <3>1, <3>2
  <2> QED
    BY <1>0, <1>1, <1>3, <1>4, <2>1 DEF TypeOK, TickType, NobodyForgotten
<1>7. WithinPool' /\ RowsHeld'
  <2>1. Holding \subseteq Tick
    BY DEF Holding
  <2>2. WithinPool'
    BY <1>0, <1>4 DEF WithinPool
  <2>3. RowsHeld'
    BY <1>0, <1>1, <1>4, <1>5, <2>1 DEF RowsHeld
  <2> QED
    BY <2>2, <2>3
<1>8. CallsRun'
  BY <1>0, <1>1, <1>2, <1>3 DEF CallsRun
<1>9. RunsNumbered' /\ ResultsKept'
  BY <1>0, <1>1 DEF RunsNumbered, ResultsKept
<1>a. tick[t].at = "calling" => tick[t].run \in Run
  BY <1>0 DEF CallsRun
<1>10. RunsCounted'
  <2>1. \A d \in Claim : Busy(d) => Busy(d)'
    BY <1>1, <1>2, <1>3, <1>4, <1>5, <1>a DEF Busy, Holding
  <2>2. ASSUME NEW d \in Claim
        PROVE  /\ runs'[d] + abandoned'[d] <= row'[d].attempts + Exits' + 1
               /\ ~Busy(d)' => runs'[d] + abandoned'[d] <= row'[d].attempts + Exits'
    <3>1. /\ Exits' = Exits /\ row' = row /\ runs' = runs
          /\ Exits \in Int /\ row[d].attempts \in Nat
          /\ runs[d] \in Nat /\ abandoned[d] \in Nat
      BY <1>0, <1>1 DEF Exits, TypeOK
    <3>2. CASE abandoned'[d] = abandoned[d]
      BY <1>0, <2>1, <3>1, <3>2 DEF RunsCounted
    <3>3. CASE abandoned'[d] # abandoned[d]
      <4>1. tick[t].at = "open" /\ d = tick[t].row /\ abandoned'[d] = abandoned[d] + 1
        BY <1>1, <3>3 DEF Abandons
      <4>2. ~Busy(d) /\ t \in Holding
        BY <1>0, <4>1, OpenNotBusy
      <4>3. tick'[t].at = "error" /\ tick'[t].row = d
        BY <1>2, <1>3, <4>1
      <4>4. Busy(d)'
        BY <1>4, <4>2, <4>3 DEF Busy
      <4> QED
        BY <1>0, <3>1, <4>1, <4>2, <4>4 DEF RunsCounted
    <3> QED
      BY <3>2, <3>3
  <2>3. process' = "stopping" => stops' > 0
    BY <1>0, <1>1 DEF RunsCounted
  <2> QED
    BY <2>2, <2>3 DEF RunsCounted
<1> QED
  BY <1>6, <1>7, <1>8, <1>9, <1>10 DEF IInv

(* The verification service makes a run, for which the bounds leave room:   *)
(* its callback queues up or is lost.                                       *)
LEMMA RunPosted ==
    ASSUME IInv, NEW c \in Claim, NEW r, r = <<c, runs[c] + 1>>,
           runs[c] + 1 <= MAX_ATTEMPTS + MaxStops,
           Arrives(r) \/ IsLost(r),
           runs' = [runs EXCEPT ![c] = @ + 1], UNCHANGED <<row, moved>>,
           \A u \in Tick : tick'[u].at = "waiting" <=> tick[u].at = "waiting"
    PROVE  /\ r \in Run /\ r[1] = c
           /\ callback' \in [Run -> {"none", "load", "record", "apply", "ended"}]
           /\ callback'[r] # "none"
           /\ runs' \in [Claim -> 0..(MAX_ATTEMPTS + MaxStops)]
           /\ runs'[c] = runs[c] + 1 /\ \A d \in Claim \ {c} : runs'[d] = runs[d]
           /\ waiting' \in Seq(Tick \cup Run) /\ NobodyForgotten'
           /\ lost' \in SUBSET Claim /\ RunsNumbered' /\ ResultsKept'
<1>0. TypeOK /\ NobodyForgotten /\ RunsNumbered /\ ResultsKept
  BY DEF IInv
<1>t. /\ callback \in [Run -> {"none", "load", "record", "apply", "ended"}]
      /\ runs \in [Claim -> 0..(MAX_ATTEMPTS + MaxStops)] /\ lost \in SUBSET Claim
      /\ waiting \in Seq(Tick \cup Run) /\ Lists(waiting, Waiters)
  BY <1>0 DEF NobodyForgotten, TypeOK
<1>1. \/ /\ waiting' = Append(waiting, r) /\ lost' = lost
         /\ callback' = [callback EXCEPT ![r] = "load"]
      \/ /\ waiting' = waiting /\ lost' = lost \cup {r[1]}
         /\ callback' = [callback EXCEPT ![r] = "ended"]
  BY DEF Arrives, IsLost
<1>2. runs[c] \in Nat /\ runs[c] + 1 \in 1..(MAX_ATTEMPTS + MaxStops)
  BY <1>t
<1>3. r \in Run /\ r[1] = c /\ r[2] = runs[c] + 1
  BY <1>2 DEF Run
<1>4. callback[r] = "none"
  BY <1>0, <1>2, <1>3 DEF RunsNumbered
<1>5. /\ callback' \in [Run -> {"none", "load", "record", "apply", "ended"}]
      /\ callback'[r] # "none" /\ \A q \in Run \ {r} : callback'[q] = callback[q]
  <2>1. PICK a \in {"load", "ended"} : callback' = [callback EXCEPT ![r] = a]
    BY <1>1
  <2> QED
    BY <1>t, <1>3, <2>1
<1>6. /\ runs' \in [Claim -> 0..(MAX_ATTEMPTS + MaxStops)]
      /\ runs'[c] = runs[c] + 1 /\ \A d \in Claim \ {c} : runs'[d] = runs[d]
  BY <1>t, <1>2
<1>7. waiting' \in Seq(Tick \cup Run) /\ NobodyForgotten'
  <2>t. /\ \A q \in Run \ {r} : Open(q)' <=> Open(q)
        /\ r \notin Tick
    BY <1>3, <1>5 DEF Open
  <2>1. CASE waiting' = Append(waiting, r) /\ callback' = [callback EXCEPT ![r] = "load"]
    <3>1. Open(r)' /\ ~Open(r)
      BY <1>t, <1>3, <1>4, <2>1 DEF Open
    <3>2. Waiters' = Waiters \cup {r} /\ r \notin Waiters
      BY <1>3, <2>t, <3>1 DEF Waiters
    <3>3. /\ Append(waiting, r) \in Seq(Tick \cup Run)
          /\ Lists(Append(waiting, r), Waiters \cup {r})
      <4>1. r \in Tick \cup Run
        BY <1>3
      <4> QED
        BY <1>t, <3>2, <4>1, Joins
    <3> QED
      BY <2>1, <3>2, <3>3 DEF NobodyForgotten
  <2>2. CASE waiting' = waiting /\ callback' = [callback EXCEPT ![r] = "ended"]
    <3>1. ~Open(r)' /\ ~Open(r)
      BY <1>t, <1>3, <1>4, <2>2 DEF Open
    <3>2. Waiters' = Waiters
      BY <1>3, <2>t, <3>1 DEF Waiters
    <3> QED
      BY <1>t, <2>2, <3>2 DEF NobodyForgotten
  <2> QED
    BY <1>1, <2>1, <2>2
<1>8. lost' \in SUBSET Claim /\ lost \subseteq lost'
  BY <1>t, <1>1, <1>3
<1>9. RunsNumbered'
  <2>1. \A q \in Run : q[2] \in Nat /\ q[1] \in Claim /\ (q[1] = c /\ q[2] = runs[c] + 1 => q = r)
    BY DEF Run
  <2> QED
    BY <1>0, <1>2, <1>3, <1>5, <1>6, <2>1 DEF RunsNumbered
<1>10. ResultsKept'
  <2>1. \A q \in Run : callback'[q] = "ended" => q[1] \in moved' \cup lost'
    <3>1. callback'[r] = "ended" => r[1] \in lost'
      BY <1>t, <1>1, <1>3
    <3> QED
      BY <1>0, <1>5, <1>8, <3>1 DEF ResultsKept
  <2>2. \A d \in Claim : row'[d].status = "sent" => \E q \in Run : q[1] = d /\ callback'[q] # "none"
    BY <1>0, <1>4, <1>5 DEF ResultsKept
  <2> QED
    BY <2>1, <2>2 DEF ResultsKept
<1> QED
  BY <1>3, <1>5, <1>6, <1>7, <1>8, <1>9, <1>10

(* For a tick that waits for it.                                            *)
LEMMA VerifyKeeps == ASSUME IInv, NEW t \in Tick, Verify(t) PROVE IInv'
<1>0. /\ TypeOK /\ NobodyForgotten /\ WithinPool /\ RowsHeld
      /\ CallsRun /\ RunsNumbered /\ RunsCounted /\ ResultsKept
  BY DEF IInv
<1>a. tick[t].at = "open"
  BY DEF Verify
<1>b. PICK c \in Claim : c = tick[t].row
  BY <1>0, <1>a, OpenNotBusy
<1>c. PICK r : r = <<c, runs[c] + 1>>
  OBVIOUS
<1>1. runs' = [runs EXCEPT ![c] = @ + 1] /\ UNCHANGED <<row, moved, abandoned, process, stops>>
  BY <1>b DEF Verify
<1>2. \/ Arrives(r) /\ tick' = [tick EXCEPT ![t].at = "calling", ![t].run = r]
      \/ IsLost(r) /\ tick' = [tick EXCEPT ![t].at = "ok", ![t].run = r]
  BY <1>b, <1>c, Zenon DEF Verify
<1>3. /\ t \in Holding /\ ~Busy(c) /\ row[c].status = "pending" /\ row[c].attempts < MAX_ATTEMPTS
  BY <1>0, <1>a, <1>b, OpenNotBusy DEF RowsHeld
<1>n. /\ runs[c] \in Nat /\ abandoned[c] \in Nat /\ row[c].attempts \in Nat
      /\ Exits \in Int /\ Exits <= MaxStops
      /\ runs[c] + abandoned[c] <= row[c].attempts + Exits
  BY <1>0, <1>3 DEF TypeOK, Exits, RunsCounted
<1>4. runs[c] + 1 <= MAX_ATTEMPTS + MaxStops
  BY <1>3, <1>n
<1>5. PICK a \in {"calling", "ok"} : tick' = [tick EXCEPT ![t].at = a, ![t].run = r]
  BY <1>2, Zenon
<1>6. r \in Run
  BY <1>4, <1>n, <1>c DEF Run
<1>7. /\ tick' \in [Tick -> TickType]
      /\ tick'[t].at \in {"calling", "ok"} /\ tick'[t].row = c /\ tick'[t].run = r
      /\ \A u \in Tick \ {t} : tick'[u] = tick[u]
  <2>1. tick \in [Tick -> TickType]
    BY <1>0 DEF TypeOK, TickType
  <2>2. /\ tick' \in [Tick -> TickType]
        /\ tick'[t] = [at |-> a, row |-> tick[t].row, run |-> r]
        /\ \A u \in Tick \ {t} : tick'[u] = tick[u]
    BY <2>1, <1>5, <1>6 DEF TickType
  <2> QED
    BY <2>2, <1>b
<1>8. \A u \in Tick : tick'[u].at = "waiting" <=> tick[u].at = "waiting"
  BY <1>a, <1>7
<1>9. /\ callback' \in [Run -> {"none", "load", "record", "apply", "ended"}]
      /\ r[1] = c /\ callback'[r] # "none" /\ \A q \in Run \ {r} : callback'[q] = callback[q]
      /\ runs' \in [Claim -> 0..(MAX_ATTEMPTS + MaxStops)]
      /\ runs'[c] = runs[c] + 1 /\ \A d \in Claim \ {c} : runs'[d] = runs[d]
      /\ waiting' \in Seq(Tick \cup Run) /\ NobodyForgotten'
      /\ lost' \in SUBSET Claim /\ RunsNumbered' /\ ResultsKept'
  <2>1. Arrives(r) \/ IsLost(r)
    BY <1>2
  <2>2. runs' = [runs EXCEPT ![c] = @ + 1] /\ UNCHANGED <<row, moved>>
    BY <1>1
  <2>3. \A q \in Run \ {r} : callback'[q] = callback[q]
    BY <1>0, <2>1 DEF TypeOK, Arrives, IsLost
  <2>4. /\ callback' \in [Run -> {"none", "load", "record", "apply", "ended"}]
        /\ r[1] = c /\ callback'[r] # "none"
        /\ runs' \in [Claim -> 0..(MAX_ATTEMPTS + MaxStops)]
        /\ runs'[c] = runs[c] + 1 /\ \A d \in Claim \ {c} : runs'[d] = runs[d]
        /\ waiting' \in Seq(Tick \cup Run) /\ NobodyForgotten'
        /\ lost' \in SUBSET Claim /\ RunsNumbered' /\ ResultsKept'
    BY <1>4, <1>8, <1>c, <2>1, <2>2, RunPosted
  <2> QED
    BY <2>3, <2>4
<1>10. TypeOK'
  BY <1>0, <1>1, <1>7, <1>9 DEF TypeOK, TickType
<1>11. Holding' = Holding /\ Holding \subseteq Tick /\ \A u \in Holding : tick'[u].row = tick[u].row
  BY <1>a, <1>7, <1>b DEF Holding
<1>12. WithinPool' /\ RowsHeld'
  <2>1. WithinPool'
    BY <1>0, <1>11 DEF WithinPool
  <2>2. RowsHeld'
    BY <1>0, <1>1, <1>11 DEF RowsHeld
  <2> QED
    BY <2>1, <2>2
<1>13. CallsRun'
  BY <1>0, <1>6, <1>7, <1>9 DEF CallsRun
<1>14. RunsCounted'
  <2>1. Busy(c)'
    <3>1. None # r
      BY <1>6
    <3> QED
      BY <1>3, <1>7, <1>11, <3>1 DEF Busy
  <2>2. \A d \in Claim \ {c} : Busy(d)' <=> Busy(d)
    BY <1>1, <1>3, <1>7, <1>11, <1>b DEF Busy
  <2>3. Exits' = Exits
    BY <1>1 DEF Exits
  <2>4. runs'[c] + abandoned'[c] <= row'[c].attempts + Exits' + 1
    BY <1>1, <1>9, <1>n, <2>3
  <2>5. (process' = "stopping" => stops' > 0)
        /\ \A d \in Claim : /\ runs'[d] + abandoned'[d] <= row'[d].attempts + Exits' + 1
                            /\ ~Busy(d)' => runs'[d] + abandoned'[d] <= row'[d].attempts + Exits'
    BY <1>0, <1>1, <1>9, <2>1, <2>2, <2>3, <2>4 DEF RunsCounted
  <2> QED
    BY <2>5 DEF RunsCounted
<1> QED
  BY <1>9, <1>10, <1>12, <1>13, <1>14 DEF IInv

(* Or for nobody: the request was counted when it was given up.             *)
LEMMA VerifyLateKeeps == ASSUME IInv, NEW c \in Claim, VerifyLate(c) PROVE IInv'
<1>0. /\ TypeOK /\ NobodyForgotten /\ WithinPool /\ RowsHeld
      /\ CallsRun /\ RunsNumbered /\ RunsCounted /\ ResultsKept
  BY DEF IInv
<1>c. PICK r : r = <<c, runs[c] + 1>>
  OBVIOUS
<1>1. /\ abandoned[c] > 0 /\ abandoned' = [abandoned EXCEPT ![c] = @ - 1]
      /\ runs' = [runs EXCEPT ![c] = @ + 1] /\ (Arrives(r) \/ IsLost(r))
      /\ UNCHANGED <<row, moved, tick, process, stops>>
  BY <1>c DEF VerifyLate
<1>n. /\ runs[c] \in Nat /\ abandoned[c] \in Nat \ {0}
      /\ row[c].attempts \in 0..MAX_ATTEMPTS /\ Exits \in Int /\ Exits <= MaxStops
  BY <1>0, <1>1 DEF TypeOK, Exits
<1>2. runs[c] + abandoned[c] <= MAX_ATTEMPTS + MaxStops
  <2>1. CASE row[c].status = "failed"
    <3>1. ~Busy(c)
      BY <1>0, <2>1 DEF Busy, RowsHeld
    <3> QED
      BY <1>0, <1>n, <3>1 DEF RunsCounted
  <2>2. CASE row[c].status # "failed"
    <3>1. row[c].attempts < MAX_ATTEMPTS
      BY <1>0, <2>2 DEF RowsHeld
    <3>2. runs[c] + abandoned[c] <= row[c].attempts + Exits + 1
      BY <1>0 DEF RunsCounted
    <3> QED
      BY <1>n, <3>1, <3>2
  <2> QED
    BY <2>1, <2>2
<1>3. runs[c] + 1 <= MAX_ATTEMPTS + MaxStops
  BY <1>n, <1>2
<1>4. /\ callback' \in [Run -> {"none", "load", "record", "apply", "ended"}]
      /\ r \in Run /\ callback'[r] # "none" /\ \A q \in Run \ {r} : callback'[q] = callback[q]
      /\ runs' \in [Claim -> 0..(MAX_ATTEMPTS + MaxStops)]
      /\ runs'[c] = runs[c] + 1 /\ \A d \in Claim \ {c} : runs'[d] = runs[d]
      /\ waiting' \in Seq(Tick \cup Run) /\ NobodyForgotten'
      /\ lost' \in SUBSET Claim /\ RunsNumbered' /\ ResultsKept'
  <2>1. runs' = [runs EXCEPT ![c] = @ + 1] /\ UNCHANGED <<row, moved>>
    BY <1>1
  <2>2. \A u \in Tick : tick'[u].at = "waiting" <=> tick[u].at = "waiting"
    BY <1>1
  <2>3. Arrives(r) \/ IsLost(r)
    BY <1>1
  <2>4. \A q \in Run \ {r} : callback'[q] = callback[q]
    BY <1>0, <2>3 DEF TypeOK, Arrives, IsLost
  <2>5. /\ callback' \in [Run -> {"none", "load", "record", "apply", "ended"}]
        /\ r \in Run /\ callback'[r] # "none"
        /\ runs' \in [Claim -> 0..(MAX_ATTEMPTS + MaxStops)]
        /\ runs'[c] = runs[c] + 1 /\ \A d \in Claim \ {c} : runs'[d] = runs[d]
        /\ waiting' \in Seq(Tick \cup Run) /\ NobodyForgotten'
        /\ lost' \in SUBSET Claim /\ RunsNumbered' /\ ResultsKept'
    BY <1>3, <1>c, <2>1, <2>2, <2>3, RunPosted
  <2> QED
    BY <2>4, <2>5
<1>5. /\ abandoned' \in [Claim -> Nat]
      /\ abandoned'[c] = abandoned[c] - 1 /\ \A d \in Claim \ {c} : abandoned'[d] = abandoned[d]
  <2>1. abandoned \in [Claim -> Nat] /\ abandoned[c] - 1 \in Nat
    BY <1>0, <1>n DEF TypeOK
  <2> QED
    BY <1>1, <2>1
<1>6. TypeOK'
  BY <1>0, <1>1, <1>4, <1>5 DEF TypeOK
<1>7. Holding' = Holding /\ \A d \in Claim : Busy(d)' <=> Busy(d)
  BY <1>1 DEF Holding, Busy
<1>8. WithinPool' /\ RowsHeld'
  BY <1>0, <1>1, <1>7 DEF WithinPool, RowsHeld
<1>9. CallsRun'
  BY <1>0, <1>1, <1>4 DEF CallsRun
<1>10. RunsCounted'
  <2>1. Exits' = Exits
    BY <1>1 DEF Exits
  <2>2. runs'[c] + abandoned'[c] = runs[c] + abandoned[c]
    BY <1>n, <1>4, <1>5
  <2>3. (process' = "stopping" => stops' > 0)
        /\ \A d \in Claim : /\ runs'[d] + abandoned'[d] <= row'[d].attempts + Exits' + 1
                            /\ ~Busy(d)' => runs'[d] + abandoned'[d] <= row'[d].attempts + Exits'
    BY <1>0, <1>1, <1>4, <1>5, <1>7, <2>1, <2>2 DEF RunsCounted
  <2> QED
    BY <2>3 DEF RunsCounted
<1> QED
  BY <1>4, <1>6, <1>8, <1>9, <1>10 DEF IInv

(* A tick ends: its row is sent, or has an attempt less.                    *)
LEMMA CommitKeeps == ASSUME IInv, NEW t \in Tick, Commit(t) PROVE IInv'
<1>0. /\ TypeOK /\ NobodyForgotten /\ WithinPool /\ RowsHeld
      /\ CallsRun /\ RunsNumbered /\ RunsCounted /\ ResultsKept
  BY DEF IInv
<1>1. /\ tick[t].at \in {"ok", "error"} /\ Turns(t, Idle)
      /\ UNCHANGED <<moved, runs, abandoned, callback, waiting, process, stops, lost>>
  BY DEF Commit, MarkSent, Reschedule, Turns
<1>a. /\ t \in Holding /\ tick[t].row \in Claim
      /\ row[tick[t].row].status = "pending" /\ row[tick[t].row].attempts < MAX_ATTEMPTS
  BY <1>0, <1>1 DEF Holding, RowsHeld
<1>b. PICK c \in Claim : c = tick[t].row
  BY <1>a
<1>2. t \in Holding /\ c \in Claim /\ row[c].status = "pending" /\ row[c].attempts < MAX_ATTEMPTS
  BY <1>a, <1>b
<1>3. /\ tick' \in [Tick -> TickType] /\ tick'[t] = Idle
      /\ \A u \in Tick \ {t} : tick'[u] = tick[u]
  <2>1. Idle \in TickType
    BY DEF Idle, TickType
  <2> QED
    BY <1>0, <1>1, <2>1, Turned
<1>r. row \in [Claim -> [status : {"pending", "sent", "failed"}, attempts : 0..MAX_ATTEMPTS]]
  BY <1>0 DEF TypeOK
<1>4. /\ row' \in [Claim -> [status : {"pending", "sent", "failed"}, attempts : 0..MAX_ATTEMPTS]]
      /\ \A d \in Claim \ {c} : row'[d] = row[d]
      /\ \/ tick[t].at = "ok" /\ row'[c] = [status |-> "sent", attempts |-> row[c].attempts]
         \/ /\ row'[c].attempts = row[c].attempts + 1
            /\ row'[c].status = IF row[c].attempts + 1 >= MAX_ATTEMPTS THEN "failed" ELSE "pending"
  <2>1. CASE MarkSent(t)
    <3>1. tick[t].at = "ok" /\ row' = [row EXCEPT ![c].status = "sent"]
      BY <2>1, <1>b, Zenon DEF MarkSent
    <3> QED
      BY <1>r, <1>2, <3>1
  <2>2. CASE Reschedule(t)
    <3> DEFINE n == row[c].attempts + 1
               k == [status |-> IF n >= MAX_ATTEMPTS THEN "failed" ELSE "pending", attempts |-> n]
    <3>1. row' = [row EXCEPT ![c] = k]
      BY <2>2, <1>b, Zenon DEF Reschedule
    <3>2. n \in 0..MAX_ATTEMPTS
      BY <1>r, <1>2
    <3>3. k \in [status : {"pending", "sent", "failed"}, attempts : 0..MAX_ATTEMPTS]
      BY <3>2
    <3>4. k.attempts = n /\ k.status = IF n >= MAX_ATTEMPTS THEN "failed" ELSE "pending"
      OBVIOUS
    <3> HIDE DEF k, n
    <3>5. row'[c] = k /\ \A d \in Claim \ {c} : row'[d] = row[d]
      BY <1>r, <1>2, <3>1
    <3>6. row' \in [Claim -> [status : {"pending", "sent", "failed"}, attempts : 0..MAX_ATTEMPTS]]
      BY <1>r, <1>2, <3>1, <3>3
    <3> QED
      BY <3>4, <3>5, <3>6 DEF n
  <2> QED
    BY <2>1, <2>2 DEF Commit
<1>5. Holding' = Holding \ {t} /\ Waiters' = Waiters /\ \A u \in Holding' : tick'[u] = tick[u]
  BY <1>1, <1>3 DEF Holding, Waiters, Open, Idle
<1>6. TypeOK' /\ NobodyForgotten'
  BY <1>0, <1>1, <1>3, <1>4, <1>5 DEF TypeOK, TickType, NobodyForgotten
<1>7. WithinPool'
  BY <1>0, <1>5, PoolShrinks
<1>8. RowsHeld'
  <2>1. \A u \in Holding' : tick'[u].row # c
    BY <1>0, <1>2, <1>5, <1>b DEF RowsHeld
  <2>2. \A d \in Claim : row'[d].status # "failed" => row'[d].attempts < MAX_ATTEMPTS
    BY <1>0, <1>r, <1>2, <1>4 DEF RowsHeld
  <2> QED
    BY <1>0, <1>4, <1>5, <2>1, <2>2 DEF RowsHeld
<1>9. CallsRun'
  BY <1>0, <1>1, <1>3 DEF CallsRun, Idle
<1>10. RunsNumbered'
  BY <1>0, <1>1 DEF RunsNumbered
<1>11. RunsCounted'
  <2>1. \A d \in Claim \ {c} : Busy(d)' <=> Busy(d)
    BY <1>2, <1>4, <1>5, <1>b DEF Busy
  <2>2. /\ Exits' = Exits /\ Exits \in Int /\ row[c].attempts \in Nat
        /\ runs[c] \in Nat /\ abandoned[c] \in Nat
    BY <1>0, <1>1, <1>2 DEF Exits, TypeOK
  <2>3. runs[c] + abandoned[c] <= row[c].attempts + Exits + 1
    BY <1>0, <1>2, <2>2 DEF RunsCounted
  <2>4. /\ runs'[c] + abandoned'[c] <= row'[c].attempts + Exits' + 1
        /\ ~Busy(c)' => runs'[c] + abandoned'[c] <= row'[c].attempts + Exits'
    <3>1. CASE row'[c] = [status |-> "sent", attempts |-> row[c].attempts]
      BY <1>1, <2>2, <2>3, <3>1 DEF Busy
    <3>2. CASE row'[c].attempts = row[c].attempts + 1
      BY <1>1, <2>2, <2>3, <3>2
    <3> QED
      BY <1>4, <3>1, <3>2
  <2>5. (process' = "stopping" => stops' > 0)
        /\ \A d \in Claim : /\ runs'[d] + abandoned'[d] <= row'[d].attempts + Exits' + 1
                            /\ ~Busy(d)' => runs'[d] + abandoned'[d] <= row'[d].attempts + Exits'
    BY <1>0, <1>1, <1>4, <2>1, <2>2, <2>4 DEF RunsCounted
  <2> QED
    BY <2>5 DEF RunsCounted
<1>12. ResultsKept'
  <2>1. tick[t].at = "ok" => \E q \in Run : q[1] = c /\ callback[q] # "none"
    BY <1>0, <1>1, <1>b DEF CallsRun
  <2> QED
    BY <1>0, <1>1, <1>4, <2>1 DEF ResultsKept
<1> QED
  BY <1>6, <1>7, <1>8, <1>9, <1>10, <1>11, <1>12 DEF IInv

(* A callback makes its next database call: it goes to the end of the queue,*)
(* or leaves it for good.                                                   *)
LEMMA CallbackKeeps ==
    ASSUME IInv, NEW r \in Run, Load(r) \/ Record(r) \/ Apply(r) \/ Break(r)
    PROVE  IInv'
<1>0. /\ TypeOK /\ NobodyForgotten /\ WithinPool /\ RowsHeld
      /\ CallsRun /\ RunsNumbered /\ RunsCounted /\ ResultsKept
  BY DEF IInv
<1>1. /\ waiting # <<>> /\ Head(waiting) = r
      /\ UNCHANGED <<row, tick, runs, abandoned, process, stops>>
  BY DEF Load, Record, Apply, Break, Served
<1>2. PICK next \in {"record", "apply", "ended"} :
        /\ Continues(r, next)
        /\ next = "ended" => r[1] \in moved' \cup lost'
  BY DEF Load, Record, Apply, Break
<1>3. r[1] \in Claim
  BY DEF Run
<1>4. moved \subseteq moved' /\ lost \subseteq lost' /\ moved' \subseteq Claim /\ lost' \subseteq Claim
  BY <1>0, <1>3 DEF Load, Record, Apply, Break, TypeOK
<1>t. callback \in [Run -> {"none", "load", "record", "apply", "ended"}]
      /\ waiting \in Seq(Tick \cup Run) /\ Lists(waiting, Waiters)
  BY <1>0 DEF TypeOK, NobodyForgotten
<1>5. /\ callback' \in [Run -> {"none", "load", "record", "apply", "ended"}]
      /\ callback'[r] = next /\ \A q \in Run \ {r} : callback'[q] = callback[q]
  BY <1>t, <1>2 DEF Continues
<1>6. r \in Waiters /\ r \notin Tick
  BY <1>1, <1>t, Leaves
<1>7. Open(r)
  BY <1>6 DEF Waiters
<1>8. waiting' \in Seq(Tick \cup Run) /\ NobodyForgotten'
  <2>1. CASE next = "ended"
    <3>1. Waiters' = Waiters \ {r}
      BY <1>1, <1>5, <1>6, <2>1 DEF Waiters, Open
    <3>2. waiting' = Tail(waiting)
      BY <1>2, <2>1 DEF Continues
    <3>3. waiting' \in Seq(Tick \cup Run) /\ Lists(waiting', Waiters \ {r})
      BY <1>1, <1>t, <3>2, Leaves
    <3> QED
      BY <3>1, <3>3 DEF NobodyForgotten
  <2>2. CASE next # "ended"
    <3>1. Waiters' = Waiters
      BY <1>1, <1>5, <1>6, <1>7, <2>2 DEF Waiters, Open
    <3>2. waiting' = Append(Tail(waiting), Head(waiting))
      BY <1>1, <1>2, <2>2 DEF Continues
    <3>3. Waiters \subseteq Tick \cup Run
      BY DEF Waiters
    <3>4. waiting' \in Seq(Tick \cup Run) /\ Lists(waiting', Waiters)
      BY <1>1, <1>t, <3>2, <3>3, Requeues
    <3> QED
      BY <3>1, <3>4 DEF NobodyForgotten
  <2> QED
    BY <2>1, <2>2
<1>9. TypeOK'
  BY <1>0, <1>1, <1>4, <1>5, <1>8 DEF TypeOK
<1>10. Holding' = Holding
  BY <1>1 DEF Holding
<1>11. WithinPool' /\ RowsHeld'
  BY <1>0, <1>1, <1>10 DEF WithinPool, RowsHeld
<1>12. \A q \in Run : callback'[q] = "none" <=> callback[q] = "none"
  BY <1>5, <1>7 DEF Open
<1>13. CallsRun' /\ RunsNumbered'
  BY <1>0, <1>1, <1>12 DEF CallsRun, RunsNumbered
<1>14. RunsCounted'
  <2>1. \A c \in Claim : Busy(c)' <=> Busy(c)
    BY <1>1, <1>10 DEF Busy
  <2> QED
    BY <1>0, <1>1, <2>1 DEF RunsCounted, Exits
<1>15. ResultsKept'
  <2>1. \A q \in Run : callback'[q] = "ended" => q[1] \in moved' \cup lost'
    BY <1>0, <1>2, <1>4, <1>5 DEF ResultsKept
  <2>2. \A c \in Claim : row'[c].status = "sent" => \E q \in Run : q[1] = c /\ callback'[q] # "none"
    BY <1>0, <1>1, <1>12 DEF ResultsKept
  <2> QED
    BY <2>1, <2>2 DEF ResultsKept
<1> QED
  BY <1>8, <1>9, <1>11, <1>13, <1>14, <1>15 DEF IInv

(* The process is told to stop.                                             *)
LEMMA StopKeeps == ASSUME IInv, Stop PROVE IInv'
<1>0. /\ TypeOK /\ NobodyForgotten /\ WithinPool /\ RowsHeld
      /\ CallsRun /\ RunsNumbered /\ RunsCounted /\ ResultsKept
  BY DEF IInv
<1>1. /\ process = "up" /\ process' = "stopping" /\ stops' = stops + 1 /\ stops < MaxStops
      /\ UNCHANGED <<row, moved, tick, runs, abandoned, callback, waiting, lost>>
  BY DEF Stop
<1>2. stops \in 0..MaxStops /\ stops' \in 0..MaxStops
  BY <1>0, <1>1 DEF TypeOK
<1>3. TypeOK'
  BY <1>0, <1>1, <1>2 DEF TypeOK
<1>4. Holding' = Holding /\ Waiters' = Waiters /\ \A c \in Claim : Busy(c)' <=> Busy(c)
  BY <1>1 DEF Holding, Waiters, Open, Busy
<1>5. NobodyForgotten' /\ WithinPool'
  BY <1>0, <1>1, <1>4 DEF NobodyForgotten, WithinPool
<1>6. RowsHeld' /\ CallsRun' /\ RunsNumbered' /\ ResultsKept'
  BY <1>0, <1>1, <1>4 DEF RowsHeld, CallsRun, RunsNumbered, ResultsKept
<1>7. RunsCounted'
  <2>1. Exits' = Exits
    BY <1>1, <1>2 DEF Exits
  <2>2. stops' > 0
    BY <1>1, <1>2
  <2> QED
    BY <1>0, <1>1, <1>4, <2>1, <2>2 DEF RunsCounted
<1> QED
  BY <1>3, <1>5, <1>6, <1>7 DEF IInv

(* And is replaced: every transaction and handler is gone.                  *)
LEMMA ExitKeeps == ASSUME IInv, Exit PROVE IInv'
<1>0. /\ TypeOK /\ NobodyForgotten /\ WithinPool /\ RowsHeld
      /\ CallsRun /\ RunsNumbered /\ RunsCounted /\ ResultsKept
  BY DEF IInv
<1>1. /\ process = "stopping" /\ process' = "up" /\ waiting' = <<>>
      /\ tick' = [u \in Tick |-> Idle]
      /\ callback' = [q \in Run |-> IF callback[q] = "none" THEN "none" ELSE "ended"]
      /\ lost' = lost \cup {q[1] : q \in {p \in Run : Open(p)}}
      /\ Abandons(Posted) /\ UNCHANGED <<row, moved, runs, stops>>
  BY DEF Exit, Open
<1>2. Idle \in TickType
  BY DEF Idle, TickType
<1>3. \A q \in Run : q[1] \in Claim
  BY DEF Run
<1>4. TypeOK'
  <2>1. callback' \in [Run -> {"none", "load", "record", "apply", "ended"}]
    BY <1>1
  <2>2. tick' \in [Tick -> TickType] /\ lost' \in SUBSET Claim
    BY <1>0, <1>1, <1>2, <1>3 DEF TypeOK
  <2>3. waiting' \in Seq(Tick \cup Run)
    BY <1>1
  <2>4. abandoned' \in [Claim -> Nat]
    BY <1>0, <1>1 DEF TypeOK, Abandons
  <2> QED
    BY <1>0, <1>1, <2>1, <2>2, <2>3, <2>4 DEF TypeOK, TickType
<1>5. Holding' = {} /\ Waiters' = {}
  BY <1>1 DEF Holding, Waiters, Open, Idle
<1>6. NobodyForgotten'
  BY <1>1, <1>5 DEF NobodyForgotten, Lists
<1>7. WithinPool' /\ RowsHeld'
  <2>1. WithinPool'
    BY <1>0, <1>5, PoolShrinks
  <2> QED
    BY <1>0, <1>1, <1>5, <2>1 DEF RowsHeld
<1>8. \A q \in Run : /\ callback'[q] = "none" <=> callback[q] = "none"
                     /\ callback'[q] = "ended" => callback[q] = "ended" \/ Open(q)
  BY <1>0, <1>1 DEF TypeOK, Open
<1>9. CallsRun' /\ RunsNumbered'
  BY <1>0, <1>1, <1>8 DEF CallsRun, RunsNumbered, Idle
<1>10. RunsCounted'
  <2>1. Exits' = Exits + 1
    BY <1>0, <1>1 DEF Exits, TypeOK
  <2>2. \A c \in Claim : /\ runs[c] \in Nat /\ abandoned[c] \in Nat
                          /\ row[c].attempts \in Nat /\ Exits \in Int
    BY <1>0 DEF TypeOK, Exits
  <2>3. ASSUME NEW c \in Claim PROVE runs'[c] + abandoned'[c] <= row'[c].attempts + Exits'
    <3>1. CASE c \in Posted
      <4>1. PICK t \in Tick : tick[t].at = "open" /\ tick[t].row = c
        BY <3>1 DEF Posted
      <4>2. ~Busy(c)
        BY <1>0, <4>1, OpenNotBusy
      <4>3. runs[c] + abandoned[c] <= row[c].attempts + Exits
        BY <1>0, <4>2 DEF RunsCounted
      <4>4. abandoned'[c] \in {abandoned[c], abandoned[c] + 1}
        BY <1>1 DEF Abandons
      <4> QED
        BY <1>1, <2>1, <2>2, <4>3, <4>4
    <3>2. CASE c \notin Posted
      <4>1. abandoned'[c] = abandoned[c]
        BY <1>1, <3>2 DEF Abandons
      <4>2. runs[c] + abandoned[c] <= row[c].attempts + Exits + 1
        BY <1>0 DEF RunsCounted
      <4> QED
        BY <1>1, <2>1, <2>2, <4>1, <4>2
    <3> QED
      BY <3>1, <3>2
  <2>4. \A c \in Claim : /\ runs'[c] \in Nat /\ abandoned'[c] \in Nat
                          /\ row'[c].attempts \in Nat /\ Exits' \in Int
    BY <1>1, <1>4, <2>1, <2>2 DEF TypeOK
  <2>5. \A c \in Claim : runs'[c] + abandoned'[c] <= row'[c].attempts + Exits' + 1
    BY <2>3, <2>4
  <2>6. process' # "stopping"
    BY <1>1
  <2> QED
    BY <2>3, <2>5, <2>6 DEF RunsCounted
<1>11. ResultsKept'
  <2>1. \A q \in Run : callback'[q] = "ended" => q[1] \in moved' \cup lost'
    BY <1>0, <1>1, <1>8 DEF ResultsKept
  <2>2. \A c \in Claim : row'[c].status = "sent" => \E q \in Run : q[1] = c /\ callback'[q] # "none"
    BY <1>0, <1>1, <1>8 DEF ResultsKept
  <2> QED
    BY <2>1, <2>2 DEF ResultsKept
<1> QED
  BY <1>4, <1>6, <1>7, <1>9, <1>10, <1>11 DEF IInv

-----------------------------------------------------------------------------
(* Results.                                                                 *)

(* The invariant holds of every state, whatever the fairness.               *)
THEOREM Invariance == Spec => []IInv
<1>1. IInv /\ [Next]_vars => IInv'
  <2> SUFFICES ASSUME IInv, [Next]_vars PROVE IInv'
    OBVIOUS
  <2>1. CASE UNCHANGED vars
    <3>1. Holding' = Holding /\ Waiters' = Waiters /\ \A c \in Claim : Busy(c)' <=> Busy(c)
      BY <2>1 DEF vars, Holding, Waiters, Open, Busy
    <3>2. TypeOK' /\ CallsRun' /\ RunsNumbered' /\ ResultsKept'
      BY <2>1 DEF vars, IInv, TypeOK, CallsRun, RunsNumbered, ResultsKept
    <3>3. NobodyForgotten' /\ WithinPool' /\ RowsHeld' /\ RunsCounted'
      BY <2>1, <3>1 DEF vars, IInv, NobodyForgotten, WithinPool, RowsHeld, RunsCounted, Exits
    <3> QED
      BY <3>2, <3>3 DEF IInv
  <2>2. CASE Pool
    BY <2>2, BeginKeeps, CallbackKeeps DEF Pool
  <2>3. CASE Stop \/ Exit
    BY <2>3, StopKeeps, ExitKeeps
  <2>4. ASSUME NEW c \in Claim, VerifyLate(c) PROVE IInv'
    BY <2>4, VerifyLateKeeps
  <2>5. ASSUME NEW t \in Tick, Fire(t) \/ Verify(t) \/ Return(t) \/ Fail(t) \/ Commit(t)
        PROVE  IInv'
    BY <2>5, FireKeeps, VerifyKeeps, CallEndKeeps, CommitKeeps
  <2> QED
    BY <2>1, <2>2, <2>3, <2>4, <2>5 DEF Next
<1> QED
  BY <1>1, InitInv, PTL DEF Spec

(* Types; the runs the bounds leave room for are enough.                    *)
THEOREM TypeCorrect == Spec => []TypeOK
<1>1. IInv => TypeOK
  BY DEF IInv
<1> QED
  BY <1>1, Invariance, PTL

(* The pool is never overdrawn, two ticks never hold the same row, and      *)
(* whoever waits for a connection, a callback whose caller gave it up       *)
(* included, is in the queue once.                                          *)
THEOREM PoolShared ==
    Spec => [](NobodyForgotten /\ WithinPool /\ RowsHeld)
<1>1. IInv => NobodyForgotten /\ WithinPool /\ RowsHeld
  BY DEF IInv
<1> QED
  BY <1>1, Invariance, PTL

(* Only ticks keep anybody waiting: the first of the queue is a tick that is*)
(* due or a callback with a call to make, and is served now unless ticks    *)
(* hold every connection; what a tick that holds one does next, Verify,     *)
(* Return, Fail or Commit, needs no other.                                  *)
TicksAloneBlock ==
    waiting # <<>> =>
        /\ Head(waiting) \in Waiters
        /\ Served(Head(waiting)) \/ Cardinality(Holding) = PoolSize

THEOREM NoCircularWait == Spec => []TicksAloneBlock
<1>1. IInv => TicksAloneBlock
  <2> SUFFICES ASSUME IInv, waiting # <<>>
               PROVE  /\ Head(waiting) \in Waiters
                      /\ Served(Head(waiting)) \/ Cardinality(Holding) = PoolSize
    BY DEF TicksAloneBlock
  <2>1. Head(waiting) \in Waiters
    BY Leaves DEF IInv, TypeOK, NobodyForgotten
  <2>2. Cardinality(Holding) \in Nat /\ Cardinality(Holding) <= PoolSize
    BY FS_CardinalityType DEF IInv, WithinPool
  <2> QED
    BY <2>1, <2>2 DEF Served
<1> QED
  BY <1>1, Invariance, PTL

(* A row marked sent has moved its claim, or lost a callback, or has a      *)
(* callback in the queue for a connection.                                  *)
THEOREM SentUnderWay == Spec => []SentIsUnderWay
<1>1. IInv => SentIsUnderWay
  <2> SUFFICES ASSUME IInv, NEW c \in Claim, row[c].status = "sent", c \notin moved \cup lost
               PROVE  \E i \in DOMAIN waiting : waiting[i] \in Run /\ waiting[i][1] = c
    BY DEF SentIsUnderWay
  <2>1. PICK r \in Run : r[1] = c /\ callback[r] # "none" /\ callback[r] # "ended"
    BY DEF IInv, ResultsKept
  <2>2. r \in Waiters
    BY <2>1 DEF IInv, TypeOK, Waiters, Open
  <2>3. PICK i \in 1..Len(waiting) : waiting[i] = r
    BY <2>2 DEF IInv, NobodyForgotten, Lists
  <2>4. DOMAIN waiting = 1..Len(waiting)
    BY DEF IInv, TypeOK
  <2> QED
    BY <2>1, <2>3, <2>4
<1> QED
  BY <1>1, Invariance, PTL
=============================================================================
