---------------------------- MODULE ConnectionPool ----------------------------
(***************************************************************************)
(* One process of claims-service and the connections to its database.      *)
(*                                                                         *)
(* A tick of the verification dispatcher keeps a connection while it posts *)
(* to verification-service, which before it answers posts the result back  *)
(* to claims-service, whose handler needs connections of the same pool:    *)
(*                                                                         *)
(*   tick --POST--> verification-service --POST--> verification-result     *)
(*    holds one                waits at most 10 s           waits for one  *)
(*                                                                         *)
(* The interval fires whether or not earlier ticks have ended, so that     *)
(* ticks alone can take the whole pool.  (claims-service index.ts,         *)
(* db/client.ts, workers/verification-dispatcher.ts, internal.routes.ts;   *)
(* verification-service routes/verifications.py; service-runtime server.ts.) *)
(***************************************************************************)
EXTENDS Naturals, Sequences, FiniteSets

CONSTANTS
    Claim,          \* claims, each with its row of the outbox
    Tick,           \* ticks that may be under way together
    PoolSize,       \* connections of the process
    MAX_ATTEMPTS,   \* 5 in the code
    MaxStops,       \* bound: shutdowns
    Late,           \* bound: claims whose requests may be served after they were given up
    None

ASSUME PoolAssumption == PoolSize \in Nat \ {0}
ASSUME BoundsAssumption == MAX_ATTEMPTS \in Nat \ {0} /\ MaxStops \in Nat

\* A claim's runs, in the order they are made: the bounds leave one for each attempt and
\* one for each transaction a shutdown rolls back.
Run == Claim \X (1..(MAX_ATTEMPTS + MaxStops))

ASSUME LateAssumption == Late \subseteq Claim

ASSUME NamesAssumption == Tick \cap Run = {} /\ None \notin Claim \cup Run

VARIABLES
    row,            \* the outbox: status and attempts of the claim's row
    moved,          \* claims whose verification result was applied
    tick,           \* how far each tick is, the row it locked, the run its call made
    runs,           \* per claim, the runs made for it
    abandoned,      \* per claim, requests that no tick waits for and that may yet make a run
    callback,       \* per run, the next database call of its callback's handler
    waiting,        \* ticks and callbacks that wait for a connection, in order
    process,        \* up, or stopping: no more intervals, no more requests
    stops,
    lost            \* history: claims a callback failed for, or was cut for

vars == <<row, moved, tick, runs, abandoned, callback, waiting, process, stops, lost>>

Idle == [at |-> "idle", row |-> None, run |-> None]

TypeOK ==
    /\ row \in [Claim -> [status : {"pending", "sent", "failed"}, attempts : 0..MAX_ATTEMPTS]]
    /\ moved \in SUBSET Claim
    /\ tick \in [Tick -> [at : {"idle", "waiting", "open", "calling", "ok", "error"},
                          row : Claim \cup {None}, run : Run \cup {None}]]
    /\ runs \in [Claim -> 0..(MAX_ATTEMPTS + MaxStops)]
    /\ abandoned \in [Claim -> Nat]
    /\ callback \in [Run -> {"none", "load", "record", "apply", "ended"}]
    /\ waiting \in Seq(Tick \cup Run)
    /\ process \in {"up", "stopping"}
    /\ stops \in 0..MaxStops
    /\ lost \in SUBSET Claim

Init ==
    /\ row = [c \in Claim |-> [status |-> "pending", attempts |-> 0]]
    /\ moved = {}
    /\ tick = [t \in Tick |-> Idle]
    /\ runs = [c \in Claim |-> 0]
    /\ abandoned = [c \in Claim |-> 0]
    /\ callback = [r \in Run |-> "none"]
    /\ waiting = <<>>
    /\ process = "up"
    /\ stops = 0
    /\ lost = {}

-----------------------------------------------------------------------------
(* The pool serves who waits in order.  A tick keeps the connection until   *)
(* its transaction ends; a callback's statement gives it back at once.      *)
Holding == {t \in Tick : tick[t].at \in {"open", "calling", "ok", "error"}}

Served(w) ==
    /\ waiting # <<>> /\ Head(waiting) = w
    /\ Cardinality(Holding) < PoolSize

Locked(c) == \E t \in Holding : tick[t].row = c

(* setInterval, until clearInterval.                                        *)
Fire(t) ==
    /\ process = "up"
    /\ tick[t] = Idle
    /\ tick' = [tick EXCEPT ![t].at = "waiting"]
    /\ waiting' = Append(waiting, t)
    /\ UNCHANGED <<row, moved, runs, abandoned, callback, process, stops, lost>>

(* The transaction begins and locks a row, or finds none and ends.  The     *)
(* back-off is left out: a row may be due whenever it is asked for.         *)
Begin(t) ==
    /\ Served(t)
    /\ waiting' = Tail(waiting)
    /\ \/ \E c \in Claim :
            /\ row[c].status = "pending" /\ ~Locked(c)
            /\ tick' = [tick EXCEPT ![t] = [at |-> "open", row |-> c, run |-> None]]
       \/ tick' = [tick EXCEPT ![t] = Idle]
    /\ UNCHANGED <<row, moved, runs, abandoned, callback, process, stops, lost>>

-----------------------------------------------------------------------------
(* verification-service commits a run and posts its result.  A process that *)
(* is stopping refuses it, or the network loses it: that is only logged.    *)
Arrives(r) ==
    /\ process = "up"
    /\ callback' = [callback EXCEPT ![r] = "load"]
    /\ waiting' = Append(waiting, r)
    /\ lost' = lost

IsLost(r) ==
    /\ callback' = [callback EXCEPT ![r] = "ended"]
    /\ lost' = lost \cup {r[1]}
    /\ waiting' = waiting

Verify(t) ==
    LET c == tick[t].row
        r == <<c, runs[c] + 1>>
    IN  /\ tick[t].at = "open"
        /\ runs' = [runs EXCEPT ![c] = @ + 1]
        /\ \/ /\ Arrives(r)
              /\ tick' = [tick EXCEPT ![t].at = "calling", ![t].run = r]
           \/ /\ IsLost(r)
              /\ tick' = [tick EXCEPT ![t].at = "ok", ![t].run = r]
        /\ UNCHANGED <<row, moved, abandoned, process, stops>>

(* Its caller has given up the request, or is gone.                         *)
VerifyLate(c) ==
    LET r == <<c, runs[c] + 1>>
    IN  /\ abandoned[c] > 0
        /\ abandoned' = [abandoned EXCEPT ![c] = @ - 1]
        /\ runs' = [runs EXCEPT ![c] = @ + 1]
        /\ Arrives(r) \/ IsLost(r)
        /\ UNCHANGED <<row, moved, tick, process, stops>>

(* The callback was answered, and then the tick's call is.                  *)
Answer(t) ==
    /\ tick[t].at = "calling"
    /\ callback[tick[t].run] = "ended"
    /\ tick' = [tick EXCEPT ![t].at = "ok"]
    /\ UNCHANGED <<row, moved, runs, abandoned, callback, waiting, process, stops, lost>>

(* Mutant: verification-service waits for its callback as long as it takes. *)
WaitOn(t) == Answer(t)

(* Mutant: a handler is dropped with the request that called it.            *)
GiveUpAborts(t) ==
    /\ tick[t].at = "calling"
    /\ tick' = [tick EXCEPT ![t].at = "ok"]
    /\ callback' = [callback EXCEPT ![tick[t].run] = "ended"]
    /\ waiting' = SelectSeq(waiting, LAMBDA w : w # tick[t].run)
    /\ UNCHANGED <<row, moved, runs, abandoned, process, stops, lost>>

(* Ten seconds pass: the exception is logged, the call answered all the     *)
(* same, and the handler goes on waiting for its connection.                *)
GiveUp(t) ==
    /\ tick[t].at = "calling"
    /\ tick' = [tick EXCEPT ![t].at = "ok"]
    /\ UNCHANGED <<row, moved, runs, abandoned, callback, waiting, process, stops, lost>>

\* The ticks of these claims wait no longer for requests that have made no run yet.  One
\* that was refused or never arrived is among those that never make it.
Abandons(claims) ==
    abandoned' = [c \in Claim |-> IF c \in claims \cap Late THEN abandoned[c] + 1
                                                           ELSE abandoned[c]]

(* fetch() fails (a timeout, a reset) after verification-service made its   *)
(* run or before, in which case it may still make it.                       *)
Fail(t) ==
    /\ tick[t].at \in {"open", "calling"}
    /\ Abandons(IF tick[t].at = "open" THEN {tick[t].row} ELSE {})
    /\ tick' = [tick EXCEPT ![t].at = "error"]
    /\ UNCHANGED <<row, moved, runs, callback, waiting, process, stops, lost>>

MarkSent(t) ==
    /\ tick[t].at = "ok"
    /\ row' = [row EXCEPT ![tick[t].row].status = "sent"]
    /\ tick' = [tick EXCEPT ![t] = Idle]
    /\ UNCHANGED <<moved, runs, abandoned, callback, waiting, process, stops, lost>>

Reschedule(t) ==
    LET attempts == row[tick[t].row].attempts + 1
    IN  /\ tick[t].at = "error"
        /\ row' = [row EXCEPT ![tick[t].row] =
                     [status |-> IF attempts >= MAX_ATTEMPTS THEN "failed" ELSE "pending",
                      attempts |-> attempts]]
        /\ tick' = [tick EXCEPT ![t] = Idle]
        /\ UNCHANGED <<moved, runs, abandoned, callback, waiting, process, stops, lost>>

-----------------------------------------------------------------------------
(* The handler of the callback: it reads the claim and its events, records  *)
(* the result, and applies it in a transaction, each time after a wait.     *)
Continues(r, next) ==
    /\ callback' = [callback EXCEPT ![r] = next]
    /\ waiting' = IF next = "ended" THEN Tail(waiting) ELSE Append(Tail(waiting), r)

(* The claim is no longer VERIFYING: 409.                                   *)
Load(r) ==
    /\ Served(r) /\ callback[r] = "load"
    /\ Continues(r, IF r[1] \in moved THEN "ended" ELSE "record")
    /\ UNCHANGED <<row, moved, tick, runs, abandoned, process, stops, lost>>

Record(r) ==
    /\ Served(r) /\ callback[r] = "record"
    /\ Continues(r, "apply")
    /\ UNCHANGED <<row, moved, tick, runs, abandoned, process, stops, lost>>

Apply(r) ==
    /\ Served(r) /\ callback[r] = "apply"
    /\ Continues(r, "ended")
    /\ moved' = moved \cup {r[1]}
    /\ UNCHANGED <<row, tick, runs, abandoned, process, stops, lost>>

(* A statement fails: 500, which its caller takes for an answer.            *)
Break(r) ==
    /\ Served(r)
    /\ Continues(r, "ended")
    /\ lost' = lost \cup {r[1]}
    /\ UNCHANGED <<row, moved, tick, runs, abandoned, process, stops>>

-----------------------------------------------------------------------------
(* SIGTERM: no more intervals, no more requests.  What is under way runs on *)
(* until the server and the tracer have closed.                             *)
Stop ==
    /\ process = "up"
    /\ stops < MaxStops
    /\ process' = "stopping"
    /\ stops' = stops + 1
    /\ UNCHANGED <<row, moved, tick, runs, abandoned, callback, waiting, lost>>

\* Claims whose request has made no run yet; one tick holds the row of each.
Posted == {c \in Claim : \E t \in Tick : tick[t].at = "open" /\ tick[t].row = c}

(* process.exit, and the next process: transactions roll back, handlers and *)
(* the requests they were for are gone; those it had sent itself are not.   *)
Exit ==
    /\ process = "stopping"
    /\ process' = "up"
    /\ tick' = [t \in Tick |-> Idle]
    /\ Abandons(Posted)
    /\ callback' = [r \in Run |-> IF callback[r] = "none" THEN "none" ELSE "ended"]
    /\ waiting' = <<>>
    /\ lost' = lost \cup {r[1] : r \in {q \in Run : callback[q] \in {"load", "record", "apply"}}}
    /\ UNCHANGED <<row, moved, runs, stops>>

-----------------------------------------------------------------------------
Pool ==
    \/ \E t \in Tick : Begin(t)
    \/ \E r \in Run : Load(r) \/ Record(r) \/ Apply(r) \/ Break(r)

Return(t) == Answer(t) \/ GiveUp(t)

Commit(t) == MarkSent(t) \/ Reschedule(t)

Next ==
    \/ \E t \in Tick : Fire(t) \/ Verify(t) \/ Return(t) \/ Fail(t) \/ Commit(t)
    \/ \E c \in Claim : VerifyLate(c)
    \/ Pool
    \/ Stop \/ Exit

Spec == Init /\ [][Next]_vars

(* The pool gives a free connection to who waits first; verification-       *)
(* service answers or its client's timeout ends the wait; a tick with an    *)
(* answer commits.  Nothing says the interval fires, or a shutdown comes.   *)
Fairness ==
    /\ WF_vars(Pool)
    /\ \A t \in Tick : WF_vars(Verify(t)) /\ WF_vars(Return(t)) /\ WF_vars(Commit(t))

FairSpec == Spec /\ Fairness

-----------------------------------------------------------------------------
(* Though ticks may hold every connection while the answers they wait for   *)
(* need one, every tick ends, however few connections there are             *)
(* (verification-dispatcher.ts:28 against internal.routes.ts:34).           *)
TicksEnd == \A t \in Tick : tick[t].at # "idle" ~> tick[t].at = "idle"

(* A row is marked sent on an answer that says nothing of the result, and   *)
(* no poll returns to it: until its claim has moved, or a callback of it    *)
(* was lost, a callback is still queued for a connection, though no request *)
(* waits for that callback any more (verifications.py:118-140 against       *)
(* verification-dispatcher.ts:64-68).                                       *)
SentIsUnderWay ==
    \A c \in Claim : row[c].status = "sent" =>
        \/ c \in moved \cup lost
        \/ \E i \in DOMAIN waiting : waiting[i] \in Run /\ waiting[i][1] = c

(* A dispatch that was marked sent moves its claim in the end, also when    *)
(* verification-service gave up the callback and the call was answered      *)
(* before the result was applied; except when a callback of the claim       *)
(* failed in its handler, met a process that was stopping, or was lost on   *)
(* the network.                                                             *)
SentIsApplied ==
    \A c \in Claim : row[c].status = "sent" ~> c \in moved \/ c \in lost
=============================================================================
