----------------------------- MODULE RateLimiter -----------------------------
(***************************************************************************)
(* The fixed-window rate limiter of the login and the upload routes, for   *)
(* one key, from a start of its process to the next.  (packages/           *)
(* rate-limit-ts/src/index.ts.)  Time is Date.now(), in milliseconds, and  *)
(* does not step back.                                                     *)
(***************************************************************************)
EXTENDS Integers, FiniteSets

CONSTANTS
    windowMs, maxAttempts,
    MaxTime         \* bound: the clock

ASSUME WindowAssumption == windowMs \in Nat \ {0}
ASSUME AttemptsAssumption == maxAttempts \in Nat \ {0}

VARIABLES
    now,
    entry,          \* windows.get(key); no entry is one whose window is over
    admitted,       \* history: calls that passed, with their number in their window
    refused         \* history: times of the calls that were refused

limiterVars == <<now, entry, admitted, refused>>

NoEntry == [count |-> 0, resetAt |-> 0]

LimiterTypeOK ==
    /\ now \in Nat
    /\ entry \in [count : 0..maxAttempts, resetAt : Nat]
    /\ admitted \in SUBSET [at : Nat, from : Nat, n : 1..maxAttempts]
    /\ refused \in SUBSET Nat

LimiterInit ==
    /\ now = 0
    /\ entry = NoEntry
    /\ admitted = {}
    /\ refused = {}

-----------------------------------------------------------------------------
Tick ==
    /\ now < MaxTime
    /\ now' = now + 1
    /\ UNCHANGED <<entry, admitted, refused>>

InWindow == entry.resetAt > now

(* consume(key): the first call of a window ...                             *)
StartWindow ==
    /\ ~InWindow
    /\ entry' = [count |-> 1, resetAt |-> now + windowMs]
    /\ admitted' = admitted \cup {[at |-> now, from |-> now, n |-> 1]}
    /\ UNCHANGED <<now, refused>>

(* Mutant: the comparison admits one more.                                  *)
AdmitOneMore ==
    /\ InWindow
    /\ entry.count <= maxAttempts
    /\ entry' = [entry EXCEPT !.count = @ + 1]
    /\ admitted' = admitted \cup
         {[at |-> now, from |-> entry.resetAt - windowMs, n |-> entry.count + 1]}
    /\ UNCHANGED <<now, refused>>

(* ... one within its budget ...                                            *)
Admit ==
    /\ InWindow
    /\ entry.count < maxAttempts
    /\ entry' = [entry EXCEPT !.count = @ + 1]
    /\ admitted' = admitted \cup
         {[at |-> now, from |-> entry.resetAt - windowMs, n |-> entry.count + 1]}
    /\ UNCHANGED <<now, refused>>

(* ... and one beyond: 429.                                                 *)
RefuseAttempt ==
    /\ InWindow
    /\ entry.count >= maxAttempts
    /\ refused' = refused \cup {now}
    /\ UNCHANGED <<now, entry, admitted>>

(* The process starts again: the windows are gone, and with them what the   *)
(* limiter promises about the calls before.                                 *)
Restart ==
    /\ entry' = NoEntry
    /\ admitted' = {}
    /\ refused' = {}
    /\ UNCHANGED now

LimiterNext == Tick \/ StartWindow \/ Admit \/ RefuseAttempt \/ Restart

LimiterSpec == LimiterInit /\ [][LimiterNext]_limiterVars

-----------------------------------------------------------------------------
Between(s, t) == {a \in admitted : s <= a.at /\ a.at < t}

(* What a fixed window is worth: however the boundaries fall, a stretch of  *)
(* the window's length sees less than twice the budget admitted (the call   *)
(* that opens a window is its first, so the budgets of two never meet in    *)
(* full), and nobody is refused who has not spent the whole budget within   *)
(* the last one.                                                            *)
Metered ==
    /\ \A t \in 0..now : Cardinality(Between(t, t + windowMs)) <= 2 * maxAttempts - 1
    /\ \A t \in refused : Cardinality(Between(t - windowMs + 1, t + 1)) >= maxAttempts
=============================================================================
