-------------------------- MODULE DurableDispatch --------------------------
(***************************************************************************)
(* What a transactional outbox promises the service that writes to it,     *)
(* independently of polling, row locks, attempts and backoff: a queued     *)
(* call stays queued until it is settled, it is marked delivered only      *)
(* after the remote service has done the work at least once, a settled row *)
(* never changes again, and every queued row is settled in the end.  The   *)
(* remote side may do the work any number of times.                        *)
(***************************************************************************)
CONSTANT Row        \* rows of the outbox, one per idempotency key

VARIABLES
    state,          \* [Row -> {"absent", "pending", "sent", "failed"}]
    done            \* the rows whose work the remote service has done

dispatchVars == <<state, done>>

DispatchInit ==
    /\ state = [r \in Row |-> "absent"]
    /\ done = {}

\* The transaction that decides on the work inserts the row.
Queue(r) ==
    /\ state[r] = "absent"
    /\ state' = [state EXCEPT ![r] = "pending"]
    /\ UNCHANGED done

\* The remote service does the work: nothing dates it before the row settles,
\* since an abandoned request may still be served.
Work(r) ==
    /\ state[r] # "absent"
    /\ done' = done \cup {r}
    /\ UNCHANGED state

Deliver(r) ==
    /\ state[r] = "pending"
    /\ r \in done
    /\ state' = [state EXCEPT ![r] = "sent"]
    /\ UNCHANGED done

GiveUp(r) ==
    /\ state[r] = "pending"
    /\ state' = [state EXCEPT ![r] = "failed"]
    /\ UNCHANGED done

Settle(r) == Deliver(r) \/ GiveUp(r)

DispatchNext == \E r \in Row : Queue(r) \/ Work(r) \/ Settle(r)

DispatchSafety == DispatchInit /\ [][DispatchNext]_dispatchVars

DispatchSpec ==
    /\ DispatchSafety
    /\ \A r \in Row : WF_dispatchVars(Settle(r))

=============================================================================
