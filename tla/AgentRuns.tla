----------------------------- MODULE AgentRuns -----------------------------
(***************************************************************************)
(* agent-service: starting and resuming agent runs, the policy index they  *)
(* build and read on the way, and the callback that records them in        *)
(* claims-service's event log.  (routes/agent.py, workflow/graph.py,       *)
(* indexing.py, coverage_extraction.py; claims-service internal.routes.ts, *)
(* agent-update.)                                                          *)
(*                                                                         *)
(* A start is one database transaction from the insert of the run to the   *)
(* commit at its end, HTTP calls included; its rows are its own until      *)
(* then.  Statements run in READ COMMITTED: a DELETE acts on the rows that *)
(* were committed when it began, waits for those another transaction is    *)
(* deleting, and does not see rows committed while it waits.  Abandon is   *)
(* any error or crash: the transaction rolls back.                         *)
(*                                                                         *)
(* Retrieval filters by policy, so runs of different policies never meet:  *)
(* the claims here are claims on one policy.  It has text: one in which    *)
(* nothing is found is indexed as no chunks, and there is nothing to cite. *)
(* A claim's items are never none and its verification is a pass           *)
(* (graph.py:64-79 refuses the rest).                                      *)
(***************************************************************************)
EXTENDS Naturals, Sequences, FiniteSets

CONSTANTS
    Run,            \* ids of agent_runs
    Claim,          \* claims on the policy
    Handler,        \* requests that may be in flight together
    Docs,           \* numbers of evidence documents a request may name
    Items,          \* number of items of a claim
    Starts,         \* bound: starts in a behaviour
    None

ASSUME ItemsAssumption == Items \in Nat \ {0}
ASSUME StartsAssumption == Starts \in Nat
ASSUME DocsAssumption == Docs \subseteq Nat
ASSUME RunNoneAssumption == None \notin Run \cup Claim

VARIABLES
    run,            \* agent_runs, committed rows
    index,          \* policy_chunks, committed: the runs whose chunks are there
    started,        \* number of runs started: now() of a start's transaction
    log,            \* AGENT_DOSSIER_READY events of claims-service: statuses, per run
    handler,        \* requests in flight
    raced           \* history: what has overlapped (see the actions that add to it)

vars == <<run, index, started, log, handler, raced>>

\* run.state: the evidence of the claim snapshot, the evidence of the dossier, the runs
\* whose chunks the coverage findings cite, and the status the workflow ended with.
State == [docs : Nat, dossier : Nat, cites : SUBSET Run, status : {"waiting", "completed"}]

NoState == [docs |-> 0, dossier |-> 0, cites |-> {}, status |-> "waiting"]

TypeOK ==
    /\ run \in [Run -> [claim : Claim \cup {None}, born : Nat, state : State,
                        status : {"absent", "waiting", "completed"}]]
    /\ index \in SUBSET Run
    /\ started \in 0..Starts
    /\ log \in [Run -> Seq({"waiting", "completed"})]
    /\ raced \in SUBSET {"index", "resume", "callback"}
    /\ handler \in [Handler ->
         [pc : {"idle", "started", "deleting", "indexed", "resuming", "notify", "recording"},
          run : Run \cup {None}, claim : Claim \cup {None}, born : Nat, docs : Nat,
          status : {"waiting", "completed"}, cites : SUBSET Run,
          targets : SUBSET Run, locked : SUBSET Run]]

\* born, docs and cites are the run object's in memory, and status its status column as
\* loaded and later as set; targets and locked are the DELETE's.
Idle ==
    [pc |-> "idle", run |-> None, claim |-> None, born |-> 0, docs |-> 0,
     status |-> "waiting", cites |-> {}, targets |-> {}, locked |-> {}]

Init ==
    /\ run = [r \in Run |-> [claim |-> None, born |-> 0, status |-> "absent",
                             state |-> NoState]]
    /\ index = {}
    /\ started = 0
    /\ log = [r \in Run |-> <<>>]
    /\ handler = [h \in Handler |-> Idle]
    /\ raced = {}

Goes(h, request) == handler' = [handler EXCEPT ![h] = request]

\* _identify_missing_evidence and the end of run_from: fewer documents than items.
Outcome(docs) == IF docs < Items THEN "waiting" ELSE "completed"

-----------------------------------------------------------------------------
(* POST /v1/agent/claims/:id/start.                                         *)

\* A run id is fresh: no row and no open transaction has it.
Unused(r) == run[r].status = "absent" /\ \A h \in Handler : handler[h].run # r

(* INSERT of the run and its flush: the transaction begins, and created_at  *)
(* is the time it began.                                                    *)
Start(h, r, c, docs) ==
    /\ handler[h] = Idle
    /\ Unused(r)
    /\ started < Starts
    /\ started' = started + 1
    /\ Goes(h, [Idle EXCEPT !.pc = "started", !.run = r, !.claim = c,
                            !.born = started + 1, !.docs = docs])
    /\ UNCHANGED <<run, index, log, raced>>

Indexing(h) == handler[h].pc \in {"deleting", "indexed"}

(* Mutant: the old chunks are left in place.                                *)
BeginDeleteNothing(h) ==
    /\ handler[h].pc = "started"
    /\ Goes(h, [handler[h] EXCEPT !.pc = "deleting"])
    /\ raced' = IF \E g \in Handler : Indexing(g) THEN raced \cup {"index"} ELSE raced
    /\ UNCHANGED <<run, index, started, log>>

(* The policy is downloaded, chunked and embedded; DELETE FROM policy_chunks*)
(* begins: it will delete what is committed now.  Two transactions between  *)
(* their DELETE and their end have overlapped.                              *)
BeginDelete(h) ==
    /\ handler[h].pc = "started"
    /\ Goes(h, [handler[h] EXCEPT !.pc = "deleting", !.targets = index])
    /\ raced' = IF \E g \in Handler : Indexing(g) THEN raced \cup {"index"} ELSE raced
    /\ UNCHANGED <<run, index, started, log>>

(* The DELETE ends once no other transaction holds one of its rows: those   *)
(* still there are this transaction's, and its own chunks are inserted.     *)
EndDelete(h) ==
    LET own == handler[h]
    IN  /\ own.pc = "deleting"
        /\ \A g \in Handler \ {h} : handler[g].locked \cap own.targets = {}
        /\ Goes(h, [own EXCEPT !.pc = "indexed", !.locked = own.targets \cap index])
        /\ UNCHANGED <<run, index, started, log, raced>>

\* The chunks a statement of h sees: the committed ones it did not delete, and its own.
Visible(h) == (index \ handler[h].locked) \cup {handler[h].run}

(* retrieve() for one item, and a finding that cites some of the chunks.    *)
Extract(h, g) ==
    /\ handler[h].pc = "indexed"
    /\ g \in Visible(h)
    /\ Goes(h, [handler[h] EXCEPT !.cites = @ \cup {g}])
    /\ UNCHANGED <<run, index, started, log, raced>>

\* The state of run_from: the dossier and the missing evidence are always redone.
Reached(request) ==
    [docs |-> request.docs, dossier |-> request.docs, cites |-> request.cites,
     status |-> Outcome(request.docs)]

Notifying(request) ==
    [Idle EXCEPT !.pc = "notify", !.run = request.run, !.claim = request.claim,
                 !.status = Outcome(request.docs)]

CommitStart(h) ==
    LET own == handler[h]
    IN  /\ own.pc = "indexed"
        /\ run' = [run EXCEPT ![own.run] =
             [claim |-> own.claim, born |-> own.born, status |-> Outcome(own.docs),
              state |-> Reached(own)]]
        /\ index' = (index \ own.locked) \cup {own.run}
        /\ Goes(h, Notifying(own))
        /\ UNCHANGED <<started, log, raced>>

-----------------------------------------------------------------------------
(* POST /v1/agent/claims/:id/resume.                                        *)

\* _latest_run_for_claim: the committed run of the claim that began last.
Latest(r) ==
    /\ run[r].status # "absent"
    /\ \A s \in Run : run[s].claim = run[r].claim => run[s].born <= run[r].born

(* Mutant: a completed run may be resumed.                                  *)
ResumeAny(h, r, docs) ==
    /\ handler[h] = Idle
    /\ Latest(r)
    /\ Goes(h, [Idle EXCEPT !.pc = "resuming", !.run = r, !.claim = run[r].claim,
                            !.docs = docs, !.status = run[r].status,
                            !.cites = run[r].state.cites])
    /\ UNCHANGED <<run, index, started, log, raced>>

(* The latest run, if it waits; the body's documents, or those of the       *)
(* snapshot.  Two resumes of one run overlap between here and the commit.   *)
Resume(h, r, docs) ==
    /\ handler[h] = Idle
    /\ Latest(r)
    /\ run[r].status = "waiting"
    /\ docs \in Docs \cup {run[r].state.docs}
    /\ Goes(h, [Idle EXCEPT !.pc = "resuming", !.run = r, !.claim = run[r].claim,
                            !.docs = docs, !.status = run[r].status,
                            !.cites = run[r].state.cites])
    /\ raced' = IF \E g \in Handler : handler[g].pc = "resuming" /\ handler[g].run = r
                THEN raced \cup {"resume"} ELSE raced
    /\ UNCHANGED <<run, index, started, log>>

\* UPDATE agent_runs by SQLAlchemy: the status column is written if the value set differs
\* from the value loaded, the state always (flag_modified).
Flushed(request) ==
    LET row == run[request.run]
    IN  [run EXCEPT ![request.run] =
          [row EXCEPT !.status = IF Outcome(request.docs) = request.status
                                 THEN @ ELSE Outcome(request.docs),
                      !.state  = Reached(request)]]

(* Mutant: the workflow resumes one node late, after the dossier.           *)
CommitResumeLate(h) ==
    LET own == handler[h]
    IN  /\ own.pc = "resuming"
        /\ run' = [Flushed(own) EXCEPT ![own.run].state.dossier = run[own.run].state.dossier]
        /\ Goes(h, Notifying(own))
        /\ UNCHANGED <<index, started, log, raced>>

CommitResume(h) ==
    LET own == handler[h]
    IN  /\ own.pc = "resuming"
        /\ run' = Flushed(own)
        /\ Goes(h, Notifying(own))
        /\ UNCHANGED <<index, started, log, raced>>

-----------------------------------------------------------------------------
(* _notify_claims_service, and claims-service's agent-update: one read of   *)
(* the log and one insert, each committed on its own.                       *)

(* Mutant: the log is not consulted.                                        *)
DeliverUnchecked(h) ==
    /\ handler[h].pc = "notify"
    /\ Goes(h, [handler[h] EXCEPT !.pc = "recording"])
    /\ UNCHANGED <<run, index, started, log, raced>>

(* The run is not in the log.  Two callbacks for one run overlap between    *)
(* here and the insert.                                                     *)
Deliver(h) ==
    LET own == handler[h]
    IN  /\ own.pc = "notify"
        /\ log[own.run] = <<>>
        /\ Goes(h, [own EXCEPT !.pc = "recording"])
        /\ raced' = IF \E g \in Handler : handler[g].pc = "recording" /\ handler[g].run = own.run
                    THEN raced \cup {"callback"} ELSE raced
        /\ UNCHANGED <<run, index, started, log>>

Record(h) ==
    LET own == handler[h]
    IN  /\ own.pc = "recording"
        /\ log' = [log EXCEPT ![own.run] = Append(@, own.status)]
        /\ Goes(h, Idle)
        /\ UNCHANGED <<run, index, started, raced>>

(* An error, a crash, a lost callback, or a callback for a logged run.      *)
Abandon(h) ==
    /\ handler[h] # Idle
    /\ Goes(h, Idle)
    /\ UNCHANGED <<run, index, started, log, raced>>

-----------------------------------------------------------------------------
StartNext(h) ==
    \/ \E r \in Run, c \in Claim, docs \in Docs : Start(h, r, c, docs)
    \/ BeginDelete(h) \/ EndDelete(h) \/ CommitStart(h)
    \/ \E g \in Run : Extract(h, g)

ResumeNext(h) ==
    \/ \E r \in Run : \E docs \in Docs \cup {run[r].state.docs} : Resume(h, r, docs)
    \/ CommitResume(h)

CallbackNext(h) == Deliver(h) \/ Record(h) \/ Abandon(h)

Next == \E h \in Handler : StartNext(h) \/ ResumeNext(h) \/ CallbackNext(h)

Spec == Init /\ [][Next]_vars

Committed == {r \in Run : run[r].status # "absent"}

-----------------------------------------------------------------------------
(* Whatever overlaps, a run's state is whole: the dossier shows the         *)
(* evidence of the snapshot it is stored with, and the status stored with   *)
(* it says whether that evidence is enough.                                 *)
StateIsWhole ==
    \A r \in Committed :
        /\ run[r].state.dossier = run[r].state.docs
        /\ run[r].state.status = Outcome(run[r].state.docs)
        /\ "resume" \notin raced => run[r].status = run[r].state.status

(* "Agent run is not awaiting resume": a completed run stays completed,     *)
(* even when a resume that loaded it waiting commits later with less.       *)
CompletedIsFinal ==
    [][\A r \in Run : run[r].status = "completed" => run'[r].status = "completed"]_vars

(* Unless two indexings overlapped, the index holds one copy of the policy, *)
(* that of the latest commit, and a run's findings cite its own copy only.  *)
IndexIsOneCopy ==
    "index" \notin raced =>
        /\ Cardinality(index) <= 1
        /\ index = {} <=> Committed = {}
        /\ \A r \in Committed : run[r].state.cites \subseteq {r}

(* The event log of claims-service tells of runs only what was committed: a *)
(* status the run had reached, completed only if it is, and, unless two     *)
(* callbacks for one run overlapped, once however often it is resumed       *)
(* ("idempotent on the agent run id", internal.routes.ts:131-132).          *)
LoggedOnce ==
    \A r \in Run :
        /\ log[r] # <<>> => r \in Committed
        /\ \A i \in 1..Len(log[r]) : log[r][i] = "completed" => run[r].status = "completed"
        /\ "callback" \notin raced => Len(log[r]) <= 1

-----------------------------------------------------------------------------
(* "Never a mix of old and new chunks visible to a concurrent retrieval     *)
(* once that commit lands" (indexing.py:24-29).                             *)
NeverMixed == Cardinality(index) <= 1
=============================================================================
