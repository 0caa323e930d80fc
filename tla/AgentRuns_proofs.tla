-------------------------- MODULE AgentRuns_proofs --------------------------
(***************************************************************************)
(* Proofs about AgentRuns, for any runs, claims, documents and requests in *)
(* flight: a run's state is whole, a completed run stays so, the index is  *)
(* one copy and a run cites its own, and the log tells of each run once.   *)
(***************************************************************************)
EXTENDS AgentRuns, FiniteSetTheorems, TLAPS

USE ItemsAssumption, StartsAssumption, DocsAssumption, RunNoneAssumption

Row == [claim : Claim \cup {None}, born : Nat, state : State,
        status : {"absent", "waiting", "completed"}]

Request ==
    [pc : {"idle", "started", "deleting", "indexed", "resuming", "notify", "recording"},
     run : Run \cup {None}, claim : Claim \cup {None}, born : Nat, docs : Nat,
     status : {"waiting", "completed"}, cites : SUBSET Run,
     targets : SUBSET Run, locked : SUBSET Run]

Starting(h) == handler[h].pc \in {"started", "deleting", "indexed"}

(* A start works on a run nobody sees yet, every other request on one that  *)
(* is committed.  What it loaded still holds unless a request for the same  *)
(* run overlapped, and that a run is completed holds for good.              *)
OnRun(h) ==
    LET own == handler[h]
    IN  /\ own.pc # "idle" => own.run \in Run /\ own.claim \in Claim
        /\ Starting(h) => run[own.run].status = "absent"
        /\ own.pc \in {"resuming", "notify", "recording"} => run[own.run].status # "absent"
        /\ own.pc = "resuming" =>
             /\ own.status = "waiting"
             /\ "resume" \notin raced => run[own.run].status = "waiting"
        /\ own.pc \in {"notify", "recording"} /\ own.status = "completed"
             => run[own.run].status = "completed"
        /\ own.pc = "recording" /\ "callback" \notin raced => log[own.run] = <<>>

(* Alone, a start deletes all of the index, and then sees its own chunks.   *)
OnIndex(h) ==
    LET own == handler[h]
    IN  "index" \notin raced =>
          /\ own.pc \in {"started", "deleting"} => own.cites = {}
          /\ own.pc = "deleting" => own.targets = index
          /\ own.pc = "indexed" => own.locked = index
          /\ own.pc \in {"indexed", "resuming"} => own.cites \subseteq {own.run}

(* What two requests may be doing at once, and what the histories say of it.*)
Apart(g, h) ==
    /\ Starting(h) => handler[g].run # handler[h].run
    /\ handler[g].run = handler[h].run =>
         /\ handler[g].pc = "resuming" /\ handler[h].pc = "resuming" => "resume" \in raced
         /\ handler[g].pc = "recording" /\ handler[h].pc = "recording" => "callback" \in raced
    /\ Indexing(g) /\ Indexing(h) => "index" \in raced

Rows ==
    \A r \in Run :
        /\ run[r].status # "absent" =>
             /\ run[r].claim \in Claim
             /\ run[r].state.dossier = run[r].state.docs
             /\ run[r].state.status = Outcome(run[r].state.docs)
             /\ "resume" \notin raced => run[r].status = run[r].state.status
             /\ "index" \notin raced => run[r].state.cites \subseteq {r}
        /\ log[r] # <<>> => run[r].status # "absent"
        /\ \A i \in 1..Len(log[r]) : log[r][i] = "completed" => run[r].status = "completed"
        /\ "callback" \notin raced => Len(log[r]) <= 1

OneCopy ==
    "index" \notin raced =>
        \/ index = {} /\ \A r \in Run : run[r].status = "absent"
        \/ \E r \in Run : index = {r} /\ run[r].status # "absent"

IInv ==
    /\ TypeOK
    /\ \A h \in Handler : OnRun(h) /\ OnIndex(h)
    /\ \A g, h \in Handler : g # h => Apart(g, h)
    /\ Rows /\ OneCopy

LEMMA IdleRequest == Idle \in Request /\ Idle.pc = "idle" /\ Idle.run = None
BY DEF Idle, Request

LEMMA Outcomes == \A n \in Nat : Outcome(n) \in {"waiting", "completed"}
BY DEF Outcome

(* The request h goes on with r, and the others stay as they are.           *)
LEMMA Turn ==
    ASSUME TypeOK, NEW h \in Handler, NEW r \in Request, Goes(h, r)
    PROVE  /\ handler' \in [Handler -> Request]
           /\ handler'[h] = r
           /\ \A g \in Handler \ {h} : handler'[g] = handler[g]
BY DEF TypeOK, Goes, Request

LEMMA Initially == Init => IInv
<1> SUFFICES ASSUME Init PROVE IInv
  OBVIOUS
<1>1. NoState \in State
  BY DEF NoState, State
<1>2. TypeOK
  BY <1>1 DEF Init, TypeOK, Idle
<1>3. \A h \in Handler : handler[h].pc = "idle" /\ handler[h].run = None
  BY IdleRequest DEF Init
<1>4. \A g, h \in Handler : OnRun(h) /\ OnIndex(h) /\ Apart(g, h)
  BY <1>3 DEF OnRun, OnIndex, Apart, Starting, Indexing
<1>5. Rows /\ OneCopy
  BY DEF Init, Rows, OneCopy
<1> QED
  BY <1>2, <1>4, <1>5 DEF IInv

(* A request takes a step of its own: what there is to show is about it.    *)
LEMMA OwnStep ==
    ASSUME IInv, NEW h \in Handler, NEW r \in Request, Goes(h, r),
           UNCHANGED <<run, index, log>>, started' \in 0..Starts,
           raced \subseteq raced', raced' \subseteq {"index", "resume", "callback"},
           OnRun(h)', OnIndex(h)',
           \A g \in Handler \ {h} : Apart(g, h)' /\ Apart(h, g)'
    PROVE  IInv'
<1>1. /\ handler' \in [Handler -> Request]
      /\ \A g \in Handler \ {h} : handler'[g] = handler[g]
  BY Turn DEF IInv
<1>2. TypeOK'
  BY <1>1 DEF IInv, TypeOK, Request
<1>3. ASSUME NEW g \in Handler PROVE OnRun(g)' /\ OnIndex(g)'
  <2>1. CASE g # h
    BY <1>1, <2>1 DEF IInv, OnRun, OnIndex, Starting
  <2> QED
    BY <2>1
<1>4. ASSUME NEW f \in Handler, NEW g \in Handler, f # g PROVE Apart(f, g)'
  <2>1. CASE f # h /\ g # h
    BY <1>1, <1>4, <2>1 DEF IInv, Apart, Starting, Indexing
  <2> QED
    BY <1>4, <2>1
<1>5. Rows' /\ OneCopy'
  BY DEF IInv, Rows, OneCopy, Outcome
<1> QED
  BY <1>2, <1>3, <1>4, <1>5 DEF IInv

(* A request that is over constrains nothing.                               *)
LEMMA AbandonKeeps ==
    ASSUME IInv, NEW h \in Handler, Abandon(h)
    PROVE  IInv'
<1>1. Goes(h, Idle) /\ UNCHANGED <<run, index, started, log, raced>>
  BY DEF Abandon
<1>2. /\ handler'[h] = Idle
      /\ \A g \in Handler \ {h} : handler'[g] = handler[g]
  BY <1>1, IdleRequest, Turn DEF IInv
<1>3. OnRun(h)' /\ OnIndex(h)'
  BY <1>2, IdleRequest DEF OnRun, OnIndex, Starting
<1>4. ASSUME NEW g \in Handler \ {h} PROVE Apart(g, h)' /\ Apart(h, g)'
  BY <1>2, IdleRequest DEF IInv, OnRun, Apart, Starting, Indexing
<1> QED
  BY <1>1, <1>3, <1>4, IdleRequest, OwnStep DEF IInv, TypeOK

LEMMA StartKeeps ==
    ASSUME IInv, NEW h \in Handler, NEW r \in Run, NEW c \in Claim, NEW docs \in Docs,
           Start(h, r, c, docs)
    PROVE  IInv'
<1> DEFINE now == started + 1
           own == [Idle EXCEPT !.pc = "started", !.run = r, !.claim = c, !.born = now, !.docs = docs]
<1>1. /\ Unused(r) /\ started < Starts /\ started' = started + 1
      /\ Goes(h, own)
      /\ UNCHANGED <<run, index, log, raced>>
  BY DEF Start
<1>2. started' \in 0..Starts /\ now \in Nat /\ docs \in Nat
  BY <1>1 DEF IInv, TypeOK
<1> HIDE DEF now
<1>3. own \in Request /\ own.pc = "started" /\ own.run = r /\ own.claim = c /\ own.cites = {}
  BY <1>2 DEF Idle, Request
<1> HIDE DEF own
<1>4. /\ handler'[h] = own
      /\ \A g \in Handler \ {h} : handler'[g] = handler[g]
  BY <1>1, <1>3, Turn DEF IInv
<1>5. OnRun(h)' /\ OnIndex(h)'
  BY <1>1, <1>3, <1>4 DEF Unused, OnRun, OnIndex, Starting
<1>6. ASSUME NEW g \in Handler \ {h} PROVE Apart(g, h)' /\ Apart(h, g)'
  <2>1. handler[g].run # r
    BY <1>1 DEF Unused
  <2> QED
    BY <1>3, <1>4, <2>1 DEF Apart, Starting, Indexing
<1> QED
  BY <1>1, <1>2, <1>3, <1>5, <1>6, OwnStep DEF IInv, TypeOK

(* The steps of a start before its commit.                                  *)
LEMMA IndexStepKeeps ==
    ASSUME IInv, NEW h \in Handler,
           BeginDelete(h) \/ EndDelete(h) \/ \E g \in Run : Extract(h, g)
    PROVE  IInv'
<1>0. handler[h] \in Request
  BY DEF IInv, TypeOK, Request
<1>1. /\ raced \subseteq raced' /\ raced' \subseteq {"index", "resume", "callback"}
      /\ UNCHANGED <<run, index, started, log>>
      /\ Starting(h)
  BY DEF BeginDelete, EndDelete, Extract, IInv, TypeOK, Starting
<1>2. PICK own \in Request :
        /\ Goes(h, own)
        /\ own.pc \in {"deleting", "indexed"}
        /\ own.run = handler[h].run /\ own.claim = handler[h].claim
        /\ OnIndex(h) /\ "index" \notin raced =>
             /\ own.pc = "deleting" => own.cites = {} /\ own.targets = index
             /\ own.pc = "indexed" => own.locked = index /\ own.cites \subseteq {own.run}
        /\ ~Indexing(h) => \A g \in Handler : Indexing(g) => "index" \in raced'
  <2>1. CASE BeginDelete(h)
    <3> DEFINE own == [handler[h] EXCEPT !.pc = "deleting", !.targets = index]
    <3>1. Goes(h, own) /\ handler[h].pc = "started"
      BY <2>1 DEF BeginDelete
    <3>2. /\ own \in Request /\ own.pc = "deleting" /\ own.targets = index
          /\ own.run = handler[h].run /\ own.claim = handler[h].claim
          /\ own.cites = handler[h].cites
      BY <1>0 DEF IInv, TypeOK, Request
    <3>3. \A g \in Handler : Indexing(g) => "index" \in raced'
      BY <2>1 DEF BeginDelete
    <3> HIDE DEF own
    <3> QED
      BY <3>1, <3>2, <3>3 DEF OnIndex
  <2>2. CASE EndDelete(h)
    <3> DEFINE own == [handler[h] EXCEPT !.pc = "indexed",
                                         !.locked = handler[h].targets \cap index]
    <3>1. Goes(h, own) /\ handler[h].pc = "deleting" /\ Indexing(h)
      BY <2>2 DEF EndDelete, Indexing
    <3>2. /\ own \in Request /\ own.pc = "indexed" /\ own.locked = handler[h].targets \cap index
          /\ own.run = handler[h].run /\ own.claim = handler[h].claim
          /\ own.cites = handler[h].cites
      BY <1>0 DEF IInv, TypeOK, Request
    <3> HIDE DEF own
    <3> QED
      BY <3>1, <3>2 DEF OnIndex
  <2>3. ASSUME NEW g \in Run, Extract(h, g)
        PROVE  \E own \in Request :
                 /\ Goes(h, own)
                 /\ own.pc \in {"deleting", "indexed"}
                 /\ own.run = handler[h].run /\ own.claim = handler[h].claim
                 /\ OnIndex(h) /\ "index" \notin raced =>
                      /\ own.pc = "deleting" => own.cites = {} /\ own.targets = index
                      /\ own.pc = "indexed" => own.locked = index /\ own.cites \subseteq {own.run}
                 /\ ~Indexing(h) => \A f \in Handler : Indexing(f) => "index" \in raced'
    <3> DEFINE own == [handler[h] EXCEPT !.cites = @ \cup {g}]
    <3>1. Goes(h, own) /\ handler[h].pc = "indexed" /\ Indexing(h)
          /\ g \in (index \ handler[h].locked) \cup {handler[h].run}
      BY <2>3 DEF Extract, Indexing, Visible
    <3>2. /\ own \in Request /\ own.pc = handler[h].pc /\ own.locked = handler[h].locked
          /\ own.run = handler[h].run /\ own.claim = handler[h].claim
          /\ own.cites = handler[h].cites \cup {g}
      BY <1>0 DEF Request
    <3> HIDE DEF own
    <3> QED
      BY <3>1, <3>2 DEF OnIndex
  <2> QED
    BY <2>1, <2>2, <2>3
<1>3. /\ handler'[h] = own
      /\ \A g \in Handler \ {h} : handler'[g] = handler[g]
  BY <1>2, Turn DEF IInv
<1>4. OnRun(h)' /\ OnIndex(h)'
  BY <1>1, <1>2, <1>3 DEF IInv, OnRun, OnIndex, Starting
<1>5. ASSUME NEW g \in Handler \ {h} PROVE Apart(g, h)' /\ Apart(h, g)'
  <2>1. Apart(g, h) /\ Apart(h, g)
    BY <1>5 DEF IInv
  <2> QED
    BY <1>1, <1>2, <1>3, <2>1 DEF Apart, Starting, Indexing
<1> QED
  BY <1>1, <1>2, <1>4, <1>5, OwnStep DEF IInv, TypeOK

LEMMA ResumeKeeps ==
    ASSUME IInv, NEW h \in Handler, NEW r \in Run, NEW docs \in Docs \cup {run[r].state.docs},
           Resume(h, r, docs)
    PROVE  IInv'
<1> DEFINE own == [Idle EXCEPT !.pc = "resuming", !.run = r, !.claim = run[r].claim,
                               !.docs = docs, !.status = run[r].status,
                               !.cites = run[r].state.cites]
<1>1. /\ run[r].status = "waiting" /\ Goes(h, own)
      /\ raced \subseteq raced' /\ raced' \subseteq {"index", "resume", "callback"}
      /\ "index" \notin raced' => "index" \notin raced
      /\ UNCHANGED <<run, index, started, log>>
  BY DEF Resume, IInv, TypeOK
<1>2. \A g \in Handler : handler[g].pc = "resuming" /\ handler[g].run = r => "resume" \in raced'
  BY DEF Resume
<1>3. run[r].claim \in Claim /\ docs \in Nat /\ run[r].state.cites \in SUBSET Run
  BY <1>1 DEF IInv, TypeOK, Rows, State
<1>4. /\ own \in Request /\ own.pc = "resuming" /\ own.run = r /\ own.claim \in Claim
      /\ own.status = "waiting" /\ own.cites = run[r].state.cites
  BY <1>1, <1>3 DEF Idle, Request
<1> HIDE DEF own
<1>5. /\ handler'[h] = own
      /\ \A g \in Handler \ {h} : handler'[g] = handler[g]
  BY <1>1, <1>4, Turn DEF IInv
<1>6. OnRun(h)' /\ OnIndex(h)'
  BY <1>1, <1>4, <1>5 DEF IInv, Rows, OnRun, OnIndex, Starting
<1>7. ASSUME NEW g \in Handler \ {h} PROVE Apart(g, h)' /\ Apart(h, g)'
  <2>1. Starting(g) => handler[g].run # r
    BY <1>1 DEF IInv, OnRun
  <2> QED
    BY <1>2, <1>4, <1>5, <2>1 DEF Apart, Starting, Indexing
<1> QED
  BY <1>1, <1>4, <1>6, <1>7, OwnStep DEF IInv, TypeOK

LEMMA DeliverKeeps ==
    ASSUME IInv, NEW h \in Handler, Deliver(h)
    PROVE  IInv'
<1> DEFINE own == [handler[h] EXCEPT !.pc = "recording"]
<1>0. handler[h] \in Request
  BY DEF IInv, TypeOK, Request
<1>1. /\ handler[h].pc = "notify" /\ log[handler[h].run] = <<>> /\ Goes(h, own)
      /\ raced \subseteq raced' /\ raced' \subseteq {"index", "resume", "callback"}
      /\ UNCHANGED <<run, index, started, log>>
  BY DEF Deliver, IInv, TypeOK
<1>2. \A g \in Handler : handler[g].pc = "recording" /\ handler[g].run = handler[h].run
                           => "callback" \in raced'
  BY DEF Deliver
<1>3. /\ own \in Request /\ own.pc = "recording" /\ own.run = handler[h].run
      /\ own.claim = handler[h].claim /\ own.status = handler[h].status
  BY <1>0 DEF Request
<1> HIDE DEF own
<1>4. /\ handler'[h] = own
      /\ \A g \in Handler \ {h} : handler'[g] = handler[g]
  BY <1>1, <1>3, Turn DEF IInv
<1>5. OnRun(h)' /\ OnIndex(h)'
  BY <1>1, <1>3, <1>4 DEF IInv, OnRun, OnIndex, Starting
<1>6. ASSUME NEW g \in Handler \ {h} PROVE Apart(g, h)' /\ Apart(h, g)'
  <2>1. Apart(g, h) /\ Apart(h, g)
    BY <1>6 DEF IInv
  <2> QED
    BY <1>1, <1>2, <1>3, <1>4, <2>1 DEF Apart, Starting, Indexing
<1> QED
  BY <1>1, <1>3, <1>5, <1>6, OwnStep DEF IInv, TypeOK

(* What a commit leaves in its request: the callback to send.               *)
LEMMA NotifyingRequest ==
    ASSUME NEW request \in Request
    PROVE  LET next == Notifying(request)
           IN  /\ next \in Request /\ next.pc = "notify" /\ next.run = request.run
               /\ next.claim = request.claim /\ next.status = Outcome(request.docs)
<1>1. Outcome(request.docs) \in {"waiting", "completed"}
  BY Outcomes DEF Request
<1> QED
  BY <1>1 DEF Notifying, Idle, Request

(* A commit of h writes the row of its run: what there is to show is about  *)
(* that row, and about what other requests know of it.                      *)
LEMMA CommitStep ==
    ASSUME IInv, NEW h \in Handler, NEW row \in Row,
           handler[h].run \in Run, handler[h].claim \in Claim,
           Goes(h, Notifying(handler[h])),
           run' = [run EXCEPT ![handler[h].run] = row],
           UNCHANGED <<started, log, raced>>,
           row.status \in {"waiting", "completed"}, row.claim \in Claim,
           row.state = Reached(handler[h]),
           Outcome(handler[h].docs) = "completed" => row.status = "completed",
           "resume" \notin raced => row.status = Outcome(handler[h].docs),
           "index" \notin raced => handler[h].cites \subseteq {handler[h].run},
           run[handler[h].run].status = "completed" => row.status = "completed",
           \A g \in Handler \ {h} :
             /\ Starting(g) => handler[g].run # handler[h].run
             /\ handler[g].pc = "resuming" /\ handler[g].run = handler[h].run
                  => "resume" \in raced,
           index' \in SUBSET Run, OneCopy',
           index' = index \/ \A g \in Handler \ {h} : Indexing(g) => "index" \in raced
    PROVE  IInv'
<1> DEFINE x == handler[h].run
<1>0. handler[h] \in Request
  BY DEF IInv, TypeOK, Request
<1>1. /\ handler' \in [Handler -> Request]
      /\ handler'[h] \in Request
      /\ handler'[h].pc = "notify" /\ handler'[h].run = x /\ handler'[h].claim = handler[h].claim
      /\ handler'[h].status = Outcome(handler[h].docs)
      /\ \A g \in Handler \ {h} : handler'[g] = handler[g]
  BY <1>0, NotifyingRequest, Turn DEF IInv
<1>2. run \in [Run -> Row] /\ x \in Run
  BY DEF IInv, TypeOK, Row
<1>3. /\ run' \in [Run -> Row] /\ run'[x] = row
      /\ \A r \in Run \ {x} : run'[r] = run[r]
  BY <1>2
<1>4. /\ row.state.docs = handler[h].docs /\ row.state.dossier = handler[h].docs
      /\ row.state.cites = handler[h].cites /\ row.state.status = Outcome(handler[h].docs)
  BY DEF Reached
<1>5. TypeOK'
  BY <1>1, <1>3 DEF IInv, TypeOK, Request, Row
<1>6. ASSUME NEW g \in Handler PROVE OnRun(g)' /\ OnIndex(g)'
  <2>1. CASE g = h
    BY <1>1, <1>3, <2>1 DEF OnRun, OnIndex, Starting
  <2>2. CASE g # h
    <3>1. OnRun(g)'
      BY <1>1, <1>3, <2>2 DEF IInv, OnRun, Starting
    <3>2. OnIndex(g)'
      BY <1>1, <2>2 DEF IInv, OnIndex, Indexing
    <3> QED
      BY <3>1, <3>2
  <2> QED
    BY <2>1, <2>2
<1>7. ASSUME NEW f \in Handler, NEW g \in Handler, f # g PROVE Apart(f, g)'
  BY <1>1, <1>7 DEF IInv, Apart, Starting, Indexing
<1>8. Rows'
  <2> SUFFICES ASSUME NEW r \in Run
               PROVE  /\ run'[r].status # "absent" =>
                           /\ run'[r].claim \in Claim
                           /\ run'[r].state.dossier = run'[r].state.docs
                           /\ run'[r].state.status = Outcome(run'[r].state.docs)
                           /\ "resume" \notin raced => run'[r].status = run'[r].state.status
                           /\ "index" \notin raced => run'[r].state.cites \subseteq {r}
                      /\ log[r] # <<>> => run'[r].status # "absent"
                      /\ \A i \in 1..Len(log[r]) : log[r][i] = "completed" => run'[r].status = "completed"
                      /\ "callback" \notin raced => Len(log[r]) <= 1
    BY DEF Rows, Outcome
  <2>1. CASE r = x
    BY <1>3, <1>4, <2>1 DEF IInv, Rows
  <2>2. CASE r # x
    BY <1>3, <2>2 DEF IInv, Rows
  <2> QED
    BY <2>1, <2>2
<1> QED
  BY <1>5, <1>6, <1>7, <1>8 DEF IInv

(* The first commit of a run: its row, and the index that is now its own.   *)
LEMMA CommitStartKeeps ==
    ASSUME IInv, NEW h \in Handler, CommitStart(h)
    PROVE  IInv'
<1> DEFINE x == handler[h].run
           row == [claim |-> handler[h].claim, born |-> handler[h].born,
                   status |-> Outcome(handler[h].docs), state |-> Reached(handler[h])]
<1>0. handler[h] \in Request
  BY DEF IInv, TypeOK, Request
<1>1. /\ handler[h].pc = "indexed" /\ Goes(h, Notifying(handler[h]))
      /\ run' = [run EXCEPT ![x] = row]
      /\ index' = (index \ handler[h].locked) \cup {x}
      /\ UNCHANGED <<started, log, raced>>
  BY DEF CommitStart
<1>2. /\ x \in Run /\ handler[h].claim \in Claim /\ run[x].status = "absent"
      /\ "index" \notin raced => handler[h].cites \subseteq {x} /\ handler[h].locked = index
  BY <1>1 DEF IInv, OnRun, OnIndex, Starting
<1>3. Outcome(handler[h].docs) \in {"waiting", "completed"}
  BY <1>0, Outcomes DEF Request
<1>4. Reached(handler[h]) \in State
  BY <1>0, <1>3 DEF Request, Reached, State
<1>5. /\ row \in Row /\ row.status = Outcome(handler[h].docs)
      /\ row.claim = handler[h].claim /\ row.state = Reached(handler[h])
  BY <1>0, <1>3, <1>4 DEF Request, Row
<1> HIDE DEF row
<1>6. \A g \in Handler \ {h} :
        /\ Starting(g) => handler[g].run # x
        /\ handler[g].pc = "resuming" /\ handler[g].run = x => "resume" \in raced
        /\ Indexing(g) => "index" \in raced
  BY <1>1, <1>2 DEF IInv, OnRun, Apart, Indexing
<1>7. run'[x] = row
  BY <1>1, <1>2 DEF IInv, TypeOK
<1>8. "index" \notin raced => index' = {x} /\ run'[x].status # "absent"
  BY <1>1, <1>2, <1>3, <1>5, <1>7
<1>9. index' \in SUBSET Run /\ OneCopy'
  BY <1>1, <1>2, <1>8 DEF IInv, TypeOK, OneCopy, Request
<1>10. /\ row.status \in {"waiting", "completed"} /\ row.claim \in Claim
       /\ Outcome(handler[h].docs) = "completed" => row.status = "completed"
       /\ run[x].status = "completed" => row.status = "completed"
  BY <1>2, <1>3, <1>5
<1>11. index' = index \/ \A g \in Handler \ {h} : Indexing(g) => "index" \in raced
  BY <1>6
<1> QED
  BY <1>1, <1>2, <1>5, <1>6, <1>9, <1>10, <1>11, CommitStep

(* Later commits: the status changes only to completed.                     *)
LEMMA CommitResumeKeeps ==
    ASSUME IInv, NEW h \in Handler, CommitResume(h)
    PROVE  IInv'
<1> DEFINE x == handler[h].run
           row == [run[x] EXCEPT !.status = IF Outcome(handler[h].docs) = handler[h].status
                                            THEN @ ELSE Outcome(handler[h].docs),
                                 !.state = Reached(handler[h])]
<1>0. handler[h] \in Request /\ run \in [Run -> Row]
  BY DEF IInv, TypeOK, Request, Row
<1>1. /\ handler[h].pc = "resuming" /\ Goes(h, Notifying(handler[h]))
      /\ run' = [run EXCEPT ![x] = row]
      /\ UNCHANGED <<index, started, log, raced>>
  BY DEF CommitResume, Flushed
<1>2. /\ x \in Run /\ handler[h].claim \in Claim
      /\ run[x].status # "absent" /\ handler[h].status = "waiting"
      /\ "resume" \notin raced => run[x].status = "waiting"
      /\ "index" \notin raced => handler[h].cites \subseteq {x}
      /\ run[x].claim \in Claim
  BY <1>1 DEF IInv, OnRun, OnIndex, Rows
<1>3. Outcome(handler[h].docs) \in {"waiting", "completed"}
  BY <1>0, Outcomes DEF Request
<1>4. Reached(handler[h]) \in State
  BY <1>0, <1>3 DEF Request, Reached, State
<1>5. /\ row \in Row /\ row.claim = run[x].claim /\ row.state = Reached(handler[h])
      /\ row.status = IF Outcome(handler[h].docs) = "waiting"
                      THEN run[x].status ELSE Outcome(handler[h].docs)
  <2>1. run[x] \in Row
    BY <1>0, <1>2
  <2> QED
    BY <1>2, <1>3, <1>4, <2>1 DEF Row
<1> HIDE DEF row
<1>6. \A g \in Handler \ {h} :
        /\ Starting(g) => handler[g].run # x
        /\ handler[g].pc = "resuming" /\ handler[g].run = x => "resume" \in raced
  BY <1>1 DEF IInv, Apart
<1>7. row.status \in {"waiting", "completed"}
  BY <1>0, <1>2, <1>3, <1>5 DEF Row
<1>8. run'[x] = row /\ \A r \in Run \ {x} : run'[r] = run[r]
  BY <1>0, <1>1, <1>2
<1>9. index' \in SUBSET Run /\ OneCopy'
  BY <1>1, <1>2, <1>7, <1>8 DEF IInv, TypeOK, OneCopy
<1> QED
  BY <1>1, <1>2, <1>3, <1>5, <1>6, <1>7, <1>9, CommitStep

(* The callback's event is the first of its run, or callbacks overlapped.   *)
LEMMA RecordKeeps ==
    ASSUME IInv, NEW h \in Handler, Record(h)
    PROVE  IInv'
<1> DEFINE x == handler[h].run
           status == handler[h].status
<1>1. /\ handler[h].pc = "recording" /\ Goes(h, Idle)
      /\ log' = [log EXCEPT ![x] = Append(@, status)]
      /\ UNCHANGED <<run, index, started, raced>>
  BY DEF Record
<1>2. /\ x \in Run /\ run[x].status # "absent" /\ status \in {"waiting", "completed"}
      /\ status = "completed" => run[x].status = "completed"
      /\ "callback" \notin raced => log[x] = <<>>
  BY <1>1 DEF IInv, OnRun, TypeOK
<1>3. log[x] \in Seq({"waiting", "completed"})
  BY <1>2 DEF IInv, TypeOK
<1>4. /\ Append(log[x], status) \in Seq({"waiting", "completed"})
      /\ Len(Append(log[x], status)) = Len(log[x]) + 1 /\ Len(log[x]) \in Nat
      /\ Append(log[x], status)[Len(log[x]) + 1] = status
      /\ \A i \in 1..Len(log[x]) : Append(log[x], status)[i] = log[x][i]
  BY <1>2, <1>3
<1>5. /\ log' \in [Run -> Seq({"waiting", "completed"})]
      /\ log'[x] = Append(log[x], status)
      /\ \A r \in Run \ {x} : log'[r] = log[r]
  BY <1>1, <1>2, <1>4 DEF IInv, TypeOK
<1>6. \A g \in Handler \ {h} :
        handler[g].pc = "recording" /\ handler[g].run = x => "callback" \in raced
  BY <1>1 DEF IInv, Apart
<1>7. /\ handler' \in [Handler -> Request]
      /\ handler'[h].pc = "idle" /\ handler'[h].run = None
      /\ \A g \in Handler \ {h} : handler'[g] = handler[g]
  BY <1>1, IdleRequest, Turn DEF IInv
<1> HIDE DEF x, status
<1>8. TypeOK'
  BY <1>1, <1>5, <1>7 DEF IInv, TypeOK, Request
<1>9. ASSUME NEW g \in Handler PROVE OnRun(g)' /\ OnIndex(g)'
  <2>1. CASE g = h
    BY <1>7, <2>1 DEF OnRun, OnIndex, Starting
  <2>2. CASE g # h
    BY <1>1, <1>5, <1>6, <1>7, <2>2 DEF IInv, OnRun, OnIndex, Starting
  <2> QED
    BY <2>1, <2>2
<1>10. ASSUME NEW f \in Handler, NEW g \in Handler, f # g PROVE Apart(f, g)'
  BY <1>1, <1>7, <1>10 DEF IInv, OnRun, Apart, Starting, Indexing
<1>11. Rows'
  <2> SUFFICES ASSUME NEW r \in Run
               PROVE  /\ log'[r] # <<>> => run[r].status # "absent"
                      /\ \A i \in 1..Len(log'[r]) :
                           log'[r][i] = "completed" => run[r].status = "completed"
                      /\ "callback" \notin raced => Len(log'[r]) <= 1
    BY <1>1 DEF IInv, Rows, Outcome
  <2>1. CASE r = x
    <3>1. "callback" \notin raced => Len(log'[r]) <= 1
      BY <1>2, <1>4, <1>5, <2>1
    <3>2. ASSUME NEW i \in 1..Len(log'[r]), log'[r][i] = "completed"
          PROVE  run[r].status = "completed"
      BY <1>2, <1>4, <1>5, <2>1, <3>2 DEF IInv, Rows
    <3> QED
      BY <1>2, <2>1, <3>1, <3>2
  <2>2. CASE r # x
    BY <1>5, <2>2 DEF IInv, Rows
  <2> QED
    BY <2>1, <2>2
<1>12. OneCopy'
  BY <1>1 DEF IInv, OneCopy
<1> QED
  BY <1>8, <1>9, <1>10, <1>11, <1>12 DEF IInv

-----------------------------------------------------------------------------
LEMMA Inductive == IInv /\ [Next]_vars => IInv'
<1> SUFFICES ASSUME IInv, [Next]_vars PROVE IInv'
  OBVIOUS
<1>1. ASSUME NEW h \in Handler, StartNext(h) PROVE IInv'
  BY <1>1, StartKeeps, IndexStepKeeps, CommitStartKeeps DEF StartNext
<1>2. ASSUME NEW h \in Handler, ResumeNext(h) PROVE IInv'
  BY <1>2, ResumeKeeps, CommitResumeKeeps DEF ResumeNext
<1>3. ASSUME NEW h \in Handler, CallbackNext(h) PROVE IInv'
  BY <1>3, DeliverKeeps, RecordKeeps, AbandonKeeps DEF CallbackNext
<1>4. CASE UNCHANGED vars
  BY <1>4 DEF vars, IInv, TypeOK, OnRun, OnIndex, Starting, Apart, Indexing, Rows, OneCopy, Outcome
<1> QED
  BY <1>1, <1>2, <1>3, <1>4 DEF Next

(* The inductive invariant holds in every reachable state.                  *)
THEOREM Invariance == Spec => []IInv
BY Initially, Inductive, PTL DEF Spec

(* TypeOK: runs, requests, the index and the log have the shapes the code   *)
(* gives them.                                                              *)
THEOREM TypeCorrect == Spec => []TypeOK
<1>1. IInv => TypeOK
  BY DEF IInv
<1> QED
  BY <1>1, Invariance, PTL

(* StateIsWhole: whatever starts and resumes overlap, a run's dossier shows *)
(* the evidence of its snapshot and its status follows from it.             *)
THEOREM WholeStates == Spec => []StateIsWhole
<1>1. IInv => StateIsWhole
  BY DEF IInv, Rows, StateIsWhole, Committed
<1> QED
  BY <1>1, Invariance, PTL

(* IndexIsOneCopy: unless two indexings overlapped, the index holds one copy*)
(* of the policy, and a run's findings cite its own.                        *)
THEOREM SingleCopy == Spec => []IndexIsOneCopy
<1>1. IInv => IndexIsOneCopy
  <2> SUFFICES ASSUME IInv, "index" \notin raced
               PROVE  /\ Cardinality(index) <= 1
                      /\ index = {} <=> Committed = {}
                      /\ \A r \in Committed : run[r].state.cites \subseteq {r}
    BY DEF IndexIsOneCopy
  <2>1. (index = {} /\ Committed = {}) \/ \E r \in Committed : index = {r}
    BY DEF IInv, OneCopy, Committed
  <2>2. Cardinality(index) = 0 \/ Cardinality(index) = 1
    <3>1. CASE index = {}
      BY <3>1, FS_EmptySet
    <3>2. CASE \E r \in Committed : index = {r}
      BY <3>2, FS_Singleton
    <3> QED
      BY <2>1, <3>1, <3>2
  <2>3. \A r \in Committed : run[r].state.cites \subseteq {r}
    BY DEF IInv, Rows, Committed
  <2> QED
    BY <2>1, <2>2, <2>3
<1> QED
  BY <1>1, Invariance, PTL

(* LoggedOnce: the event log of claims-service tells only of committed runs *)
(* and reached statuses, and once unless two callbacks overlapped.          *)
THEOREM ToldOnce == Spec => []LoggedOnce
<1>1. IInv => LoggedOnce
  BY DEF IInv, Rows, LoggedOnce, Committed
<1> QED
  BY <1>1, Invariance, PTL

(* CompletedIsFinal: no start takes the row of a run that is there, and a   *)
(* resume that loaded its run waiting never writes that back.               *)
THEOREM CompletionIsFinal == Spec => CompletedIsFinal
<1>1. IInv /\ [Next]_vars =>
        [\A r \in Run : run[r].status = "completed" => run'[r].status = "completed"]_vars
  <2> SUFFICES ASSUME IInv, Next, NEW r \in Run, run[r].status = "completed"
               PROVE  run'[r].status = "completed"
    OBVIOUS
  <2>0. run \in [Run -> Row]
    BY DEF IInv, TypeOK, Row
  <2>1. ASSUME NEW h \in Handler, CommitStart(h) PROVE run'[r].status = "completed"
    <3>1. handler[h].run # r
      BY <2>1 DEF CommitStart, IInv, OnRun, Starting
    <3> QED
      BY <2>0, <2>1, <3>1 DEF CommitStart
  <2>2. ASSUME NEW h \in Handler, CommitResume(h) PROVE run'[r].status = "completed"
    <3>1. /\ handler[h].status = "waiting" /\ run' = Flushed(handler[h])
          /\ handler[h].run \in Run
      BY <2>2 DEF CommitResume, IInv, OnRun
    <3>2. CASE handler[h].run # r
      BY <2>0, <3>1, <3>2 DEF Flushed
    <3>3. CASE handler[h].run = r
      <4>1. Outcome(handler[h].docs) \in {"waiting", "completed"}
        BY DEF Outcome
      <4>2. run[r] \in Row
        BY <2>0
      <4> QED
        BY <2>0, <3>1, <3>3, <4>1, <4>2 DEF Flushed, Row
    <3> QED
      BY <3>2, <3>3
  <2> QED
    BY <2>1, <2>2 DEF Next, StartNext, ResumeNext, CallbackNext, Start, BeginDelete, EndDelete,
       Extract, Resume, Deliver, Record, Abandon
<1> QED
  BY <1>1, Invariance, PTL DEF Spec, CompletedIsFinal
=============================================================================
