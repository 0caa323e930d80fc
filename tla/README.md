# Recovery AI: specifications and proofs

TLA+ models of the claim platform in `src/`, the TLC runs that check them on small
instances, and theorems about them that TLAPS checks for every instance.
`PROJECT.json` is the machine-readable index: components, runs, mutants, the map from
definitions to source lines, findings, hazards, theorems.

All services are stateless processes over a database; a request is a handler that reads,
awaits and writes from what it read. So the state of every model is the rows of a database
(and of the stores, pages and services next to it) plus one record per request in flight,
and an action is one statement, one transaction or one remote call. Requests interleave at
every await, several instances of a service may run, and any request may stop at any action:
that is where the hard behaviour of this system is. The pages are the same from the other
side: a function of a page runs up to its next await, on the state of the render its button
was pressed in, and the call it waits for may be answered late, twice overtaken, or never.

## 1. Inventory

| Component | State | Operations | Module |
|---|---|---|---|
| claims-service, state machine (`domain/claim-state-machine.ts`) | none | `canTransition` | ClaimStateMachine |
| claims-service, draft (`routes/claims.routes.ts`, `lib/agent-dispatch.ts`) | `claims`, `claim_items`, `claim_evidence_links`, payloads of both outboxes | items, PUT, links, submit, agent payload | ClaimDraft |
| claims-service, pipeline (`claims.routes.ts` submit, `internal.routes.ts`, `admin.routes.ts`) | `claims.status/version`, `claim_events`, `idempotency_keys`, `manual_review_tasks`, two outboxes | submit, verification-result, resolve | ClaimsPipeline |
| claims-service, pollers (`workers/*-dispatcher.ts`) | outbox rows: status, attempts, next attempt | tick | OutboxDispatcher, abstractly DurableDispatch |
| claims-service, one process (`index.ts`, `db/client.ts`; `service-runtime/server.ts`) | pooled connections, intervals, requests in flight | tick, callback, SIGTERM, exit | ConnectionPool |
| claims-service, policies and clients (`routes/policies.routes.ts`, `lib/*-client.ts`) | `policies` | register, gates before link and submit | Onboarding |
| verification-service (`routes/verifications.py`) | `verification_runs` | create a run, call back, give the callback up | OutboxDispatcher (Serve), ClaimsPipeline (CompleteRun), ConnectionPool (Verify, GiveUp) |
| verification-service, scoring (`scoring/engine.py`) | none | completeness, weights, decision | Assessment |
| agent-service, runs (`routes/agent.py`, `workflow/graph.py`, `indexing.py`, `retrieval.py`) | `agent_runs`, `policy_chunks` | start, resume, re-index, call back | AgentRuns |
| agent-service, pure functions (`chunking.py`, `entitlement.py`, `negotiation/value_model.py`) | none | chunks, band, value model | Chunking, Assessment |
| auth-service (`domain/sessions.ts`, `routes/*.ts`) | `users`, `sessions` | login, refresh, logout, logout-all, disable, enable | Sessions |
| identity-service (`routes/kyc.routes.ts`) | `kyc_cases` | open, complete by mock or webhook | KycCases |
| evidence-service (`routes/documents.routes.ts`, object store) | `documents`, objects, presigned URLs | initiate, complete, upload, delete | Documents |
| rate limiter (`packages/rate-limit-ts`) | a window per key | `consume`, restart | RateLimiter |
| platform-web, session and proxy (`lib/auth-context.tsx`, `lib/backend-proxy.ts`, login, navigation) | a user per tab, one cookie | first refresh, `/me`, login, logout | WebSession, over Sessions |
| platform-web, claim wizard (`app/claims/new/page.tsx`, `components/upload-field.tsx`) | the page's step, claim, items, photos, key | create, details, add item, upload, link, submit | ClaimWizard |
| item ledger, providers, internal signing, profiles, shell services, other pages, sandbox applications | see PROJECT.json | | not modelled |

How they interact. A submit writes the claim, its log and an outbox row in one transaction.
A poller posts the row to verification-service, which creates a run and calls back, best
effort and without retry, before it answers the poller; the callback's handler needs
connections of the pool the poller's transaction holds one of. The callback records the
result, then moves the claim to VERIFIED (and queues an agent run) or MANUAL_REVIEW (and
opens a task); an administrator resolves the task. The second poller posts to agent-service,
which indexes the policy, extracts coverage, builds a dossier and calls back in turn. Submit,
links and policies ask identity-service and evidence-service over HTTP first. A browser
reaches all of it through the proxy of platform-web, with an access token its page keeps and
a refresh cookie its tabs share.

What is hard, and what makes each part correct:

- **Checks on stale rows.** Almost every write is `WHERE id = ...` after a check on an earlier
  read; `claims.version` is written and never compared. Which facts survive that, and which
  do not, is the question of ClaimsPipeline, ClaimDraft, Documents and KycCases.
- **At-least-once delivery.** The poller holds its transaction across the POST; a rollback
  after the work was done does it again, and the remote service keeps no key. Duplicates
  must be paid for by failures, and must not apply twice in claims-service.
- **Half-done sequences.** Session rotation, disabling an account, the callback, the total of
  the items, the creation of a claim and its first event, deletion of a document: several
  statements with no transaction around them.
- **Shared index.** Runs of all claims on a policy replace the same chunks under READ
  COMMITTED.
- **Lost, late and repeated calls of a page.** Two tabs refresh with one cookie; a button
  that is not disabled creates a second claim; an answer comes back to a page that moved on.
  What the page shows, what is stored and what is filed must still agree.
- **Everyone waiting on everyone.** Ticks may hold the whole pool while the answers they wait
  for need a connection of it; a shutdown cuts what is under way.
- **Boundaries.** Attempts, chunk overlap, score thresholds, truncation, clamping, the edge of
  a rate window.

## 2. Modules

| Module | Role |
|---|---|
| ClaimStateMachine | the table of legal transitions, used by ClaimsPipeline |
| DurableDispatch | abstract specification: what an outbox promises its writer |
| SessionFamily | abstract specification: what rotation of refresh tokens promises |
| OutboxDispatcher | the pollers in detail; refines DurableDispatch |
| ConnectionPool | a poller's ticks, the callbacks they cause and the connections both need; shutdown |
| ClaimsPipeline | submit, dispatch, verification, callback, review; its verification outbox refines DurableDispatch |
| ClaimDraft | the data a claim carries: amount, items, evidence, the two payloads |
| ClaimWizard | one visit of the page that files a claim, over what its calls do on the server |
| AgentRuns | agent runs, the policy index, the agent callback |
| Sessions, extended by WebSession | auth-service, which refines SessionFamily, and the pages of one browser whose calls are steps of Sessions |
| Documents, KycCases, composed by Onboarding | evidence-service, identity-service, and the gates in claims-service that ask them |
| RateLimiter | the fixed window of one key |
| Chunking, extended by Assessment | pure functions |
| MC* | instances with symmetry or bounded inputs; three of them run two parts that share no state, or two sets of clients of one, side by side |
| *_proofs | theorems |

An action has the name of what the handler does in that step: `Load*` the reads and checks
up to the first write, `Commit*` and `Write*` the writes, `Abandon*` a handler that ends
there (refusal, error, crash; a transaction rolls back). The reads before a check are one
action with the check where nothing another request may write lies between them and matters
later; where it does, they are separate (`ReadItems`, `ReadLinks`, `ReadTotal`, `Stat`). A
`db.transaction` that locks the row its properties speak about is one action.

Some parts of the code are in two models, each along what its properties tell apart.
ClaimsPipeline has every request, run, task and key and no data; ClaimDraft has the data of
one claim and no duplicate submits or callbacks; ClaimWizard has several claims, the order a
page asks for things in and the page's own state, and takes the statements ClaimDraft and
Documents take apart as one step. OutboxDispatcher has attempts, back-off and rollbacks and
any remote service; ConnectionPool has the one remote service that calls back, and what a
tick costs while it waits. In WebSession every step of the server is a step of Sessions by
conjunction, which the theorem BrowserUsesSessions makes a refinement.

Variables named `raced`, `crossed`, `contested`, `late`, `split`, `ended`, `halfway`,
`rewritten`, `loggedOut`, `astray`, `kept`, `alarmed`, `doubled`, `missed`, `lost`, `overtaken` are history
variables: no guard reads them (one bound of MCSessions does, and says why it may). They note
that two requests overlapped, or an answer was lost, in a way that is known to cost something,
so that the properties say exactly under which accident the promise is kept. The mutants show
those conditions do not swallow the property: each is violated by a plausible bug without such
an accident.

## 3. Runs

Every property of a passing run has a mutant in PROJECT.json: a plausible bug in one mapped
definition that makes TLC find the property violated under the same configuration. Types are
part of the inductive invariants the proofs use, and no property of a run.

| Run | Instance | What it shows |
|---|---|---|
| OutboxDispatcher | 2 rows, 2 ticks, 3 attempts, 1 rollback per row | a row is given up exactly when its attempts are used up (FailedIffExhausted); every extra execution is owed to a failed attempt or a rollback, also when the work is done after the caller had given it up (DuplicatesAccounted); DurableDispatch is implemented with its liveness; every queued row is settled |
| ClaimsPipeline | 1 claim, 2 keys, 2 runs, 1 task, 2 submits, 2 callbacks, 2 reviews | one submission per key and a dispatch for a submitted claim; the log tells the status; one agent run per approval and for a verified claim; results precede moves; tasks agree with the log; a claim leaves the graph only by a handler another had overtaken (LegalUnlessOvertaken) |
| ClaimDraft | 2 items of 1 or 2 paise, 1 field, 1 document, 2 requests, 4 versions | amount and snapshots agree with the items, the agent is briefed on what was verified, a submitted claim is frozen |
| AgentRuns | 2 runs, 2 claims on a policy, 2 requests, 2 items, 3 starts | a run's state is whole, one copy in the index, logged once, completed is final |
| Sessions | 3 sessions, 2 requests, version up to 2; any client, or 2 tabs of one browser | a family is one chain of sessions (FamiliesAreChains: SessionFamily is implemented), answers only after the old token is spent, revoked families stay dead, disabled accounts are out; no false alarm of theft, the cookie keeps up with the rotations, a logout holds |
| Onboarding | 1 document, 2 requests on it, 2 cases, 2 completions, 1 gate; or a visit of the wizard with 2 claims, 2 items, 2 photos, 2 calls | a ready document is stored, deletions last, verdicts are final, a submitted claim's conditions had held; the wizard shows what is saved, reviews what can be submitted, files one claim |
| ConnectionPool | 2 claims, 2 ticks, 2 connections, 1 attempt, 1 shutdown, late requests of one claim | every tick ends though ticks may hold the whole pool, and no callback waits for one that waits for it (TicksAloneBlock); a row that is sent has its callback under way (SentIsUnderWay) and applied in the end, or a callback failed, met a shutdown or was lost on the network |
| Assessment | pages of up to 8 characters, chunk 4, overlap 2; all signals over 7 confidences, around the ties and thresholds; up to 2 items; or a limiter of window 3 and budget 2 up to time 8 | no clause lost by the chunker, decisions justified and monotone however the score rounds, the band of an item, of a claim and of the negotiation over it, and value models, ordered and bounded; a stretch of a window's length admits less than two budgets and nobody is refused unspent |
| IllegalTransition | 1 review task, 2 reviews | counterexample: VERIFIED to REJECTED |
| LostVerificationResult | 2 runs, 2 callbacks | counterexample: a result recorded and never applied |
| LostEdit | 2 fields, 2 requests | counterexample: an edit undone by another |
| MixedIndex | 2 starts on one policy | counterexample: two copies in the index |

Why the bounds are enough. Conflicts in this code are between two requests about one row,
so two of each kind that can meet are what is needed, and a third would repeat the second.
One claim is enough for ClaimsPipeline because no statement touches two claims, except
through a shared idempotency key, which is ClaimWizard's case: it has two claims and one key.
MAX_ATTEMPTS is 3 for TLC and 5 in the code: 3 has a first, a middle and a last attempt, and
the theorems hold for any; ConnectionPool takes 1, since what an attempt costs the pool does
not depend on its number. Two ticks on two connections can hold the whole pool and leave both
callbacks waiting, and one that fires again waits with them; a third would repeat that. Late
names the claims whose requests may be served after their caller gave up: one of the two,
since such a request meets nobody else's row. The confidences of Assessment are counted in
1/8000, because the threshold for what is denied, 0.425125, is 3401 of them and 0.7 is 5600:
the values on and next to both are in the run, and with 3401 the score lies half-way between
two numbers of four digits, where Noise lets it round either way. Sessions stops where the refreshes
of a second family overlap or break off, which would repeat the first (OneSplit); its browser's
part where every family has met with an accident, or a second has (OneAccident): no property
speaks of such a family.
Attempts, starts, versions, rollbacks, shutdowns and the clock are bounded by MAX_ATTEMPTS,
Starts, MaxVersion, MaxRollbacks, MaxStops and MaxTime; ids run out where a module draws from
a finite set. Constants small enough to look odd (chunk size 4) keep the proportions that
matter: overlap smaller than size, pages of one, two and three chunks. `CHECK_DEADLOCK FALSE`
stands where ids, keys and versions run out, so that a behaviour ends by the bound, or where
an assessment is over. MCOnboarding gives requests and ids that are alike in its two parts
the same model values, so that one symmetry serves both; the two runs with liveness use none.

**Fairness** is assumed in two modules. In OutboxDispatcher `setInterval` starts a tick for
ever, so a tick that can claim a row does (weak fairness of Claim per tick); `fetch` and the
database answer or fail in the end (Call, Commit); time passes (BackoffElapses). Nothing is
assumed of the remote service beyond an answer or an error, and none of a rollback not
happening: MaxRollbacks bounds those, since a service that crashes at every tick delivers
nothing. In ConnectionPool the pool gives a free connection to who waits first (Pool),
verification-service answers or its client's ten seconds end the wait (Return; Verify), and
a tick with an answer commits (Commit). Nothing says there that an interval fires, that a
process is stopped or that one in the middle of stopping exits. The other models state safety
only: verification-service's callback is sent once and never retried, so the code promises no
progress there.

## 4. Theorems

Proved by TLAPS with no bound on the constants, from the named assumptions of each module.

- **OutboxDispatcher_proofs.** `IInv` is inductive: types; one tick per row; a tick holds
  only a pending row (this makes the row lock a fact about rows); attempts match status;
  a tick that has an answer has work done; and *RequestsAccounted*, which counts requests
  served and requests still under way that nobody waits for (the call timed out, or its tick
  rolled back) against attempts, rollbacks and the tick that holds the row.
  DuplicatesAccounted is not inductive without the last: a request that was given up is
  served later, and has to be paid for before it is. From IInv
  follow TypeCorrect, RowLock, Exhaustion, BoundedDuplicates, and Refinement: each step is a
  step of DurableDispatch or a stutter.
- **ClaimsPipeline_proofs.** `Typed` = TypeOK and References (what handlers and rows refer
  to exists; the schema has no foreign keys that say so). SubmittedOnce and ApprovedOnce hold the
  dispatches too: submitted claims have dispatch rows and verified ones agent runs, although
  stale handlers may move a claim back.
  VerificationRefinement: the outbox refines DurableDispatch's safety here too. The rest is
  about the log, which only grows: the last move it tells is the status (with *PastDraft*:
  what a key submitted is no draft any more); each approval has one agent run and each key
  one submission, by counting positions of the log; a verdict comes after its result (with
  *AppliesRecorded*: a handler past its record is in the log); and TasksTell, where *TasksTold*
  counts tasks against referrals and adds what makes that inductive: only the claim of a task
  tells of its resolution, and none does while it is open. LegalMoves and ComparingSuffices
  are about the run IllegalTransition, which shows that the code may leave the graph of
  legal transitions: LegalMoves says a handler does so only when another has moved the claim
  since it read it, and ComparingSuffices that the graph is kept in every behaviour in which
  no write overtakes a read, so that comparing `version` at each write, which the code does
  not do, is all that is missing. Both rest on *UpToDate*: no handler holds a version above
  the claim's, and what one that holds this version is about to write is a legal move from
  the claim's present status.
- **ClaimDraft_proofs.** Amounting and Freezing. The invariant adds to types which step each
  kind of request can be at, and that without overlap a request in its turn holds the
  latest rows, so what it writes last is the total. Snapshotting and Briefing add *Settled*:
  without accidents nobody writes the claim while a submit holds a copy of it, and past
  DRAFT the claim is what some submit sent, so a verdict's copy is that too.
- **AgentRuns_proofs.** WholeStates, SingleCopy, ToldOnce, CompletionIsFinal. The invariant
  says of each request at each step what it holds of its run (*OnRun*) and of the index
  (*OnIndex*), keeps the chunk ids of two indexings apart (*Apart*), relates the columns of a
  run to its state (*Rows*), and says when the index is one copy (*OneCopy*).
- **Onboarding_proofs.** StoredWhenReady, ConditionsHeld, DeletionIsFinal, VerdictsAreFinal,
  over *DocInv*, *KycInv* and *GateInv*: a completion that found the object finds it still
  unless a deletion or an upload crossed it; a case two completions do not contest is
  undecided while one is under way; what a gate was told stays so, since verified users and
  ready documents remain that.
- **Sessions_proofs.** EndedForGood, LoggedOut, RotatedOnAnswer and Rotation, for any number
  of sessions and of requests in flight. Each needs what requests still hold in their hands:
  a request that may yet insert into an ended family was crossed by the end, or works on a
  late session (*EndSeen*); one past the check of a disabled account was crossed
  (*DisableSeen*); the token a rotation will answer with reached nobody yet, and no two
  rotations make the same (*Succeeds*, *OwnNext*). OneLive (one session of a family is
  alive) rests on *OneRotation* (a family that is not split has one rotation at a time),
  *OldOrNew* (while it runs, the old and the new session are) and *OneAlive* (otherwise one is): LoadSession, which begins a
  rotation, is where the three meet. The proof first says of every action what it does field
  by field (the `...Does` lemmas), then that it keeps the invariant (`...Keeps`).
  Rotation: Sessions refines SessionFamily. What stands for a family (*Stands*) is the session
  a refresh has found alive, until that refresh is through, and otherwise the session that is
  alive. Most steps only lose what stood (*Loses*: none rises, none falls but by revocation), a
  login issues, RevokeOld hands over. InsertNext changes nothing of the abstraction, and a
  revocation that crosses a refresh counts as coming before it, or as one of the new session.
  BrowserUsesSessions: the pages' behaviours are behaviours of Sessions, so the four hold of
  a browser as of any client. AlarmsAreReal, CookieIsCurrent and LogoutIsEnough are about the
  browser alone, over *BrowserInv*: barring accidents a family has one call at a time (*OneCall*),
  which carries the cookie if the cookie is of the family (*JarAgrees*); how far the call has
  come says what is alive of the family and whose token it is (*Stages*), and with no call the
  cookie rests (*JarRests*): it is the family's last, and alive unless it outlived a logout.
- **Onboarding_proofs, of ClaimWizard.** SingleFiling: a visit files one claim at most,
  and the page leaves only for a claim that is filed. The invariant: calls name the claim they are for; a page
  past its first step has a claim; the ledger tells what was filed; one claim unless two
  creations overlapped. AutoSaved (ShownIsSaved) and Submittable (ReviewIsSubmittable) add
  *VisitInv*: what a call was sent with, and what it will answer, is stored and stays so;
  items, links and rows are of the page's one claim; and one item is under way at a time,
  whose row is all that the page does not show yet, unless an answer was missed.
- **Assessment_proofs.** WholeStretches: for every document, size and smaller overlap; the
  invariant says where the loop is on its page and that every short stretch that ends before
  the end of the last chunk is whole already. Justified, in any unit for the confidences and
  with any tie rounded either way: from bounds on each score, monotonicity of the weighted sum
  (*SumMonotone*: a better signal weighs more than the noise) and the distance of a score from
  its sum (*ScoreNearSum*). ItemBand and ModelOrdered: one item's band and the value
  model, for all amounts; BandNegotiable: the sums over a claim's items are ordered as its
  items are, so the band of a claim is one and the negotiation stays in it, for any number of
  items. A sum over a list is a recursive function, and what it is for every list is shown by
  the least number of items for which it would not be (*LeastNumber*) and one step of its
  definition (*SumUnfolds*). Metering, of RateLimiter: the calls of a stretch of a window's
  length lie in two windows at most, each holds numbers up to the budget, and the first call
  of the later one is not in the stretch together with all of the earlier.

- **ConnectionPool_proofs.** PoolShared: ticks never hold more than the pool, no two the same
  row, and whoever waits for a connection is in the queue, once. NoCircularWait
  (*TicksAloneBlock*): the first of the queue has a call to make and is served at once unless
  ticks hold every connection, and such a tick needs no other to go on. SentUnderWay
  (SentIsUnderWay): a row that is sent has moved its claim, lost a callback, or has one in the
  queue, whether or not a request waits for it still. These are the safety halves of the run's
  two liveness properties. The invariant says that the queue lists exactly the waiters
  (*NobodyForgotten*, over lemmas on who joins and leaves a list), counts connections
  (*WithinPool*), and relates rows, ticks, runs and callbacks; *RunsCounted*, a run made or
  still to be made per attempt, rolled-back transaction and call under way, is what bounds the
  ids of runs.

Only model-checked: the liveness properties (QueuedIsSettled, the liveness half of
ImplementsOutbox, TicksEnd, SentIsApplied). Liveness under fairness and ENABLED are out of
this prover's reach. So are the library's induction theorems, which take an operator, and
modules with RECURSIVE operators, of which the project has none: where a proof needed
induction over data it argues from a least counterexample instead.

## 5. Where code and documentation disagree

PROJECT.json lists the findings with the lines they quote. Four are counterexamples of a run:
a review resolved twice takes an illegal transition; a callback that stops after recording
its result loses it; `version` locks nothing; two starts leave two copies of a policy's
chunks. The others were met while reading and modelling: exhausted dispatches reach no review
task, access tokens are not checked against `token_version`, logout-all may lower it, agent
runs are persisted once and not per node, the completion of a resumed run is never logged,
the entitlement band is computed through a float and its deductions are unbounded, a KYC
verdict can be overwritten, the wizard's first button creates a second claim when it is
pressed again while it waits, and signup's rate limit has a fresh key per request.

## 6. Not modelled

Wording, logging, tracing, pagination, read-only routes, ownership checks and roles;
password hashing and request signing; time other than the rate limiter's (expiry and back-off
are "it may have passed by now", `created_at` is commit order); PDF text, embeddings and
ranking; the content of model answers beyond their type. Of the web applications, the pages
that only list or hold one form (claims, policy, profile, KYC, admin): each shows what one
call returned, and the calls are in Onboarding, KycCases and ClaimsPipeline from the server's
side. The item ledger is not called by any code yet. Three inputs are left out of a model that
has the handler they go to: a PUT that empties a text of a draft with `''` (ClaimDraft), an
object without a byte (Documents) and a policy in which no text is found (AgentRuns).
Confidences are taken to lie between 0 and 1, as those of the mock providers do; the floats of
scoring are modelled as numbers of up to 14 decimals with a bounded error of the sum, those of
a model's findings as hundredths. PROJECT.json says why per component.

## 7. Plan

Done, in this order: DurableDispatch and OutboxDispatcher with proofs; ClaimStateMachine and
ClaimsPipeline with proofs; ClaimDraft with proofs; AgentRuns; Sessions; Documents, KycCases,
Onboarding; Chunking and Assessment with proofs; then RateLimiter and ClaimWizard with proofs,
ConnectionPool, WebSession; and the proofs of Sessions, the browser's included, AgentRuns,
Onboarding with its two parts, all of ClaimWizard, the review tasks of ClaimsPipeline and the
snapshots of ClaimDraft. Then the proofs of ConnectionPool, the band of a whole claim, the moves
of ClaimsPipeline (legal unless overtaken, and legal where versions are compared), and
SessionFamily with its refinement.

What would come next, in order of weight:

1. An abstract claim that ClaimsPipeline refines where no handler is overtaken, for which
   LegalMoves is the step and the log the history.
2. The agent dispatch composed with AgentRuns: a start per outbox row, retried starts, the
   deduplicated completion of a resumed run as a run of its own.
3. The KYC page and the administrator's list of reviews over KycCases and ClaimsPipeline;
   the item ledger once something calls it.
