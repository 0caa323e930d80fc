----------------------------- MODULE ClaimDraft -----------------------------
(***************************************************************************)
(* One claim while its owner fills it in, submits it and it is verified:   *)
(* the claim row, its items, its evidence links, the snapshot that goes to *)
(* verification-service and the one that goes to agent-service.            *)
(* (claims-service routes/claims.routes.ts, lib/agent-dispatch.ts.)        *)
(*                                                                         *)
(* Every statement outside db.transaction() commits on its own, so a       *)
(* request is a handler that loads the claim, awaits, and writes from its  *)
(* copy; an action is one statement.  The submit's transaction and the one *)
(* that queues the agent run are one action each: they write the claim row *)
(* first, and no property relates what two of their statements read.       *)
(* ClaimsPipeline has which of them run, how often and in which order.     *)
(***************************************************************************)
EXTENDS Naturals, FiniteSets, FiniteSetsExt

CONSTANTS
    Item,           \* ids claim_items may draw
    Paise,          \* claimed values of an item
    Field,          \* columns PUT /v1/claims/:id writes
    Required,       \* those a submit insists on: incident date, address, city
    Doc,            \* the owner's ready evidence documents
    Handler,        \* requests that may be in flight together
    MaxVersion,     \* bound: versions
    None

ASSUME PaiseAssumption == Paise \subseteq Nat
ASSUME RequiredAssumption == Required \subseteq Field
ASSUME DraftNoneAssumption == None \notin Item \cup Paise \cup Field

VARIABLES
    status,         \* claims.status: DRAFT, VERIFYING, VERIFIED
    version,        \* claims.version
    filled,         \* the columns of Field that hold a value
    amount,         \* claims.claimedAmountPaise
    items,          \* claim_items: claimedValuePaise of each row
    links,          \* claim_evidence_links
    sent,           \* payloads of verification_dispatch_outbox
    briefed,        \* payloads of agent_dispatch_outbox
    handler,        \* requests in flight
    raced           \* which requests have overlapped or died halfway (see Races)

row == <<status, version, filled, amount>>
vars == <<row, items, links, sent, briefed, handler, raced>>

ItemRows(table) == {i \in Item : table[i] # None}

\* totalRows.reduce(..): the sum over one SELECT of the items.
Total(table) == MapThenSumSet(LAMBDA i : table[i], ItemRows(table))

Table == [Item -> Paise \cup {None}]
Payload == [filled : SUBSET Field, amount : Nat, items : Table, docs : SUBSET Doc]

ItemOp == {"add", "update", "delete"}

TypeOK ==
    /\ status \in {"DRAFT", "VERIFYING", "VERIFIED"}
    /\ version \in 1..MaxVersion
    /\ filled \in SUBSET Field
    /\ amount \in Nat
    /\ items \in Table
    /\ links \in SUBSET Doc
    /\ sent \in SUBSET Payload
    /\ briefed \in SUBSET Payload
    /\ raced \in SUBSET {"items", "submit"}
    /\ handler \in [Handler ->
         [op : ItemOp \cup {"none", "edit", "submit", "verdict"},
          step : {"idle", "loaded", "found", "written", "items", "links", "total"},
          version : Nat, filled : SUBSET Field, amount : Nat,
          item : Item \cup {None}, items : Table, docs : SUBSET Doc]]

NoItems == [i \in Item |-> None]

\* version, filled and amount are the copy of the row (amount is the new total in an item
\* request, which needs no copy); item is the row found; items and docs are a submit's.
NoRequest ==
    [op |-> "none", step |-> "idle", version |-> 0, filled |-> {}, amount |-> 0,
     item |-> None, items |-> NoItems, docs |-> {}]

Init ==
    /\ status = "DRAFT"
    /\ version = 1
    /\ filled = {}
    /\ amount = 0
    /\ items = NoItems
    /\ links = {}
    /\ sent = {}
    /\ briefed = {}
    /\ handler = [h \in Handler |-> NoRequest]
    /\ raced = {}

InFlight(ops) == \E h \in Handler : handler[h].op \in ops

(* History for the properties: "items" once two item requests overlapped,   *)
(* or one died between its write and its total; "submit" once a submit      *)
(* overlapped a request that writes the claim or its items.                 *)
Races(op) ==
    raced' = raced
        \cup (IF op \in ItemOp /\ InFlight(ItemOp) THEN {"items"} ELSE {})
        \cup (IF \/ op = "submit" /\ InFlight(ItemOp \cup {"edit"})
                 \/ op \in ItemOp \cup {"edit"} /\ InFlight({"submit"})
              THEN {"submit"} ELSE {})

At(h, op, step) == handler[h].op = op /\ handler[h].step = step

Copy(op) == [NoRequest EXCEPT !.op = op, !.step = "loaded", !.version = version,
                              !.filled = filled, !.amount = amount]

Goes(h, request) == handler' = [handler EXCEPT ![h] = request]

-----------------------------------------------------------------------------
(* POST, PUT and DELETE /v1/claims/:id/items.                               *)

(* Mutant: no check that the claim is a draft.                              *)
LoadAnyForItem(h, op) ==
    /\ handler[h] = NoRequest
    /\ Races(op)
    /\ Goes(h, [NoRequest EXCEPT !.op = op, !.step = "loaded"])
    /\ UNCHANGED <<row, items, links, sent, briefed>>

LoadForItem(h, op) ==
    /\ handler[h] = NoRequest
    /\ status = "DRAFT"
    /\ Races(op)
    /\ Goes(h, [NoRequest EXCEPT !.op = op, !.step = "loaded"])
    /\ UNCHANGED <<row, items, links, sent, briefed>>

(* The id is fresh: no row and no other request knows it.                   *)
InsertItem(h, i, p) ==
    /\ At(h, "add", "loaded")
    /\ items[i] = None
    /\ \A g \in Handler : handler[g].item # i
    /\ items' = [items EXCEPT ![i] = p]
    /\ Goes(h, [handler[h] EXCEPT !.step = "written"])
    /\ UNCHANGED <<row, links, sent, briefed, raced>>

FindItem(h, i) ==
    /\ handler[h].op \in {"update", "delete"}
    /\ handler[h].step = "loaded"
    /\ items[i] # None
    /\ Goes(h, [handler[h] EXCEPT !.step = "found", !.item = i])
    /\ UNCHANGED <<row, items, links, sent, briefed, raced>>

(* Mutant: an update leaves the total alone.                                *)
UpdateItemOnly(h, p) ==
    /\ At(h, "update", "found")
    /\ items[handler[h].item] # None
    /\ items' = [items EXCEPT ![handler[h].item] = p]
    /\ Goes(h, NoRequest)
    /\ UNCHANGED <<row, links, sent, briefed, raced>>

(* A body without a value writes back the one found: some p.  An item gone  *)
(* since is an error before the total is read: Abandon.                     *)
UpdateItem(h, p) ==
    /\ At(h, "update", "found")
    /\ items[handler[h].item] # None
    /\ items' = [items EXCEPT ![handler[h].item] = p]
    /\ Goes(h, [handler[h] EXCEPT !.step = "written", !.item = None])
    /\ UNCHANGED <<row, links, sent, briefed, raced>>

(* Mutant: a deletion leaves the total alone.                               *)
DeleteItemOnly(h) ==
    /\ At(h, "delete", "found")
    /\ items' = [items EXCEPT ![handler[h].item] = None]
    /\ Goes(h, NoRequest)
    /\ UNCHANGED <<row, links, sent, briefed, raced>>

(* An item gone since is no error here.                                     *)
DeleteItem(h) ==
    /\ At(h, "delete", "found")
    /\ items' = [items EXCEPT ![handler[h].item] = None]
    /\ Goes(h, [handler[h] EXCEPT !.step = "written", !.item = None])
    /\ UNCHANGED <<row, links, sent, briefed, raced>>

ReadTotal(h) ==
    /\ handler[h].step = "written"
    /\ Goes(h, [handler[h] EXCEPT !.step = "total", !.amount = Total(items)])
    /\ UNCHANGED <<row, items, links, sent, briefed, raced>>

WriteTotal(h) ==
    /\ handler[h].step = "total"
    /\ amount' = handler[h].amount
    /\ Goes(h, NoRequest)
    /\ UNCHANGED <<status, version, filled, items, links, sent, briefed, raced>>

-----------------------------------------------------------------------------
(* PUT /v1/claims/:id and POST /v1/claims/:id/evidence-links.               *)

LoadForEdit(h) ==
    /\ handler[h] = NoRequest
    /\ status = "DRAFT"
    /\ Races("edit")
    /\ Goes(h, Copy("edit"))
    /\ UNCHANGED <<row, items, links, sent, briefed>>

(* Every column is written: the body's value, or the copy's for a column    *)
(* the body leaves out.  A body that empties a text is left out: '' is      *)
(* written like any other value, and a submit then takes it for missing.    *)
WriteEdit(h, f) ==
    /\ At(h, "edit", "loaded")
    /\ handler[h].version < MaxVersion
    /\ filled' = handler[h].filled \cup {f}
    /\ version' = handler[h].version + 1
    /\ Goes(h, NoRequest)
    /\ UNCHANGED <<status, amount, items, links, sent, briefed, raced>>

(* One insert that ignores a duplicate; the claim's status is not looked at.*)
Link(d) ==
    /\ links' = links \cup {d}
    /\ UNCHANGED <<row, items, sent, briefed, handler, raced>>

-----------------------------------------------------------------------------
(* POST /v1/claims/:id/submit: the reads that make up the snapshot.         *)

LoadForSubmit(h) ==
    /\ handler[h] = NoRequest
    /\ status = "DRAFT"
    /\ Races("submit")
    /\ Goes(h, Copy("submit"))
    /\ UNCHANGED <<row, items, links, sent, briefed>>

ReadItems(h) ==
    /\ At(h, "submit", "loaded")
    /\ ItemRows(items) # {}
    /\ Required \subseteq handler[h].filled
    /\ Goes(h, [handler[h] EXCEPT !.step = "items", !.items = items])
    /\ UNCHANGED <<row, items, links, sent, briefed, raced>>

ReadLinks(h) ==
    /\ At(h, "submit", "items")
    /\ links # {}
    /\ Goes(h, [handler[h] EXCEPT !.step = "links", !.docs = links])
    /\ UNCHANGED <<row, items, links, sent, briefed, raced>>

Snapshot(r, table, docs) ==
    [filled |-> r.filled, amount |-> r.amount, items |-> table, docs |-> docs]

(* The claim row is written whatever its status is by now: only the key     *)
(* and its ledger row, not modelled here, stop a repeated submit.           *)
CommitSubmit(h) ==
    LET r == handler[h]
    IN  /\ At(h, "submit", "links")
        /\ r.version < MaxVersion
        /\ status' = "VERIFYING"
        /\ version' = r.version + 1
        /\ sent' = sent \cup {Snapshot(r, r.items, r.docs)}
        /\ Goes(h, NoRequest)
        /\ UNCHANGED <<filled, amount, items, links, briefed, raced>>

-----------------------------------------------------------------------------
(* The verdict (a verification result, or an administrator's approval) and  *)
(* queueAgentDispatch: the row as the request loaded it, the items and the  *)
(* links as they are now.                                                   *)

LoadForVerdict(h) ==
    /\ handler[h] = NoRequest
    /\ status = "VERIFYING"
    /\ Goes(h, Copy("verdict"))
    /\ UNCHANGED <<row, items, links, sent, briefed, raced>>

(* Mutant: the agent is briefed with no evidence.                           *)
QueueAgentNoEvidence(h) ==
    LET r == handler[h]
    IN  /\ At(h, "verdict", "loaded")
        /\ r.version < MaxVersion
        /\ status' = "VERIFIED"
        /\ version' = r.version + 1
        /\ briefed' = briefed \cup {Snapshot(r, items, {})}
        /\ Goes(h, NoRequest)
        /\ UNCHANGED <<filled, amount, items, links, sent, raced>>

QueueAgent(h) ==
    LET r == handler[h]
    IN  /\ At(h, "verdict", "loaded")
        /\ r.version < MaxVersion
        /\ status' = "VERIFIED"
        /\ version' = r.version + 1
        /\ briefed' = briefed \cup {Snapshot(r, items, links)}
        /\ Goes(h, NoRequest)
        /\ UNCHANGED <<filled, amount, items, links, sent, raced>>

(* A refusal, a failed statement or a crash ends a request where it is.     *)
Abandon(h) ==
    /\ handler[h] # NoRequest
    /\ raced' = IF handler[h].step \in {"written", "total"} THEN raced \cup {"items"} ELSE raced
    /\ Goes(h, NoRequest)
    /\ UNCHANGED <<row, items, links, sent, briefed>>

-----------------------------------------------------------------------------
ItemNext(h) ==
    \/ \E op \in ItemOp : LoadForItem(h, op)
    \/ \E i \in Item : FindItem(h, i)
    \/ \E i \in Item, p \in Paise : InsertItem(h, i, p)
    \/ \E p \in Paise : UpdateItem(h, p)
    \/ DeleteItem(h) \/ ReadTotal(h) \/ WriteTotal(h)

Next ==
    \/ \E d \in Doc : Link(d)
    \/ \E h \in Handler :
         \/ ItemNext(h)
         \/ LoadForEdit(h) \/ \E f \in Field : WriteEdit(h, f)
         \/ LoadForSubmit(h) \/ ReadItems(h) \/ ReadLinks(h) \/ CommitSubmit(h)
         \/ LoadForVerdict(h) \/ QueueAgent(h)
         \/ Abandon(h)

Spec == Init /\ [][Next]_vars

-----------------------------------------------------------------------------
(* As long as item requests neither overlapped nor died halfway, the        *)
(* claimed amount is the sum of the items whenever none is in flight,       *)
(* whatever edits, submits and verdicts did meanwhile: those write the row  *)
(* but not its amount.                                                      *)
AmountIsTotal ==
    "items" \notin raced /\ ~InFlight(ItemOp) => amount = Total(items)

(* A snapshot put together by four reads is one state of the claim: with no *)
(* writer overlapping the submit, the amount verification-service is told   *)
(* is the sum of the items it is told.                                      *)
SnapshotConsistent ==
    raced = {} => \A s \in sent : s.amount = Total(s.items)

\* Past DRAFT, and the requests that saw the draft have ended.
Drained == status # "DRAFT" /\ ~InFlight(ItemOp \cup {"edit"})

(* "Only a draft claim can be edited": past DRAFT, and once the requests    *)
(* that saw the draft have ended, no new one starts whatever verdicts and   *)
(* late submits still write, and the items, the details and the amount are  *)
(* those an assessor sees for good.                                         *)
FrozenOnceDrained ==
    [][Drained => Drained' /\ UNCHANGED <<items, filled, amount>>]_vars

(* agent-service is briefed on the claim that was verified: the same        *)
(* details, items and amount, and at least the evidence.                    *)
BriefedAsVerified ==
    raced = {} => \A b \in briefed : \E s \in sent :
        /\ <<b.filled, b.items, b.amount>> = <<s.filled, s.items, s.amount>>
        /\ s.docs \subseteq b.docs

-----------------------------------------------------------------------------
(* "Optimistic locking for concurrent updates to the same claim" (schema.ts *)
(* :132): an edit never undoes another.  The bodies here set a column each  *)
(* and empty none, so what is filled in stays.                              *)
NoLostEdit == [][filled \subseteq filled']_vars
=============================================================================
