----------------------------- MODULE ClaimWizard -----------------------------
(***************************************************************************)
(* One visit of the page that files a claim, and what its calls do on the  *)
(* server: incident details, items, evidence, review.  (platform-web       *)
(* claims/new/page.tsx, upload-field.tsx; claims-service                   *)
(* routes/claims.routes.ts; the calls go through backend-proxy.ts.)        *)
(*                                                                         *)
(* The page's functions run up to their next await, on the state of the    *)
(* render their button was pressed in.  A call goes on on the server       *)
(* whether or not the page still waits for it: the page may see it fail    *)
(* while it succeeds.  The statements that ClaimDraft and Documents take   *)
(* apart (the total, the reads of a submit, the upload) are one step here; *)
(* a visit is all the owner does to its claims.                            *)
(***************************************************************************)
EXTENDS Naturals, FiniteSets

CONSTANTS
    Claim,          \* ids of claims
    Row,            \* ids of claim_items
    Photo,          \* ids of evidence documents
    Call,           \* calls that may be under way together
    Nil

ASSUME WizardNilAssumption == Nil \notin Claim \cup Row \cup Photo

VARIABLES
    claim,          \* claims: status, the incident's details, the CLAIM_CREATED event
    row,            \* claim_items: the claim of each row
    evidence,       \* claim_evidence_links: <<claim, document>>
    stored,         \* documents that are ready
    ledger,         \* idempotency_keys: the claim filed under the visit's key
    filing,         \* what the outbox row of that key says, and what the page showed
    page,           \* the page's state
    call,           \* calls under way
    doubled,        \* history: a creation was started while another was under way
    missed          \* history: an item's answer was lost, or crossed another's

server == <<claim, row, evidence, stored, ledger, filing>>
wizardVars == <<server, page, call, doubled, missed>>

NoCall == [op |-> "none", at |-> "idle", awaited |-> FALSE, here |-> FALSE, claim |-> Nil,
           row |-> Nil, photo |-> Nil, shown |-> {}, rows |-> {}]

RowsOf(c) == {r \in Row : row[r] = c}
PhotosOf(c) == {p \in Photo : <<c, p>> \in evidence}

CallType ==
    [op : {"none", "create", "details", "item", "upload", "link", "submit"},
     at : {"idle", "sent", "inserted", "checked", "looked", "read", "served", "refused"},
     awaited : BOOLEAN, here : BOOLEAN, claim : Claim \cup {Nil}, row : Row \cup {Nil},
     photo : Photo \cup {Nil}, shown : SUBSET Row, rows : SUBSET Row]

ClaimType ==
    [status : {"absent", "DRAFT", "VERIFYING"}, detailed : BOOLEAN, logged : BOOLEAN]

PageType ==
    [step : {"incident", "items", "evidence", "review", "left"}, claimId : Claim \cup {Nil},
     shown : SUBSET Row, linked : Nat, pushed : Claim \cup {Nil}]

StateTyped ==
    /\ claim \in [Claim -> ClaimType]
    /\ row \in [Row -> Claim \cup {Nil}]
    /\ evidence \in SUBSET (Claim \X Photo)
    /\ stored \in SUBSET Photo
    /\ ledger \in Claim \cup {Nil}
    /\ filing \in [seen : SUBSET Row, rows : SUBSET Row]
    /\ page \in PageType
    /\ doubled \in BOOLEAN
    /\ missed \in BOOLEAN

WizardTypeOK == StateTyped /\ call \in [Call -> CallType]

WizardInit ==
    /\ claim = [c \in Claim |-> [status |-> "absent", detailed |-> FALSE, logged |-> FALSE]]
    /\ row = [r \in Row |-> Nil]
    /\ evidence = {}
    /\ stored = {}
    /\ ledger = Nil
    /\ filing = [seen |-> {}, rows |-> {}]
    /\ page = [step |-> "incident", claimId |-> Nil, shown |-> {}, linked |-> 0, pushed |-> Nil]
    /\ call = [k \in Call |-> NoCall]
    /\ doubled = FALSE
    /\ missed = FALSE

Awaited(ops) == \E k \in Call : call[k].awaited /\ call[k].op \in ops

Sends(k, request) == call' = [call EXCEPT ![k] = request]

\* What the page sends, knowing what it shows.
Request(op) ==
    [NoCall EXCEPT !.op = op, !.at = "sent", !.awaited = TRUE, !.here = (op = "upload"),
                   !.claim = page.claimId,
                   !.shown = IF op \in {"item", "submit"} THEN page.shown ELSE {}]

Serving(k, op, at) == call[k].op = op /\ call[k].at = at

Answered(k, op) == call[k].awaited /\ Serving(k, op, "served")

\* A page that was left has no state to set.
Shows(state) == page' = IF page.step = "left" THEN page ELSE state

-----------------------------------------------------------------------------
(* createClaim: POST claims, then PUT the details, then the next step.      *)

(* The button needs a policy picked, and stays enabled during the calls.    *)
PressCreate(k) ==
    /\ page.step = "incident"
    /\ call[k] = NoCall
    /\ Sends(k, Request("create"))
    /\ doubled' = (doubled \/ Awaited({"create", "details"}))
    /\ UNCHANGED <<server, page, missed>>

InsertClaim(k, c) ==
    /\ Serving(k, "create", "sent")
    /\ claim[c].status = "absent"
    /\ claim' = [claim EXCEPT ![c].status = "DRAFT"]
    /\ Sends(k, [call[k] EXCEPT !.at = "inserted", !.claim = c])
    /\ UNCHANGED <<row, evidence, stored, ledger, filing, page, doubled, missed>>

LogCreated(k) ==
    /\ Serving(k, "create", "inserted")
    /\ claim' = [claim EXCEPT ![call[k].claim].logged = TRUE]
    /\ Sends(k, [call[k] EXCEPT !.at = "served"])
    /\ UNCHANGED <<row, evidence, stored, ledger, filing, page, doubled, missed>>

CreateAnswered(k) ==
    /\ Answered(k, "create")
    /\ Sends(k, [call[k] EXCEPT !.op = "details", !.at = "sent"])
    /\ UNCHANGED <<server, page, doubled, missed>>

SaveDetails(k) ==
    /\ Serving(k, "details", "sent")
    /\ claim[call[k].claim].status = "DRAFT"
    /\ claim' = [claim EXCEPT ![call[k].claim].detailed = TRUE]
    /\ Sends(k, [call[k] EXCEPT !.at = "served"])
    /\ UNCHANGED <<row, evidence, stored, ledger, filing, page, doubled, missed>>

\* Leaving the evidence step takes its upload field, with what it knows, off the page.
Detached == [k \in Call |-> [call[k] EXCEPT !.here = FALSE]]

(* The answer of a second creation takes the page back to the items.        *)
DetailsAnswered(k) ==
    /\ Answered(k, "details")
    /\ Shows([page EXCEPT !.claimId = call[k].claim, !.step = "items"])
    /\ call' = [Detached EXCEPT ![k] = NoCall]
    /\ UNCHANGED <<server, doubled, missed>>

-----------------------------------------------------------------------------
(* addItem.                                                                 *)

PressAddItem(k) ==
    /\ page.step = "items"
    /\ call[k] = NoCall
    /\ Sends(k, Request("item"))
    /\ missed' = (missed \/ Awaited({"item"}))
    /\ UNCHANGED <<server, page, doubled>>

CheckDraft(k) ==
    /\ Serving(k, "item", "sent")
    /\ claim[call[k].claim].status = "DRAFT"
    /\ Sends(k, [call[k] EXCEPT !.at = "checked"])
    /\ UNCHANGED <<server, page, doubled, missed>>

(* The answer comes once the claim's total is written, too.                 *)
InsertRow(k, r) ==
    /\ Serving(k, "item", "checked")
    /\ row[r] = Nil
    /\ row' = [row EXCEPT ![r] = call[k].claim]
    /\ Sends(k, [call[k] EXCEPT !.at = "inserted", !.row = r])
    /\ UNCHANGED <<claim, evidence, stored, ledger, filing, page, doubled, missed>>

TotalWritten(k) ==
    /\ Serving(k, "item", "inserted")
    /\ Sends(k, [call[k] EXCEPT !.at = "served"])
    /\ UNCHANGED <<server, page, doubled, missed>>

(* Mutant: the new item replaces the list.                                  *)
ItemReplaces(k) ==
    /\ Answered(k, "item")
    /\ Shows([page EXCEPT !.shown = {call[k].row}])
    /\ Sends(k, NoCall)
    /\ UNCHANGED <<server, doubled, missed>>

(* setItems([...items, result.item]): the items of the press's render.      *)
ItemAnswered(k) ==
    /\ Answered(k, "item")
    /\ Shows([page EXCEPT !.shown = call[k].shown \cup {call[k].row}])
    /\ Sends(k, NoCall)
    /\ UNCHANGED <<server, doubled, missed>>

ContinueToEvidence ==
    /\ page.step = "items"
    /\ page.shown # {}
    /\ page' = [page EXCEPT !.step = "evidence"]
    /\ UNCHANGED <<server, call, doubled, missed>>

-----------------------------------------------------------------------------
(* UploadField, then linkEvidence with the claim of the upload's render.    *)

(* The input is disabled while the field on the page uploads; a retry sends *)
(* the file again.                                                          *)
PressUpload(k) ==
    /\ page.step = "evidence"
    /\ call[k] = NoCall
    /\ \A j \in Call : call[j].op = "upload" /\ call[j].awaited => ~call[j].here
    /\ Sends(k, Request("upload"))
    /\ UNCHANGED <<server, page, doubled, missed>>

Store(k, p) ==
    /\ Serving(k, "upload", "sent")
    /\ p \notin stored
    /\ stored' = stored \cup {p}
    /\ Sends(k, [call[k] EXCEPT !.at = "served", !.photo = p])
    /\ UNCHANGED <<claim, row, evidence, ledger, filing, page, doubled, missed>>

(* Mutant: the document counts as linked once it is uploaded.               *)
UploadCounts(k) ==
    /\ Answered(k, "upload")
    /\ Shows([page EXCEPT !.linked = @ + 1])
    /\ Sends(k, [call[k] EXCEPT !.op = "link", !.at = "sent"])
    /\ UNCHANGED <<server, doubled, missed>>

UploadAnswered(k) ==
    /\ Answered(k, "upload")
    /\ Sends(k, [call[k] EXCEPT !.op = "link", !.at = "sent"])
    /\ UNCHANGED <<server, page, doubled, missed>>

LinkDocument(k) ==
    /\ Serving(k, "link", "sent")
    /\ call[k].photo \in stored
    /\ evidence' = evidence \cup {<<call[k].claim, call[k].photo>>}
    /\ Sends(k, [call[k] EXCEPT !.at = "served"])
    /\ UNCHANGED <<claim, row, stored, ledger, filing, page, doubled, missed>>

LinkAnswered(k) ==
    /\ Answered(k, "link")
    /\ Shows([page EXCEPT !.linked = @ + 1])
    /\ Sends(k, NoCall)
    /\ UNCHANGED <<server, doubled, missed>>

ContinueToReview ==
    /\ page.step = "evidence"
    /\ page.linked # 0
    /\ page' = [page EXCEPT !.step = "review"]
    /\ call' = Detached
    /\ UNCHANGED <<server, doubled, missed>>

-----------------------------------------------------------------------------
(* submitClaim: every press of the visit sends the same key.                *)

PressSubmit(k) ==
    /\ page.step = "review"
    /\ call[k] = NoCall
    /\ ~Awaited({"submit"})
    /\ Sends(k, Request("submit"))
    /\ UNCHANGED <<server, page, doubled, missed>>

(* The ledger is asked before the claim is looked at.                       *)
LookUpKey(k) ==
    /\ Serving(k, "submit", "sent")
    /\ Sends(k, [call[k] EXCEPT !.at = IF ledger = Nil THEN "looked" ELSE "served"])
    /\ UNCHANGED <<server, page, doubled, missed>>

ReadForSubmit(k) ==
    LET c == call[k].claim
    IN  /\ Serving(k, "submit", "looked")
        /\ claim[c].status = "DRAFT"
        /\ RowsOf(c) # {} /\ claim[c].detailed /\ PhotosOf(c) # {}
        /\ Sends(k, [call[k] EXCEPT !.at = "read", !.rows = RowsOf(c)])
        /\ UNCHANGED <<server, page, doubled, missed>>

(* Mutant: the key is no primary key.                                       *)
FileAgain(k) ==
    /\ Serving(k, "submit", "read")
    /\ claim' = [claim EXCEPT ![call[k].claim].status = "VERIFYING"]
    /\ filing' = [seen |-> call[k].shown, rows |-> call[k].rows]
    /\ ledger' = call[k].claim
    /\ Sends(k, [call[k] EXCEPT !.at = "served"])
    /\ UNCHANGED <<row, evidence, stored, page, doubled, missed>>

(* The transaction.  A key that is taken by now fails it: Refuse.           *)
FileClaim(k) ==
    /\ Serving(k, "submit", "read")
    /\ ledger = Nil
    /\ claim' = [claim EXCEPT ![call[k].claim].status = "VERIFYING"]
    /\ filing' = [seen |-> call[k].shown, rows |-> call[k].rows]
    /\ ledger' = call[k].claim
    /\ Sends(k, [call[k] EXCEPT !.at = "served"])
    /\ UNCHANGED <<row, evidence, stored, page, doubled, missed>>

(* The page goes to the claim it asked for, whatever the answer says.       *)
SubmitAnswered(k) ==
    /\ Answered(k, "submit")
    /\ Shows([page EXCEPT !.step = "left", !.pushed = call[k].claim])
    /\ call' = [Detached EXCEPT ![k] = NoCall]
    /\ UNCHANGED <<server, doubled, missed>>

-----------------------------------------------------------------------------
(* The server refuses, fails or stops.                                      *)
Refuse(k) ==
    /\ call[k].at \in {"sent", "inserted", "checked", "looked", "read"}
    /\ Sends(k, [call[k] EXCEPT !.at = "refused"])
    /\ missed' = (missed \/ Serving(k, "item", "inserted"))
    /\ UNCHANGED <<server, page, doubled>>

(* The page sees its call fail; what the server does of it goes on.         *)
Fail(k) ==
    /\ call[k].awaited
    /\ Sends(k, [call[k] EXCEPT !.awaited = FALSE])
    /\ missed' = (missed \/ (call[k].op = "item" /\ call[k].at # "refused"))
    /\ UNCHANGED <<server, page, doubled>>

Forget(k) ==
    /\ ~call[k].awaited
    /\ call[k].at \in {"served", "refused"}
    /\ Sends(k, NoCall)
    /\ UNCHANGED <<server, page, doubled, missed>>

-----------------------------------------------------------------------------
PageNext(k) ==
    \/ PressCreate(k) \/ CreateAnswered(k) \/ DetailsAnswered(k)
    \/ PressAddItem(k) \/ ItemAnswered(k)
    \/ PressUpload(k) \/ UploadAnswered(k) \/ LinkAnswered(k)
    \/ PressSubmit(k) \/ SubmitAnswered(k)
    \/ Fail(k)

ServerNext(k) ==
    \/ \E c \in Claim : InsertClaim(k, c)
    \/ LogCreated(k) \/ SaveDetails(k)
    \/ CheckDraft(k) \/ (\E r \in Row : InsertRow(k, r)) \/ TotalWritten(k)
    \/ (\E p \in Photo : Store(k, p)) \/ LinkDocument(k)
    \/ LookUpKey(k) \/ ReadForSubmit(k) \/ FileClaim(k)
    \/ Refuse(k) \/ Forget(k)

WizardNext ==
    \/ ContinueToEvidence \/ ContinueToReview
    \/ \E k \in Call : PageNext(k) \/ ServerNext(k)

WizardSpec == WizardInit /\ [][WizardNext]_wizardVars

-----------------------------------------------------------------------------
(* "Every later step autosaves against that claim" (page.tsx:28-31): unless *)
(* two creations overlapped, every item on the page is a row of the page's  *)
(* claim, and, unless an item's answer was lost or crossed another's or is  *)
(* still to come, every row is on the page; and what is filed is at least   *)
(* what the page showed when the button was pressed that filed it.          *)
ShownIsSaved ==
    ~doubled =>
        /\ page.claimId # Nil =>
             /\ page.shown \subseteq RowsOf(page.claimId)
             /\ page.step # "left" /\ ~missed /\ (\A k \in Call : call[k].op # "item")
                  => page.shown = RowsOf(page.claimId)
        /\ filing.seen \subseteq filing.rows

(* Who gets to the review, and in it sees nothing but two counts and a      *)
(* button, has a claim that a submit accepts: whatever failed, was retried  *)
(* or is still under way, it has its details, an item and a link, and its   *)
(* creation was logged (claims.routes.ts:101 writes that event after the    *)
(* row, in a statement of its own).                                         *)
ReviewIsSubmittable ==
    page.step = "review" /\ ~doubled =>
        /\ claim[page.claimId].detailed /\ claim[page.claimId].logged
        /\ RowsOf(page.claimId) # {} /\ PhotosOf(page.claimId) # {}

(* A visit files one claim at most, however often a submit is repeated      *)
(* after an answer was lost and whichever claim it then names; and the page *)
(* only moves on once one is filed: the one it moves on to, unless two      *)
(* creations overlapped (claims.routes.ts:345 looks up the key alone).      *)
OneFiling ==
    /\ \A c, d \in Claim : claim[c].status = "VERIFYING" /\ claim[d].status = "VERIFYING" => c = d
    /\ page.pushed # Nil =>
         /\ ledger # Nil
         /\ ~doubled => claim[page.pushed].status = "VERIFYING"

-----------------------------------------------------------------------------
(* The inductive invariant of OneFiling.  Calls name a claim and, once it   *)
(* is inserted, an item; ...                                                *)
CallsAreNamed ==
    \A k \in Call :
        /\ call[k].op \in {"details", "item", "upload", "link", "submit"} => call[k].claim # Nil
        /\ call[k].op = "create" /\ call[k].at \in {"inserted", "served"} => call[k].claim # Nil
        /\ call[k].op = "item" /\ call[k].at \in {"inserted", "served"} => call[k].row # Nil

(* ... the page is past its first step once it has a claim, and only then   *)
(* submits; ...                                                             *)
PageHasClaim ==
    /\ page.step = "incident" <=> page.claimId = Nil
    /\ \A k \in Call : call[k].op = "submit" => page.claimId # Nil

(* ... the ledger says which claim is filed, and a submit is answered, and  *)
(* the page left, only when one is; ...                                     *)
LedgerTells ==
    /\ \A c \in Claim : claim[c].status = "VERIFYING" <=> ledger = c
    /\ \A k \in Call : Serving(k, "submit", "served") => ledger # Nil
    /\ page.pushed # Nil => ledger # Nil

(* ... and as long as no two creations overlap, one creation is awaited, no *)
(* longer than the page has no claim, and all else is about that claim.     *)
OneClaim ==
    ~doubled =>
        /\ \A j, k \in Call :
             /\ call[j].awaited /\ call[j].op \in {"create", "details"}
             /\ call[k].awaited /\ call[k].op \in {"create", "details"}
             => j = k
        /\ page.claimId # Nil => ~Awaited({"create", "details"})
        /\ \A k \in Call : call[k].op = "submit" => call[k].claim = page.claimId
        /\ ledger \in {Nil, page.claimId}
        /\ page.pushed \in {Nil, page.claimId}

WizardInv ==
    /\ WizardTypeOK
    /\ CallsAreNamed
    /\ PageHasClaim
    /\ LedgerTells
    /\ OneClaim
=============================================================================
