----------------------------- MODULE Onboarding -----------------------------
(***************************************************************************)
(* What a user needs before a claim can be submitted, across three         *)
(* services: documents (evidence-service), a KYC case (identity-service),  *)
(* and the policy and evidence links of claims-service that name           *)
(* documents.  claims-service asks the other two over HTTP and acts on the *)
(* answer later; they go on in between.  (claims-service                   *)
(* routes/policies.routes.ts, routes/claims.routes.ts, lib/evidence-       *)
(* client.ts, lib/identity-client.ts.)                                     *)
(***************************************************************************)
EXTENDS Documents, KycCases

CONSTANT Gate       \* requests to claims-service that may be in flight together

VARIABLES
    policyDoc,      \* evidenceDocumentId of the policies
    links,          \* claim_evidence_links
    submitted,      \* the claim has been submitted
    gate            \* requests in flight

gateVars == <<policyDoc, links, submitted, gate>>
vars == <<docVars, kycVars, gateVars>>

GateIdle == [pc |-> "idle", doc |-> NoDoc]

TypeOK ==
    /\ DocTypeOK
    /\ KycTypeOK
    /\ policyDoc \in SUBSET Doc
    /\ links \in SUBSET Doc
    /\ submitted \in BOOLEAN
    /\ gate \in [Gate -> [pc : {"idle", "policy", "link", "submit"}, doc : Doc \cup {NoDoc}]]

Init ==
    /\ DocInit
    /\ KycInit
    /\ policyDoc = {} /\ links = {} /\ submitted = FALSE
    /\ gate = [g \in Gate |-> GateIdle]

-----------------------------------------------------------------------------
(* Mutant: any document of the user's is taken for a ready one.             *)
AnyDocument(g, d, purpose) ==
    /\ gate[g] = GateIdle
    /\ doc[d].status # "absent"
    /\ gate' = [gate EXCEPT ![g] = [pc |-> purpose, doc |-> d]]
    /\ UNCHANGED <<policyDoc, links, submitted>>

(* fetchOwnedReadyDocument, for a policy or for an evidence link.           *)
FetchReadyDocument(g, d, purpose) ==
    /\ gate[g] = GateIdle
    /\ doc[d].status = "ready"
    /\ gate' = [gate EXCEPT ![g] = [pc |-> purpose, doc |-> d]]
    /\ UNCHANGED <<policyDoc, links, submitted>>

(* POST /v1/policies: the row.                                              *)
InsertPolicy(g) ==
    /\ gate[g].pc = "policy"
    /\ policyDoc' = policyDoc \cup {gate[g].doc}
    /\ gate' = [gate EXCEPT ![g] = GateIdle]
    /\ UNCHANGED <<links, submitted>>

(* POST /v1/claims/:id/evidence-links: the row, if there is none.           *)
InsertLink(g) ==
    /\ gate[g].pc = "link"
    /\ links' = links \cup {gate[g].doc}
    /\ gate' = [gate EXCEPT ![g] = GateIdle]
    /\ UNCHANGED <<policyDoc, submitted>>

(* isKycVerified, in POST /v1/claims/:id/submit ...                         *)
CheckKyc(g) ==
    /\ gate[g] = GateIdle
    /\ ~submitted
    /\ \E c \in Opened : LatestCase(c) /\ kase[c].status = "verified"
    /\ gate' = [gate EXCEPT ![g].pc = "submit"]
    /\ UNCHANGED <<policyDoc, links, submitted>>

(* ... the policy and a link are there, and the transaction commits.        *)
Submit(g) ==
    /\ gate[g].pc = "submit"
    /\ policyDoc # {} /\ links # {}
    /\ submitted' = TRUE
    /\ gate' = [gate EXCEPT ![g] = GateIdle]
    /\ UNCHANGED <<policyDoc, links>>

GateAbandon(g) ==
    /\ gate[g] # GateIdle
    /\ gate' = [gate EXCEPT ![g] = GateIdle]
    /\ UNCHANGED <<policyDoc, links, submitted>>

GateNext ==
    \E g \in Gate :
        \/ \E d \in Doc, purpose \in {"policy", "link"} : FetchReadyDocument(g, d, purpose)
        \/ InsertPolicy(g) \/ InsertLink(g) \/ CheckKyc(g) \/ Submit(g) \/ GateAbandon(g)

Next ==
    \/ DocNext /\ UNCHANGED <<kycVars, gateVars>>
    \/ KycNext /\ UNCHANGED <<docVars, gateVars>>
    \/ GateNext /\ UNCHANGED <<docVars, kycVars>>

Spec == Init /\ [][Next]_vars

-----------------------------------------------------------------------------
(* What was checked over HTTP held, however stale it is when used: a        *)
(* submitted claim's user had been verified (nothing but a contested        *)
(* completion takes that back), and the documents a policy or a link names  *)
(* were ready, so by now they are ready or deleted, and within the limit.   *)
SubmittedWasReady ==
    /\ submitted => /\ \E c \in Case : kase[c].status = "verified" \/ c \in contested
                    /\ policyDoc # {} /\ links # {}
    /\ \A d \in policyDoc \cup links :
         doc[d].status \in {"ready", "deleted"} /\ UploadAllowed(doc[d].size)
=============================================================================
