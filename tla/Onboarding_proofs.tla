-------------------------- MODULE Onboarding_proofs --------------------------
(***************************************************************************)
(* Proofs about what a user goes through before a claim is submitted: the  *)
(* gates of Onboarding, with Documents and KycCases, and a visit of        *)
(* ClaimWizard, which shares no state with them; for any documents, cases, *)
(* claims, items and requests under way.                                   *)
(*                                                                         *)
(* Onboarding: what is ready is stored, what is deleted stays so, a        *)
(* verdict is final, and a submitted claim had met its conditions.         *)
(*                                                                         *)
(* ClaimWizard: it files one claim at most; the ledger is taken once and   *)
(* names the filed claim, a submit is answered only once it is, and unless *)
(* two creations overlapped every submit is about the page's one claim.    *)
(* What the page shows is saved, and its review can be submitted: what a   *)
(* call was sent with and what it will answer are stored and stay so.      *)
(***************************************************************************)
EXTENDS Onboarding, ClaimWizard, FiniteSetTheorems, TLAPS

-----------------------------------------------------------------------------
(* The claim wizard.                                                        *)

(* What a step changes of a call, a claim or the page keeps its type.       *)
LEMMA CallChanges ==
    ASSUME NEW q \in CallType
    PROVE  /\ \A v \in {"sent", "inserted", "checked", "looked", "read", "served", "refused"} :
                [q EXCEPT !.at = v] \in CallType
           /\ \A v \in {"details", "link"} : [q EXCEPT !.op = v, !.at = "sent"] \in CallType
           /\ [q EXCEPT !.awaited = FALSE] \in CallType
           /\ [q EXCEPT !.here = FALSE] \in CallType
           /\ \A c \in Claim : [q EXCEPT !.at = "inserted", !.claim = c] \in CallType
           /\ \A r \in Row : [q EXCEPT !.at = "inserted", !.row = r] \in CallType
           /\ \A p \in Photo : [q EXCEPT !.at = "served", !.photo = p] \in CallType
           /\ \A rows \in SUBSET Row : [q EXCEPT !.at = "read", !.rows = rows] \in CallType
<1>1. \A v \in {"sent", "inserted", "checked", "looked", "read", "served", "refused"} :
                [q EXCEPT !.at = v] \in CallType
  BY DEF CallType
<1>2. \A v \in {"details", "link"} : [q EXCEPT !.op = v, !.at = "sent"] \in CallType
  BY DEF CallType
<1>3. [q EXCEPT !.awaited = FALSE] \in CallType
  BY DEF CallType
<1>4. [q EXCEPT !.here = FALSE] \in CallType
  BY DEF CallType
<1>5. \A c \in Claim : [q EXCEPT !.at = "inserted", !.claim = c] \in CallType
  BY DEF CallType
<1>6. \A r \in Row : [q EXCEPT !.at = "inserted", !.row = r] \in CallType
  BY DEF CallType
<1>7. \A p \in Photo : [q EXCEPT !.at = "served", !.photo = p] \in CallType
  BY DEF CallType
<1>8. \A rows \in SUBSET Row : [q EXCEPT !.at = "read", !.rows = rows] \in CallType
  BY DEF CallType
<1> QED
  BY <1>1, <1>2, <1>3, <1>4, <1>5, <1>6, <1>7, <1>8

LEMMA NoCallTyped == NoCall \in CallType
  BY DEF NoCall, CallType

LEMMA RequestTyped ==
    ASSUME StateTyped, NEW op \in {"create", "item", "upload", "submit"}
    PROVE  Request(op) \in CallType
  BY DEF StateTyped, PageType, Request, NoCall, CallType

LEMMA PageChanges ==
    ASSUME page \in PageType
    PROVE  [page EXCEPT !.linked = @ + 1] \in PageType
  BY DEF PageType

LEMMA ClaimChanges ==
    ASSUME claim \in [Claim -> ClaimType], NEW c \in Claim
    PROVE  /\ [claim EXCEPT ![c].status = "DRAFT"] \in [Claim -> ClaimType]
           /\ [claim EXCEPT ![c].status = "VERIFYING"] \in [Claim -> ClaimType]
           /\ [claim EXCEPT ![c].detailed = TRUE] \in [Claim -> ClaimType]
           /\ [claim EXCEPT ![c].logged = TRUE] \in [Claim -> ClaimType]
<1>1. \A d \in Claim : claim[d] \in ClaimType
  OBVIOUS
<1>2. /\ [claim[c] EXCEPT !.status = "DRAFT"] \in ClaimType
      /\ [claim[c] EXCEPT !.status = "VERIFYING"] \in ClaimType
      /\ [claim[c] EXCEPT !.detailed = TRUE] \in ClaimType
      /\ [claim[c] EXCEPT !.logged = TRUE] \in ClaimType
  BY <1>1 DEF ClaimType
<1> QED
  BY <1>2

-----------------------------------------------------------------------------
(* The state of the page and of the server keeps its type ...               *)
LEMMA StateKept == WizardInv /\ WizardNext => StateTyped'
<1> SUFFICES ASSUME WizardInv, WizardNext PROVE StateTyped'
  OBVIOUS
<1> USE WizardNilAssumption DEF WizardInv, WizardTypeOK, CallsAreNamed, PageHasClaim,
     StateTyped, CallType, PageType
<1>1. CASE ContinueToEvidence
  BY <1>1 DEF ContinueToEvidence, NoCall, wizardVars, server
<1>2. CASE ContinueToReview
  BY <1>2 DEF ContinueToReview, Detached, NoCall, wizardVars, server
<1>3. ASSUME NEW k \in Call, PressCreate(k) PROVE StateTyped'
  BY <1>3 DEF PressCreate, Sends, Request, NoCall, server
<1>4. ASSUME NEW k \in Call, CreateAnswered(k) PROVE StateTyped'
  BY <1>4 DEF CreateAnswered, Sends, Answered, Serving, NoCall, server
<1>5. ASSUME NEW k \in Call, DetailsAnswered(k) PROVE StateTyped'
  BY <1>5 DEF DetailsAnswered, Answered, Serving, Shows, Detached, NoCall, server
<1>6. ASSUME NEW k \in Call, PressAddItem(k) PROVE StateTyped'
  BY <1>6 DEF PressAddItem, Sends, Request, NoCall, server
<1>7. ASSUME NEW k \in Call, ItemAnswered(k) PROVE StateTyped'
  BY <1>7 DEF ItemAnswered, Answered, Serving, Shows, Sends, NoCall, server
<1>8. ASSUME NEW k \in Call, PressUpload(k) PROVE StateTyped'
  BY <1>8 DEF PressUpload, Sends, Request, NoCall, server
<1>9. ASSUME NEW k \in Call, UploadAnswered(k) PROVE StateTyped'
  BY <1>9 DEF UploadAnswered, Answered, Serving, Sends, NoCall, server
<1>10. ASSUME NEW k \in Call, LinkAnswered(k) PROVE StateTyped'
  <2>1. page' \in PageType
    BY <1>10, PageChanges DEF LinkAnswered, Answered, Serving, Shows, Sends
  <2> QED
    BY <1>10, <2>1 DEF LinkAnswered, Answered, Serving, Shows, Sends, server
<1>11. ASSUME NEW k \in Call, PressSubmit(k) PROVE StateTyped'
  BY <1>11 DEF PressSubmit, Sends, Request, NoCall, server
<1>12. ASSUME NEW k \in Call, SubmitAnswered(k) PROVE StateTyped'
  BY <1>12 DEF SubmitAnswered, Answered, Serving, Shows, Detached, NoCall, server
<1>13. ASSUME NEW k \in Call, Fail(k) PROVE StateTyped'
  BY <1>13 DEF Fail, Sends, NoCall, server
<1>14. ASSUME NEW k \in Call, NEW c \in Claim, InsertClaim(k, c) PROVE StateTyped'
  <2>1. claim' \in [Claim -> ClaimType]
    BY <1>14, ClaimChanges DEF InsertClaim, Serving, Sends
  <2> QED
    BY <1>14, <2>1 DEF InsertClaim, Serving, Sends, server
<1>15. ASSUME NEW k \in Call, LogCreated(k) PROVE StateTyped'
  <2>1. claim' \in [Claim -> ClaimType]
    BY <1>15, ClaimChanges DEF LogCreated, Serving, Sends
  <2> QED
    BY <1>15, <2>1 DEF LogCreated, Serving, Sends, server
<1>16. ASSUME NEW k \in Call, SaveDetails(k) PROVE StateTyped'
  <2>1. claim' \in [Claim -> ClaimType]
    BY <1>16, ClaimChanges DEF SaveDetails, Serving, Sends
  <2> QED
    BY <1>16, <2>1 DEF SaveDetails, Serving, Sends, server
<1>17. ASSUME NEW k \in Call, CheckDraft(k) PROVE StateTyped'
  BY <1>17 DEF CheckDraft, Serving, Sends, NoCall, server
<1>18. ASSUME NEW k \in Call, NEW r \in Row, InsertRow(k, r) PROVE StateTyped'
  BY <1>18 DEF InsertRow, Serving, Sends, NoCall, server
<1>19. ASSUME NEW k \in Call, TotalWritten(k) PROVE StateTyped'
  BY <1>19 DEF TotalWritten, Serving, Sends, NoCall, server
<1>20. ASSUME NEW k \in Call, NEW p \in Photo, Store(k, p) PROVE StateTyped'
  BY <1>20 DEF Store, Serving, Sends, NoCall, server
<1>21. ASSUME NEW k \in Call, LinkDocument(k) PROVE StateTyped'
  BY <1>21 DEF LinkDocument, Serving, Sends, NoCall, server
<1>22. ASSUME NEW k \in Call, LookUpKey(k) PROVE StateTyped'
  BY <1>22 DEF LookUpKey, Serving, Sends, NoCall, server
<1>23. ASSUME NEW k \in Call, ReadForSubmit(k) PROVE StateTyped'
  BY <1>23 DEF ReadForSubmit, Serving, Sends, RowsOf, PhotosOf, NoCall, server
<1>24. ASSUME NEW k \in Call, FileClaim(k) PROVE StateTyped'
  <2>1. claim' \in [Claim -> ClaimType]
    BY <1>24, ClaimChanges DEF FileClaim, Serving, Sends
  <2> QED
    BY <1>24, <2>1 DEF FileClaim, Serving, Sends, server
<1>25. ASSUME NEW k \in Call, Refuse(k) PROVE StateTyped'
  BY <1>25 DEF Refuse, Sends, Serving, NoCall, server
<1>26. ASSUME NEW k \in Call, Forget(k) PROVE StateTyped'
  BY <1>26 DEF Forget, Sends, NoCall, server
<1> QED
  BY <1>1, <1>2, <1>3, <1>4, <1>5, <1>6, <1>7, <1>8, <1>9, <1>10, <1>11, <1>12, <1>13,
       <1>14, <1>15, <1>16, <1>17, <1>18, <1>19, <1>20, <1>21, <1>22, <1>23, <1>24, <1>25,
            <1>26 DEF WizardNext, PageNext, ServerNext

(* ... and so do the calls.                                                 *)
LEMMA CallsKept == WizardInv /\ WizardNext => call' \in [Call -> CallType]
<1> SUFFICES ASSUME WizardInv, WizardNext PROVE call' \in [Call -> CallType]
  OBVIOUS
<1> USE WizardNilAssumption DEF WizardInv, WizardTypeOK
<1>1. CASE ContinueToEvidence
  BY <1>1, CallChanges, NoCallTyped, RequestTyped DEF ContinueToEvidence, NoCall,
       wizardVars, server
<1>2. CASE ContinueToReview
  BY <1>2, CallChanges, NoCallTyped, RequestTyped DEF ContinueToReview, Detached, NoCall,
       wizardVars, server
<1>3. ASSUME NEW k \in Call, PressCreate(k) PROVE call' \in [Call -> CallType]
  BY <1>3, CallChanges, NoCallTyped, RequestTyped DEF PressCreate, Sends, Request, NoCall,
       server
<1>4. ASSUME NEW k \in Call, CreateAnswered(k) PROVE call' \in [Call -> CallType]
  BY <1>4, CallChanges, NoCallTyped, RequestTyped DEF CreateAnswered, Sends, Answered,
       Serving, NoCall, server
<1>5. ASSUME NEW k \in Call, DetailsAnswered(k) PROVE call' \in [Call -> CallType]
  BY <1>5, CallChanges, NoCallTyped, RequestTyped DEF DetailsAnswered, Answered, Serving,
       Shows, Detached, NoCall, server
<1>6. ASSUME NEW k \in Call, PressAddItem(k) PROVE call' \in [Call -> CallType]
  BY <1>6, CallChanges, NoCallTyped, RequestTyped DEF PressAddItem, Sends, Request, NoCall,
       server
<1>7. ASSUME NEW k \in Call, ItemAnswered(k) PROVE call' \in [Call -> CallType]
  BY <1>7, CallChanges, NoCallTyped, RequestTyped DEF ItemAnswered, Answered, Serving,
       Shows, Sends, NoCall, server
<1>8. ASSUME NEW k \in Call, PressUpload(k) PROVE call' \in [Call -> CallType]
  BY <1>8, CallChanges, NoCallTyped, RequestTyped DEF PressUpload, Sends, Request, NoCall,
       server
<1>9. ASSUME NEW k \in Call, UploadAnswered(k) PROVE call' \in [Call -> CallType]
  BY <1>9, CallChanges, NoCallTyped, RequestTyped DEF UploadAnswered, Answered, Serving,
       Sends, NoCall, server
<1>10. ASSUME NEW k \in Call, LinkAnswered(k) PROVE call' \in [Call -> CallType]
  BY <1>10, CallChanges, NoCallTyped, RequestTyped DEF LinkAnswered, Answered, Serving,
       Shows, Sends, NoCall, server
<1>11. ASSUME NEW k \in Call, PressSubmit(k) PROVE call' \in [Call -> CallType]
  BY <1>11, CallChanges, NoCallTyped, RequestTyped DEF PressSubmit, Sends, Request, NoCall,
       server
<1>12. ASSUME NEW k \in Call, SubmitAnswered(k) PROVE call' \in [Call -> CallType]
  BY <1>12, CallChanges, NoCallTyped, RequestTyped DEF SubmitAnswered, Answered, Serving,
       Shows, Detached, NoCall, server
<1>13. ASSUME NEW k \in Call, Fail(k) PROVE call' \in [Call -> CallType]
  BY <1>13, CallChanges, NoCallTyped, RequestTyped DEF Fail, Sends, NoCall, server
<1>14. ASSUME NEW k \in Call, NEW c \in Claim, InsertClaim(k,
     c) PROVE call' \in [Call -> CallType]
  BY <1>14, CallChanges, NoCallTyped, RequestTyped DEF InsertClaim, Serving, Sends, NoCall,
       server
<1>15. ASSUME NEW k \in Call, LogCreated(k) PROVE call' \in [Call -> CallType]
  BY <1>15, CallChanges, NoCallTyped, RequestTyped DEF LogCreated, Serving, Sends, NoCall,
       server
<1>16. ASSUME NEW k \in Call, SaveDetails(k) PROVE call' \in [Call -> CallType]
  BY <1>16, CallChanges, NoCallTyped, RequestTyped DEF SaveDetails, Serving, Sends, NoCall,
       server
<1>17. ASSUME NEW k \in Call, CheckDraft(k) PROVE call' \in [Call -> CallType]
  BY <1>17, CallChanges, NoCallTyped, RequestTyped DEF CheckDraft, Serving, Sends, NoCall,
       server
<1>18. ASSUME NEW k \in Call, NEW r \in Row, InsertRow(k,
     r) PROVE call' \in [Call -> CallType]
  BY <1>18, CallChanges, NoCallTyped, RequestTyped DEF InsertRow, Serving, Sends, NoCall,
       server
<1>19. ASSUME NEW k \in Call, TotalWritten(k) PROVE call' \in [Call -> CallType]
  BY <1>19, CallChanges, NoCallTyped, RequestTyped DEF TotalWritten, Serving, Sends,
       NoCall, server
<1>20. ASSUME NEW k \in Call, NEW p \in Photo, Store(k,
     p) PROVE call' \in [Call -> CallType]
  BY <1>20, CallChanges, NoCallTyped, RequestTyped DEF Store, Serving, Sends, NoCall, server
<1>21. ASSUME NEW k \in Call, LinkDocument(k) PROVE call' \in [Call -> CallType]
  BY <1>21, CallChanges, NoCallTyped, RequestTyped DEF LinkDocument, Serving, Sends,
       NoCall, server
<1>22. ASSUME NEW k \in Call, LookUpKey(k) PROVE call' \in [Call -> CallType]
  BY <1>22, CallChanges, NoCallTyped, RequestTyped DEF LookUpKey, Serving, Sends, NoCall,
       server
<1>23. ASSUME NEW k \in Call, ReadForSubmit(k) PROVE call' \in [Call -> CallType]
  BY <1>23, CallChanges, NoCallTyped, RequestTyped DEF ReadForSubmit, Serving, Sends,
       RowsOf, PhotosOf, NoCall, server
<1>24. ASSUME NEW k \in Call, FileClaim(k) PROVE call' \in [Call -> CallType]
  BY <1>24, CallChanges, NoCallTyped, RequestTyped DEF FileClaim, Serving, Sends, NoCall,
       server
<1>25. ASSUME NEW k \in Call, Refuse(k) PROVE call' \in [Call -> CallType]
  BY <1>25, CallChanges, NoCallTyped, RequestTyped DEF Refuse, Sends, Serving, NoCall,
       server
<1>26. ASSUME NEW k \in Call, Forget(k) PROVE call' \in [Call -> CallType]
  BY <1>26, CallChanges, NoCallTyped, RequestTyped DEF Forget, Sends, NoCall, server
<1> QED
  BY <1>1, <1>2, <1>3, <1>4, <1>5, <1>6, <1>7, <1>8, <1>9, <1>10, <1>11, <1>12, <1>13,
       <1>14, <1>15, <1>16, <1>17, <1>18, <1>19, <1>20, <1>21, <1>22, <1>23, <1>24, <1>25,
            <1>26 DEF WizardNext, PageNext, ServerNext

(* Calls stay named.                                                        *)
LEMMA NamesKept == WizardInv /\ WizardNext => CallsAreNamed'
<1> SUFFICES ASSUME WizardInv, WizardNext PROVE CallsAreNamed'
  OBVIOUS
<1> USE WizardNilAssumption DEF WizardInv, WizardTypeOK, CallsAreNamed, PageHasClaim,
     StateTyped, CallType, PageType
<1>1. CASE ContinueToEvidence
  BY <1>1 DEF ContinueToEvidence, NoCall, wizardVars, server
<1>2. CASE ContinueToReview
  BY <1>2 DEF ContinueToReview, Detached, NoCall, wizardVars, server
<1>3. ASSUME NEW k \in Call, PressCreate(k) PROVE CallsAreNamed'
  BY <1>3 DEF PressCreate, Sends, Request, NoCall, server
<1>4. ASSUME NEW k \in Call, CreateAnswered(k) PROVE CallsAreNamed'
  BY <1>4 DEF CreateAnswered, Sends, Answered, Serving, NoCall, server
<1>5. ASSUME NEW k \in Call, DetailsAnswered(k) PROVE CallsAreNamed'
  BY <1>5 DEF DetailsAnswered, Answered, Serving, Shows, Detached, NoCall, server
<1>6. ASSUME NEW k \in Call, PressAddItem(k) PROVE CallsAreNamed'
  BY <1>6 DEF PressAddItem, Sends, Request, NoCall, server
<1>7. ASSUME NEW k \in Call, ItemAnswered(k) PROVE CallsAreNamed'
  BY <1>7 DEF ItemAnswered, Answered, Serving, Shows, Sends, NoCall, server
<1>8. ASSUME NEW k \in Call, PressUpload(k) PROVE CallsAreNamed'
  BY <1>8 DEF PressUpload, Sends, Request, NoCall, server
<1>9. ASSUME NEW k \in Call, UploadAnswered(k) PROVE CallsAreNamed'
  BY <1>9 DEF UploadAnswered, Answered, Serving, Sends, NoCall, server
<1>10. ASSUME NEW k \in Call, LinkAnswered(k) PROVE CallsAreNamed'
  BY <1>10 DEF LinkAnswered, Answered, Serving, Shows, Sends, NoCall, server
<1>11. ASSUME NEW k \in Call, PressSubmit(k) PROVE CallsAreNamed'
  BY <1>11 DEF PressSubmit, Sends, Request, NoCall, server
<1>12. ASSUME NEW k \in Call, SubmitAnswered(k) PROVE CallsAreNamed'
  BY <1>12 DEF SubmitAnswered, Answered, Serving, Shows, Detached, NoCall, server
<1>13. ASSUME NEW k \in Call, Fail(k) PROVE CallsAreNamed'
  BY <1>13 DEF Fail, Sends, NoCall, server
<1>14. ASSUME NEW k \in Call, NEW c \in Claim, InsertClaim(k, c) PROVE CallsAreNamed'
  BY <1>14 DEF InsertClaim, Serving, Sends, NoCall, server
<1>15. ASSUME NEW k \in Call, LogCreated(k) PROVE CallsAreNamed'
  BY <1>15 DEF LogCreated, Serving, Sends, NoCall, server
<1>16. ASSUME NEW k \in Call, SaveDetails(k) PROVE CallsAreNamed'
  BY <1>16 DEF SaveDetails, Serving, Sends, NoCall, server
<1>17. ASSUME NEW k \in Call, CheckDraft(k) PROVE CallsAreNamed'
  BY <1>17 DEF CheckDraft, Serving, Sends, NoCall, server
<1>18. ASSUME NEW k \in Call, NEW r \in Row, InsertRow(k, r) PROVE CallsAreNamed'
  BY <1>18 DEF InsertRow, Serving, Sends, NoCall, server
<1>19. ASSUME NEW k \in Call, TotalWritten(k) PROVE CallsAreNamed'
  BY <1>19 DEF TotalWritten, Serving, Sends, NoCall, server
<1>20. ASSUME NEW k \in Call, NEW p \in Photo, Store(k, p) PROVE CallsAreNamed'
  BY <1>20 DEF Store, Serving, Sends, NoCall, server
<1>21. ASSUME NEW k \in Call, LinkDocument(k) PROVE CallsAreNamed'
  BY <1>21 DEF LinkDocument, Serving, Sends, NoCall, server
<1>22. ASSUME NEW k \in Call, LookUpKey(k) PROVE CallsAreNamed'
  BY <1>22 DEF LookUpKey, Serving, Sends, NoCall, server
<1>23. ASSUME NEW k \in Call, ReadForSubmit(k) PROVE CallsAreNamed'
  BY <1>23 DEF ReadForSubmit, Serving, Sends, RowsOf, PhotosOf, NoCall, server
<1>24. ASSUME NEW k \in Call, FileClaim(k) PROVE CallsAreNamed'
  BY <1>24 DEF FileClaim, Serving, Sends, NoCall, server
<1>25. ASSUME NEW k \in Call, Refuse(k) PROVE CallsAreNamed'
  BY <1>25 DEF Refuse, Sends, Serving, NoCall, server
<1>26. ASSUME NEW k \in Call, Forget(k) PROVE CallsAreNamed'
  BY <1>26 DEF Forget, Sends, NoCall, server
<1> QED
  BY <1>1, <1>2, <1>3, <1>4, <1>5, <1>6, <1>7, <1>8, <1>9, <1>10, <1>11, <1>12, <1>13,
       <1>14, <1>15, <1>16, <1>17, <1>18, <1>19, <1>20, <1>21, <1>22, <1>23, <1>24, <1>25,
            <1>26 DEF WizardNext, PageNext, ServerNext

(* The page is past its first step once it has a claim.                     *)
LEMMA StepsKept == WizardInv /\ WizardNext => PageHasClaim'
<1> SUFFICES ASSUME WizardInv, WizardNext PROVE PageHasClaim'
  OBVIOUS
<1> USE WizardNilAssumption DEF WizardInv, WizardTypeOK, CallsAreNamed, PageHasClaim,
     StateTyped, CallType, PageType
<1>1. CASE ContinueToEvidence
  BY <1>1 DEF ContinueToEvidence, NoCall, wizardVars, server
<1>2. CASE ContinueToReview
  BY <1>2 DEF ContinueToReview, Detached, NoCall, wizardVars, server
<1>3. ASSUME NEW k \in Call, PressCreate(k) PROVE PageHasClaim'
  BY <1>3 DEF PressCreate, Sends, Request, NoCall, server
<1>4. ASSUME NEW k \in Call, CreateAnswered(k) PROVE PageHasClaim'
  BY <1>4 DEF CreateAnswered, Sends, Answered, Serving, NoCall, server
<1>5. ASSUME NEW k \in Call, DetailsAnswered(k) PROVE PageHasClaim'
  BY <1>5 DEF DetailsAnswered, Answered, Serving, Shows, Detached, NoCall, server
<1>6. ASSUME NEW k \in Call, PressAddItem(k) PROVE PageHasClaim'
  BY <1>6 DEF PressAddItem, Sends, Request, NoCall, server
<1>7. ASSUME NEW k \in Call, ItemAnswered(k) PROVE PageHasClaim'
  BY <1>7 DEF ItemAnswered, Answered, Serving, Shows, Sends, NoCall, server
<1>8. ASSUME NEW k \in Call, PressUpload(k) PROVE PageHasClaim'
  BY <1>8 DEF PressUpload, Sends, Request, NoCall, server
<1>9. ASSUME NEW k \in Call, UploadAnswered(k) PROVE PageHasClaim'
  BY <1>9 DEF UploadAnswered, Answered, Serving, Sends, NoCall, server
<1>10. ASSUME NEW k \in Call, LinkAnswered(k) PROVE PageHasClaim'
  BY <1>10 DEF LinkAnswered, Answered, Serving, Shows, Sends, NoCall, server
<1>11. ASSUME NEW k \in Call, PressSubmit(k) PROVE PageHasClaim'
  BY <1>11 DEF PressSubmit, Sends, Request, NoCall, server
<1>12. ASSUME NEW k \in Call, SubmitAnswered(k) PROVE PageHasClaim'
  BY <1>12 DEF SubmitAnswered, Answered, Serving, Shows, Detached, NoCall, server
<1>13. ASSUME NEW k \in Call, Fail(k) PROVE PageHasClaim'
  BY <1>13 DEF Fail, Sends, NoCall, server
<1>14. ASSUME NEW k \in Call, NEW c \in Claim, InsertClaim(k, c) PROVE PageHasClaim'
  BY <1>14 DEF InsertClaim, Serving, Sends, NoCall, server
<1>15. ASSUME NEW k \in Call, LogCreated(k) PROVE PageHasClaim'
  BY <1>15 DEF LogCreated, Serving, Sends, NoCall, server
<1>16. ASSUME NEW k \in Call, SaveDetails(k) PROVE PageHasClaim'
  BY <1>16 DEF SaveDetails, Serving, Sends, NoCall, server
<1>17. ASSUME NEW k \in Call, CheckDraft(k) PROVE PageHasClaim'
  BY <1>17 DEF CheckDraft, Serving, Sends, NoCall, server
<1>18. ASSUME NEW k \in Call, NEW r \in Row, InsertRow(k, r) PROVE PageHasClaim'
  BY <1>18 DEF InsertRow, Serving, Sends, NoCall, server
<1>19. ASSUME NEW k \in Call, TotalWritten(k) PROVE PageHasClaim'
  BY <1>19 DEF TotalWritten, Serving, Sends, NoCall, server
<1>20. ASSUME NEW k \in Call, NEW p \in Photo, Store(k, p) PROVE PageHasClaim'
  BY <1>20 DEF Store, Serving, Sends, NoCall, server
<1>21. ASSUME NEW k \in Call, LinkDocument(k) PROVE PageHasClaim'
  BY <1>21 DEF LinkDocument, Serving, Sends, NoCall, server
<1>22. ASSUME NEW k \in Call, LookUpKey(k) PROVE PageHasClaim'
  BY <1>22 DEF LookUpKey, Serving, Sends, NoCall, server
<1>23. ASSUME NEW k \in Call, ReadForSubmit(k) PROVE PageHasClaim'
  BY <1>23 DEF ReadForSubmit, Serving, Sends, RowsOf, PhotosOf, NoCall, server
<1>24. ASSUME NEW k \in Call, FileClaim(k) PROVE PageHasClaim'
  BY <1>24 DEF FileClaim, Serving, Sends, NoCall, server
<1>25. ASSUME NEW k \in Call, Refuse(k) PROVE PageHasClaim'
  BY <1>25 DEF Refuse, Sends, Serving, NoCall, server
<1>26. ASSUME NEW k \in Call, Forget(k) PROVE PageHasClaim'
  BY <1>26 DEF Forget, Sends, NoCall, server
<1> QED
  BY <1>1, <1>2, <1>3, <1>4, <1>5, <1>6, <1>7, <1>8, <1>9, <1>10, <1>11, <1>12, <1>13,
       <1>14, <1>15, <1>16, <1>17, <1>18, <1>19, <1>20, <1>21, <1>22, <1>23, <1>24, <1>25,
            <1>26 DEF WizardNext, PageNext, ServerNext

(* The ledger tells the filed claim.                                        *)
LEMMA LedgerKept == WizardInv /\ WizardNext => LedgerTells'
<1> SUFFICES ASSUME WizardInv, WizardNext PROVE LedgerTells'
  OBVIOUS
<1> USE WizardNilAssumption DEF WizardInv, WizardTypeOK, StateTyped, CallType, ClaimType,
     PageType, CallsAreNamed, LedgerTells
<1>1. CASE ContinueToEvidence
  BY <1>1 DEF ContinueToEvidence, NoCall, wizardVars, server, Serving
<1>2. CASE ContinueToReview
  BY <1>2 DEF ContinueToReview, Detached, NoCall, wizardVars, server, Serving
<1>3. ASSUME NEW k \in Call, PressCreate(k) PROVE LedgerTells'
  BY <1>3 DEF PressCreate, Sends, Request, NoCall, server, Serving
<1>4. ASSUME NEW k \in Call, CreateAnswered(k) PROVE LedgerTells'
  BY <1>4 DEF CreateAnswered, Sends, Answered, Serving, NoCall, server, Serving
<1>5. ASSUME NEW k \in Call, DetailsAnswered(k) PROVE LedgerTells'
  BY <1>5 DEF DetailsAnswered, Answered, Serving, Shows, Detached, NoCall, server, Serving
<1>6. ASSUME NEW k \in Call, PressAddItem(k) PROVE LedgerTells'
  BY <1>6 DEF PressAddItem, Sends, Request, NoCall, server, Serving
<1>7. ASSUME NEW k \in Call, ItemAnswered(k) PROVE LedgerTells'
  BY <1>7 DEF ItemAnswered, Answered, Serving, Shows, Sends, NoCall, server, Serving
<1>8. ASSUME NEW k \in Call, PressUpload(k) PROVE LedgerTells'
  BY <1>8 DEF PressUpload, Sends, Request, NoCall, server, Serving
<1>9. ASSUME NEW k \in Call, UploadAnswered(k) PROVE LedgerTells'
  BY <1>9 DEF UploadAnswered, Answered, Serving, Sends, NoCall, server, Serving
<1>10. ASSUME NEW k \in Call, LinkAnswered(k) PROVE LedgerTells'
  BY <1>10 DEF LinkAnswered, Answered, Serving, Shows, Sends, NoCall, server, Serving
<1>11. ASSUME NEW k \in Call, PressSubmit(k) PROVE LedgerTells'
  BY <1>11 DEF PressSubmit, Sends, Request, NoCall, server, Serving
<1>12. ASSUME NEW k \in Call, SubmitAnswered(k) PROVE LedgerTells'
  BY <1>12 DEF SubmitAnswered, Answered, Serving, Shows, Detached, NoCall, server, Serving
<1>13. ASSUME NEW k \in Call, Fail(k) PROVE LedgerTells'
  BY <1>13 DEF Fail, Sends, NoCall, server, Serving
<1>14. ASSUME NEW k \in Call, NEW c \in Claim, InsertClaim(k, c) PROVE LedgerTells'
  BY <1>14 DEF InsertClaim, Serving, Sends, NoCall, server, Serving
<1>15. ASSUME NEW k \in Call, LogCreated(k) PROVE LedgerTells'
  BY <1>15 DEF LogCreated, Serving, Sends, NoCall, server, Serving
<1>16. ASSUME NEW k \in Call, SaveDetails(k) PROVE LedgerTells'
  BY <1>16 DEF SaveDetails, Serving, Sends, NoCall, server, Serving
<1>17. ASSUME NEW k \in Call, CheckDraft(k) PROVE LedgerTells'
  BY <1>17 DEF CheckDraft, Serving, Sends, NoCall, server, Serving
<1>18. ASSUME NEW k \in Call, NEW r \in Row, InsertRow(k, r) PROVE LedgerTells'
  BY <1>18 DEF InsertRow, Serving, Sends, NoCall, server, Serving
<1>19. ASSUME NEW k \in Call, TotalWritten(k) PROVE LedgerTells'
  BY <1>19 DEF TotalWritten, Serving, Sends, NoCall, server, Serving
<1>20. ASSUME NEW k \in Call, NEW p \in Photo, Store(k, p) PROVE LedgerTells'
  BY <1>20 DEF Store, Serving, Sends, NoCall, server, Serving
<1>21. ASSUME NEW k \in Call, LinkDocument(k) PROVE LedgerTells'
  BY <1>21 DEF LinkDocument, Serving, Sends, NoCall, server, Serving
<1>22. ASSUME NEW k \in Call, LookUpKey(k) PROVE LedgerTells'
  BY <1>22 DEF LookUpKey, Serving, Sends, NoCall, server, Serving
<1>23. ASSUME NEW k \in Call, ReadForSubmit(k) PROVE LedgerTells'
  BY <1>23 DEF ReadForSubmit, Serving, Sends, RowsOf, PhotosOf, NoCall, server, Serving
<1>24. ASSUME NEW k \in Call, FileClaim(k) PROVE LedgerTells'
  BY <1>24 DEF FileClaim, Serving, Sends, NoCall, server, Serving
<1>25. ASSUME NEW k \in Call, Refuse(k) PROVE LedgerTells'
  BY <1>25 DEF Refuse, Sends, Serving, NoCall, server, Serving
<1>26. ASSUME NEW k \in Call, Forget(k) PROVE LedgerTells'
  BY <1>26 DEF Forget, Sends, NoCall, server, Serving
<1> QED
  BY <1>1, <1>2, <1>3, <1>4, <1>5, <1>6, <1>7, <1>8, <1>9, <1>10, <1>11, <1>12, <1>13,
       <1>14, <1>15, <1>16, <1>17, <1>18, <1>19, <1>20, <1>21, <1>22, <1>23, <1>24, <1>25,
            <1>26 DEF WizardNext, PageNext, ServerNext

(* Unless creations overlap, all is about one claim.                        *)
LEMMA OneKept == WizardInv /\ WizardNext => OneClaim'
<1> SUFFICES ASSUME WizardInv, WizardNext PROVE OneClaim'
  OBVIOUS
<1> USE WizardNilAssumption DEF WizardInv, WizardTypeOK, CallsAreNamed, PageHasClaim,
     StateTyped, CallType, PageType, OneClaim, ClaimType
<1>1. CASE ContinueToEvidence
  BY <1>1 DEF ContinueToEvidence, NoCall, wizardVars, server, Awaited
<1>2. CASE ContinueToReview
  <2>1. \A j \in Call : /\ Detached[j].op = call[j].op /\ Detached[j].claim = call[j].claim
                       /\ Detached[j].awaited = call[j].awaited
    BY DEF Detached
  <2>2. \A j \in Call : call'[j] = Detached[j]
    BY <1>2 DEF ContinueToReview, Detached
  <2> QED
    BY <1>2, <2>1, <2>2 DEF ContinueToReview, Answered, Serving, Shows, NoCall, server,
         Awaited
<1>3. ASSUME NEW k \in Call, PressCreate(k) PROVE OneClaim'
  BY <1>3 DEF PressCreate, Sends, Request, NoCall, server, Awaited
<1>4. ASSUME NEW k \in Call, CreateAnswered(k) PROVE OneClaim'
  BY <1>4 DEF CreateAnswered, Sends, Answered, Serving, NoCall, server, Awaited
<1>5. ASSUME NEW k \in Call, DetailsAnswered(k) PROVE OneClaim'
  <2>1. \A j \in Call : /\ Detached[j].op = call[j].op /\ Detached[j].claim = call[j].claim
                       /\ Detached[j].awaited = call[j].awaited
    BY DEF Detached
  <2>2. \A j \in Call : IF j = k THEN call'[j] = NoCall ELSE call'[j] = Detached[j]
    BY <1>5 DEF DetailsAnswered, Detached
  <2> QED
    BY <1>5, <2>1, <2>2 DEF DetailsAnswered, Answered, Serving, Shows, NoCall, server,
         Awaited
<1>6. ASSUME NEW k \in Call, PressAddItem(k) PROVE OneClaim'
  BY <1>6 DEF PressAddItem, Sends, Request, NoCall, server, Awaited
<1>7. ASSUME NEW k \in Call, ItemAnswered(k) PROVE OneClaim'
  BY <1>7 DEF ItemAnswered, Answered, Serving, Shows, Sends, NoCall, server, Awaited
<1>8. ASSUME NEW k \in Call, PressUpload(k) PROVE OneClaim'
  BY <1>8 DEF PressUpload, Sends, Request, NoCall, server, Awaited
<1>9. ASSUME NEW k \in Call, UploadAnswered(k) PROVE OneClaim'
  BY <1>9 DEF UploadAnswered, Answered, Serving, Sends, NoCall, server, Awaited
<1>10. ASSUME NEW k \in Call, LinkAnswered(k) PROVE OneClaim'
  BY <1>10 DEF LinkAnswered, Answered, Serving, Shows, Sends, NoCall, server, Awaited
<1>11. ASSUME NEW k \in Call, PressSubmit(k) PROVE OneClaim'
  BY <1>11 DEF PressSubmit, Sends, Request, NoCall, server, Awaited
<1>12. ASSUME NEW k \in Call, SubmitAnswered(k) PROVE OneClaim'
  <2>1. \A j \in Call : /\ Detached[j].op = call[j].op /\ Detached[j].claim = call[j].claim
                       /\ Detached[j].awaited = call[j].awaited
    BY DEF Detached
  <2>2. \A j \in Call : IF j = k THEN call'[j] = NoCall ELSE call'[j] = Detached[j]
    BY <1>12 DEF SubmitAnswered, Detached
  <2> QED
    BY <1>12, <2>1, <2>2 DEF SubmitAnswered, Answered, Serving, Shows, NoCall, server,
         Awaited
<1>13. ASSUME NEW k \in Call, Fail(k) PROVE OneClaim'
  BY <1>13 DEF Fail, Sends, NoCall, server, Awaited
<1>14. ASSUME NEW k \in Call, NEW c \in Claim, InsertClaim(k, c) PROVE OneClaim'
  BY <1>14 DEF InsertClaim, Serving, Sends, NoCall, server, Awaited
<1>15. ASSUME NEW k \in Call, LogCreated(k) PROVE OneClaim'
  BY <1>15 DEF LogCreated, Serving, Sends, NoCall, server, Awaited
<1>16. ASSUME NEW k \in Call, SaveDetails(k) PROVE OneClaim'
  BY <1>16 DEF SaveDetails, Serving, Sends, NoCall, server, Awaited
<1>17. ASSUME NEW k \in Call, CheckDraft(k) PROVE OneClaim'
  BY <1>17 DEF CheckDraft, Serving, Sends, NoCall, server, Awaited
<1>18. ASSUME NEW k \in Call, NEW r \in Row, InsertRow(k, r) PROVE OneClaim'
  BY <1>18 DEF InsertRow, Serving, Sends, NoCall, server, Awaited
<1>19. ASSUME NEW k \in Call, TotalWritten(k) PROVE OneClaim'
  BY <1>19 DEF TotalWritten, Serving, Sends, NoCall, server, Awaited
<1>20. ASSUME NEW k \in Call, NEW p \in Photo, Store(k, p) PROVE OneClaim'
  BY <1>20 DEF Store, Serving, Sends, NoCall, server, Awaited
<1>21. ASSUME NEW k \in Call, LinkDocument(k) PROVE OneClaim'
  BY <1>21 DEF LinkDocument, Serving, Sends, NoCall, server, Awaited
<1>22. ASSUME NEW k \in Call, LookUpKey(k) PROVE OneClaim'
  BY <1>22 DEF LookUpKey, Serving, Sends, NoCall, server, Awaited
<1>23. ASSUME NEW k \in Call, ReadForSubmit(k) PROVE OneClaim'
  BY <1>23 DEF ReadForSubmit, Serving, Sends, RowsOf, PhotosOf, NoCall, server, Awaited
<1>24. ASSUME NEW k \in Call, FileClaim(k) PROVE OneClaim'
  BY <1>24 DEF FileClaim, Serving, Sends, NoCall, server, Awaited
<1>25. ASSUME NEW k \in Call, Refuse(k) PROVE OneClaim'
  BY <1>25 DEF Refuse, Sends, Serving, NoCall, server, Awaited
<1>26. ASSUME NEW k \in Call, Forget(k) PROVE OneClaim'
  BY <1>26 DEF Forget, Sends, NoCall, server, Awaited
<1> QED
  BY <1>1, <1>2, <1>3, <1>4, <1>5, <1>6, <1>7, <1>8, <1>9, <1>10, <1>11, <1>12, <1>13,
       <1>14, <1>15, <1>16, <1>17, <1>18, <1>19, <1>20, <1>21, <1>22, <1>23, <1>24, <1>25,
            <1>26 DEF WizardNext, PageNext, ServerNext

-----------------------------------------------------------------------------
(* The inductive invariant of a visit.                                      *)
THEOREM WizardStarts == WizardInit => WizardInv
<1> SUFFICES ASSUME WizardInit PROVE WizardInv
  OBVIOUS
<1> USE WizardNilAssumption DEF WizardInit
<1>1. WizardTypeOK
  BY NoCallTyped DEF WizardTypeOK, StateTyped, ClaimType, PageType
<1>2. CallsAreNamed /\ PageHasClaim /\ LedgerTells
  BY DEF CallsAreNamed, PageHasClaim, LedgerTells, Serving, NoCall
<1>3. OneClaim
  BY DEF OneClaim, Awaited, NoCall
<1> QED
  BY <1>1, <1>2, <1>3 DEF WizardInv

THEOREM WizardKeeps == WizardInv /\ [WizardNext]_wizardVars => WizardInv'
<1>1. WizardInv /\ WizardNext => WizardInv'
  BY StateKept, CallsKept, NamesKept, StepsKept, LedgerKept, OneKept
  DEF WizardInv, WizardTypeOK
<1>2. WizardInv /\ UNCHANGED wizardVars => WizardInv'
  BY DEF WizardInv, WizardTypeOK, StateTyped, CallsAreNamed, PageHasClaim, LedgerTells,
         OneClaim, Serving, Awaited, wizardVars, server
<1> QED
  BY <1>1, <1>2

(* The invariant says what OneFiling does: the ledger names the one filed   *)
(* claim, and the page goes to no other.                                    *)
LEMMA FiledOnce == WizardInv => OneFiling
<1> SUFFICES ASSUME WizardInv PROVE OneFiling
  OBVIOUS
<1> USE WizardNilAssumption DEF WizardInv, LedgerTells
<1>1. \A c,
     d \in Claim : claim[c].status = "VERIFYING" /\ claim[d].status = "VERIFYING" => c = d
  OBVIOUS
<1>2. page.pushed # Nil /\ ~doubled => claim[page.pushed].status = "VERIFYING"
  BY DEF OneClaim, WizardTypeOK, StateTyped, PageType
<1> QED
  BY <1>1, <1>2 DEF OneFiling

(* A visit files one claim at most, under whatever repeats and losses, and  *)
(* the page moves on only once one is filed.                                *)
THEOREM SingleFiling == WizardSpec => []OneFiling
<1>1. WizardSpec => []WizardInv
  BY WizardStarts, WizardKeeps, PTL DEF WizardSpec
<1> QED
  BY <1>1, FiledOnce, PTL
-----------------------------------------------------------------------------
(* What the calls under way will bring, whatever overlaps.  Details are     *)
(* saved for a claim whose creation was logged; ...                         *)
DetailsKnown ==
    /\ \A k \in Call :
         /\ Serving(k, "create", "served") => claim[call[k].claim].logged
         /\ call[k].op = "details" => claim[call[k].claim].logged
         /\ Serving(k, "details", "served") => claim[call[k].claim].detailed
    /\ page.claimId # Nil => claim[page.claimId].logged /\ claim[page.claimId].detailed

(* ... an item or a link that was answered is stored; ...                   *)
AnswersStored ==
    \A k \in Call :
        /\ call[k].op = "item" /\ call[k].at \in {"inserted", "served"}
             => row[call[k].row] = call[k].claim
        /\ Serving(k, "link", "served")
             => call[k].photo \in Photo /\ <<call[k].claim, call[k].photo>> \in evidence

(* ... and the steps of the page come one after the other.                  *)
StepsFollow ==
    /\ page.claimId = Nil =>
         /\ page.shown = {} /\ page.linked = 0
         /\ \A k \in Call : call[k].op \notin {"item", "upload", "link"}
    /\ page.step \in {"evidence", "review"} => page.shown # {}
    /\ page.step = "review" => page.linked # 0

(* Unless two creations overlapped, items and links are of the page's claim *)
(* and what the page or a call of it knows of them is stored; ...           *)
CallsOfTheClaim ==
    ~doubled =>
        \A k \in Call : call[k].op \in {"item", "upload", "link"} => call[k].claim = page.claimId

LinksOfTheClaim ==
    ~doubled /\ page.linked # 0 => \E p \in Photo : <<page.claimId, p>> \in evidence

RowsOfTheClaim ==
    ~doubled =>
        /\ \A r \in Row : row[r] # Nil => row[r] = page.claimId
        /\ \A r \in page.shown : row[r] = page.claimId

FiledAsShown ==
    ~doubled =>
        /\ \A k \in Call : call[k].op \in {"item", "submit"} =>
             \A r \in call[k].shown : row[r] = page.claimId
        /\ \A k \in Call : Serving(k, "submit", "read") => call[k].shown \subseteq call[k].rows
        /\ filing.seen \subseteq filing.rows

(* ... and as long as no item's answer was lost or crossed another's, one   *)
(* item is under way and its row is all that the page does not show yet.    *)
OneItem ==
    ~doubled /\ ~missed =>
        /\ \A k \in Call : call[k].op = "item" /\ call[k].at # "refused" => call[k].awaited
        /\ \A j, k \in Call :
             /\ call[j].op = "item" /\ call[j].awaited
             /\ call[k].op = "item" /\ call[k].awaited
             => j = k

NothingMissed ==
    ~doubled /\ ~missed /\ page.step # "left" =>
        /\ \A k \in Call : call[k].op = "item" /\ call[k].awaited => call[k].shown = page.shown
        /\ \A r \in Row : row[r] # Nil =>
             \/ r \in page.shown
             \/ \E k \in Call : /\ call[k].op = "item" /\ call[k].at \in {"inserted", "served"}
                                /\ call[k].row = r

VisitInv ==
    /\ DetailsKnown
    /\ AnswersStored
    /\ StepsFollow
    /\ CallsOfTheClaim
    /\ LinksOfTheClaim
    /\ RowsOfTheClaim
    /\ FiledAsShown
    /\ OneItem
    /\ NothingMissed

(* A call that loses its upload field is the same otherwise.                *)
Kept(p, q) ==
    /\ p.op = q.op /\ p.at = q.at /\ p.awaited = q.awaited /\ p.claim = q.claim
    /\ p.row = q.row /\ p.photo = q.photo /\ p.shown = q.shown /\ p.rows = q.rows

LEMMA Detaching ==
    ASSUME call \in [Call -> CallType], call' = Detached
    PROVE  \A j \in Call : Kept(call'[j], call[j])
  BY DEF CallType, Detached, Kept

LEMMA Leaving ==
    ASSUME call \in [Call -> CallType], NEW k \in Call, call' = [Detached EXCEPT ![k] = NoCall]
    PROVE  call'[k] = NoCall /\ \A j \in Call \ {k} : Kept(call'[j], call[j])
<1>1. \A j \in Call : Kept(Detached[j], call[j])
  BY DEF CallType, Detached, Kept
<1>2. call'[k] = NoCall /\ \A j \in Call \ {k} : call'[j] = Detached[j]
  BY DEF Detached
<1> QED
  BY <1>1, <1>2

(* What is known of the details of a claim stays so: neither is undone.     *)
LEMMA DetailsStayKnown == WizardInv /\ VisitInv /\ WizardNext => DetailsKnown'
<1> SUFFICES ASSUME WizardInv, VisitInv, WizardNext PROVE DetailsKnown'
  OBVIOUS
<1> USE WizardNilAssumption DEF WizardInv, WizardTypeOK, StateTyped, CallType, PageType,
       ClaimType, CallsAreNamed, VisitInv, DetailsKnown
<1>1. CASE ContinueToEvidence
  BY <1>1 DEF ContinueToEvidence, server, Serving
<1>2. CASE ContinueToReview
  BY <1>2, Detaching DEF ContinueToReview, Kept, server, Serving
<1>3. ASSUME NEW k \in Call, PressCreate(k) PROVE DetailsKnown'
  BY <1>3 DEF PressCreate, Sends, Request, NoCall, server, Serving
<1>4. ASSUME NEW k \in Call, CreateAnswered(k) PROVE DetailsKnown'
  BY <1>4 DEF CreateAnswered, Sends, Answered, Serving, server
<1>5. ASSUME NEW k \in Call, DetailsAnswered(k) PROVE DetailsKnown'
  <2>1. call'[k] = NoCall /\ \A j \in Call \ {k} : Kept(call'[j], call[j])
    BY <1>5, Leaving DEF DetailsAnswered
  <2> QED
    BY <1>5, <2>1 DEF DetailsAnswered, Answered, Serving, Shows, Kept, NoCall, server
<1>6. ASSUME NEW k \in Call, PressAddItem(k) PROVE DetailsKnown'
  BY <1>6 DEF PressAddItem, Sends, Request, NoCall, Awaited, server, Serving
<1>7. ASSUME NEW k \in Call, ItemAnswered(k) PROVE DetailsKnown'
  BY <1>7 DEF ItemAnswered, Answered, Serving, Shows, Sends, NoCall, server
<1>8. ASSUME NEW k \in Call, PressUpload(k) PROVE DetailsKnown'
  BY <1>8 DEF PressUpload, Sends, Request, NoCall, server, Serving
<1>9. ASSUME NEW k \in Call, UploadAnswered(k) PROVE DetailsKnown'
  BY <1>9 DEF UploadAnswered, Answered, Serving, Sends, server
<1>10. ASSUME NEW k \in Call, LinkAnswered(k) PROVE DetailsKnown'
  BY <1>10 DEF LinkAnswered, Answered, Serving, Shows, Sends, NoCall, server
<1>11. ASSUME NEW k \in Call, PressSubmit(k) PROVE DetailsKnown'
  BY <1>11 DEF PressSubmit, Sends, Request, NoCall, server, Serving
<1>12. ASSUME NEW k \in Call, SubmitAnswered(k) PROVE DetailsKnown'
  <2>1. call'[k] = NoCall /\ \A j \in Call \ {k} : Kept(call'[j], call[j])
    BY <1>12, Leaving DEF SubmitAnswered
  <2> QED
    BY <1>12, <2>1 DEF SubmitAnswered, Answered, Serving, Shows, Kept, NoCall, server
<1>13. ASSUME NEW k \in Call, Fail(k) PROVE DetailsKnown'
  BY <1>13 DEF Fail, Sends, server, Serving
<1>14. ASSUME NEW k \in Call, \E c \in Claim : InsertClaim(k, c) PROVE DetailsKnown'
  BY <1>14 DEF InsertClaim, Serving, Sends, server
<1>15. ASSUME NEW k \in Call, LogCreated(k) PROVE DetailsKnown'
  BY <1>15 DEF LogCreated, Serving, Sends, server
<1>16. ASSUME NEW k \in Call, SaveDetails(k) PROVE DetailsKnown'
  BY <1>16 DEF SaveDetails, Serving, Sends, server
<1>17. ASSUME NEW k \in Call, \E r \in Row : InsertRow(k, r) PROVE DetailsKnown'
  BY <1>17 DEF InsertRow, Serving, Sends, server
<1>18. ASSUME NEW k \in Call, \E p \in Photo : Store(k, p) PROVE DetailsKnown'
  BY <1>18 DEF Store, Serving, Sends, server
<1>19. ASSUME NEW k \in Call, LinkDocument(k) PROVE DetailsKnown'
  BY <1>19 DEF LinkDocument, Serving, Sends, server
<1>20. ASSUME NEW k \in Call, ReadForSubmit(k) PROVE DetailsKnown'
  BY <1>20 DEF ReadForSubmit, Serving, Sends, RowsOf, server
<1>21. ASSUME NEW k \in Call, FileClaim(k) PROVE DetailsKnown'
  BY <1>21 DEF FileClaim, Serving, Sends, server
<1>22. ASSUME NEW k \in Call, CheckDraft(k) PROVE DetailsKnown'
  BY <1>22 DEF CheckDraft, Serving, Sends, server
<1>23. ASSUME NEW k \in Call, TotalWritten(k) PROVE DetailsKnown'
  BY <1>23 DEF TotalWritten, Serving, Sends, server
<1>24. ASSUME NEW k \in Call, LookUpKey(k) PROVE DetailsKnown'
  BY <1>24 DEF LookUpKey, Serving, Sends, server
<1>25. ASSUME NEW k \in Call, Refuse(k) PROVE DetailsKnown'
  BY <1>25 DEF Refuse, Serving, Sends, server
<1>26. ASSUME NEW k \in Call, Forget(k) PROVE DetailsKnown'
  BY <1>26 DEF Forget, Serving, Sends, server, NoCall
<1> QED
  BY <1>1, <1>2, <1>3, <1>4, <1>5, <1>6, <1>7, <1>8, <1>9, <1>10, <1>11, <1>12, <1>13,
       <1>14, <1>15, <1>16, <1>17, <1>18, <1>19, <1>20, <1>21, <1>22, <1>23, <1>24,
       <1>25, <1>26
  DEF WizardNext, PageNext, ServerNext

(* Rows and links stay.                                                     *)
LEMMA AnswersStayStored == WizardInv /\ VisitInv /\ WizardNext => AnswersStored'
<1> SUFFICES ASSUME WizardInv, VisitInv, WizardNext PROVE AnswersStored'
  OBVIOUS
<1> USE WizardNilAssumption DEF WizardInv, WizardTypeOK, StateTyped, CallType, PageType,
       CallsAreNamed, VisitInv, AnswersStored
<1>1. CASE ContinueToEvidence
  BY <1>1 DEF ContinueToEvidence, server, Serving
<1>2. CASE ContinueToReview
  BY <1>2, Detaching DEF ContinueToReview, Kept, server, Serving
<1>3. ASSUME NEW k \in Call, PressCreate(k) PROVE AnswersStored'
  BY <1>3 DEF PressCreate, Sends, Request, NoCall, server, Serving
<1>4. ASSUME NEW k \in Call, CreateAnswered(k) PROVE AnswersStored'
  BY <1>4 DEF CreateAnswered, Sends, Answered, Serving, server
<1>5. ASSUME NEW k \in Call, DetailsAnswered(k) PROVE AnswersStored'
  <2>1. call'[k] = NoCall /\ \A j \in Call \ {k} : Kept(call'[j], call[j])
    BY <1>5, Leaving DEF DetailsAnswered
  <2> QED
    BY <1>5, <2>1 DEF DetailsAnswered, Answered, Serving, Shows, Kept, NoCall, server
<1>6. ASSUME NEW k \in Call, PressAddItem(k) PROVE AnswersStored'
  BY <1>6 DEF PressAddItem, Sends, Request, NoCall, Awaited, server, Serving
<1>7. ASSUME NEW k \in Call, ItemAnswered(k) PROVE AnswersStored'
  BY <1>7 DEF ItemAnswered, Answered, Serving, Shows, Sends, NoCall, server
<1>8. ASSUME NEW k \in Call, PressUpload(k) PROVE AnswersStored'
  BY <1>8 DEF PressUpload, Sends, Request, NoCall, server, Serving
<1>9. ASSUME NEW k \in Call, UploadAnswered(k) PROVE AnswersStored'
  BY <1>9 DEF UploadAnswered, Answered, Serving, Sends, server
<1>10. ASSUME NEW k \in Call, LinkAnswered(k) PROVE AnswersStored'
  BY <1>10 DEF LinkAnswered, Answered, Serving, Shows, Sends, NoCall, server
<1>11. ASSUME NEW k \in Call, PressSubmit(k) PROVE AnswersStored'
  BY <1>11 DEF PressSubmit, Sends, Request, NoCall, server, Serving
<1>12. ASSUME NEW k \in Call, SubmitAnswered(k) PROVE AnswersStored'
  <2>1. call'[k] = NoCall /\ \A j \in Call \ {k} : Kept(call'[j], call[j])
    BY <1>12, Leaving DEF SubmitAnswered
  <2> QED
    BY <1>12, <2>1 DEF SubmitAnswered, Answered, Serving, Shows, Kept, NoCall, server
<1>13. ASSUME NEW k \in Call, Fail(k) PROVE AnswersStored'
  BY <1>13 DEF Fail, Sends, server, Serving
<1>14. ASSUME NEW k \in Call, \E c \in Claim : InsertClaim(k, c) PROVE AnswersStored'
  BY <1>14 DEF InsertClaim, Serving, Sends, server
<1>15. ASSUME NEW k \in Call, LogCreated(k) PROVE AnswersStored'
  BY <1>15 DEF LogCreated, Serving, Sends, server
<1>16. ASSUME NEW k \in Call, SaveDetails(k) PROVE AnswersStored'
  BY <1>16 DEF SaveDetails, Serving, Sends, server
<1>17. ASSUME NEW k \in Call, \E r \in Row : InsertRow(k, r) PROVE AnswersStored'
  BY <1>17 DEF InsertRow, Serving, Sends, server
<1>18. ASSUME NEW k \in Call, \E p \in Photo : Store(k, p) PROVE AnswersStored'
  BY <1>18 DEF Store, Serving, Sends, server
<1>19. ASSUME NEW k \in Call, LinkDocument(k) PROVE AnswersStored'
  BY <1>19 DEF LinkDocument, Serving, Sends, server
<1>20. ASSUME NEW k \in Call, ReadForSubmit(k) PROVE AnswersStored'
  BY <1>20 DEF ReadForSubmit, Serving, Sends, RowsOf, server
<1>21. ASSUME NEW k \in Call, FileClaim(k) PROVE AnswersStored'
  BY <1>21 DEF FileClaim, Serving, Sends, server
<1>22. ASSUME NEW k \in Call,
             \/ CheckDraft(k) \/ TotalWritten(k) \/ LookUpKey(k) \/ Refuse(k)
             \/ Forget(k)
      PROVE  AnswersStored'
  BY <1>22 DEF CheckDraft, Serving, Sends, TotalWritten, LookUpKey, Refuse, Forget,
       NoCall, server
<1> QED
  BY <1>1, <1>2, <1>3, <1>4, <1>5, <1>6, <1>7, <1>8, <1>9, <1>10, <1>11, <1>12, <1>13,
       <1>14, <1>15, <1>16, <1>17, <1>18, <1>19, <1>20, <1>21, <1>22
  DEF WizardNext, PageNext, ServerNext

(* The page only shows more, and goes on only with something shown.         *)
LEMMA StepsStayInOrder == WizardInv /\ VisitInv /\ WizardNext => StepsFollow'
<1> SUFFICES ASSUME WizardInv, VisitInv, WizardNext PROVE StepsFollow'
  OBVIOUS
<1> USE WizardNilAssumption DEF WizardInv, WizardTypeOK, StateTyped, CallType, PageType,
       CallsAreNamed, PageHasClaim, VisitInv, StepsFollow
<1>1. CASE ContinueToEvidence
  BY <1>1 DEF ContinueToEvidence, server, Serving
<1>2. CASE ContinueToReview
  BY <1>2, Detaching DEF ContinueToReview, Kept, server, Serving
<1>3. ASSUME NEW k \in Call, PressCreate(k) PROVE StepsFollow'
  BY <1>3 DEF PressCreate, Sends, Request, NoCall, server, Serving
<1>4. ASSUME NEW k \in Call, CreateAnswered(k) PROVE StepsFollow'
  BY <1>4 DEF CreateAnswered, Sends, Answered, Serving, server
<1>5. ASSUME NEW k \in Call, DetailsAnswered(k) PROVE StepsFollow'
  <2>1. call'[k] = NoCall /\ \A j \in Call \ {k} : Kept(call'[j], call[j])
    BY <1>5, Leaving DEF DetailsAnswered
  <2> QED
    BY <1>5, <2>1 DEF DetailsAnswered, Answered, Serving, Shows, Kept, NoCall, server
<1>6. ASSUME NEW k \in Call, PressAddItem(k) PROVE StepsFollow'
  BY <1>6 DEF PressAddItem, Sends, Request, NoCall, Awaited, server, Serving
<1>7. ASSUME NEW k \in Call, ItemAnswered(k) PROVE StepsFollow'
  BY <1>7 DEF ItemAnswered, Answered, Serving, Shows, Sends, NoCall, server
<1>8. ASSUME NEW k \in Call, PressUpload(k) PROVE StepsFollow'
  BY <1>8 DEF PressUpload, Sends, Request, NoCall, server, Serving
<1>9. ASSUME NEW k \in Call, UploadAnswered(k) PROVE StepsFollow'
  BY <1>9 DEF UploadAnswered, Answered, Serving, Sends, server
<1>10. ASSUME NEW k \in Call, LinkAnswered(k) PROVE StepsFollow'
  BY <1>10 DEF LinkAnswered, Answered, Serving, Shows, Sends, NoCall, server
<1>11. ASSUME NEW k \in Call, PressSubmit(k) PROVE StepsFollow'
  BY <1>11 DEF PressSubmit, Sends, Request, NoCall, server, Serving
<1>12. ASSUME NEW k \in Call, SubmitAnswered(k) PROVE StepsFollow'
  <2>1. call'[k] = NoCall /\ \A j \in Call \ {k} : Kept(call'[j], call[j])
    BY <1>12, Leaving DEF SubmitAnswered
  <2> QED
    BY <1>12, <2>1 DEF SubmitAnswered, Answered, Serving, Shows, Kept, NoCall, server
<1>13. ASSUME NEW k \in Call, Fail(k) PROVE StepsFollow'
  BY <1>13 DEF Fail, Sends, server, Serving
<1>14. ASSUME NEW k \in Call, \E c \in Claim : InsertClaim(k, c) PROVE StepsFollow'
  BY <1>14 DEF InsertClaim, Serving, Sends, server
<1>15. ASSUME NEW k \in Call, LogCreated(k) PROVE StepsFollow'
  BY <1>15 DEF LogCreated, Serving, Sends, server
<1>16. ASSUME NEW k \in Call, SaveDetails(k) PROVE StepsFollow'
  BY <1>16 DEF SaveDetails, Serving, Sends, server
<1>17. ASSUME NEW k \in Call, \E r \in Row : InsertRow(k, r) PROVE StepsFollow'
  BY <1>17 DEF InsertRow, Serving, Sends, server
<1>18. ASSUME NEW k \in Call, \E p \in Photo : Store(k, p) PROVE StepsFollow'
  BY <1>18 DEF Store, Serving, Sends, server
<1>19. ASSUME NEW k \in Call, LinkDocument(k) PROVE StepsFollow'
  BY <1>19 DEF LinkDocument, Serving, Sends, server
<1>20. ASSUME NEW k \in Call, ReadForSubmit(k) PROVE StepsFollow'
  BY <1>20 DEF ReadForSubmit, Serving, Sends, RowsOf, server
<1>21. ASSUME NEW k \in Call, FileClaim(k) PROVE StepsFollow'
  BY <1>21 DEF FileClaim, Serving, Sends, server
<1>22. ASSUME NEW k \in Call,
             \/ CheckDraft(k) \/ TotalWritten(k) \/ LookUpKey(k) \/ Refuse(k)
             \/ Forget(k)
      PROVE  StepsFollow'
  BY <1>22 DEF CheckDraft, Serving, Sends, TotalWritten, LookUpKey, Refuse, Forget,
       NoCall, server
<1> QED
  BY <1>1, <1>2, <1>3, <1>4, <1>5, <1>6, <1>7, <1>8, <1>9, <1>10, <1>11, <1>12, <1>13,
       <1>14, <1>15, <1>16, <1>17, <1>18, <1>19, <1>20, <1>21, <1>22
  DEF WizardNext, PageNext, ServerNext

(* The page gets its claim once, before there are calls about it.           *)
LEMMA StaysOfTheClaim == WizardInv /\ VisitInv /\ WizardNext => CallsOfTheClaim'
<1> SUFFICES ASSUME WizardInv, VisitInv, WizardNext PROVE CallsOfTheClaim'
  OBVIOUS
<1> USE WizardNilAssumption DEF WizardInv, WizardTypeOK, StateTyped, CallType, PageType,
       VisitInv, CallsOfTheClaim
<1>1. CASE ContinueToEvidence
  BY <1>1 DEF ContinueToEvidence, server, Serving
<1>2. CASE ContinueToReview
  BY <1>2, Detaching DEF ContinueToReview, Kept, server, Serving
<1>3. ASSUME NEW k \in Call, PressCreate(k) PROVE CallsOfTheClaim'
  BY <1>3 DEF PressCreate, Sends, Request, NoCall, server, Serving
<1>4. ASSUME NEW k \in Call, CreateAnswered(k) PROVE CallsOfTheClaim'
  BY <1>4 DEF CreateAnswered, Sends, Answered, Serving, server
<1>5. ASSUME NEW k \in Call, DetailsAnswered(k) PROVE CallsOfTheClaim'
  <2>1. call'[k] = NoCall /\ \A j \in Call \ {k} : Kept(call'[j], call[j])
    BY <1>5, Leaving DEF DetailsAnswered
  <2> QED
    BY <1>5, <2>1 DEF DetailsAnswered, Answered, Serving, Shows, Kept, NoCall, server,
       OneClaim, StepsFollow, Awaited
<1>6. ASSUME NEW k \in Call, PressAddItem(k) PROVE CallsOfTheClaim'
  BY <1>6 DEF PressAddItem, Sends, Request, NoCall, Awaited, server, Serving
<1>7. ASSUME NEW k \in Call, ItemAnswered(k) PROVE CallsOfTheClaim'
  BY <1>7 DEF ItemAnswered, Answered, Serving, Shows, Sends, NoCall, server
<1>8. ASSUME NEW k \in Call, PressUpload(k) PROVE CallsOfTheClaim'
  BY <1>8 DEF PressUpload, Sends, Request, NoCall, server, Serving
<1>9. ASSUME NEW k \in Call, UploadAnswered(k) PROVE CallsOfTheClaim'
  BY <1>9 DEF UploadAnswered, Answered, Serving, Sends, server
<1>10. ASSUME NEW k \in Call, LinkAnswered(k) PROVE CallsOfTheClaim'
  BY <1>10 DEF LinkAnswered, Answered, Serving, Shows, Sends, NoCall, server
<1>11. ASSUME NEW k \in Call, PressSubmit(k) PROVE CallsOfTheClaim'
  BY <1>11 DEF PressSubmit, Sends, Request, NoCall, server, Serving
<1>12. ASSUME NEW k \in Call, SubmitAnswered(k) PROVE CallsOfTheClaim'
  <2>1. call'[k] = NoCall /\ \A j \in Call \ {k} : Kept(call'[j], call[j])
    BY <1>12, Leaving DEF SubmitAnswered
  <2> QED
    BY <1>12, <2>1 DEF SubmitAnswered, Answered, Serving, Shows, Kept, NoCall, server
<1>13. ASSUME NEW k \in Call, Fail(k) PROVE CallsOfTheClaim'
  BY <1>13 DEF Fail, Sends, server, Serving
<1>14. ASSUME NEW k \in Call, \E c \in Claim : InsertClaim(k, c) PROVE CallsOfTheClaim'
  BY <1>14 DEF InsertClaim, Serving, Sends, server
<1>15. ASSUME NEW k \in Call, LogCreated(k) PROVE CallsOfTheClaim'
  BY <1>15 DEF LogCreated, Serving, Sends, server
<1>16. ASSUME NEW k \in Call, SaveDetails(k) PROVE CallsOfTheClaim'
  BY <1>16 DEF SaveDetails, Serving, Sends, server
<1>17. ASSUME NEW k \in Call, \E r \in Row : InsertRow(k, r) PROVE CallsOfTheClaim'
  BY <1>17 DEF InsertRow, Serving, Sends, server
<1>18. ASSUME NEW k \in Call, \E p \in Photo : Store(k, p) PROVE CallsOfTheClaim'
  BY <1>18 DEF Store, Serving, Sends, server
<1>19. ASSUME NEW k \in Call, LinkDocument(k) PROVE CallsOfTheClaim'
  BY <1>19 DEF LinkDocument, Serving, Sends, server
<1>20. ASSUME NEW k \in Call, ReadForSubmit(k) PROVE CallsOfTheClaim'
  BY <1>20 DEF ReadForSubmit, Serving, Sends, RowsOf, server
<1>21. ASSUME NEW k \in Call, FileClaim(k) PROVE CallsOfTheClaim'
  BY <1>21 DEF FileClaim, Serving, Sends, server
<1>22. ASSUME NEW k \in Call,
             \/ CheckDraft(k) \/ TotalWritten(k) \/ LookUpKey(k) \/ Refuse(k)
             \/ Forget(k)
      PROVE  CallsOfTheClaim'
  BY <1>22 DEF CheckDraft, Serving, Sends, TotalWritten, LookUpKey, Refuse, Forget,
       NoCall, server
<1> QED
  BY <1>1, <1>2, <1>3, <1>4, <1>5, <1>6, <1>7, <1>8, <1>9, <1>10, <1>11, <1>12, <1>13,
       <1>14, <1>15, <1>16, <1>17, <1>18, <1>19, <1>20, <1>21, <1>22
  DEF WizardNext, PageNext, ServerNext

(* ... a link counts once it is stored, for the claim the page has.         *)
LEMMA LinksStayOfTheClaim == WizardInv /\ VisitInv /\ WizardNext => LinksOfTheClaim'
<1> SUFFICES ASSUME WizardInv, VisitInv, WizardNext PROVE LinksOfTheClaim'
  OBVIOUS
<1>a. LinksOfTheClaim /\ CallsOfTheClaim /\ AnswersStored /\ StepsFollow /\ OneClaim
  BY DEF VisitInv, WizardInv
<1>b. page \in PageType
  BY DEF WizardInv, WizardTypeOK, StateTyped
<1>1. ASSUME doubled => doubled', evidence \subseteq evidence',
             page'.claimId = page.claimId, page'.linked = page.linked
      PROVE  LinksOfTheClaim'
  BY <1>a, <1>1 DEF LinksOfTheClaim
<1>2. CASE ContinueToEvidence \/ ContinueToReview
  BY <1>1, <1>2, <1>b DEF ContinueToEvidence, ContinueToReview, PageType, server
<1>3. ASSUME NEW k \in Call,
             \/ PressCreate(k) \/ PressAddItem(k) \/ PressUpload(k) \/ PressSubmit(k)
             \/ CreateAnswered(k) \/ UploadAnswered(k) \/ Fail(k)
      PROVE  LinksOfTheClaim'
  BY <1>1, <1>3 DEF PressCreate, PressAddItem, PressUpload, PressSubmit, CreateAnswered,
       UploadAnswered, Fail, server
<1>4. ASSUME NEW k \in Call, ServerNext(k) PROVE LinksOfTheClaim'
  <2>1. UNCHANGED <<page, doubled>> /\ evidence \subseteq evidence'
    BY <1>4 DEF ServerNext, InsertClaim, LogCreated, SaveDetails, CheckDraft, InsertRow,
         TotalWritten, Store, LinkDocument, LookUpKey, ReadForSubmit, FileClaim, Refuse,
         Forget, server
  <2> QED
    BY <1>1, <2>1
<1>5. ASSUME NEW k \in Call, ItemAnswered(k) \/ SubmitAnswered(k) PROVE LinksOfTheClaim'
  BY <1>1, <1>5, <1>b DEF ItemAnswered, SubmitAnswered, Shows, PageType, server
<1>6. ASSUME NEW k \in Call, DetailsAnswered(k) PROVE LinksOfTheClaim'
  <2>1. doubled \/ page.claimId = Nil
    BY <1>6, <1>a DEF DetailsAnswered, Answered, Serving, OneClaim, Awaited
  <2>2. doubled \/ page.linked = 0
    BY <2>1, <1>a DEF StepsFollow
  <2>3. doubled' = doubled /\ page'.linked = page.linked
    BY <1>6, <1>b DEF DetailsAnswered, Shows, PageType
  <2> QED
    BY <2>2, <2>3 DEF LinksOfTheClaim
<1>7. ASSUME NEW k \in Call, LinkAnswered(k) PROVE LinksOfTheClaim'
  <2>1. doubled \/ call[k].claim = page.claimId
    BY <1>7, <1>a DEF LinkAnswered, Answered, Serving, CallsOfTheClaim
  <2>2. call[k].photo \in Photo /\ <<call[k].claim, call[k].photo>> \in evidence
    BY <1>7, <1>a DEF LinkAnswered, Answered, AnswersStored
  <2>3. UNCHANGED <<doubled, evidence>> /\ page'.claimId = page.claimId
    BY <1>7, <1>b DEF LinkAnswered, Shows, PageType, server
  <2> QED
    BY <2>1, <2>2, <2>3 DEF LinksOfTheClaim
<1> QED
  BY <1>2, <1>3, <1>4, <1>5, <1>6, <1>7 DEF WizardNext, PageNext

(* ... and an item of the page is a row of that claim.                      *)
LEMMA RowsStayOfTheClaim == WizardInv /\ VisitInv /\ WizardNext => RowsOfTheClaim'
<1> SUFFICES ASSUME WizardInv, VisitInv, WizardNext PROVE RowsOfTheClaim'
  OBVIOUS
<1>a. /\ RowsOfTheClaim /\ CallsOfTheClaim /\ AnswersStored /\ StepsFollow /\ FiledAsShown
      /\ CallsAreNamed /\ OneClaim
  BY DEF VisitInv, WizardInv
<1>b. page \in PageType /\ row \in [Row -> Claim \cup {Nil}]
  BY DEF WizardInv, WizardTypeOK, StateTyped
<1>1. ASSUME doubled => doubled', row' = row,
             page'.claimId = page.claimId, page'.shown = page.shown
      PROVE  RowsOfTheClaim'
  BY <1>a, <1>1 DEF RowsOfTheClaim
<1>2. CASE ContinueToEvidence \/ ContinueToReview
  BY <1>1, <1>2, <1>b DEF ContinueToEvidence, ContinueToReview, PageType, server
<1>3. ASSUME NEW k \in Call,
             \/ PressCreate(k) \/ PressAddItem(k) \/ PressUpload(k) \/ PressSubmit(k)
             \/ CreateAnswered(k) \/ UploadAnswered(k) \/ Fail(k)
      PROVE  RowsOfTheClaim'
  BY <1>1, <1>3 DEF PressCreate, PressAddItem, PressUpload, PressSubmit, CreateAnswered,
       UploadAnswered, Fail, server
<1>4. ASSUME NEW k \in Call, NEW r \in Row, InsertRow(k, r) PROVE RowsOfTheClaim'
  <2>1. doubled \/ call[k].claim = page.claimId
    BY <1>4, <1>a DEF InsertRow, Serving, CallsOfTheClaim
  <2>2. UNCHANGED <<doubled, page>> /\ row' = [row EXCEPT ![r] = call[k].claim]
    BY <1>4 DEF InsertRow
  <2> QED
    BY <1>a, <1>b, <2>1, <2>2 DEF RowsOfTheClaim
<1>5. ASSUME NEW k \in Call, ServerNext(k), ~ \E r \in Row : InsertRow(k, r)
      PROVE  RowsOfTheClaim'
  <2>1. UNCHANGED <<page, doubled, row>>
    BY <1>5 DEF ServerNext, InsertClaim, LogCreated, SaveDetails, CheckDraft, TotalWritten,
         Store, LinkDocument, LookUpKey, ReadForSubmit, FileClaim, Refuse, Forget, server
  <2> QED
    BY <1>1, <2>1
<1>6. ASSUME NEW k \in Call, LinkAnswered(k) \/ SubmitAnswered(k) PROVE RowsOfTheClaim'
  BY <1>1, <1>6, <1>b DEF LinkAnswered, SubmitAnswered, Shows, PageType, server
<1>7. ASSUME NEW k \in Call, DetailsAnswered(k) PROVE RowsOfTheClaim'
  <2>1. doubled \/ page.claimId = Nil
    BY <1>7, <1>a DEF DetailsAnswered, Answered, Serving, OneClaim, Awaited
  <2>2. doubled \/ (page.shown = {} /\ \A r \in Row : row[r] = Nil)
    BY <2>1, <1>a DEF StepsFollow, RowsOfTheClaim
  <2>3. doubled' = doubled /\ page'.shown = page.shown /\ row' = row
    BY <1>7, <1>b DEF DetailsAnswered, Shows, PageType, server
  <2> QED
    BY <2>2, <2>3 DEF RowsOfTheClaim
<1>8. ASSUME NEW k \in Call, ItemAnswered(k) PROVE RowsOfTheClaim'
  <2>1. doubled \/ (/\ row[call[k].row] = page.claimId
                    /\ \A r \in call[k].shown : row[r] = page.claimId)
    BY <1>8, <1>a DEF ItemAnswered, Answered, Serving, CallsOfTheClaim, AnswersStored,
         FiledAsShown
  <2>2. /\ UNCHANGED <<doubled, row>> /\ page'.claimId = page.claimId
        /\ page'.shown \in {page.shown, call[k].shown \cup {call[k].row}}
    BY <1>8, <1>b DEF ItemAnswered, Shows, PageType, server
  <2> QED
    BY <1>a, <2>1, <2>2 DEF RowsOfTheClaim
<1> QED
  BY <1>2, <1>3, <1>4, <1>5, <1>6, <1>7, <1>8 DEF WizardNext, PageNext

(* What a call was sent with is stored when it is served.                   *)
LEMMA StaysAsShown == WizardInv /\ VisitInv /\ WizardNext => FiledAsShown'
<1> SUFFICES ASSUME WizardInv, VisitInv, WizardNext PROVE FiledAsShown'
  OBVIOUS
<1> USE WizardNilAssumption DEF WizardInv, WizardTypeOK, StateTyped, CallType, PageType,
       CallsAreNamed, PageHasClaim, OneClaim, VisitInv, StepsFollow, CallsOfTheClaim,
       RowsOfTheClaim, FiledAsShown, RowsOf, Awaited
<1>1. CASE ContinueToEvidence
  BY <1>1 DEF ContinueToEvidence, server, Serving
<1>2. CASE ContinueToReview
  BY <1>2, Detaching DEF ContinueToReview, Kept, server, Serving
<1>3. ASSUME NEW k \in Call, PressCreate(k) PROVE FiledAsShown'
  BY <1>3 DEF PressCreate, Sends, Request, NoCall, server, Serving
<1>4. ASSUME NEW k \in Call, CreateAnswered(k) PROVE FiledAsShown'
  BY <1>4 DEF CreateAnswered, Sends, Answered, Serving, server
<1>5. ASSUME NEW k \in Call, DetailsAnswered(k) PROVE FiledAsShown'
  <2>1. call'[k] = NoCall /\ \A j \in Call \ {k} : Kept(call'[j], call[j])
    BY <1>5, Leaving DEF DetailsAnswered
  <2> QED
    BY <1>5, <2>1 DEF DetailsAnswered, Answered, Serving, Shows, Kept, NoCall, server
<1>6. ASSUME NEW k \in Call, PressAddItem(k) PROVE FiledAsShown'
  BY <1>6 DEF PressAddItem, Sends, Request, NoCall, Awaited, server, Serving
<1>7. ASSUME NEW k \in Call, ItemAnswered(k) PROVE FiledAsShown'
  BY <1>7 DEF ItemAnswered, Answered, Serving, Shows, Sends, NoCall, server
<1>8. ASSUME NEW k \in Call, PressUpload(k) PROVE FiledAsShown'
  BY <1>8 DEF PressUpload, Sends, Request, NoCall, server, Serving
<1>9. ASSUME NEW k \in Call, UploadAnswered(k) PROVE FiledAsShown'
  BY <1>9 DEF UploadAnswered, Answered, Serving, Sends, server
<1>10. ASSUME NEW k \in Call, LinkAnswered(k) PROVE FiledAsShown'
  BY <1>10 DEF LinkAnswered, Answered, Serving, Shows, Sends, NoCall, server
<1>11. ASSUME NEW k \in Call, PressSubmit(k) PROVE FiledAsShown'
  BY <1>11 DEF PressSubmit, Sends, Request, NoCall, server, Serving
<1>12. ASSUME NEW k \in Call, SubmitAnswered(k) PROVE FiledAsShown'
  <2>1. call'[k] = NoCall /\ \A j \in Call \ {k} : Kept(call'[j], call[j])
    BY <1>12, Leaving DEF SubmitAnswered
  <2> QED
    BY <1>12, <2>1 DEF SubmitAnswered, Answered, Serving, Shows, Kept, NoCall, server
<1>13. ASSUME NEW k \in Call, Fail(k) PROVE FiledAsShown'
  BY <1>13 DEF Fail, Sends, server, Serving
<1>14. ASSUME NEW k \in Call, \E c \in Claim : InsertClaim(k, c) PROVE FiledAsShown'
  BY <1>14 DEF InsertClaim, Serving, Sends, server
<1>15. ASSUME NEW k \in Call, LogCreated(k) PROVE FiledAsShown'
  BY <1>15 DEF LogCreated, Serving, Sends, server
<1>16. ASSUME NEW k \in Call, SaveDetails(k) PROVE FiledAsShown'
  BY <1>16 DEF SaveDetails, Serving, Sends, server
<1>17. ASSUME NEW k \in Call, \E r \in Row : InsertRow(k, r) PROVE FiledAsShown'
  BY <1>17 DEF InsertRow, Serving, Sends, server
<1>18. ASSUME NEW k \in Call, \E p \in Photo : Store(k, p) PROVE FiledAsShown'
  BY <1>18 DEF Store, Serving, Sends, server
<1>19. ASSUME NEW k \in Call, LinkDocument(k) PROVE FiledAsShown'
  BY <1>19 DEF LinkDocument, Serving, Sends, server
<1>20. ASSUME NEW k \in Call, ReadForSubmit(k) PROVE FiledAsShown'
  BY <1>20 DEF ReadForSubmit, Serving, Sends, RowsOf, server
<1>21. ASSUME NEW k \in Call, FileClaim(k) PROVE FiledAsShown'
  BY <1>21 DEF FileClaim, Serving, Sends, server
<1>22. ASSUME NEW k \in Call,
             \/ CheckDraft(k) \/ TotalWritten(k) \/ LookUpKey(k) \/ Refuse(k)
             \/ Forget(k)
      PROVE  FiledAsShown'
  BY <1>22 DEF CheckDraft, Serving, Sends, TotalWritten, LookUpKey, Refuse, Forget,
       NoCall, server
<1> QED
  BY <1>1, <1>2, <1>3, <1>4, <1>5, <1>6, <1>7, <1>8, <1>9, <1>10, <1>11, <1>12, <1>13,
       <1>14, <1>15, <1>16, <1>17, <1>18, <1>19, <1>20, <1>21, <1>22
  DEF WizardNext, PageNext, ServerNext

(* A second item in flight, or a lost answer, is a miss.                    *)
LEMMA StaysOneItem == WizardInv /\ VisitInv /\ WizardNext => OneItem'
<1> SUFFICES ASSUME WizardInv, VisitInv, WizardNext PROVE OneItem'
  OBVIOUS
<1> USE WizardNilAssumption DEF WizardInv, WizardTypeOK, StateTyped, CallType, PageType,
       VisitInv, OneItem
<1>1. CASE ContinueToEvidence
  BY <1>1 DEF ContinueToEvidence, server, Serving
<1>2. CASE ContinueToReview
  BY <1>2, Detaching DEF ContinueToReview, Kept, server, Serving
<1>3. ASSUME NEW k \in Call, PressCreate(k) PROVE OneItem'
  BY <1>3 DEF PressCreate, Sends, Request, NoCall, server, Serving
<1>4. ASSUME NEW k \in Call, CreateAnswered(k) PROVE OneItem'
  BY <1>4 DEF CreateAnswered, Sends, Answered, Serving, server
<1>5. ASSUME NEW k \in Call, DetailsAnswered(k) PROVE OneItem'
  <2>1. call'[k] = NoCall /\ \A j \in Call \ {k} : Kept(call'[j], call[j])
    BY <1>5, Leaving DEF DetailsAnswered
  <2> QED
    BY <1>5, <2>1 DEF DetailsAnswered, Answered, Serving, Shows, Kept, NoCall, server
<1>6. ASSUME NEW k \in Call, PressAddItem(k) PROVE OneItem'
  BY <1>6 DEF PressAddItem, Sends, Request, NoCall, Awaited, server, Serving
<1>7. ASSUME NEW k \in Call, ItemAnswered(k) PROVE OneItem'
  BY <1>7 DEF ItemAnswered, Answered, Serving, Shows, Sends, NoCall, server
<1>8. ASSUME NEW k \in Call, PressUpload(k) PROVE OneItem'
  BY <1>8 DEF PressUpload, Sends, Request, NoCall, server, Serving
<1>9. ASSUME NEW k \in Call, UploadAnswered(k) PROVE OneItem'
  BY <1>9 DEF UploadAnswered, Answered, Serving, Sends, server
<1>10. ASSUME NEW k \in Call, LinkAnswered(k) PROVE OneItem'
  BY <1>10 DEF LinkAnswered, Answered, Serving, Shows, Sends, NoCall, server
<1>11. ASSUME NEW k \in Call, PressSubmit(k) PROVE OneItem'
  BY <1>11 DEF PressSubmit, Sends, Request, NoCall, server, Serving
<1>12. ASSUME NEW k \in Call, SubmitAnswered(k) PROVE OneItem'
  <2>1. call'[k] = NoCall /\ \A j \in Call \ {k} : Kept(call'[j], call[j])
    BY <1>12, Leaving DEF SubmitAnswered
  <2> QED
    BY <1>12, <2>1 DEF SubmitAnswered, Answered, Serving, Shows, Kept, NoCall, server
<1>13. ASSUME NEW k \in Call, Fail(k) PROVE OneItem'
  BY <1>13 DEF Fail, Sends, server, Serving
<1>14. ASSUME NEW k \in Call, \E c \in Claim : InsertClaim(k, c) PROVE OneItem'
  BY <1>14 DEF InsertClaim, Serving, Sends, server
<1>15. ASSUME NEW k \in Call, LogCreated(k) PROVE OneItem'
  BY <1>15 DEF LogCreated, Serving, Sends, server
<1>16. ASSUME NEW k \in Call, SaveDetails(k) PROVE OneItem'
  BY <1>16 DEF SaveDetails, Serving, Sends, server
<1>17. ASSUME NEW k \in Call, \E r \in Row : InsertRow(k, r) PROVE OneItem'
  BY <1>17 DEF InsertRow, Serving, Sends, server
<1>18. ASSUME NEW k \in Call, \E p \in Photo : Store(k, p) PROVE OneItem'
  BY <1>18 DEF Store, Serving, Sends, server
<1>19. ASSUME NEW k \in Call, LinkDocument(k) PROVE OneItem'
  BY <1>19 DEF LinkDocument, Serving, Sends, server
<1>20. ASSUME NEW k \in Call, ReadForSubmit(k) PROVE OneItem'
  BY <1>20 DEF ReadForSubmit, Serving, Sends, RowsOf, server
<1>21. ASSUME NEW k \in Call, FileClaim(k) PROVE OneItem'
  BY <1>21 DEF FileClaim, Serving, Sends, server
<1>22. ASSUME NEW k \in Call, CheckDraft(k) PROVE OneItem'
  BY <1>22 DEF CheckDraft, Serving, Sends, server
<1>23. ASSUME NEW k \in Call, TotalWritten(k) PROVE OneItem'
  BY <1>23 DEF TotalWritten, Serving, Sends, server
<1>24. ASSUME NEW k \in Call, LookUpKey(k) PROVE OneItem'
  BY <1>24 DEF LookUpKey, Serving, Sends, server
<1>25. ASSUME NEW k \in Call, Refuse(k) PROVE OneItem'
  BY <1>25 DEF Refuse, Serving, Sends, server
<1>26. ASSUME NEW k \in Call, Forget(k) PROVE OneItem'
  BY <1>26 DEF Forget, Serving, Sends, server, NoCall
<1> QED
  BY <1>1, <1>2, <1>3, <1>4, <1>5, <1>6, <1>7, <1>8, <1>9, <1>10, <1>11, <1>12, <1>13,
       <1>14, <1>15, <1>16, <1>17, <1>18, <1>19, <1>20, <1>21, <1>22, <1>23, <1>24,
       <1>25, <1>26
  DEF WizardNext, PageNext, ServerNext

(* The page shows an item with its answer, in the render the press was in.   *)
LEMMA NothingGoesMissing == WizardInv /\ VisitInv /\ WizardNext => NothingMissed'
<1> SUFFICES ASSUME WizardInv, VisitInv, WizardNext PROVE NothingMissed'
  OBVIOUS
<1> USE WizardNilAssumption DEF WizardInv, WizardTypeOK, StateTyped, CallType, PageType,
       VisitInv, OneItem, NothingMissed
<1>1. CASE ContinueToEvidence
  BY <1>1 DEF ContinueToEvidence, server, Serving
<1>2. CASE ContinueToReview
  BY <1>2, Detaching DEF ContinueToReview, Kept, server, Serving
<1>3. ASSUME NEW k \in Call, PressCreate(k) PROVE NothingMissed'
  BY <1>3 DEF PressCreate, Sends, Request, NoCall, server, Serving
<1>4. ASSUME NEW k \in Call, CreateAnswered(k) PROVE NothingMissed'
  BY <1>4 DEF CreateAnswered, Sends, Answered, Serving, server
<1>5. ASSUME NEW k \in Call, DetailsAnswered(k) PROVE NothingMissed'
  <2>1. call'[k] = NoCall /\ \A j \in Call \ {k} : Kept(call'[j], call[j])
    BY <1>5, Leaving DEF DetailsAnswered
  <2> QED
    BY <1>5, <2>1 DEF DetailsAnswered, Answered, Serving, Shows, Kept, NoCall, server
<1>6. ASSUME NEW k \in Call, PressAddItem(k) PROVE NothingMissed'
  BY <1>6 DEF PressAddItem, Sends, Request, NoCall, Awaited, server, Serving
<1>7. ASSUME NEW k \in Call, ItemAnswered(k) PROVE NothingMissed'
  BY <1>7 DEF ItemAnswered, Answered, Serving, Shows, Sends, NoCall, server
<1>8. ASSUME NEW k \in Call, PressUpload(k) PROVE NothingMissed'
  BY <1>8 DEF PressUpload, Sends, Request, NoCall, server, Serving
<1>9. ASSUME NEW k \in Call, UploadAnswered(k) PROVE NothingMissed'
  BY <1>9 DEF UploadAnswered, Answered, Serving, Sends, server
<1>10. ASSUME NEW k \in Call, LinkAnswered(k) PROVE NothingMissed'
  BY <1>10 DEF LinkAnswered, Answered, Serving, Shows, Sends, NoCall, server
<1>11. ASSUME NEW k \in Call, PressSubmit(k) PROVE NothingMissed'
  BY <1>11 DEF PressSubmit, Sends, Request, NoCall, server, Serving
<1>12. ASSUME NEW k \in Call, SubmitAnswered(k) PROVE NothingMissed'
  <2>1. call'[k] = NoCall /\ \A j \in Call \ {k} : Kept(call'[j], call[j])
    BY <1>12, Leaving DEF SubmitAnswered
  <2> QED
    BY <1>12, <2>1 DEF SubmitAnswered, Answered, Serving, Shows, Kept, NoCall, server
<1>13. ASSUME NEW k \in Call, Fail(k) PROVE NothingMissed'
  BY <1>13 DEF Fail, Sends, server, Serving
<1>14. ASSUME NEW k \in Call, \E c \in Claim : InsertClaim(k, c) PROVE NothingMissed'
  BY <1>14 DEF InsertClaim, Serving, Sends, server
<1>15. ASSUME NEW k \in Call, LogCreated(k) PROVE NothingMissed'
  BY <1>15 DEF LogCreated, Serving, Sends, server
<1>16. ASSUME NEW k \in Call, SaveDetails(k) PROVE NothingMissed'
  BY <1>16 DEF SaveDetails, Serving, Sends, server
<1>17. ASSUME NEW k \in Call, \E r \in Row : InsertRow(k, r) PROVE NothingMissed'
  BY <1>17 DEF InsertRow, Serving, Sends, server
<1>18. ASSUME NEW k \in Call, \E p \in Photo : Store(k, p) PROVE NothingMissed'
  BY <1>18 DEF Store, Serving, Sends, server
<1>19. ASSUME NEW k \in Call, LinkDocument(k) PROVE NothingMissed'
  BY <1>19 DEF LinkDocument, Serving, Sends, server
<1>20. ASSUME NEW k \in Call, ReadForSubmit(k) PROVE NothingMissed'
  BY <1>20 DEF ReadForSubmit, Serving, Sends, RowsOf, server
<1>21. ASSUME NEW k \in Call, FileClaim(k) PROVE NothingMissed'
  BY <1>21 DEF FileClaim, Serving, Sends, server
<1>22. ASSUME NEW k \in Call,
             \/ CheckDraft(k) \/ TotalWritten(k) \/ LookUpKey(k) \/ Refuse(k)
             \/ Forget(k)
      PROVE  NothingMissed'
  BY <1>22 DEF CheckDraft, Serving, Sends, TotalWritten, LookUpKey, Refuse, Forget,
       NoCall, server
<1> QED
  BY <1>1, <1>2, <1>3, <1>4, <1>5, <1>6, <1>7, <1>8, <1>9, <1>10, <1>11, <1>12, <1>13,
       <1>14, <1>15, <1>16, <1>17, <1>18, <1>19, <1>20, <1>21, <1>22
  DEF WizardNext, PageNext, ServerNext

(* A visit begins with nothing stored and nothing shown.                    *)
LEMMA VisitStarts == WizardInit => VisitInv
<1> USE WizardNilAssumption DEF WizardInit, NoCall, Serving
<1>1. WizardInit => DetailsKnown /\ AnswersStored /\ StepsFollow
  BY DEF DetailsKnown, AnswersStored, StepsFollow
<1>2. WizardInit => CallsOfTheClaim /\ LinksOfTheClaim /\ RowsOfTheClaim /\ FiledAsShown
                      /\ OneItem /\ NothingMissed
  BY DEF CallsOfTheClaim, LinksOfTheClaim, RowsOfTheClaim, FiledAsShown, OneItem, NothingMissed
<1> QED
  BY <1>1, <1>2 DEF VisitInv

LEMMA VisitKeeps == WizardInv /\ VisitInv /\ [WizardNext]_wizardVars => VisitInv'
<1>1. WizardInv /\ VisitInv /\ WizardNext => VisitInv'
  BY DetailsStayKnown, AnswersStayStored, StepsStayInOrder, StaysOfTheClaim, LinksStayOfTheClaim,
     RowsStayOfTheClaim, StaysAsShown,
     StaysOneItem, NothingGoesMissing DEF VisitInv
<1>2. VisitInv /\ UNCHANGED wizardVars => VisitInv'
  <2> SUFFICES ASSUME VisitInv, UNCHANGED wizardVars PROVE VisitInv'
    OBVIOUS
  <2> USE DEF VisitInv, wizardVars, server, Serving
  <2>1. DetailsKnown' /\ AnswersStored' /\ StepsFollow'
    BY DEF DetailsKnown, AnswersStored, StepsFollow
  <2>2. CallsOfTheClaim' /\ LinksOfTheClaim' /\ RowsOfTheClaim' /\ FiledAsShown'
    BY DEF CallsOfTheClaim, LinksOfTheClaim, RowsOfTheClaim, FiledAsShown
  <2>3. OneItem' /\ NothingMissed'
    BY DEF OneItem, NothingMissed
  <2> QED
    BY <2>1, <2>2, <2>3
<1> QED
  BY <1>1, <1>2

LEMMA Visiting == WizardSpec => [](WizardInv /\ VisitInv)
<1>1. WizardInit => WizardInv /\ VisitInv
  BY WizardStarts, VisitStarts
<1>2. WizardInv /\ VisitInv /\ [WizardNext]_wizardVars => (WizardInv /\ VisitInv)'
  BY WizardKeeps, VisitKeeps
<1> QED
  BY <1>1, <1>2, PTL DEF WizardSpec

(* Every later step autosaves against the page's claim: what it shows is    *)
(* what is stored, and what is filed is what it showed.                     *)
THEOREM AutoSaved == WizardSpec => []ShownIsSaved
<1>1. ASSUME WizardInv, VisitInv PROVE ShownIsSaved
  <2> USE <1>1 DEF WizardInv, WizardTypeOK, StateTyped, PageType, VisitInv
  <2>1. ~doubled => page.shown \subseteq RowsOf(page.claimId) /\ filing.seen \subseteq filing.rows
    BY DEF CallsOfTheClaim, LinksOfTheClaim, RowsOfTheClaim, FiledAsShown, RowsOf
  <2>2. /\ ~doubled /\ page.claimId # Nil /\ page.step # "left" /\ ~missed
        /\ \A k \in Call : call[k].op # "item"
        => RowsOf(page.claimId) \subseteq page.shown
    BY DEF NothingMissed, RowsOf
  <2> QED
    BY <2>1, <2>2 DEF ShownIsSaved
<1> QED
  BY <1>1, Visiting, PTL

(* Who gets to the review has a claim that a submit accepts.                *)
THEOREM Submittable == WizardSpec => []ReviewIsSubmittable
<1>1. ASSUME WizardInv, VisitInv PROVE ReviewIsSubmittable
  <2> USE <1>1 DEF WizardInv, WizardTypeOK, StateTyped, PageType, VisitInv
  <2> SUFFICES ASSUME page.step = "review", ~doubled
               PROVE  /\ claim[page.claimId].detailed /\ claim[page.claimId].logged
                      /\ RowsOf(page.claimId) # {} /\ PhotosOf(page.claimId) # {}
    BY DEF ReviewIsSubmittable
  <2>1. page.claimId # Nil
    BY DEF PageHasClaim
  <2>2. page.shown # {} /\ page.linked # 0
    BY DEF StepsFollow
  <2>3. RowsOf(page.claimId) # {}
    BY <2>2 DEF CallsOfTheClaim, LinksOfTheClaim, RowsOfTheClaim, RowsOf
  <2> QED
    BY <2>1, <2>2, <2>3 DEF DetailsKnown, CallsOfTheClaim, LinksOfTheClaim, RowsOfTheClaim, PhotosOf
<1> QED
  BY <1>1, Visiting, PTL

-----------------------------------------------------------------------------
(* The gates of onboarding.                                                 *)

USE SizeAssumption, NoDocAssumption, NoCaseAssumption

-----------------------------------------------------------------------------
(* Documents.  A request works on a document that has a row, or on one that *)
(* it alone is about to insert and nobody can reach yet.                    *)
Reaches(h) ==
    LET own == docHandler[h]
    IN  /\ own.pc # "idle" => own.doc \in Doc
        /\ own.pc \in {"complete", "stat", "deleting"} => doc[own.doc].status # "absent"
        /\ own.pc = "written" => /\ doc[own.doc].status = "absent"
                                 /\ own.size # 0 /\ UploadAllowed(own.size)
                                 /\ object[own.doc] = own.size

OneWriter ==
    \A g, h \in DocHandler :
        docHandler[g].pc = "written" /\ docHandler[h].pc = "written"
          /\ docHandler[g].doc = docHandler[h].doc => g = h

(* What a completion has looked at is what is stored, unless a deletion or  *)
(* another upload came between.                                             *)
Looked(h) ==
    LET own == docHandler[h]
    IN  own.pc = "stat" =>
          /\ own.size # 0 /\ UploadAllowed(own.size)
          /\ own.doc \notin crossed => object[own.doc] # 0
          /\ own.doc \notin crossed \cup rewritten => object[own.doc] = own.size

(* A document is deleted by its row first, and while it is, no completion   *)
(* is under way that the deletion did not cross.                            *)
Deletes(h) ==
    LET own == docHandler[h]
    IN  /\ own.pc = "deleting" /\ own.doc \notin crossed => doc[own.doc].status = "deleted"
        /\ own.pc \in {"complete", "stat"} /\ own.doc \notin crossed
             => doc[own.doc].status # "deleted"

Allowed ==
    /\ \A d \in Doc : doc[d].status # "absent" => UploadAllowed(doc[d].size)
    /\ \A d \in url : doc[d].status # "absent"

DocInv ==
    /\ DocTypeOK
    /\ \A h \in DocHandler : Reaches(h) /\ Looked(h) /\ Deletes(h)
    /\ OneWriter /\ Allowed /\ ReadyIsStored

DocRequest == [pc : {"idle", "complete", "stat", "written", "deleting"},
               doc : Doc \cup {NoDoc}, size : Size \cup {0}]

LEMMA DocInitially == ASSUME DocInit PROVE DocInv
BY DEF DocInit, DocInv, DocTypeOK, DocIdle, Reaches, Looked, Deletes, OneWriter, Allowed,
       ReadyIsStored

(* The request h goes on with r, and the others stay as they are.           *)
LEMMA DocTurn ==
    ASSUME DocTypeOK, NEW h \in DocHandler, NEW r \in DocRequest, DocGoes(h, r)
    PROVE  /\ docHandler' \in [DocHandler -> DocRequest]
           /\ docHandler'[h] = r
           /\ \A g \in DocHandler \ {h} : docHandler'[g] = docHandler[g]
BY DEF DocTypeOK, DocGoes, DocRequest

LEMMA InitiateUploadKeeps ==
    ASSUME DocInv, NEW d \in Doc, NEW size \in Size, InitiateUpload(d, size)
    PROVE  DocInv'
<1>1. /\ doc[d].status = "absent" /\ object[d] = 0 /\ UploadAllowed(size)
      /\ doc' = [doc EXCEPT ![d] = [status |-> "pending", size |-> size]]
      /\ url' = url \cup {d}
      /\ UNCHANGED <<object, docHandler, crossed, rewritten>>
  BY DEF InitiateUpload, Fresh
<1>2. \A h \in DocHandler : docHandler[h].pc = "written" => docHandler[h].doc # d
  BY DEF InitiateUpload, Fresh, Busy
<1>3. DocTypeOK'
  BY <1>1 DEF DocInv, DocTypeOK
<1>4. \A c \in Doc \ {d} : doc'[c] = doc[c]
  BY <1>1 DEF DocInv, DocTypeOK
<1>5. doc'[d].status = "pending" /\ doc'[d].size = size
  BY <1>1 DEF DocInv, DocTypeOK
<1>6. ASSUME NEW h \in DocHandler PROVE Reaches(h)' /\ Looked(h)' /\ Deletes(h)'
  BY <1>1, <1>2, <1>4, <1>5 DEF DocInv, Reaches, Looked, Deletes, UploadAllowed
<1>7. OneWriter' /\ Allowed' /\ ReadyIsStored'
  BY <1>1, <1>4, <1>5 DEF DocInv, DocTypeOK, OneWriter, Allowed, ReadyIsStored, UploadAllowed
<1> QED
  BY <1>3, <1>6, <1>7 DEF DocInv

LEMMA PutKeeps ==
    ASSUME DocInv, NEW d \in Doc, NEW size \in Size, Put(d, size)
    PROVE  DocInv'
<1>1. /\ doc[d].status # "absent"
      /\ object' = [object EXCEPT ![d] = size]
      /\ rewritten \subseteq rewritten'
      /\ doc[d].status \in {"ready", "deleted"} => d \in rewritten'
      /\ UNCHANGED <<doc, url, docHandler, crossed>>
  BY DEF Put, DocInv, Allowed
<1>2. \A h \in DocHandler : docHandler[h].pc = "stat" /\ docHandler[h].doc = d => d \in rewritten'
  BY DEF Put, Busy
<1>3. DocTypeOK'
  BY DEF Put, DocInv, DocTypeOK
<1>4. object'[d] = size /\ size # 0 /\ \A c \in Doc \ {d} : object'[c] = object[c]
  BY <1>1 DEF DocInv, DocTypeOK
<1>6. ASSUME NEW h \in DocHandler PROVE Reaches(h)' /\ Looked(h)' /\ Deletes(h)'
  BY <1>1, <1>2, <1>4 DEF DocInv, Reaches, Looked, Deletes, UploadAllowed
<1>7. OneWriter' /\ Allowed' /\ ReadyIsStored'
  BY <1>1, <1>4 DEF DocInv, OneWriter, Allowed, ReadyIsStored, UploadAllowed
<1> QED
  BY <1>3, <1>6, <1>7 DEF DocInv

LEMMA UrlExpiresKeeps ==
    ASSUME DocInv, NEW d \in Doc, UrlExpires(d)
    PROVE  DocInv'
BY DEF UrlExpires, DocInv, DocTypeOK, Reaches, Looked, Deletes, OneWriter, Allowed,
       ReadyIsStored, UploadAllowed

(* The steps that change nothing but the request's own record.              *)
LEMMA DocLooksKeeps ==
    ASSUME DocInv, NEW h \in DocHandler,
           \/ \E d \in Doc : LoadDoc(h, d)
           \/ Stat(h)
           \/ DocAbandon(h)
    PROVE  DocInv'
<1>0. UNCHANGED <<doc, object, url, crossed, rewritten>>
  BY DEF LoadDoc, Stat, DocAbandon
<1>1. /\ docHandler' \in [DocHandler -> DocRequest]
      /\ \A g \in DocHandler \ {h} : docHandler'[g] = docHandler[g]
      /\ docHandler'[h].pc \in {"idle", "complete", "stat"}
      /\ docHandler'[h].pc = "complete" => /\ docHandler'[h].doc \in Doc
                                           /\ doc[docHandler'[h].doc].status = "pending"
      /\ docHandler'[h].pc = "stat" =>
           /\ docHandler[h].pc = "complete" /\ docHandler'[h].doc = docHandler[h].doc
           /\ docHandler'[h].size = object[docHandler[h].doc]
           /\ object[docHandler[h].doc] # 0 /\ UploadAllowed(object[docHandler[h].doc])
  <2>1. CASE \E d \in Doc : LoadDoc(h, d)
    <3>1. PICK d \in Doc : /\ doc[d].status = "pending"
                           /\ DocGoes(h, [DocIdle EXCEPT !.pc = "complete", !.doc = d])
      BY <2>1 DEF LoadDoc
    <3> DEFINE r == [DocIdle EXCEPT !.pc = "complete", !.doc = d]
    <3>2. r.pc = "complete" /\ r.doc = d /\ r \in DocRequest
      BY DEF DocIdle, DocRequest
    <3> HIDE DEF r
    <3>3. DocGoes(h, r)
      BY <3>1 DEF r
    <3> QED
      BY <3>1, <3>2, <3>3, DocTurn DEF DocInv
  <2>2. CASE Stat(h)
    <3>1. /\ docHandler[h].pc = "complete" /\ docHandler[h].doc \in Doc
          /\ object[docHandler[h].doc] # 0 /\ UploadAllowed(object[docHandler[h].doc])
          /\ DocGoes(h, [docHandler[h] EXCEPT !.pc = "stat", !.size = object[docHandler[h].doc]])
      BY <2>2 DEF Stat, DocInv, Reaches
    <3>2. object[docHandler[h].doc] \in Size \cup {0}
      BY <3>1 DEF DocInv, DocTypeOK
    <3> QED
      BY <3>1, <3>2 DEF DocInv, DocTypeOK, DocGoes, DocRequest
  <2>3. CASE DocAbandon(h)
    BY <2>3 DEF DocAbandon, DocInv, DocTypeOK, DocGoes, DocIdle, DocRequest
  <2> QED
    BY <2>1, <2>2, <2>3
<1>2. DocTypeOK'
  BY <1>0, <1>1 DEF DocInv, DocTypeOK, DocRequest
<1>3. ASSUME NEW g \in DocHandler PROVE Reaches(g)' /\ Looked(g)' /\ Deletes(g)'
  <2>1. CASE g = h
    BY <1>0, <1>1, <2>1 DEF DocInv, Reaches, Looked, Deletes, UploadAllowed
  <2>2. CASE g # h
    BY <1>0, <1>1, <2>2 DEF DocInv, Reaches, Looked, Deletes, UploadAllowed
  <2> QED
    BY <2>1, <2>2
<1>4. OneWriter' /\ Allowed' /\ ReadyIsStored'
  BY <1>0, <1>1 DEF DocInv, OneWriter, Allowed, ReadyIsStored, UploadAllowed
<1> QED
  BY <1>2, <1>3, <1>4 DEF DocInv

LEMMA WriteObjectKeeps ==
    ASSUME DocInv, NEW h \in DocHandler, NEW d \in Doc, NEW size \in Size, WriteObject(h, d, size)
    PROVE  DocInv'
<1>1. /\ doc[d].status = "absent" /\ UploadAllowed(size)
      /\ object' = [object EXCEPT ![d] = size]
      /\ DocGoes(h, [DocIdle EXCEPT !.pc = "written", !.doc = d, !.size = size])
      /\ UNCHANGED <<doc, url, crossed, rewritten>>
  BY DEF WriteObject, Fresh
<1>2. \A g \in DocHandler : docHandler[g].pc = "written" => docHandler[g].doc # d
  BY DEF WriteObject, Fresh, Busy
<1> DEFINE r == [DocIdle EXCEPT !.pc = "written", !.doc = d, !.size = size]
<1>3. r.pc = "written" /\ r.doc = d /\ r.size = size /\ r \in DocRequest
  BY DEF DocIdle, DocRequest
<1> HIDE DEF r
<1>4. /\ docHandler' \in [DocHandler -> DocRequest]
      /\ docHandler'[h].pc = "written" /\ docHandler'[h].doc = d /\ docHandler'[h].size = size
      /\ \A g \in DocHandler \ {h} : docHandler'[g] = docHandler[g]
      /\ size # 0 /\ object'[d] = size /\ \A c \in Doc \ {d} : object'[c] = object[c]
  <2>1. DocGoes(h, r)
    BY <1>1 DEF r
  <2>2. object'[d] = size /\ \A c \in Doc \ {d} : object'[c] = object[c]
    BY <1>1 DEF DocInv, DocTypeOK
  <2> QED
    BY <1>3, <2>1, <2>2, DocTurn DEF DocInv
<1>5. DocTypeOK'
  BY <1>1, <1>4 DEF DocInv, DocTypeOK, DocRequest
<1>6. ASSUME NEW g \in DocHandler PROVE Reaches(g)' /\ Looked(g)' /\ Deletes(g)'
  <2>1. CASE g = h
    BY <1>1, <1>4, <2>1 DEF Reaches, Looked, Deletes, UploadAllowed
  <2>2. CASE g # h
    BY <1>1, <1>2, <1>4, <2>2 DEF DocInv, Reaches, Looked, Deletes, UploadAllowed
  <2> QED
    BY <2>1, <2>2
<1>7. OneWriter' /\ Allowed' /\ ReadyIsStored'
  BY <1>1, <1>2, <1>4 DEF DocInv, OneWriter, Allowed, ReadyIsStored, UploadAllowed
<1> QED
  BY <1>5, <1>6, <1>7 DEF DocInv

(* A completion makes its row ready, and so does a direct upload.           *)
LEMMA MakesReadyKeeps ==
    ASSUME DocInv, NEW h \in DocHandler, Complete(h) \/ InsertReady(h)
    PROVE  DocInv'
<1> DEFINE d == docHandler[h].doc
           size == docHandler[h].size
<1>1. /\ docHandler[h].pc \in {"stat", "written"}
      /\ doc' = [doc EXCEPT ![d] = [status |-> "ready", size |-> size]]
      /\ DocGoes(h, DocIdle)
      /\ UNCHANGED <<object, url, crossed, rewritten>>
  BY DEF Complete, InsertReady
<1>2. /\ d \in Doc /\ size \in Size /\ UploadAllowed(size)
      /\ d \notin crossed => object[d] # 0
      /\ d \notin crossed \cup rewritten => object[d] = size
  BY <1>1 DEF DocInv, DocTypeOK, Reaches, Looked
<1>3. \A g \in DocHandler \ {h} :
        /\ docHandler[g].pc = "written" => docHandler[g].doc # d
        /\ docHandler[g].pc = "deleting" /\ docHandler[g].doc = d => d \in crossed
  BY <1>1, <1>2 DEF DocInv, OneWriter, Reaches, Deletes
<1> HIDE DEF d, size
<1>4. /\ docHandler'[h].pc = "idle"
      /\ \A g \in DocHandler \ {h} : docHandler'[g] = docHandler[g]
      /\ doc'[d].status = "ready" /\ doc'[d].size = size
      /\ \A c \in Doc \ {d} : doc'[c] = doc[c]
  BY <1>1, <1>2 DEF DocInv, DocTypeOK, DocGoes, DocIdle
<1>5. DocTypeOK'
  BY <1>1, <1>2 DEF DocInv, DocTypeOK, DocGoes, DocIdle
<1>6. ASSUME NEW g \in DocHandler PROVE Reaches(g)' /\ Looked(g)' /\ Deletes(g)'
  <2>1. CASE g = h
    BY <1>4, <2>1 DEF Reaches, Looked, Deletes
  <2>2. CASE g # h
    BY <1>1, <1>3, <1>4, <2>2 DEF DocInv, Reaches, Looked, Deletes, UploadAllowed
  <2> QED
    BY <2>1, <2>2
<1>7. OneWriter' /\ Allowed' /\ ReadyIsStored'
  BY <1>1, <1>2, <1>4 DEF DocInv, DocTypeOK, OneWriter, Allowed, ReadyIsStored, UploadAllowed
<1> QED
  BY <1>5, <1>6, <1>7 DEF DocInv

LEMMA MarkDeletedKeeps ==
    ASSUME DocInv, NEW h \in DocHandler, NEW d \in Doc, MarkDeleted(h, d)
    PROVE  DocInv'
<1>1. /\ docHandler[h] = DocIdle /\ doc[d].status # "absent"
      /\ doc' = [doc EXCEPT ![d].status = "deleted"]
      /\ crossed \subseteq crossed'
      /\ DocGoes(h, [DocIdle EXCEPT !.pc = "deleting", !.doc = d])
      /\ UNCHANGED <<object, url, rewritten>>
  BY DEF MarkDeleted
<1>2. \A g \in DocHandler :
        docHandler[g].pc \in {"complete", "stat"} /\ docHandler[g].doc = d => d \in crossed'
  BY DEF MarkDeleted, Busy
<1> DEFINE r == [DocIdle EXCEPT !.pc = "deleting", !.doc = d]
<1>3. r.pc = "deleting" /\ r.doc = d /\ r \in DocRequest
  BY DEF DocIdle, DocRequest
<1> HIDE DEF r
<1>4. /\ docHandler' \in [DocHandler -> DocRequest]
      /\ docHandler'[h].pc = "deleting" /\ docHandler'[h].doc = d
      /\ \A g \in DocHandler \ {h} : docHandler'[g] = docHandler[g]
      /\ doc'[d].status = "deleted" /\ doc'[d].size = doc[d].size
      /\ \A c \in Doc \ {d} : doc'[c] = doc[c]
  <2>1. DocGoes(h, r)
    BY <1>1 DEF r
  <2>2. /\ doc'[d].status = "deleted" /\ doc'[d].size = doc[d].size
        /\ \A c \in Doc \ {d} : doc'[c] = doc[c]
    BY <1>1 DEF DocInv, DocTypeOK
  <2> QED
    BY <1>3, <2>1, <2>2, DocTurn DEF DocInv
<1>5. DocTypeOK'
  <2>1. crossed' \in SUBSET Doc
    BY DEF MarkDeleted, DocInv, DocTypeOK
  <2> QED
    BY <1>1, <1>4, <2>1 DEF DocInv, DocTypeOK, DocRequest
<1>6. ASSUME NEW g \in DocHandler PROVE Reaches(g)' /\ Looked(g)' /\ Deletes(g)'
  <2>1. CASE g = h
    BY <1>1, <1>4, <2>1 DEF Reaches, Looked, Deletes
  <2>2. CASE g # h
    BY <1>1, <1>2, <1>4, <2>2 DEF DocInv, Reaches, Looked, Deletes, UploadAllowed
  <2> QED
    BY <2>1, <2>2
<1>7. OneWriter' /\ Allowed' /\ ReadyIsStored'
  BY <1>1, <1>4 DEF DocInv, DocTypeOK, OneWriter, Allowed, ReadyIsStored, UploadAllowed
<1> QED
  BY <1>5, <1>6, <1>7 DEF DocInv

LEMMA DeleteObjectKeeps ==
    ASSUME DocInv, NEW h \in DocHandler, DeleteObject(h)
    PROVE  DocInv'
<1> DEFINE d == docHandler[h].doc
<1>1. /\ docHandler[h].pc = "deleting"
      /\ object' = [object EXCEPT ![d] = 0]
      /\ DocGoes(h, DocIdle)
      /\ UNCHANGED <<doc, url, crossed, rewritten>>
  BY DEF DeleteObject
<1>2. /\ d \in Doc /\ doc[d].status # "absent"
      /\ d \notin crossed => doc[d].status = "deleted"
  BY <1>1 DEF DocInv, Reaches, Deletes
<1> HIDE DEF d
<1>4. /\ docHandler'[h].pc = "idle"
      /\ \A g \in DocHandler \ {h} : docHandler'[g] = docHandler[g]
      /\ \A c \in Doc \ {d} : object'[c] = object[c]
  BY <1>1, <1>2 DEF DocInv, DocTypeOK, DocGoes, DocIdle
<1>5. DocTypeOK'
  BY <1>1, <1>2 DEF DocInv, DocTypeOK, DocGoes, DocIdle
<1>6. ASSUME NEW g \in DocHandler PROVE Reaches(g)' /\ Looked(g)' /\ Deletes(g)'
  <2>1. CASE g = h
    BY <1>4, <2>1 DEF Reaches, Looked, Deletes
  <2>2. CASE g # h
    BY <1>1, <1>2, <1>4, <2>2 DEF DocInv, Reaches, Looked, Deletes, UploadAllowed
  <2> QED
    BY <2>1, <2>2
<1>7. OneWriter' /\ Allowed' /\ ReadyIsStored'
  BY <1>1, <1>2, <1>4 DEF DocInv, OneWriter, Allowed, ReadyIsStored, UploadAllowed
<1> QED
  BY <1>5, <1>6, <1>7 DEF DocInv

LEMMA DocKeeps ==
    ASSUME DocInv, DocNext
    PROVE  DocInv'
<1>1. CASE ClientNext
  BY <1>1, InitiateUploadKeeps, PutKeeps, UrlExpiresKeeps DEF ClientNext
<1>2. ASSUME NEW h \in DocHandler, DocHandlerNext(h) PROVE DocInv'
  <2>1. ASSUME NEW d \in Doc, MarkDeleted(h, d) PROVE DocInv'
    BY <2>1, MarkDeletedKeeps
  <2>2. ASSUME NEW d \in Doc, NEW size \in Size, WriteObject(h, d, size) PROVE DocInv'
    BY <2>2, WriteObjectKeeps
  <2> QED
    BY <1>2, <2>1, <2>2, DocLooksKeeps, MakesReadyKeeps, DeleteObjectKeeps DEF DocHandlerNext
<1> QED
  BY <1>1, <1>2 DEF DocNext

(* A deleted document comes back by a completion that the deletion crossed. *)
LEMMA DeletionHolds ==
    ASSUME DocInv, DocNext, NEW d \in Doc, doc[d].status = "deleted", doc'[d].status # "deleted"
    PROVE  d \in crossed
<1>0. doc \in [Doc -> [status : {"absent", "pending", "ready", "deleted"}, size : Size \cup {0}]]
  BY DEF DocInv, DocTypeOK
<1>1. ASSUME NEW c \in Doc, NEW size \in Size, InitiateUpload(c, size) PROVE FALSE
  BY <1>0, <1>1 DEF InitiateUpload, Fresh
<1>2. ASSUME NEW h \in DocHandler, Complete(h) \/ InsertReady(h) PROVE d \in crossed
  <2>1. docHandler[h].doc = d
    BY <1>0, <1>2 DEF Complete, InsertReady
  <2> QED
    BY <1>2, <2>1 DEF Complete, InsertReady, DocInv, Reaches, Deletes
<1>3. ASSUME NEW h \in DocHandler, NEW c \in Doc, MarkDeleted(h, c) PROVE FALSE
  BY <1>0, <1>3 DEF MarkDeleted
<1>4. doc' # doc
  OBVIOUS
<1> QED
  BY <1>1, <1>2, <1>3, <1>4 DEF DocNext, ClientNext, DocHandlerNext, Put, UrlExpires, LoadDoc,
     WriteObject, Stat, DeleteObject, DocAbandon

-----------------------------------------------------------------------------
(* KYC cases.  A completion that nothing contested still finds its case     *)
(* pending, and is the only one to hold it.                                 *)
Undecided(h) ==
    kycHandler[h].pc = "loaded" =>
      /\ kycHandler[h].case \in Opened
      /\ kycHandler[h].case \notin contested => kase[kycHandler[h].case].status = "pending"

OneCompletion ==
    \A g, h \in KycHandler :
        kycHandler[g].pc = "loaded" /\ kycHandler[h].pc = "loaded"
          /\ kycHandler[g].case = kycHandler[h].case
          => g = h \/ kycHandler[h].case \in contested

CaseIsWhole ==
    \A c \in Opened : /\ kase[c].name = (kase[c].status # "failed")
                      /\ kase[c].reason = (kase[c].status = "failed")

KycInv ==
    /\ KycTypeOK /\ IsFiniteSet(Opened)
    /\ \A h \in KycHandler : Undecided(h)
    /\ OneCompletion /\ CaseIsWhole

KycRequest == [pc : {"idle", "loaded"}, case : Case \cup {NoCase}]

CaseRow == [status : {"absent", "pending"} \cup Outcome, born : Nat, name : BOOLEAN, reason : BOOLEAN]

LEMMA KycInitially == ASSUME KycInit PROVE KycInv
<1>1. Opened = {}
  BY DEF KycInit, Opened
<1>2. IsFiniteSet(Opened)
  BY <1>1, FS_EmptySet
<1>3. KycTypeOK
  BY DEF KycInit, KycTypeOK, KycIdle
<1> QED
  BY <1>1, <1>2, <1>3 DEF KycInit, KycInv, KycIdle, Undecided, OneCompletion, CaseIsWhole

LEMMA OpenCaseKeeps ==
    ASSUME KycInv, NEW c \in Case, OpenCase(c)
    PROVE  KycInv'
<1>1. /\ kase[c].status = "absent" /\ c \notin Opened
      /\ kase' = [kase EXCEPT ![c] = [status |-> "pending", born |-> Cardinality(Opened) + 1,
                                      name |-> TRUE, reason |-> FALSE]]
      /\ UNCHANGED <<kycHandler, contested>>
  BY DEF OpenCase, Opened
<1>2. Cardinality(Opened) \in Nat
  BY FS_CardinalityType DEF KycInv
<1> DEFINE n == Cardinality(Opened) + 1
           r == [status |-> "pending", born |-> n, name |-> TRUE, reason |-> FALSE]
<1>3. n \in Nat
  BY <1>2
<1> HIDE DEF n
<1>4. r \in CaseRow /\ r.status = "pending" /\ r.name = TRUE /\ r.reason = FALSE
  BY <1>3 DEF CaseRow
<1> HIDE DEF r
<1>5. kase \in [Case -> CaseRow] /\ kase' = [kase EXCEPT ![c] = r]
  BY <1>1 DEF KycInv, KycTypeOK, CaseRow, r, n
<1>6. /\ kase' \in [Case -> CaseRow]
      /\ kase'[c].status = "pending" /\ kase'[c].name = TRUE /\ kase'[c].reason = FALSE
      /\ \A b \in Case \ {c} : kase'[b] = kase[b]
  BY <1>4, <1>5
<1>7. KycTypeOK'
  BY <1>1, <1>6 DEF KycInv, KycTypeOK, CaseRow
<1>8. Opened' = Opened \cup {c}
  BY <1>6 DEF Opened
<1>9. IsFiniteSet(Opened)'
  BY <1>8, FS_AddElement DEF KycInv
<1>10. ASSUME NEW h \in KycHandler PROVE Undecided(h)'
  BY <1>1, <1>6, <1>8 DEF KycInv, Undecided, Opened
<1>11. OneCompletion' /\ CaseIsWhole'
  BY <1>1, <1>6, <1>8 DEF KycInv, OneCompletion, CaseIsWhole, Opened
<1> QED
  BY <1>7, <1>9, <1>10, <1>11 DEF KycInv

LEMMA LoadCaseKeeps ==
    ASSUME KycInv, NEW h \in KycHandler, NEW c \in Case, LoadCase(h, c)
    PROVE  KycInv'
<1>1. /\ kycHandler[h] = KycIdle /\ kase[c].status = "pending" /\ c \in Opened
      /\ kycHandler' = [kycHandler EXCEPT ![h] = [pc |-> "loaded", case |-> c]]
      /\ contested \subseteq contested' /\ contested' \subseteq Case
      /\ kase' = kase
  BY DEF LoadCase, Opened, KycInv, KycTypeOK
<1>2. \A g \in KycHandler : kycHandler[g].case = c => c \in contested'
  BY DEF LoadCase
<1>3. [pc |-> "loaded", case |-> c] \in KycRequest
  BY DEF KycRequest
<1>4. /\ kycHandler' \in [KycHandler -> KycRequest]
      /\ kycHandler'[h].pc = "loaded" /\ kycHandler'[h].case = c
      /\ \A g \in KycHandler \ {h} : kycHandler'[g] = kycHandler[g]
  BY <1>1, <1>3 DEF KycInv, KycTypeOK, KycRequest
<1>5. KycTypeOK' /\ Opened' = Opened /\ CaseIsWhole'
  BY <1>1, <1>4 DEF KycInv, KycTypeOK, KycRequest, Opened, CaseIsWhole
<1>6. ASSUME NEW g \in KycHandler PROVE Undecided(g)'
  <2>1. CASE g = h
    BY <1>1, <1>4, <1>5, <2>1 DEF Undecided
  <2>2. CASE g # h
    BY <1>1, <1>4, <1>5, <2>2 DEF KycInv, Undecided
  <2> QED
    BY <2>1, <2>2
<1>7. OneCompletion'
  BY <1>1, <1>2, <1>4 DEF KycInv, OneCompletion
<1> QED
  BY <1>5, <1>6, <1>7 DEF KycInv

(* What the UPDATE of a completion leaves behind.                           *)
LEMMA DecidedRow ==
    ASSUME KycInv, NEW c \in Case, NEW outcome \in Outcome, kase' = Decided(c, outcome)
    PROVE  /\ kase' \in [Case -> CaseRow]
           /\ kase'[c].status = outcome
           /\ kase'[c].name = (outcome = "verified")
           /\ kase'[c].reason = (outcome = "failed")
           /\ \A b \in Case \ {c} : kase'[b] = kase[b]
<1>1. kase \in [Case -> CaseRow]
  BY DEF KycInv, KycTypeOK, CaseRow
<1> DEFINE r == [kase[c] EXCEPT !.status = outcome, !.name = (outcome = "verified"),
                                !.reason = (outcome = "failed")]
<1>2. kase[c] \in CaseRow
  BY <1>1
<1>3. /\ r \in CaseRow /\ r.status = outcome /\ r.name = (outcome = "verified")
      /\ r.reason = (outcome = "failed")
  BY <1>2 DEF CaseRow
<1>4. kase' = [kase EXCEPT ![c] = r]
  BY <1>1 DEF Decided
<1> HIDE DEF r
<1> QED
  BY <1>1, <1>3, <1>4

LEMMA CompleteCaseKeeps ==
    ASSUME KycInv, NEW h \in KycHandler, NEW outcome \in Outcome, CompleteCase(h, outcome)
    PROVE  KycInv'
<1> DEFINE c == kycHandler[h].case
<1>1. /\ kycHandler[h].pc = "loaded" /\ kase' = Decided(c, outcome)
      /\ kycHandler' = [kycHandler EXCEPT ![h] = KycIdle]
      /\ contested' = contested
  BY DEF CompleteCase
<1>2. c \in Case /\ c \in Opened /\ c \notin contested => kase[c].status = "pending"
  BY <1>1 DEF KycInv, Undecided, Opened
<1>3. \A g \in KycHandler \ {h} :
        kycHandler[g].pc = "loaded" /\ kycHandler[g].case = c => c \in contested
  BY <1>1 DEF KycInv, OneCompletion
<1>0. c \in Case /\ c \in Opened
  BY <1>1 DEF KycInv, Undecided, Opened
<1> HIDE DEF c
<1>4. /\ kase' \in [Case -> CaseRow]
      /\ kase'[c].status = outcome
      /\ kase'[c].name = (outcome = "verified")
      /\ kase'[c].reason = (outcome = "failed")
      /\ \A b \in Case \ {c} : kase'[b] = kase[b]
  BY <1>0, <1>1, DecidedRow
<1>5. /\ kycHandler' \in [KycHandler -> KycRequest] /\ kycHandler'[h].pc = "idle"
      /\ \A g \in KycHandler \ {h} : kycHandler'[g] = kycHandler[g]
  BY <1>1 DEF KycInv, KycTypeOK, KycRequest, KycIdle
<1>6. KycTypeOK'
  BY <1>1, <1>4, <1>5 DEF KycInv, KycTypeOK, KycRequest, CaseRow
<1>7. Opened' = Opened
  BY <1>0, <1>4 DEF Opened, Outcome
<1>8. ASSUME NEW g \in KycHandler PROVE Undecided(g)'
  <2>1. CASE g = h
    BY <1>5, <2>1 DEF Undecided
  <2>2. CASE g # h
    BY <1>1, <1>3, <1>4, <1>5, <1>7, <2>2 DEF KycInv, Undecided, Opened
  <2> QED
    BY <2>1, <2>2
<1>9. OneCompletion'
  BY <1>1, <1>5 DEF KycInv, OneCompletion
<1>10. CaseIsWhole'
  BY <1>0, <1>4, <1>7 DEF KycInv, CaseIsWhole, Outcome, Opened
<1> QED
  BY <1>6, <1>7, <1>8, <1>9, <1>10 DEF KycInv

LEMMA KycAbandonKeeps ==
    ASSUME KycInv, NEW h \in KycHandler, KycAbandon(h)
    PROVE  KycInv'
<1>1. /\ kycHandler' = [kycHandler EXCEPT ![h] = KycIdle]
      /\ UNCHANGED <<kase, contested>>
  BY DEF KycAbandon
<1>2. /\ kycHandler' \in [KycHandler -> KycRequest] /\ kycHandler'[h].pc = "idle"
      /\ \A g \in KycHandler \ {h} : kycHandler'[g] = kycHandler[g]
  BY <1>1 DEF KycInv, KycTypeOK, KycRequest, KycIdle
<1>3. KycTypeOK' /\ Opened' = Opened /\ CaseIsWhole'
  BY <1>1, <1>2 DEF KycInv, KycTypeOK, KycRequest, Opened, CaseIsWhole
<1>4. (\A g \in KycHandler : Undecided(g)') /\ OneCompletion'
  BY <1>1, <1>2, <1>3 DEF KycInv, Undecided, OneCompletion
<1> QED
  BY <1>3, <1>4 DEF KycInv

LEMMA KycKeeps ==
    ASSUME KycInv, KycNext
    PROVE  KycInv'
<1>1. ASSUME NEW h \in KycHandler, NEW c \in Case, LoadCase(h, c) PROVE KycInv'
  BY <1>1, LoadCaseKeeps
<1>2. ASSUME NEW h \in KycHandler, NEW outcome \in Outcome, CompleteCase(h, outcome) PROVE KycInv'
  BY <1>2, CompleteCaseKeeps
<1> QED
  BY <1>1, <1>2, OpenCaseKeeps, KycAbandonKeeps DEF KycNext

(* A step leaves the rows of opened cases alone, or is the completion of    *)
(* one of them.                                                             *)
LEMMA VerdictHolds ==
    ASSUME KycInv, KycNext, NEW c \in Opened, kase[c].status # "pending"
    PROVE  /\ c \notin contested => kase'[c] = kase[c]
           /\ kase'[c].name = (kase'[c].status # "failed")
           /\ kase'[c].reason = (kase'[c].status = "failed")
<1>0. c \in Case /\ kase \in [Case -> CaseRow]
  BY DEF KycInv, KycTypeOK, Opened, CaseRow
<1>1. CASE kase'[c] = kase[c]
  BY <1>1 DEF KycInv, CaseIsWhole
<1>2. CASE kase'[c] # kase[c]
  <2>1. ASSUME NEW b \in Case, OpenCase(b) PROVE kase'[c] = kase[c]
    <3>1. b # c
      BY <2>1 DEF OpenCase, Opened
    <3> QED
      BY <1>0, <2>1, <3>1 DEF OpenCase
  <2>2. ASSUME NEW h \in KycHandler, NEW outcome \in Outcome, CompleteCase(h, outcome)
        PROVE  /\ c \in contested
               /\ kase'[c].status = outcome
               /\ kase'[c].name = (outcome = "verified") /\ kase'[c].reason = (outcome = "failed")
    <3>1. /\ kycHandler[h].pc = "loaded" /\ kycHandler[h].case \in Case
          /\ kase' = Decided(kycHandler[h].case, outcome)
      BY <2>2 DEF CompleteCase, KycInv, Undecided, Opened
    <3>2. kycHandler[h].case = c
      BY <1>0, <1>2, <3>1, DecidedRow
    <3>3. c \in contested
      BY <3>1, <3>2 DEF KycInv, Undecided
    <3> QED
      BY <1>0, <3>1, <3>2, <3>3, DecidedRow
  <2>3. \E h \in KycHandler, outcome \in Outcome : CompleteCase(h, outcome)
    BY <1>2, <2>1 DEF KycNext, LoadCase, KycAbandon
  <2> QED
    BY <2>2, <2>3 DEF Outcome
<1> QED
  BY <1>1, <1>2

-----------------------------------------------------------------------------
(* The gates.  What claims-service was told stays as good as it was:        *)
(* a document that was ready is ready or deleted, a user who was verified   *)
(* is, or had a completion contested.                                       *)
Given(d) == d \in Doc /\ doc[d].status \in {"ready", "deleted"} /\ UploadAllowed(doc[d].size)

Verified == \E c \in Case : kase[c].status = "verified" \/ c \in contested

GateRequest == [pc : {"idle", "policy", "link", "submit"}, doc : Doc \cup {NoDoc}]

GateInv ==
    /\ policyDoc \in SUBSET Doc /\ links \in SUBSET Doc /\ submitted \in BOOLEAN
    /\ gate \in [Gate -> GateRequest]
    /\ \A g \in Gate : /\ gate[g].pc \in {"policy", "link"} => Given(gate[g].doc)
                       /\ gate[g].pc = "submit" => Verified
    /\ \A d \in policyDoc \cup links : Given(d)
    /\ submitted => Verified /\ policyDoc # {} /\ links # {}

IInv == DocInv /\ KycInv /\ GateInv

LEMMA GivenStays ==
    ASSUME DocInv, DocNext, NEW d, Given(d)
    PROVE  Given(d)'
<1>0. doc \in [Doc -> [status : {"absent", "pending", "ready", "deleted"}, size : Size \cup {0}]]
  BY DEF DocInv, DocTypeOK
<1>1. d \in Doc /\ doc[d].status \in {"ready", "deleted"}
  BY DEF Given
<1>2. Allowed'
  BY DocKeeps DEF DocInv
<1>3. doc'[d].status \in {"ready", "deleted"}
  <2>1. ASSUME NEW c \in Doc, NEW size \in Size, InitiateUpload(c, size)
        PROVE  doc'[d] = doc[d]
    BY <1>0, <1>1, <2>1 DEF InitiateUpload, Fresh
  <2>2. ASSUME NEW h \in DocHandler, Complete(h) \/ InsertReady(h)
        PROVE  doc'[d] = doc[d] \/ doc'[d].status = "ready"
    BY <1>0, <1>1, <2>2 DEF Complete, InsertReady
  <2>3. ASSUME NEW h \in DocHandler, NEW c \in Doc, MarkDeleted(h, c)
        PROVE  doc'[d] = doc[d] \/ doc'[d].status = "deleted"
    BY <1>0, <1>1, <2>3 DEF MarkDeleted
  <2>4. CASE doc' = doc
    BY <1>1, <2>4
  <2> QED
    BY <1>1, <2>1, <2>2, <2>3, <2>4 DEF DocNext, ClientNext, DocHandlerNext, Put, UrlExpires,
       LoadDoc, WriteObject, Stat, DeleteObject, DocAbandon
<1> QED
  BY <1>1, <1>2, <1>3 DEF Given, Allowed, UploadAllowed

LEMMA VerifiedStays ==
    ASSUME KycInv, KycNext, Verified
    PROVE  Verified'
<1>1. PICK c \in Case : kase[c].status = "verified" \/ c \in contested
  BY DEF Verified
<1>2. contested \subseteq contested'
  BY DEF KycNext, OpenCase, LoadCase, CompleteCase, KycAbandon
<1>3. CASE c \in contested
  BY <1>2, <1>3 DEF Verified
<1>4. CASE c \notin contested
  <2>1. kase[c].status = "verified" /\ c \in Opened
    BY <1>1, <1>4 DEF Opened
  <2>2. kase'[c] = kase[c]
    BY <1>4, <2>1, VerdictHolds
  <2> QED
    BY <2>1, <2>2 DEF Verified
<1> QED
  BY <1>3, <1>4

LEMMA GateKeeps ==
    ASSUME DocInv, GateInv, GateNext, UNCHANGED <<docVars, kycVars>>
    PROVE  GateInv'
<1>0. (\A d : Given(d)' = Given(d)) /\ Verified' = Verified
  BY DEF docVars, kycVars, Given, Verified, UploadAllowed
<1> DEFINE Idles(g) == gate' = [gate EXCEPT ![g] = GateIdle]
<1>1. GateIdle \in GateRequest /\ GateIdle.pc = "idle"
  BY DEF GateIdle, GateRequest
<1>2. ASSUME NEW g \in Gate, NEW d \in Doc, NEW purpose \in {"policy", "link"},
             FetchReadyDocument(g, d, purpose)
      PROVE  GateInv'
  <2>1. /\ Given(d) /\ [pc |-> purpose, doc |-> d] \in GateRequest
        /\ gate' = [gate EXCEPT ![g] = [pc |-> purpose, doc |-> d]]
        /\ UNCHANGED <<policyDoc, links, submitted>>
    BY <1>2 DEF FetchReadyDocument, Given, GateRequest, DocInv, Allowed
  <2> QED
    BY <1>0, <2>1 DEF GateInv
<1>3. ASSUME NEW g \in Gate, Idles(g)
      PROVE  /\ gate' \in [Gate -> GateRequest]
             /\ \A h \in Gate : gate'[h] = gate[h] \/ gate'[h].pc = "idle"
  BY <1>1, <1>3 DEF GateInv
<1>4. ASSUME NEW g \in Gate, InsertPolicy(g) \/ InsertLink(g) PROVE GateInv'
  <2>1. /\ Given(gate[g].doc) /\ Idles(g) /\ submitted' = submitted
        /\ policyDoc \subseteq policyDoc' /\ links \subseteq links'
        /\ policyDoc' \cup links' = policyDoc \cup links \cup {gate[g].doc}
    BY <1>4 DEF InsertPolicy, InsertLink, GateInv
  <2>2. policyDoc' \in SUBSET Doc /\ links' \in SUBSET Doc
    BY <2>1 DEF GateInv, Given
  <2> QED
    BY <1>0, <1>3, <2>1, <2>2 DEF GateInv
<1>5. ASSUME NEW g \in Gate, CheckKyc(g) PROVE GateInv'
  <2>1. Verified
    BY <1>5 DEF CheckKyc, Verified, Opened
  <2>2. /\ gate' = [gate EXCEPT ![g].pc = "submit"]
        /\ UNCHANGED <<policyDoc, links, submitted>>
    BY <1>5 DEF CheckKyc
  <2>3. /\ gate' \in [Gate -> GateRequest]
        /\ \A h \in Gate : gate'[h] = gate[h] \/ gate'[h].pc = "submit"
    BY <2>2 DEF GateInv, GateRequest
  <2> QED
    BY <1>0, <2>1, <2>2, <2>3 DEF GateInv
<1>6. ASSUME NEW g \in Gate, Submit(g) PROVE GateInv'
  <2>1. /\ Verified /\ policyDoc # {} /\ links # {} /\ submitted' = TRUE
        /\ Idles(g) /\ UNCHANGED <<policyDoc, links>>
    BY <1>6 DEF Submit, GateInv
  <2> QED
    BY <1>0, <1>3, <2>1 DEF GateInv
<1>7. ASSUME NEW g \in Gate, GateAbandon(g) PROVE GateInv'
  <2>1. Idles(g) /\ UNCHANGED <<policyDoc, links, submitted>>
    BY <1>7 DEF GateAbandon
  <2> QED
    BY <1>0, <1>3, <2>1 DEF GateInv
<1> QED
  BY <1>2, <1>4, <1>5, <1>6, <1>7 DEF GateNext

-----------------------------------------------------------------------------
LEMMA Initially == Init => IInv
<1> SUFFICES ASSUME Init PROVE IInv
  OBVIOUS
<1>1. GateInv
  BY DEF Init, GateInv, GateIdle, GateRequest
<1> QED
  BY <1>1, DocInitially, KycInitially DEF Init, IInv

LEMMA Inductive == IInv /\ [Next]_vars => IInv'
<1> SUFFICES ASSUME IInv, [Next]_vars PROVE IInv'
  OBVIOUS
<1>d. ASSUME UNCHANGED docVars PROVE DocInv'
  BY <1>d DEF IInv, docVars, DocInv, DocTypeOK, Reaches, Looked, Deletes, OneWriter, Allowed,
     ReadyIsStored, UploadAllowed
<1>k. ASSUME UNCHANGED kycVars PROVE KycInv' /\ Verified' = Verified
  BY <1>k DEF IInv, kycVars, KycInv, KycTypeOK, Undecided, OneCompletion, CaseIsWhole, Opened,
     Verified
<1>g. ASSUME UNCHANGED gateVars, \A d : Given(d) => Given(d)', Verified => Verified'
      PROVE  GateInv'
  BY <1>g DEF IInv, gateVars, GateInv
<1>1. CASE DocNext /\ UNCHANGED <<kycVars, gateVars>>
  BY <1>1, <1>k, <1>g, DocKeeps, GivenStays DEF IInv
<1>2. CASE KycNext /\ UNCHANGED <<docVars, gateVars>>
  <2>1. \A d : Given(d) => Given(d)'
    BY <1>2 DEF docVars, Given, UploadAllowed
  <2> QED
    BY <1>2, <1>d, <1>g, <2>1, KycKeeps, VerifiedStays DEF IInv
<1>3. CASE GateNext /\ UNCHANGED <<docVars, kycVars>>
  BY <1>3, <1>d, <1>k, GateKeeps DEF IInv
<1>4. CASE UNCHANGED vars
  <2>1. \A d : Given(d) => Given(d)'
    BY <1>4 DEF vars, docVars, Given, UploadAllowed
  <2> QED
    BY <1>4, <1>d, <1>k, <1>g, <2>1 DEF vars, IInv
<1> QED
  BY <1>1, <1>2, <1>3, <1>4 DEF Next

(* The inductive invariant holds in every reachable state.                  *)
THEOREM Invariance == Spec => []IInv
BY Initially, Inductive, PTL DEF Spec

(* TypeOK: rows, requests and gates have the shapes the code gives them.    *)
THEOREM TypeCorrect == Spec => []TypeOK
<1>1. IInv => TypeOK
  BY DEF IInv, DocInv, KycInv, GateInv, TypeOK, GateRequest
<1> QED
  BY <1>1, Invariance, PTL

(* ReadyIsStored: a ready document is within the limit and has the object   *)
(* that was looked at, unless a deletion or another upload came between.    *)
THEOREM StoredWhenReady == Spec => []ReadyIsStored
<1>1. IInv => ReadyIsStored
  BY DEF IInv, DocInv
<1> QED
  BY <1>1, Invariance, PTL

(* SubmittedWasReady: what claims-service asked the other services holds    *)
(* still when it acts on the answer, or only the user has undone it.        *)
THEOREM ConditionsHeld == Spec => []SubmittedWasReady
<1>1. IInv => SubmittedWasReady
  BY DEF IInv, GateInv, SubmittedWasReady, Given, Verified
<1> QED
  BY <1>1, Invariance, PTL

(* DeletedForGood: a deleted document comes back only by a completion that  *)
(* the deletion crossed.                                                    *)
THEOREM DeletionIsFinal == Spec => DeletedForGood
<1>1. IInv /\ [Next]_vars =>
        [\A d \in Doc : doc[d].status = "deleted" /\ doc'[d].status # "deleted"
                          => d \in crossed]_docVars
  BY DeletionHolds DEF IInv, Next, vars
<1> QED
  BY <1>1, Invariance, PTL DEF Spec, DeletedForGood

(* VerdictIsFinal: a decided case changes only by a completion that another *)
(* one overlapped, and then as a whole.                                     *)
THEOREM VerdictsAreFinal == Spec => VerdictIsFinal
<1>1. IInv /\ [Next]_vars =>
        [\A c \in Opened : kase[c].status # "pending" =>
           /\ c \notin contested => kase'[c] = kase[c]
           /\ kase'[c].name = (kase'[c].status # "failed")
           /\ kase'[c].reason = (kase'[c].status = "failed")]_kycVars
  BY VerdictHolds DEF IInv, Next, vars
<1> QED
  BY <1>1, Invariance, PTL DEF Spec, VerdictIsFinal
=============================================================================
