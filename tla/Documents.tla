----------------------------- MODULE Documents -----------------------------
(***************************************************************************)
(* evidence-service: documents, their uploads through a presigned URL or   *)
(* directly, and their deletion.  (routes/documents.routes.ts,             *)
(* lib/object-storage.ts; the object store itself is MinIO.)               *)
(*                                                                         *)
(* The row and the object it stands for live in two stores and no          *)
(* transaction spans them: an action is one statement or one call to the   *)
(* store.  A presigned URL works until it expires, whatever has become of  *)
(* the row.  DocAbandon is a refusal, an error or a crash; a failed        *)
(* storage.delete, which the code ignores, is one too.  An object without  *)
(* a byte, which the code would complete like any other, is left out: size *)
(* 0 stands for no object.                                                 *)
(***************************************************************************)
EXTENDS Naturals

CONSTANTS
    Doc,            \* ids of documents
    DocHandler,     \* requests that may be in flight together
    Size,           \* sizes of what clients upload
    MaxUpload,      \* MAX_UPLOAD_SIZE_BYTES
    NoDoc

ASSUME SizeAssumption == Size \subseteq Nat \ {0} /\ MaxUpload \in Nat
ASSUME NoDocAssumption == NoDoc \notin Doc

VARIABLES
    doc,            \* documents: uploadStatus and sizeBytes
    object,         \* the object store: size of each document's object, 0 if it has none
    url,            \* documents whose presigned upload URL has not expired
    docHandler,     \* requests in flight
    crossed,        \* history: documents deleted while a completion of theirs was in flight
    rewritten       \* history: documents uploaded again after a completion looked at them

docVars == <<doc, object, url, docHandler, crossed, rewritten>>

DocIdle == [pc |-> "idle", doc |-> NoDoc, size |-> 0]

DocTypeOK ==
    /\ doc \in [Doc -> [status : {"absent", "pending", "ready", "deleted"},
                        size : Size \cup {0}]]
    /\ object \in [Doc -> Size \cup {0}]
    /\ url \in SUBSET Doc
    /\ docHandler \in [DocHandler ->
         [pc : {"idle", "complete", "stat", "written", "deleting"},
          doc : Doc \cup {NoDoc}, size : Size \cup {0}]]
    /\ crossed \in SUBSET Doc
    /\ rewritten \in SUBSET Doc

DocInit ==
    /\ doc = [d \in Doc |-> [status |-> "absent", size |-> 0]]
    /\ object = [d \in Doc |-> 0]
    /\ url = {}
    /\ docHandler = [h \in DocHandler |-> DocIdle]
    /\ crossed = {} /\ rewritten = {}

DocGoes(h, request) == docHandler' = [docHandler EXCEPT ![h] = request]

\* Requests on document d at one of these points.
Busy(d, pcs) == {h \in DocHandler : docHandler[h].doc = d /\ docHandler[h].pc \in pcs}

\* assertUploadAllowed, for an accepted content type.
UploadAllowed(size) == size <= MaxUpload

Fresh(d) == doc[d].status = "absent" /\ object[d] = 0 /\ Busy(d, {"written"}) = {}

-----------------------------------------------------------------------------
(* POST /v1/documents/initiate-upload: the row, with the declared size.     *)
InitiateUpload(d, size) ==
    /\ Fresh(d)
    /\ UploadAllowed(size)
    /\ doc' = [doc EXCEPT ![d] = [status |-> "pending", size |-> size]]
    /\ url' = url \cup {d}
    /\ UNCHANGED <<object, docHandler, crossed, rewritten>>

(* The client's PUT to the presigned URL, of any size.                      *)
Put(d, size) ==
    /\ d \in url
    /\ object' = [object EXCEPT ![d] = size]
    /\ rewritten' = IF doc[d].status \in {"ready", "deleted"} \/ Busy(d, {"stat"}) # {}
                    THEN rewritten \cup {d} ELSE rewritten
    /\ UNCHANGED <<doc, url, docHandler, crossed>>

UrlExpires(d) ==
    /\ d \in url
    /\ url' = url \ {d}
    /\ UNCHANGED <<doc, object, docHandler, crossed, rewritten>>

(* Mutant: the status of the row is not looked at.                          *)
LoadAnyDoc(h, d) ==
    /\ docHandler[h] = DocIdle
    /\ doc[d].status # "absent"
    /\ DocGoes(h, [DocIdle EXCEPT !.pc = "complete", !.doc = d])
    /\ UNCHANGED <<doc, object, url, crossed, rewritten>>

(* POST /v1/documents/:id/complete-upload: the row is pending ...           *)
LoadDoc(h, d) ==
    /\ docHandler[h] = DocIdle
    /\ doc[d].status = "pending"
    /\ DocGoes(h, [DocIdle EXCEPT !.pc = "complete", !.doc = d])
    /\ UNCHANGED <<doc, object, url, crossed, rewritten>>

(* Mutant: the size declared at first is what is validated.                 *)
StatDeclared(h) ==
    LET own == docHandler[h]
    IN  /\ own.pc = "complete"
        /\ object[own.doc] # 0
        /\ UploadAllowed(doc[own.doc].size)
        /\ DocGoes(h, [own EXCEPT !.pc = "stat", !.size = doc[own.doc].size])
        /\ UNCHANGED <<doc, object, url, crossed, rewritten>>

(* ... its object exists and its size is allowed ...                        *)
Stat(h) ==
    LET own == docHandler[h]
    IN  /\ own.pc = "complete"
        /\ object[own.doc] # 0
        /\ UploadAllowed(object[own.doc])
        /\ DocGoes(h, [own EXCEPT !.pc = "stat", !.size = object[own.doc]])
        /\ UNCHANGED <<doc, object, url, crossed, rewritten>>

(* ... and the row is ready, whatever its status is by now.                 *)
Complete(h) ==
    LET own == docHandler[h]
    IN  /\ own.pc = "stat"
        /\ doc' = [doc EXCEPT ![own.doc] = [status |-> "ready", size |-> own.size]]
        /\ DocGoes(h, DocIdle)
        /\ UNCHANGED <<object, url, crossed, rewritten>>

(* POST /v1/documents/upload: the object first, then the row.               *)
WriteObject(h, d, size) ==
    /\ docHandler[h] = DocIdle
    /\ Fresh(d)
    /\ UploadAllowed(size)
    /\ object' = [object EXCEPT ![d] = size]
    /\ DocGoes(h, [DocIdle EXCEPT !.pc = "written", !.doc = d, !.size = size])
    /\ UNCHANGED <<doc, url, crossed, rewritten>>

InsertReady(h) ==
    LET own == docHandler[h]
    IN  /\ own.pc = "written"
        /\ doc' = [doc EXCEPT ![own.doc] = [status |-> "ready", size |-> own.size]]
        /\ DocGoes(h, DocIdle)
        /\ UNCHANGED <<object, url, crossed, rewritten>>

(* DELETE /v1/documents/:id: the row, then the object.                      *)
MarkDeleted(h, d) ==
    /\ docHandler[h] = DocIdle
    /\ doc[d].status # "absent"
    /\ doc' = [doc EXCEPT ![d].status = "deleted"]
    /\ crossed' = IF Busy(d, {"complete", "stat"}) # {} THEN crossed \cup {d} ELSE crossed
    /\ DocGoes(h, [DocIdle EXCEPT !.pc = "deleting", !.doc = d])
    /\ UNCHANGED <<object, url, rewritten>>

DeleteObject(h) ==
    /\ docHandler[h].pc = "deleting"
    /\ object' = [object EXCEPT ![docHandler[h].doc] = 0]
    /\ DocGoes(h, DocIdle)
    /\ UNCHANGED <<doc, url, crossed, rewritten>>

DocAbandon(h) ==
    /\ docHandler[h] # DocIdle
    /\ DocGoes(h, DocIdle)
    /\ UNCHANGED <<doc, object, url, crossed, rewritten>>

ClientNext ==
    \/ \E d \in Doc, size \in Size : InitiateUpload(d, size) \/ Put(d, size)
    \/ \E d \in Doc : UrlExpires(d)

DocHandlerNext(h) ==
    \/ \E d \in Doc : LoadDoc(h, d) \/ MarkDeleted(h, d)
    \/ \E d \in Doc, size \in Size : WriteObject(h, d, size)
    \/ Stat(h) \/ Complete(h) \/ InsertReady(h) \/ DeleteObject(h) \/ DocAbandon(h)

DocNext == ClientNext \/ \E h \in DocHandler : DocHandlerNext(h)

-----------------------------------------------------------------------------
(* The two stores agree on what can be downloaded: a ready document was     *)
(* within the limit, has its object unless a completion crossed its         *)
(* deletion, and has the object whose size was looked at unless the client  *)
(* used its upload URL again (complete-upload, lines 144-146).              *)
ReadyIsStored ==
    \A d \in Doc : doc[d].status = "ready" =>
        /\ UploadAllowed(doc[d].size)
        /\ d \notin crossed => object[d] # 0
        /\ d \notin crossed \cup rewritten => object[d] = doc[d].size

(* A deleted document is not handed out again, unless a completion that had *)
(* loaded it as pending crossed the deletion.                               *)
DeletedForGood ==
    [][\A d \in Doc : doc[d].status = "deleted" /\ doc'[d].status # "deleted"
                        => d \in crossed]_docVars
=============================================================================
