--------------------------- MODULE DocumentVersions ---------------------------
(* The documents of one application: uploads, versions, reviews and the rows   *)
(* of application_required_documents (modules/applications/applications        *)
(* service and repo, routes/documents.ts).  The service's reviews and uploads  *)
(* are transactions at READ COMMITTED: what they read first may be stale when  *)
(* they write, and what they write is invisible until they commit.  Document   *)
(* types stand for normalised keys.  advanceProcessingStage, which the reviews *)
(* also call, is in ProcessingStage; no route reaches the service's uploads    *)
(* and reviews today.                                                          *)
EXTENDS PipelineStages, FiniteSets

CONSTANTS DocRows,      \* identities for rows of documents
          DocTypes,     \* normalised document keys
          Demand,       \* DocTypes -> "required", "optional" or "none" (not in the requirements)
          DocHandlers,  \* requests in flight
          MaxVersions,  \* bound: versions of one document
          MaxDocCalls   \* bound: requests and moves of the stage

ASSUME DemandAssumption ==
  /\ Demand \in [DocTypes -> {"required", "optional", "none"}]
  /\ MaxVersions \in Nat \ {0} /\ MaxDocCalls \in Nat
  /\ "none" \notin DocTypes \cup DocRows

VARIABLES docRow,       \* DocRows -> NoDoc or [type, status]
          versions,     \* DocRows -> the reviews of its versions 1, 2, ...
          required,     \* DocTypes -> application_required_documents row
          docStage,     \* applications.pipeline_state
          processed,    \* documents with a processing job
          queued,       \* documents with an ocr_document row in job_queue or ocr_jobs
          docReq,       \* the request in each handler
          docCalls,     \* requests and moves of the stage so far
          crossed       \* ghost: documents accepted while an upload of a version was under way

docVars == <<docRow, versions, required, docStage, processed, queued, docReq, docCalls, crossed>>

NoDoc == [type |-> "none", status |-> "none"]
NoRequiredRow == [status |-> "missing", required |-> FALSE]
IdleDoc == [pc |-> "idle", op |-> "none", doc |-> "none", type |-> "none", v |-> 0,
            read |-> Received, pending |-> FALSE]
Reviews == {"none", "accepted", "rejected"}

DocTypeOK ==
  /\ docRow \in [DocRows -> [type : DocTypes, status : {"uploaded", "accepted", "rejected"}] \cup {NoDoc}]
  /\ \A d \in DocRows : versions[d] \in Seq(Reviews) /\ Len(versions[d]) <= MaxVersions
  /\ required \in [DocTypes -> [status : {"missing", "uploaded", "accepted", "rejected"}, required : BOOLEAN]]
  /\ docStage \in Stages /\ docCalls \in 0..MaxDocCalls
  /\ processed \subseteq DocRows /\ queued \subseteq DocRows /\ crossed \subseteq DocRows
  /\ docReq \in [DocHandlers ->
       [pc : {"idle", "insert", "version", "review", "commit", "job", "queue", "ocr"},
        op : {"none", "upload", "public", "staff", "acceptVersion", "rejectVersion", "accept", "reject"},
        doc : DocRows \cup {"none"}, type : DocTypes \cup {"none"}, v : 0..MaxVersions,
        read : Stages, pending : BOOLEAN]]

DocExists(d) == docRow[d] # NoDoc
HasAccepted(d) == \E v \in DOMAIN versions[d] : versions[d][v] = "accepted"
RowOf(t) == required[t] # NoRequiredRow

(* findActiveDocumentVersion: the last accepted version, else the last.        *)
Active(d) ==
  LET accepted == {v \in DOMAIN versions[d] : versions[d][v] = "accepted"}
  IN  IF accepted # {} THEN CHOOSE v \in accepted : \A w \in accepted : w <= v
                       ELSE Len(versions[d])

(* ensureRequiredDocuments: the row of a requirement, or a missing one.        *)
EnsuredRow(t) == IF RowOf(t) THEN required[t]
                 ELSE [status |-> "missing", required |-> Demand[t] # "optional"]

(* evaluateRequirements: a requirement whose row is required is not accepted.  *)
MissingRequired ==
  \E t \in DocTypes : /\ Demand[t] # "none"
                      /\ EnsuredRow(t).required /\ EnsuredRow(t).status # "accepted"

(* fetchProcessingStatus: every demanded key and every required row, accepted. *)
AllRequiredAccepted ==
  \A t \in DocTypes :
    (Demand[t] = "required" \/ required[t].required) => required[t].status = "accepted"

(* createApplicationForUser: the new application is Received, and moves on at  *)
(* once when documents are missing.                                            *)
DocInit ==
  /\ docRow = [d \in DocRows |-> NoDoc]
  /\ versions = [d \in DocRows |-> <<>>]
  /\ required = [t \in DocTypes |-> NoRequiredRow]
  /\ docStage = IF \E t \in DocTypes : Demand[t] = "required" THEN DocsRequired ELSE Received
  /\ processed = {} /\ queued = {} /\ crossed = {}
  /\ docReq = [h \in DocHandlers |-> IdleDoc] /\ docCalls = 0

DocGoto(h, pc) == docReq' = [docReq EXCEPT ![h].pc = pc]
DocCall == docCalls < MaxDocCalls /\ docCalls' = docCalls + 1
DocEnd(h) == docReq' = [docReq EXCEPT ![h] = IdleDoc]
SetRequired(t, status, req) == required' = [required EXCEPT ![t] = [status |-> status, required |-> req]]

(* Row locks: a transaction that has written the rows of a document or of its  *)
(* type keeps everyone else from writing them until it ends.                   *)
Locked(h) ==
  \E g \in DocHandlers \ {h} :
    docReq[g].pc = "commit" /\ (docReq[g].doc = docReq[h].doc \/ docReq[g].type = docReq[h].type)

-------------------------------------------------------------------------------
(* uploadDocument.                                                             *)

\* An upload without a document id: the file is stored and the transaction
\* will insert the document.
UploadNew(h, t) ==
  /\ DocCall /\ docReq[h].pc = "idle"
  /\ docReq' = [docReq EXCEPT ![h] = [IdleDoc EXCEPT !.pc = "insert", !.op = "upload", !.type = t]]
  /\ UNCHANGED <<docRow, versions, required, docStage, processed, queued, crossed>>

\* Mutant: the check for an accepted version is missing.
UploadOverAccepted(h, d) ==
  /\ DocCall /\ docReq[h].pc = "idle" /\ DocExists(d)
  /\ docReq' = [docReq EXCEPT ![h] =
       [IdleDoc EXCEPT !.pc = "version", !.op = "upload", !.doc = d, !.type = docRow[d].type,
                       !.v = Len(versions[d])]]
  /\ UNCHANGED <<docRow, versions, required, docStage, processed, queued, crossed>>

\* A new version of a document: none of its versions is accepted, and the
\* number of the next one is read.
UploadVersion(h, d) ==
  /\ DocCall /\ docReq[h].pc = "idle" /\ DocExists(d) /\ ~HasAccepted(d)
  /\ docReq' = [docReq EXCEPT ![h] =
       [IdleDoc EXCEPT !.pc = "version", !.op = "upload", !.doc = d, !.type = docRow[d].type,
                       !.v = Len(versions[d])]]
  /\ UNCHANGED <<docRow, versions, required, docStage, processed, queued, crossed>>

\* createDocument, createDocumentVersion, updateDocumentUploadDetails.
WriteVersion(d, t) ==
  /\ docRow' = [docRow EXCEPT ![d] = [type |-> t, status |-> "uploaded"]]
  /\ versions' = [versions EXCEPT ![d] = Append(@, "none")]

\* The transaction of a new document commits; only then is it processed.
CommitNew(h) ==
  LET t == docReq[h].type
  IN  /\ docReq[h].pc = "insert" /\ docReq[h].op = "upload" /\ ~Locked(h)
      /\ \E d \in DocRows : /\ ~DocExists(d)
                            /\ WriteVersion(d, t)
                            /\ docReq' = [docReq EXCEPT ![h] = [@ EXCEPT !.pc = "job", !.doc = d]]
      /\ SetRequired(t, "uploaded", Demand[t] = "required")
      /\ UNCHANGED <<docCalls, docStage, processed, queued, crossed>>

\* The transaction of a new version: unique (document_id, version) makes it
\* fail when another upload took the number.
CommitVersion(h) ==
  LET d == docReq[h].doc
  IN  /\ docReq[h].pc = "version" /\ ~Locked(h)
      /\ IF Len(versions[d]) = docReq[h].v /\ Len(versions[d]) < MaxVersions
           THEN /\ WriteVersion(d, docReq[h].type)
                /\ SetRequired(docReq[h].type, "uploaded", Demand[docReq[h].type] = "required")
           ELSE UNCHANGED <<docRow, versions, required>>
      /\ DocEnd(h)
      /\ UNCHANGED <<docCalls, docStage, processed, queued, crossed>>

\* createBankingAnalysisJob or createDocumentProcessingJob, after the commit.
CreateJob(h) ==
  /\ docReq[h].pc = "job"
  /\ processed' = processed \cup {docReq[h].doc}
  /\ DocGoto(h, "queue")
  /\ UNCHANGED <<docCalls, docRow, versions, required, docStage, queued, crossed>>

QueueOcrDocument(h) ==
  /\ docReq[h].pc = "queue"
  /\ queued' = queued \cup {docReq[h].doc}
  /\ DocEnd(h)
  /\ UNCHANGED <<docCalls, docRow, versions, required, docStage, processed, crossed>>

-------------------------------------------------------------------------------
(* routes/documents.ts: the uploads that are mounted.  They write no row of    *)
(* application_required_documents.                                             *)

\* POST /documents/public-upload asks for an application that is not closed.
PublicUpload(h, t) ==
  /\ DocCall /\ docReq[h].pc = "idle" /\ docStage \notin TerminalStages
  /\ docReq' = [docReq EXCEPT ![h] = [IdleDoc EXCEPT !.pc = "insert", !.op = "public", !.type = t]]
  /\ UNCHANGED <<docRow, versions, required, docStage, processed, queued, crossed>>

StaffUpload(h, t) ==
  /\ DocCall /\ docReq[h].pc = "idle"
  /\ docReq' = [docReq EXCEPT ![h] = [IdleDoc EXCEPT !.pc = "insert", !.op = "staff", !.type = t]]
  /\ UNCHANGED <<docRow, versions, required, docStage, processed, queued, crossed>>

\* The document and its first version in one transaction, then OCR at best.
PersistAndEnqueue(h) ==
  /\ docReq[h].pc = "insert" /\ docReq[h].op \in {"public", "staff"}
  /\ \E d \in DocRows : /\ ~DocExists(d)
                        /\ WriteVersion(d, docReq[h].type)
                        /\ docReq' = [docReq EXCEPT ![h] = [@ EXCEPT !.pc = "ocr", !.doc = d]]
  /\ UNCHANGED <<docCalls, required, docStage, processed, queued, crossed>>

EnqueueOcr(h) ==
  /\ docReq[h].pc = "ocr"
  /\ queued' \in {queued, queued \cup {docReq[h].doc}}
  /\ DocEnd(h)
  /\ UNCHANGED <<docCalls, docRow, versions, required, docStage, processed, crossed>>

\* POST /documents/:id/accept and /reject set the status and nothing else.
SetDocumentStatus(d, status) ==
  /\ DocCall /\ DocExists(d)
  /\ docRow' = [docRow EXCEPT ![d].status = status]
  /\ UNCHANGED <<versions, required, docStage, processed, queued, docReq, crossed>>

-------------------------------------------------------------------------------
(* The service's reviews.                                                      *)

BeginReview(h, op, d, v) ==
  docReq' = [docReq EXCEPT ![h] = [IdleDoc EXCEPT !.pc = "review", !.op = op, !.doc = d,
                                     !.type = docRow[d].type, !.v = v, !.read = docStage]]

\* acceptDocumentVersion and rejectDocumentVersion: only while documents are
\* being collected, any version of the document.
ReviewVersion(h, op, d, v) ==
  /\ DocCall /\ docReq[h].pc = "idle" /\ DocExists(d) /\ v \in DOMAIN versions[d]
  /\ docStage \in {DocsRequired, Received}
  /\ BeginReview(h, op, d, v)
  /\ UNCHANGED <<docRow, versions, required, docStage, processed, queued, crossed>>

\* acceptDocument and rejectDocument: the active version, at any stage.
ReviewActive(h, op, d) ==
  /\ DocCall /\ docReq[h].pc = "idle" /\ DocExists(d)
  /\ BeginReview(h, op, d, Active(d))
  /\ UNCHANGED <<docRow, versions, required, docStage, processed, queued, crossed>>

Outcome(op) == IF op \in {"acceptVersion", "accept"} THEN "accepted" ELSE "rejected"

\* Mutant: the required row is written outside the transaction.
WriteRowAtOnce(h) ==
  /\ docReq[h].pc = "review" /\ ~Locked(h)
  /\ IF versions[docReq[h].doc][docReq[h].v] # "none" THEN DocEnd(h) /\ UNCHANGED required
     ELSE /\ docReq' = [docReq EXCEPT ![h] = [@ EXCEPT !.pc = "commit", !.pending =
               \E t \in DocTypes \ {docReq[h].type} : RowOf(t) /\ required[t].status # "accepted"]]
          /\ SetRequired(docReq[h].type, Outcome(docReq[h].op), Demand[docReq[h].type] # "optional")
  /\ UNCHANGED <<docCalls, docRow, versions, docStage, processed, queued, crossed>>

\* The review, the document and the required row are written, not committed.
\* A version that has a review is refused; the other rows are read as they
\* are committed now.
WriteReview(h) ==
  /\ docReq[h].pc = "review" /\ ~Locked(h)
  /\ IF versions[docReq[h].doc][docReq[h].v] # "none" THEN DocEnd(h)
     ELSE docReq' = [docReq EXCEPT ![h] = [@ EXCEPT !.pc = "commit",
            !.pending = \E t \in DocTypes \ {docReq[h].type} : RowOf(t) /\ required[t].status # "accepted"]]
  /\ UNCHANGED <<docCalls, docRow, versions, required, docStage, processed, queued, crossed>>

ReviewRows(h) ==
  LET d == docReq[h].doc
      t == docReq[h].type
      s == Outcome(docReq[h].op)
  IN  /\ versions' = [versions EXCEPT ![d][docReq[h].v] = s]
      /\ docRow' = [docRow EXCEPT ![d].status = s]
      /\ SetRequired(t, s, Demand[t] # "optional")

\* The last pending document moves the application on, from the stage that was
\* read when the review began and whatever the stage is now.
CommitAccept(h) ==
  /\ docReq[h].pc = "commit" /\ docReq[h].op \in {"acceptVersion", "accept"}
  /\ ReviewRows(h)
  /\ docStage' = IF docReq[h].op = "acceptVersion" /\ ~docReq[h].pending /\ docReq[h].read = DocsRequired
                 THEN InReview ELSE docStage
  /\ crossed' = crossed \cup
       {d \in {docReq[h].doc} : \E g \in DocHandlers : docReq[g].pc = "version" /\ docReq[g].doc = d}
  /\ DocEnd(h)
  /\ UNCHANGED <<docCalls, processed, queued>>

\* enforceDocumentsRequiredStage: unless the application was read in Documents
\* Required it is moved there.
EnforceDocumentsRequiredStage(h) ==
  \/ docReq[h].read = DocsRequired /\ UNCHANGED docStage
  \/ docReq[h].read # DocsRequired /\ TransitionAllowed(docStage, DocsRequired) /\ docStage' = DocsRequired

\* An illegal move undoes the whole rejection.
CommitReject(h) ==
  /\ docReq[h].pc = "commit" /\ docReq[h].op \in {"rejectVersion", "reject"}
  /\ \/ EnforceDocumentsRequiredStage(h) /\ ReviewRows(h)
     \/ /\ docReq[h].read # DocsRequired /\ ~TransitionAllowed(docStage, DocsRequired)
        /\ UNCHANGED <<docRow, versions, required, docStage>>
  /\ DocEnd(h)
  /\ UNCHANGED <<docCalls, processed, queued, crossed>>

-------------------------------------------------------------------------------
\* A request fails or its process is lost: an open transaction is undone, what
\* was committed stays.
DocRequestFails(h) ==
  /\ docReq[h].pc # "idle"
  /\ DocEnd(h)
  /\ UNCHANGED <<docCalls, docRow, versions, required, docStage, processed, queued, crossed>>

\* The stage is moved elsewhere (ApplicationPipeline).
StageMoves ==
  /\ DocCall /\ docStage' \in LegalTransitions[docStage]
  /\ UNCHANGED <<docRow, versions, required, processed, queued, docReq, crossed>>

DocNext ==
  \/ \E h \in DocHandlers :
       \/ \E t \in DocTypes : UploadNew(h, t) \/ PublicUpload(h, t) \/ StaffUpload(h, t)
       \/ \E d \in DocRows : UploadVersion(h, d)
       \/ \E d \in DocRows, op \in {"acceptVersion", "rejectVersion"}, v \in 1..MaxVersions :
            ReviewVersion(h, op, d, v)
       \/ \E d \in DocRows, op \in {"accept", "reject"} : ReviewActive(h, op, d)
       \/ CommitNew(h) \/ CommitVersion(h) \/ CreateJob(h) \/ QueueOcrDocument(h)
       \/ PersistAndEnqueue(h) \/ EnqueueOcr(h)
       \/ WriteReview(h) \/ CommitAccept(h) \/ CommitReject(h)
       \/ DocRequestFails(h)
  \/ \E d \in DocRows, s \in {"accepted", "rejected"} : SetDocumentStatus(d, s)
  \/ StageMoves

DocSpec == DocInit /\ [][DocNext]_docVars

-------------------------------------------------------------------------------
\* "Accepted document versions cannot be modified", of a step: a document with an accepted
\* version gets no further version, except from an upload whose check had
\* passed before the acceptance was committed.
AcceptedStays ==
  \A d \in DocRows :
    HasAccepted(d) /\ Len(versions'[d]) > Len(versions[d]) => d \in crossed

\* A row of application_required_documents says accepted only if some document
\* of that type has an accepted version: reviews of several documents, uploads
\* and failures between them never leave an acceptance without its review.
AcceptedIsBacked ==
  \A t \in DocTypes : required[t].status = "accepted" =>
    \E d \in DocRows : docRow[d].type = t /\ HasAccepted(d)

\* The two readers of the requirements agree: when fetchProcessingStatus calls
\* everything accepted, evaluateRequirements finds nothing missing, although
\* the is_required flag of a row depends on which operation wrote it last.
ReadersAgree == AllRequiredAccepted => ~MissingRequired
===============================================================================
