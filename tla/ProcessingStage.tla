--------------------------- MODULE ProcessingStage ---------------------------
(***************************************************************************)
(* The processing stage of one application (processingStage.service.ts) and *)
(* the job rows it is derived from (modules/processing): OCR of each        *)
(* document, banking analysis, credit summary.                              *)
(*                                                                          *)
(* A call is a READ COMMITTED transaction.  It keeps the row locks it takes *)
(* until it ends, so its writes are applied when it commits: nobody else    *)
(* could have seen them before.  A call waits for locks, reads the job it   *)
(* may retry without locking it, touches the application (an inserted row's *)
(* foreign key shares its lock, an UPDATE excludes other writers), advances *)
(* the stage under FOR UPDATE, and commits; a fault or PostgreSQL's         *)
(* deadlock detection may roll it back wherever it stands.                  *)
(***************************************************************************)
EXTENDS Naturals, FiniteSets, FiniteSetsExt

CONSTANTS Docs,         \* the documents, one category each
          Required,     \* those the application's product asks for
          Calls,        \* service calls that may overlap
          OcrRetries,   \* document_processing_jobs.max_retries
          BankRetries,  \* banking_analysis_jobs.max_retries
          MaxForced     \* bound on retries forced by staff

ASSUME ProcessingAssumption ==
  /\ "bank" \notin Docs /\ "credit" \notin Docs /\ Required \subseteq Docs
  /\ OcrRetries \in Nat /\ BankRetries \in Nat /\ MaxForced \in Nat

VARIABLES stage,    \* applications.processing_stage
          stamps,   \* which of the *_completed_at columns are set
          job,      \* the job rows: status, retries, retries that were forced
          req,      \* application_required_documents.status
          call,     \* the calls in flight
          lagging   \* something the stage depends on was written after the
                    \* last advance, by code that does not advance it

vars == << stage, stamps, job, req, call, lagging >>

Jobs == Docs \cup {"bank", "credit"}
Stages == {"pending", "ocr_processing", "ocr_complete", "banking_processing",
           "banking_complete", "documents_incomplete", "documents_complete",
           "credit_summary_processing", "credit_summary_complete", "ready_for_lender"}
JobStatus == {"none", "pending", "completed", "failed"}
NoJob == [status |-> "none", retries |-> 0, forced |-> 0]

App == << "app" >>
DocRow(d) == << "doc", d >>
JobRow(j) == << "job", j >>
ReqRow(d) == << "req", d >>
Rows == {App} \cup { DocRow(d) : d \in Docs } \cup { JobRow(j) : j \in Jobs }
        \cup { ReqRow(d) : d \in Docs }

\* Any job: /jobs/:id/retry names one, /retry-job takes the one that failed
\* last, whatever has become of it when retryProcessingJob locks it.
Retries == {"retry"} \X Jobs

\* What a call holds of the application besides FOR UPDATE: nothing, the KEY
\* SHARE of a foreign key, or the NO KEY UPDATE of an UPDATE.
Parts == {"none", "share", "write"}

\* An operation and the job or document it is about.
Operations ==
  ({"createOcr", "accept", "reject", "upload"} \X Docs) \cup Retries
  \cup ({"ocrDone", "ocrFail", "createBank", "bankDone", "bankFail", "advance"} \X {"bank"})
Idle == [op |-> "none", j |-> "bank", pc |-> "idle", held |-> {}, write |-> FALSE,
         part |-> "none", next |-> "pending", fresh |-> FALSE]

Init ==
  /\ stage = "pending"
  /\ stamps = {}
  /\ job = [j \in Jobs |-> NoJob]
  /\ req = [d \in Docs |-> "missing"]
  /\ call = [c \in Calls |-> Idle]
  /\ lagging = FALSE

----------------------------------------------------------------------------
(* What a call's own statements make of the rows.                           *)

Reopened(r, n) == [r EXCEPT !.status = "pending", !.retries = @ + 1, !.forced = @ + n]
Closed(r, status) == IF r.status = "pending" THEN [r EXCEPT !.status = status] ELSE r

JobAfter(c) ==
  [j \in Jobs |->
     IF call[c].op = "retry" /\ j = call[c].j THEN Reopened(job[j], 1)
     ELSE IF call[c].op \in {"createOcr", "createBank"} /\ j = call[c].j /\ call[c].write
       THEN IF job[j].status = "none" THEN [job[j] EXCEPT !.status = "pending"]
                                      ELSE Reopened(job[j], 0)
     ELSE IF JobRow(j) \in call[c].held
       THEN Closed(job[j], IF call[c].op \in {"ocrDone", "bankDone"} THEN "completed"
                                                                     ELSE "failed")
     ELSE job[j]]

StampsAfter(c) ==
  stamps \cup (IF call[c].op = "ocrDone" THEN {"ocr"} ELSE {})
         \cup (IF call[c].op = "bankDone" /\ job["bank"].status # "failed" THEN {"bank"} ELSE {})

ReqAfter(c) ==
  IF call[c].op \in {"accept", "reject", "upload"}
    THEN [req EXCEPT ![call[c].j] = CASE call[c].op = "accept" -> "accepted"
                                      [] call[c].op = "reject" -> "rejected"
                                      [] call[c].op = "upload" -> "uploaded"]
    ELSE req

----------------------------------------------------------------------------
(* The stage.                                                               *)

StageData(st, jb, rq) ==
  [ocr |-> "ocr" \in st, bank |-> "bank" \in st, credit |-> "credit" \in st,
   ocrPending |-> \E d \in Docs : jb[d].status = "pending",
   bankPending |-> jb["bank"].status = "pending",
   accepted |-> \A d \in Required : rq[d] = "accepted",
   rejected |-> \E d \in Required : rq[d] = "rejected"]

ResolveNextStage(s, data) ==
  LET evaluate == data.ocr /\ data.bank
      refused == evaluate /\ data.rejected
  IN
  CASE s = "pending" /\ data.ocrPending -> "ocr_processing"
    [] s = "pending" /\ ~data.ocrPending /\ data.ocr -> "ocr_complete"
    [] s = "ocr_processing" /\ data.ocr -> "ocr_complete"
    [] s = "ocr_complete" /\ data.bankPending -> "banking_processing"
    [] s = "ocr_complete" /\ ~data.bankPending /\ data.bank -> "banking_complete"
    [] s = "banking_processing" /\ data.bank -> "banking_complete"
    [] s \in {"banking_complete", "documents_complete", "credit_summary_processing",
              "credit_summary_complete", "ready_for_lender"}
         /\ refused -> "documents_incomplete"
    [] (s = "documents_incomplete" \/ (s = "banking_complete" /\ ~refused))
         /\ evaluate /\ data.accepted -> "documents_complete"
    [] s = "documents_complete" /\ ~refused /\ evaluate /\ data.accepted ->
         IF data.credit THEN "credit_summary_complete" ELSE "credit_summary_processing"
    [] s = "credit_summary_processing" /\ ~refused /\ data.credit -> "credit_summary_complete"
    [] s = "credit_summary_complete" /\ ~refused /\ evaluate /\ data.accepted /\ data.credit ->
         "ready_for_lender"
    [] OTHER -> s

\* The loop of advanceProcessingStageInternal: at most one pass per stage.
Settle(s, data) ==
  LET after[n \in 0..10] == IF n = 0 THEN s ELSE ResolveNextStage(after[n - 1], data)
  IN  after[10]

----------------------------------------------------------------------------
(* Locks.                                                                   *)

\* Mutant: creating a job locks nothing.
CreatorRowsNone(c) == {}

\* lockDocument, lockApplication.
CreatorRows(c) == IF call[c].op = "createOcr" THEN { DocRow(call[c].j) } ELSE {App}

\* The rows the first locking statement of a call locks.
FirstRows(c) ==
  CASE call[c].op \in {"createOcr", "createBank"} -> CreatorRows(c)
    [] call[c].op \in {"ocrDone", "ocrFail"} ->
         { JobRow(d) : d \in { x \in Docs : job[x].status # "none" } }
    [] call[c].op \in {"bankDone", "bankFail", "retry"} ->
         IF job[call[c].j].status = "none" THEN {} ELSE { JobRow(call[c].j) }
    [] call[c].op \in {"accept", "reject"} -> { DocRow(call[c].j), ReqRow(call[c].j) }
    [] call[c].op = "upload" ->
         { ReqRow(call[c].j) } \cup (IF call[c].part = "none" THEN { DocRow(call[c].j) } ELSE {})

\* What a call's statements may take of the application before FOR UPDATE: the
\* INSERT of an OCR job its foreign key, a completion's UPDATE the row, a review
\* neither, the key of a requirement it inserts, or the row, when it moves the
\* pipeline.
Touches(c) ==
  CASE call[c].op = "createOcr" -> {"share"}
    [] call[c].op = "ocrDone" -> {"write"}
    [] call[c].op = "bankDone" ->
         IF job["bank"].status = "failed" THEN {"none"} ELSE {"write"}
    [] call[c].op \in {"accept", "reject"} -> Parts
    [] OTHER -> {"none"}

Wanted(c) ==
  CASE call[c].pc = "lock" -> FirstRows(c)
    [] call[c].pc = "close" -> { JobRow(d) : d \in { x \in Docs : job[x].status = "pending" } }
    [] call[c].pc = "update" -> { JobRow(call[c].j) }
    [] call[c].pc = "advance" -> {App}
    [] OTHER -> {}

\* A call that still waits to touch the application holds no part of it.
HeldPart(x) == IF call[x].pc = "touch" THEN "none" ELSE call[x].part

\* FOR UPDATE excludes every part; KEY SHARE is excluded by FOR UPDATE only; NO
\* KEY UPDATE also excludes its own kind.
WaitsForPart(c, x) ==
  \/ App \in Wanted(c) /\ HeldPart(x) # "none"
  \/ call[c].pc = "touch" /\ call[c].part # "none" /\ App \in call[x].held
  \/ call[c].pc = "touch" /\ call[c].part = "write" /\ HeldPart(x) = "write"

WaitsFor(c, x) == x # c /\ (Wanted(c) \cap call[x].held # {} \/ WaitsForPart(c, x))
Available(c) == \A x \in Calls : ~WaitsFor(c, x)

Waits == [c \in Calls |-> { x \in Calls : WaitsFor(c, x) }]

\* A call in a circle of waiting calls: whatever holds all it waits for, and all
\* they wait for, holds the call itself.
InCircle(waits, c) ==
  \A S \in SUBSET Calls :
    (waits[c] \subseteq S /\ \A x \in S : waits[x] \subseteq S) => c \in S
Deadlocked(c) == InCircle(Waits, c)

----------------------------------------------------------------------------
(* The steps of a call.                                                     *)

End(c) == call' = [call EXCEPT ![c] = Idle]
Rest == << stage, stamps, job, req, lagging >>

ForcedRetries ==
  MapThenSumSet(LAMBDA j : job[j].forced, Jobs) + Cardinality({ x \in Calls : call[x].op = "retry" })

\* A call arrives; those that create jobs have passed their circuit breaker.  A
\* plain advance locks nothing before the application.
Start(c, o) ==
  /\ call[c].pc = "idle" /\ o[1] # "upload"
  /\ o[1] = "retry" => ForcedRetries < MaxForced
  /\ call' = [call EXCEPT ![c] = [Idle EXCEPT !.op = o[1], !.j = o[2],
                                   !.pc = IF o[1] = "advance" THEN "advance" ELSE "lock"]]
  /\ UNCHANGED Rest

\* uploadDocument: a document that exists, or a new one, whose foreign key comes
\* before its requirement.
StartUpload(c, d, part) ==
  /\ call[c].pc = "idle"
  /\ call' = [call EXCEPT ![c] = [Idle EXCEPT !.op = "upload", !.j = d, !.part = part,
                                              !.pc = "touch"]]
  /\ UNCHANGED Rest

\* After the first lock the creators read the job, the OCR jobs that are pending
\* are closed, what touches the application goes on to it, failures of banking,
\* forced retries and uploads are ready to commit.
AfterLock(c) ==
  CASE call[c].op \in {"createOcr", "createBank"} -> "read"
    [] call[c].op \in {"ocrDone", "ocrFail"} -> "close"
    [] call[c].op \in {"bankDone", "accept", "reject"} -> "touch"
    [] OTHER -> "commit"

LockRows(c) ==
  /\ call[c].pc = "lock" /\ Available(c)
  /\ FirstRows(c) # {} \/ call[c].op \in {"createOcr", "createBank"}
  /\ \E part \in IF AfterLock(c) = "touch" THEN Touches(c) ELSE {call[c].part} :
       call' = [call EXCEPT ![c] = [@ EXCEPT !.held = FirstRows(c), !.part = part,
                                             !.pc = AfterLock(c)]]
  /\ UNCHANGED Rest

\* The UPDATE of the OCR jobs that are pending by now: it also finds, and waits
\* for, rows that were committed since the first lock.
CloseRows(c) ==
  /\ call[c].pc = "close" /\ Available(c)
  /\ \E part \in Touches(c) :
       call' = [call EXCEPT ![c] = [call[c] EXCEPT !.held = @ \cup Wanted(c), !.part = part,
                  !.pc = IF call[c].op = "ocrDone" THEN "touch" ELSE "commit"]]
  /\ UNCHANGED Rest

\* The application is touched; an upload goes on to its requirement, the others
\* to the stage.
TouchApplication(c) ==
  /\ call[c].pc = "touch" /\ Available(c)
  /\ call' = [call EXCEPT ![c] = [@ EXCEPT !.pc = IF call[c].op = "upload" THEN "lock" ELSE "advance"]]
  /\ UNCHANGED Rest

\* No row to lock: 404.
NotFound(c) ==
  /\ call[c].pc = "lock" /\ Available(c)
  /\ FirstRows(c) = {} /\ call[c].op \notin {"createOcr", "createBank"}
  /\ End(c)
  /\ UNCHANGED Rest

MaxRetries(j) == IF j = "bank" THEN BankRetries ELSE OcrRetries

\* Creating: no job yet, so one is inserted (for banking, given six statements).
ReadNoJob(c) ==
  /\ call[c].pc = "read" /\ job[call[c].j].status = "none"
  /\ \E part \in Touches(c) :
       call' = [call EXCEPT ![c] = [@ EXCEPT !.pc = "touch", !.write = TRUE, !.part = part]]
  /\ UNCHANGED Rest

\* Creating: a failed job that assertRetryAllowed lets through.
ReadFailedJob(c) ==
  /\ call[c].pc = "read" /\ job[call[c].j].status = "failed"
  /\ job[call[c].j].retries < MaxRetries(call[c].j)
  /\ call' = [call EXCEPT ![c] = [@ EXCEPT !.pc = "update", !.write = TRUE]]
  /\ UNCHANGED Rest

\* Creating: nothing to do.  The job is there, the limit is reached, the backoff
\* has not run out, or too few statements are uploaded.
ReadNothingToDo(c) ==
  /\ call[c].pc = "read"
  /\ job[call[c].j].status = "none" => call[c].op = "createBank"
  /\ End(c)
  /\ UNCHANGED Rest

\* The retry's UPDATE by id: it waits for the row and does not look at the
\* status again.
UpdateJob(c) ==
  /\ call[c].pc = "update" /\ Available(c)
  /\ call' = [call EXCEPT ![c] = [call[c] EXCEPT !.held = @ \cup { JobRow(call[c].j) }, !.pc = "advance"]]
  /\ UNCHANGED Rest

\* Mutant: the application is read without FOR UPDATE.
AdvanceUnlocked(c) ==
  /\ call[c].pc = "advance"
  /\ call' = [call EXCEPT ![c] = [@ EXCEPT !.pc = "commit", !.fresh = TRUE,
        !.next = Settle(stage, StageData(StampsAfter(c), JobAfter(c), ReqAfter(c)))]]
  /\ UNCHANGED Rest

\* advanceProcessingStage: with the application locked, the stage is taken as
\* far as the data the call sees allow.
Advance(c) ==
  /\ call[c].pc = "advance" /\ Available(c)
  /\ call' = [call EXCEPT ![c] = [call[c] EXCEPT !.held = @ \cup {App}, !.pc = "commit", !.fresh = TRUE,
        !.next = Settle(stage, StageData(StampsAfter(c), JobAfter(c), ReqAfter(c)))]]
  /\ UNCHANGED Rest

Advances(c) == call[c].op \notin {"ocrFail", "bankFail", "retry", "upload"}

\* Somebody wrote and did not advance: calls that have read before do not make
\* up for it.
Stale == lagging' = TRUE /\ call' = [x \in Calls |-> [call[x] EXCEPT !.fresh = FALSE]]

\* ensureCreditSummaryJob: nothing ever marks its jobs failed or completed.
EnsureCreditSummaryJob(jb, s) ==
  IF s = "credit_summary_processing" /\ jb["credit"].status = "none"
    THEN [jb EXCEPT !["credit"].status = "pending"] ELSE jb

CommitAdvanced(c) ==
  /\ call[c].pc = "commit" /\ Advances(c)
  /\ stamps' = StampsAfter(c)
  /\ req' = ReqAfter(c)
  /\ stage' = call[c].next
  /\ job' = EnsureCreditSummaryJob(JobAfter(c), call[c].next)
  /\ lagging' = (lagging /\ ~call[c].fresh)
  /\ End(c)

\* markDocumentProcessingFailed, markBankingAnalysisFailed.
CommitFailed(c) ==
  /\ call[c].pc = "commit" /\ call[c].op \in {"ocrFail", "bankFail"}
  /\ job' = JobAfter(c)
  /\ End(c)
  /\ UNCHANGED << stage, stamps, req, lagging >>

\* uploadDocument: the requirement is uploaded, whatever it was.
CommitUpload(c) ==
  /\ call[c].pc = "commit" /\ call[c].op = "upload"
  /\ req' = ReqAfter(c)
  /\ End(c)
  /\ UNCHANGED << stage, stamps, job, lagging >>

\* retryProcessingJob, always forced by its callers.
CommitRetry(c) ==
  /\ call[c].pc = "commit" /\ call[c].op = "retry"
  /\ job' = JobAfter(c)
  /\ lagging' = TRUE
  /\ call' = [x \in Calls |-> IF x = c THEN Idle ELSE [call[x] EXCEPT !.fresh = FALSE]]
  /\ UNCHANGED << stage, stamps, req >>

\* A statement fails, or the process dies.
Fault(c) ==
  /\ call[c].pc # "idle"
  /\ End(c)
  /\ UNCHANGED Rest

\* PostgreSQL breaks a cycle of waiting transactions.
DeadlockVictim(c) ==
  /\ Deadlocked(c)
  /\ End(c)
  /\ UNCHANGED Rest

----------------------------------------------------------------------------
(* Writers that never advance the stage, one statement each.                *)

AppFree == \A x \in Calls : App \notin call[x].held /\ HeldPart(x) # "write"

\* A submitted credit summary, a finished banking analysis pipeline.
Stamp(s) ==
  /\ s \in {"credit", "bank"} \ stamps /\ AppFree
  /\ stamps' = stamps \cup {s}
  /\ Stale
  /\ UNCHANGED << stage, job, req >>

----------------------------------------------------------------------------
CallStep(c) ==
  \/ LockRows(c) \/ NotFound(c) \/ ReadNoJob(c) \/ ReadFailedJob(c) \/ ReadNothingToDo(c)
  \/ UpdateJob(c) \/ CloseRows(c) \/ TouchApplication(c) \/ Advance(c)
  \/ CommitAdvanced(c) \/ CommitFailed(c) \/ CommitUpload(c) \/ CommitRetry(c)
  \/ DeadlockVictim(c)

Next ==
  \/ \E c \in Calls : \/ CallStep(c) \/ Fault(c)
                      \/ \E o \in Operations : Start(c, o)
                      \/ \E d \in Docs, part \in {"none", "share"} : StartUpload(c, d, part)
  \/ \E s \in {"credit", "bank"} : Stamp(s)

Spec == Init /\ [][Next]_vars

----------------------------------------------------------------------------
(* Properties.                                                              *)

\* Stage, stamps and job rows hold values of their enumerations, and a call holds
\* locks on rows that exist.
TypeOK ==
  /\ stage \in Stages
  /\ stamps \subseteq {"ocr", "bank", "credit"}
  /\ job \in [Jobs -> [status : JobStatus, retries : Nat, forced : Nat]]
  /\ req \in [Docs -> {"missing", "uploaded", "accepted", "rejected"}]
  /\ call \in [Calls -> [op : { o[1] : o \in Operations } \cup {"none"}, j : Jobs,
                         pc : {"idle", "lock", "read", "close", "update", "touch",
                               "advance", "commit"},
                         held : SUBSET Rows, write : BOOLEAN, part : Parts,
                         next : Stages, fresh : BOOLEAN]]
  /\ lagging \in BOOLEAN

\* Unless a writer that does not advance has written since, the stage is where
\* the committed jobs, timestamps and documents put it: no interleaving of
\* advances loses a transition or stops halfway.
StageSettled ==
  ~lagging => ResolveNextStage(stage, StageData(stamps, job, req)) = stage

\* What the stage tells the portal (PROCESSING_STAGE_FLAGS) was recorded: a stage
\* that counts a step as completed has its timestamp, and an application that
\* waits for its credit summary has the job.
StageBacked ==
  /\ stage \notin {"pending", "ocr_processing"} => "ocr" \in stamps
  /\ stage \notin {"pending", "ocr_processing", "ocr_complete", "banking_processing"}
       => "bank" \in stamps
  /\ stage \in {"credit_summary_complete", "ready_for_lender"} => "credit" \in stamps
  /\ stage = "credit_summary_processing" => job["credit"].status # "none"

\* A job is retried automatically at most max_retries times, although the count
\* is read without a lock and staff may force retries in between.
RetryLimit ==
  \A j \in Docs \cup {"bank"} : job[j].retries <= MaxRetries(j) + job[j].forced

\* A completed banking analysis is reopened by staff only: no creation that read
\* the job while it was failed overwrites a completion.
BankingCompletionStands ==
  [][ (job["bank"].status = "completed" /\ job'["bank"].status = "pending")
      => job'["bank"].forced > job["bank"].forced ]_vars

\* Calls that wait for each other's documents, requirements or jobs.
RowWaits ==
  [c \in Calls |-> { x \in Calls \ {c} : (Wanted(c) \ {App}) \cap call[x].held # {} }]

\* Deadlocks come from the application's row alone, which creations, completions,
\* reviews and uploads touch first and lock later: documents, requirements and
\* jobs are locked in one order by all.  A failure, a forced retry and a plain
\* advance are in no circle of waits, so PostgreSQL never rolls one of them back.
CirclesUseApplication ==
  \A c \in Calls :
    /\ ~InCircle(RowWaits, c)
    /\ call[c].op \in {"ocrFail", "bankFail", "retry", "advance"} => ~Deadlocked(c)

\* Whatever calls overlap and fail, the stage is where jobs, stamps and documents
\* put it, says nothing that was not recorded, retries end, and every circle of
\* waits runs through the application.
StageFollowsJobs ==
  TypeOK /\ StageSettled /\ StageBacked /\ RetryLimit /\ CirclesUseApplication
=============================================================================
