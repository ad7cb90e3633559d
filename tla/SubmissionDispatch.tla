------------------------- MODULE SubmissionDispatch -------------------------
(***************************************************************************)
(* How one application's package reaches the selected lenders:             *)
(*   - progressSubmission (services/submission/orchestrator.ts), reached   *)
(*     from POST /lenders/send, POST /applications/:id/lenders/send,       *)
(*     submit-trigger-check and the portal's document acceptance;          *)
(*   - the SignNow webhook (routes/signnow.ts), which queues a job;        *)
(*   - lenderPackageWorker, which takes jobs from job_queue.               *)
(* sendApplicationForSignature, which asks for the signature, is modelled  *)
(* apart: the orchestrator imports it from a path that does not resolve,   *)
(* and no other code of the repository calls it.                           *)
(* The three end in dispatchToSelected.  Applications share no state here, *)
(* so the module follows one.  A handler runs between two awaits in one    *)
(* step; handlers of several requests and replicas interleave.             *)
(***************************************************************************)
EXTENDS Integers, FiniteSets

CONSTANTS Lenders,        \* lenders that can be selected
          Callers,        \* HTTP handlers that can run at the same time
          Workers,        \* replicas of lenderPackageWorker
          Jobs,           \* identities of job_queue rows (a bound)
          CallKinds,      \* the entry points of this instance
          MaxCalls,       \* bound: HTTP calls in a behaviour
          MaxFaults,      \* bound: failed queries, lost answers and crashes
          MaxAttempts,    \* job_queue.max_attempts, 3 by default
          JobStatusChecked, \* whether job_queue has the CHECK of its migration,
                          \* or is the older table its ALTERs provide for
          CrashesHappen,  \* whether a process may die in this instance
          NoJob, NoLender \* no job, no lender at hand

Kinds == {"send", "direct", "check", "webhook", "sign"}

ASSUME SetsAssumption == /\ Lenders # {} /\ IsFiniteSet(Lenders)
                         /\ Callers \cap Workers = {}
                         /\ CallKinds \subseteq Kinds
                         /\ NoJob \notin Jobs /\ NoLender \notin Lenders
ASSUME BoundsAssumption == /\ MaxCalls \in Nat /\ MaxFaults \in Nat
                           /\ MaxAttempts \in Nat \ {0}
ASSUME FlagsAssumption == CrashesHappen \in BOOLEAN /\ JobStatusChecked \in BOOLEAN

VARIABLES
  docs,       \* every required document is accepted
  tasks,      \* no application task is open
  credit,     \* applications.credit_summary_completed_at is set
  selected,   \* lenders in application_lender_selections (all finalized)
  chain,      \* applications.submission_chain_started_at is set
  claimed,    \* applications.submission_packages_started_at is set
  notified,   \* how often the admins were notified
  invited,    \* SignNow has sent the invitation (outside the database)
  documentId, \* applications.signnow_document_id is set
  signed,     \* applications.signnow_app_signed_at is set
  jobs,       \* rows of job_queue
  rows,       \* application_packages rows, by lender and by who wrote them
  received,   \* packages a lender received, by lender and by who sent them
  proc,       \* the handlers and workers
  calls,      \* HTTP calls so far
  faults      \* faults so far

env  == <<docs, tasks, credit>>
sign == <<invited, documentId, signed>>
mail == <<rows, received>>
vars == <<env, selected, chain, claimed, notified, sign, jobs, mail, proc,
          calls, faults>>

Procs == Callers \cup Workers
Sources == {"stageB", "direct", "worker"}
JobStatus == {"none", "pending", "in_progress", "completed", "failed"}
PCs == {"idle", "snapA", "claimA", "notify", "sign", "record", "snapB",
        "claimB", "select", "build", "deliver", "row", "finish", "after",
        "stamp", "enqueue", "lookup", "refuse"}

ProcState == [pc : PCs, kind : Kinds \cup {"job"}, ids : SUBSET Lenders,
              source : Sources, todo : SUBSET Lenders,
              lender : Lenders \cup {NoLender}, ok : BOOLEAN,
              sent : BOOLEAN, err : BOOLEAN, job : Jobs \cup {NoJob}]

Idle == [pc |-> "idle", kind |-> "check", ids |-> {}, source |-> "stageB",
         todo |-> {}, lender |-> NoLender, ok |-> FALSE, sent |-> FALSE,
         err |-> FALSE, job |-> NoJob]

Init ==
  /\ docs \in BOOLEAN /\ tasks \in BOOLEAN /\ credit = FALSE
  /\ selected = {} /\ chain = FALSE /\ claimed = FALSE /\ notified = 0
  /\ invited = FALSE /\ documentId = FALSE /\ signed = FALSE
  /\ jobs = [j \in Jobs |-> [status |-> "none", attempts |-> 0]]
  /\ rows = [l \in Lenders |-> [s \in Sources |-> 0]]
  /\ received = [l \in Lenders |-> [s \in Sources |-> 0]]
  /\ proc = [p \in Procs |-> Idle]
  /\ calls = 0 /\ faults = 0

----------------------------------------------------------------------------
\* Moves of one handler.

At(p, pc) == proc[p].pc = pc

Goto(p, pc) == proc' = [proc EXCEPT ![p] = [@ EXCEPT !.pc = pc]]

End(p) == proc' = [proc EXCEPT ![p] = Idle]

\* A query fails, an answer is lost, a process dies: at most MaxFaults times.
Fault == faults < MaxFaults /\ faults' = faults + 1

\* A value read by a query whose error is caught and replaced by a default.
ReadOr(value, default, seen) ==
  \/ seen = value /\ UNCHANGED faults
  \/ seen = default /\ seen # value /\ Fault

NoRows == \A l \in Lenders, s \in Sources : rows[l][s] = 0

----------------------------------------------------------------------------
\* The outside: staff work on documents, tasks and the credit summary.

ReviewDocuments == docs' \in BOOLEAN /\ docs' # docs /\ UNCHANGED <<tasks, credit>>

WorkTasks == tasks' \in BOOLEAN /\ tasks' # tasks /\ UNCHANGED <<docs, credit>>

SubmitCreditSummary == ~credit /\ credit' = TRUE /\ UNCHANGED <<docs, tasks>>

StaffWork ==
  /\ ReviewDocuments \/ WorkTasks \/ SubmitCreditSummary
  /\ UNCHANGED <<selected, chain, claimed, notified, sign, jobs, mail, proc,
                 calls, faults>>

----------------------------------------------------------------------------
\* HTTP entry points.

\* POST /lenders/send and POST /applications/:id/lenders/send upsert the chosen
\* lenders first; an upsert's error is swallowed, so any of them may be missing.
Select(p, kind, ids) ==
  /\ At(p, "idle") /\ kind \in CallKinds \cap {"send", "direct"}
  /\ calls < MaxCalls /\ calls' = calls + 1
  /\ \/ selected' = selected \cup ids /\ UNCHANGED faults
     \/ \E stored \in SUBSET ids :
          stored # ids /\ selected' = selected \cup stored /\ Fault
  /\ proc' = [proc EXCEPT ![p] = [Idle EXCEPT !.pc = "snapA", !.kind = kind,
                                              !.ids = ids]]
  /\ UNCHANGED <<env, chain, claimed, notified, sign, jobs, mail>>

\* POST /applications/:id/submit-trigger-check, and the document acceptance of
\* the portal, only call progressSubmission.
Check(p) ==
  /\ At(p, "idle") /\ "check" \in CallKinds
  /\ calls < MaxCalls /\ calls' = calls + 1
  /\ Goto(p, "snapA")
  /\ UNCHANGED <<env, selected, chain, claimed, notified, sign, jobs, mail, faults>>

----------------------------------------------------------------------------
\* maybeStartCreditSummaryAndSign

\* readReadinessSnapshot for stage A: a failed query on documents or tasks
\* counts as nothing missing, one on the selections as not finalized.
SnapA(p) ==
  /\ At(p, "snapA")
  /\ \E seenDocs, seenTasks, seenFinal \in BOOLEAN :
       /\ \/ /\ <<seenDocs, seenTasks, seenFinal>> = <<docs, tasks, selected # {}>>
             /\ UNCHANGED faults
          \/ /\ seenDocs \in {docs, TRUE} /\ seenTasks \in {tasks, TRUE}
             /\ seenFinal \in {selected # {}, FALSE}
             /\ Fault
       /\ Goto(p, IF seenDocs /\ seenTasks /\ seenFinal THEN "claimA" ELSE "snapB")
  /\ UNCHANGED <<env, selected, chain, claimed, notified, sign, jobs, mail, calls>>

\* UPDATE ... SET submission_chain_started_at WHERE it IS NULL RETURNING id.
ClaimA(p) ==
  /\ At(p, "claimA")
  /\ \/ ~chain /\ chain' = TRUE /\ Goto(p, "notify") /\ UNCHANGED faults
     \/ chain /\ Goto(p, "snapB") /\ UNCHANGED <<chain, faults>>
     \/ ~chain /\ Fault /\ Goto(p, "snapB") /\ UNCHANGED chain
  /\ UNCHANGED <<env, selected, claimed, notified, sign, jobs, mail, calls>>

NotifyAdmins(p) ==
  /\ At(p, "notify")
  /\ notified' = notified + 1 /\ Goto(p, "sign")
  /\ UNCHANGED <<env, selected, chain, claimed, sign, jobs, mail, calls, faults>>

\* The signer is imported from ../signnow, relative to services/submission,
\* where there is nothing: the handler logs, and keeps the claim on the chain.
SendForSignature(p) ==
  /\ At(p, "sign")
  /\ Goto(p, "snapB")
  /\ UNCHANGED <<env, selected, chain, claimed, notified, sign, jobs, mail,
                 calls, faults>>

----------------------------------------------------------------------------
\* sendApplicationForSignature, called once from outside the repository's code.

\* The document is uploaded and the invitation sent ...
Invite(p) ==
  /\ At(p, "idle") /\ "sign" \in CallKinds /\ ~invited
  /\ invited' = TRUE
  /\ proc' = [proc EXCEPT ![p] = [Idle EXCEPT !.pc = "record", !.kind = "sign"]]
  /\ UNCHANGED <<env, selected, chain, claimed, notified, documentId, signed,
                 jobs, mail, calls, faults>>

\* ... before its id is stored.
RecordDocumentId(p) ==
  /\ At(p, "record")
  /\ \/ documentId' = TRUE /\ UNCHANGED faults
     \/ Fault /\ UNCHANGED documentId
  /\ End(p)
  /\ UNCHANGED <<env, selected, chain, claimed, notified, invited, signed,
                 jobs, mail, calls>>

----------------------------------------------------------------------------
\* maybeBuildAndSendPackage

\* Mutant: a failed query counts as ready, as it does for the documents.
ReadyForPackagePermissive(seen) == ReadOr(credit /\ signed, TRUE, seen)

\* readReadinessSnapshot for stage B: a failed query counts as not ready.
ReadyForPackage(seen) == ReadOr(credit /\ signed, FALSE, seen)

SnapB(p) ==
  /\ At(p, "snapB")
  /\ \E ready \in BOOLEAN :
       /\ ReadyForPackage(ready)
       /\ Goto(p, IF ready THEN "claimB" ELSE "after")
  /\ UNCHANGED <<env, selected, chain, claimed, notified, sign, jobs, mail, calls>>

\* UPDATE ... SET submission_packages_started_at WHERE it IS NULL RETURNING id.
ClaimB(p) ==
  /\ At(p, "claimB")
  /\ \/ ~claimed /\ claimed' = TRUE /\ Goto(p, "select") /\ UNCHANGED faults
     \/ claimed /\ Goto(p, "after") /\ UNCHANGED <<claimed, faults>>
     \/ ~claimed /\ Fault /\ Goto(p, "after") /\ UNCHANGED claimed
  /\ UNCHANGED <<env, selected, chain, notified, sign, jobs, mail, calls>>

\* Read the selected lenders; with none the claim is given back.
SelectLenders(p) ==
  /\ At(p, "select")
  /\ \/ /\ selected = {} /\ claimed' = FALSE /\ Goto(p, "after")
     \/ /\ selected # {}
        /\ proc' = [proc EXCEPT ![p] = [@ EXCEPT !.pc = "build", !.todo = selected,
                                                 !.source = "stageB"]]
        /\ UNCHANGED claimed
  /\ UNCHANGED <<env, selected, chain, notified, sign, jobs, mail, calls, faults>>

\* Mutant: the NOT EXISTS guard of the release is missing.
ReleaseUnguarded(p) ==
  /\ claimed' = (claimed /\ proc[p].sent /\ ~proc[p].err)
  /\ UNCHANGED faults

\* After the dispatch: with nothing sent, or an exception, the claim is given
\* back provided application_packages has no row of this application.
Release(p) ==
  IF (~proc[p].sent \/ proc[p].err) /\ NoRows
    THEN \/ claimed' = FALSE /\ UNCHANGED faults
         \/ Fault /\ UNCHANGED claimed
    ELSE UNCHANGED <<claimed, faults>>

FinishStageB(p) ==
  /\ At(p, "finish") /\ proc[p].source = "stageB"
  /\ Release(p)
  /\ Goto(p, "after")
  /\ UNCHANGED <<env, selected, chain, notified, sign, jobs, mail, calls>>

\* What the routes do with the result.  POST /applications/:id/lenders/send
\* calls dispatchToSelected itself, with the lenders of the request; the other
\* routes only answer.
After(p) ==
  /\ At(p, "after")
  /\ IF proc[p].kind = "direct" /\ proc[p].ids # {}
       THEN proc' = [proc EXCEPT ![p] =
                       [Idle EXCEPT !.pc = "build", !.kind = "direct",
                                    !.source = "direct", !.todo = proc[p].ids]]
       ELSE End(p)
  /\ UNCHANGED <<env, selected, chain, claimed, notified, sign, jobs, mail,
                 calls, faults>>

FinishDirect(p) ==
  /\ At(p, "finish") /\ proc[p].source = "direct"
  /\ End(p)
  /\ UNCHANGED <<env, selected, chain, claimed, notified, sign, jobs, mail,
                 calls, faults>>

----------------------------------------------------------------------------
\* dispatchToSelected

\* buildApplicationPackage may throw before anything is sent.
Build(p) ==
  /\ At(p, "build")
  /\ \/ Goto(p, "deliver") /\ UNCHANGED faults
     \/ /\ Fault
        /\ proc' = [proc EXCEPT ![p] = [@ EXCEPT !.pc = "finish", !.err = TRUE]]
  /\ UNCHANGED <<env, selected, chain, claimed, notified, sign, jobs, mail, calls>>

\* One lender's adapter: it reports success or failure, or throws out of the
\* loop, in which case the lender may or may not have the package.
Deliver(p, l) ==
  /\ At(p, "deliver") /\ l \in proc[p].todo
  /\ \E got \in BOOLEAN, answer \in {"ok", "refused", "throws"} :
       /\ answer = "ok" => got
       /\ answer = "refused" => ~got
       /\ received' = IF got
            THEN [received EXCEPT ![l][proc[p].source] = @ + 1]
            ELSE received
       /\ IF answer = "throws"
            THEN /\ proc' = [proc EXCEPT ![p] = [@ EXCEPT !.pc = "finish", !.err = TRUE]]
                 /\ Fault
            ELSE /\ proc' = [proc EXCEPT ![p] =
                              [@ EXCEPT !.pc = "row", !.lender = l, !.ok = (answer = "ok")]]
                 /\ UNCHANGED faults
  /\ UNCHANGED <<env, selected, chain, claimed, notified, sign, jobs, rows, calls>>

\* INSERT INTO application_packages, whatever the outcome; its error is caught.
RecordPackage(p) ==
  LET s == proc[p] IN
  /\ At(p, "row")
  /\ \/ /\ rows' = [rows EXCEPT ![s.lender][s.source] = @ + 1]
        /\ UNCHANGED faults
     \/ Fault /\ UNCHANGED rows
  /\ proc' = [proc EXCEPT ![p] =
                [@ EXCEPT !.pc = IF s.todo = {s.lender} THEN "finish" ELSE "deliver",
                          !.todo = s.todo \ {s.lender},
                          !.sent = s.sent \/ s.ok]]
  /\ UNCHANGED <<env, selected, chain, claimed, notified, sign, jobs, received, calls>>

----------------------------------------------------------------------------
\* The SignNow webhook.

\* A delivery for a document that was signed; SignNow repeats deliveries.  A
\* document nobody recorded is acknowledged and dropped.
Webhook(p) ==
  /\ At(p, "idle") /\ "webhook" \in CallKinds
  /\ invited /\ calls < MaxCalls /\ calls' = calls + 1
  /\ IF documentId
       THEN proc' = [proc EXCEPT ![p] = [Idle EXCEPT !.pc = "stamp", !.kind = "webhook"]]
       ELSE UNCHANGED proc
  /\ UNCHANGED <<env, selected, chain, claimed, notified, sign, jobs, mail, faults>>

Stamp(p) ==
  /\ At(p, "stamp")
  /\ signed' = TRUE /\ Goto(p, "enqueue")
  /\ UNCHANGED <<env, selected, chain, claimed, notified, invited, documentId,
                 jobs, mail, calls, faults>>

\* job_queue_lender_package_dedup_idx covers the statuses 'pending' and
\* 'running'; no job of this queue ever has the second.
Queued == \E j \in Jobs : jobs[j].status = "pending"

\* INSERT ... ON CONFLICT DO NOTHING.
Enqueue(p) ==
  /\ At(p, "enqueue")
  /\ \/ Queued /\ UNCHANGED jobs
     \/ /\ ~Queued
        /\ \E j \in Jobs : /\ jobs[j].status = "none"
                           /\ jobs' = [jobs EXCEPT ![j] =
                                [status |-> "pending", attempts |-> 0]]
  /\ End(p)
  /\ UNCHANGED <<env, selected, chain, claimed, notified, sign, mail, calls, faults>>

----------------------------------------------------------------------------
\* lenderPackageWorker

\* UPDATE ... WHERE id IN (SELECT ... status = 'pending' FOR UPDATE SKIP LOCKED).
\* The status it writes is none of those the CHECK of the migration admits: on
\* such a table the UPDATE fails, the tick logs it, and the job stays pending.
ClaimJob(w, j) ==
  /\ ~JobStatusChecked
  /\ w \in Workers /\ At(w, "idle") /\ jobs[j].status = "pending"
  /\ jobs' = [jobs EXCEPT ![j] = [@ EXCEPT !.status = "in_progress"]]
  /\ proc' = [proc EXCEPT ![w] = [Idle EXCEPT !.pc = "lookup", !.kind = "job",
                                              !.source = "worker", !.job = j]]
  /\ UNCHANGED <<env, selected, chain, claimed, notified, sign, mail, calls, faults>>

\* A statement of the try block fails, and the catch block is next.
Throw(w) ==
  /\ Fault
  /\ proc' = [proc EXCEPT ![w] = [@ EXCEPT !.pc = "finish", !.err = TRUE]]

LookupLenders(w) ==
  /\ At(w, "lookup")
  /\ \/ selected = {} /\ Goto(w, "refuse") /\ UNCHANGED faults
     \/ /\ selected # {}
        /\ proc' = [proc EXCEPT ![w] = [@ EXCEPT !.pc = "build", !.todo = selected]]
        /\ UNCHANGED faults
     \/ Throw(w)
  /\ UNCHANGED <<env, selected, chain, claimed, notified, sign, jobs, mail, calls>>

\* The UPDATE of a job without a lender, inside the try block too.
RefuseJob(w) ==
  /\ At(w, "refuse")
  /\ \/ /\ jobs' = [jobs EXCEPT ![proc[w].job] = [@ EXCEPT !.status = "failed"]]
        /\ End(w) /\ UNCHANGED faults
     \/ Throw(w) /\ UNCHANGED jobs
  /\ UNCHANGED <<env, selected, chain, claimed, notified, sign, mail, calls>>

\* So is the last UPDATE: when it fails the job counts as failed, though the
\* lenders have their package.
CompleteJob(w) ==
  /\ At(w, "finish") /\ proc[w].source = "worker" /\ ~proc[w].err
  /\ \/ /\ jobs' = [jobs EXCEPT ![proc[w].job] = [@ EXCEPT !.status = "completed"]]
        /\ End(w) /\ UNCHANGED faults
     \/ Throw(w) /\ UNCHANGED jobs
  /\ UNCHANGED <<env, selected, chain, claimed, notified, sign, mail, calls>>

\* Mutant: the attempt is not counted.
JobAfterErrorUncounted(job) ==
  IF Queued THEN job ELSE [status |-> "pending", attempts |-> job.attempts]

\* Mutant: an error leaves the job as it is.
JobAfterErrorLeft(job) == job

\* What the catch block writes: count the attempt, give up at the limit, else
\* back to 'pending' (the backoff delay is not modelled).  The unique index
\* refuses 'pending' while another job is pending.
JobAfterError(job) ==
  IF job.attempts + 1 >= MaxAttempts
    THEN [status |-> "failed", attempts |-> job.attempts + 1]
  ELSE IF Queued THEN job
  ELSE [status |-> "pending", attempts |-> job.attempts + 1]

\* An error of the catch block's own UPDATE is swallowed, refused or failed: the
\* job stays in_progress, where no worker looks for it.
CatchJob(w) ==
  /\ At(w, "finish") /\ proc[w].source = "worker" /\ proc[w].err
  /\ \/ /\ jobs' = [jobs EXCEPT ![proc[w].job] = JobAfterError(@)]
        /\ UNCHANGED faults
     \/ Fault /\ UNCHANGED jobs
  /\ End(w)
  /\ UNCHANGED <<env, selected, chain, claimed, notified, sign, mail, calls>>

----------------------------------------------------------------------------
\* The process of a handler or worker dies, or an uncaught query error ends the
\* request, between two statements; what it wrote stays.
Crash(p) ==
  /\ CrashesHappen /\ ~At(p, "idle") /\ Fault
  /\ End(p)
  /\ UNCHANGED <<env, selected, chain, claimed, notified, sign, jobs, mail, calls>>

Progress(p) ==
  \/ SnapA(p) \/ ClaimA(p) \/ NotifyAdmins(p) \/ SendForSignature(p)
  \/ RecordDocumentId(p) \/ SnapB(p) \/ ClaimB(p) \/ SelectLenders(p)
  \/ FinishStageB(p) \/ After(p) \/ FinishDirect(p) \/ Build(p)
  \/ (\E l \in Lenders : Deliver(p, l)) \/ RecordPackage(p)
  \/ Stamp(p) \/ Enqueue(p)
  \/ LookupLenders(p) \/ RefuseJob(p) \/ CompleteJob(p) \/ CatchJob(p)

Entry(p) ==
  \/ \E kind \in Kinds, ids \in (SUBSET Lenders) \ {{}} : Select(p, kind, ids)
  \/ Check(p) \/ Webhook(p) \/ Invite(p)

Next ==
  \/ StaffWork
  \/ \E p \in Callers : Entry(p)
  \/ \E w \in Workers, j \in Jobs : ClaimJob(w, j)
  \/ \E p \in Procs : Progress(p) \/ Crash(p)

Spec == Init /\ [][Next]_vars

\* A started handler goes on as long as its process lives, and the poll timer
\* of a worker keeps firing.
Fairness ==
  /\ \A p \in Procs : WF_vars(Progress(p))
  /\ WF_vars(\E w \in Workers, j \in Jobs : ClaimJob(w, j))

FairSpec == Spec /\ Fairness

----------------------------------------------------------------------------
\* Properties.

\* Claims and columns are set or not, jobs hold values of their enumeration, and
\* calls and faults stay within their bounds.
TypeOK ==
  /\ docs \in BOOLEAN /\ tasks \in BOOLEAN /\ credit \in BOOLEAN
  /\ selected \in SUBSET Lenders
  /\ chain \in BOOLEAN /\ claimed \in BOOLEAN /\ notified \in Nat
  /\ invited \in BOOLEAN /\ documentId \in BOOLEAN /\ signed \in BOOLEAN
  /\ jobs \in [Jobs -> [status : JobStatus, attempts : Nat]]
  /\ rows \in [Lenders -> [Sources -> Nat]]
  /\ received \in [Lenders -> [Sources -> Nat]]
  /\ proc \in [Procs -> ProcState]
  /\ calls \in 0..MaxCalls /\ faults \in 0..MaxFaults

DispatchPCs == {"build", "deliver", "row", "finish"}

\* A handler inside the part of maybeBuildAndSendPackage the claim protects.
InStageB(p) == \/ At(p, "select")
               \/ proc[p].pc \in DispatchPCs /\ proc[p].source = "stageB"

\* The claim on submission_packages_started_at admits one handler at a time, and
\* stays set while that handler works.
StageBExclusive ==
  \A p, q \in Procs : InStageB(p) => claimed /\ (InStageB(q) => p = q)

\* maybeBuildAndSendPackage never writes two application_packages rows for one
\* lender, whatever fails and however often it is called: once a row exists the
\* claim is not given back.
StageBRowsOnce == \A l \in Lenders : rows[l]["stageB"] <= 1

\* A lender receives a second package from maybeBuildAndSendPackage only after a
\* fault (a lost answer or a lost row) hid the first one.
StageBResendNeedsFault == \A l \in Lenders : received[l]["stageB"] <= 1 + faults

\* The gate: what maybeBuildAndSendPackage delivered was signed and had its
\* credit summary, even when the readiness queries fail.
StageBGated ==
  \A l \in Lenders : received[l]["stageB"] > 0 => credit /\ signed

\* The admins are notified, and SignNow is asked, once however many callers see
\* the preconditions met at the same time.
ChainStartedOnce ==
  /\ notified <= 1
  /\ \A p, q \in Procs : At(p, "sign") /\ At(q, "sign") => p = q

\* The claim of maybeBuildAndSendPackage does what its comment promises: one
\* dispatch at a time, one row for each lender, a second package only after a
\* fault hid the first.
StageBOnce ==
  TypeOK /\ StageBExclusive /\ StageBRowsOnce /\ StageBResendNeedsFault

\* Nothing leaves before the chain of preconditions is complete, and the chain
\* is started once however many callers see it complete.
ChainIsGated == StageBGated /\ ChainStartedOnce

\* The worker sends one lender at most MaxAttempts packages per job, whatever
\* fails: a job comes back only with its attempt counted.
WorkerResendBound ==
  \A l \in Lenders :
    received[l]["worker"] <=
      MaxAttempts * Cardinality({j \in Jobs : jobs[j].status # "none"})

\* A job no worker has any more and none will find.
Stranded(j) ==
  /\ jobs[j].status = "in_progress"
  /\ \A w \in Workers : proc[w].job # j

\* Without a crash, and on a table that takes the worker's status, a queued job
\* is completed or given up, or its failure was lost: two statements failed, or
\* another job of the application was queued in the meantime.
JobSettles ==
  \A j \in Jobs :
    jobs[j].status = "pending"
      ~> \/ jobs[j].status \in {"completed", "failed"}
         \/ /\ Stranded(j)
            /\ faults >= 2 \/ \E k \in Jobs \ {j} : jobs[k].status # "none"

----------------------------------------------------------------------------
\* A statement of the repository's comments that the code does not meet.

Total(l) == received[l]["stageB"] + received[l]["direct"] + received[l]["worker"]

\* However often staff click Send to lenders, a lender receives the package of
\* an application once (the comments on POST /lenders/send and on the claim of
\* maybeBuildAndSendPackage).
NoDuplicatePackage == \A l \in Lenders : Total(l) <= 1
=============================================================================
