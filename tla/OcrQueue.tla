------------------------------ MODULE OcrQueue ------------------------------
(***************************************************************************)
(* The OCR job queue (src/modules/ocr): one job per document in ocr_jobs,   *)
(* worker processes that lock due jobs and run them, the admin and portal   *)
(* routes that enqueue and reset them.                                      *)
(*                                                                          *)
(* Each statement sent to PostgreSQL, and each await, is an action, except  *)
(* that the statements of one transaction are one.  Completion and failure  *)
(* address the job by id and never look at locked_by, so a worker whose     *)
(* lock expired still writes its outcome.                                   *)
(***************************************************************************)
EXTENDS Naturals, FiniteSets

CONSTANTS Jobs,         \* ocr_jobs rows, one for each document
          Workers,      \* server processes running startOcrWorker
          Ticks,        \* timer callbacks of one process that may overlap
          Concurrency,  \* config.ocr.workerConcurrency
          MaxAttempts,  \* ocr_jobs.max_attempts
          MaxInterventions,  \* bound on interventions and on uses of the kill switch
          MaxTakeovers  \* bound on crashes, failed writes and locks that
                        \* expire while their job is being worked on

ASSUME OcrAssumption ==
  /\ IsFiniteSet(Workers) /\ IsFiniteSet(Ticks)
  /\ Concurrency \in Nat \ {0}
  /\ MaxAttempts \in Nat \ {0}
  /\ MaxInterventions \in Nat
  /\ MaxTakeovers \in Nat

VARIABLES job,        \* ocr_jobs: status, attempts, locked, expired, due
          ocrStatus,  \* documents.ocr_status
          result,     \* documents with a row in ocr_document_results
          fields,     \* documents with rows in ocr_results
          insights,   \* documents reflected in the application's insights
          submitted,  \* the application has left draft
          killed,     \* the ocr kill switch
          running,    \* the running flag of each process
          tick,       \* where each timer callback is
          task,       \* processOcrJob calls: one for each job of a callback
          interventions, takeovers  \* of either kind so far

queue == << job, ocrStatus, result, fields, insights >>
procs == << running, tick, task >>
vars == << queue, procs, submitted, killed, interventions, takeovers >>

JobStatus == {"none", "queued", "processing", "failed", "succeeded", "canceled"}
NoJob == [status |-> "none", attempts |-> 0, locked |-> FALSE, expired |-> FALSE,
          due |-> FALSE]
NoTask == [pc |-> "none", claimed |-> 0, seen |-> {}]
TaskPc == {"none", "extract", "succeed", "fields", "readInsights", "writeInsights",
           "fail", "failDoc"}
Callbacks == Workers \X Ticks

Init ==
  /\ job = [j \in Jobs |-> NoJob]
  /\ ocrStatus = [j \in Jobs |-> "pending"]
  /\ result = {} /\ fields = {} /\ insights = {}
  /\ submitted = FALSE
  /\ killed = FALSE
  /\ running = [w \in Workers |-> FALSE]
  /\ tick = [c \in Callbacks |-> "idle"]
  /\ task = [c \in Callbacks |-> [j \in Jobs |-> NoTask]]
  /\ interventions = 0 /\ takeovers = 0

----------------------------------------------------------------------------
(* The outside world.                                                       *)

\* createOcrJob: an upsert that leaves an existing job as it is.
CreateOcrJob(j) ==
  /\ job[j].status = "none"
  /\ job' = [job EXCEPT ![j] = [@ EXCEPT !.status = "queued", !.due = TRUE]]
  /\ UNCHANGED << ocrStatus, result, fields, insights, procs, submitted, killed,
                  interventions, takeovers >>

Intervene == interventions < MaxInterventions /\ interventions' = interventions + 1

\* retryOcrJob of an existing job, by /reocr or by an admin: back to the
\* queue, unlocked, whatever its status and whoever works on it.
ResetOcrJob(j) ==
  /\ job[j].status # "none"
  /\ Intervene
  /\ job' = [job EXCEPT ![j] = [NoJob EXCEPT !.status = "queued", !.due = TRUE]]
  /\ UNCHANGED << ocrStatus, result, fields, insights, procs, submitted, killed,
                  takeovers >>

Submit ==
  /\ ~submitted
  /\ submitted' = TRUE
  /\ UNCHANGED << queue, procs, killed, interventions, takeovers >>

SetKillSwitch ==
  /\ ~killed
  /\ Intervene
  /\ killed' = TRUE
  /\ UNCHANGED << queue, procs, submitted, takeovers >>

ClearKillSwitch ==
  /\ killed
  /\ killed' = FALSE
  /\ UNCHANGED << queue, procs, submitted, interventions, takeovers >>

\* Time passes: a failed job's next_attempt_at is reached.
BecomeDue(j) ==
  /\ job[j].status = "failed" /\ ~job[j].due
  /\ job' = [job EXCEPT ![j].due = TRUE]
  /\ UNCHANGED << ocrStatus, result, fields, insights, procs, submitted, killed,
                  interventions, takeovers >>

\* The callbacks that have locked job j and not yet written its outcome.
Holders(j) == { c \in Callbacks : task[c][j].pc \in {"extract", "succeed", "fail"} }

\* Time passes: a lock is older than lockTimeoutMinutes.
LockExpires(j) ==
  /\ job[j].locked /\ ~job[j].expired
  /\ IF Holders(j) = {} THEN UNCHANGED takeovers
     ELSE takeovers < MaxTakeovers /\ takeovers' = takeovers + 1
  /\ job' = [job EXCEPT ![j].expired = TRUE]
  /\ UNCHANGED << ocrStatus, result, fields, insights, procs, submitted, killed,
                  interventions >>

----------------------------------------------------------------------------
(* The worker loop.                                                         *)

\* tick(): the guard, then the kill switch is asked for.
TickStarts(c) ==
  /\ tick[c] = "idle"
  /\ ~running[c[1]]
  /\ tick' = [tick EXCEPT ![c] = "asked"]
  /\ UNCHANGED << queue, running, task, submitted, killed, interventions, takeovers >>

\* Mutant: the kill switch is not obeyed.
TickProceedsAnyway(c) ==
  /\ tick[c] = "asked"
  /\ tick' = [tick EXCEPT ![c] = "locking"]
  /\ running' = [running EXCEPT ![c[1]] = TRUE]
  /\ UNCHANGED << queue, task, submitted, killed, interventions, takeovers >>

\* The answer of isKillSwitchEnabled.  The running flag is set only now: two
\* callbacks that both passed the guard both go on.
TickProceeds(c) ==
  /\ tick[c] = "asked"
  /\ IF killed THEN tick' = [tick EXCEPT ![c] = "idle"] /\ UNCHANGED running
               ELSE /\ tick' = [tick EXCEPT ![c] = "locking"]
                    /\ running' = [running EXCEPT ![c[1]] = TRUE]
  /\ UNCHANGED << queue, task, submitted, killed, interventions, takeovers >>

\* Mutant: a job that has succeeded is taken up again.
LockableDone(j) ==
  /\ \/ job[j].status \in {"queued", "failed"} /\ job[j].due
     \/ job[j].status \in {"processing", "succeeded"}
  /\ ~job[j].locked \/ job[j].expired
  /\ submitted

\* The candidates of lockOcrJobs.
Lockable(j) ==
  /\ \/ job[j].status \in {"queued", "failed"} /\ job[j].due
     \/ job[j].status = "processing"
  /\ ~job[j].locked \/ job[j].expired
  /\ submitted

\* lockOcrJobs: one statement over at most Concurrency candidates, skipping
\* rows another statement has locked; a processOcrJob call for each.
LockOcrJobs(c) ==
  /\ tick[c] = "locking"
  /\ \E batch \in SUBSET { j \in Jobs : Lockable(j) } :
       /\ Cardinality(batch) <= Concurrency
       /\ \A j \in Jobs \ batch : Lockable(j) => Cardinality(batch) = Concurrency
       /\ job' = [j \in Jobs |->
                    IF j \in batch
                      THEN [job[j] EXCEPT !.status = "processing", !.locked = TRUE,
                                          !.expired = FALSE]
                      ELSE job[j]]
       /\ task' = [task EXCEPT ![c] =
                    [j \in Jobs |-> IF j \in batch
                                      THEN [pc |-> "extract", claimed |-> job[j].attempts,
                                            seen |-> {}]
                                      ELSE NoTask]]
  /\ tick' = [tick EXCEPT ![c] = "batch"]
  /\ UNCHANGED << ocrStatus, result, fields, insights, running, submitted, killed,
                  interventions, takeovers >>

\* Promise.all has settled: the finally block of tick().
TickEnds(c) ==
  /\ tick[c] = "batch"
  /\ \A j \in Jobs : task[c][j].pc = "none"
  /\ tick' = [tick EXCEPT ![c] = "idle"]
  /\ running' = [running EXCEPT ![c[1]] = FALSE]
  /\ UNCHANGED << queue, task, submitted, killed, interventions, takeovers >>

\* A process dies and is started again: startOcrWorker clears the locks that
\* have expired.
ClearExpiredOcrLocks ==
  job' = [j \in Jobs |-> IF job[j].locked /\ job[j].expired
                           THEN [job[j] EXCEPT !.locked = FALSE, !.expired = FALSE]
                           ELSE job[j]]

Restart(w) ==
  /\ takeovers < MaxTakeovers
  /\ takeovers' = takeovers + 1
  /\ running' = [running EXCEPT ![w] = FALSE]
  /\ tick' = [c \in Callbacks |-> IF c[1] = w THEN "idle" ELSE tick[c]]
  /\ task' = [c \in Callbacks |-> IF c[1] = w THEN [j \in Jobs |-> NoTask] ELSE task[c]]
  /\ ClearExpiredOcrLocks
  /\ UNCHANGED << ocrStatus, result, fields, insights, submitted, killed, interventions >>

----------------------------------------------------------------------------
(* processOcrJob.                                                           *)

Goto(c, j, pc) == task' = [task EXCEPT ![c][j].pc = pc]
End(c, j) == task' = [task EXCEPT ![c][j] = NoTask]

\* The provider reads the document, or any step up to it throws.
Extract(c, j) ==
  /\ task[c][j].pc = "extract"
  /\ \E pc \in {"succeed", "fail"} : Goto(c, j, pc)
  /\ UNCHANGED << queue, running, tick, submitted, killed, interventions, takeovers >>

\* markOcrJobSuccess, one transaction.
MarkOcrJobSuccess(c, j) ==
  /\ task[c][j].pc = "succeed"
  /\ result' = result \cup {j}
  /\ job' = [job EXCEPT ![j] = [@ EXCEPT !.status = "succeeded", !.locked = FALSE,
                                         !.expired = FALSE, !.due = FALSE]]
  /\ ocrStatus' = [ocrStatus EXCEPT ![j] = "completed"]
  /\ Goto(c, j, "fields")
  /\ UNCHANGED << fields, insights, running, tick, submitted, killed, interventions, takeovers >>

\* The transaction is rolled back and processOcrJob turns to its catch block.
SuccessRollsBack(c, j) ==
  /\ task[c][j].pc = "succeed"
  /\ takeovers < MaxTakeovers
  /\ takeovers' = takeovers + 1
  /\ Goto(c, j, "fail")
  /\ UNCHANGED << queue, running, tick, submitted, killed, interventions >>

InsertDocumentOcrFields(c, j) ==
  /\ task[c][j].pc = "fields"
  /\ fields' = fields \cup {j}
  /\ Goto(c, j, "readInsights")
  /\ UNCHANGED << job, ocrStatus, result, insights, running, tick, submitted, killed,
                  interventions, takeovers >>

\* refreshOcrInsightsForApplication reads every document's fields ...
ReadInsights(c, j) ==
  /\ task[c][j].pc = "readInsights"
  /\ task' = [task EXCEPT ![c][j] = [@ EXCEPT !.pc = "writeInsights", !.seen = fields]]
  /\ UNCHANGED << queue, running, tick, submitted, killed, interventions, takeovers >>

\* ... and stores what it saw.
WriteInsights(c, j) ==
  /\ task[c][j].pc = "writeInsights"
  /\ insights' = task[c][j].seen
  /\ End(c, j)
  /\ UNCHANGED << job, ocrStatus, result, fields, running, tick, submitted, killed,
                  interventions, takeovers >>

\* Mutant: the failure is not counted.
AttemptsUncounted(c, j) == task[c][j].claimed

\* The catch block counts from the attempts read when the job was locked.
Attempts(c, j) == task[c][j].claimed + 1

Exhausted(n) == n >= MaxAttempts

\* markOcrJobFailure, first statement.
MarkOcrJobFailure(c, j) ==
  LET status == IF Exhausted(Attempts(c, j)) THEN "canceled" ELSE "failed" IN
  /\ task[c][j].pc = "fail"
  /\ job' = [job EXCEPT ![j] = [NoJob EXCEPT !.status = status,
                                             !.attempts = Attempts(c, j)]]
  /\ IF status = "failed" THEN Goto(c, j, "failDoc") ELSE End(c, j)
  /\ UNCHANGED << ocrStatus, result, fields, insights, running, tick, submitted, killed,
                  interventions, takeovers >>

\* Second statement: the failure is mirrored onto the document.
MirrorFailure(c, j) ==
  /\ task[c][j].pc = "failDoc"
  /\ ocrStatus' = [ocrStatus EXCEPT ![j] = "failed"]
  /\ End(c, j)
  /\ UNCHANGED << job, result, fields, insights, running, tick, submitted, killed,
                  interventions, takeovers >>

\* The errors that processOcrJob or the worker log and swallow: no fields or
\* insights are written, no outcome is recorded, no jobs are locked.
SwallowedError(c) ==
  /\ takeovers < MaxTakeovers
  /\ takeovers' = takeovers + 1
  /\ \/ /\ tick[c] = "locking"
        /\ tick' = [tick EXCEPT ![c] = "idle"]
        /\ running' = [running EXCEPT ![c[1]] = FALSE]
        /\ UNCHANGED task
     \/ /\ \E j \in Jobs :
             \/ task[c][j].pc = "fields" /\ Goto(c, j, "readInsights")
             \/ task[c][j].pc \in {"writeInsights", "fail", "failDoc"} /\ End(c, j)
        /\ UNCHANGED << tick, running >>
  /\ UNCHANGED << queue, submitted, killed, interventions >>

----------------------------------------------------------------------------
TaskStep(c, j) ==
  \/ Extract(c, j) \/ MarkOcrJobSuccess(c, j)
  \/ InsertDocumentOcrFields(c, j) \/ ReadInsights(c, j) \/ WriteInsights(c, j)
  \/ MarkOcrJobFailure(c, j) \/ MirrorFailure(c, j)

WorkerStep(c) ==
  \/ TickStarts(c) \/ TickProceeds(c) \/ LockOcrJobs(c) \/ TickEnds(c)
  \/ \E j \in Jobs : TaskStep(c, j)

Next ==
  \/ Submit \/ SetKillSwitch \/ ClearKillSwitch
  \/ \E j \in Jobs : CreateOcrJob(j) \/ ResetOcrJob(j) \/ BecomeDue(j) \/ LockExpires(j)
  \/ \E c \in Callbacks : WorkerStep(c) \/ SwallowedError(c) \/ (\E j \in Jobs : SuccessRollsBack(c, j))
  \/ \E w \in Workers : Restart(w)

Spec == Init /\ [][Next]_vars

\* The timers keep firing, calls to the provider and the database return, due
\* times come, locks nobody holds any more expire and the application is
\* submitted.  Nobody has to turn the kill switch off.
FairSpec ==
  /\ Spec
  /\ WF_vars(Submit)
  /\ \A j \in Jobs : WF_vars(BecomeDue(j)) /\ WF_vars(LockExpires(j) /\ Holders(j) = {})
  /\ \A c \in Callbacks :
       /\ WF_vars(TickStarts(c) \/ TickProceeds(c) \/ LockOcrJobs(c) \/ TickEnds(c))
       /\ \A j \in Jobs : WF_vars(TaskStep(c, j))

----------------------------------------------------------------------------
(* Properties.                                                              *)

\* Job rows and documents hold values of their enumerations, and callbacks and
\* tasks stand at a statement of the worker.
TypeOK ==
  /\ job \in [Jobs -> [status : JobStatus, attempts : Nat, locked : BOOLEAN,
                       expired : BOOLEAN, due : BOOLEAN]]
  /\ ocrStatus \in [Jobs -> {"pending", "completed", "failed"}]
  /\ result \subseteq Jobs /\ fields \subseteq Jobs /\ insights \subseteq Jobs
  /\ submitted \in BOOLEAN /\ killed \in BOOLEAN
  /\ running \in [Workers -> BOOLEAN]
  /\ tick \in [Callbacks -> {"idle", "asked", "locking", "batch"}]
  /\ task \in [Callbacks -> [Jobs -> [pc : TaskPc, claimed : Nat, seen : SUBSET Jobs]]]
  /\ interventions \in 0..MaxInterventions
  /\ takeovers \in 0..MaxTakeovers

\* A job is worked on by one callback, except for one more for each reset by
\* staff and each lock that ran out under a worker: SKIP LOCKED and locked_at
\* keep overlapping callbacks and replicas apart.
HoldersBounded ==
  \A j \in Jobs : Cardinality(Holders(j)) <= 1 + interventions + takeovers

\* Only a limit reached cancels a job, and a job that may run again is below
\* its limit, although failures are counted from a value read when the job was
\* locked and written without looking at the row.
AttemptLimit ==
  \A j \in Jobs :
    /\ job[j].attempts <= MaxAttempts
    /\ job[j].status = "canceled" => job[j].attempts = MaxAttempts
    /\ job[j].status \in {"queued", "processing", "failed"} => job[j].attempts < MaxAttempts

\* No reset, crash, failed write or expired lock so far.
Calm == interventions = 0 /\ takeovers = 0

\* Undisturbed by resets, crashes and expired locks, a job whose text was stored
\* stays succeeded: no late failure takes it back and no worker runs it again.
OutcomeStands ==
  Calm
  => \A j \in result : job[j].status = "succeeded" /\ Holders(j) = {}

\* Overlapping callbacks, replicas, resets and expired locks leave the queue
\* sound: who may hold a job, what its counter means, what becomes of a result.
QueueIsSound == TypeOK /\ HoldersBounded /\ AttemptLimit /\ OutcomeStands

\* Every job comes to rest, succeeded or canceled, through overlapping
\* callbacks, crashes and retries, unless the kill switch stays on.
JobSettles ==
  \A j \in Jobs :
    <>[](killed \/ job[j].status \in {"none", "succeeded", "canceled"})

\* The kill switch drains the workers: callbacks that passed it before it was
\* thrown finish, and none follow.
KillSwitchDrains ==
  killed ~> (~killed \/ \A c \in Callbacks : tick[c] \in {"idle", "asked"})

\* A row of ocr_jobs as JobQueue speaks of it.
Promised(status) ==
  CASE status = "none" -> "none"
    [] status \in {"queued", "failed"} -> "waiting"
    [] status = "processing" -> "taken"
    [] status = "succeeded" -> "done"
    [] status = "canceled" -> "dead"

Promise == INSTANCE JobQueue WITH
  Takers <- Callbacks,
  Limit <- MaxAttempts,
  state <- [j \in Jobs |-> Promised(job[j].status)],
  failures <- [j \in Jobs |-> job[j].attempts],
  hands <- [j \in Jobs |-> Holders(j)],
  calm <- Calm

\* The rows of ocr_jobs are a queue with a retry limit: undisturbed, each job
\* goes from waiting to one callback and to the outcome that callback writes,
\* and every failure counts one; whatever disturbs it, no callback takes up a
\* finished job, only the last failure allowed is final, and no job is lost.
QueueKeepsPromise == Promise!QueueSpec

\* The queue does what JobQueue promises and neither hangs nor outlives its
\* switch: jobs settle, and a thrown switch drains the callbacks.
QueueDrains == QueueKeepsPromise /\ JobSettles /\ KillSwitchDrains
=============================================================================
