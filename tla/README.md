# Staff-Server: a TLA+ verification project

This directory holds TLA+ models of the parts of Staff-Server whose correctness depends on the order
in which things happen: concurrent HTTP handlers over one PostgreSQL database, background workers that
claim jobs, calls to lenders and other services that cannot be rolled back, crashes and retries. TLC
checks small instances of every model; TLAPS proves the most important facts for every instance.

`PROJECT.json` is the index: components, runs, the map from definitions to source lines, mutants (a
plausible bug for each property, which makes the property fail), hazards, findings and theorems.

## 1. Inventory of the system

Staff-Server is an Express/TypeScript service backed by PostgreSQL (and, for idempotency, Redis). A
process serves requests and runs workers; several processes may run. Every handler is asynchronous:
between two `await`s any other handler may run, and all of them share the database. Most statements
commit by themselves; the transactions there are run at READ COMMITTED. Components interact almost only
through rows: a handler of one component changes a row that a handler or worker of another reads later.

| Component | State it keeps | Operations | Hard behaviour | What makes it correct | Module |
|---|---|---|---|---|---|
| Pipeline stages (`modules/applications/pipelineState.ts`, `applicationLifecycle.service.ts`) | none | transition check, proposed next stage | - | used by every mover | `PipelineStages` |
| Lender transmission (`modules/lender`, `modules/submissions`) | `lender_submissions`, `lender_submission_retries`, kill switch | submit, retry, cancel, portal mark | the lender is called inside the transaction; retries take no lock | what is recorded was delivered; attempts bounded; one send per key | `LenderTransmission` |
| Submission orchestrator (`services/submission`, `services/lenders`, `workers/lenderPackageWorker.ts`, `routes/signnow.ts`) | claim columns on `applications`, `application_packages`, `job_queue` | progressSubmission, direct send, webhook, worker | claim, slow dispatch, partial failure, crash after the claim | signature request and package go out at most once | `SubmissionDispatch` |
| Application pipeline (`modules/applications`, `routes/portal.ts`, `routes/offers.ts`) | `applications.pipeline_state`, stage events, document status, offers | open, accept/reject a document, promote, drag, status patch, term sheet, offers | check-then-update without a row lock; writers that bypass the transition check | recorded moves are legal; an accepted offer stands | `ApplicationPipeline` |
| OCR (`modules/ocr`) | `ocr_jobs`, results, insights | enqueue, lock, run, retry, reset | several workers, overlapping timer callbacks, locks that expire, crashes | one worker per job; attempts bounded; jobs come to rest | `OcrQueue`, `JobQueue` |
| Processing stage and jobs (`processingStage.service.ts`, `modules/processing`) | `processing_stage`, job tables, retry counters | create, complete, fail, retry, advance | many transactions advance the same row; retries race completions; foreign keys and UPDATEs take part of a row before it is locked | the stage follows the jobs, and only the application's row closes a circle of waits | `ProcessingStage` |
| Client wizard (`routes/client/v1Applications.ts`, `services/companies.ts`, `contacts.ts`, `applicationCrmMirror.ts`) | the application row, its legs and companions, companies, contacts | save, create at step 2, submit, mirror | repeated and concurrent submits, a background mirror, whole-row write-back, payloads without an e-mail | resubmitting multiplies only what overlapped or has no e-mail, and undoes nothing | `ClientSubmit` |
| Readiness (`routes/publicApplication.ts`, `modules/readiness`, website and CRM forms) | leads, contacts, sessions, session-to-application map | readiness check, start, continue | two forms or two starts of one person | a session becomes one application | `ReadinessIntake` |
| Document versions and requirements (`applications.service.ts`, `applications.repo.ts`, `routes/documents.ts`) | documents, versions, reviews, `application_required_documents` | upload, accept, reject, evaluate | review beside upload, an illegal move at the end of a transaction | an accepted document has an accepted version; readers agree | `DocumentVersions` |
| Authentication and users (`modules/auth`, `modules/users`) | users, OTP rows, refresh tokens, token versions | OTP, refresh, disable, enable, role | a refresh beside a disabling or another refresh | a token is exchanged once; disabling ends sessions | `AuthSessions` |
| Lender catalogue (`repositories/lenders.repo.ts`, `lenderProducts.repo.ts`, portal routes, `services/lenderCrmMirror.ts`) | lenders, products, CRM copies | create, patch, delete, mirror | reconciliation on a stale row, delayed mirrors | the target fits the method; the copy follows | `LenderCatalogue` |
| Product requirements (`services/lenderProductRequirementsService.ts`, two required-docs routes) | `required_documents` of products | edit, merge, list for an amount | two entry formats, windows of amounts | the merge says what its entries say | `ProductRequirements` |
| Lender matches (`services/lenderMatchCache.ts`, `ai/lenderMatchEngine.ts`) | cached matches, staleness mark | compute, mark, read | a mark falls into a computation | matches shown as ready are current | `LenderMatches` |
| Idempotency (`middleware/idempotency.ts`, `lib/idempotencyStore.ts`) | stored answers in Redis or memory | look up, run, store, evict | two requests in flight, Redis coming and going | one execution per key while remembered | `HttpIdempotency` |
| Offline replay (`services/pwaSyncService.ts`) | batches, `idempotency_keys` | replay | execute and record are separate statements | an action is replayed once | `OfflineSync` |
| Push (`services/pushService.ts`, `repositories/pwa.repo.ts`) | subscriptions, notifications | subscribe, send, acknowledge, prune | the row found is gone when it is written | an endpoint has its owner's keys | `PushDevices` |
| Notes and mentions (`routes/applicationNotes.ts`, `routes/crm/notes.ts`, `services/notifications`) | notes, notifications | write, edit, notify, read | two edits compare with the same earlier note | whoever is mentioned is told | `StaffNotices` |
| Banking (`workers/bankingAutoWorker.ts`, `services/banking`, `routes/banking.ts`) | `banking_analyses`, transactions, months, document mirror | poll, analyse, fail with backoff, manual run, retry | no claim between processes, no transaction | a complete analysis is whole; attempts end | `BankingAnalysis` |
| Credit summary (`services/credit`, `routes/creditSummary.ts`) | summary, versions, stamp | generate, regenerate, edit, submit | read-modify-write by several people | the history keeps every version; the stamp is backed | `CreditSummaries` |
| Calls (`modules/calls`, `modules/voice`, `routes/calls.ts`, `routes/webhooks.ts`, `telephony`) | `call_logs`, presence | start, hang up, status webhook, recording | webhooks late, twice, out of order | a call the log shows as over is over at Twilio | `CallLogs` |
| Communications (`routes/communications.ts`, `routes/messages.ts`, `routes/maya.ts`, `routes/webhooks.ts`) | `communications_messages`, `maya_escalations` | text in and out, in-app message, hand-off, threads and timeline | duplicate deliveries while contacts come and go; every reader has its limit | a text has one row, and a reader shows it within its limit | `Communications` |
| Operations and exports (`modules/ops`, `modules/exports`) | kill switches, replay jobs and events | toggle, replay, export | overlapping jobs, death of the process | a completed job covers its scope; the switch bites | `OpsJobs` |
| Calendar and Office 365 (`modules/o365/graphClient.ts`, `routes/o365.ts`, `o365Tokens.ts`, `authMicrosoft.ts`, `calendar.ts`, `routes/crm`) | token columns, tasks with To-Do ids | store token, refresh, Graph call, task, meeting | a token renewed under a call; a write from Graph after the row changed | a call acts once; a To-Do item goes with its task | `Office365` |
| Start-up (`index.ts`, `startup`, `migrations.ts`, `db/seed.ts`) | `schema_migrations`, advisory lock, readiness | migrate, start, seed | several instances, a second runner without the lock | files run once, in order; the lock is passed on | `SchemaMigrations`, `SchemaHistory` |
| Dead letters, insurance hand-off, document processing and client submission modules, reporting, AI assistant, audit log, circuit breakers, middleware, storage | rows or counters of their own | single inserts, reads, or code no route reaches | nothing that depends on order | reasons one by one in `PROJECT.json` and section 6 | - |

## 2. Modules

Each module is commented with the files it models; `PROJECT.json` maps every definition to its lines.
A variable is a table, a column or the in-memory state of a process; an action is one statement (or one
run of code between two `await`s) of a handler, because that is the granularity at which others can run.
A transaction whose rows nobody else can see before the commit may write them in one step at the commit;
the header of the module says so where it is done.

**The core** - the way of an application to a lender.

* **`PipelineStages`** - the stages, `LEGAL_TRANSITIONS`, the transition check and the proposed next
  stage, as operators without state. Extended by `LenderTransmission`, `ApplicationPipeline` and
  `DocumentVersions`.
* **`LenderTransmission`** - `submitApplication`, `retrySubmission`, `cancelSubmissionRetry` and the
  portal's upsert. A submit takes the advisory lock, then the row lock, looks for a submission, inserts,
  calls the lender and commits; writes become visible at the commit, and the lender's inbox is not
  rolled back. Retries read without locks. Row locks, the unique constraint's wait, rollbacks, crashes
  and the kill switch are explicit.
* **`SubmissionDispatch`** - the orchestrator's two claims (`submission_chain_started_at`,
  `submission_packages_started_at`), the dispatch loop over the selected lenders, the signature webhook,
  and the job worker. `rows` and `received` count, per lender and per path, what was recorded and what
  arrived. Failing queries, lost answers and crashes are counted faults; in the worker the lookup, the
  dispatch and the "completed" UPDATE all fail into the catch, and the catch's own UPDATE may fail too.
  `SendForSignature` does what the orchestrator does, nothing, because its import does not resolve;
  `sendApplicationForSignature` is modelled apart (`Invite`, `RecordDocumentId`), called once from outside.
  `JobStatusChecked` says whether `job_queue` has the CHECK of its migration, which refuses the worker's
  claim, or is the older table that migration finds in production and leaves as it is.
* **`ApplicationPipeline`** - one application under the portal, the application routes and the offer
  routes. A request is chosen with its validated input, then runs statement by statement; `events` is
  `application_stage_events`.
* **`OcrQueue`** - `ocr_jobs` with the locking query, the timer callbacks of each process with their
  `running` flag, `processOcrJob`, resets by staff, the kill switch. Completion and failure address the
  job by id and ignore `locked_by`, as the code does.
  **`JobQueue`** is the abstract specification it implements: a job is offered, taken by one worker, and
  that worker ends it or counts one failure and sends it back, until the limit. The refinement mapping
  `Promise` keeps of a row its status and count, of the callbacks who holds which job, and of the bounds on
  faults only whether anything has disturbed the queue yet; a disturbance (staff's reset, a lock that runs
  out under its worker, a crash, a swallowed error) permits a second worker and a stale count, and still
  neither a finished job taken up again nor a job lost.
* **`ProcessingStage`** - the derived stage, the job rows and the transactions that write them. Waiting,
  reading without a lock, closing, touching the application, advancing and committing are separate steps.
  Besides the rows it locks (`held`) a call has a part of the application: the key share its foreign key
  takes, or the row its UPDATE writes, both before `advanceProcessingStage` asks for all of it. A call is
  deadlocked when it waits in a circle of calls (PostgreSQL then aborts one); calls that only wait for
  such a circle are not.
* **`ClientSubmit`** - one client application while it is saved and submitted several times. The
  fan-out's look-ups and inserts, the background mirror and the normalising transaction interleave. A
  payload has an e-mail address or none; without one the transaction inserts a contact unseen, and
  `blank` counts those.

**The services** - `AuthSessions`, `LenderCatalogue`, `LenderMatches`, `ProductRequirements`,
`OfflineSync`, `HttpIdempotency`, `PushDevices`, `StaffNotices`, `ReadinessIntake`, `DocumentVersions`,
`CallLogs`, `Communications`, `CreditSummaries`, `OpsJobs`, `Office365`, `BankingAnalysis`: one module
each, as in the table above. Their handlers are written alike: a `CONSTANT` set of handlers, a variable
that says where each stands and what it has read, and one action per statement. Things that happen
outside (Twilio, Graph, Redis, contacts created elsewhere) are actions or choices of their own.

**Start-up** - `SchemaMigrations` models every server process and the command-line runner over
`schema_migrations`; **`SchemaHistory`** is the abstract specification it implements, with
`H == INSTANCE SchemaHistory WITH history <- RecordedFiles`: recorded files only accumulate, and each is
the first missing one in the order of one of the two runners.

**Composition.** `MCServices` composes the sixteen services and `MCWaiting` the three places where
processes wait (lender submissions with one key, migrations, banking). They share no rows, so a product
of their state spaces would only multiply unrelated interleavings: a behaviour picks one service at the
start, and the others are left as they are. Where a component does depend on a column another writes,
its module has an environment action for it (`StaffMove` in `LenderTransmission` and `ClientSubmit`,
`Submit` in `OcrQueue`, the accepted documents and the credit summary in `SubmissionDispatch`, contacts
and applications in `Communications`). The other `MC*` modules define constants and symmetry
sets, and two of them a narrower specification: `MCProcessingStage` picks what the calls of a behaviour
are about (`subject`), `MCSubmissionDispatch` settles documents and tasks where the worker is the question.
`*Proofs` modules hold the theorems.

## 3. Runs

Properties are grouped by question. A property such as `StageBOnce` is a conjunction of named parts, the
type invariant among them; each part is stated with its own comment in the module.

| Run | Question | Bounds |
|---|---|---|
| `lender_safety` | `RowsAreTrue`: is what is recorded delivered, are attempts bounded? `SendIsIsolated`: do the locks cover the slow call? | 2 handlers, 4 requests, 1 application, attempts up to 2, a crash anywhere |
| `lender_success` (violation) | Does an accepted package always leave its record? No | 1 application |
| `dispatch_stage_b` | `StageBOnce`: do the claims admit one handler and write each row once? `ChainIsGated`: does anything leave early? | 2 handlers, 4 calls, 2 lenders, 2 faults, crashes; a signature requested beside them |
| `dispatch_worker` (fair) | `WorkerResendBound`, `JobSettles`: are the resends of the worker bounded, and does a job end? | 1 worker, 1 handler with 3 calls, 1 lender, 2 jobs, 2 attempts, 2 faults; the table without the CHECK; documents and tasks settled |
| `dispatch_two_clicks` (violation) | Does a lender get one package? No: POST /applications/:id/lenders/send dispatches without the claim | 1 lender, 2 clicks, no faults |
| `pipeline_moves` | `StageAndLogAgree`, `IllegalMoveNeedsStaleRead`, `AcceptedOfferStands` | 2 handlers, one request each, every initial stage, 2 documents, 2 offers, 1 fault |
| `pipeline_offer_accepted` (violation) | Does an accepted offer move the application? No listener exists | 1 handler |
| `ocr_queue` (fair) | `QueueIsSound`: who works on a job, what does its counter mean, does an outcome stand? `QueueDrains`: does it implement `JobQueue`, does every job rest, does the kill switch drain? | 2 jobs, 2 overlapping callbacks, 1 staff reset, 1 crash or expiry |
| `processing_stage` | `StageFollowsJobs`: the stage settles, is backed, retries are bounded, every circle of waits runs through the application. `BankingCompletionStands` | 2 documents, 1 required; 2 overlapping calls without a limit on their number, 1 retry per job, 1 forced; a behaviour's calls are about the required document or about OCR |
| `client_submit` | `NothingMultiplies`, `NothingIsUndone`, `CompanyStands` | 2 requests (save, submit, both, the companion of step 2), 2 mirrors; with and without e-mail |
| `services` | one property for each of the sixteen services, two for documents | per service: 2 handlers, 1 or 2 rows or keys, see below |
| `waiting` (fair) | `KeySpentOnce`, `RequestsEnd`; `MigrationsRunOnce`, `OrderedHistory`, `LockIsPassedOn`; `BankingSettles` | 2 applications, 2 lenders, 1 key; 2 servers, 2 starts, the command-line runner, 3 files, 2 tables; 1 worker, 1 manual run, 2 attempts |

**Why the bounds are enough.** Every race in this code is between two handlers that read and then write
one row, so two handlers (or a handler and a worker, a submit and its mirror) show it; a third adds
nothing that a second with one more request does not. Where a counter matters the limit lets it be below,
at and beyond the limit. Fault bounds of one or two let a failure hit each statement, and let a second
hit the recovery from the first. Two lenders are the least for which a dispatch can fail half way; two
jobs the least for which a batch holds more than one. Two documents are the least for which two OCR creations
wait for each other. The initial states of `pipeline_moves`,
`client_submit` and of the migrations cover what an earlier history leaves, so a short run starts anywhere.

In `Services.cfg`: three refresh tokens let a replay happen after a rotation of a rotation; the memory store
holds one entry for two keys, so the second evicts the first; four calls on two documents of two types (one
required, one not) with two versions let a review meet an upload on the same and on the other document;
three operations on one call are enough for a late webhook to meet a read and a hang-up; a credit summary
has at most three versions, so an edit is overwritten and superseded; batches of two over two rows, with
rows added and removed, are the least for which a job fetches a second batch; two tokens issued let one
lapse under a call that holds it. The limits of the threads and the timeline (500 and 200 in the code) are
1, so the second of two rows is beyond them. Requirement entries range over both formats, bounded and
unbounded, and products over terms that admit an amount or not. `MaxSyncActions` and `MaxOtpAttempts` are
the code's limits made small.

`CHECK_DEADLOCK FALSE` stands where the number of requests is bounded and a behaviour rightly ends (the
worker, pipeline, OCR, intake, services, waiting); the lender, stage B and processing runs are checked for
deadlock too.

**Fairness.** Assumed is only that a handler or server which can take its next statement does (Node drives
its promises, PostgreSQL grants a free lock), that `setInterval` timers fire, that calls with a timeout
return, that due times come, and that an expired lock counts as expired. Callers, staff and crashes are
never assumed to act. `JobSettles` of the dispatch is checked without crashes, because nothing in the
code takes up the job of a dead worker, and on the table without the CHECK, because on the other no job is
ever taken. What it excepts is the code's own: a job stays `in_progress` for good when the UPDATE of the
catch is lost, which takes a second failing statement, or is refused because another job of the
application has been queued in the meantime. In `waiting`, `LockIsPassedOn` holds with crashes: a session that
dies loses its advisory lock. `BankingSettles` has the escape `abandoned` for a run that died or a manual
run that failed, because the poll never takes up a row left `in_progress`; that is the code's behaviour,
and the property shows it is the only one that keeps an analysis from ending.

**Mutants.** For each property of a passing run `PROJECT.json` names a definition and a mutated form
defined just before it (a dropped lock, a missing guard, an uncounted attempt, a misspelt status); with
the mutant in its place the same run finds the property violated.

## 4. Findings

1. `lender_success`: README.md:98 promises that on success the submission is logged and the application
   moves to Off to Lender. From Documents Required the move to In Review is illegal; the throw rolls the
   record back after the lender accepted, and the next submit sends again.
2. `dispatch_two_clicks`: the comments at the claim (`orchestrator.ts:47-52`) say that two clicks must not
   send a package twice, and those of `submissionOrchestration.ts:13-17` and `:65` that no route may
   dispatch itself; POST /applications/:id/lenders/send does (line 88), with neither gate nor claim.
3. `pipeline_offer_accepted`: `routes/offers.ts` says the `offer_accepted` listener moves the
   application; no module registers one.

Four more disagreements are stated as definitions beside the code they are about, and no run checks them:
`PreviewMatchesWizard` (`ProductRequirements`: the preview of required documents takes the products of
both countries, while its comment claims "the same query the wizard's Step 5 uses"), `SkippedWasThere`
(`SchemaMigrations`: a file skipped because one of its objects exists loses its other statements),
`ManualRunTakesAll` (`BankingAnalysis`: the manual run analyses only documents tagged as banking, against
its comment) and `ExpiryColumnsAgree` (`Office365`: a refresh leaves the older expiry column behind).

Observations made while reading, not tied to a run:

* **Lender dispatch.** The orchestrator's dynamic import of `../signnow/sendApplicationForSignature.js` does
  not resolve from its directory, so the signature is never requested on that path. The worker's claim
  writes `in_progress`, which the CHECK of `2026_05_06_job_queue_table_v171.sql:15-16` does not list: on a
  table that migration created every claim fails and no queued package is ever sent. Only the
  "manually-created prod" table of its line 25 can be without the CHECK. There, a lookup or a "completed"
  UPDATE that fails sends the package again; the unique index covers `pending` and `running` while the
  worker writes `in_progress`, so a retried job that goes back to `pending` may collide with a newer one;
  and an error of the catch's UPDATE, whatever its cause, is swallowed and leaves the job `in_progress`,
  where nothing looks for it. A dispatch in which every lender refuses still writes rows, so its claim is
  never released. A non-retryable lender failure is rolled back with its own record. The invitation leaves
  before the document id is stored, so an early webhook finds no application.
* **Schema.** The statements name `application_packages.delivered_to/error/bytes` and
  `applications.signnow_document_id`, which no migration creates; `offers_status_check` (migrations/077)
  allows only pending, accepted, rejected and changes_requested, and no migration adds `pending_at`,
  `accepted_at`, `declined_at` or `decline_reason`, so on that schema POST /offers, most PATCHes and the
  staging, confirming and declining routes fail. The models assume the columns and statuses the
  statements name.
* **Pipeline and offers.** `POST .../confirm-acceptance` does not move the application. A document review
  from another silo is "rolled back" to `pending_review`, not to the status before. A term sheet archives
  the live offers before it inserts the new one. Staging an offer and naming it on the application are
  two statements. POST /portal/offers stores whatever status its caller names, `accepted` included, and
  emits only `offer_created`. DELETE /portal/applications removes listed child tables and then the row in
  one transaction; a child inserted meanwhile, or one in an unlisted table, makes the deletion fail.
* **Documents.** The mounted uploads write no required row and the mounted reviews write no version
  review, so `listLatestAcceptedDocumentVersions` never sees what they accept; the service's own upload
  and review functions have no route. Two reviews of the last two documents each see the other pending,
  so neither moves the stage. Reviews decide on a stage read before. Accepting a type without a
  requirement makes its row required. `removeDocument` fails for any document with a version (the key is
  RESTRICT). `changePipelineState` upper-cases the stage, so only DECLINED passes. Audit rows of a failed
  upload are rolled back with it. Keys that cannot be normalised are ignored by `fetchProcessingStatus`
  but not by `evaluateRequirements`.
* **OCR.** The mirroring of a failure onto the document does the reverse of its comment. A repeated OCR does
  not replace the stored result (`ON CONFLICT DO NOTHING`). Two jobs that refresh the insights at once
  may lose one another's fields.
* **Processing.** `ocr_completed_at` is stamped even if every job failed. An automatic retry may reopen an
  OCR job that was completed in between. Credit summary and banking stamp the application without
  advancing its stage. Nobody marks a credit summary job failed, so its breaker never opens. The INSERT of an
  OCR job shares the application through its foreign key and then asks for all of it: two creations, or
  one beside a completion, a review or an upload, may deadlock, and one of them answers 500.
* **Intake.** `publicApplication.ts` has a `//` comment inside its SQL, so a start by phone fails whenever
  there is a draft. Two concurrent starts of one session create two applications, of which the mapping keeps
  one. The unique index on the email of `readiness_sessions` is not limited to active rows, so a second
  check after a conversion fails with 500 after its lead was inserted. Concurrent submits duplicate the leg
  and the companion in spite of the comments on idempotency. One submit may create two companies, one of
  them by its own mirror; after that each resubmission may add a contact, because the mirror moves contacts
  between companies. An applicant or partner without an e-mail address is inserted again by every submit
  (`v1Applications.ts:858-860`, `:872-874`; `contacts.ts:93-97`). Switching closing costs on, off and on
  leaves only an archived companion. PATCH may write back metadata older than a submit in between.
* **Accounts.** `startOtp`, `verifyOtpCode` and `refreshSession` have no mounted route. A new account
  cannot sign in by code until it is enabled. Two refreshes of two live tokens of one user may deadlock.
* **Catalogue.** An edit of lenders or products never marks the match caches stale; a mark that falls into a
  computation is erased by its result. PUT of a product without documents empties its list. Portal entries
  ("category") and requirement entries ("type") are read by disjoint readers; a document that is always
  required but has a non-required entry is not demanded. `listMatchingProducts` compares the amount with
  `term_min` and `term_max`, and the model does as it does. PATCH of a lender deleted meanwhile throws a
  TypeError before the 404 check. The requirement edits and the table `lender_product_requirements` have no
  route.
* **Requests.** After a restart the first look-ups miss Redis. A stored 4xx answer is replayed as 200
  "duplicate". Two requests with one key in flight both run. The patterns of `pwaSyncService` use doubled
  backslashes. The push audit's dedupe hash covers `sentAt` and so never matches. A mention whose insert
  fails is never retried.
* **Start-up.** If the command-line runner creates `schema_migrations`, the table has no primary key, the
  server's ON CONFLICT fails and every start exits. The ignored failure of the skip path's INSERT may
  leave a hole in the history. The runners sort files differently. `initDb` creates
  `live_chat_requests` with other columns than migration 063. Waiting more than ten seconds for the lock
  ends the process. Nothing marks a process ready again after a pool error. A seeding interrupted between
  lender and products is never completed. Nothing calls `schemaRepairs`.
* **Banking.** Overlapping runs duplicate transactions. A mirror that fails after completion turns
  `analysis_complete` into `failed`. A manual run marks documents it never analysed. An analysis whose
  process dies stays `in_progress`, which the poll skips.
* **Calls.** A hang-up that Twilio refused is logged as completed with a success audit. A late webhook puts
  a finished call back to ringing, a recording writes back a stale status. `busy` set by hand leaves
  `ended_at` null. `routes/twilio.ts` and most of the voice service are not mounted.
* **Communications.** GET /sms and GET /messages-list always answer with an empty list: PostgreSQL takes
  `GROUP BY phone` as the column `c.phone`, so the selected `COALESCE(c.phone, m.from_number, ...)` uses
  columns that are not grouped, the query is refused, and `.catch` answers with no rows. The threads open
  the oldest 500 rows (the client's the oldest 200), so the latest texts of a long conversation are never
  opened there; the timeline has the newest 200, or up to 500. Rejection texts carry no contact and silo BF,
  as do all rows of POST /api/messages. Hand-off rows have neither contact nor application. Overlapping
  escalations duplicate, against the comment in `routes/maya.ts`. A text stored before its contact exists
  stays outside the contact's thread. `sms.inbound.received` is emitted per delivery; nothing listens. The
  chat module is not mounted.
* **Credit summary.** The banking figures are never loaded, so the review branches on them are
  unreachable. A GET that found no summary, or a submit that read earlier, overwrites a newer edit, which
  survives only in the history. An edit after submission keeps the status submitted.
* **Operations.** A replay job stays `queued` or `running` when its process dies, and also beside a live
  one: when its audit insert fails after its creation (`admin.ops.ts:92`), or the UPDATE to `running`
  (`replay.service.ts:159`) or to `failed` (`:203`), whose errors are only logged. A CSV export calls
  `res.json` after streaming, throws, and is audited both as success and as failure. Nothing starts the
  dead-letter worker or `startReportingJobs`; a retry that fails would push a further dead letter, Slack
  failures are deleted as done, and stored texts have `body` where `sendSms` expects `message`.
* **Office 365 and CRM.** `authMicrosoft` assumes an hour of lifetime for any token. The calendar takes a
  null older expiry as "never expires". Two PATCHes of a task may leave status and `completed_at`
  contradictory; a task deleted while it is created leaves a To-Do item behind; CRM tasks and meetings
  are created at Graph before the INSERT that may fail; a CRM PATCH never reaches To-Do.
  `/crm/timeline/calls` checks references before its INSERT, so a contact deleted in between still
  answers 409, despite the comment. The filter `has_active_applications` uses a column its own comment
  says does not exist.

## 5. Proofs

The theorems hold for every number of handlers, rows and faults, under the named ASSUMEs of the modules
only (the sets are what they are called, limits are naturals, null values are not members). In every
module the argument is the same: an inductive invariant `I` with `Init => I` and `I /\ [Next]_vars => I'`,
proved action by action, and the properties as its consequences.

* **`LenderTransmissionProofs`.** `TypeCorrect`; `Invariance`: `Spec => []IInv`, where `IInv` adds
  `LocksHeld` (which locks a handler holds between which statements), `HandlerFacts` (what a handler may
  still rely on: the row it read exists, its attempt count was below the limit, an accepted outcome is in
  the inbox) and `RowFacts`. Without `LocksHeld` another handler could record the pair under the slow
  call; without `HandlerFacts` a stale write-back could pass the limit. From it `RecordsAreTrue`,
  `RetryLimit`, `RowsStayTrue` (`RowsAreTrue`) and `SendIsExclusive` (`SendIsIsolated`). `KeyIsSpentOnce`
  (`KeySpentOnce`) is a second induction over `KeyFacts`, pairwise, without cardinalities.
* **`SubmissionDispatchProofs`.** `DInv` adds `HandlersHold`, `RowsUnderClaim` (a claimed dispatch
  owes rows only to lenders still to serve), `ReceiptsExplained` (each receipt has its row, a row to
  come, or a fault), `SeenReady` and `ChainHeld`. Every step is first reduced to its effect on one
  handler (`Effect`), and the parts of the invariant are shown for the effects. Results: `StageBSendsOnce`
  (`StageBOnce`), `NothingLeavesEarly` (`ChainIsGated`).
  `ResendsAreBounded` (`WorkerResendBound`) is a second induction, over `WInv`: `JobHeldAlone` (a job in
  progress has at most one worker), `AttemptsLeft` (whatever may still be worked on is below the limit) and
  `EachCallHasAttempt`. None of them says that a job in progress has a worker: the catch's UPDATE may
  fail, and then it has none. The last one is where the counting is done: the pairs (job, attempt) that are past
  the call of lender `l` are a finite set with at most `MaxAttempts` members for each job, and every
  package adds a pair that was not in it. An attempt counts for `l` as soon as its worker can no
  longer call `l`, not when the job row is updated; otherwise a crash between the call and the update
  would break the induction.
* **`ApplicationPipelineProofs`.** `AInv` adds `Decided` (a handler about to write checked the move against
  the stage it read), `ReadStands`, `StageHasSource` and `StagesAnOffer`. Results: `StageAgreesWithLog`
  (`StageAndLogAgree`), `IllegalMoveIsStale`, `AcceptedOfferIsKept`.
* **`ClientSubmitProofs`.** `IInv` is `Shape` with the three parts of `NothingIsUndone`; `AppSteps` shows
  that only five actions write the application's row. Results: `FormKept`, `StageKept`, `WholeOrNothing`,
  `NothingLost` (`NothingIsUndone`), `CompanyKept` (`CompanyStands`).
  `RowsAreBounded` (`NothingMultiplies`) has an invariant of its own, `FInv`. Between "looked and found
  nothing" and the INSERT a handler owes a row; `Owed` bounds the rows there are plus those still owed, for
  each table. A new debt arises only while the table is empty, and then all who owe are under way at
  once (`WayCounted`). Of contacts, those inserted without an e-mail address are paid for by `blank`, and
  the induction is about the others (`Addressed`, the length of the table less `blank`). They need one
  more clause: a transaction also comes to owe a contact when there are such contacts, if none of them has
  its company; as long as there is one company that means that every one came from a mirror, one each,
  which `ContactsOwed` counts apart (`NoneNamed`). Each action is
  shown to have one of a few effects on each table (`Effects`), and `OwedKept` is about effects only.
* **`OcrQueueProofs`.** `OInv` adds `ClaimsBelowLimit` (whoever works on a job locked it below its
  limit, so the counter written back unseen stays within it), `HoldersCounted` (without a lock in force
  one holder less is allowed; the induction needs this, because the lock is what `lockOcrJobs` looks at)
  and `HolderAlone` (as long as nobody interfered, the one holder has the job locked). Steps that leave
  the rows alone are one lemma (`JobsAlone`). Results: `QueueStaysSound` (`QueueIsSound`), `AttemptsEnd`.
  The refinement `OcrJobsAreAQueue`: `Spec => QueueKeepsPromise` has `PInv`, which adds what the abstract
  steps say and `OInv` does not: `IdleTasks` (only a callback with a batch has tasks, so one that locks
  jobs takes each of them afresh), `HeldIsQueued`, `TakenIsHeld` (undisturbed, a job in `processing` has a
  callback, so the job a callback locks was waiting) and `ClaimsAreFresh` (undisturbed, the count a
  callback read when it locked the job is still the one in the row, so what it writes is one more).
  `StepKinds` sorts the steps: `createOcrJob`, `resetOcrJob`, the lock and the two outcomes are the
  abstract operations, the other steps stutter or disturb.
* **`ProcessingStageProofs`.** First the algorithm: `RankGrows` and `PassesRest` show that ten passes of
  `ResolveNextStage` always reach a stage that rests. Then the transactions: `PInv` adds `Exclusive` (no
  two calls hold a row), `Sound` (what a call holds at which statement), and what a call may rely on until
  it commits: `Covered` (the retry it is about to write is within the limit), `BankOpen`, `JobStands`,
  `Closing` with `OneCloser` (the rows an OCR completion closes are those it will write, and no two close
  at once), `NextSettled` and `NextBacked` (the stage it computed still fits what it is about to commit).
  Circles of waits need no induction of their own: `NoRowCircle` shows that documents, requirements and
  jobs are locked in one order by all, so a circle needs the application; `SimpleCallsPass` that a
  failure, a forced retry or a plain advance holds nothing while it waits for it. Results:
  `StageFollows` (`StageFollowsJobs`), `CompletionStands` (`BankingCompletionStands`).
* **`AccessProofs`** (sessions, keys, devices, operations, start-up). Theorems about the run of all services
  are of `MCServices`' `Spec`, for all its constants: `AccessInvariant` says that a behaviour keeps the
  invariant of the service it picked.
  - Migrations: `MInv` adds `LoopHoldsLock`, `ServerKnows`, `CliKnows` and `BuiltIsKnown`. Results:
    `BuiltOnce` (`MigrationsRunOnce`) and the refinement `HistoryIsOrdered`: `MigSpec => H!HistorySpec`,
    every step a `RecordFile` of `SchemaHistory` or a stutter.
  - Sessions: `SInv` adds `HoldsItsToken` (a refresh holds the lock on a live token), `ExchangedIsOver`, and
    `TokensAreBehind` with `RequestsAreBehind`: no token, stored or about to be, carries a version ahead of
    its account, and none of a disabled account has the present one. That is what makes a refresh that
    commits beside a disabling harmless. Results: `TokenIsRotatedOnce`, `DisablingEndsSessions`, and with
    the types of the one-time passwords `SessionsStaySafe` (`SessionsAreSafe`).
  - Offline replay: `SyncInv` has `BatchSound` (the action a batch is about to carry out or record is still
    in it) and `KeyPaid`: what a key was carried out beyond once is paid for, counting those who have
    carried it out and not recorded it. Result: `ReplaysStaySafe`.
  - Idempotency keys: `KeyIsKept`, for keys that lost nothing: one request at a time, and what was handled
    is stored or about to be. Result: `KeysStayHonoured`.
  - Push: `RowsAreOwned` and `FoundRowIsOwn`. A registration writes to the row number it found; because a
    number is never used twice, that row is either gone or still its user's. Result: `DevicesStayOwned`.
  - Operations: `ScopeIsMarked` (a job about to complete has marked what it promised), `SwitchIsSeen` (a job
    that wrote since the switch went on neither fetches nor writes again), `JobHasTask` (what a job's row
    says at each statement of its task), `ExportsPastAudit`. `UpdateKeeps` is about the four UPDATEs that
    are carried out, `LossKeeps` about any statement that fails or has no answer, with or without the
    process; `unwritten` holds the jobs whose loss no catch saw. Result: `OperationsStaySafe`.
  - Product requirements: the state only needs its types (`ReqKeeps`); the work is in the readers, which
    fold over lists of any number of products. The library's induction and recursion theorems have an
    operator as a parameter, which the provers cannot instantiate, so the section begins with two of its
    own, over sets: `FiniteInduction` (by a smallest counterexample, from `WFMin`) and `RecursionExists`
    (the function a fold of the community modules is defined by exists). `MergeAdds`: a round of the merge
    adds exactly what its entry says, null being "no bound"; `DedupeAdds`: so does the merge of a list;
    `ResolvedForType`: and that of all matching products. Result: `RequirementsStayRight`
    (`RequirementsAreRight`).
* **`RecordsProofs`** (what the other services keep), in the same form; `RecordsInvariant` joins the parts.
  - Catalogue: `CopySound` (a lender that does not lag has at most one copy under way, of its last edit),
    `ContactsBounded` (contacts there are and those still to be inserted). Result: `LendersStayWhole`.
  - Matches: `MarksFollowEvidence`, `ComputedFromNow`. Result: `MatchesStayCurrent`.
  - Notes: `PreviousAreCovered`: whoever an edit found mentioned is notified, about to be or lost, whatever
    other edits do before it saves. Result: `MentionsDoArrive`.
  - Readiness: `OneStart`, for persons never started twice at once. Result: `SessionsStayOne`.
  - Documents: `ReviewsExclude` (the row locks) and `DocReqSound` (what a request read and still relies on).
    Results: `ReviewsStayBacked` and the action property `AcceptedStaysFinal` (`AcceptedIsFinal`).
  - Calls: `ReportsAreTrue`, `CallHSound` (who is about to write an end has a reason that stays). Result:
    `CallsEndOnce` (`CallsEndTogether`).
  - Communications: `RowFits` and `StoredOnce` over all rows; `OpensOldest` (a row a thread selects is opened
    or has as many earlier ones as the limit). Result: `ConversationsStayWhole`.
  - Credit summary: `VersionsAreSound`, `AuthorSound` (a version about to be appended has a number of its
    own). Result: `SummariesStayKept`.
  - Office 365: `DeskSound` (nothing was done at Graph before the last fetch; where a request returns after
    a renewal is a place before it), `LinkSound`. Result: `OfficeStaysInStep`.
  - Banking: `AttemptsLeft` (attempts counted plus workers still to count), `OneInside` (until two runs
    overlap the tables are those of one). Result: `AnalysesStayWhole`.

The strengthened invariants were first checked by TLC with the constants of the runs (`WInv`, `FInv`,
`AccessInv`, `RecordsInv`).

`HistoryIsOrdered` and `MigrationsRunOnce` are proved of `MigSpec` and `KeySpentOnce` of `Spec`; the run
`waiting` checks them in the composition, in which the part that was not picked stutters.

**Assumptions added for the proofs**, each true of the program: registrars, banking workers, catalogue
handlers and batches are finitely many; `"none"`, which the models use for "no value", is not itself a
user, an endpoint, a payload, a type or a row; there is a user who queues requests; the silo of a staff
member is a silo; the bound on versions is positive. TLC evaluates them in the runs.

**A note on form.** An update of two fields of one row is written `[f EXCEPT ![u] = [@ EXCEPT !.a = X, !.b = Y]]`
throughout. tlapm 1.4.5 does not always read `[f EXCEPT ![u].a = X, ![u].b = Y]` and nested `@` as TLC does,
and a theorem should not rest on that.

**Only model-checked.** Liveness (`RequestsEnd`, `JobSettles`, `KillSwitchDrains`, `LockIsPassedOn`,
`BankingSettles`): the prover has no support for reasoning under fairness or about ENABLED. No module
uses a RECURSIVE operator.

## 6. What is not modelled

* Data: payload formats, mail texts, PDF, adapters (only the outcome of a call is kept), the extraction of
  text and fields from documents, the score of a match, the figures of an analysis.
* Reads: listings, reports, analytics, the inbox and calendar proxies. Of the conversations the threads and
  the timeline are modelled; the two lists are always empty and are left out.
* In `ClientSubmit` telephone numbers are not told apart (a contact may or may not be found by one), all
  e-mail addresses are one applicant's, and a partner is a second applicant.
* Append-only rows nobody reads back: audit, telemetry, AI sessions, referrals and support requests.
* Per-request checks: authentication of a request, capabilities, rate limits. A handler starts with a
  request it has accepted. Circuit breakers are one of the failures the models choose.
* DELETE /portal/applications (one transaction that removes everything; the models follow an application
  while it exists), the staff's single-row editing of contacts and companies, profile fields of users,
  uploads of lender documents, continuation tokens.
* The insurance hand-off (one message and a column with its answer, which no handler reads), SignNow's stub
  mode, the purge of SSN and SIN after a submission.
* Code no route or entry point reaches: the document processing and client submission modules, the
  dead-letter and BullMQ workers, the chat module, `routes/twilio.ts`, `schemaRepairs.ts`. Where a service
  function without a route changes rows others read (document versions, refresh tokens, requirement edits,
  the voice service), it is modelled, and the module says that no route calls it today.

## 7. Plan

Done: the core, the services, start-up, the refinements of `SchemaHistory` and `JobQueue`, and the theorems
of section 5, which state every safety property of the passing runs.
Worth doing next, in this order:

1. **`JobQueue` for the other workers.** The package worker and the banking worker claim jobs too, but a
   job of theirs does not survive the death of its worker, and a manual banking run needs no job. `JobQueue`
   would have to let a taken job be lost, and say when.
2. **An abstract "one execution per key while its entry lives"** over `HttpIdempotency`, `OfflineSync`
   and the keys of `LenderTransmission`.
3. **Composition** of `ReadinessIntake` with `ClientSubmit`, and of `DocumentVersions` with
   `ApplicationPipeline`, once the service's review functions are mounted.
4. DELETE /portal/applications beside the handlers of one application.
