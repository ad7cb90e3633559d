------------------------- MODULE LenderTransmission -------------------------
(***************************************************************************)
(* Sending an application to a lender                                       *)
(* (src/modules/lender/lender.service.ts, lender.repo.ts).                  *)
(*                                                                          *)
(* Every request is a handler that runs submitApplication, retrySubmission  *)
(* or cancelSubmissionRetry over its own database connection.  Statements   *)
(* of different handlers interleave; a transaction reads what is committed  *)
(* (READ COMMITTED) and its writes become visible at its commit.  The call  *)
(* to the lender happens inside the transaction and is not undone by a      *)
(* rollback or a crash.                                                     *)
(***************************************************************************)
EXTENDS PipelineStages, FiniteSets

CONSTANTS Requests,     \* handlers that can run at the same time
          Apps,         \* applications
          Lenders,      \* lenders
          LenderOf,     \* applications.lender_id
          Keys,         \* idempotency keys a caller may pass
          NoKey,        \* idempotencyKey: null
          NoOne,        \* nobody holds a lock
          StaffApps,    \* applications staff work on meanwhile
          MaxRetries,   \* config.lender.retry.maxCount
          MaxCalls      \* bound: requests received in one behaviour

ASSUME LenderOfAssumption == LenderOf \in [Apps -> Lenders]
ASSUME StaffAssumption    == StaffApps \subseteq Apps
ASSUME RetriesAssumption  == MaxRetries \in Nat \ {0}
ASSUME SomeAssumption     == Apps # {} /\ Lenders # {}
ASSUME NullAssumption     == NoKey \notin Keys /\ NoOne \notin Requests

VARIABLES stage,      \* applications.pipeline_state
          appStatus,  \* applications.status
          sub,        \* lender_submissions, unique on (application, lender)
          retry,      \* lender_submission_retries, unique on submission_id
          killSwitch, \* ops_kill_switches.lender_transmission
          inbox,      \* packages each lender has received per application
          byHand,     \* pairs a staff member marked submitted in the portal
          advLock,    \* pg_advisory_xact_lock on (application, lender)
          appLock,    \* row lock on applications
          subLock,    \* row lock (or uncommitted insert) on lender_submissions
          req,        \* what each handler is doing and has read
          calls       \* requests received so far

vars == << stage, appStatus, sub, retry, killSwitch, inbox, byHand,
           advLock, appLock, subLock, req, calls >>
dbVars   == << stage, appStatus, sub, retry >>
lockVars == << advLock, appLock, subLock >>

Pairs == Apps \X Lenders
SubStatus   == {"none", "submitted", "failed"}
RetryStatus == {"none", "pending", "succeeded", "canceled"}
Outcomes    == {"none", "accepted", "retryable", "fatal"}
Steps == {"idle", "advisory", "rowLock", "lookup", "insert", "send", "finish",
          "read", "readAttempts", "readApp", "resend", "lockSub",
          "readStage", "commit", "cancelRead", "cancelCommit"}
Replies == {"none", "blocked", "idempotent", "submitted", "failed", "error",
            "already_submitted", "canceled"}

RequestState ==
  [pc : Steps, pair : Pairs, key : Keys \cup {NoKey}, attempts : Nat,
   seen : Stages, next : Stages, outcome : Outcomes, reply : Replies]

NoRow   == [status |-> "none", key |-> NoKey]
NoRetry == [status |-> "none", attempts |-> 0]
Idle(reply) ==
  [pc |-> "idle", pair |-> CHOOSE p \in Pairs : TRUE, key |-> NoKey,
   attempts |-> 0, seen |-> Received, next |-> Received,
   outcome |-> "none", reply |-> reply]

\* Rows hold values of their enumerations, locks are held by handlers or nobody,
\* and what a handler remembers between statements is of the right kind.
TypeOK ==
  /\ stage \in [Apps -> Stages]
  /\ appStatus \in [Apps -> {"open", "SUBMITTED_TO_LENDER"}]
  /\ sub \in [Pairs -> [status : SubStatus, key : Keys \cup {NoKey}]]
  /\ retry \in [Pairs -> [status : RetryStatus, attempts : Nat]]
  /\ killSwitch \in BOOLEAN
  /\ inbox \in [Pairs -> Nat]
  /\ byHand \in SUBSET Pairs
  /\ advLock \in [Pairs -> Requests \cup {NoOne}]
  /\ appLock \in [Apps -> Requests \cup {NoOne}]
  /\ subLock \in [Pairs -> Requests \cup {NoOne}]
  /\ req \in [Requests -> RequestState]
  /\ calls \in Nat

Init ==
  /\ stage \in [Apps -> {Received, InReview, DocsRequired}]
  /\ appStatus = [a \in Apps |-> "open"]
  /\ sub = [p \in Pairs |-> NoRow]
  /\ retry = [p \in Pairs |-> NoRetry]
  /\ killSwitch = FALSE
  /\ inbox = [p \in Pairs |-> 0]
  /\ byHand = {}
  /\ advLock = [p \in Pairs |-> NoOne]
  /\ appLock = [a \in Apps |-> NoOne]
  /\ subLock = [p \in Pairs |-> NoOne]
  /\ req = [r \in Requests |-> Idle("none")]
  /\ calls = 0

(***************************************************************************)
(* Helpers.                                                                 *)
(***************************************************************************)
Free(lock, k, r) == lock[k] \in {NoOne, r}

\* The end of a transaction, by commit, rollback or a dropped connection:
\* PostgreSQL releases every lock the transaction holds.
ReleaseLocks(r) ==
  /\ advLock' = [p \in Pairs |-> IF advLock[p] = r THEN NoOne ELSE advLock[p]]
  /\ appLock' = [a \in Apps  |-> IF appLock[a] = r THEN NoOne ELSE appLock[a]]
  /\ subLock' = [p \in Pairs |-> IF subLock[p] = r THEN NoOne ELSE subLock[p]]

Reply(r, what) == req' = [req EXCEPT ![r] = Idle(what)]

\* Mutant: the error path forgets to end the transaction.
RollbackForgotten(r, what) == Reply(r, what) /\ UNCHANGED << dbVars, lockVars >>

\* catch (err) { rollback; throw }
Rollback(r, what) ==
  /\ Reply(r, what)
  /\ ReleaseLocks(r)
  /\ UNCHANGED dbVars

\* upsertSubmissionRetryState: one retry row for each submission.
SetRetry(p, status, n) == [retry EXCEPT ![p] = [status |-> status, attempts |-> n]]

\* recordSubmissionFailure counts a retryable failure and plans the next attempt.
CountFailure(p) == SetRetry(p, "pending", retry[p].attempts + 1)

\* The stage recordSubmissionFailure moves the application to.
FailureStage(outcome) == IF outcome = "retryable" THEN DocsRequired ELSE Rejected

\* The stages a handler asks transitionPipelineState for, in order, after the
\* lender answered; seen is the stage it read before the send.
TargetsAfter(outcome, seen) ==
  IF outcome = "accepted"
  THEN IF seen = DocsRequired THEN << InReview, OffToLender >> ELSE << OffToLender >>
  ELSE << FailureStage(outcome) >>

\* transitionPipelineState for each target in turn; an illegal one throws.
PathAllowed(from, targets) ==
  /\ TransitionAllowed(from, targets[1])
  /\ Len(targets) = 2 => TransitionAllowed(targets[1], targets[2])
LastOf(targets) == targets[Len(targets)]

\* Mutant: the lender's answer is not looked at.
SubmissionStatusBlind(outcome) == "submitted"

SubmissionStatus(outcome) == IF outcome = "accepted" THEN "submitted" ELSE "failed"

(***************************************************************************)
(* submitApplication.                                                       *)
(***************************************************************************)
SubmitStart(r, p, k) ==
  /\ req[r].pc = "idle" /\ calls < MaxCalls
  /\ calls' = calls + 1
  /\ IF killSwitch
     THEN Reply(r, "blocked")
     ELSE req' = [req EXCEPT ![r] = [Idle("none") EXCEPT !.pc = "advisory",
                                                        !.pair = p, !.key = k]]
  /\ UNCHANGED << dbVars, killSwitch, inbox, byHand, lockVars >>

SubmitAdvisory(r) ==
  LET p == req[r].pair IN
  /\ req[r].pc = "advisory"
  /\ Free(advLock, p, r)
  /\ advLock' = [advLock EXCEPT ![p] = r]
  /\ req' = [req EXCEPT ![r].pc = "rowLock"]
  /\ UNCHANGED << dbVars, killSwitch, inbox, byHand, appLock, subLock, calls >>

\* Mutant: a plain select, without for update.
SubmitRowNoLock(r) ==
  /\ req[r].pc = "rowLock"
  /\ req' = [req EXCEPT ![r].pc = "lookup"]
  /\ UNCHANGED << dbVars, killSwitch, inbox, byHand, lockVars, calls >>

\* select ... for update
SubmitRowLock(r) ==
  LET a == req[r].pair[1] IN
  /\ req[r].pc = "rowLock"
  /\ Free(appLock, a, r)
  /\ appLock' = [appLock EXCEPT ![a] = r]
  /\ req' = [req EXCEPT ![r].pc = "lookup"]
  /\ UNCHANGED << dbVars, killSwitch, inbox, byHand, advLock, subLock, calls >>

\* A committed submission answers this request: by its key, whatever the
\* application, or else by its application and lender.
AnswersSubmit(r, q) ==
  /\ sub[q].status # "none"
  /\ \/ req[r].key # NoKey /\ sub[q].key = req[r].key
     \/ q = req[r].pair

\* Lookup by key, then by pair; either hit commits and answers 200.
SubmitLookup(r) ==
  /\ req[r].pc = "lookup"
  /\ IF \E q \in Pairs : AnswersSubmit(r, q)
     THEN Reply(r, "idempotent") /\ ReleaseLocks(r)
     ELSE req' = [req EXCEPT ![r].pc = "insert"] /\ UNCHANGED lockVars
  /\ UNCHANGED << dbVars, killSwitch, inbox, byHand, calls >>

\* transmitSubmission refuses: wrong lender, or a stage it cannot send from.
Sendable(p) == /\ p[2] = LenderOf[p[1]]
               /\ stage[p[1]] \in {InReview, DocsRequired}

\* The insert waits for another handler's uncommitted row with the same pair
\* or key, and fails if a row with the same pair or key has been committed.
InsertFree(r) ==
  /\ Free(subLock, req[r].pair, r)
  /\ \A q \in Requests \ {r} :
       req[q].pc \in {"send", "finish"} => req[r].key = NoKey \/ req[q].key # req[r].key
\* Mutant: a table without its unique indexes.
DuplicateRowUnseen(r) == FALSE

DuplicateRow(r) ==
  \E q \in Pairs :
    /\ sub[q].status # "none"
    /\ q = req[r].pair \/ (req[r].key # NoKey /\ sub[q].key = req[r].key)

SubmitRefused(r) ==
  /\ req[r].pc = "insert"
  /\ \/ ~Sendable(req[r].pair)
     \/ Sendable(req[r].pair) /\ InsertFree(r) /\ DuplicateRow(r)
  /\ Rollback(r, "error")
  /\ UNCHANGED << killSwitch, inbox, byHand, calls >>

\* Required documents are missing: the failed submission is recorded without
\* calling the lender and the transaction commits.
SubmitMissingDocuments(r) ==
  LET p == req[r].pair IN
  /\ req[r].pc = "insert"
  /\ Sendable(p) /\ InsertFree(r) /\ ~DuplicateRow(r)
  /\ sub' = [sub EXCEPT ![p] = [status |-> "failed", key |-> req[r].key]]
  /\ retry' = CountFailure(p)
  /\ stage' = [stage EXCEPT ![p[1]] = DocsRequired]
  /\ Reply(r, "failed")
  /\ ReleaseLocks(r)
  /\ UNCHANGED << appStatus, killSwitch, inbox, byHand, calls >>

\* createSubmission: the pending row is inserted, not yet committed.
SubmitInsert(r) ==
  LET p == req[r].pair IN
  /\ req[r].pc = "insert"
  /\ Sendable(p) /\ InsertFree(r) /\ ~DuplicateRow(r)
  /\ subLock' = [subLock EXCEPT ![p] = r]
  /\ req' = [req EXCEPT ![r] = [@ EXCEPT !.pc = "send", !.seen = stage[p[1]]]]
  /\ UNCHANGED << dbVars, killSwitch, inbox, byHand, advLock, appLock, calls >>

\* sendToLender.  A failure the adapter reports may come after the lender got
\* the package (a lost answer).
LenderAnswers(r, outcome) ==
  LET p == req[r].pair IN
  /\ \E got \in (IF outcome = "accepted" THEN {1} ELSE {0, 1}) :
        inbox' = [inbox EXCEPT ![p] = @ + got]
  /\ UNCHANGED << dbVars, killSwitch, byHand, lockVars, calls >>

SubmitSend(r) ==
  /\ req[r].pc = "send"
  /\ \E outcome \in Outcomes \ {"none"} :
       /\ req' = [req EXCEPT ![r] = [@ EXCEPT !.pc = "finish", !.outcome = outcome]]
       /\ LenderAnswers(r, outcome)

\* What transmitSubmission and recordSubmissionFailure write once the lender
\* answered.  The application row is locked, so the stage is still the one
\* that was read.
SubmitFinish(r) ==
  LET p == req[r].pair
      o == req[r].outcome
      targets == TargetsAfter(o, req[r].seen) IN
  /\ req[r].pc = "finish"
  /\ IF PathAllowed(stage[p[1]], targets)
     THEN /\ stage' = [stage EXCEPT ![p[1]] = LastOf(targets)]
          /\ sub' = [sub EXCEPT ![p] = [status |-> SubmissionStatus(o), key |-> req[r].key]]
          /\ retry' = IF o = "retryable"
                      THEN CountFailure(p)
                      ELSE retry
          /\ appStatus' = IF o = "accepted"
                          THEN [appStatus EXCEPT ![p[1]] = "SUBMITTED_TO_LENDER"]
                          ELSE appStatus
          /\ Reply(r, SubmissionStatus(o))
          /\ ReleaseLocks(r)
     ELSE Rollback(r, "error")
  /\ UNCHANGED << killSwitch, inbox, byHand, calls >>

(***************************************************************************)
(* retrySubmission and retryExistingSubmission: no lock before the send.    *)
(***************************************************************************)
RetryStart(r, p) ==
  /\ req[r].pc = "idle" /\ calls < MaxCalls
  /\ calls' = calls + 1
  /\ IF killSwitch
     THEN Reply(r, "blocked")
     ELSE req' = [req EXCEPT ![r] = [Idle("none") EXCEPT !.pc = "read", !.pair = p]]
  /\ UNCHANGED << dbVars, killSwitch, inbox, byHand, lockVars >>

RetryRead(r) ==
  LET status == sub[req[r].pair].status IN
  /\ req[r].pc = "read"
  /\ \/ status = "none" /\ Reply(r, "error")
     \/ status = "submitted" /\ Reply(r, "already_submitted")
     \/ status = "failed" /\ req' = [req EXCEPT ![r].pc = "readAttempts"]
  /\ UNCHANGED << dbVars, killSwitch, inbox, byHand, lockVars, calls >>

RetryReadAttempts(r) ==
  LET n == retry[req[r].pair].attempts IN
  /\ req[r].pc = "readAttempts"
  /\ IF n >= MaxRetries
     THEN Reply(r, "error")     \* retry_exhausted
     ELSE req' = [req EXCEPT ![r] = [@ EXCEPT !.pc = "readApp", !.attempts = n]]
  /\ UNCHANGED << dbVars, killSwitch, inbox, byHand, lockVars, calls >>

RetryReadApp(r) ==
  /\ req[r].pc = "readApp"
  /\ req' = [req EXCEPT ![r] = [@ EXCEPT !.pc = "resend", !.seen = stage[req[r].pair[1]]]]
  /\ UNCHANGED << dbVars, killSwitch, inbox, byHand, lockVars, calls >>

RetrySend(r) ==
  /\ req[r].pc = "resend"
  /\ \E outcome \in Outcomes \ {"none"} :
       /\ req' = [req EXCEPT ![r] = [@ EXCEPT !.pc = "lockSub", !.outcome = outcome]]
       /\ LenderAnswers(r, outcome)

\* updateSubmissionStatus: the row lock is kept until the transaction ends.
RetryLockSub(r) ==
  LET p == req[r].pair IN
  /\ req[r].pc = "lockSub"
  /\ Free(subLock, p, r)
  /\ subLock' = [subLock EXCEPT ![p] = r]
  /\ req' = [req EXCEPT ![r].pc = "readStage"]
  /\ UNCHANGED << dbVars, killSwitch, inbox, byHand, advLock, appLock, calls >>

\* transitionPipelineState reads the stage, checks the move and only then
\* updates the row: the stage may change in between.
RetryReadStage(r) ==
  LET targets == TargetsAfter(req[r].outcome, req[r].seen)
      cur == stage[req[r].pair[1]] IN
  /\ req[r].pc = "readStage"
  /\ IF PathAllowed(cur, targets)
     THEN /\ req' = [req EXCEPT ![r] = [@ EXCEPT !.pc = "commit", !.seen = cur, !.next = LastOf(targets)]]
          /\ UNCHANGED << dbVars, lockVars >>
     ELSE Rollback(r, "error")
  /\ UNCHANGED << killSwitch, inbox, byHand, calls >>

\* A move to the stage just read is no move: the row is neither locked nor
\* written.
RetryCommit(r) ==
  LET p == req[r].pair
      o == req[r].outcome
      moves == req[r].seen # req[r].next IN
  /\ req[r].pc = "commit"
  /\ moves \/ o = "accepted" => Free(appLock, p[1], r)
  /\ stage' = IF moves THEN [stage EXCEPT ![p[1]] = req[r].next] ELSE stage
  /\ sub' = [sub EXCEPT ![p].status = SubmissionStatus(o)]
  /\ appStatus' = IF o = "accepted"
                  THEN [appStatus EXCEPT ![p[1]] = "SUBMITTED_TO_LENDER"]
                  ELSE appStatus
  /\ retry' = SetRetry(p, IF o = "accepted" THEN "succeeded" ELSE "pending",
                       req[r].attempts + 1)
  /\ Reply(r, SubmissionStatus(o))
  /\ ReleaseLocks(r)
  /\ UNCHANGED << killSwitch, inbox, byHand, calls >>

(***************************************************************************)
(* cancelSubmissionRetry.                                                   *)
(***************************************************************************)
CancelStart(r, p) ==
  /\ req[r].pc = "idle" /\ calls < MaxCalls
  /\ calls' = calls + 1
  /\ req' = [req EXCEPT ![r] = [Idle("none") EXCEPT !.pc = "cancelRead", !.pair = p]]
  /\ UNCHANGED << dbVars, killSwitch, inbox, byHand, lockVars >>

CancelRead(r) ==
  LET p == req[r].pair IN
  /\ req[r].pc = "cancelRead"
  /\ IF sub[p].status = "none" \/ retry[p].status = "none"
     THEN Reply(r, "error")
     ELSE req' = [req EXCEPT ![r] = [@ EXCEPT !.pc = "cancelCommit", !.attempts = retry[p].attempts]]
  /\ UNCHANGED << dbVars, killSwitch, inbox, byHand, lockVars, calls >>

CancelCommit(r) ==
  LET p == req[r].pair IN
  /\ req[r].pc = "cancelCommit"
  /\ retry' = SetRetry(p, "canceled", req[r].attempts)
  /\ Reply(r, "canceled")
  /\ UNCHANGED << stage, appStatus, sub, killSwitch, inbox, byHand, lockVars, calls >>

(***************************************************************************)
(* The surroundings: crashes, the operator's switch, staff working on the   *)
(* same application.                                                        *)
(***************************************************************************)
\* The connection or the process dies before the commit.
Crash(r) ==
  /\ req[r].pc # "idle"
  /\ Rollback(r, "none")
  /\ UNCHANGED << killSwitch, inbox, byHand, calls >>

SetKillSwitch(enabled) ==
  /\ killSwitch # enabled
  /\ killSwitch' = enabled
  /\ UNCHANGED << dbVars, inbox, byHand, lockVars, req, calls >>

\* A staff request moves the application legally, or acceptDocumentVersion
\* sends it back to review; the update waits for the row lock.
StaffMove(a, s) ==
  /\ appLock[a] = NoOne
  /\ \/ s \in LegalTransitions[stage[a]]
     \/ stage[a] = DocsRequired /\ s = InReview
  /\ stage' = [stage EXCEPT ![a] = s]
  /\ UNCHANGED << appStatus, sub, retry, killSwitch, inbox, byHand, lockVars, req, calls >>

\* POST /portal/lender-submissions: one upsert that marks the pair submitted
\* without calling the lender.  A new row's foreign key check waits for a
\* handler that holds the application row for update.
PortalMarkSubmitted(p) ==
  /\ subLock[p] = NoOne
  /\ sub[p].status = "none" => appLock[p[1]] = NoOne
  /\ sub' = [sub EXCEPT ![p].status = "submitted"]
  /\ byHand' = byHand \cup {p}
  /\ UNCHANGED << stage, appStatus, retry, killSwitch, inbox, lockVars, req, calls >>

HandlerStep(r) ==
  \/ SubmitAdvisory(r) \/ SubmitRowLock(r) \/ SubmitLookup(r)
  \/ SubmitRefused(r) \/ SubmitMissingDocuments(r) \/ SubmitInsert(r)
  \/ SubmitSend(r) \/ SubmitFinish(r)
  \/ RetryRead(r) \/ RetryReadAttempts(r) \/ RetryReadApp(r) \/ RetrySend(r)
  \/ RetryLockSub(r) \/ RetryReadStage(r) \/ RetryCommit(r)
  \/ CancelRead(r) \/ CancelCommit(r)

Next ==
  \/ \E r \in Requests :
       \/ HandlerStep(r)
       \/ Crash(r)
       \/ \E p \in Pairs, k \in Keys \cup {NoKey} : SubmitStart(r, p, k)
       \/ \E p \in Pairs : RetryStart(r, p) \/ CancelStart(r, p)
  \/ \E e \in BOOLEAN : SetKillSwitch(e)
  \/ \E a \in StaffApps, s \in Stages : StaffMove(a, s)
  \/ \E p \in StaffApps \X Lenders : PortalMarkSubmitted(p)

Spec == Init /\ [][Next]_vars
(***************************************************************************)
(* Fairness: a handler that can take its next statement eventually does (a  *)
(* running Node process keeps driving its promises, and PostgreSQL grants   *)
(* a free lock).  Nothing is assumed of callers, staff or crashes.          *)
(***************************************************************************)
Fairness == \A r \in Requests : WF_vars(HandlerStep(r))
FairSpec == Spec /\ Fairness

(***************************************************************************)
(* Properties.                                                              *)
(***************************************************************************)
\* An application or submission is recorded as submitted only if its lender
\* received the package, or staff marked the pair by hand in the portal,
\* whatever crashes, rollbacks and concurrent retries happened.
SubmittedMeansDelivered ==
  /\ \A p \in Pairs : sub[p].status = "submitted" => inbox[p] > 0 \/ p \in byHand
  /\ \A a \in Apps : appStatus[a] = "SUBMITTED_TO_LENDER" => inbox[<<a, LenderOf[a]>>] > 0

\* No other transaction records a submission for a pair that is being sent, and
\* no other submit of the application is talking to a lender.
SendOnlyUnrecorded ==
  \A r \in Requests :
    req[r].pc \in {"send", "finish"} =>
      /\ sub[req[r].pair].status = "none"
      /\ \A q \in Requests \ {r} :
           req[q].pc \in {"send", "finish"} => req[q].pair[1] # req[r].pair[1]

\* The stage submitApplication read before the lender call is still the
\* committed one when it acts on it after the call.
StageNotStaleInSubmit ==
  \A r \in Requests :
    req[r].pc \in {"send", "finish"} => req[r].seen = stage[req[r].pair[1]]

\* While submitApplication talks to the lender nobody else sends or records the
\* submission, and the stage it decided on stands: its locks hold across the
\* slow call.
SendIsIsolated == SendOnlyUnrecorded /\ StageNotStaleInSubmit

\* An idempotency key is spent at most once: among the committed submissions
\* and the submits that are talking to a lender, a key occurs once.
KeySpentOnce ==
  \A k \in Keys :
    LET rows  == {p \in Pairs : sub[p].status # "none" /\ sub[p].key = k}
        sends == {r \in Requests : req[r].pc \in {"send", "finish"} /\ req[r].key = k}
    IN  /\ \A p, q \in rows : p = q
        /\ \A r, s \in sends : r = s
        /\ rows = {} \/ sends = {}

\* The recorded number of attempts never exceeds config.lender.retry.maxCount,
\* although retries and cancels write back counts they read earlier.
AttemptsBounded == \A p \in Pairs : retry[p].attempts <= MaxRetries

\* The rows of lender_submissions and lender_submission_retries tell the truth,
\* whatever crashes and retries happened: they are well-formed, a package they
\* call submitted arrived, and their attempts keep within the limit.
RowsAreTrue == TypeOK /\ SubmittedMeansDelivered /\ AttemptsBounded

\* What the locks cover, what a handler may still rely on between its
\* statements, and what an absent row implies: the strengthening under which
\* the invariants above are inductive.
LocksHeld ==
  \A r \in Requests :
    /\ req[r].pc \in {"lookup", "insert", "send", "finish"} => appLock[req[r].pair[1]] = r
    /\ req[r].pc \in {"send", "finish"} => subLock[req[r].pair] = r

Retrying == {"readAttempts", "readApp", "resend", "lockSub", "readStage", "commit"}

HandlerFacts ==
  \A r \in Requests :
    /\ req[r].pc \in Retrying \cup {"cancelCommit"} => sub[req[r].pair].status # "none"
    /\ req[r].pc \in Retrying \cup {"send", "finish"} =>
         req[r].pair[2] = LenderOf[req[r].pair[1]]
    /\ req[r].pc \in Retrying \ {"readAttempts"} => req[r].attempts < MaxRetries
    /\ req[r].pc = "cancelCommit" => req[r].attempts <= MaxRetries
    /\ req[r].outcome = "accepted" => inbox[req[r].pair] > 0

RowFacts ==
  \A p \in Pairs :
    /\ sub[p].status = "none" => retry[p].attempts = 0 /\ sub[p].key = NoKey
    /\ sub[p].status = "failed" => p[2] = LenderOf[p[1]]

IInv ==
  /\ LocksHeld /\ HandlerFacts /\ RowFacts
  /\ SendOnlyUnrecorded /\ StageNotStaleInSubmit
  /\ AttemptsBounded /\ SubmittedMeansDelivered

\* README.md, "Lender transmission lifecycle": "On success, submissions are
\* logged ... and the application transitions to OFF_TO_LENDER."  A handler
\* that the lender accepted and that did not crash ends that way.
SuccessIsRecorded ==
  [][\A r \in Requests :
       (/\ req[r].outcome = "accepted"
        /\ req'[r].pc = "idle" /\ req'[r].reply # "none")
       => /\ sub'[req[r].pair].status = "submitted"
          /\ stage'[req[r].pair[1]] = OffToLender]_vars

\* Every request ends and gives its locks back: submits, retries, cancels and
\* portal marks never wait on each other in a circle.
RequestsEnd == \A r \in Requests : req[r].pc # "idle" ~> req[r].pc = "idle"
=============================================================================
