--------------------------- MODULE BankingAnalysis ---------------------------
(***************************************************************************)
(* The banking analysis of one application: the polling worker of every    *)
(* process (workers/bankingAutoWorker.ts), the staff's manual run          *)
(* (routes/banking.ts), the administrator's retry                          *)
(* (applications.routes.ts) and the pipeline they share                    *)
(* (services/banking/bankingAnalysisPipeline.ts).                          *)
(*                                                                         *)
(* The row of banking_analyses is no lock: the worker polls, then runs, and*)
(* every statement of the pipeline commits by itself.  A transaction is    *)
(* abstracted to the document it was read from; a document yields all of   *)
(* its transactions or none.                                               *)
(***************************************************************************)
EXTENDS Naturals, FiniteSets

CONSTANTS
    BankWorkers,     \* server processes, each with one ticking worker
    BankStaff,       \* requests that run the analysis by hand
    Statements,      \* documents whose category or type contains "bank"
    OtherDocs,       \* documents of another category
    MaxBankAttempts, \* max_attempts of the row (3)
    MaxBankRetries,      \* bound on the administrator's retries
    MaxLost          \* bound on the crashes and lost failure reports of workers

ASSUME BankAssumption ==
    /\ IsFiniteSet(BankWorkers)
    /\ BankWorkers \intersect BankStaff = {} /\ Statements \intersect OtherDocs = {}
    /\ MaxBankAttempts \in Nat \ {0} /\ MaxBankRetries \in Nat /\ MaxLost \in Nat

VARIABLES
    bankRow,      \* the row of banking_analyses; backoff: next_attempt_at is ahead
    ocrDone,      \* documents with ocr_status = 'completed'
    bankRun,      \* runner -> its place in the pipeline and what it read
    txns,         \* document -> copies of its transactions in banking_transactions
    summary,      \* the monthly summaries: the copies they were summed over
    mirrored,     \* documents with banking_status = 'completed'
    bankedAt,     \* applications.banking_completed_at is set
    retries,      \* administrator's retries so far
    lost,         \* crashes and lost failure reports so far
    overlapped,   \* two runs were inside the pipeline together
    abandoned     \* a run ended without leaving 'in_progress'

bankVars == <<bankRow, ocrDone, bankRun, txns, summary, mirrored, bankedAt, retries, lost,
              overlapped, abandoned>>

BankRunners == BankWorkers \union BankStaff

BankDocs == Statements \union OtherDocs

Inside == {"clear", "analyse", "insert", "aggregate", "persist"}

Idling == [pc |-> "idle", docs |-> {}, ready |-> {}]

BankTypeOK ==
    /\ bankRow \in [status: {"none", "pending", "in_progress", "analysis_complete", "failed"},
                    attempts: 0..(MaxBankAttempts + Cardinality(BankWorkers)), backoff: BOOLEAN]
    /\ ocrDone \subseteq BankDocs /\ mirrored \subseteq BankDocs
    /\ bankRun \in [BankRunners -> [pc: {"idle", "read", "mark", "done"} \union Inside
                                         \union {"mirror"},
                                    docs: SUBSET BankDocs, ready: SUBSET BankDocs]]
    /\ txns \in [BankDocs -> Nat] /\ summary \in [BankDocs -> Nat]
    /\ bankedAt \in BOOLEAN /\ retries \in 0..MaxBankRetries /\ lost \in 0..MaxLost
    /\ overlapped \in BOOLEAN /\ abandoned \in BOOLEAN

Step(r, from, to) == bankRun[r].pc = from /\ bankRun' = [bankRun EXCEPT ![r].pc = to]

----------------------------------------------------------------------------
(* Who runs the pipeline *)

\* External: the OCR of a document completes.
OcrCompletes(d) ==
    /\ d \notin ocrDone
    /\ ocrDone' = ocrDone \union {d}
    /\ UNCHANGED <<bankRow, bankRun, txns, summary, mirrored, bankedAt, retries, lost, overlapped, abandoned>>

\* Mutant: the poll takes up failed rows however often they failed.
DueForEver == bankRow.status \in {"none", "pending"} \/ (bankRow.status = "failed" /\ ~bankRow.backoff)

\* The poll's NOT EXISTS: the row is absent, pending, or failed with attempts
\* left and its backoff over.
Due == \/ bankRow.status \in {"none", "pending"}
       \/ bankRow.status = "failed" /\ ~bankRow.backoff /\ bankRow.attempts < MaxBankAttempts

\* tick: the poll finds the application; the run follows later.
PollBanking(w) ==
    /\ bankRun[w].pc = "idle"
    /\ Statements \intersect ocrDone # {} /\ Due
    /\ bankRun' = [bankRun EXCEPT ![w].pc = "read"]
    /\ UNCHANGED <<bankRow, ocrDone, txns, summary, mirrored, bankedAt, retries, lost, overlapped, abandoned>>

\* The manual run asks only for one document with its OCR completed.
RunByHand(m) ==
    /\ bankRun[m].pc = "idle" /\ ocrDone # {}
    /\ bankRun' = [bankRun EXCEPT ![m] = [pc |-> "read", docs |-> {}, ready |-> ocrDone]]
    /\ UNCHANGED <<bankRow, ocrDone, txns, summary, mirrored, bankedAt, retries, lost, overlapped, abandoned>>

\* The administrator's retry: pending, attempts zero, whatever the status was.
RetryBanking ==
    /\ retries < MaxBankRetries
    /\ retries' = retries + 1
    /\ bankRow' = [status |-> "pending", attempts |-> 0, backoff |-> FALSE]
    /\ UNCHANGED <<ocrDone, bankRun, txns, summary, mirrored, bankedAt, lost, overlapped, abandoned>>

BackoffEnds ==
    /\ bankRow.backoff
    /\ bankRow' = [bankRow EXCEPT !.backoff = FALSE]
    /\ UNCHANGED <<ocrDone, bankRun, txns, summary, mirrored, bankedAt, retries, lost, overlapped, abandoned>>

----------------------------------------------------------------------------
(* runBankingAnalysis *)

\* The application and its bank documents are read, OCR completed or not.
ReadStatements(r) ==
    /\ bankRun[r].pc = "read"
    /\ bankRun' = [bankRun EXCEPT ![r] = [@ EXCEPT !.pc = "mark", !.docs = Statements]]
    /\ UNCHANGED <<bankRow, ocrDone, txns, summary, mirrored, bankedAt, retries, lost, overlapped, abandoned>>

MarkInProgress(r) ==
    /\ Step(r, "mark", "clear")
    /\ bankRow' = [bankRow EXCEPT !.status = "in_progress"]
    /\ overlapped' = (overlapped \/ \E q \in BankRunners \ {r} : bankRun[q].pc \in Inside)
    /\ UNCHANGED <<ocrDone, txns, summary, mirrored, bankedAt, retries, lost, abandoned>>

\* The two DELETEs.
ClearTransactions(r) ==
    /\ Step(r, "clear", "analyse")
    /\ txns' = [d \in BankDocs |-> 0]
    /\ summary' = [d \in BankDocs |-> 0]
    /\ UNCHANGED <<bankRow, ocrDone, mirrored, bankedAt, retries, lost, overlapped, abandoned>>

\* Each document is fetched and put through the chain of models; one that fails
\* in every model, or whose file is missing, is passed over.
AnalyseStatements(r) ==
    /\ bankRun[r].pc = "analyse"
    /\ \E found \in SUBSET bankRun[r].docs :
          bankRun' = [bankRun EXCEPT ![r] = [@ EXCEPT !.pc = IF found = {} THEN "aggregate" ELSE "insert",
                                     !.docs = found]]
    /\ UNCHANGED <<bankRow, ocrDone, txns, summary, mirrored, bankedAt, retries, lost, overlapped, abandoned>>

InsertTransactions(r) ==
    /\ Step(r, "insert", "aggregate")
    /\ txns' = [d \in BankDocs |-> IF d \in bankRun[r].docs THEN txns[d] + 1 ELSE txns[d]]
    /\ UNCHANGED <<bankRow, ocrDone, summary, mirrored, bankedAt, retries, lost, overlapped, abandoned>>

\* The summaries are summed over the table, whoever filled it.
AggregateMonthlySummaries(r) ==
    /\ Step(r, "aggregate", "persist")
    /\ summary' = txns
    /\ UNCHANGED <<bankRow, ocrDone, txns, mirrored, bankedAt, retries, lost, overlapped, abandoned>>

\* persistAnalysis and the UPDATE after it: both write analysis_complete.
PersistAnalysis(r) ==
    /\ Step(r, "persist", "mirror")
    /\ bankRow' = [bankRow EXCEPT !.status = "analysis_complete"]
    /\ UNCHANGED <<ocrDone, txns, summary, mirrored, bankedAt, retries, lost, overlapped, abandoned>>

\* banking_completed_at is stamped; then the worker marks the bank documents, the
\* manual run every document with its OCR completed, analysed or not (and ignores
\* a failure).
MirrorDocuments(r) ==
    /\ bankRun[r].pc = "mirror"
    /\ bankRun' = [bankRun EXCEPT ![r] = IF r \in BankWorkers THEN Idling ELSE [@ EXCEPT !.pc = "done"]]
    /\ mirrored' \in IF r \in BankWorkers THEN {mirrored \union Statements}
                                          ELSE {mirrored, mirrored \union ocrDone}
    /\ bankedAt' = TRUE
    /\ UNCHANGED <<bankRow, ocrDone, txns, summary, retries, lost, overlapped, abandoned>>

----------------------------------------------------------------------------
(* Failures *)

Running(r) == bankRun[r].pc \notin {"idle", "done"}

Stops(r) == bankRun' = [bankRun EXCEPT ![r] = IF r \in BankWorkers THEN Idling ELSE [@ EXCEPT !.pc = "done"]]

\* Nobody writes the row: if it says in_progress, the poll passes over it.
LeavesRow(r) ==
    /\ Stops(r)
    /\ abandoned' = (abandoned \/ bankRun[r].pc \in Inside)
    /\ UNCHANGED bankRow

\* Mutant: the worker only logs the failure.
LogFailure(w) == Stops(w) /\ UNCHANGED <<bankRow, abandoned>>

\* The worker's catch: failed, one attempt more, a new backoff.
WriteFailed(w) ==
    /\ Stops(w)
    /\ bankRow' = [status |-> "failed", attempts |-> bankRow.attempts + 1, backoff |-> TRUE]
    /\ UNCHANGED abandoned

\* A statement fails: the worker writes the row, the manual run answers 500.
BankingFails(r) ==
    /\ Running(r)
    /\ IF r \in BankWorkers THEN WriteFailed(r) ELSE LeavesRow(r)
    /\ UNCHANGED <<ocrDone, txns, summary, mirrored, bankedAt, retries, lost, overlapped>>

\* The worker's process dies, or its write of the failure fails too, which the
\* code ignores.
ReportLost(w) ==
    /\ Running(w) /\ lost < MaxLost
    /\ lost' = lost + 1
    /\ LeavesRow(w)
    /\ UNCHANGED <<ocrDone, txns, summary, mirrored, bankedAt, retries, overlapped>>

----------------------------------------------------------------------------
BankInit ==
    /\ bankRow = [status |-> "none", attempts |-> 0, backoff |-> FALSE]
    /\ ocrDone = {} /\ mirrored = {} /\ bankedAt = FALSE /\ retries = 0 /\ lost = 0
    /\ bankRun = [r \in BankRunners |-> Idling]
    /\ txns = [d \in BankDocs |-> 0] /\ summary = [d \in BankDocs |-> 0]
    /\ overlapped = FALSE /\ abandoned = FALSE

PipelineStep(r) ==
    \/ ReadStatements(r) \/ MarkInProgress(r) \/ ClearTransactions(r) \/ AnalyseStatements(r)
    \/ InsertTransactions(r) \/ AggregateMonthlySummaries(r) \/ PersistAnalysis(r)
    \/ MirrorDocuments(r)

BankNext ==
    \/ \E d \in BankDocs : OcrCompletes(d)
    \/ \E w \in BankWorkers : PollBanking(w) \/ ReportLost(w)
    \/ \E m \in BankStaff : RunByHand(m)
    \/ RetryBanking \/ BackoffEnds
    \/ \E r \in BankRunners : PipelineStep(r) \/ BankingFails(r)

BankSpec == BankInit /\ [][BankNext]_bankVars

----------------------------------------------------------------------------
(* What the staff sees: GET /:id/banking-analysis *)

BankingReport ==
    [status |-> CASE bankRow.status # "none" -> bankRow.status
                  [] Statements = {} -> "no_bank_statements"
                  [] OTHER -> IF Statements \subseteq mirrored THEN "analysis_complete"
                                                               ELSE "analysis_in_progress",
     completed |-> bankedAt,
     documentsAnalyzed |-> Statements \intersect mirrored,
     monthGroups |-> summary]

----------------------------------------------------------------------------
(* Properties *)

\* An analysis shown as complete counts every statement at most once, and its
\* months are those of the transactions in the table, after any number of
\* failures, retries and second runs, unless two runs were inside the pipeline
\* together (the row is no lock, so the code does not exclude that).
AnalysisIsWhole ==
    BankingReport.status = "analysis_complete" /\ ~overlapped =>
        /\ \A d \in BankDocs : txns[d] <= 1
        /\ BankingReport.monthGroups = txns

\* Attempts end: max_attempts is passed by no more than the workers that had
\* polled before the last allowed failure was written.
BankAttemptsBounded == bankRow.attempts <= MaxBankAttempts + Cardinality(BankWorkers) - 1

\* A statement with its OCR completed is analysed, or its attempts are used up,
\* or a run left the row in_progress (a crash, a failed manual run): from then
\* on only a person can free it.
BankingSettles ==
    Statements \intersect ocrDone # {} ~>
        \/ bankRow.status = "analysis_complete"
        \/ bankRow.status = "failed" /\ bankRow.attempts >= MaxBankAttempts
        \/ abandoned

\* The comment at routes/banking.ts:22 says the manual run works on "ALL
\* OCR-complete docs on the application, regardless of category tag".
ManualRunTakesAll ==
    \A m \in BankStaff : bankRun[m].pc = "clear" => bankRun[m].ready \subseteq bankRun[m].docs
=============================================================================
