--------------------------- MODULE CreditSummaries ---------------------------
(***************************************************************************)
(* The credit summary of an application: one row of credit_summaries that   *)
(* is generated from the application's file, edited, generated again and    *)
(* submitted, its history in credit_summary_versions, and the stamp         *)
(* applications.credit_summary_completed_at that releases the submission.   *)
(*                                                                          *)
(* A request reads, upserts the row, appends the version and stamps the     *)
(* application in separate statements; requests of several members of the   *)
(* staff interleave.  A narrative is the case it words, or the edit.        *)
(***************************************************************************)
EXTENDS Integers, FiniteSets

CONSTANTS Authors,     \* requests in progress
          SummaryEdits, \* texts the staff writes
          MaxVersion   \* bound: versions of the summary

ASSUME CreditAssumption == MaxVersion \in Nat

VARIABLES file,      \* the application's data and documents
          creditRow, \* the row of credit_summaries, or NoSummary
          history,   \* rows of credit_summary_versions
          stamped,   \* credit_summary_completed_at is set
          author,    \* what a request has read and will write
          failed     \* versions whose history row was not written

creditVars == <<file, creditRow, history, stamped, author, failed>>

\* There is no row; its next version is the first.
NoSummary == [version |-> 0]

SectionNames == {"overview", "transaction", "business", "financial", "banking", "recommendation"}
Reasons == {"generated", "edited", "submitted"}
AuthorIdle == [at |-> "idle"]

-----------------------------------------------------------------------------
(* The engine: loadGenerationInputs and buildSectionsFromInputs.             *)

\* A number that is null, and fails every comparison made below.
NoValue == -1

\* What is read of the file: the counts of documents, the number analysed, who
\* applies and for how much.  The figures of the bank statements are not read.
LoadGenerationInputs ==
    [bankDocs |-> file.bankDocs, otherDocs |-> file.otherDocs, analysed |-> file.analysed,
     named |-> file.named, amount |-> file.amount, revenues |-> file.revenues,
     balance |-> NoValue, revenue |-> NoValue, nsf |-> NoValue]

BuildApplicationOverview(in) == IF in.named THEN "name" ELSE "the applicant"

BuildTransactionNarrative(in) ==
    IF in.amount = NoValue THEN "seeks an undisclosed amount" ELSE "seeks the amount"

BuildBusinessNarrative(in) == IF in.named THEN "name operates" ELSE "the business operates"

BuildFinancialOverview(in) == IF in.revenues THEN "revenue reported" ELSE "not extracted"

BuildBankingAnalysis(in) ==
    CASE in.analysed > 0 /\ (in.balance # NoValue \/ in.revenue # NoValue) -> "analysed"
      [] (in.analysed = 0 \/ (in.balance = NoValue /\ in.revenue = NoValue)) /\ in.bankDocs > 0 -> "pending"
      [] OTHER -> "request statements"

BuildRecommendation(in) ==
    CASE in.bankDocs + in.otherDocs = 0 -> "needs more info"
      [] /\ in.bankDocs + in.otherDocs > 0
         /\ in.nsf >= 3 \/ (in.revenue > 0 /\ in.amount > in.revenue * 24) -> "review"
      [] OTHER -> "continue to lender match"

BuildSectionsFromInputs(in) ==
    [overview |-> BuildApplicationOverview(in),
     transaction |-> BuildTransactionNarrative(in),
     business |-> BuildBusinessNarrative(in),
     financial |-> BuildFinancialOverview(in),
     banking |-> BuildBankingAnalysis(in),
     recommendation |-> BuildRecommendation(in)]

\* The legacy body replaces the narratives it has over a generated base.
MapLegacy(base, edit, keys) == [s \in SectionNames |-> IF s \in keys THEN edit ELSE base[s]]

-----------------------------------------------------------------------------
CreditInit ==
    /\ file = [bankDocs |-> 0, otherDocs |-> 0, analysed |-> 0,
               named |-> TRUE, amount |-> 1, revenues |-> FALSE]
    /\ creditRow = NoSummary
    /\ history = {} /\ failed = {}
    /\ stamped = FALSE
    /\ author = [a \in Authors |-> AuthorIdle]

\* The file grows beside the requests.
FileGrows ==
    /\ file.bankDocs = 0
    /\ file' = [file EXCEPT !.bankDocs = 1]
    /\ UNCHANGED <<creditRow, history, stamped, author, failed>>

-----------------------------------------------------------------------------
(* A request reads, and plans what upsertGenerated will write.                *)

Plan(a, sections, in, reason) ==
    author' = [author EXCEPT ![a] =
                 [at |-> "upsert", sections |-> sections, inputs |-> in, reason |-> reason]]

Reads(a) == /\ author[a] = AuthorIdle
            /\ UNCHANGED <<file, creditRow, history, stamped, failed>>

\* GET: an existing summary is returned, otherwise one is generated.
GetSummary(a) ==
    /\ Reads(a)
    /\ creditRow = NoSummary
    /\ Plan(a, BuildSectionsFromInputs(LoadGenerationInputs), LoadGenerationInputs, "generated")

\* POST /: the whole sections, the legacy body, or nothing.
SaveSummary(a) ==
    /\ Reads(a)
    /\ \/ \E e \in SummaryEdits : Plan(a, [s \in SectionNames |-> e], LoadGenerationInputs, "edited")
       \/ \E e \in SummaryEdits, keys \in {{"banking", "recommendation"}} :
             Plan(a, MapLegacy(BuildSectionsFromInputs(LoadGenerationInputs), e, keys), LoadGenerationInputs, "edited")
       \/ Plan(a, BuildSectionsFromInputs(LoadGenerationInputs), LoadGenerationInputs, "generated")

Regenerate(a) ==
    /\ Reads(a)
    /\ Plan(a, BuildSectionsFromInputs(LoadGenerationInputs), LoadGenerationInputs, "generated")

\* POST /submit: the sections as read, the inputs as they are now.
SubmitSummary(a) ==
    /\ Reads(a)
    /\ creditRow # NoSummary
    /\ author' = [author EXCEPT ![a] = [at |-> "load", sections |-> creditRow.sections]]

LoadForSubmit(a) ==
    /\ author[a].at = "load"
    /\ Plan(a, author[a].sections, LoadGenerationInputs, "submitted")
    /\ UNCHANGED <<file, creditRow, history, stamped, failed>>

-----------------------------------------------------------------------------
(* upsertGenerated.                                                          *)

NextStatus(row, reason) ==
    CASE reason = "submitted" -> "submitted"
      [] reason # "submitted" /\ row # NoSummary -> row.status
      [] OTHER -> "draft"

CurrentVersion == creditRow.version

Upsert(a) ==
    /\ author[a].at = "upsert"
    /\ CurrentVersion < MaxVersion
    /\ creditRow' = [sections |-> author[a].sections, inputs |-> author[a].inputs,
                     version |-> CurrentVersion + 1,
                     status |-> NextStatus(creditRow, author[a].reason)]
    /\ author' = [author EXCEPT ![a] = [at |-> "append", version |-> CurrentVersion + 1,
                    sections |-> @.sections, inputs |-> @.inputs, reason |-> @.reason]]
    /\ UNCHANGED <<file, history, stamped, failed>>

\* Mutant: the history row takes the number the summary has by now.
NumberByNow(a) == CurrentVersion

VersionNumber(a) == author[a].version

AppendVersion(a) ==
    /\ author[a].at = "append"
    /\ history' = history \cup
         {[version |-> VersionNumber(a), sections |-> author[a].sections,
           inputs |-> author[a].inputs, reason |-> author[a].reason]}
    /\ author' = [author EXCEPT ![a] =
                    IF @.reason = "submitted" THEN [at |-> "stamp"] ELSE AuthorIdle]
    /\ UNCHANGED <<file, creditRow, stamped, failed>>

\* The INSERT fails: the request fails, the row stays as upserted.
AppendFails(a) ==
    /\ author[a].at = "append"
    /\ failed' = failed \cup {author[a].version}
    /\ author' = [author EXCEPT ![a] = AuthorIdle]
    /\ UNCHANGED <<file, creditRow, history, stamped>>

\* The UPDATE of the application; its failure is ignored.
Stamp(a) ==
    /\ author[a].at = "stamp"
    /\ stamped' \in {TRUE, stamped}
    /\ author' = [author EXCEPT ![a] = AuthorIdle]
    /\ UNCHANGED <<file, creditRow, history, failed>>

CreditNext ==
    \/ \E a \in Authors :
          \/ GetSummary(a) \/ SaveSummary(a) \/ Regenerate(a) \/ SubmitSummary(a)
          \/ LoadForSubmit(a) \/ Upsert(a) \/ AppendVersion(a) \/ AppendFails(a) \/ Stamp(a)
    \/ FileGrows

CreditSpec == CreditInit /\ [][CreditNext]_creditVars

CreditTypeOK ==
    /\ CurrentVersion \in 0 .. MaxVersion
    /\ creditRow # NoSummary => creditRow.status \in {"draft", "submitted"}
    /\ \A v \in history : v.version \in 1 .. MaxVersion /\ v.reason \in Reasons
    /\ stamped \in BOOLEAN

-----------------------------------------------------------------------------
(* Properties.                                                               *)

InProgress == {author[a].version : a \in {b \in Authors : author[b].at = "append"}}

\* However requests overlap, each version has one row in the history, unless
\* its request is under way or failed, and the newest row is what the summary
\* says: a text that a racing GET, regeneration or submission overwrites can
\* be found.
HistoryIsComplete ==
    /\ \A v, w \in history : v.version = w.version => v = w
    /\ \A n \in 1 .. CurrentVersion :
          n \in InProgress \cup failed \cup {v.version : v \in history}
    /\ \A v \in history :
          v.version = CurrentVersion =>
             v.sections = creditRow.sections /\ v.inputs = creditRow.inputs

\* The stamp that releases the submission is only on an application whose
\* summary is submitted, and the history says which version was: neither an
\* edit, nor a regeneration, nor a GET that found no summary takes the
\* submission back.
StampIsBacked ==
    stamped => /\ creditRow # NoSummary /\ creditRow.status = "submitted"
               /\ \E v \in history : v.reason = "submitted"
=============================================================================
