------------------------------ MODULE OpsJobs ------------------------------
(***************************************************************************)
(* The operator's tools: kill switches, replay jobs and exports.            *)
(*                                                                          *)
(* POST /replay/:scope inserts a job and starts it in the background of the *)
(* process; the job marks every row of its scope in ops_replay_events,      *)
(* batch by batch, and looks at the kill switch before each.  Jobs of one   *)
(* scope may run side by side, in several processes, while rows are added   *)
(* and switches are turned; a process that dies takes its jobs with it.     *)
(* An export looks at its switch, writes its audit row and streams.         *)
(***************************************************************************)
EXTENDS Integers, FiniteSets

CONSTANTS ReplayJobs,  \* jobs the operator may start
          Sources,     \* rows of the table a job replays
          BatchSize,   \* BATCH_SIZE
          Exports,     \* export requests
          MaxTurns     \* bound: how often a switch is turned

ASSUME OpsAssumption == BatchSize \in Nat \ {0} /\ MaxTurns \in Nat

SwitchKeys == {"replay", "exports"}

VARIABLES killSwitch, \* ops_kill_switches
          turns,      \* how often a switch was turned
          present,    \* rows of the table
          replayJob,  \* ops_replay_jobs: status
          replayAt,   \* where the background task of a job is
          batch,      \* the ids a task has fetched
          promised,   \* rows present when the job was started
          marked,     \* ops_replay_events: job of a marked row
          overrun,    \* batches a job wrote since the switch is on
          unwritten,  \* jobs whose row was not told how they ended
          exportAt,   \* where an export is
          exportAudit, handed \* exports with an audit row; exports that gave data out

opsVars == <<killSwitch, turns, present, replayJob, replayAt, batch, promised, marked, overrun,
             unwritten, exportAt, exportAudit, handed>>

replayVars == <<replayJob, replayAt, batch, promised, marked, overrun, unwritten>>
exportVars == <<exportAt, exportAudit, handed>>

ReplayStatus == {"none", "queued", "running", "aborted", "completed", "failed"}

\* Where a task is in its work, and where else it can be.
Working == {"first", "look", "abort", "fetch", "write", "complete"}
ReplayPlaces == Working \cup {"none", "audit", "start", "catch", "dead"}

OpsTypeOK ==
    /\ killSwitch \in [SwitchKeys -> BOOLEAN] /\ turns \in 0 .. MaxTurns
    /\ present \subseteq Sources /\ marked \subseteq Sources
    /\ replayJob \in [ReplayJobs -> ReplayStatus]
    /\ replayAt \in [ReplayJobs -> ReplayPlaces] /\ unwritten \subseteq ReplayJobs
    /\ batch \in [ReplayJobs -> SUBSET Sources]
    /\ promised \in [ReplayJobs -> SUBSET Sources]
    /\ exportAt \in [Exports -> {"none", "audit", "run", "confirm", "answer", "success", "failure", "both"}]

OpsInit ==
    /\ killSwitch \in [SwitchKeys -> BOOLEAN] /\ turns = 0
    /\ \E s \in Sources : present = Sources \ {s}
    /\ replayJob = [j \in ReplayJobs |-> "none"]
    /\ replayAt = [j \in ReplayJobs |-> "none"]
    /\ batch = [j \in ReplayJobs |-> {}]
    /\ promised = [j \in ReplayJobs |-> {}]
    /\ marked = {}
    /\ overrun = [j \in ReplayJobs |-> 0] /\ unwritten = {}
    /\ exportAt = [e \in Exports |-> "none"]
    /\ exportAudit = {} /\ handed = {}

-----------------------------------------------------------------------------
(* Kill switches.                                                            *)

IsKillSwitchEnabled(key) == killSwitch[key]

SetKillSwitch(key, enabled) ==
    /\ killSwitch[key] # enabled
    /\ turns < MaxTurns
    /\ killSwitch' = [killSwitch EXCEPT ![key] = enabled]
    /\ turns' = turns + 1
    /\ overrun' = IF key = "replay" THEN [j \in ReplayJobs |-> 0] ELSE overrun
    /\ UNCHANGED <<present, replayJob, replayAt, batch, promised, marked, unwritten>>
    /\ UNCHANGED exportVars

-----------------------------------------------------------------------------
(* Replay.                                                                   *)

\* A row is added to the table.
SourceAppears ==
    /\ \E s \in Sources \ present : present' = present \cup {s}
    /\ UNCHANGED <<killSwitch, turns>> /\ UNCHANGED replayVars /\ UNCHANGED exportVars

Moves(j, from, to) == replayAt[j] = from /\ replayAt' = [replayAt EXCEPT ![j] = to]

OthersStay == UNCHANGED <<killSwitch, turns, present>> /\ UNCHANGED exportVars

\* The row is inserted, unless its answer is lost, and the request goes on to its
\* audit row.  A job that is over leaves its name to the next.
CreateReplayJob(j) ==
    /\ \/ Moves(j, "none", "audit") /\ unwritten' = unwritten \ {j}
       \/ replayAt[j] = "none" /\ UNCHANGED replayAt /\ unwritten' = unwritten \cup {j}
    /\ replayJob' = [replayJob EXCEPT ![j] = "queued"]
    /\ promised' = [promised EXCEPT ![j] = present]
    /\ UNCHANGED <<batch, marked, overrun>> /\ OthersStay

\* The audit row is written: setImmediate starts the task.
RecordReplayStarted(j) ==
    /\ Moves(j, "audit", "start")
    /\ UNCHANGED <<replayJob, batch, promised, marked, overrun, unwritten>> /\ OthersStay

\* What an UPDATE of the job writes.
Written == [start |-> "running", abort |-> "aborted", complete |-> "completed", catch |-> "failed"]

\* An UPDATE of the job, after which its task goes on or is over.
Updates(j, from, to) ==
    /\ Moves(j, from, to)
    /\ replayJob' = [replayJob EXCEPT ![j] = Written[from]]
    /\ UNCHANGED <<batch, promised, marked, overrun, unwritten>> /\ OthersStay

StartReplayJob(j) == Updates(j, "start", "first")

\* The switch is looked at before the loop and before every batch.
LookAtSwitch(j) ==
    \E from \in {"first", "look"} :
        /\ Moves(j, from, IF IsKillSwitchEnabled("replay") THEN "abort"
                          ELSE IF from = "first" THEN "look" ELSE "fetch")
        /\ UNCHANGED <<replayJob, batch, promised, marked, overrun, unwritten>> /\ OthersStay

AbortReplayJob(j) == Updates(j, "abort", "none")

\* Mutant: a batch that is not full is taken for the end.
PartialIsEnd(ids) == Cardinality(ids) < BatchSize

EndOfScope(ids) == ids = {}

FetchBatch(j) ==
    \E ids \in SUBSET (present \ marked) :
        /\ replayAt[j] = "fetch"
        /\ Cardinality(ids) <= BatchSize
        /\ Cardinality(ids) < BatchSize => ids = present \ marked
        /\ replayAt' = [replayAt EXCEPT ![j] = IF EndOfScope(ids) THEN "complete" ELSE "write"]
        /\ batch' = [batch EXCEPT ![j] = IF EndOfScope(ids) THEN {} ELSE ids]
        /\ UNCHANGED <<replayJob, promised, marked, overrun, unwritten>> /\ OthersStay

\* insert ... on conflict (source_table, source_id) do nothing
MarkBatch(j) ==
    /\ marked' = marked \cup batch[j]
    /\ overrun' = IF killSwitch["replay"] THEN [overrun EXCEPT ![j] = @ + 1] ELSE overrun

InsertReplayEvents(j) ==
    /\ Moves(j, "write", "look")
    /\ MarkBatch(j)
    /\ batch' = [batch EXCEPT ![j] = {}]
    /\ UNCHANGED <<replayJob, promised, unwritten>> /\ OthersStay

CompleteReplayJob(j) == Updates(j, "complete", "none")

\* A statement without an answer may have been carried out.
Unanswered(j) ==
    \/ UNCHANGED <<replayJob, marked, overrun>>
    \/ /\ replayAt[j] \in DOMAIN Written
       /\ replayJob' = [replayJob EXCEPT ![j] = Written[replayAt[j]]]
       /\ UNCHANGED <<marked, overrun>>
    \/ replayAt[j] = "write" /\ MarkBatch(j) /\ UNCHANGED replayJob

\* A statement fails.  While the task works the catch marks the job failed; an
\* audit row, the UPDATE to running and the one to failed have no catch.
ReplayFails(j) ==
    /\ replayAt[j] \notin {"none", "dead"}
    /\ Unanswered(j)
    /\ replayAt' = [replayAt EXCEPT ![j] = IF replayAt[j] \in Working THEN "catch" ELSE "none"]
    /\ unwritten' = IF replayAt[j] \in Working THEN unwritten ELSE unwritten \cup {j}
    /\ batch' = [batch EXCEPT ![j] = {}]
    /\ UNCHANGED promised /\ OthersStay

FailReplayJob(j) == Updates(j, "catch", "none")

\* The process ends; nothing takes its job up again.
ReplayDies(j) ==
    /\ replayAt[j] \notin {"none", "dead"}
    /\ Unanswered(j)
    /\ replayAt' = [replayAt EXCEPT ![j] = "dead"]
    /\ batch' = [batch EXCEPT ![j] = {}]
    /\ UNCHANGED <<promised, unwritten>> /\ OthersStay

RunReplayJob(j) ==
    \/ RecordReplayStarted(j) \/ StartReplayJob(j) \/ LookAtSwitch(j) \/ AbortReplayJob(j)
    \/ FetchBatch(j) \/ InsertReplayEvents(j) \/ CompleteReplayJob(j)
    \/ ReplayFails(j) \/ FailReplayJob(j)

-----------------------------------------------------------------------------
(* Exports.                                                                  *)

ExportMoves(e, from, to) == exportAt[e] = from /\ exportAt' = [exportAt EXCEPT ![e] = to]

ReplayStays == UNCHANGED <<killSwitch, turns, present>> /\ UNCHANGED replayVars

\* assertExportsEnabled and parseFilters: a refusal is audited as a failure.
AssertExportsEnabled(e) ==
    /\ \/ ~IsKillSwitchEnabled("exports") /\ ExportMoves(e, "none", "audit")
       \/ ExportMoves(e, "none", "failure")
    /\ UNCHANGED <<exportAudit, handed>> /\ ReplayStays

RecordExportAudit(e) ==
    /\ \/ ExportMoves(e, "audit", "run") /\ exportAudit' = exportAudit \cup {e}
       \/ ExportMoves(e, "audit", "failure") /\ UNCHANGED exportAudit
    /\ UNCHANGED handed /\ ReplayStays

\* As JSON the rows are answered after the second audit event; as CSV they are
\* streamed before it, and a query that fails half way has given rows out.
StreamRows(e) ==
    /\ \/ ExportMoves(e, "run", "answer") /\ handed' = handed \cup {e}
       \/ ExportMoves(e, "run", "failure") /\ handed' \in {handed, handed \cup {e}}
       \/ ExportMoves(e, "run", "confirm") /\ UNCHANGED handed
    /\ UNCHANGED exportAudit /\ ReplayStays

AnswerJson(e) ==
    /\ \/ ExportMoves(e, "confirm", "success") /\ handed' = handed \cup {e}
       \/ ExportMoves(e, "confirm", "failure") /\ UNCHANGED handed
    /\ UNCHANGED exportAudit /\ ReplayStays

\* The closing res.json comes after the header was sent with the first line
\* and throws: the export that was audited as a success is audited as a
\* failure too.
AnswerCsv(e) ==
    /\ \/ ExportMoves(e, "answer", "both")
       \/ ExportMoves(e, "answer", "failure")
    /\ UNCHANGED <<exportAudit, handed>> /\ ReplayStays

ExportStep(e) ==
    \/ AssertExportsEnabled(e) \/ RecordExportAudit(e) \/ StreamRows(e) \/ AnswerJson(e) \/ AnswerCsv(e)

-----------------------------------------------------------------------------
OpsNext ==
    \/ \E key \in SwitchKeys, enabled \in BOOLEAN : SetKillSwitch(key, enabled)
    \/ SourceAppears
    \/ \E j \in ReplayJobs : CreateReplayJob(j) \/ RunReplayJob(j) \/ ReplayDies(j)
    \/ \E e \in Exports : ExportStep(e)

OpsSpec == OpsInit /\ [][OpsNext]_opsVars

-----------------------------------------------------------------------------
(* Properties.                                                               *)

\* A completed job leaves no row unmarked that was there when it was started,
\* whichever of the jobs running side by side marked it.
CompletedCoversScope ==
    \A j \in ReplayJobs : replayJob[j] = "completed" => promised[j] \subseteq marked

\* After the operator turns the switch on, a running job writes at most the
\* batch it had in hand.
KillSwitchBites == \A j \in ReplayJobs : overrun[j] <= 1

\* A job that works reads as running, never as queued or over.  One that reads as
\* queued or running without a task lost it with its process, or to a failing
\* statement that no catch writes down: its INSERT, its audit row, the UPDATE to
\* running or the UPDATE to failed.
UnendedHasTask ==
    \A j \in ReplayJobs :
        /\ replayAt[j] \in Working => replayJob[j] = "running"
        /\ replayJob[j] \in {"queued", "running"} /\ replayAt[j] = "none" => j \in unwritten

\* No row leaves the system through an export without its audit row.
ExportsAreAudited == handed \subseteq exportAudit
=============================================================================
