--------------------------- MODULE OcrQueueProofs ---------------------------
(***************************************************************************)
(* The OCR queue for any number of jobs, processes, callbacks, resets and  *)
(* crashes: who holds a job, what its counter means, and that an           *)
(* undisturbed success is final.                                           *)
(***************************************************************************)
EXTENDS OcrQueue, FiniteSetTheorems, TLAPS

Holding == {"extract", "succeed", "fail"}

\* Whoever works on a job locked it below its limit.
ClaimsBelowLimit ==
  \A c \in Callbacks, j \in Jobs :
    task[c][j].pc \in Holding => task[c][j].claimed < MaxAttempts

\* So is a job that was never queued.
UnqueuedBelowLimit == \A j \in Jobs : job[j].status = "none" => job[j].attempts < MaxAttempts

\* A lock that SKIP LOCKED and locked_at respect.
Protected(j) == job[j].locked /\ ~job[j].expired

\* Without a lock in force one holder less is allowed.
HoldersCounted ==
  \A j \in Jobs :
    Cardinality(Holders(j)) <= (IF Protected(j) THEN 1 ELSE 0) + interventions + takeovers

\* As long as nobody interfered, the one holder of a job has it locked.
HolderAlone ==
  Calm => \A j \in Jobs, c \in Callbacks :
            task[c][j].pc \in Holding
              => /\ job[j].status = "processing" /\ Protected(j)
                 /\ \A d \in Callbacks : task[d][j].pc \in Holding => d = c

OInv == /\ TypeOK /\ ClaimsBelowLimit /\ UnqueuedBelowLimit /\ AttemptLimit
        /\ HoldersCounted /\ HolderAlone /\ OutcomeStands

JobRow == [status : JobStatus, attempts : Nat, locked : BOOLEAN, expired : BOOLEAN, due : BOOLEAN]
TaskState == [pc : TaskPc, claimed : Nat, seen : SUBSET Jobs]

-----------------------------------------------------------------------------
(* Types *)

LEMMA NoTaskTyped == NoTask \in TaskState /\ NoTask.pc = "none"
  BY DEF NoTask, TaskState, TaskPc

\* The rows of the queue and the tasks of the callbacks, with their types named.
LEMMA QueueTyped ==
  ASSUME TypeOK
  PROVE  job \in [Jobs -> JobRow] /\ task \in [Callbacks -> [Jobs -> TaskState]]
  BY DEF TypeOK, JobRow, TaskState

LEMMA TypeInit == Init => TypeOK
  <1> SUFFICES ASSUME Init PROVE TypeOK
    OBVIOUS
  <1>1. job \in [Jobs -> JobRow] BY DEF Init, NoJob, JobRow, JobStatus
  <1>2. task \in [Callbacks -> [Jobs -> TaskState]] BY NoTaskTyped DEF Init
  <1>3. interventions \in 0..MaxInterventions /\ takeovers \in 0..MaxTakeovers
    BY OcrAssumption DEF Init
  <1> QED BY <1>1, <1>2, <1>3 DEF Init, TypeOK, JobRow, TaskState

\* The bounded counters only take steps of one below their bound.
LEMMA CountersKept ==
  ASSUME TypeOK, \/ Intervene \/ UNCHANGED interventions,
         UNCHANGED takeovers \/ (takeovers < MaxTakeovers /\ takeovers' = takeovers + 1)
  PROVE  interventions' \in 0..MaxInterventions /\ takeovers' \in 0..MaxTakeovers
  BY OcrAssumption DEF TypeOK, Intervene

\* A task that moves on or ends keeps its type.
LEMMA TaskMoves ==
  ASSUME TypeOK, NEW c \in Callbacks, NEW j \in Jobs, NEW pc \in TaskPc,
         Goto(c, j, pc) \/ End(c, j)
  PROVE  task' \in [Callbacks -> [Jobs -> TaskState]]
  <1>1. task[c] \in [Jobs -> TaskState] BY DEF TypeOK, TaskState
  <1>2. task[c][j] \in TaskState BY <1>1
  <1>3. [task[c][j] EXCEPT !.pc = pc] \in TaskState BY <1>2 DEF TaskState
  <1>4. CASE Goto(c, j, pc)
    <2>1. task' = [task EXCEPT ![c] = [task[c] EXCEPT ![j] = [task[c][j] EXCEPT !.pc = pc]]]
      BY <1>4 DEF Goto
    <2>2. [task[c] EXCEPT ![j] = [task[c][j] EXCEPT !.pc = pc]] \in [Jobs -> TaskState]
      BY <1>1, <1>3
    <2> QED BY <2>1, <2>2 DEF TypeOK, TaskState
  <1>5. CASE End(c, j)
    <2>1. task' = [task EXCEPT ![c] = [task[c] EXCEPT ![j] = NoTask]]
      BY <1>5 DEF End
    <2>2. [task[c] EXCEPT ![j] = NoTask] \in [Jobs -> TaskState]
      BY <1>1, NoTaskTyped
    <2> QED BY <2>1, <2>2 DEF TypeOK, TaskState
  <1> QED BY <1>4, <1>5

LEMMA TypeKept == TypeOK /\ [Next]_vars => TypeOK'
  <1> SUFFICES ASSUME TypeOK, [Next]_vars PROVE TypeOK'
    OBVIOUS
  <1> USE OcrAssumption
  <1>1. ASSUME NEW j \in Jobs, CreateOcrJob(j) PROVE TypeOK'
    <2>1. job' \in [Jobs -> JobRow]
      <3>1. PICK row \in JobRow : row = job[j] BY QueueTyped
      <3>2. [row EXCEPT !.status = "queued", !.due = TRUE] \in JobRow BY DEF JobRow, JobStatus
      <3>3. job' = [job EXCEPT ![j] = [row EXCEPT !.status = "queued", !.due = TRUE]]
        BY <1>1, <3>1 DEF CreateOcrJob
      <3> QED BY <3>2, <3>3, QueueTyped
    <2> QED BY <1>1, <2>1 DEF CreateOcrJob, TypeOK, procs, JobRow
  <1>2. ASSUME NEW j \in Jobs, ResetOcrJob(j) PROVE TypeOK'
    <2>1. job' \in [Jobs -> JobRow]
      BY <1>2 DEF ResetOcrJob, TypeOK, NoJob, JobRow, JobStatus
    <2>2. interventions' \in 0..MaxInterventions
      BY <1>2, CountersKept DEF ResetOcrJob
    <2> QED BY <1>2, <2>1, <2>2 DEF ResetOcrJob, TypeOK, procs, JobRow
  <1>3. CASE Submit
    BY <1>3 DEF Submit, TypeOK, queue, procs
  <1>4. CASE SetKillSwitch \/ ClearKillSwitch
    <2>1. interventions' \in 0..MaxInterventions
      BY <1>4, CountersKept DEF SetKillSwitch, ClearKillSwitch
    <2> QED BY <1>4, <2>1 DEF SetKillSwitch, ClearKillSwitch, TypeOK, queue, procs
  <1>5. ASSUME NEW j \in Jobs, BecomeDue(j) PROVE TypeOK'
    <2>1. job' \in [Jobs -> JobRow]
      <3>1. PICK row \in JobRow : row = job[j] BY QueueTyped
      <3>2. [row EXCEPT !.due = TRUE] \in JobRow BY DEF JobRow
      <3>3. job' = [job EXCEPT ![j] = [row EXCEPT !.due = TRUE]]
        BY <1>5, <3>1 DEF BecomeDue
      <3> QED BY <3>2, <3>3, QueueTyped
    <2> QED BY <1>5, <2>1 DEF BecomeDue, TypeOK, procs, JobRow
  <1>6. ASSUME NEW j \in Jobs, LockExpires(j) PROVE TypeOK'
    <2>1. takeovers' \in 0..MaxTakeovers
      BY <1>6, CountersKept DEF LockExpires
    <2>2. job' \in [Jobs -> JobRow]
      <3>1. PICK row \in JobRow : row = job[j]
        BY QueueTyped
      <3>2. [row EXCEPT !.expired = TRUE] \in JobRow
        BY DEF JobRow
      <3>3. job' = [job EXCEPT ![j] = [row EXCEPT !.expired = TRUE]]
        BY <1>6, <3>1 DEF LockExpires
      <3> QED BY <3>2, <3>3, QueueTyped
    <2> QED BY <1>6, <2>1, <2>2 DEF LockExpires, TypeOK, procs, JobRow
  <1>7. ASSUME NEW c \in Callbacks, TickStarts(c) \/ TickProceeds(c) \/ TickEnds(c) PROVE TypeOK'
    <2>1. c[1] \in Workers BY DEF Callbacks
    <2> QED BY <1>7, <2>1 DEF TickStarts, TickProceeds, TickEnds, TypeOK, queue
  <1>8. ASSUME NEW c \in Callbacks, LockOcrJobs(c) PROVE TypeOK'
    <2>1. PICK batch \in SUBSET Jobs :
            /\ job' = [j \in Jobs |->
                    IF j \in batch
                      THEN [job[j] EXCEPT !.status = "processing", !.locked = TRUE,
                                          !.expired = FALSE]
                      ELSE job[j]]
            /\ task' = [task EXCEPT ![c] =
                    [j \in Jobs |-> IF j \in batch
                                      THEN [pc |-> "extract", claimed |-> job[j].attempts,
                                            seen |-> {}]
                                      ELSE NoTask]]
      BY <1>8 DEF LockOcrJobs
    <2>2. job' \in [Jobs -> JobRow]
      <3>1. ASSUME NEW row \in JobRow
            PROVE  [row EXCEPT !.status = "processing", !.locked = TRUE, !.expired = FALSE] \in JobRow
        BY DEF JobRow, JobStatus
      <3> QED BY <2>1, <3>1, QueueTyped
    <2>3. \A j \in Jobs : [pc |-> "extract", claimed |-> job[j].attempts, seen |-> {}] \in TaskState
      <3>1. ASSUME NEW n \in Nat PROVE [pc |-> "extract", claimed |-> n, seen |-> {}] \in TaskState
        BY DEF TaskState, TaskPc
      <3>2. \A j \in Jobs : job[j].attempts \in Nat
        BY QueueTyped DEF JobRow
      <3> QED BY <3>1, <3>2
    <2>4. [j \in Jobs |-> IF j \in batch
                            THEN [pc |-> "extract", claimed |-> job[j].attempts, seen |-> {}]
                            ELSE NoTask] \in [Jobs -> TaskState]
      BY <2>3, NoTaskTyped
    <2>5. task' \in [Callbacks -> [Jobs -> TaskState]]
      BY <2>1, <2>4, QueueTyped
    <2> QED BY <1>8, <2>2, <2>5 DEF LockOcrJobs, TypeOK, JobRow, TaskState
  <1>9. ASSUME NEW w \in Workers, Restart(w) PROVE TypeOK'
    <2>1. job' \in [Jobs -> JobRow]
      <3>1. ASSUME NEW row \in JobRow PROVE [row EXCEPT !.locked = FALSE, !.expired = FALSE] \in JobRow
        BY DEF JobRow
      <3> QED BY <1>9, <3>1, QueueTyped DEF Restart, ClearExpiredOcrLocks
    <2>2. [j \in Jobs |-> NoTask] \in [Jobs -> TaskState] BY NoTaskTyped
    <2>3. task' \in [Callbacks -> [Jobs -> TaskState]]
      BY <1>9, <2>2, QueueTyped DEF Restart
    <2> QED BY <1>9, <2>1, <2>3 DEF Restart, TypeOK, JobRow, TaskState
  <1>10. ASSUME NEW c \in Callbacks, NEW j \in Jobs,
                Extract(c, j) \/ SuccessRollsBack(c, j) PROVE TypeOK'
    <2>1. task' \in [Callbacks -> [Jobs -> TaskState]]
      BY <1>10, TaskMoves DEF Extract, SuccessRollsBack, TaskPc
    <2> QED BY <1>10, <2>1 DEF Extract, SuccessRollsBack, TypeOK, TaskState, queue
  <1>11. ASSUME NEW c \in Callbacks, NEW j \in Jobs, MarkOcrJobSuccess(c, j) PROVE TypeOK'
    <2>1. task' \in [Callbacks -> [Jobs -> TaskState]]
      BY <1>11, TaskMoves DEF MarkOcrJobSuccess, TaskPc
    <2>2. job' \in [Jobs -> JobRow]
      <3>1. PICK row \in JobRow : row = job[j]
        BY QueueTyped
      <3>2. [row EXCEPT !.status = "succeeded", !.locked = FALSE, !.expired = FALSE, !.due = FALSE] \in JobRow
        BY DEF JobRow, JobStatus
      <3>3. job' = [job EXCEPT ![j] = [row EXCEPT !.status = "succeeded", !.locked = FALSE,
                                                  !.expired = FALSE, !.due = FALSE]]
        BY <1>11, <3>1 DEF MarkOcrJobSuccess
      <3> QED BY <3>2, <3>3, QueueTyped
    <2>3. result' \subseteq Jobs /\ ocrStatus' \in [Jobs -> {"pending", "completed", "failed"}]
      BY <1>11 DEF MarkOcrJobSuccess, TypeOK
    <2> QED BY <1>11, <2>1, <2>2, <2>3 DEF MarkOcrJobSuccess, TypeOK, TaskState, JobRow
  <1>12. ASSUME NEW c \in Callbacks, NEW j \in Jobs, InsertDocumentOcrFields(c, j) PROVE TypeOK'
    <2>1. task' \in [Callbacks -> [Jobs -> TaskState]]
      BY <1>12, TaskMoves DEF InsertDocumentOcrFields, TaskPc
    <2> QED BY <1>12, <2>1 DEF InsertDocumentOcrFields, TypeOK, TaskState
  <1>13. ASSUME NEW c \in Callbacks, NEW j \in Jobs, ReadInsights(c, j) PROVE TypeOK'
    <2>1. task[c] \in [Jobs -> TaskState] /\ task[c][j] \in TaskState
      BY DEF TypeOK, TaskState
    <2>2. [task[c][j] EXCEPT !.pc = "writeInsights", !.seen = fields] \in TaskState
      BY <2>1 DEF TaskState, TaskPc, TypeOK
    <2>3. task' = [task EXCEPT ![c] = [task[c] EXCEPT ![j] =
                     [task[c][j] EXCEPT !.pc = "writeInsights", !.seen = fields]]]
      BY <1>13 DEF ReadInsights
    <2>4. task' \in [Callbacks -> [Jobs -> TaskState]]
      BY <2>1, <2>2, <2>3 DEF TypeOK, TaskState
    <2> QED BY <1>13, <2>4 DEF ReadInsights, TypeOK, TaskState, queue
  <1>14. ASSUME NEW c \in Callbacks, NEW j \in Jobs, WriteInsights(c, j) PROVE TypeOK'
    <2>1. task' \in [Callbacks -> [Jobs -> TaskState]]
      BY <1>14, TaskMoves DEF WriteInsights, TaskPc
    <2>2. task[c][j].seen \subseteq Jobs BY DEF TypeOK
    <2> QED BY <1>14, <2>1, <2>2 DEF WriteInsights, TypeOK, TaskState
  <1>15. ASSUME NEW c \in Callbacks, NEW j \in Jobs, MarkOcrJobFailure(c, j) PROVE TypeOK'
    <2>1. task' \in [Callbacks -> [Jobs -> TaskState]]
      BY <1>15, TaskMoves DEF MarkOcrJobFailure, TaskPc
    <2>2. Attempts(c, j) \in Nat BY DEF Attempts, TypeOK
    <2>3. job' \in [Jobs -> JobRow]
      BY <1>15, <2>2 DEF MarkOcrJobFailure, TypeOK, JobRow, NoJob, JobStatus
    <2> QED BY <1>15, <2>1, <2>3 DEF MarkOcrJobFailure, TypeOK, TaskState, JobRow
  <1>16. ASSUME NEW c \in Callbacks, NEW j \in Jobs, MirrorFailure(c, j) PROVE TypeOK'
    <2>1. task' \in [Callbacks -> [Jobs -> TaskState]]
      BY <1>16, TaskMoves DEF MirrorFailure, TaskPc
    <2> QED BY <1>16, <2>1 DEF MirrorFailure, TypeOK, TaskState
  <1>17. ASSUME NEW c \in Callbacks, SwallowedError(c) PROVE TypeOK'
    <2>1. c[1] \in Workers BY DEF Callbacks
    <2>2. task' \in [Callbacks -> [Jobs -> TaskState]]
      <3>1. CASE UNCHANGED task BY <3>1 DEF TypeOK, TaskState
      <3>2. CASE \E j \in Jobs : Goto(c, j, "readInsights") \/ End(c, j)
        BY <3>2, TaskMoves DEF TaskPc
      <3> QED BY <1>17, <3>1, <3>2 DEF SwallowedError
    <2>3. tick' \in [Callbacks -> {"idle", "asked", "locking", "batch"}]
      BY <1>17 DEF SwallowedError, TypeOK
    <2>4. running' \in [Workers -> BOOLEAN]
      BY <1>17, <2>1 DEF SwallowedError, TypeOK
    <2>5. takeovers' \in 0..MaxTakeovers
      BY <1>17, CountersKept DEF SwallowedError
    <2> QED BY <1>17, <2>2, <2>3, <2>4, <2>5 DEF SwallowedError, TypeOK, TaskState, queue
  <1>18. CASE UNCHANGED vars
    BY <1>18 DEF vars, queue, procs, TypeOK
  <1> QED
    BY <1>1, <1>2, <1>3, <1>4, <1>5, <1>6, <1>7, <1>8, <1>9, <1>10, <1>11, <1>12, <1>13,
       <1>14, <1>15, <1>16, <1>17, <1>18 DEF Next, WorkerStep, TaskStep

-----------------------------------------------------------------------------
(* Holders and how a step changes them *)

\* Nobody starts to work on a job.
NoNewHolder ==
  \A c \in Callbacks, j \in Jobs :
    task'[c][j].pc \in Holding
      => task[c][j].pc \in Holding /\ task'[c][j].claimed = task[c][j].claimed

CountersGrow == interventions <= interventions' /\ takeovers <= takeovers'

LEMMA CallbacksFinite == IsFiniteSet(Callbacks)
  BY OcrAssumption, FS_Product DEF Callbacks

LEMMA HoldersFinite ==
  ASSUME NEW j
  PROVE  IsFiniteSet(Holders(j)) /\ IsFiniteSet(Holders(j)') /\ Cardinality(Holders(j)) \in Nat
  <1>1. Holders(j) \in SUBSET Callbacks /\ Holders(j)' \in SUBSET Callbacks BY DEF Holders
  <1>2. IsFiniteSet(Holders(j)) /\ IsFiniteSet(Holders(j)')
    BY <1>1, CallbacksFinite, FS_Subset
  <1> QED BY <1>2, FS_CardinalityType

\* A set that grows by at most one element, or loses one.
LEMMA Counting ==
  ASSUME NEW S, IsFiniteSet(S), NEW T, NEW x
  PROVE  /\ T \subseteq S => Cardinality(T) <= Cardinality(S)
         /\ x \in S /\ T \subseteq S \ {x} => Cardinality(T) <= Cardinality(S) - 1
         /\ T \subseteq S \cup {x} => Cardinality(T) <= Cardinality(S) + 1
         /\ IsFiniteSet(T) => Cardinality(T) \in Nat
  <1>1. Cardinality(S) \in Nat BY FS_CardinalityType
  <1>2. IsFiniteSet(S \ {x}) /\ IsFiniteSet(S \cup {x}) BY FS_RemoveElement, FS_AddElement
  <1>3. T \subseteq S => Cardinality(T) <= Cardinality(S) BY FS_Subset
  <1>4. T \subseteq S \ {x} => Cardinality(T) <= Cardinality(S \ {x}) BY <1>2, FS_Subset
  <1>5. T \subseteq S \cup {x} => Cardinality(T) <= Cardinality(S \cup {x}) BY <1>2, FS_Subset
  <1>6. x \in S => Cardinality(S \ {x}) = Cardinality(S) - 1 BY FS_RemoveElement
  <1>7. Cardinality(S \cup {x}) \in {Cardinality(S), Cardinality(S) + 1} BY FS_AddElement
  <1>8. T \subseteq S \cup {x} => Cardinality(T) \in Nat
    BY <1>2, FS_Subset, FS_CardinalityType
  <1>9. IsFiniteSet(T) => Cardinality(T) \in Nat BY FS_CardinalityType
  <1> QED BY <1>1, <1>3, <1>4, <1>5, <1>6, <1>7, <1>8, <1>9

LEMMA HoldersShrink ==
  ASSUME NoNewHolder, NEW j \in Jobs
  PROVE  /\ Holders(j)' \subseteq Holders(j)
         /\ Cardinality(Holders(j)') <= Cardinality(Holders(j))
         /\ Cardinality(Holders(j)) \in Nat /\ Cardinality(Holders(j)') \in Nat
  <1>1. Holders(j)' \subseteq Holders(j) BY DEF NoNewHolder, Holders, Holding
  <1>2. IsFiniteSet(Holders(j)) /\ IsFiniteSet(Holders(j)') BY HoldersFinite
  <1> QED BY <1>1, <1>2, Counting

\* The move of a task, seen from outside.
LEMMA TaskEffect ==
  ASSUME TypeOK, NEW c \in Callbacks, NEW j \in Jobs, NEW pc \in TaskPc,
         Goto(c, j, pc) \/ (End(c, j) /\ pc = "none")
  PROVE  /\ task'[c][j].pc = pc
         /\ pc # "none" => task'[c][j].claimed = task[c][j].claimed
         /\ \A d \in Callbacks, k \in Jobs : d # c \/ k # j => task'[d][k] = task[d][k]
  <1>1. task \in [Callbacks -> [Jobs -> TaskState]] BY DEF TypeOK, TaskState
  <1>2. task[c] \in [Jobs -> TaskState] /\ task[c][j] \in TaskState BY <1>1
  <1>3. CASE Goto(c, j, pc)
    <2>1. task' = [task EXCEPT ![c] = [task[c] EXCEPT ![j] = [task[c][j] EXCEPT !.pc = pc]]]
      BY <1>3 DEF Goto
    <2>2. task'[c] = [task[c] EXCEPT ![j] = [task[c][j] EXCEPT !.pc = pc]]
      BY <2>1, <1>1
    <2>3. task'[c][j] = [task[c][j] EXCEPT !.pc = pc] BY <2>2, <1>2
    <2>4. task'[c][j].pc = pc /\ task'[c][j].claimed = task[c][j].claimed
      BY <2>3, <1>2 DEF TaskState
    <2>5. \A k \in Jobs : k # j => task'[c][k] = task[c][k] BY <2>2, <1>2
    <2>6. \A d \in Callbacks : d # c => task'[d] = task[d] BY <2>1, <1>1
    <2> QED BY <2>4, <2>5, <2>6
  <1>4. CASE End(c, j) /\ pc = "none"
    <2>1. task' = [task EXCEPT ![c] = [task[c] EXCEPT ![j] = NoTask]] BY <1>4 DEF End
    <2>2. task'[c] = [task[c] EXCEPT ![j] = NoTask] BY <2>1, <1>1
    <2>3. task'[c][j] = NoTask BY <2>2, <1>2
    <2>4. \A k \in Jobs : k # j => task'[c][k] = task[c][k] BY <2>2, <1>2
    <2>5. \A d \in Callbacks : d # c => task'[d] = task[d] BY <2>1, <1>1
    <2> QED BY <1>4, <2>3, <2>4, <2>5, NoTaskTyped
  <1> QED BY <1>3, <1>4

\* A task that stays with its job or leaves it makes no new holder.
LEMMA MoveOrLeave ==
  ASSUME TypeOK, NEW c \in Callbacks, NEW j \in Jobs, NEW pc \in TaskPc,
         Goto(c, j, pc) \/ (End(c, j) /\ pc = "none"),
         pc \in Holding => task[c][j].pc \in Holding
  PROVE  NoNewHolder /\ (pc \notin Holding => task'[c][j].pc \notin Holding)
  BY TaskEffect DEF NoNewHolder, Holding, TaskPc

\* Steps that leave the job rows and the results alone.
LEMMA JobsAlone ==
  ASSUME OInv, TypeOK', job' = job, result' = result, NoNewHolder, CountersGrow
  PROVE  OInv'
  <1>1. /\ interventions \in Nat /\ takeovers \in Nat
        /\ interventions' \in Nat /\ takeovers' \in Nat
    BY OcrAssumption DEF OInv, TypeOK
  <1>2. ClaimsBelowLimit' /\ UnqueuedBelowLimit' /\ AttemptLimit'
    BY DEF OInv, ClaimsBelowLimit, UnqueuedBelowLimit, AttemptLimit, NoNewHolder
  <1>3. HoldersCounted'
    <2> SUFFICES ASSUME NEW j \in Jobs
                 PROVE  Cardinality(Holders(j)')
                          <= (IF Protected(j) THEN 1 ELSE 0) + interventions' + takeovers'
      BY DEF HoldersCounted, Protected
    <2>1. Cardinality(Holders(j)) <= (IF Protected(j) THEN 1 ELSE 0) + interventions + takeovers
      BY DEF OInv, HoldersCounted
    <2> QED BY <1>1, <2>1, HoldersShrink DEF CountersGrow
  <1>4. Calm' => Calm BY <1>1 DEF Calm, CountersGrow
  <1>5. HolderAlone'
    BY <1>4 DEF OInv, HolderAlone, NoNewHolder, Protected, Calm
  <1>6. OutcomeStands'
    <2>1. \A j \in Jobs : Holders(j)' \subseteq Holders(j) BY HoldersShrink
    <2>2. result \subseteq Jobs BY DEF OInv, TypeOK
    <2>3. Calm => \A j \in result : job[j].status = "succeeded" /\ Holders(j) = {}
      BY DEF OInv, OutcomeStands, Calm
    <2>4. Calm' => \A j \in result' : job'[j].status = "succeeded" /\ Holders(j)' = {}
      BY <1>4, <2>1, <2>2, <2>3
    <2> QED BY <2>4 DEF OutcomeStands, Calm, Holders
  <1> QED BY <1>2, <1>3, <1>5, <1>6 DEF OInv

-----------------------------------------------------------------------------
(* The steps that write job rows *)

\* What is left to show of a step: a row at a time, and the calm parts.
LEMMA ByParts ==
  ASSUME TypeOK', CountersGrow, TypeOK, HolderAlone, OutcomeStands,
         ClaimsBelowLimit', UnqueuedBelowLimit', AttemptLimit', HoldersCounted',
         /\ Calm /\ Calm'
         /\ \A j \in Jobs, c \in Callbacks :
              task[c][j].pc \in Holding
              => /\ job[j].status = "processing" /\ Protected(j)
                 /\ \A d \in Callbacks : task[d][j].pc \in Holding => d = c
         /\ \A j \in result : job[j].status = "succeeded" /\ Holders(j) = {}
         => /\ \A j \in Jobs, c \in Callbacks :
                 task'[c][j].pc \in Holding
                 => /\ job'[j].status = "processing" /\ Protected(j)'
                    /\ \A d \in Callbacks : task'[d][j].pc \in Holding => d = c
            /\ \A j \in result' : job'[j].status = "succeeded" /\ Holders(j)' = {}
  PROVE  OInv'
  <1>1. /\ interventions \in Nat /\ takeovers \in Nat
        /\ interventions' \in Nat /\ takeovers' \in Nat
    BY OcrAssumption DEF TypeOK
  <1>2. Calm' => Calm BY <1>1 DEF Calm, CountersGrow
  <1>3. Calm => \A j \in result : job[j].status = "succeeded" /\ Holders(j) = {}
    BY DEF OutcomeStands, Calm
  <1>4. Calm' => \A j \in result' : job'[j].status = "succeeded" /\ Holders(j)' = {}
    BY <1>2, <1>3 DEF HolderAlone
  <1>5. OutcomeStands' BY <1>4 DEF OutcomeStands, Calm, Holders
  <1>6. HolderAlone' BY <1>2, <1>3 DEF HolderAlone
  <1> QED BY <1>5, <1>6 DEF OInv

\* A row loses its protection with a holder, without holders, or at the cost of a counter.
Accounted(j) ==
  \/ Protected(j) => Protected(j)'
  \/ interventions + takeovers < interventions' + takeovers'
  \/ Holders(j) = {}
  \/ \E c \in Holders(j) : c \notin Holders(j)'

LEMMA CountKept ==
  ASSUME OInv, TypeOK', CountersGrow, NoNewHolder, \A j \in Jobs : Accounted(j)
  PROVE  HoldersCounted'
  <1> SUFFICES ASSUME NEW j \in Jobs
               PROVE  Cardinality(Holders(j)')
                        <= (IF Protected(j)' THEN 1 ELSE 0) + interventions' + takeovers'
    BY DEF HoldersCounted, Protected
  <1>1. /\ interventions \in Nat /\ takeovers \in Nat
        /\ interventions' \in Nat /\ takeovers' \in Nat
    BY OcrAssumption DEF OInv, TypeOK
  <1>2. PICK k \in Nat : k = interventions' BY <1>1
  <1>3. PICK u \in Nat : u = takeovers' BY <1>1
  <1>4. interventions <= k /\ takeovers <= u BY <1>2, <1>3 DEF CountersGrow
  <1>5. Cardinality(Holders(j)) <= (IF Protected(j) THEN 1 ELSE 0) + interventions + takeovers
    BY DEF OInv, HoldersCounted
  <1>6. /\ Holders(j)' \subseteq Holders(j)
        /\ Cardinality(Holders(j)') <= Cardinality(Holders(j))
        /\ Cardinality(Holders(j)) \in Nat /\ Cardinality(Holders(j)') \in Nat
    BY HoldersShrink
  <1>7. Cardinality(Holders(j)') <= (IF Protected(j)' THEN 1 ELSE 0) + k + u
    <2>1. CASE Protected(j) => Protected(j)'
      BY <1>1, <1>4, <1>5, <1>6, <2>1
    <2>2. CASE interventions + takeovers < interventions' + takeovers'
      <3>1. interventions + takeovers < k + u BY <1>2, <1>3, <2>2
      <3> QED BY <1>1, <1>5, <1>6, <3>1
    <2>3. CASE Holders(j) = {}
      <3>1. Holders(j)' = {} BY <1>6, <2>3
      <3>2. Cardinality(Holders(j)') = 0 BY <3>1, FS_EmptySet
      <3> QED BY <3>2
    <2>4. ASSUME NEW c \in Holders(j), c \notin Holders(j)'
          PROVE  Cardinality(Holders(j)') <= (IF Protected(j)' THEN 1 ELSE 0) + k + u
      <3>1. Cardinality(Holders(j)') <= Cardinality(Holders(j)) - 1
        BY <1>6, <2>4, HoldersFinite, Counting
      <3> QED BY <1>1, <1>4, <1>5, <1>6, <3>1
    <2> QED BY <2>1, <2>2, <2>3, <2>4 DEF Accounted
  <1> QED BY <1>2, <1>3, <1>7

LEMMA JobsTyped == TypeOK => job \in [Jobs -> JobRow]
  BY DEF TypeOK, JobRow

LEMMA CreateKeeps ==
  ASSUME OInv, TypeOK', NEW j \in Jobs, CreateOcrJob(j)
  PROVE  OInv'
  <1> USE DEF CreateOcrJob, procs
  <1>1. /\ job \in [Jobs -> JobRow] /\ TypeOK BY JobsTyped DEF OInv
  <1>2. job' = [job EXCEPT ![j] = [job[j] EXCEPT !.status = "queued", !.due = TRUE]] OBVIOUS
  <1>3. /\ \A k \in Jobs : k # j => job'[k] = job[k]
        /\ job'[j].status = "queued" /\ job'[j].attempts = job[j].attempts
        /\ job'[j].locked = job[j].locked /\ job'[j].expired = job[j].expired
    BY <1>1, <1>2 DEF JobRow
  <1>4. NoNewHolder /\ CountersGrow /\ task' = task /\ result' = result
    BY <1>1, OcrAssumption DEF NoNewHolder, CountersGrow, TypeOK
  <1>5. ClaimsBelowLimit' /\ UnqueuedBelowLimit' /\ AttemptLimit'
    BY <1>3, <1>4 DEF OInv, ClaimsBelowLimit, UnqueuedBelowLimit, AttemptLimit
  <1>6. HoldersCounted'
    BY <1>3, <1>4, CountKept DEF Accounted, Protected
  <1>7. job[j].status = "none" OBVIOUS
  <1>8. result \subseteq Jobs BY <1>1 DEF TypeOK
  <1>9. \A k \in Jobs : Holders(k)' = Holders(k) BY <1>4 DEF Holders
  <1> QED
    BY <1>1, <1>3, <1>4, <1>5, <1>6, <1>7, <1>8, <1>9, ByParts DEF OInv, Protected

LEMMA ResetKeeps ==
  ASSUME OInv, TypeOK', NEW j \in Jobs, ResetOcrJob(j)
  PROVE  OInv'
  <1> USE DEF ResetOcrJob, procs, Intervene
  <1>1. /\ job \in [Jobs -> JobRow] /\ TypeOK BY JobsTyped DEF OInv
  <1>2. /\ \A k \in Jobs : k # j => job'[k] = job[k]
        /\ job'[j].status = "queued" /\ job'[j].attempts = 0
    BY <1>1 DEF JobRow, NoJob
  <1>3. /\ interventions \in Nat /\ takeovers \in Nat BY <1>1, OcrAssumption DEF TypeOK
  <1>4. NoNewHolder /\ CountersGrow /\ task' = task /\ result' = result
    BY <1>1, <1>3 DEF NoNewHolder, CountersGrow
  <1>5. ClaimsBelowLimit' /\ UnqueuedBelowLimit' /\ AttemptLimit'
    BY <1>2, <1>4, OcrAssumption DEF OInv, ClaimsBelowLimit, UnqueuedBelowLimit, AttemptLimit
  <1>6. interventions + takeovers < interventions' + takeovers' BY <1>3
  <1>7. HoldersCounted' BY <1>4, <1>6, CountKept DEF Accounted
  <1>8. ~Calm' BY <1>3 DEF Calm
  <1> QED BY <1>1, <1>4, <1>5, <1>7, <1>8, ByParts DEF OInv

LEMMA DueKeeps ==
  ASSUME OInv, TypeOK', NEW j \in Jobs, BecomeDue(j)
  PROVE  OInv'
  <1> USE DEF BecomeDue, procs
  <1>1. /\ job \in [Jobs -> JobRow] /\ TypeOK BY JobsTyped DEF OInv
  <1>2. \A k \in Jobs : /\ job'[k].status = job[k].status /\ job'[k].attempts = job[k].attempts
                        /\ job'[k].locked = job[k].locked /\ job'[k].expired = job[k].expired
    BY <1>1 DEF JobRow
  <1>3. NoNewHolder /\ CountersGrow /\ task' = task /\ result' = result
    BY <1>1, OcrAssumption DEF NoNewHolder, CountersGrow, TypeOK
  <1>4. ClaimsBelowLimit' /\ UnqueuedBelowLimit' /\ AttemptLimit'
    BY <1>2, <1>3 DEF OInv, ClaimsBelowLimit, UnqueuedBelowLimit, AttemptLimit
  <1>5. \A k \in Jobs : Protected(k)' <=> Protected(k) BY <1>2 DEF Protected
  <1>6. HoldersCounted' BY <1>3, <1>5, CountKept DEF Accounted
  <1>7. \A k \in Jobs : Holders(k)' = Holders(k) BY <1>3 DEF Holders
  <1>8. result \subseteq Jobs BY <1>1 DEF TypeOK
  <1> QED
    BY <1>1, <1>2, <1>3, <1>4, <1>5, <1>6, <1>7, <1>8, ByParts DEF OInv

LEMMA ExpiryKeeps ==
  ASSUME OInv, TypeOK', NEW j \in Jobs, LockExpires(j)
  PROVE  OInv'
  <1> USE DEF LockExpires, procs
  <1>1. /\ job \in [Jobs -> JobRow] /\ TypeOK BY JobsTyped DEF OInv
  <1>2. \A k \in Jobs : /\ job'[k].status = job[k].status /\ job'[k].attempts = job[k].attempts
                        /\ k # j => job'[k] = job[k]
    BY <1>1 DEF JobRow
  <1>3. interventions \in Nat /\ takeovers \in Nat BY <1>1, OcrAssumption DEF TypeOK
  <1>4. NoNewHolder /\ CountersGrow /\ task' = task /\ result' = result
    BY <1>1, <1>3 DEF NoNewHolder, CountersGrow
  <1>5. ClaimsBelowLimit' /\ UnqueuedBelowLimit' /\ AttemptLimit'
    BY <1>2, <1>4 DEF OInv, ClaimsBelowLimit, UnqueuedBelowLimit, AttemptLimit
  <1>6. Holders(j) = {} \/ interventions + takeovers < interventions' + takeovers' BY <1>3
  <1>7. HoldersCounted' BY <1>2, <1>4, <1>6, CountKept DEF Accounted, Protected
  <1>8. \A k \in Jobs : Holders(k)' = Holders(k) BY <1>4 DEF Holders
  <1>9. result \subseteq Jobs BY <1>1 DEF TypeOK
  <1>10. Calm' => Holders(j) = {} BY <1>3 DEF Calm
  <1>11. Calm' => \A c \in Callbacks : task[c][j].pc \notin Holding
    BY <1>10 DEF Holders, Holding
  <1> QED
    BY <1>1, <1>2, <1>4, <1>5, <1>7, <1>8, <1>9, <1>11, ByParts DEF OInv, Protected

\* An outcome written by its holder frees the row: one holder less.
LEMMA OutcomeKeeps ==
  ASSUME OInv, TypeOK', NEW c \in Callbacks, NEW j \in Jobs,
         MarkOcrJobSuccess(c, j) \/ MarkOcrJobFailure(c, j)
  PROVE  OInv'
  <1>1. /\ job \in [Jobs -> JobRow] /\ TypeOK BY JobsTyped DEF OInv
  <1>2. /\ interventions' = interventions /\ takeovers' = takeovers /\ CountersGrow
        /\ task[c][j].pc \in {"succeed", "fail"}
    BY <1>1, OcrAssumption
       DEF MarkOcrJobSuccess, MarkOcrJobFailure, CountersGrow, TypeOK
  <1>3. \E pc \in {"fields", "failDoc", "none"} :
          Goto(c, j, pc) \/ (End(c, j) /\ pc = "none")
    BY DEF MarkOcrJobSuccess, MarkOcrJobFailure
  <1>4. NoNewHolder /\ task'[c][j].pc \notin Holding
    BY <1>1, <1>3, MoveOrLeave DEF TaskPc, Holding
  <1>5. c \in Holders(j) /\ c \notin Holders(j)'
    BY <1>2, <1>4 DEF Holders, Holding
  <1>6. task[c][j].claimed \in Nat /\ task[c][j].claimed < MaxAttempts
    BY <1>1, <1>2 DEF OInv, ClaimsBelowLimit, Holding, TypeOK
  <1>7. \A k \in Jobs : k # j => job'[k] = job[k]
    BY <1>1 DEF MarkOcrJobSuccess, MarkOcrJobFailure
  <1>8. \/ /\ job'[j].status = "succeeded" /\ job'[j].attempts = job[j].attempts
           /\ result' = result \cup {j}
        \/ /\ job'[j].status = "canceled" /\ job'[j].attempts = MaxAttempts
           /\ result' = result /\ MarkOcrJobFailure(c, j)
        \/ /\ job'[j].status = "failed" /\ job'[j].attempts < MaxAttempts
           /\ result' = result /\ MarkOcrJobFailure(c, j)
    <2>1. CASE MarkOcrJobSuccess(c, j)
      BY <1>1, <2>1 DEF MarkOcrJobSuccess, JobRow
    <2>2. CASE MarkOcrJobFailure(c, j)
      <3>1. /\ job'[j].status = IF Exhausted(Attempts(c, j)) THEN "canceled" ELSE "failed"
            /\ job'[j].attempts = Attempts(c, j) /\ result' = result
        BY <1>1, <2>2 DEF MarkOcrJobFailure, NoJob, JobRow
      <3>2. Attempts(c, j) = task[c][j].claimed + 1 BY DEF Attempts
      <3> QED BY <1>6, <2>2, <3>1, <3>2, OcrAssumption DEF Exhausted
    <2> QED BY <2>1, <2>2
  <1>9. AttemptLimit'
    <2>1. AttemptLimit BY DEF OInv
    <2>2. job[j].attempts <= MaxAttempts BY <2>1 DEF AttemptLimit
    <2>3. ASSUME NEW k \in Jobs, k # j
          PROVE  /\ job'[k].attempts <= MaxAttempts
                 /\ job'[k].status = "canceled" => job'[k].attempts = MaxAttempts
                 /\ job'[k].status \in {"queued", "processing", "failed"}
                      => job'[k].attempts < MaxAttempts
      BY <1>7, <2>1, <2>3 DEF AttemptLimit
    <2>4. job'[j].attempts <= MaxAttempts
      <3>1. CASE job'[j].attempts = job[j].attempts BY <2>2, <3>1
      <3>2. CASE job'[j].attempts = MaxAttempts BY <3>2, OcrAssumption
      <3>3. ASSUME job'[j].attempts < MaxAttempts PROVE job'[j].attempts <= MaxAttempts
        <4>1. job'[j].attempts \in Nat BY DEF TypeOK
        <4> QED BY <3>3, <4>1, OcrAssumption
      <3> QED BY <1>8, <3>1, <3>2, <3>3
    <2>5. /\ job'[j].status = "canceled" => job'[j].attempts = MaxAttempts
          /\ job'[j].status \in {"queued", "processing", "failed"}
               => job'[j].attempts < MaxAttempts
      BY <1>8
    <2> QED BY <2>3, <2>4, <2>5 DEF AttemptLimit
  <1>10. UnqueuedBelowLimit' BY <1>7, <1>8 DEF OInv, UnqueuedBelowLimit
  <1>11. ClaimsBelowLimit' BY <1>4 DEF OInv, ClaimsBelowLimit, NoNewHolder
  <1>12. \A k \in Jobs : k # j => (Protected(k) => Protected(k)') BY <1>7 DEF Protected
  <1>13. \A k \in Jobs : Accounted(k)
    BY <1>5, <1>12 DEF Accounted
  <1>14. HoldersCounted' BY <1>2, <1>4, <1>13, CountKept
  <1>15. ASSUME Calm, Calm',
                \A k \in Jobs, d \in Callbacks :
                  task[d][k].pc \in Holding
                  => /\ job[k].status = "processing" /\ Protected(k)
                     /\ \A e \in Callbacks : task[e][k].pc \in Holding => e = d,
                \A k \in result : job[k].status = "succeeded" /\ Holders(k) = {}
         PROVE  /\ \A k \in Jobs, d \in Callbacks :
                     task'[d][k].pc \in Holding
                     => /\ job'[k].status = "processing" /\ Protected(k)'
                        /\ \A e \in Callbacks : task'[e][k].pc \in Holding => e = d
                /\ \A k \in result' : job'[k].status = "succeeded" /\ Holders(k)' = {}
    <2>1. task[c][j].pc \in Holding BY <1>2 DEF Holding
    <2>2. \A d \in Callbacks : task'[d][j].pc \notin Holding
      BY <1>4, <1>15, <2>1 DEF NoNewHolder
    <2>3. Holders(j)' = {} BY <2>2 DEF Holders, Holding
    <2>4. \A k \in Jobs : Holders(k)' \subseteq Holders(k) BY <1>4, HoldersShrink
    <2>5. \A k \in Jobs, d \in Callbacks :
            task'[d][k].pc \in Holding
            => /\ job'[k].status = "processing" /\ Protected(k)'
               /\ \A e \in Callbacks : task'[e][k].pc \in Holding => e = d
      BY <1>4, <1>7, <1>15, <2>2 DEF NoNewHolder, Protected
    <2>6. j \notin result BY <1>5, <1>15
    <2>7. \A k \in result' : job'[k].status = "succeeded" /\ Holders(k)' = {}
      <3>1. result \subseteq Jobs BY <1>1 DEF TypeOK
      <3> QED BY <1>7, <1>8, <1>15, <2>3, <2>4, <2>6, <3>1
    <2> QED BY <2>5, <2>7
  <1> QED
    BY <1>1, <1>2, <1>9, <1>10, <1>11, <1>14, <1>15, ByParts DEF OInv

\* Locking: only rows whose lock is not in force, each with one new holder.
LEMMA LockKeeps ==
  ASSUME OInv, TypeOK', NEW c \in Callbacks, LockOcrJobs(c)
  PROVE  OInv'
  <1>1. /\ job \in [Jobs -> JobRow] /\ TypeOK BY JobsTyped DEF OInv
  <1>2. /\ interventions' = interventions /\ takeovers' = takeovers /\ CountersGrow
        /\ result' = result
    <2>1. interventions' = interventions /\ takeovers' = takeovers /\ result' = result
      BY DEF LockOcrJobs
    <2>2. interventions \in Nat /\ takeovers \in Nat BY <1>1, OcrAssumption DEF TypeOK
    <2> QED BY <2>1, <2>2 DEF CountersGrow
  <1>3. PICK batch \in SUBSET Jobs :
          /\ \A j \in batch : Lockable(j)
          /\ job' = [j \in Jobs |->
                    IF j \in batch
                      THEN [job[j] EXCEPT !.status = "processing", !.locked = TRUE,
                                          !.expired = FALSE]
                      ELSE job[j]]
          /\ task' = [task EXCEPT ![c] =
                    [j \in Jobs |-> IF j \in batch
                                      THEN [pc |-> "extract", claimed |-> job[j].attempts,
                                            seen |-> {}]
                                      ELSE NoTask]]
    BY DEF LockOcrJobs
  <1>4. \A j \in Jobs \ batch : job'[j] = job[j] /\ task'[c][j].pc \notin Holding
    BY <1>1, <1>3, NoTaskTyped DEF TypeOK, Holding
  <1>5. \A j \in batch : /\ job'[j].status = "processing" /\ Protected(j)'
                         /\ job'[j].attempts = job[j].attempts
                         /\ task'[c][j].pc = "extract" /\ task'[c][j].claimed = job[j].attempts
                         /\ job[j].status \in {"queued", "failed", "processing"} /\ ~Protected(j)
    <2> SUFFICES ASSUME NEW j \in batch
                 PROVE  /\ job'[j].status = "processing" /\ Protected(j)'
                        /\ job'[j].attempts = job[j].attempts
                        /\ task'[c][j].pc = "extract" /\ task'[c][j].claimed = job[j].attempts
                        /\ job[j].status \in {"queued", "failed", "processing"} /\ ~Protected(j)
      OBVIOUS
    <2>1. j \in Jobs /\ job[j] \in JobRow BY <1>1
    <2>2. job'[j] = [job[j] EXCEPT !.status = "processing", !.locked = TRUE, !.expired = FALSE]
      BY <1>3, <2>1
    <2>3. /\ job'[j].status = "processing" /\ job'[j].attempts = job[j].attempts
          /\ job'[j].locked = TRUE /\ job'[j].expired = FALSE
      BY <2>1, <2>2 DEF JobRow
    <2>4. task'[c] = [i \in Jobs |-> IF i \in batch
                                       THEN [pc |-> "extract", claimed |-> job[i].attempts,
                                             seen |-> {}]
                                       ELSE NoTask]
      BY <1>1, <1>3 DEF TypeOK
    <2>5. task'[c][j] = [pc |-> "extract", claimed |-> job[j].attempts, seen |-> {}]
      BY <2>1, <2>4
    <2>6. Lockable(j) BY <1>3
    <2>7. job[j].status \in {"queued", "failed", "processing"} /\ ~Protected(j)
      BY <2>6 DEF Lockable, Protected
    <2> QED BY <2>3, <2>5, <2>7 DEF Protected
  <1>6. \A d \in Callbacks, j \in Jobs : d # c => task'[d][j] = task[d][j]
    BY <1>1, <1>3 DEF TypeOK
  <1>7. AttemptLimit' /\ UnqueuedBelowLimit'
    BY <1>4, <1>5 DEF OInv, AttemptLimit, UnqueuedBelowLimit
  <1>8. ClaimsBelowLimit'
    BY <1>4, <1>5, <1>6 DEF OInv, ClaimsBelowLimit, AttemptLimit, Holding
  <1>9. HoldersCounted'
    <2> SUFFICES ASSUME NEW j \in Jobs
                 PROVE  Cardinality(Holders(j)')
                          <= (IF Protected(j)' THEN 1 ELSE 0) + interventions' + takeovers'
      BY DEF HoldersCounted, Protected
    <2>1. interventions \in Nat /\ takeovers \in Nat BY <1>1, OcrAssumption DEF TypeOK
    <2>2. Cardinality(Holders(j)) <= (IF Protected(j) THEN 1 ELSE 0) + interventions + takeovers
      BY DEF OInv, HoldersCounted
    <2>3. IsFiniteSet(Holders(j)) /\ IsFiniteSet(Holders(j)') /\ Cardinality(Holders(j)) \in Nat
      BY HoldersFinite
    <2>4. Cardinality(Holders(j)') \in Nat BY <2>3, FS_CardinalityType
    <2>5. Cardinality(Holders(j)') <= (IF Protected(j)' THEN 1 ELSE 0) + interventions + takeovers
      <3>1. CASE j \in batch
        <4>1. Holders(j)' \subseteq Holders(j) \cup {c} BY <1>6 DEF Holders
        <4>2. Cardinality(Holders(j)') <= Cardinality(Holders(j)) + 1 BY <2>3, <4>1, Counting
        <4> QED BY <1>5, <2>1, <2>2, <2>3, <2>4, <3>1, <4>2
      <3>2. CASE j \notin batch
        <4>1. Holders(j)' \subseteq Holders(j) BY <1>4, <1>6, <3>2 DEF Holders, Holding
        <4>2. Cardinality(Holders(j)') <= Cardinality(Holders(j)) BY <2>3, <4>1, Counting
        <4>3. Protected(j)' <=> Protected(j) BY <1>4, <3>2 DEF Protected
        <4> QED BY <2>1, <2>2, <2>3, <2>4, <4>2, <4>3
      <3> QED BY <3>1, <3>2
    <2> QED BY <1>2, <2>5
  <1>10. ASSUME Calm, Calm',
                \A k \in Jobs, d \in Callbacks :
                  task[d][k].pc \in Holding
                  => /\ job[k].status = "processing" /\ Protected(k)
                     /\ \A e \in Callbacks : task[e][k].pc \in Holding => e = d,
                \A k \in result : job[k].status = "succeeded" /\ Holders(k) = {}
         PROVE  /\ \A k \in Jobs, d \in Callbacks :
                     task'[d][k].pc \in Holding
                     => /\ job'[k].status = "processing" /\ Protected(k)'
                        /\ \A e \in Callbacks : task'[e][k].pc \in Holding => e = d
                /\ \A k \in result' : job'[k].status = "succeeded" /\ Holders(k)' = {}
    <2>1. \A k \in batch, d \in Callbacks : task'[d][k].pc \in Holding => d = c
      BY <1>5, <1>6, <1>10
    <2>2. \A k \in Jobs \ batch, d \in Callbacks :
            task'[d][k].pc \in Holding => d # c /\ task[d][k].pc \in Holding
      BY <1>4, <1>6
    <2>3. \A k \in Jobs \ batch, d \in Callbacks :
            task'[d][k].pc \in Holding
            => /\ job'[k].status = "processing" /\ Protected(k)'
               /\ \A e \in Callbacks : task'[e][k].pc \in Holding => e = d
      BY <1>4, <1>10, <2>2 DEF Protected
    <2>4. \A k \in batch : job'[k].status = "processing" /\ Protected(k)' BY <1>5
    <2>5. \A k \in result : k \in Jobs \ batch BY <1>1, <1>5, <1>10 DEF TypeOK
    <2>6. \A k \in result : Holders(k)' \subseteq Holders(k)
      BY <2>2, <2>5 DEF Holders, Holding
    <2>7. \A k \in result' : job'[k].status = "succeeded" /\ Holders(k)' = {}
      BY <1>2, <1>4, <1>10, <2>5, <2>6
    <2> QED BY <2>1, <2>3, <2>4, <2>7
  <1> QED
    BY <1>1, <1>2, <1>7, <1>8, <1>9, <1>10, ByParts DEF OInv

LEMMA RestartKeeps ==
  ASSUME OInv, TypeOK', NEW w \in Workers, Restart(w)
  PROVE  OInv'
  <1>1. /\ job \in [Jobs -> JobRow] /\ TypeOK BY JobsTyped DEF OInv
  <1>2. interventions \in Nat /\ takeovers \in Nat BY <1>1, OcrAssumption DEF TypeOK
  <1>3. CountersGrow /\ ~Calm' BY <1>2 DEF Restart, CountersGrow, Calm
  <1>4. \A k \in Jobs : /\ job'[k].status = job[k].status /\ job'[k].attempts = job[k].attempts
                        /\ Protected(k) => Protected(k)'
    BY <1>1 DEF Restart, ClearExpiredOcrLocks, JobRow, Protected
  <1>5. \A c \in Callbacks : \/ task'[c] = task[c]
                             \/ \A k \in Jobs : task'[c][k].pc = "none"
    BY NoTaskTyped DEF Restart
  <1>6. NoNewHolder BY <1>5 DEF NoNewHolder, Holding
  <1>7. AttemptLimit' /\ UnqueuedBelowLimit'
    BY <1>4 DEF OInv, AttemptLimit, UnqueuedBelowLimit
  <1>8. ClaimsBelowLimit' BY <1>6 DEF OInv, ClaimsBelowLimit, NoNewHolder
  <1>9. HoldersCounted' BY <1>3, <1>4, <1>6, CountKept DEF Accounted
  <1> QED BY <1>1, <1>3, <1>7, <1>8, <1>9, ByParts DEF OInv

-----------------------------------------------------------------------------
(* The theorems *)

LEMMA InvInit == Init => OInv
  <1> SUFFICES ASSUME Init PROVE OInv
    OBVIOUS
  <1>1. TypeOK BY TypeInit
  <1>2. \A c \in Callbacks, j \in Jobs : task[c][j].pc = "none" BY NoTaskTyped DEF Init
  <1>3. \A j \in Jobs : Holders(j) = {} BY <1>2 DEF Holders
  <1>4. \A j \in Jobs : job[j].status = "none" /\ job[j].attempts = 0 BY DEF Init, NoJob
  <1>5. ClaimsBelowLimit /\ HolderAlone BY <1>2 DEF ClaimsBelowLimit, HolderAlone, Holding
  <1>6. UnqueuedBelowLimit /\ AttemptLimit
    BY <1>4, OcrAssumption DEF UnqueuedBelowLimit, AttemptLimit
  <1>7. HoldersCounted
    BY <1>3, FS_EmptySet DEF HoldersCounted, Init
  <1>8. OutcomeStands BY DEF OutcomeStands, Init
  <1> QED BY <1>1, <1>5, <1>6, <1>7, <1>8 DEF OInv

LEMMA InvKept == OInv /\ [Next]_vars => OInv'
  <1> SUFFICES ASSUME OInv, [Next]_vars PROVE OInv'
    OBVIOUS
  <1>1. TypeOK /\ TypeOK' BY TypeKept DEF OInv
  <1>2. interventions \in Nat /\ takeovers \in Nat BY <1>1, OcrAssumption DEF TypeOK
  <1>3. ASSUME UNCHANGED <<job, task, result>>,
               \/ Intervene \/ UNCHANGED interventions, UNCHANGED takeovers PROVE OInv'
    <2>1. NoNewHolder BY <1>3 DEF NoNewHolder
    <2>2. CountersGrow BY <1>2, <1>3 DEF CountersGrow, Intervene
    <2> QED BY <1>1, <1>3, <2>1, <2>2, JobsAlone
  <1>4. CASE Submit \/ SetKillSwitch \/ ClearKillSwitch
    BY <1>3, <1>4 DEF Submit, SetKillSwitch, ClearKillSwitch, queue, procs
  <1>5. ASSUME NEW c \in Callbacks, TickStarts(c) \/ TickProceeds(c) \/ TickEnds(c) PROVE OInv'
    BY <1>3, <1>5 DEF TickStarts, TickProceeds, TickEnds, queue
  <1>6. ASSUME NEW c \in Callbacks, NEW j \in Jobs,
               \/ Extract(c, j) \/ InsertDocumentOcrFields(c, j) \/ WriteInsights(c, j)
               \/ MirrorFailure(c, j) \/ SuccessRollsBack(c, j)
        PROVE  OInv'
    <2>1. \E pc \in TaskPc : /\ Goto(c, j, pc) \/ (End(c, j) /\ pc = "none")
                             /\ pc \in Holding => task[c][j].pc \in Holding
      BY <1>6 DEF Extract, InsertDocumentOcrFields, WriteInsights, MirrorFailure,
                  SuccessRollsBack, TaskPc, Holding
    <2>2. NoNewHolder BY <1>1, <2>1, MoveOrLeave
    <2>3. job' = job /\ result' = result /\ CountersGrow
      BY <1>2, <1>6 DEF Extract, InsertDocumentOcrFields, WriteInsights, MirrorFailure,
                        SuccessRollsBack, queue, CountersGrow
    <2> QED BY <1>1, <2>2, <2>3, JobsAlone
  <1>7. ASSUME NEW c \in Callbacks, NEW j \in Jobs, ReadInsights(c, j) PROVE OInv'
    <2>1. task \in [Callbacks -> [Jobs -> TaskState]] BY <1>1 DEF TypeOK, TaskState
    <2>2. task'[c][j].pc = "writeInsights" BY <1>7, <2>1 DEF ReadInsights, TaskState
    <2>3. \A d \in Callbacks, k \in Jobs : d # c \/ k # j => task'[d][k] = task[d][k]
      BY <1>7, <2>1 DEF ReadInsights
    <2>4. NoNewHolder BY <2>2, <2>3 DEF NoNewHolder, Holding
    <2>5. job' = job /\ result' = result /\ CountersGrow
      BY <1>2, <1>7 DEF ReadInsights, queue, CountersGrow
    <2> QED BY <1>1, <2>4, <2>5, JobsAlone
  <1>8. ASSUME NEW c \in Callbacks, SwallowedError(c) PROVE OInv'
    <2>1. job' = job /\ result' = result /\ CountersGrow
      BY <1>2, <1>8 DEF SwallowedError, queue, CountersGrow
    <2>2. CASE UNCHANGED task
      <3>1. NoNewHolder BY <2>2 DEF NoNewHolder
      <3> QED BY <1>1, <2>1, <3>1, JobsAlone
    <2>3. ASSUME NEW j \in Jobs, Goto(c, j, "readInsights") \/ End(c, j) PROVE OInv'
      <3>1. NoNewHolder BY <1>1, <2>3, MoveOrLeave DEF TaskPc, Holding
      <3> QED BY <1>1, <2>1, <3>1, JobsAlone
    <2> QED BY <1>8, <2>2, <2>3 DEF SwallowedError
  <1>9. CASE UNCHANGED vars
    BY <1>3, <1>9 DEF vars, queue, procs
  <1> QED
    BY <1>1, <1>4, <1>5, <1>6, <1>7, <1>8, <1>9, CreateKeeps, ResetKeeps, DueKeeps,
       ExpiryKeeps, OutcomeKeeps, LockKeeps, RestartKeeps DEF Next, WorkerStep, TaskStep

THEOREM QueueInvariant == Spec => []OInv
  <1> QED BY InvInit, InvKept, PTL DEF Spec

\* The bound on the holders of a job.
LEMMA HoldersWithinBound == OInv => HoldersBounded
  <1> SUFFICES ASSUME OInv, NEW j \in Jobs
               PROVE  Cardinality(Holders(j)) <= 1 + interventions + takeovers
    BY DEF HoldersBounded
  <1>1. interventions \in Nat /\ takeovers \in Nat BY OcrAssumption DEF OInv, TypeOK
  <1>2. Cardinality(Holders(j)) <= (IF Protected(j) THEN 1 ELSE 0) + interventions + takeovers
    BY DEF OInv, HoldersCounted
  <1>3. Cardinality(Holders(j)) \in Nat BY HoldersFinite
  <1> QED BY <1>1, <1>2, <1>3

\* For any number of jobs, processes, overlapping callbacks, resets and crashes,
\* the queue of src/modules/ocr is sound: only resets, crashes and expired locks
\* give a job a second worker, the attempt counter means what it says, and an
\* undisturbed result stays.
THEOREM QueueStaysSound == Spec => []QueueIsSound
  <1>1. OInv => QueueIsSound BY HoldersWithinBound DEF OInv, QueueIsSound
  <1> QED BY <1>1, QueueInvariant, PTL

\* A job is canceled only at its attempt limit and runs only below it, although
\* the counter is read when the job is locked and written back unseen.
THEOREM AttemptsEnd == Spec => []AttemptLimit
  <1>1. OInv => AttemptLimit BY DEF OInv
  <1> QED BY <1>1, QueueInvariant, PTL
-----------------------------------------------------------------------------
(* The abstract queue *)

\* A callback works on jobs only between locking a batch and its end.
IdleTasks == \A c \in Callbacks : tick[c] # "batch" => \A j \in Jobs : task[c][j].pc = "none"

\* As long as nobody interfered, a job in work has its worker, who will count
\* from the row as it is.
TakenIsHeld ==
  Calm => \A j \in Jobs :
            job[j].status = "processing" => \E c \in Callbacks : task[c][j].pc \in Holding
ClaimsAreFresh ==
  Calm => \A c \in Callbacks, j \in Jobs :
            task[c][j].pc \in Holding => task[c][j].claimed = job[j].attempts

\* Who works on a job works on one that was queued.
HeldIsQueued ==
  \A c \in Callbacks, j \in Jobs : task[c][j].pc \in Holding => job[j].status # "none"

PInv == OInv /\ IdleTasks /\ HeldIsQueued /\ TakenIsHeld /\ ClaimsAreFresh

\* No job changes hands, status or count.
SameWork ==
  /\ \A j \in Jobs : job'[j].status = job[j].status /\ job'[j].attempts = job[j].attempts
  /\ \A c \in Callbacks, j \in Jobs :
       /\ task'[c][j].pc \in Holding <=> task[c][j].pc \in Holding
       /\ task[c][j].pc \in Holding => task'[c][j].claimed = task[c][j].claimed

\* Nothing restores the calm.
LEMMA CalmEnds ==
  ASSUME OInv, OInv', [Next]_vars
  PROVE  CountersGrow /\ (Calm' => Calm)
  <1>1. /\ interventions \in Nat /\ takeovers \in Nat
        /\ interventions' \in Nat /\ takeovers' \in Nat
    BY OcrAssumption DEF OInv, TypeOK
  <1>2. /\ UNCHANGED interventions \/ interventions' = interventions + 1
        /\ UNCHANGED takeovers \/ takeovers' = takeovers + 1
    <2>1. CASE UNCHANGED vars BY <2>1 DEF vars
    <2>2. CASE Submit \/ SetKillSwitch \/ ClearKillSwitch
      BY <2>2 DEF Submit, SetKillSwitch, ClearKillSwitch, Intervene
    <2>3. ASSUME NEW j \in Jobs,
                 CreateOcrJob(j) \/ ResetOcrJob(j) \/ BecomeDue(j) \/ LockExpires(j)
          PROVE  /\ UNCHANGED interventions \/ interventions' = interventions + 1
                 /\ UNCHANGED takeovers \/ takeovers' = takeovers + 1
      BY <2>3 DEF CreateOcrJob, ResetOcrJob, BecomeDue, LockExpires, Intervene
    <2>4. ASSUME NEW c \in Callbacks, NEW j \in Jobs, TaskStep(c, j) \/ SuccessRollsBack(c, j)
          PROVE  /\ UNCHANGED interventions
                 /\ UNCHANGED takeovers \/ takeovers' = takeovers + 1
      BY <2>4 DEF TaskStep, Extract, MarkOcrJobSuccess, InsertDocumentOcrFields, ReadInsights,
                  WriteInsights, MarkOcrJobFailure, MirrorFailure, SuccessRollsBack
    <2>5. ASSUME NEW c \in Callbacks,
                 \/ TickStarts(c) \/ TickProceeds(c) \/ LockOcrJobs(c) \/ TickEnds(c)
                 \/ SwallowedError(c)
          PROVE  /\ UNCHANGED interventions
                 /\ UNCHANGED takeovers \/ takeovers' = takeovers + 1
      BY <2>5 DEF TickStarts, TickProceeds, LockOcrJobs, TickEnds, SwallowedError
    <2>6. ASSUME NEW w \in Workers, Restart(w)
          PROVE  UNCHANGED interventions /\ takeovers' = takeovers + 1
      BY <2>6 DEF Restart
    <2> QED BY <2>1, <2>2, <2>3, <2>4, <2>5, <2>6 DEF Next, WorkerStep
  <1> QED BY <1>1, <1>2 DEF CountersGrow, Calm

\* What a step does to the tasks of its callback, for IdleTasks.
LEMMA IdleKept ==
  ASSUME OInv, IdleTasks, [Next]_vars
  PROVE  IdleTasks'
  <1>1. TypeOK BY DEF OInv
  <1>2. ASSUME NEW c \in Callbacks, NEW j \in Jobs, NEW pc \in TaskPc,
               Goto(c, j, pc) \/ (End(c, j) /\ pc = "none"),
               task[c][j].pc # "none", tick' = tick
        PROVE  IdleTasks'
    <2>1. \A d \in Callbacks, k \in Jobs : d # c \/ k # j => task'[d][k] = task[d][k]
      BY <1>1, <1>2, TaskEffect
    <2>2. tick[c] = "batch" BY <1>2 DEF IdleTasks
    <2> QED BY <1>2, <2>1, <2>2 DEF IdleTasks
  <1>3. ASSUME UNCHANGED <<tick, task>> PROVE IdleTasks'
    BY <1>3 DEF IdleTasks
  <1>4. CASE UNCHANGED vars \/ Submit \/ SetKillSwitch \/ ClearKillSwitch
    BY <1>3, <1>4 DEF vars, procs, Submit, SetKillSwitch, ClearKillSwitch
  <1>5. ASSUME NEW j \in Jobs,
               CreateOcrJob(j) \/ ResetOcrJob(j) \/ BecomeDue(j) \/ LockExpires(j)
        PROVE  IdleTasks'
    BY <1>3, <1>5 DEF procs, CreateOcrJob, ResetOcrJob, BecomeDue, LockExpires
  <1>6. ASSUME NEW c \in Callbacks, NEW j \in Jobs,
               \/ Extract(c, j) \/ MarkOcrJobSuccess(c, j) \/ InsertDocumentOcrFields(c, j)
               \/ WriteInsights(c, j) \/ MarkOcrJobFailure(c, j) \/ MirrorFailure(c, j)
               \/ SuccessRollsBack(c, j)
        PROVE  IdleTasks'
    <2>1. /\ task[c][j].pc # "none" /\ tick' = tick
          /\ \E pc \in TaskPc : Goto(c, j, pc) \/ (End(c, j) /\ pc = "none")
      BY <1>6 DEF Extract, MarkOcrJobSuccess, InsertDocumentOcrFields, WriteInsights,
                  MarkOcrJobFailure, MirrorFailure, SuccessRollsBack, TaskPc
    <2> QED BY <1>2, <2>1
  <1>7. ASSUME NEW c \in Callbacks, NEW j \in Jobs, ReadInsights(c, j) PROVE IdleTasks'
    <2>1. \A d \in Callbacks : d # c => task'[d] = task[d]
      BY <1>1, <1>7 DEF ReadInsights, TypeOK
    <2>2. tick[c] = "batch" /\ tick' = tick BY <1>7 DEF ReadInsights, IdleTasks
    <2> QED BY <2>1, <2>2 DEF IdleTasks
  <1>8. ASSUME NEW c \in Callbacks, TickStarts(c) \/ TickProceeds(c) \/ TickEnds(c)
        PROVE  IdleTasks'
    <2>1. \A j \in Jobs : task[c][j].pc = "none"
      BY <1>8 DEF TickStarts, TickProceeds, TickEnds, IdleTasks
    <2>2. task' = task /\ \A d \in Callbacks : d # c => tick'[d] = tick[d]
      BY <1>1, <1>8 DEF TickStarts, TickProceeds, TickEnds, TypeOK
    <2> QED BY <2>1, <2>2 DEF IdleTasks
  <1>9. ASSUME NEW c \in Callbacks, LockOcrJobs(c) PROVE IdleTasks'
    <2>1. tick'[c] = "batch" /\ \A d \in Callbacks : d # c => tick'[d] = tick[d]
      BY <1>1, <1>9 DEF LockOcrJobs, TypeOK
    <2>2. \A d \in Callbacks : d # c => task'[d] = task[d]
      BY <1>1, <1>9 DEF LockOcrJobs, TypeOK
    <2> QED BY <2>1, <2>2 DEF IdleTasks
  <1>10. ASSUME NEW w \in Workers, Restart(w) PROVE IdleTasks'
    <2>1. \A c \in Callbacks : \/ \A j \in Jobs : task'[c][j].pc = "none"
                               \/ task'[c] = task[c] /\ tick'[c] = tick[c]
      BY <1>10, NoTaskTyped DEF Restart
    <2> QED BY <2>1 DEF IdleTasks
  <1>11. ASSUME NEW c \in Callbacks, SwallowedError(c) PROVE IdleTasks'
    <2>1. CASE tick[c] = "locking" /\ UNCHANGED task
      <3>1. \A d \in Callbacks : d # c => tick'[d] = tick[d]
        BY <1>1, <1>11, <2>1 DEF SwallowedError, TypeOK
      <3>2. \A j \in Jobs : task[c][j].pc = "none" BY <2>1 DEF IdleTasks
      <3> QED BY <2>1, <3>1, <3>2 DEF IdleTasks
    <2>2. ASSUME NEW j \in Jobs, Goto(c, j, "readInsights") \/ End(c, j),
                 task[c][j].pc # "none", tick' = tick
          PROVE  IdleTasks'
      BY <1>2, <2>2 DEF TaskPc
    <2> QED BY <1>11, <2>1, <2>2 DEF SwallowedError
  <1> QED
    BY <1>4, <1>5, <1>6, <1>7, <1>8, <1>9, <1>10, <1>11 DEF Next, WorkerStep, TaskStep

LEMMA SameWorkKeeps ==
  ASSUME HeldIsQueued, TakenIsHeld, ClaimsAreFresh, SameWork, Calm' => Calm
  PROVE  HeldIsQueued' /\ TakenIsHeld' /\ ClaimsAreFresh'
  BY DEF HeldIsQueued, TakenIsHeld, ClaimsAreFresh, SameWork

\* The steps that leave the queue to itself: time, timers, and the tasks that
\* have no outcome to write.
Elsewhere ==
  \/ UNCHANGED vars \/ Submit \/ ClearKillSwitch
  \/ \E j \in Jobs : BecomeDue(j)
  \/ \E j \in Jobs : LockExpires(j)
  \/ \E c \in Callbacks : TickStarts(c) \/ TickProceeds(c) \/ TickEnds(c)
  \/ \E c \in Callbacks, j \in Jobs :
       Extract(c, j) \/ InsertDocumentOcrFields(c, j) \/ WriteInsights(c, j) \/ MirrorFailure(c, j)
  \/ \E c \in Callbacks, j \in Jobs : ReadInsights(c, j)

LEMMA ElsewhereNothing ==
  ASSUME TypeOK, Elsewhere
  PROVE  SameWork
  <1>0. job \in [Jobs -> JobRow] /\ task \in [Callbacks -> [Jobs -> TaskState]]
    BY QueueTyped
  <1>1. ASSUME UNCHANGED <<job, task>> PROVE SameWork
    BY <1>1 DEF SameWork
  <1>2. CASE UNCHANGED vars \/ Submit \/ ClearKillSwitch
    BY <1>1, <1>2 DEF vars, queue, procs, Submit, ClearKillSwitch
  <1>3. ASSUME NEW j \in Jobs, BecomeDue(j) \/ LockExpires(j) PROVE SameWork
    <2>1. task' = task BY <1>3 DEF BecomeDue, LockExpires, procs
    <2>2. \A k \in Jobs : k # j => job'[k] = job[k]
      BY <1>0, <1>3 DEF BecomeDue, LockExpires
    <2>3. PICK row \in JobRow : row = job[j] BY <1>0
    <2>4. \/ job' = [job EXCEPT ![j] = [row EXCEPT !.due = TRUE]]
          \/ job' = [job EXCEPT ![j] = [row EXCEPT !.expired = TRUE]]
      BY <1>3, <2>3 DEF BecomeDue, LockExpires
    <2>5. job'[j] = [row EXCEPT !.due = TRUE] \/ job'[j] = [row EXCEPT !.expired = TRUE]
      BY <1>0, <2>4
    <2>6. job'[j].status = job[j].status /\ job'[j].attempts = job[j].attempts
      BY <2>3, <2>5 DEF JobRow
    <2> QED BY <2>1, <2>2, <2>6 DEF SameWork
  <1>4. ASSUME NEW c \in Callbacks, TickStarts(c) \/ TickProceeds(c) \/ TickEnds(c)
        PROVE  SameWork
    BY <1>1, <1>4 DEF TickStarts, TickProceeds, TickEnds, queue
  <1>5. ASSUME NEW c \in Callbacks, NEW j \in Jobs,
               \/ Extract(c, j) \/ InsertDocumentOcrFields(c, j) \/ WriteInsights(c, j)
               \/ MirrorFailure(c, j)
        PROVE  SameWork
    <2>1. PICK pc \in TaskPc : /\ Goto(c, j, pc) \/ (End(c, j) /\ pc = "none")
                               /\ pc \in Holding <=> task[c][j].pc \in Holding
      BY <1>5 DEF Extract, InsertDocumentOcrFields, WriteInsights, MirrorFailure, TaskPc, Holding
    <2>2. /\ task'[c][j].pc = pc
          /\ pc # "none" => task'[c][j].claimed = task[c][j].claimed
          /\ \A d \in Callbacks, k \in Jobs : d # c \/ k # j => task'[d][k] = task[d][k]
      BY <2>1, TaskEffect
    <2>3. job' = job
      BY <1>5 DEF Extract, InsertDocumentOcrFields, WriteInsights, MirrorFailure, queue
    <2> QED BY <2>1, <2>2, <2>3 DEF SameWork, Holding
  <1>6. ASSUME NEW c \in Callbacks, NEW j \in Jobs, ReadInsights(c, j) PROVE SameWork
    <2>1. /\ task'[c][j].pc = "writeInsights" /\ task[c][j].pc = "readInsights"
          /\ \A d \in Callbacks, k \in Jobs : d # c \/ k # j => task'[d][k] = task[d][k]
      BY <1>0, <1>6 DEF ReadInsights, TaskState
    <2>2. job' = job BY <1>6 DEF ReadInsights, queue
    <2> QED BY <2>1, <2>2 DEF SameWork, Holding
  <1> QED BY <1>2, <1>3, <1>4, <1>5, <1>6 DEF Elsewhere

\* Staff, crashes and swallowed errors end the calm; nobody takes up a job.
LEMMA DisturbanceSeen ==
  ASSUME TypeOK,
         \/ SetKillSwitch \/ (\E w \in Workers : Restart(w))
         \/ (\E c \in Callbacks, j \in Jobs : SuccessRollsBack(c, j))
         \/ (\E c \in Callbacks : SwallowedError(c))
  PROVE  /\ ~Calm' /\ NoNewHolder
         /\ \A k \in Jobs : job'[k].status = job[k].status /\ job'[k].attempts = job[k].attempts
  <1>1. interventions \in Nat /\ takeovers \in Nat BY OcrAssumption DEF TypeOK
  <1>2. CASE SetKillSwitch
    <2>1. job' = job /\ task' = task /\ interventions' = interventions + 1
      BY <1>2 DEF SetKillSwitch, Intervene, queue, procs
    <2> QED BY <1>1, <2>1 DEF Calm, NoNewHolder
  <1>3. ASSUME NEW w \in Workers, Restart(w)
        PROVE  /\ ~Calm' /\ NoNewHolder
               /\ \A k \in Jobs : job'[k].status = job[k].status /\ job'[k].attempts = job[k].attempts
    <2>1. \A k \in Jobs : job'[k].status = job[k].status /\ job'[k].attempts = job[k].attempts
      BY <1>3, QueueTyped DEF Restart, ClearExpiredOcrLocks, JobRow
    <2>2. \A c \in Callbacks : \/ task'[c] = task[c]
                               \/ \A k \in Jobs : task'[c][k].pc = "none"
      BY <1>3, NoTaskTyped DEF Restart
    <2>3. NoNewHolder BY <2>2 DEF NoNewHolder, Holding
    <2> QED BY <1>1, <1>3, <2>1, <2>3 DEF Restart, Calm
  <1>4. ASSUME NEW c \in Callbacks, NEW j \in Jobs, SuccessRollsBack(c, j)
        PROVE  ~Calm' /\ NoNewHolder /\ job' = job
    <2>1. NoNewHolder
      BY <1>4, MoveOrLeave DEF SuccessRollsBack, TaskPc, Holding
    <2>2. job' = job /\ takeovers' = takeovers + 1 BY <1>4 DEF SuccessRollsBack, queue
    <2>3. takeovers' # 0 BY <1>1, <2>2
    <2> QED BY <2>1, <2>2, <2>3 DEF Calm
  <1>5. ASSUME NEW c \in Callbacks, SwallowedError(c)
        PROVE  ~Calm' /\ NoNewHolder /\ job' = job
    <2>1. ASSUME UNCHANGED task PROVE NoNewHolder BY <2>1 DEF NoNewHolder
    <2>2. ASSUME NEW j \in Jobs, Goto(c, j, "readInsights") \/ End(c, j) PROVE NoNewHolder
      BY <2>2, MoveOrLeave DEF TaskPc, Holding
    <2>3. NoNewHolder BY <1>5, <2>1, <2>2 DEF SwallowedError
    <2>4. job' = job /\ takeovers' = takeovers + 1 BY <1>5 DEF SwallowedError, queue
    <2>5. takeovers' # 0 BY <1>1, <2>4
    <2> QED BY <2>3, <2>4, <2>5 DEF Calm
  <1> QED BY <1>2, <1>3, <1>4, <1>5

\* The rows and tasks after a batch is locked.
LEMMA BatchLocked ==
  ASSUME OInv, IdleTasks, NEW c \in Callbacks, LockOcrJobs(c)
  PROVE  /\ UNCHANGED <<interventions, takeovers>>
         /\ \E batch \in SUBSET Jobs :
              /\ \A j \in batch :
                   /\ job'[j].status = "processing" /\ job'[j].attempts = job[j].attempts
                   /\ task'[c][j].pc = "extract" /\ task'[c][j].claimed = job[j].attempts
                   /\ job[j].status \in {"queued", "failed", "processing"} /\ ~Protected(j)
              /\ \A j \in Jobs \ batch :
                   /\ job'[j] = job[j]
                   /\ task'[c][j].pc = "none" /\ task[c][j].pc = "none"
              /\ \A d \in Callbacks, j \in Jobs : d # c => task'[d][j] = task[d][j]
  <1>1. /\ job \in [Jobs -> JobRow] /\ task \in [Callbacks -> [Jobs -> TaskState]]
    BY QueueTyped DEF OInv
  <1>2. UNCHANGED <<interventions, takeovers>> /\ tick[c] = "locking" BY DEF LockOcrJobs
  <1>3. PICK batch \in SUBSET Jobs :
          /\ \A j \in batch : Lockable(j)
          /\ job' = [j \in Jobs |->
                    IF j \in batch
                      THEN [job[j] EXCEPT !.status = "processing", !.locked = TRUE,
                                          !.expired = FALSE]
                      ELSE job[j]]
          /\ task' = [task EXCEPT ![c] =
                    [j \in Jobs |-> IF j \in batch
                                      THEN [pc |-> "extract", claimed |-> job[j].attempts,
                                            seen |-> {}]
                                      ELSE NoTask]]
    BY DEF LockOcrJobs
  <1>4. \A j \in Jobs : task'[c][j] = IF j \in batch
                                         THEN [pc |-> "extract", claimed |-> job[j].attempts,
                                               seen |-> {}]
                                         ELSE NoTask
    BY <1>1, <1>3
  <1>5. ASSUME NEW j \in batch
        PROVE  /\ job'[j].status = "processing" /\ job'[j].attempts = job[j].attempts
               /\ task'[c][j].pc = "extract" /\ task'[c][j].claimed = job[j].attempts
               /\ job[j].status \in {"queued", "failed", "processing"} /\ ~Protected(j)
    <2>1. j \in Jobs /\ job[j] \in JobRow BY <1>1
    <2>2. job'[j] = [job[j] EXCEPT !.status = "processing", !.locked = TRUE, !.expired = FALSE]
      BY <1>3, <2>1
    <2>3. job'[j].status = "processing" /\ job'[j].attempts = job[j].attempts
      BY <2>1, <2>2 DEF JobRow
    <2>4. job[j].status \in {"queued", "failed", "processing"} /\ ~Protected(j)
      BY <1>3 DEF Lockable, Protected
    <2>5. task'[c][j] = [pc |-> "extract", claimed |-> job[j].attempts, seen |-> {}]
      BY <1>4, <2>1
    <2>6. task'[c][j].pc = "extract" /\ task'[c][j].claimed = job[j].attempts
      BY <2>5
    <2> QED BY <2>3, <2>4, <2>6
  <1>6. \A j \in Jobs \ batch : /\ job'[j] = job[j]
                                /\ task'[c][j].pc = "none" /\ task[c][j].pc = "none"
    BY <1>2, <1>3, <1>4, NoTaskTyped DEF IdleTasks
  <1>7. \A d \in Callbacks, j \in Jobs : d # c => task'[d][j] = task[d][j]
    BY <1>1, <1>3
  <1> QED BY <1>2, <1>5, <1>6, <1>7

\* The row and the tasks after an outcome is written.
LEMMA OutcomeWritten ==
  ASSUME OInv, NEW c \in Callbacks, NEW j \in Jobs,
         MarkOcrJobSuccess(c, j) \/ MarkOcrJobFailure(c, j)
  PROVE  /\ UNCHANGED <<interventions, takeovers>>
         /\ task[c][j].pc \in Holding /\ task'[c][j].pc \notin Holding
         /\ NoNewHolder
         /\ \A d \in Callbacks, k \in Jobs : d # c \/ k # j => task'[d][k] = task[d][k]
         /\ \A k \in Jobs : k # j => job'[k] = job[k]
         /\ MarkOcrJobSuccess(c, j)
              => job'[j].status = "succeeded" /\ job'[j].attempts = job[j].attempts
         /\ MarkOcrJobFailure(c, j)
              => /\ job'[j].status = IF Exhausted(Attempts(c, j)) THEN "canceled" ELSE "failed"
                 /\ job'[j].attempts = Attempts(c, j)
  <1>1. TypeOK /\ job \in [Jobs -> JobRow] BY JobsTyped DEF OInv
  <1>2. PICK pc \in {"fields", "failDoc", "none"} :
          Goto(c, j, pc) \/ (End(c, j) /\ pc = "none")
    BY DEF MarkOcrJobSuccess, MarkOcrJobFailure
  <1>3. UNCHANGED <<interventions, takeovers>> /\ task[c][j].pc \in Holding
    BY DEF MarkOcrJobSuccess, MarkOcrJobFailure, Holding
  <1>4. NoNewHolder /\ task'[c][j].pc \notin Holding
    BY <1>1, <1>2, MoveOrLeave DEF TaskPc, Holding
  <1>5. \A d \in Callbacks, k \in Jobs : d # c \/ k # j => task'[d][k] = task[d][k]
    BY <1>1, <1>2, TaskEffect DEF TaskPc
  <1>6. \A k \in Jobs : k # j => job'[k] = job[k]
    BY <1>1 DEF MarkOcrJobSuccess, MarkOcrJobFailure
  <1>7. ASSUME MarkOcrJobSuccess(c, j)
        PROVE  job'[j].status = "succeeded" /\ job'[j].attempts = job[j].attempts
    BY <1>1, <1>7 DEF MarkOcrJobSuccess, JobRow
  <1>8. ASSUME MarkOcrJobFailure(c, j)
        PROVE  /\ job'[j].status = IF Exhausted(Attempts(c, j)) THEN "canceled" ELSE "failed"
               /\ job'[j].attempts = Attempts(c, j)
    BY <1>1, <1>8 DEF MarkOcrJobFailure, NoJob, JobRow
  <1> QED BY <1>3, <1>4, <1>5, <1>6, <1>7, <1>8

LEMMA PInvInit == Init => PInv
  <1> SUFFICES ASSUME Init PROVE PInv
    OBVIOUS
  <1>1. OInv BY InvInit
  <1>2. \A c \in Callbacks, j \in Jobs : task[c][j].pc = "none" BY NoTaskTyped DEF Init
  <1>3. \A j \in Jobs : job[j].status = "none" BY DEF Init, NoJob
  <1> QED
    BY <1>1, <1>2, <1>3 DEF PInv, IdleTasks, HeldIsQueued, TakenIsHeld, ClaimsAreFresh, Holding

LEMMA LockKeepsCalm ==
  ASSUME PInv, NEW c \in Callbacks, LockOcrJobs(c)
  PROVE  HeldIsQueued' /\ TakenIsHeld' /\ ClaimsAreFresh'
  <1>1. PICK batch \in SUBSET Jobs :
          /\ \A j \in batch :
               /\ job'[j].status = "processing" /\ job'[j].attempts = job[j].attempts
               /\ task'[c][j].pc = "extract" /\ task'[c][j].claimed = job[j].attempts
               /\ job[j].status \in {"queued", "failed", "processing"} /\ ~Protected(j)
          /\ \A j \in Jobs \ batch :
               job'[j] = job[j] /\ task'[c][j].pc = "none" /\ task[c][j].pc = "none"
          /\ \A d \in Callbacks, j \in Jobs : d # c => task'[d][j] = task[d][j]
    <2>1. OInv /\ IdleTasks BY DEF PInv
    <2> QED BY <2>1, BatchLocked
  <1>2. Calm' => Calm
    <2>1. UNCHANGED <<interventions, takeovers>> BY BatchLocked DEF PInv
    <2> QED BY <2>1 DEF Calm
  <1>3. HeldIsQueued'
    <2> SUFFICES ASSUME NEW d \in Callbacks, NEW j \in Jobs, task'[d][j].pc \in Holding
                 PROVE  job'[j].status # "none"
      BY DEF HeldIsQueued
    <2>1. CASE j \in batch BY <1>1, <2>1
    <2>2. CASE j \notin batch
      <3>1. task[d][j].pc \in Holding BY <1>1, <2>2 DEF Holding
      <3> QED BY <1>1, <2>2, <3>1 DEF PInv, HeldIsQueued
    <2> QED BY <2>1, <2>2
  <1>4. TakenIsHeld'
    <2> SUFFICES ASSUME Calm, NEW j \in Jobs, job'[j].status = "processing"
                 PROVE  \E d \in Callbacks : task'[d][j].pc \in Holding
      BY <1>2 DEF TakenIsHeld
    <2>1. CASE j \in batch BY <1>1, <2>1 DEF Holding
    <2>2. CASE j \notin batch
      <3>1. PICK d \in Callbacks : task[d][j].pc \in Holding
        BY <1>1, <2>2 DEF PInv, TakenIsHeld
      <3>2. d # c BY <1>1, <2>2, <3>1 DEF Holding
      <3> QED BY <1>1, <3>1, <3>2
    <2> QED BY <2>1, <2>2
  <1>5. ClaimsAreFresh'
    <2> SUFFICES ASSUME Calm, NEW d \in Callbacks, NEW j \in Jobs, task'[d][j].pc \in Holding
                 PROVE  task'[d][j].claimed = job'[j].attempts
      BY <1>2 DEF ClaimsAreFresh
    <2>1. CASE j \in batch
      <3>1. CASE d = c BY <1>1, <2>1, <3>1
      <3>2. CASE d # c
        <4>1. task'[d][j] = task[d][j] BY <1>1, <3>2
        <4> QED BY <1>1, <2>1, <4>1 DEF PInv, ClaimsAreFresh
      <3> QED BY <3>1, <3>2
    <2>2. CASE j \notin batch
      <3>1. d # c BY <1>1, <2>2 DEF Holding
      <3> QED BY <1>1, <2>2, <3>1 DEF PInv, ClaimsAreFresh
    <2> QED BY <2>1, <2>2
  <1> QED BY <1>3, <1>4, <1>5

LEMMA OutcomeKeepsCalm ==
  ASSUME PInv, NEW c \in Callbacks, NEW j \in Jobs,
         MarkOcrJobSuccess(c, j) \/ MarkOcrJobFailure(c, j)
  PROVE  HeldIsQueued' /\ TakenIsHeld' /\ ClaimsAreFresh'
  <1>1. /\ UNCHANGED <<interventions, takeovers>>
        /\ task[c][j].pc \in Holding /\ task'[c][j].pc \notin Holding
        /\ NoNewHolder
        /\ \A d \in Callbacks, k \in Jobs : d # c \/ k # j => task'[d][k] = task[d][k]
        /\ \A k \in Jobs : k # j => job'[k] = job[k]
        /\ job'[j].status \in {"succeeded", "canceled", "failed"}
    BY OutcomeWritten DEF PInv
  <1>2. Calm' => Calm BY <1>1 DEF Calm
  <1>3. HeldIsQueued'
    BY <1>1 DEF PInv, HeldIsQueued, NoNewHolder
  <1>4. TakenIsHeld'
    <2> SUFFICES ASSUME Calm, NEW k \in Jobs, job'[k].status = "processing"
                 PROVE  \E d \in Callbacks : task'[d][k].pc \in Holding
      BY <1>2 DEF TakenIsHeld
    <2>1. k # j /\ job'[k] = job[k] BY <1>1
    <2>2. PICK d \in Callbacks : task[d][k].pc \in Holding
      BY <2>1 DEF PInv, TakenIsHeld
    <2> QED BY <1>1, <2>1, <2>2
  <1>5. ClaimsAreFresh'
    <2> SUFFICES ASSUME Calm, NEW d \in Callbacks, NEW k \in Jobs, task'[d][k].pc \in Holding
                 PROVE  task'[d][k].claimed = job'[k].attempts
      BY <1>2 DEF ClaimsAreFresh
    <2>1. task[d][k].pc \in Holding /\ task'[d][k].claimed = task[d][k].claimed
      BY <1>1 DEF NoNewHolder
    <2>2. CASE k = j
      <3>1. d = c BY <1>1, <2>1, <2>2 DEF PInv, OInv, HolderAlone
      <3> QED BY <1>1, <2>2, <3>1
    <2>3. CASE k # j
      BY <1>1, <2>1, <2>3 DEF PInv, ClaimsAreFresh
    <2> QED BY <2>2, <2>3
  <1> QED BY <1>3, <1>4, <1>5

\* A step is one that says nothing about jobs, one that ends the calm, or one of
\* the five statements that write a row.
LEMMA StepKinds ==
  ASSUME [Next]_vars
  PROVE  \/ Elsewhere
         \/ SetKillSwitch \/ (\E w \in Workers : Restart(w))
         \/ (\E c \in Callbacks, j \in Jobs : SuccessRollsBack(c, j))
         \/ (\E c \in Callbacks : SwallowedError(c))
         \/ (\E j \in Jobs : CreateOcrJob(j))
         \/ (\E j \in Jobs : ResetOcrJob(j))
         \/ (\E c \in Callbacks : LockOcrJobs(c))
         \/ (\E c \in Callbacks, j \in Jobs : MarkOcrJobSuccess(c, j) \/ MarkOcrJobFailure(c, j))
  BY DEF Next, WorkerStep, TaskStep, Elsewhere

LEMMA PInvKept == PInv /\ [Next]_vars => PInv'
  <1> SUFFICES ASSUME PInv, [Next]_vars PROVE PInv'
    OBVIOUS
  <1>1. OInv /\ OInv' /\ IdleTasks' /\ TypeOK
    BY InvKept, IdleKept DEF PInv, OInv
  <1>2. Calm' => Calm BY <1>1, CalmEnds
  <1>3. CASE Elsewhere
    BY <1>1, <1>2, <1>3, ElsewhereNothing, SameWorkKeeps DEF PInv
  <1>4. CASE \/ SetKillSwitch \/ (\E w \in Workers : Restart(w))
             \/ (\E c \in Callbacks, j \in Jobs : SuccessRollsBack(c, j))
             \/ (\E c \in Callbacks : SwallowedError(c))
    <2>1. /\ ~Calm' /\ NoNewHolder
          /\ \A k \in Jobs : job'[k].status = job[k].status
      BY <1>1, <1>4, DisturbanceSeen
    <2>2. TakenIsHeld' /\ ClaimsAreFresh' BY <2>1 DEF TakenIsHeld, ClaimsAreFresh
    <2>3. HeldIsQueued' BY <2>1 DEF PInv, HeldIsQueued, NoNewHolder
    <2> QED BY <1>1, <2>2, <2>3 DEF PInv
  <1>5. ASSUME NEW j \in Jobs, CreateOcrJob(j) PROVE PInv'
    <2>1. /\ \A k \in Jobs : k # j => job'[k] = job[k]
          /\ job'[j].status = "queued" /\ job'[j].attempts = job[j].attempts
      BY <1>1, <1>5, JobsTyped DEF CreateOcrJob, JobRow
    <2>2. task' = task /\ job[j].status = "none" BY <1>5 DEF CreateOcrJob, procs
    <2>3. HeldIsQueued' BY <2>1, <2>2 DEF PInv, HeldIsQueued
    <2>4. TakenIsHeld' BY <1>2, <2>1, <2>2 DEF PInv, TakenIsHeld
    <2>5. ClaimsAreFresh' BY <1>2, <2>1, <2>2 DEF PInv, ClaimsAreFresh
    <2> QED BY <1>1, <2>3, <2>4, <2>5 DEF PInv
  <1>6. ASSUME NEW j \in Jobs, ResetOcrJob(j) PROVE PInv'
    <2>1. /\ \A k \in Jobs : k # j => job'[k] = job[k]
          /\ job'[j].status = "queued" /\ task' = task
      BY <1>1, <1>6, JobsTyped DEF ResetOcrJob, NoJob, procs
    <2>2. ~Calm'
      BY <1>1, <1>6, OcrAssumption DEF ResetOcrJob, Intervene, TypeOK, Calm
    <2>3. TakenIsHeld' /\ ClaimsAreFresh' BY <2>2 DEF TakenIsHeld, ClaimsAreFresh
    <2>4. HeldIsQueued' BY <2>1 DEF PInv, HeldIsQueued
    <2> QED BY <1>1, <2>3, <2>4 DEF PInv
  <1>7. ASSUME NEW c \in Callbacks, LockOcrJobs(c) PROVE PInv'
    BY <1>1, <1>7, LockKeepsCalm DEF PInv
  <1>8. ASSUME NEW c \in Callbacks, NEW j \in Jobs,
               MarkOcrJobSuccess(c, j) \/ MarkOcrJobFailure(c, j)
        PROVE  PInv'
    BY <1>1, <1>8, OutcomeKeepsCalm DEF PInv
  <1> QED BY <1>3, <1>4, <1>5, <1>6, <1>7, <1>8, StepKinds

THEOREM PromiseInvariant == Spec => []PInv
  <1> QED BY PInvInit, PInvKept, PTL DEF Spec

-----------------------------------------------------------------------------
(* The refinement of JobQueue *)

\* The rows and the callbacks as the abstract queue sees them.
Stages == [j \in Jobs |-> Promised(job[j].status)]
Counts == [j \in Jobs |-> job[j].attempts]
Hands == [j \in Jobs |-> Holders(j)]

LEMMA SameStages ==
  ASSUME \A j \in Jobs : job'[j].status = job[j].status /\ job'[j].attempts = job[j].attempts
  PROVE  Stages' = Stages /\ Counts' = Counts
  BY DEF Stages, Counts

LEMMA SameHands ==
  ASSUME SameWork
  PROVE  Hands' = Hands
  <1>1. \A j \in Jobs : Holders(j)' = Holders(j)
    BY DEF SameWork, Holders, Holding
  <1> QED BY <1>1 DEF Hands

\* A row written, and the abstract row with it.
LEMMA RowWritten ==
  ASSUME NEW j \in Jobs, \A k \in Jobs : k # j => job'[k] = job[k]
  PROVE  /\ Stages' = [Stages EXCEPT ![j] = Promised(job'[j].status)]
         /\ Counts' = [Counts EXCEPT ![j] = job'[j].attempts]
  BY DEF Stages, Counts

LEMMA PromiseStarts == Init => Promise!QueueInit
  <1> SUFFICES ASSUME Init PROVE Promise!QueueInit
    OBVIOUS
  <1>1. \A j \in Jobs : job[j].status = "none" /\ job[j].attempts = 0 BY DEF Init, NoJob
  <1>2. \A j \in Jobs : Promised(job[j].status) = "none" BY <1>1 DEF Promised
  <1>3. \A j \in Jobs : Holders(j) = {} BY NoTaskTyped DEF Init, Holders
  <1>4. Calm BY DEF Init, Calm
  <1> QED BY <1>1, <1>2, <1>3, <1>4 DEF Promise!QueueInit

\* What the actions of JobQueue say of these values.
LEMMA StutterSpelled ==
  ASSUME Stages' = Stages, Counts' = Counts, Hands' = Hands, Calm' = Calm
  PROVE  UNCHANGED Promise!queueVars
  BY DEF Promise!queueVars, Stages, Counts, Hands

LEMMA InterfereSpelled ==
  ASSUME Stages' = Stages, Counts' = Counts, Calm' = FALSE,
         \A j \in Jobs : Holders(j)' \subseteq Holders(j)
  PROVE  Promise!Interfere
  <1> DEFINE left == Hands'
  <1>1. left \in [Jobs -> SUBSET Callbacks] BY DEF Hands, Holders
  <1>2. Hands' = left /\ \A j \in Jobs : left[j] \subseteq Hands[j] BY DEF Hands
  <1>3. \E l \in [Jobs -> SUBSET Callbacks] :
          Hands' = l /\ \A j \in Jobs : l[j] \subseteq Hands[j]
    BY <1>1, <1>2
  <1> QED BY <1>3 DEF Promise!Interfere, Stages, Counts, Hands

LEMMA OfferSpelled ==
  ASSUME NEW j \in Jobs, Stages[j] = "none", Stages' = [Stages EXCEPT ![j] = "waiting"],
         Counts' = Counts, Hands' = Hands, Calm' = Calm
  PROVE  Promise!Offer(j)
  BY DEF Promise!Offer, Stages, Counts, Hands

LEMMA TakeSpelled ==
  ASSUME NEW c \in Callbacks, NEW batch \in SUBSET Jobs,
         \A j \in batch : IF Calm THEN Stages[j] = "waiting" /\ Hands[j] = {}
                                  ELSE Stages[j] \in {"waiting", "taken"},
         Stages' = [j \in Jobs |-> IF j \in batch THEN "taken" ELSE Stages[j]],
         Hands' = [j \in Jobs |-> IF j \in batch THEN Hands[j] \cup {c} ELSE Hands[j]],
         Counts' = Counts, Calm' = Calm
  PROVE  Promise!Take(c, batch)
  BY DEF Promise!Take, Stages, Counts, Hands

LEMMA ResetSpelled ==
  ASSUME NEW j \in Jobs, Stages[j] # "none", Stages' = [Stages EXCEPT ![j] = "waiting"],
         Counts' = [Counts EXCEPT ![j] = 0], Hands' = Hands, Calm' = FALSE
  PROVE  Promise!Reset(j)
  BY DEF Promise!Reset, Stages, Counts, Hands

\* A callback hands in the outcome of a job it has.
HandedIn(c, j) ==
  /\ c \in Hands[j]
  /\ Calm => Stages[j] = "taken" /\ Hands[j] = {c}
  /\ Hands' = [Hands EXCEPT ![j] = Hands[j] \ {c}]
  /\ Calm' = Calm

LEMMA HandsInSpelled ==
  ASSUME NEW c \in Callbacks, NEW j \in Jobs, HandedIn(c, j)
  PROVE  Promise!HandsIn(c, j)
  BY DEF HandedIn, Promise!HandsIn, Stages, Hands

LEMMA SucceedSpelled ==
  ASSUME NEW c \in Callbacks, NEW j \in Jobs, HandedIn(c, j),
         Stages' = [Stages EXCEPT ![j] = "done"], Counts' = Counts
  PROVE  Promise!Succeed(c, j)
  BY HandsInSpelled DEF Promise!Succeed, Stages, Counts

LEMMA FailSpelled ==
  ASSUME NEW c \in Callbacks, NEW j \in Jobs, NEW n, HandedIn(c, j),
         Calm => n = Counts[j] + 1,
         Stages' = [Stages EXCEPT ![j] = IF n = MaxAttempts THEN "dead" ELSE "waiting"],
         Counts' = [Counts EXCEPT ![j] = n]
  PROVE  Promise!Fail(c, j, n)
  BY HandsInSpelled DEF Promise!Fail, Stages, Counts

\* Each statement that writes a row is an action of JobQueue.
LEMMA OfferRefines ==
  ASSUME PInv, NEW j \in Jobs, CreateOcrJob(j)
  PROVE  Promise!Offer(j)
  <1>1. /\ \A k \in Jobs : k # j => job'[k] = job[k]
        /\ job'[j].status = "queued" /\ job'[j].attempts = job[j].attempts
    BY JobsTyped DEF PInv, OInv, CreateOcrJob, JobRow
  <1>2. job[j].status = "none" /\ Calm' = Calm BY DEF CreateOcrJob, Calm
  <1>3. Stages[j] = "none" BY <1>2 DEF Stages, Promised
  <1>4. Stages' = [Stages EXCEPT ![j] = "waiting"] BY <1>1, RowWritten DEF Promised
  <1>5. Counts' = Counts BY <1>1 DEF Counts
  <1>6. Hands' = Hands BY DEF CreateOcrJob, procs, Hands, Holders
  <1> QED BY <1>2, <1>3, <1>4, <1>5, <1>6, OfferSpelled

LEMMA ResetRefines ==
  ASSUME PInv, NEW j \in Jobs, ResetOcrJob(j)
  PROVE  Promise!Reset(j)
  <1>1. /\ \A k \in Jobs : k # j => job'[k] = job[k]
        /\ job'[j].status = "queued" /\ job'[j].attempts = 0
    BY JobsTyped DEF PInv, OInv, ResetOcrJob, NoJob
  <1>2. Calm' = FALSE
    <2>1. interventions \in Nat /\ interventions' = interventions + 1
      BY OcrAssumption DEF PInv, OInv, TypeOK, ResetOcrJob, Intervene
    <2>2. interventions' # 0 BY <2>1
    <2> QED BY <2>2 DEF Calm
  <1>3. job[j].status \in {"queued", "failed", "processing", "succeeded", "canceled"}
    BY DEF PInv, OInv, TypeOK, ResetOcrJob, JobStatus
  <1>4. Stages[j] # "none" BY <1>3 DEF Stages, Promised
  <1>5. Stages' = [Stages EXCEPT ![j] = "waiting"] BY <1>1, RowWritten DEF Promised
  <1>6. Counts' = [Counts EXCEPT ![j] = 0] BY <1>1, RowWritten
  <1>7. Hands' = Hands BY DEF ResetOcrJob, procs, Hands, Holders
  <1> QED BY <1>2, <1>4, <1>5, <1>6, <1>7, ResetSpelled

LEMMA TakeRefines ==
  ASSUME PInv, NEW c \in Callbacks, LockOcrJobs(c)
  PROVE  \E batch \in SUBSET Jobs : Promise!Take(c, batch)
  <1>1. PICK batch \in SUBSET Jobs :
          /\ \A j \in batch :
               /\ job'[j].status = "processing" /\ job'[j].attempts = job[j].attempts
               /\ task'[c][j].pc = "extract" /\ task'[c][j].claimed = job[j].attempts
               /\ job[j].status \in {"queued", "failed", "processing"} /\ ~Protected(j)
          /\ \A j \in Jobs \ batch :
               job'[j] = job[j] /\ task'[c][j].pc = "none" /\ task[c][j].pc = "none"
          /\ \A d \in Callbacks, j \in Jobs : d # c => task'[d][j] = task[d][j]
    <2>1. OInv /\ IdleTasks BY DEF PInv
    <2> QED BY <2>1, BatchLocked
  <1>2. Calm' = Calm
    <2>1. UNCHANGED <<interventions, takeovers>> BY BatchLocked DEF PInv
    <2> QED BY <2>1 DEF Calm
  <1>3. ASSUME NEW j \in batch
        PROVE  IF Calm THEN Stages[j] = "waiting" /\ Hands[j] = {}
                       ELSE Stages[j] \in {"waiting", "taken"}
    <2>1. Stages[j] = Promised(job[j].status) /\ Hands[j] = Holders(j) BY DEF Stages, Hands
    <2>2. job[j].status \in {"queued", "failed", "processing"} /\ ~Protected(j) BY <1>1
    <2>3. Stages[j] \in {"waiting", "taken"} BY <2>1, <2>2 DEF Promised
    <2>4. ASSUME Calm PROVE Stages[j] = "waiting" /\ Hands[j] = {}
      <3>1. \A d \in Callbacks : task[d][j].pc \notin Holding
        BY <2>2, <2>4 DEF PInv, OInv, HolderAlone
      <3>2. job[j].status # "processing" BY <2>4, <3>1 DEF PInv, TakenIsHeld
      <3>3. Stages[j] = "waiting" BY <2>1, <2>2, <3>2 DEF Promised
      <3>4. Hands[j] = {} BY <2>1, <3>1 DEF Holders, Holding
      <3> QED BY <3>3, <3>4
    <2> QED BY <2>3, <2>4
  <1>4. Stages' = [j \in Jobs |-> IF j \in batch THEN "taken" ELSE Stages[j]]
    <2>1. \A j \in batch : Promised(job'[j].status) = "taken" BY <1>1 DEF Promised
    <2>2. \A j \in Jobs \ batch : Promised(job'[j].status) = Stages[j] BY <1>1 DEF Stages
    <2>3. Stages' = [j \in Jobs |-> Promised(job'[j].status)] BY DEF Stages
    <2> QED BY <2>1, <2>2, <2>3
  <1>5. Hands' = [j \in Jobs |-> IF j \in batch THEN Hands[j] \cup {c} ELSE Hands[j]]
    <2>1. \A j \in batch : Holders(j)' = Holders(j) \cup {c}
      BY <1>1 DEF Holders
    <2>2. \A j \in Jobs \ batch : Holders(j)' = Holders(j)
      <3> SUFFICES ASSUME NEW j \in Jobs \ batch, NEW d \in Callbacks
                   PROVE  d \in Holders(j)' <=> d \in Holders(j)
        BY DEF Holders
      <3>1. CASE d = c BY <1>1, <3>1 DEF Holders
      <3>2. CASE d # c BY <1>1, <3>2 DEF Holders
      <3> QED BY <3>1, <3>2
    <2>3. Hands' = [j \in Jobs |-> Holders(j)'] BY DEF Hands
    <2>4. \A j \in Jobs : Hands[j] = Holders(j) BY DEF Hands
    <2> QED BY <2>1, <2>2, <2>3, <2>4
  <1>6. Counts' = Counts
    <2>1. \A j \in Jobs : job'[j].attempts = job[j].attempts BY <1>1
    <2> QED BY <2>1 DEF Counts
  <1>7. Promise!Take(c, batch) BY <1>2, <1>3, <1>4, <1>5, <1>6, TakeSpelled
  <1> QED BY <1>7

\* An outcome is written by a callback that has the job, and by nobody else as
\* long as it is calm.
LEMMA OutcomeHandedIn ==
  ASSUME PInv, NEW c \in Callbacks, NEW j \in Jobs,
         MarkOcrJobSuccess(c, j) \/ MarkOcrJobFailure(c, j)
  PROVE  HandedIn(c, j)
  <1>1. /\ UNCHANGED <<interventions, takeovers>>
        /\ task[c][j].pc \in Holding /\ task'[c][j].pc \notin Holding
        /\ \A d \in Callbacks, k \in Jobs : d # c \/ k # j => task'[d][k] = task[d][k]
    BY OutcomeWritten DEF PInv
  <1>2. Calm' = Calm BY <1>1 DEF Calm
  <1>3. c \in Holders(j) /\ Hands[j] = Holders(j) /\ Stages[j] = Promised(job[j].status)
    BY <1>1 DEF Holders, Holding, Hands, Stages
  <1>4. ASSUME Calm PROVE Stages[j] = "taken" /\ Holders(j) = {c}
    <2>1. /\ job[j].status = "processing"
          /\ \A d \in Callbacks : task[d][j].pc \in Holding => d = c
      BY <1>1, <1>4 DEF PInv, OInv, HolderAlone
    <2>2. Stages[j] = "taken" BY <1>3, <2>1 DEF Promised
    <2>3. Holders(j) = {c} BY <1>3, <2>1 DEF Holders, Holding
    <2> QED BY <2>2, <2>3
  <1>5. Hands' = [Hands EXCEPT ![j] = Hands[j] \ {c}]
    <2>1. Holders(j)' = Holders(j) \ {c} BY <1>1 DEF Holders, Holding
    <2>2. \A k \in Jobs : k # j => Holders(k)' = Holders(k) BY <1>1 DEF Holders
    <2>3. Hands' = [k \in Jobs |-> Holders(k)'] BY DEF Hands
    <2>4. Hands = [k \in Jobs |-> Holders(k)] BY DEF Hands
    <2> QED BY <2>1, <2>2, <2>3, <2>4
  <1> QED BY <1>2, <1>3, <1>4, <1>5 DEF HandedIn

LEMMA SucceedRefines ==
  ASSUME PInv, NEW c \in Callbacks, NEW j \in Jobs, MarkOcrJobSuccess(c, j)
  PROVE  Promise!Succeed(c, j)
  <1>1. /\ \A k \in Jobs : k # j => job'[k] = job[k]
        /\ job'[j].status = "succeeded" /\ job'[j].attempts = job[j].attempts
    BY OutcomeWritten DEF PInv
  <1>2. Stages' = [Stages EXCEPT ![j] = "done"] BY <1>1, RowWritten DEF Promised
  <1>3. Counts' = Counts BY <1>1 DEF Counts
  <1> QED BY <1>2, <1>3, OutcomeHandedIn, SucceedSpelled

LEMMA FailRefines ==
  ASSUME PInv, NEW c \in Callbacks, NEW j \in Jobs, MarkOcrJobFailure(c, j)
  PROVE  \E n \in 1..MaxAttempts : Promise!Fail(c, j, n)
  <1>1. /\ task[c][j].pc \in Holding
        /\ \A k \in Jobs : k # j => job'[k] = job[k]
        /\ job'[j].status = IF Exhausted(Attempts(c, j)) THEN "canceled" ELSE "failed"
        /\ job'[j].attempts = Attempts(c, j)
    BY OutcomeWritten DEF PInv
  <1>2. task[c][j].claimed \in Nat /\ task[c][j].claimed < MaxAttempts
    BY <1>1 DEF PInv, OInv, TypeOK, ClaimsBelowLimit
  <1>3. PICK n \in 1..MaxAttempts : n = Attempts(c, j)
    BY <1>2, OcrAssumption DEF Attempts
  <1>4. Exhausted(Attempts(c, j)) <=> n = MaxAttempts
    BY <1>3, OcrAssumption DEF Exhausted
  <1>5. Calm => n = Counts[j] + 1
    BY <1>1, <1>3 DEF PInv, ClaimsAreFresh, Attempts, Counts
  <1>6. Promised(job'[j].status) = IF n = MaxAttempts THEN "dead" ELSE "waiting"
    BY <1>1, <1>4 DEF Promised
  <1>7. Stages' = [Stages EXCEPT ![j] = IF n = MaxAttempts THEN "dead" ELSE "waiting"]
    BY <1>1, <1>6, RowWritten
  <1>8. Counts' = [Counts EXCEPT ![j] = n] BY <1>1, <1>3, RowWritten
  <1>9. Promise!Fail(c, j, n) BY <1>5, <1>7, <1>8, OutcomeHandedIn, FailSpelled
  <1> QED BY <1>9

\* Elsewhere leaves the abstract queue alone, or ends the calm when a lock runs
\* out under its worker.
LEMMA ElsewhereRefines ==
  ASSUME PInv, OInv', [Next]_vars, Elsewhere
  PROVE  UNCHANGED Promise!queueVars \/ Promise!Interfere
  <1>1. SameWork BY ElsewhereNothing DEF PInv, OInv
  <1>2. Stages' = Stages /\ Counts' = Counts
    <2>1. \A j \in Jobs : job'[j].status = job[j].status /\ job'[j].attempts = job[j].attempts
      BY <1>1 DEF SameWork
    <2> QED BY <2>1, SameStages
  <1>3. Hands' = Hands BY <1>1, SameHands
  <1>4. Calm' = Calm \/ Calm' = FALSE
    <2>1. Calm' => Calm BY CalmEnds DEF PInv
    <2> QED BY <2>1 DEF Calm
  <1>5. CASE Calm' = Calm BY <1>2, <1>3, <1>5, StutterSpelled
  <1>6. CASE Calm' = FALSE
    <2>1. \A j \in Jobs : Holders(j)' \subseteq Holders(j)
      BY <1>1 DEF SameWork, Holders, Holding
    <2> QED BY <1>2, <1>6, <2>1, InterfereSpelled
  <1> QED BY <1>4, <1>5, <1>6

LEMMA PromiseSteps ==
  PInv /\ [Next]_vars => [Promise!QueueNext]_(Promise!queueVars)
  <1> SUFFICES ASSUME PInv, [Next]_vars
               PROVE  [Promise!QueueNext]_(Promise!queueVars)
    OBVIOUS
  <1>1. TypeOK /\ OInv' BY InvKept DEF PInv, OInv
  <1>2. CASE Elsewhere
    BY <1>1, <1>2, ElsewhereRefines DEF Promise!QueueNext
  <1>3. CASE \/ SetKillSwitch \/ (\E w \in Workers : Restart(w))
             \/ (\E c \in Callbacks, j \in Jobs : SuccessRollsBack(c, j))
             \/ (\E c \in Callbacks : SwallowedError(c))
    <2>1. /\ ~Calm' /\ NoNewHolder
          /\ \A k \in Jobs : job'[k].status = job[k].status /\ job'[k].attempts = job[k].attempts
      BY <1>1, <1>3, DisturbanceSeen
    <2>2. Stages' = Stages /\ Counts' = Counts BY <2>1, SameStages
    <2>3. \A j \in Jobs : Holders(j)' \subseteq Holders(j) BY <2>1, HoldersShrink
    <2>4. Calm' = FALSE BY <2>1
    <2>5. Promise!Interfere BY <2>2, <2>3, <2>4, InterfereSpelled
    <2> QED BY <2>5 DEF Promise!QueueNext
  <1>4. ASSUME NEW j \in Jobs, CreateOcrJob(j) PROVE Promise!QueueNext
    BY <1>4, OfferRefines DEF Promise!QueueNext
  <1>5. ASSUME NEW j \in Jobs, ResetOcrJob(j) PROVE Promise!QueueNext
    BY <1>5, ResetRefines DEF Promise!QueueNext
  <1>6. ASSUME NEW c \in Callbacks, LockOcrJobs(c) PROVE Promise!QueueNext
    BY <1>6, TakeRefines DEF Promise!QueueNext
  <1>7. ASSUME NEW c \in Callbacks, NEW j \in Jobs, MarkOcrJobSuccess(c, j)
        PROVE  Promise!QueueNext
    BY <1>7, SucceedRefines DEF Promise!QueueNext
  <1>8. ASSUME NEW c \in Callbacks, NEW j \in Jobs, MarkOcrJobFailure(c, j)
        PROVE  Promise!QueueNext
    BY <1>8, FailRefines DEF Promise!QueueNext
  <1> QED BY <1>2, <1>3, <1>4, <1>5, <1>6, <1>7, <1>8, StepKinds

\* ocr_jobs is a queue with a retry limit, JobQueue, for any number of jobs,
\* processes, overlapping callbacks, resets and crashes: undisturbed, a job goes
\* to one callback at a time and only that callback writes its outcome, one
\* failure at a time; disturbed, still nobody takes up a finished job.
THEOREM OcrJobsAreAQueue == Spec => QueueKeepsPromise
  <1>1. Init => Promise!QueueInit BY PromiseStarts
  <1>2. PInv /\ [Next]_vars => [Promise!QueueNext]_(Promise!queueVars) BY PromiseSteps
  <1> QED BY <1>1, <1>2, PromiseInvariant, PTL DEF Spec, QueueKeepsPromise, Promise!QueueSpec
=============================================================================
