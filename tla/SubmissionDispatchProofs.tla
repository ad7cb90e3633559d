---------------------- MODULE SubmissionDispatchProofs ----------------------
(***************************************************************************)
(* The claims of progressSubmission for any number of lenders, requests,   *)
(* workers, jobs, calls and faults: the dispatch of stage B happens once,  *)
(* nothing leaves before its preconditions hold, and what the worker       *)
(* resends is bounded by the attempts of its jobs.                         *)
(***************************************************************************)
EXTENDS SubmissionDispatch, FiniteSetTheorems, TLAPS

-----------------------------------------------------------------------------
(* The inductive invariant                                                  *)

\* A handler that records a package holds the lender it has just called, and
\* the jobs reach LookupLenders and RefuseJob with the worker as their source.
HandlersHold ==
  /\ \A p \in Procs : At(p, "row") => proc[p].lender \in proc[p].todo
  /\ \A w \in Procs : proc[w].pc \in {"lookup", "refuse"} => proc[w].source = "worker"

\* A row of stage B exists only under the claim, and none for a lender that the
\* holder of the claim has still to serve.
RowsUnderClaim ==
  /\ \A l \in Lenders : rows[l]["stageB"] > 0 => claimed
  /\ \A p \in Procs : At(p, "select") => \A l \in Lenders : rows[l]["stageB"] = 0
  /\ \A p \in Procs : InStageB(p) => \A l \in proc[p].todo : rows[l]["stageB"] = 0

\* Lender l has been called by stage B and its row is still to be written.
RowPending(l) ==
  \E p \in Procs : /\ At(p, "row") /\ proc[p].source = "stageB"
                   /\ proc[p].lender = l

\* What a lender received from stage B has a row, or a row to come, or a fault.
ReceiptsExplained ==
  \A l \in Lenders :
    /\ received[l]["stageB"] <= rows[l]["stageB"] + faults + 1
    /\ RowPending(l) \/ received[l]["stageB"] <= rows[l]["stageB"] + faults

\* Whoever comes near the claim of stage B has seen the application ready.
SeenReady ==
  \A p \in Procs : At(p, "claimB") \/ InStageB(p) => credit /\ signed

\* The chain is started by one handler, which notifies first and signs then.
ChainHeld ==
  /\ \A p, q \in Procs :
       {proc[p].pc, proc[q].pc} \subseteq {"notify", "sign"} => p = q
  /\ \A p \in Procs : /\ At(p, "notify") => notified = 0
                      /\ proc[p].pc \in {"notify", "sign"} => chain
  /\ notified > 0 => chain
  /\ notified <= 1

StageBInv == StageBExclusive /\ StageBRowsOnce /\ RowsUnderClaim /\ ReceiptsExplained

DInv == TypeOK /\ HandlersHold /\ StageBInv /\ SeenReady /\ StageBGated /\ ChainHeld

-----------------------------------------------------------------------------
(* Types                                                                    *)

LEMMA IdleTyped == Idle \in ProcState /\ Idle.pc = "idle" /\ Idle.source = "stageB" /\ Idle.todo = {}
  BY DEF Idle, ProcState, PCs, Kinds, Sources

LEMMA Goes ==
  ASSUME TypeOK, NEW p \in Procs, NEW pc \in PCs, Goto(p, pc)
  PROVE  /\ proc' \in [Procs -> ProcState]
         /\ proc' = [proc EXCEPT ![p] = proc'[p]]
         /\ proc'[p].pc = pc
         /\ proc'[p].source = proc[p].source
         /\ proc'[p].todo = proc[p].todo
         /\ proc'[p].lender = proc[p].lender
  <1>1. proc[p] \in ProcState /\ proc'[p] = [proc[p] EXCEPT !.pc = pc]
    BY DEF TypeOK, Goto
  <1>2. proc'[p] \in ProcState
    BY <1>1 DEF ProcState
  <1> QED BY <1>1, <1>2 DEF TypeOK, Goto, ProcState

LEMMA Ends ==
  ASSUME TypeOK, NEW p \in Procs, End(p)
  PROVE  /\ proc' \in [Procs -> ProcState]
         /\ proc' = [proc EXCEPT ![p] = proc'[p]]
         /\ proc'[p] = Idle
  BY IdleTyped DEF TypeOK, End

LEMMA FaultBound ==
  ASSUME TypeOK, Fault PROVE faults' = faults + 1 /\ faults' \in 0..MaxFaults
  BY BoundsAssumption DEF TypeOK, Fault

\* A handler's step keeps the types and touches one handler.
Owned(p) == TypeOK' /\ HandlersHold' /\ proc' = [proc EXCEPT ![p] = proc'[p]] /\ faults <= faults'

LEMMA EntryTyped ==
  ASSUME DInv, NEW p \in Callers, Entry(p)
  PROVE  Owned(p)
  <1> USE DEF DInv, Owned
  <1>p. p \in Procs /\ faults \in Nat
    BY DEF Procs, TypeOK
  <1>1. ASSUME NEW kind \in Kinds, NEW ids \in (SUBSET Lenders) \ {{}}, Select(p, kind, ids)
        PROVE  Owned(p)
    <2>1. proc'[p] \in ProcState /\ proc'[p].pc = "snapA"
      BY <1>1, <1>p, IdleTyped DEF Select, TypeOK, ProcState, PCs, Kinds
    <2>2. proc' = [proc EXCEPT ![p] = proc'[p]] /\ proc' \in [Procs -> ProcState]
      BY <1>1, <1>p, <2>1 DEF Select, TypeOK
    <2>3. HandlersHold'
      BY <2>1, <2>2, <1>p DEF HandlersHold, At, TypeOK
    <2>4. selected' \in SUBSET Lenders /\ faults' \in 0..MaxFaults /\ faults <= faults'
      BY <1>1, FaultBound, <1>p DEF Select, TypeOK
    <2>5. calls' \in 0..MaxCalls
      BY <1>1, BoundsAssumption DEF Select, TypeOK
    <2> QED BY <1>1, <2>2, <2>3, <2>4, <2>5 DEF Select, TypeOK, env, sign, mail
  <1>2. CASE Check(p)
    <2>1. /\ proc' \in [Procs -> ProcState]
          /\ proc' = [proc EXCEPT ![p] = proc'[p]]
          /\ proc'[p].pc = "snapA"
      BY <1>2, <1>p, Goes DEF Check, PCs
    <2>2. HandlersHold'
      BY <2>1, <1>p DEF HandlersHold, At, TypeOK, ProcState
    <2>3. calls' \in 0..MaxCalls
      BY <1>2, BoundsAssumption DEF Check, TypeOK
    <2> QED BY <1>2, <1>p, <2>1, <2>2, <2>3 DEF Check, TypeOK, env, sign, mail
  <1>3. CASE Webhook(p)
    <2>1. /\ proc' \in [Procs -> ProcState]
          /\ proc' = [proc EXCEPT ![p] = proc'[p]]
          /\ proc'[p].pc = "stamp" \/ proc' = proc
      <3>1. CASE documentId
        <4> DEFINE new == [Idle EXCEPT !.pc = "stamp", !.kind = "webhook"]
        <4>1. new \in ProcState /\ new.pc = "stamp"
          BY IdleTyped DEF ProcState, PCs, Kinds
        <4>2. proc' = [proc EXCEPT ![p] = new]
          BY <1>3, <3>1 DEF Webhook
        <4> HIDE DEF new
        <4> QED BY <4>1, <4>2, <1>p DEF TypeOK
      <3>2. CASE ~documentId
        BY <1>3, <3>2, <1>p DEF Webhook, TypeOK
      <3> QED BY <3>1, <3>2
    <2>2. HandlersHold'
      BY <2>1, <1>p DEF HandlersHold, At, TypeOK, ProcState
    <2>3. calls' \in 0..MaxCalls
      BY <1>3, BoundsAssumption DEF Webhook, TypeOK
    <2> QED BY <1>3, <1>p, <2>1, <2>2, <2>3 DEF Webhook, TypeOK, env, sign, mail
  <1>4. CASE Invite(p)
    <2> DEFINE new == [Idle EXCEPT !.pc = "record", !.kind = "sign"]
    <2>1. new \in ProcState /\ new.pc = "record"
      BY IdleTyped DEF ProcState, PCs, Kinds
    <2>2. proc' = [proc EXCEPT ![p] = new]
      BY <1>4 DEF Invite
    <2> HIDE DEF new
    <2>3. /\ proc' \in [Procs -> ProcState]
          /\ proc' = [proc EXCEPT ![p] = proc'[p]]
          /\ proc'[p].pc = "record"
      BY <2>1, <2>2, <1>p DEF TypeOK
    <2>4. HandlersHold'
      BY <2>3, <1>p DEF HandlersHold, At, TypeOK, ProcState
    <2> QED BY <1>4, <1>p, <2>3, <2>4 DEF Invite, TypeOK, env, sign, mail
  <1> QED BY <1>1, <1>2, <1>3, <1>4 DEF Entry

LEMMA ProgressTyped ==
  ASSUME DInv, NEW p \in Procs, Progress(p) \/ Crash(p)
  PROVE  Owned(p)
  <1> USE DEF DInv, Owned
  <1>t. proc[p] \in ProcState /\ faults \in Nat
    BY DEF TypeOK
  <1>h. ASSUME proc' \in [Procs -> ProcState], proc' = [proc EXCEPT ![p] = proc'[p]],
               At(p, "row")' => proc'[p].lender \in proc'[p].todo,
               proc'[p].pc \in {"lookup", "refuse"} => proc'[p].source = "worker"
        PROVE  HandlersHold'
    BY <1>h DEF HandlersHold, At, TypeOK
  <1>g. ASSUME NEW pc \in PCs \ {"row", "lookup", "refuse"}, Goto(p, pc)
        PROVE  proc' \in [Procs -> ProcState] /\ proc' = [proc EXCEPT ![p] = proc'[p]] /\ HandlersHold'
    BY <1>g, <1>h, Goes DEF At
  <1>e. ASSUME End(p)
        PROVE  proc' \in [Procs -> ProcState] /\ proc' = [proc EXCEPT ![p] = proc'[p]] /\ HandlersHold'
    BY <1>e, <1>h, Ends, IdleTyped DEF At
  <1>x. ASSUME Throw(p)
        PROVE  /\ proc' \in [Procs -> ProcState] /\ proc' = [proc EXCEPT ![p] = proc'[p]] /\ HandlersHold'
               /\ faults' \in 0..MaxFaults /\ faults <= faults'
    <2> DEFINE new == [proc[p] EXCEPT !.pc = "finish", !.err = TRUE]
    <2>1. new \in ProcState /\ new.pc = "finish"
      BY <1>t DEF ProcState, PCs
    <2>2. proc' = [proc EXCEPT ![p] = new]
      BY <1>x DEF Throw
    <2> HIDE DEF new
    <2>3. proc' \in [Procs -> ProcState] /\ proc' = [proc EXCEPT ![p] = proc'[p]] /\ HandlersHold'
      BY <2>1, <2>2, <1>h DEF At, TypeOK
    <2> QED BY <1>x, <1>t, <2>3, FaultBound DEF Throw
  <1>j. ASSUME NEW j, NEW row \in [status : JobStatus, attempts : Nat], jobs' = [jobs EXCEPT ![j] = row]
        PROVE  jobs' \in [Jobs -> [status : JobStatus, attempts : Nat]]
    <2>1. CASE j \notin Jobs
      BY <1>j, <2>1 DEF TypeOK
    <2>2. CASE j \in Jobs
      BY <1>j, <2>2 DEF TypeOK
    <2> QED BY <2>1, <2>2
  <1>1. CASE SnapA(p)
    <2>1. PICK pc \in {"claimA", "snapB"} : Goto(p, pc)
      BY <1>1 DEF SnapA
    <2>a. Fault \/ faults' = faults
      BY <1>1 DEF SnapA
    <2>2. faults' \in 0..MaxFaults /\ faults <= faults'
      BY <2>a, FaultBound, <1>t DEF TypeOK
    <2> QED BY <1>1, <1>g, <2>1, <2>2 DEF SnapA, PCs, TypeOK, env, sign, mail
  <1>2. CASE ClaimA(p)
    <2>1. PICK pc \in {"notify", "snapB"} : Goto(p, pc)
      BY <1>2 DEF ClaimA
    <2>a. (Fault \/ faults' = faults) /\ chain' \in BOOLEAN
      BY <1>2 DEF ClaimA, TypeOK
    <2>2. faults' \in 0..MaxFaults /\ faults <= faults' /\ chain' \in BOOLEAN
      BY <2>a, FaultBound, <1>t DEF TypeOK
    <2> QED BY <1>2, <1>g, <2>1, <2>2 DEF ClaimA, PCs, TypeOK, env, sign, mail
  <1>3. CASE NotifyAdmins(p)
    BY <1>3, <1>g, <1>t DEF NotifyAdmins, PCs, TypeOK, env, sign, mail
  <1>4. CASE SendForSignature(p)
    BY <1>4, <1>g, <1>t DEF SendForSignature, PCs, TypeOK, env, sign, mail
  <1>5. CASE RecordDocumentId(p)
    <2>a. (Fault \/ faults' = faults) /\ documentId' \in BOOLEAN
      BY <1>5 DEF RecordDocumentId, TypeOK
    <2>1. faults' \in 0..MaxFaults /\ faults <= faults' /\ documentId' \in BOOLEAN
      BY <2>a, FaultBound, <1>t DEF TypeOK
    <2> QED BY <1>5, <1>e, <2>1 DEF RecordDocumentId, TypeOK, env, sign, mail
  <1>6. CASE SnapB(p)
    <2>1. PICK pc \in {"claimB", "after"} : Goto(p, pc)
      BY <1>6 DEF SnapB
    <2>2. faults' \in 0..MaxFaults /\ faults <= faults'
      BY <1>6, FaultBound, <1>t DEF SnapB, ReadyForPackage, ReadOr, TypeOK
    <2> QED BY <1>6, <1>g, <2>1, <2>2 DEF SnapB, PCs, TypeOK, env, sign, mail
  <1>7. CASE ClaimB(p)
    <2>1. PICK pc \in {"select", "after"} : Goto(p, pc)
      BY <1>7 DEF ClaimB
    <2>a. (Fault \/ faults' = faults) /\ claimed' \in BOOLEAN
      BY <1>7 DEF ClaimB, TypeOK
    <2>2. faults' \in 0..MaxFaults /\ faults <= faults' /\ claimed' \in BOOLEAN
      BY <2>a, FaultBound, <1>t DEF TypeOK
    <2> QED BY <1>7, <1>g, <2>1, <2>2 DEF ClaimB, PCs, TypeOK, env, sign, mail
  <1>8. CASE SelectLenders(p)
    <2> DEFINE new == [proc[p] EXCEPT !.pc = "build", !.todo = selected, !.source = "stageB"]
    <2>1. new \in ProcState /\ new.pc = "build"
      BY <1>t DEF ProcState, PCs, Sources, TypeOK
    <2>2. Goto(p, "after") \/ proc' = [proc EXCEPT ![p] = new]
      BY <1>8 DEF SelectLenders
    <2> HIDE DEF new
    <2>3. ASSUME proc' = [proc EXCEPT ![p] = new]
          PROVE  proc' \in [Procs -> ProcState] /\ proc' = [proc EXCEPT ![p] = proc'[p]] /\ HandlersHold'
      BY <2>1, <2>3, <1>h DEF At, TypeOK
    <2>4. claimed' \in BOOLEAN
      BY <1>8 DEF SelectLenders, TypeOK
    <2>5. "after" \in PCs \ {"row", "lookup", "refuse"}
      BY DEF PCs
    <2>6. proc' \in [Procs -> ProcState] /\ proc' = [proc EXCEPT ![p] = proc'[p]] /\ HandlersHold'
      BY <1>g, <2>2, <2>3, <2>5
    <2> QED BY <1>8, <1>t, <2>4, <2>6 DEF SelectLenders, TypeOK, env, sign, mail
  <1>9. CASE FinishStageB(p)
    <2>a. (Fault \/ faults' = faults) /\ claimed' \in BOOLEAN
      BY <1>9 DEF FinishStageB, Release, TypeOK
    <2>1. faults' \in 0..MaxFaults /\ faults <= faults' /\ claimed' \in BOOLEAN
      BY <2>a, FaultBound, <1>t DEF TypeOK
    <2> QED BY <1>9, <1>g, <2>1 DEF FinishStageB, PCs, TypeOK, env, sign, mail
  <1>10. CASE After(p)
    <2> DEFINE new == [Idle EXCEPT !.pc = "build", !.kind = "direct",
                                   !.source = "direct", !.todo = proc[p].ids]
    <2>1. new \in ProcState /\ new.pc = "build"
      <3>1. PICK ids \in SUBSET Lenders : ids = proc[p].ids
        BY <1>t DEF ProcState
      <3>2. Idle \in ProcState /\ new = [Idle EXCEPT !.pc = "build", !.kind = "direct",
                                                     !.source = "direct", !.todo = ids]
        BY <3>1, IdleTyped
      <3> HIDE DEF new
      <3>3. "build" \in PCs /\ "direct" \in Kinds /\ "direct" \in Sources
        BY DEF PCs, Kinds, Sources
      <3> QED BY <3>2, <3>3 DEF ProcState
    <2>2. End(p) \/ proc' = [proc EXCEPT ![p] = new]
      BY <1>10 DEF After
    <2> HIDE DEF new
    <2>3. ASSUME proc' = [proc EXCEPT ![p] = new]
          PROVE  proc' \in [Procs -> ProcState] /\ proc' = [proc EXCEPT ![p] = proc'[p]] /\ HandlersHold'
      BY <2>1, <2>3, <1>h DEF At, TypeOK
    <2> QED BY <1>10, <1>e, <1>t, <2>2, <2>3 DEF After, TypeOK, env, sign, mail
  <1>11. CASE FinishDirect(p)
    BY <1>11, <1>e, <1>t DEF FinishDirect, TypeOK, env, sign, mail
  <1>12. CASE Build(p)
    <2> DEFINE new == [proc[p] EXCEPT !.pc = "finish", !.err = TRUE]
    <2>1. new \in ProcState /\ new.pc = "finish"
      BY <1>t DEF ProcState, PCs
    <2>2. Goto(p, "deliver") \/ proc' = [proc EXCEPT ![p] = new]
      BY <1>12 DEF Build
    <2> HIDE DEF new
    <2>3. ASSUME proc' = [proc EXCEPT ![p] = new]
          PROVE  proc' \in [Procs -> ProcState] /\ proc' = [proc EXCEPT ![p] = proc'[p]] /\ HandlersHold'
      BY <2>1, <2>3, <1>h DEF At, TypeOK
    <2>4. faults' \in 0..MaxFaults /\ faults <= faults'
      BY <1>12, FaultBound, <1>t DEF Build, TypeOK
    <2> QED BY <1>12, <1>g, <2>2, <2>3, <2>4 DEF Build, PCs, TypeOK, env, sign, mail
  <1>13. ASSUME NEW l \in Lenders, Deliver(p, l) PROVE Owned(p)
    <2> DEFINE thrown == [proc[p] EXCEPT !.pc = "finish", !.err = TRUE]
               called(ok) == [proc[p] EXCEPT !.pc = "row", !.lender = l, !.ok = ok]
    <2>1. thrown \in ProcState /\ thrown.pc = "finish"
      BY <1>t DEF ProcState, PCs
    <2>2. \A ok \in BOOLEAN : /\ called(ok) \in ProcState /\ called(ok).pc = "row"
                              /\ called(ok).lender = l /\ called(ok).todo = proc[p].todo
      BY <1>t DEF ProcState, PCs
    <2>3. proc' = [proc EXCEPT ![p] = thrown] \/ \E ok \in BOOLEAN : proc' = [proc EXCEPT ![p] = called(ok)]
      BY <1>13 DEF Deliver
    <2>4. l \in proc[p].todo
      BY <1>13 DEF Deliver
    <2> HIDE DEF thrown, called
    <2>5. proc' \in [Procs -> ProcState] /\ proc' = [proc EXCEPT ![p] = proc'[p]] /\ HandlersHold'
      BY <2>1, <2>2, <2>3, <2>4, <1>h DEF At, TypeOK
    <2>6. faults' \in 0..MaxFaults /\ faults <= faults'
      BY <1>13, FaultBound, <1>t DEF Deliver, TypeOK
    <2> DEFINE more == [received[l] EXCEPT ![proc[p].source] = received[l][proc[p].source] + 1]
    <2>8. more \in [Sources -> Nat]
      BY <1>t DEF TypeOK, ProcState
    <2>9. received' = [received EXCEPT ![l] = more] \/ received' = received
      BY <1>13 DEF Deliver, TypeOK
    <2> HIDE DEF more
    <2>7. received' \in [Lenders -> [Sources -> Nat]]
      BY <2>8, <2>9 DEF TypeOK
    <2> QED BY <1>13, <2>5, <2>6, <2>7 DEF Deliver, TypeOK, env, sign
  <1>14. CASE RecordPackage(p)
    <2> DEFINE new == [proc[p] EXCEPT !.pc = IF proc[p].todo = {proc[p].lender} THEN "finish" ELSE "deliver",
                          !.todo = proc[p].todo \ {proc[p].lender},
                          !.sent = proc[p].sent \/ proc[p].ok]
    <2>1. new \in ProcState /\ new.pc \in {"finish", "deliver"}
      BY <1>t DEF ProcState, PCs
    <2>2. proc' = [proc EXCEPT ![p] = new]
      BY <1>14 DEF RecordPackage
    <2> HIDE DEF new
    <2>3. proc' \in [Procs -> ProcState] /\ proc' = [proc EXCEPT ![p] = proc'[p]] /\ HandlersHold'
      BY <2>1, <2>2, <1>h DEF At, TypeOK
    <2>4. faults' \in 0..MaxFaults /\ faults <= faults'
      BY <1>14, FaultBound, <1>t DEF RecordPackage, TypeOK
    <2>5. proc[p].lender \in Lenders /\ proc[p].source \in Sources
      BY <1>14, <1>t DEF RecordPackage, HandlersHold, ProcState
    <2> DEFINE to == proc[p].lender
               more == [rows[to] EXCEPT ![proc[p].source] = rows[to][proc[p].source] + 1]
    <2>8. more \in [Sources -> Nat]
      BY <2>5 DEF TypeOK
    <2>9. rows' = [rows EXCEPT ![to] = more] \/ rows' = rows
      BY <1>14, <2>5 DEF RecordPackage, TypeOK
    <2> HIDE DEF more
    <2>6. rows' \in [Lenders -> [Sources -> Nat]]
      BY <2>5, <2>8, <2>9 DEF TypeOK
    <2> QED BY <1>14, <2>3, <2>4, <2>6 DEF RecordPackage, TypeOK, env, sign
  <1>15. CASE Stamp(p)
    BY <1>15, <1>g, <1>t DEF Stamp, PCs, TypeOK, env, sign, mail
  <1>16. CASE Enqueue(p)
    <2>1. jobs' \in [Jobs -> [status : JobStatus, attempts : Nat]]
      BY <1>16 DEF Enqueue, TypeOK, JobStatus
    <2> QED BY <1>16, <1>e, <1>t, <2>1 DEF Enqueue, TypeOK, env, sign, mail
  <1>17. CASE LookupLenders(p)
    <2> DEFINE new == [proc[p] EXCEPT !.pc = "build", !.todo = selected]
    <2>1. new \in ProcState /\ new.pc = "build"
      <3>1. PICK row \in ProcState : row = proc[p]
        BY <1>t
      <3>2. new = [row EXCEPT !.pc = "build", !.todo = selected]
        BY <3>1
      <3> HIDE DEF new
      <3>3. "build" \in PCs /\ selected \subseteq Lenders
        BY DEF PCs, TypeOK
      <3> QED BY <3>2, <3>3 DEF ProcState
    <2>2. Goto(p, "refuse") \/ proc' = [proc EXCEPT ![p] = new] \/ Throw(p)
      BY <1>17 DEF LookupLenders
    <2> HIDE DEF new
    <2>3. ASSUME proc' = [proc EXCEPT ![p] = new]
          PROVE  proc' \in [Procs -> ProcState] /\ proc' = [proc EXCEPT ![p] = proc'[p]] /\ HandlersHold'
      BY <2>1, <2>3, <1>h DEF At, TypeOK
    <2>4. ASSUME Goto(p, "refuse")
          PROVE  proc' \in [Procs -> ProcState] /\ proc' = [proc EXCEPT ![p] = proc'[p]] /\ HandlersHold'
      <3>1. proc[p].source = "worker"
        BY <1>17 DEF LookupLenders, HandlersHold, At
      <3> QED BY <2>4, <3>1, <1>h, Goes DEF At, PCs
    <2>5. faults' \in 0..MaxFaults /\ faults <= faults'
      BY <1>17, <1>t, <1>x DEF LookupLenders, TypeOK
    <2> QED BY <1>17, <1>x, <2>2, <2>3, <2>4, <2>5 DEF LookupLenders, TypeOK, env, sign, mail
  <1>18. CASE RefuseJob(p)
    <2>1. /\ proc' \in [Procs -> ProcState] /\ proc' = [proc EXCEPT ![p] = proc'[p]] /\ HandlersHold'
          /\ faults' \in 0..MaxFaults /\ faults <= faults'
      BY <1>18, <1>e, <1>x, <1>t DEF RefuseJob, TypeOK
    <2>2. jobs' \in [Jobs -> [status : JobStatus, attempts : Nat]]
      BY <1>18 DEF RefuseJob, TypeOK, JobStatus
    <2> QED BY <1>18, <2>1, <2>2 DEF RefuseJob, TypeOK, env, sign, mail
  <1>19. CASE CompleteJob(p)
    <2>1. /\ proc' \in [Procs -> ProcState] /\ proc' = [proc EXCEPT ![p] = proc'[p]] /\ HandlersHold'
          /\ faults' \in 0..MaxFaults /\ faults <= faults'
      BY <1>19, <1>e, <1>x, <1>t DEF CompleteJob, TypeOK
    <2>2. jobs' \in [Jobs -> [status : JobStatus, attempts : Nat]]
      BY <1>19 DEF CompleteJob, TypeOK, JobStatus
    <2> QED BY <1>19, <2>1, <2>2 DEF CompleteJob, TypeOK, env, sign, mail
  <1>20. CASE CatchJob(p)
    <2>1. \A j \in Jobs : JobAfterError(jobs[j]) \in [status : JobStatus, attempts : Nat]
      BY DEF JobAfterError, TypeOK, JobStatus
    <2>2. jobs' \in [Jobs -> [status : JobStatus, attempts : Nat]]
      <3>1. PICK j : /\ j = proc[p].job
                     /\ jobs' = jobs \/ jobs' = [jobs EXCEPT ![j] = JobAfterError(jobs[j])]
        BY <1>20 DEF CatchJob, TypeOK
      <3>2. CASE j \in Jobs
        BY <1>j, <2>1, <3>1, <3>2 DEF TypeOK
      <3>3. CASE j \notin Jobs
        BY <3>1, <3>3 DEF TypeOK
      <3> QED BY <3>2, <3>3
    <2>3. faults' \in 0..MaxFaults /\ faults <= faults'
      BY <1>20, <1>t, FaultBound DEF CatchJob, TypeOK
    <2> QED BY <1>20, <1>e, <2>2, <2>3 DEF CatchJob, TypeOK, env, sign, mail
  <1>21. CASE Crash(p)
    BY <1>21, <1>e, <1>t, FaultBound DEF Crash, TypeOK, env, sign, mail
  <1> QED
    BY <1>1, <1>2, <1>3, <1>4, <1>5, <1>6, <1>7, <1>8, <1>9, <1>10, <1>11, <1>12, <1>13,
       <1>14, <1>15, <1>16, <1>17, <1>18, <1>19, <1>20, <1>21 DEF Progress

-----------------------------------------------------------------------------
(* What a step of one handler does to the chain and to stage B              *)

ChainAside == chain' = chain /\ notified' = notified

ClaimAside == claimed' = claimed

RowsAside == \A l \in Lenders : rows'[l]["stageB"] = rows[l]["stageB"]

ReceiptsAside == \A l \in Lenders : received'[l]["stageB"] = received[l]["stageB"]

\* p is outside stage B after the step; a row it owed is lost by a fault.
Outside(p) ==
  /\ ChainAside /\ ClaimAside /\ RowsAside /\ ReceiptsAside
  /\ proc'[p].pc \notin {"notify", "sign", "claimB", "select"}
  /\ proc'[p].pc \in DispatchPCs => proc'[p].source # "stageB"
  /\ At(p, "row") /\ proc[p].source = "stageB" => faults < faults'

\* p works on the chain.
StartsChain(p) ==
  /\ ClaimAside /\ RowsAside /\ ReceiptsAside /\ ~InStageB(p)
  /\ \/ ~chain /\ chain' /\ proc'[p].pc = "notify" /\ notified' = notified
     \/ At(p, "notify") /\ proc'[p].pc = "sign" /\ notified' = notified + 1 /\ chain' = chain

\* p has seen the application ready, and claims it in the second case.
Approaches(p) ==
  /\ ChainAside /\ RowsAside /\ ReceiptsAside /\ ~InStageB(p) /\ credit /\ signed
  /\ \/ ClaimAside /\ proc'[p].pc = "claimB"
     \/ ~claimed /\ claimed' /\ proc'[p].pc = "select"

\* p, inside stage B, goes on without a receipt or a row of its own; the
\* lenders still to serve are those of a fresh selection, or the same.
Prepares(p) ==
  /\ ChainAside /\ ClaimAside /\ RowsAside /\ ReceiptsAside /\ InStageB(p)
  /\ proc'[p].pc \in {"build", "deliver", "finish"} /\ proc'[p].source = "stageB"
  /\ ~At(p, "row")
  /\ At(p, "select") \/ proc'[p].todo = proc[p].todo

\* p calls lender l.
Calls(p, l) ==
  /\ ChainAside /\ ClaimAside /\ RowsAside /\ InStageB(p) /\ At(p, "deliver")
  /\ \A k \in Lenders \ {l} : received'[k]["stageB"] = received[k]["stageB"]
  /\ received'[l]["stageB"] \in received[l]["stageB"] .. received[l]["stageB"] + 1
  /\ l \in proc[p].todo
  /\ proc'[p].todo = proc[p].todo /\ proc'[p].source = "stageB"
  /\ \/ proc'[p].pc = "row" /\ proc'[p].lender = l
     \/ proc'[p].pc = "finish" /\ faults' = faults + 1

\* p writes the row it owes, or loses it by a fault.
Records(p) ==
  LET l == proc[p].lender IN
  /\ ChainAside /\ ClaimAside /\ ReceiptsAside /\ InStageB(p) /\ At(p, "row")
  /\ \A k \in Lenders \ {l} : rows'[k]["stageB"] = rows[k]["stageB"]
  /\ \/ rows'[l]["stageB"] = rows[l]["stageB"] + 1
     \/ rows'[l]["stageB"] = rows[l]["stageB"] /\ faults' = faults + 1
  /\ proc'[p].todo = proc[p].todo \ {l} /\ proc'[p].source = "stageB"
  /\ proc'[p].pc \in {"finish", "deliver"}

\* p leaves stage B; the claim may be given back when no row exists.
Leaves(p) ==
  /\ ChainAside /\ RowsAside /\ ReceiptsAside /\ InStageB(p) /\ ~At(p, "row")
  /\ proc'[p].pc = "after"
  /\ ClaimAside \/ \A l \in Lenders : rows[l]["stageB"] = 0

Effect(p) ==
  /\ Owned(p) /\ credit' = credit /\ (signed => signed')
  /\ \/ Outside(p) \/ StartsChain(p) \/ Approaches(p) \/ Prepares(p)
     \/ (\E l \in Lenders : Calls(p, l)) \/ Records(p) \/ Leaves(p)

LEMMA EntryEffect ==
  ASSUME DInv, NEW p \in Callers, Entry(p)
  PROVE  Effect(p)
  <1>1. p \in Procs /\ Owned(p) /\ At(p, "idle")
    BY EntryTyped DEF Procs, Entry, Select, Check, Webhook, Invite
  <1>2. UNCHANGED <<env, chain, claimed, notified, signed, jobs, mail>>
    BY DEF Entry, Select, Check, Webhook, Invite, sign
  <1>3. proc'[p].pc \in {"idle", "snapA", "stamp", "record"}
    <2>1. ASSUME NEW kind \in Kinds, NEW ids \in (SUBSET Lenders) \ {{}}, Select(p, kind, ids)
          PROVE  proc'[p].pc = "snapA"
      BY <1>1, <2>1 DEF Select, DInv, TypeOK, Idle
    <2>2. CASE Check(p)
      BY <1>1, <2>2, Goes DEF Check, DInv, PCs
    <2>3. CASE Webhook(p) /\ documentId
      BY <1>1, <2>3 DEF Webhook, DInv, TypeOK, Idle
    <2>4. CASE Webhook(p) /\ ~documentId
      BY <1>1, <2>4 DEF Webhook, At
    <2>5. CASE Invite(p)
      BY <1>1, <2>5 DEF Invite, DInv, TypeOK, Idle
    <2> QED BY <2>1, <2>2, <2>3, <2>4, <2>5 DEF Entry
  <1> QED BY <1>1, <1>2, <1>3 DEF Effect, Outside, ChainAside, ClaimAside, RowsAside,
             ReceiptsAside, DispatchPCs, At, env, mail

LEMMA ClaimEffect ==
  ASSUME DInv, NEW w \in Workers, NEW j \in Jobs, ClaimJob(w, j)
  PROVE  Effect(w)
  <1> DEFINE new == [Idle EXCEPT !.pc = "lookup", !.kind = "job", !.source = "worker", !.job = j]
  <1>1. new \in ProcState /\ new.pc = "lookup" /\ new.source = "worker"
    BY IdleTyped DEF ProcState, PCs, Kinds, Sources
  <1>2. proc' = [proc EXCEPT ![w] = new] /\ w \in Procs /\ At(w, "idle")
    BY DEF ClaimJob, Procs
  <1> HIDE DEF new
  <1>3. UNCHANGED <<env, selected, chain, claimed, notified, sign, mail, calls, faults>>
    BY DEF ClaimJob
  <1>4. jobs' \in [Jobs -> [status : JobStatus, attempts : Nat]]
    BY DEF ClaimJob, DInv, TypeOK, JobStatus
  <1>5. /\ proc' \in [Procs -> ProcState] /\ proc' = [proc EXCEPT ![w] = proc'[w]]
        /\ proc'[w].pc = "lookup" /\ proc'[w].source = "worker"
    BY <1>1, <1>2 DEF DInv, TypeOK
  <1>6. TypeOK'
    BY <1>3, <1>4, <1>5 DEF DInv, TypeOK, env, sign, mail
  <1>7. HandlersHold'
    BY <1>2, <1>5 DEF DInv, HandlersHold, At, TypeOK
  <1>8. Owned(w)
    BY <1>3, <1>5, <1>6, <1>7 DEF Owned, DInv, TypeOK
  <1> QED BY <1>2, <1>3, <1>5, <1>8 DEF Effect, Outside, ChainAside, ClaimAside, RowsAside,
             ReceiptsAside, DispatchPCs, At, env, sign, mail

LEMMA ProgressEffect ==
  ASSUME DInv, NEW p \in Procs, Progress(p) \/ Crash(p)
  PROVE  Effect(p)
  <1> USE DEF DInv
  <1>o. Owned(p)
    BY ProgressTyped
  <1>t. proc[p] \in ProcState /\ faults \in Nat
    BY DEF TypeOK
  <1>a. ASSUME ChainAside, ClaimAside, UNCHANGED mail, credit' = credit, signed => signed',
               ~(At(p, "row") /\ proc[p].source = "stageB") \/ faults < faults',
               proc'[p].pc \notin {"notify", "sign", "claimB", "select"},
               proc'[p].pc \in DispatchPCs => proc'[p].source # "stageB"
        PROVE  Effect(p)
    BY <1>a, <1>o DEF Effect, Outside, RowsAside, ReceiptsAside, mail
  <1>x. ASSUME Throw(p)
        PROVE  proc'[p].pc = "finish" /\ proc'[p].source = proc[p].source
    BY <1>x, <1>t DEF Throw, TypeOK, ProcState
  <1>1. CASE SnapA(p)
    <2>1. proc'[p].pc \in {"claimA", "snapB"}
      BY <1>1, Goes DEF SnapA, PCs
    <2> QED BY <1>1, <1>a, <2>1 DEF SnapA, ChainAside, ClaimAside, DispatchPCs, At, env, sign
  <1>2. CASE ClaimA(p)
    <2>1. CASE ~chain /\ chain' /\ Goto(p, "notify")
      <3>1. proc'[p].pc = "notify"
        BY <2>1, Goes DEF PCs
      <3> QED BY <1>2, <2>1, <3>1, <1>o DEF ClaimA, Effect, StartsChain, ClaimAside, RowsAside,
                 ReceiptsAside, InStageB, DispatchPCs, At, env, sign, mail
    <2>2. CASE Goto(p, "snapB") /\ UNCHANGED chain
      <3>1. proc'[p].pc = "snapB"
        BY <2>2, Goes DEF PCs
      <3> QED BY <1>2, <2>2, <3>1, <1>a DEF ClaimA, ChainAside, ClaimAside, DispatchPCs, At, env, sign
    <2> QED BY <1>2, <2>1, <2>2 DEF ClaimA
  <1>3. CASE NotifyAdmins(p)
    <2>1. proc'[p].pc = "sign"
      BY <1>3, Goes DEF NotifyAdmins, PCs
    <2> QED BY <1>3, <2>1, <1>o DEF NotifyAdmins, Effect, StartsChain, ClaimAside, RowsAside,
                 ReceiptsAside, InStageB, DispatchPCs, At, env, sign, mail
  <1>4. CASE SendForSignature(p)
    <2>1. proc'[p].pc = "snapB"
      BY <1>4, Goes DEF SendForSignature, PCs
    <2> QED BY <1>4, <1>a, <2>1 DEF SendForSignature, ChainAside, ClaimAside, DispatchPCs, At, env, sign
  <1>5. CASE RecordDocumentId(p)
    BY <1>5, <1>a, Ends, IdleTyped DEF RecordDocumentId, ChainAside, ClaimAside, DispatchPCs, At, env
  <1>6. CASE SnapB(p)
    <2>1. PICK ready \in BOOLEAN : /\ ReadyForPackage(ready)
                                   /\ Goto(p, IF ready THEN "claimB" ELSE "after")
      BY <1>6 DEF SnapB
    <2>2. CASE ready
      <3>1. proc'[p].pc = "claimB"
        BY <2>1, <2>2, Goes DEF PCs
      <3>2. credit /\ signed
        BY <2>1, <2>2 DEF ReadyForPackage, ReadOr
      <3> QED BY <1>6, <3>1, <3>2, <1>o DEF SnapB, Effect, Approaches, ChainAside, ClaimAside,
                 RowsAside, ReceiptsAside, InStageB, DispatchPCs, At, env, sign, mail
    <2>3. CASE ~ready
      <3>1. proc'[p].pc = "after"
        BY <2>1, <2>3, Goes DEF PCs
      <3> QED BY <1>6, <3>1, <1>a DEF SnapB, ChainAside, ClaimAside, DispatchPCs, At, env, sign
    <2> QED BY <2>2, <2>3
  <1>7. CASE ClaimB(p)
    <2>1. CASE ~claimed /\ claimed' /\ Goto(p, "select")
      <3>1. proc'[p].pc = "select"
        BY <2>1, Goes DEF PCs
      <3>2. credit /\ signed
        BY <1>7 DEF ClaimB, SeenReady
      <3> QED BY <1>7, <2>1, <3>1, <3>2, <1>o DEF ClaimB, Effect, Approaches, ChainAside,
                 RowsAside, ReceiptsAside, InStageB, DispatchPCs, At, env, sign, mail
    <2>2. CASE Goto(p, "after") /\ UNCHANGED claimed
      <3>1. proc'[p].pc = "after"
        BY <2>2, Goes DEF PCs
      <3> QED BY <1>7, <2>2, <3>1, <1>a DEF ClaimB, ChainAside, ClaimAside, DispatchPCs, At, env, sign
    <2> QED BY <1>7, <2>1, <2>2 DEF ClaimB
  <1>8. CASE SelectLenders(p)
    <2>1. CASE Goto(p, "after") /\ claimed' = FALSE
      <3>1. proc'[p].pc = "after"
        BY <2>1, Goes DEF PCs
      <3>2. \A l \in Lenders : rows[l]["stageB"] = 0
        BY <1>8 DEF SelectLenders, StageBInv, RowsUnderClaim
      <3> QED BY <1>8, <3>1, <3>2, <1>o DEF SelectLenders, Effect, Leaves, ChainAside,
                 RowsAside, ReceiptsAside, InStageB, DispatchPCs, At, env, sign, mail
    <2>2. CASE proc' = [proc EXCEPT ![p] = [@ EXCEPT !.pc = "build", !.todo = selected,
                                                     !.source = "stageB"]] /\ UNCHANGED claimed
      <3>1. proc'[p].pc = "build" /\ proc'[p].source = "stageB"
        BY <2>2, <1>t DEF TypeOK, ProcState
      <3> QED BY <1>8, <2>2, <3>1, <1>o DEF SelectLenders, Effect, Prepares, ChainAside, ClaimAside,
                 RowsAside, ReceiptsAside, InStageB, DispatchPCs, At, env, sign, mail
    <2> QED BY <1>8, <2>1, <2>2 DEF SelectLenders
  <1>9. CASE FinishStageB(p)
    <2>1. proc'[p].pc = "after"
      BY <1>9, Goes DEF FinishStageB, PCs
    <2>2. ClaimAside \/ \A l \in Lenders : rows[l]["stageB"] = 0
      BY <1>9 DEF FinishStageB, Release, NoRows, ClaimAside, Sources
    <2> QED BY <1>9, <2>1, <2>2, <1>o DEF FinishStageB, Effect, Leaves, ChainAside,
               RowsAside, ReceiptsAside, InStageB, DispatchPCs, At, env, sign, mail
  <1>10. CASE After(p)
    <2>1. proc'[p].pc = "idle" \/ (proc'[p].source = "direct" /\ proc'[p].pc = "build")
      <3> DEFINE new == [Idle EXCEPT !.pc = "build", !.kind = "direct",
                                     !.source = "direct", !.todo = proc[p].ids]
      <3>1. new.pc = "build" /\ new.source = "direct"
        BY DEF Idle
      <3>2. End(p) \/ proc' = [proc EXCEPT ![p] = new]
        BY <1>10 DEF After
      <3> HIDE DEF new
      <3> QED BY <3>1, <3>2, Ends, IdleTyped DEF TypeOK
    <2> QED BY <1>10, <1>a, <2>1 DEF After, ChainAside, ClaimAside, DispatchPCs, At, env, sign
  <1>11. CASE FinishDirect(p)
    BY <1>11, <1>a, Ends, IdleTyped DEF FinishDirect, ChainAside, ClaimAside, DispatchPCs, At, env, sign
  <1>12. CASE Build(p)
    <2>1. /\ proc'[p].pc \in {"deliver", "finish"} /\ proc'[p].source = proc[p].source
          /\ proc'[p].todo = proc[p].todo
      <3>1. CASE Goto(p, "deliver")
        BY <3>1, Goes DEF PCs
      <3>2. CASE proc' = [proc EXCEPT ![p] = [@ EXCEPT !.pc = "finish", !.err = TRUE]]
        BY <3>2, <1>t DEF TypeOK, ProcState
      <3> QED BY <1>12, <3>1, <3>2 DEF Build
    <2>2. CASE proc[p].source = "stageB"
      BY <1>12, <2>1, <2>2, <1>o DEF Build, Effect, Prepares, ChainAside, ClaimAside,
         RowsAside, ReceiptsAside, InStageB, DispatchPCs, At, env, sign, mail
    <2>3. CASE proc[p].source # "stageB"
      BY <1>12, <2>1, <2>3, <1>a DEF Build, ChainAside, ClaimAside, DispatchPCs, At, env, sign
    <2> QED BY <2>2, <2>3
  <1>13. ASSUME NEW l \in Lenders, Deliver(p, l) PROVE Effect(p)
    <2> DEFINE thrown == [proc[p] EXCEPT !.pc = "finish", !.err = TRUE]
               called(ok) == [proc[p] EXCEPT !.pc = "row", !.lender = l, !.ok = ok]
    <2>1. /\ \/ proc'[p].pc = "row" /\ proc'[p].lender = l
             \/ proc'[p].pc = "finish" /\ Fault
          /\ proc'[p].source = proc[p].source /\ proc'[p].todo = proc[p].todo
      <3>1. /\ thrown.pc = "finish" /\ thrown.source = proc[p].source
            /\ thrown.todo = proc[p].todo
        BY <1>t DEF ProcState
      <3>2. \A ok \in BOOLEAN : /\ called(ok).pc = "row" /\ called(ok).lender = l
                                /\ called(ok).source = proc[p].source
                                /\ called(ok).todo = proc[p].todo
        BY <1>t DEF ProcState
      <3>3. \/ proc' = [proc EXCEPT ![p] = thrown] /\ Fault
            \/ \E ok \in BOOLEAN : proc' = [proc EXCEPT ![p] = called(ok)]
        BY <1>13 DEF Deliver
      <3> HIDE DEF thrown, called
      <3> QED BY <3>1, <3>2, <3>3 DEF TypeOK
    <2>2. /\ At(p, "deliver") /\ l \in proc[p].todo
          /\ UNCHANGED <<env, selected, chain, claimed, notified, sign, jobs, rows>>
      BY <1>13 DEF Deliver
    <2>3. \/ received' = received
          \/ received' = [received EXCEPT ![l][proc[p].source] = @ + 1]
      BY <1>13 DEF Deliver
    <2>4. CASE proc[p].source = "stageB"
      <3>1. /\ \A k \in Lenders \ {l} : received'[k]["stageB"] = received[k]["stageB"]
            /\ received'[l]["stageB"] \in received[l]["stageB"] .. received[l]["stageB"] + 1
        BY <2>3, <2>4 DEF TypeOK, Sources
      <3>2. Calls(p, l)
        BY <2>1, <2>2, <2>4, <3>1, FaultBound DEF Calls, ChainAside, ClaimAside, RowsAside, InStageB,
           DispatchPCs, At
      <3> QED BY <3>2, <2>2, <1>o DEF Effect, env, sign
    <2>5. CASE proc[p].source # "stageB"
      <3>1. ReceiptsAside
        BY <2>3, <2>5 DEF TypeOK, Sources, ReceiptsAside
      <3>2. Outside(p)
        BY <2>1, <2>2, <2>5, <3>1 DEF Outside, ChainAside, ClaimAside, RowsAside, DispatchPCs, At
      <3> QED BY <3>2, <2>2, <1>o DEF Effect, env, sign
    <2> QED BY <2>4, <2>5
  <1>14. CASE RecordPackage(p)
    <2> DEFINE l == proc[p].lender
    <2>1. /\ proc'[p].pc \in {"finish", "deliver"} /\ proc'[p].source = proc[p].source
          /\ proc'[p].todo = proc[p].todo \ {l}
      BY <1>14, <1>t DEF RecordPackage, TypeOK, ProcState
    <2>2. /\ At(p, "row")
          /\ UNCHANGED <<env, selected, chain, claimed, notified, sign, jobs, received>>
      BY <1>14 DEF RecordPackage
    <2>3. \/ rows' = rows /\ Fault
          \/ rows' = [rows EXCEPT ![l][proc[p].source] = @ + 1]
      BY <1>14 DEF RecordPackage
    <2>4. l \in Lenders
      BY <2>2, <1>t DEF HandlersHold, ProcState
    <2>5. CASE proc[p].source = "stageB"
      <3>1. /\ \A k \in Lenders \ {l} : rows'[k]["stageB"] = rows[k]["stageB"]
            /\ \/ rows'[l]["stageB"] = rows[l]["stageB"] + 1
               \/ rows'[l]["stageB"] = rows[l]["stageB"] /\ faults' = faults + 1
        BY <2>3, <2>4, <2>5, FaultBound DEF TypeOK, Sources
      <3>2. Records(p)
        BY <2>1, <2>2, <2>5, <3>1 DEF Records, ChainAside, ClaimAside, ReceiptsAside, InStageB,
           DispatchPCs, At
      <3> QED BY <3>2, <2>2, <1>o DEF Effect, env, sign
    <2>6. CASE proc[p].source # "stageB"
      <3>1. RowsAside
        BY <2>3, <2>4, <2>6 DEF TypeOK, Sources, RowsAside
      <3>2. Outside(p)
        BY <2>1, <2>2, <2>6, <3>1 DEF Outside, ChainAside, ClaimAside, ReceiptsAside, DispatchPCs, At
      <3> QED BY <3>2, <2>2, <1>o DEF Effect, env, sign
    <2> QED BY <2>5, <2>6
  <1>15. CASE Stamp(p)
    <2>1. proc'[p].pc = "enqueue"
      BY <1>15, Goes DEF Stamp, PCs
    <2> QED BY <1>15, <1>a, <2>1 DEF Stamp, ChainAside, ClaimAside, DispatchPCs, At, env
  <1>16. CASE Enqueue(p)
    BY <1>16, <1>a, Ends, IdleTyped DEF Enqueue, ChainAside, ClaimAside, DispatchPCs, At, env, sign
  <1>17. CASE LookupLenders(p)
    <2>w. proc[p].source = "worker"
      BY <1>17 DEF LookupLenders, HandlersHold, At
    <2>1. proc'[p].source = "worker" /\ proc'[p].pc \in {"refuse", "build", "finish"}
      <3>1. CASE Goto(p, "refuse")
        BY <3>1, <2>w, Goes DEF PCs
      <3>2. CASE proc' = [proc EXCEPT ![p] = [@ EXCEPT !.pc = "build", !.todo = selected]]
        BY <2>w, <3>2, <1>t DEF TypeOK, ProcState
      <3>3. CASE Throw(p)
        BY <2>w, <3>3, <1>x
      <3> QED BY <1>17, <3>1, <3>2, <3>3 DEF LookupLenders
    <2> QED BY <1>17, <1>a, <2>1 DEF LookupLenders, ChainAside, ClaimAside, DispatchPCs, At, env, sign
  <1>18. CASE RefuseJob(p)
    <2>w. proc[p].source = "worker"
      BY <1>18 DEF RefuseJob, HandlersHold, At
    <2>1. proc'[p].pc = "idle" \/ (proc'[p].source = "worker" /\ proc'[p].pc = "finish")
      BY <1>18, <1>x, <2>w, Ends, IdleTyped DEF RefuseJob
    <2> QED BY <1>18, <1>a, <2>1 DEF RefuseJob, ChainAside, ClaimAside, DispatchPCs, At, env, sign
  <1>19. CASE CompleteJob(p)
    <2>1. proc'[p].pc = "idle" \/ (proc'[p].source = "worker" /\ proc'[p].pc = "finish")
      BY <1>19, <1>x, Ends, IdleTyped DEF CompleteJob
    <2> QED BY <1>19, <1>a, <2>1 DEF CompleteJob, ChainAside, ClaimAside, DispatchPCs, At, env, sign
  <1>20. CASE CatchJob(p)
    BY <1>20, <1>a, Ends, IdleTyped DEF CatchJob, ChainAside, ClaimAside, DispatchPCs, At, env, sign
  <1>21. CASE Crash(p)
    BY <1>21, <1>a, <1>t, Ends, IdleTyped, FaultBound DEF Crash, ChainAside, ClaimAside, DispatchPCs, At, env, sign
  <1> QED
    BY <1>1, <1>2, <1>3, <1>4, <1>5, <1>6, <1>7, <1>8, <1>9, <1>10, <1>11, <1>12, <1>13,
       <1>14, <1>15, <1>16, <1>17, <1>18, <1>19, <1>20, <1>21 DEF Progress

-----------------------------------------------------------------------------
(* The parts of the invariant under one such effect                         *)

LEMMA ChainKept ==
  ASSUME DInv, NEW p \in Procs, Effect(p)
  PROVE  ChainHeld'
  <1>t. proc \in [Procs -> ProcState] /\ notified \in Nat /\ proc' = [proc EXCEPT ![p] = proc'[p]]
    BY DEF DInv, TypeOK, Effect, Owned
  <1>1. CASE StartsChain(p)
    BY <1>1, <1>t DEF DInv, ChainHeld, StartsChain, At
  <1>2. ASSUME ChainAside, proc'[p].pc \notin {"notify", "sign"} PROVE ChainHeld'
    <2>1. \A q \in Procs : proc'[q].pc \in {"notify", "sign"} => q # p /\ proc'[q] = proc[q]
      BY <1>2, <1>t
    <2>2. ChainHeld /\ (chain => chain') /\ notified' = notified
      BY <1>2 DEF DInv, ChainAside
    <2>3. (notified' > 0 => chain') /\ notified' <= 1
      BY <2>2 DEF ChainHeld
    <2>4. \A q \in Procs : q # p /\ proc'[q].pc = "notify" => notified' = 0
      BY <2>1, <2>2 DEF ChainHeld, At
    <2>5. \A q \in Procs : proc'[q].pc \in {"notify", "sign"} => chain
      BY <2>1, <2>2 DEF ChainHeld, At
    <2>6. \A q, r \in Procs : {proc'[q].pc, proc'[r].pc} \subseteq {"notify", "sign"} => q = r
      BY <2>1, <2>2 DEF ChainHeld, At
    <2> QED BY <2>1, <2>2, <2>3, <2>4, <2>5, <2>6 DEF ChainHeld, At
  <1>3. CASE ~StartsChain(p)
    <2>1. ChainAside /\ proc'[p].pc \notin {"notify", "sign"}
      BY <1>3 DEF Effect, Outside, Approaches, Prepares, Calls, Records, Leaves
    <2> QED BY <2>1, <1>2
  <1> QED BY <1>1, <1>3

LEMMA ReadyKept ==
  ASSUME DInv, NEW p \in Procs, Effect(p)
  PROVE  SeenReady' /\ StageBGated'
  <1>t. proc \in [Procs -> ProcState] /\ proc' = [proc EXCEPT ![p] = proc'[p]]
        /\ credit' = credit /\ (signed => signed')
    BY DEF DInv, TypeOK, Effect, Owned
  <1>1. proc'[p].pc = "claimB" \/ InStageB(p)' => credit /\ signed
    BY DEF DInv, SeenReady, Effect, Outside, StartsChain, Approaches, Prepares, Calls, Records,
           Leaves, InStageB, DispatchPCs, At
  <1>2. SeenReady'
    BY <1>1, <1>t DEF DInv, SeenReady, InStageB, At
  <1>3. StageBGated'
    <2>1. ASSUME ReceiptsAside PROVE StageBGated'
      BY <2>1, <1>t DEF DInv, StageBGated, ReceiptsAside
    <2>2. ASSUME NEW l \in Lenders, Calls(p, l) PROVE StageBGated'
      BY <2>2, <1>t DEF DInv, StageBGated, SeenReady, Calls
    <2> QED BY <2>1, <2>2 DEF Effect, Outside, StartsChain, Approaches, Prepares, Records, Leaves
  <1> QED BY <1>2, <1>3

LEMMA StageBKept ==
  ASSUME DInv, NEW p \in Procs, Effect(p)
  PROVE  StageBInv'
  <1> USE DEF DInv, StageBInv
  <1>t. /\ proc \in [Procs -> ProcState] /\ proc' = [proc EXCEPT ![p] = proc'[p]]
        /\ faults \in Nat /\ faults' \in Nat /\ faults <= faults'
        /\ \A l \in Lenders : /\ rows[l]["stageB"] \in Nat /\ rows'[l]["stageB"] \in Nat
                              /\ received[l]["stageB"] \in Nat /\ received'[l]["stageB"] \in Nat
    BY DEF TypeOK, Effect, Owned, Sources
  <1>s. \A q \in Procs \ {p} : proc'[q] = proc[q]
    BY <1>t
  <1>1. CASE Outside(p) \/ StartsChain(p)
    <2>1. claimed' = claimed /\ RowsAside /\ ReceiptsAside /\ ~InStageB(p)' /\ proc'[p].pc # "select"
      BY <1>1 DEF Outside, StartsChain, ClaimAside, InStageB, DispatchPCs, At
    <2>3. StageBExclusive'
      BY <2>1, <1>s DEF StageBExclusive, InStageB, At
    <2>4. StageBRowsOnce'
      BY <2>1 DEF StageBRowsOnce, RowsAside
    <2>5. \A q \in Procs : InStageB(q)' => q # p /\ InStageB(q) /\ proc'[q] = proc[q]
      BY <2>1, <1>s DEF InStageB, At
    <2>6. \A q \in Procs : At(q, "select")' => q # p /\ At(q, "select")
      BY <2>1, <1>s DEF At
    <2>a. claimed => claimed'
      BY <2>1
    <2>b. \A q \in Procs : proc'[q].todo \subseteq Lenders
      BY DEF Effect, Owned, TypeOK, ProcState
    <2>7. RowsUnderClaim'
      <3>1. \A k \in Lenders : rows'[k]["stageB"] = rows[k]["stageB"]
        BY <2>1 DEF RowsAside
      <3> QED BY <3>1, <2>5, <2>6, <2>a, <2>b DEF RowsUnderClaim
    <2>8. faults < faults' \/ \A k \in Lenders : RowPending(k) => RowPending(k)'
      <3>1. faults < faults' \/ ~(At(p, "row") /\ proc[p].source = "stageB")
        BY <1>1 DEF Outside, StartsChain, InStageB, DispatchPCs, At
      <3> QED BY <3>1, <1>s DEF RowPending, At
    <2>9. ReceiptsExplained'
      BY <2>1, <2>8, <1>t DEF ReceiptsExplained, RowsAside, ReceiptsAside
    <2> QED BY <2>3, <2>4, <2>7, <2>9
  <1>2. CASE Approaches(p)
    <2>1. /\ RowsAside /\ ReceiptsAside /\ ~InStageB(p) /\ proc'[p].pc \in {"claimB", "select"}
          /\ InStageB(p)' => ~claimed /\ claimed'
          /\ claimed => claimed'
      BY <1>2 DEF Approaches, ClaimAside, InStageB, DispatchPCs, At
    <2>2. InStageB(p)' => \A q \in Procs : ~InStageB(q)
      BY <2>1 DEF StageBExclusive
    <2>3. \A q \in Procs : q # p => (InStageB(q)' <=> InStageB(q)) /\ proc'[q] = proc[q]
      BY <1>s DEF InStageB, At
    <2>4. StageBExclusive'
      BY <2>1, <2>2, <2>3 DEF StageBExclusive
    <2>5. StageBRowsOnce'
      BY <2>1 DEF StageBRowsOnce, RowsAside
    <2>6. InStageB(p)' => \A k \in Lenders : rows[k]["stageB"] = 0
      BY <2>1, <1>t DEF RowsUnderClaim
    <2>7. proc'[p].todo \subseteq Lenders /\ (At(p, "select")' => InStageB(p)')
      BY DEF Effect, Owned, TypeOK, ProcState, InStageB, At
    <2>8. RowsUnderClaim'
      <3>1. \A k \in Lenders : rows'[k]["stageB"] > 0 => claimed'
        BY <2>1 DEF RowsUnderClaim, RowsAside
      <3>2. \A q \in Procs : At(q, "select")' => \A k \in Lenders : rows'[k]["stageB"] = 0
        BY <2>1, <2>3, <2>6, <2>7 DEF RowsUnderClaim, RowsAside, At
      <3>3. \A q \in Procs : InStageB(q)' => \A k \in proc'[q].todo : rows'[k]["stageB"] = 0
        <4>1. \A q \in Procs : proc'[q].todo \subseteq Lenders
          BY DEF Effect, Owned, TypeOK, ProcState
        <4> QED BY <2>1, <2>3, <2>6, <4>1 DEF RowsUnderClaim, RowsAside
      <3> QED BY <3>1, <3>2, <3>3 DEF RowsUnderClaim
    <2>9. \A k \in Lenders : RowPending(k) => RowPending(k)'
      BY <2>1, <2>3 DEF RowPending, InStageB, DispatchPCs, At
    <2>10. ReceiptsExplained'
      BY <2>1, <2>9, <1>t DEF ReceiptsExplained, RowsAside, ReceiptsAside
    <2> QED BY <2>4, <2>5, <2>8, <2>10
  <1>i. ASSUME InStageB(p)
        PROVE  claimed /\ \A q \in Procs : q # p => ~InStageB(q) /\ ~InStageB(q)' /\ proc'[q] = proc[q]
    BY <1>i, <1>s DEF StageBExclusive, InStageB, At
  <1>3. CASE Prepares(p)
    <2>1. /\ RowsAside /\ ReceiptsAside /\ InStageB(p) /\ claimed' = claimed
          /\ proc'[p].pc \in {"build", "deliver", "finish"} /\ ~At(p, "row")
          /\ At(p, "select") \/ proc'[p].todo = proc[p].todo
      BY <1>3 DEF Prepares, ClaimAside
    <2>2. claimed /\ \A q \in Procs : q # p => ~InStageB(q) /\ ~InStageB(q)' /\ proc'[q] = proc[q]
      BY <2>1, <1>i
    <2>3. StageBExclusive'
      BY <2>1, <2>2 DEF StageBExclusive
    <2>4. StageBRowsOnce'
      BY <2>1 DEF StageBRowsOnce, RowsAside
    <2>5. \A k \in proc'[p].todo : rows'[k]["stageB"] = 0
      <3>1. proc'[p].todo \subseteq Lenders
        BY DEF Effect, Owned, TypeOK, ProcState
      <3> QED BY <2>1, <3>1 DEF RowsUnderClaim, RowsAside
    <2>6. \A q \in Procs : ~At(q, "select")'
      BY <2>1, <2>2 DEF InStageB, At
    <2>7. RowsUnderClaim'
      BY <2>1, <2>2, <2>5, <2>6 DEF RowsUnderClaim
    <2>8. \A k \in Lenders : ~RowPending(k)
      BY <2>1, <2>2 DEF RowPending, InStageB, DispatchPCs, At
    <2>9. ReceiptsExplained'
      BY <2>1, <2>8, <1>t DEF ReceiptsExplained, RowsAside, ReceiptsAside
    <2> QED BY <2>3, <2>4, <2>7, <2>9
  <1>4. ASSUME NEW l \in Lenders, Calls(p, l) PROVE StageBInv'
    <2>1. /\ RowsAside /\ InStageB(p) /\ At(p, "deliver") /\ claimed' = claimed
          /\ proc'[p].pc \in {"row", "finish"} /\ proc'[p].source = "stageB"
          /\ proc'[p].todo = proc[p].todo
      BY <1>4 DEF Calls, ClaimAside
    <2>2. claimed /\ \A q \in Procs : q # p => ~InStageB(q) /\ ~InStageB(q)' /\ proc'[q] = proc[q]
      BY <2>1, <1>i
    <2>3. StageBExclusive'
      BY <2>1, <2>2 DEF StageBExclusive
    <2>4. StageBRowsOnce'
      BY <2>1 DEF StageBRowsOnce, RowsAside
    <2>5. \A k \in proc'[p].todo : rows'[k]["stageB"] = 0
      <3>1. proc'[p].todo \subseteq Lenders
        BY DEF Effect, Owned, TypeOK, ProcState
      <3> QED BY <2>1, <3>1 DEF RowsUnderClaim, RowsAside
    <2>6. \A q \in Procs : ~At(q, "select")'
      BY <2>1, <2>2 DEF InStageB, At
    <2>7. RowsUnderClaim'
      BY <2>1, <2>2, <2>5, <2>6 DEF RowsUnderClaim
    <2>8. \A k \in Lenders : ~RowPending(k)
      BY <2>1, <2>2 DEF RowPending, InStageB, DispatchPCs, At
    <2>9. \/ RowPending(l)'
          \/ faults' = faults + 1
      BY <1>4, <2>1 DEF Calls, RowPending, At
    <2>10. ReceiptsExplained'
      <3>1. \A k \in Lenders : received[k]["stageB"] <= rows[k]["stageB"] + faults
        BY <2>8 DEF ReceiptsExplained
      <3>2. /\ \A k \in Lenders \ {l} : received'[k]["stageB"] = received[k]["stageB"]
            /\ received'[l]["stageB"] <= received[l]["stageB"] + 1
            /\ \A k \in Lenders : rows'[k]["stageB"] = rows[k]["stageB"]
        BY <1>4, <2>1, <1>t DEF Calls, RowsAside
      <3>3. \A k \in Lenders \ {l} : received'[k]["stageB"] <= rows'[k]["stageB"] + faults'
        BY <3>1, <3>2, <1>t
      <3>4. /\ received'[l]["stageB"] <= rows'[l]["stageB"] + faults' + 1
            /\ faults' = faults + 1 => received'[l]["stageB"] <= rows'[l]["stageB"] + faults'
        BY <3>1, <3>2, <1>t
      <3> QED BY <3>3, <3>4, <2>9, <1>t DEF ReceiptsExplained
    <2> QED BY <2>3, <2>4, <2>7, <2>10
  <1>5. CASE Records(p)
    <2> DEFINE l == proc[p].lender
    <2>1. /\ ReceiptsAside /\ InStageB(p) /\ At(p, "row") /\ claimed' = claimed
          /\ proc'[p].pc \in {"finish", "deliver"} /\ proc[p].source = "stageB"
          /\ proc'[p].todo = proc[p].todo \ {l}
          /\ \A k \in Lenders \ {l} : rows'[k]["stageB"] = rows[k]["stageB"]
          /\ \/ rows'[l]["stageB"] = rows[l]["stageB"] + 1
             \/ rows'[l]["stageB"] = rows[l]["stageB"] /\ faults' = faults + 1
      BY <1>5 DEF Records, ClaimAside, InStageB, At
    <2>a. l \in Lenders /\ l \in proc[p].todo /\ proc[p].todo \subseteq Lenders
      BY <2>1, <1>t DEF HandlersHold, TypeOK, ProcState
    <2>b. rows[l]["stageB"] = 0
      BY <2>1, <2>a DEF RowsUnderClaim
    <2>2. claimed /\ \A q \in Procs : q # p => ~InStageB(q) /\ ~InStageB(q)' /\ proc'[q] = proc[q]
      BY <2>1, <1>i
    <2>3. StageBExclusive'
      BY <2>1, <2>2 DEF StageBExclusive
    <2>4. StageBRowsOnce'
      <3>1. \A k \in Lenders \ {l} : rows'[k]["stageB"] <= 1
        BY <2>1 DEF StageBRowsOnce
      <3>2. rows'[l]["stageB"] <= 1
        BY <2>1, <2>b
      <3> QED BY <3>1, <3>2 DEF StageBRowsOnce
    <2>5. \A k \in proc'[p].todo : rows'[k]["stageB"] = 0
      BY <2>1, <2>a DEF RowsUnderClaim
    <2>6. \A q \in Procs : ~At(q, "select")'
      BY <2>1, <2>2 DEF InStageB, At
    <2>7. RowsUnderClaim'
      BY <2>1, <2>2, <2>5, <2>6 DEF RowsUnderClaim
    <2>8. \A k \in Lenders \ {l} : ~RowPending(k)
      BY <2>1, <2>2 DEF RowPending, InStageB, DispatchPCs, At
    <2>9. \A k \in Lenders : received'[k]["stageB"] <= rows'[k]["stageB"] + faults'
      <3> HIDE DEF l
      <3>1. \A k \in Lenders \ {l} : received'[k]["stageB"] <= rows'[k]["stageB"] + faults'
        BY <2>1, <2>8, <1>t DEF ReceiptsExplained, ReceiptsAside
      <3>2. received'[l]["stageB"] <= rows'[l]["stageB"] + faults'
        BY <2>1, <2>a, <1>t DEF ReceiptsExplained, ReceiptsAside
      <3> QED BY <3>1, <3>2
    <2>10. ReceiptsExplained'
      BY <2>9, <1>t DEF ReceiptsExplained
    <2> QED BY <2>3, <2>4, <2>7, <2>10
  <1>6. CASE Leaves(p)
    <2>1. /\ RowsAside /\ ReceiptsAside /\ InStageB(p) /\ ~At(p, "row") /\ proc'[p].pc = "after"
          /\ claimed' = claimed \/ \A k \in Lenders : rows[k]["stageB"] = 0
      BY <1>6 DEF Leaves, ClaimAside
    <2>2. claimed /\ \A q \in Procs : q # p => ~InStageB(q) /\ ~InStageB(q)' /\ proc'[q] = proc[q]
      BY <2>1, <1>i
    <2>3. \A q \in Procs : ~InStageB(q)'
      BY <2>1, <2>2 DEF InStageB, DispatchPCs, At
    <2>4. StageBExclusive' /\ StageBRowsOnce'
      BY <2>1, <2>3 DEF StageBExclusive, StageBRowsOnce, RowsAside
    <2>a. claimed' \/ \A k \in Lenders : rows[k]["stageB"] = 0
      BY <2>1, <2>2
    <2>5. \A k \in Lenders : rows'[k]["stageB"] > 0 => claimed'
      <3>1. \A k \in Lenders : rows'[k]["stageB"] = rows[k]["stageB"]
        BY <2>1 DEF RowsAside
      <3> QED BY <3>1, <2>a
    <2>6. \A q \in Procs : ~At(q, "select")'
      BY <2>3 DEF InStageB, At
    <2>7. RowsUnderClaim'
      BY <2>3, <2>5, <2>6 DEF RowsUnderClaim
    <2>8. \A k \in Lenders : ~RowPending(k)
      BY <2>1, <2>2 DEF RowPending, InStageB, DispatchPCs, At
    <2>9. ReceiptsExplained'
      BY <2>1, <2>8, <1>t DEF ReceiptsExplained, RowsAside, ReceiptsAside
    <2> QED BY <2>4, <2>7, <2>9
  <1> QED BY <1>1, <1>2, <1>3, <1>4, <1>5, <1>6 DEF Effect

LEMMA EffectKeeps ==
  ASSUME DInv, NEW p \in Procs, Effect(p)
  PROVE  DInv'
  BY ChainKept, ReadyKept, StageBKept DEF DInv, Effect, Owned

-----------------------------------------------------------------------------
(* The theorems                                                             *)

LEMMA InitInvariant == Init => DInv
  <1> SUFFICES ASSUME Init PROVE DInv
    OBVIOUS
  <1>1. proc = [p \in Procs |-> Idle] /\ \A p \in Procs : proc[p] = Idle
    BY DEF Init
  <1>2. TypeOK
    <2>1. /\ docs \in BOOLEAN /\ tasks \in BOOLEAN /\ credit \in BOOLEAN
          /\ selected \in SUBSET Lenders /\ chain \in BOOLEAN /\ claimed \in BOOLEAN
          /\ invited \in BOOLEAN /\ documentId \in BOOLEAN /\ signed \in BOOLEAN
      BY DEF Init
    <2>2. jobs \in [Jobs -> [status : JobStatus, attempts : Nat]]
      BY DEF Init, JobStatus
    <2>3. rows \in [Lenders -> [Sources -> Nat]] /\ received \in [Lenders -> [Sources -> Nat]]
      BY DEF Init
    <2>4. proc \in [Procs -> ProcState]
      BY <1>1, IdleTyped
    <2>5. notified \in Nat /\ calls \in 0..MaxCalls /\ faults \in 0..MaxFaults
      BY BoundsAssumption DEF Init
    <2> QED BY <2>1, <2>2, <2>3, <2>4, <2>5 DEF TypeOK
  <1>3. \A p \in Procs : ~InStageB(p) /\ proc[p].pc = "idle"
    BY <1>1, IdleTyped DEF InStageB, DispatchPCs, At
  <1>4. \A l \in Lenders : rows[l]["stageB"] = 0 /\ received[l]["stageB"] = 0
    BY DEF Init, Sources
  <1>5. faults = 0 /\ notified = 0
    BY DEF Init
  <1>6. HandlersHold /\ SeenReady /\ ChainHeld
    <2>1. ChainHeld
      BY <1>3, <1>5 DEF ChainHeld, At
    <2>2. HandlersHold /\ SeenReady
      BY <1>3 DEF HandlersHold, SeenReady, At
    <2> QED BY <2>1, <2>2
  <1>7. StageBExclusive /\ RowsUnderClaim
    BY <1>3, <1>4 DEF StageBExclusive, RowsUnderClaim, At
  <1>8. StageBRowsOnce /\ ReceiptsExplained /\ StageBGated
    BY <1>4, <1>5 DEF StageBRowsOnce, ReceiptsExplained, StageBGated
  <1> QED BY <1>2, <1>6, <1>7, <1>8 DEF DInv, StageBInv

LEMMA StepInvariant == DInv /\ [Next]_vars => DInv'
  <1> SUFFICES ASSUME DInv, [Next]_vars PROVE DInv'
    OBVIOUS
  <1>1. CASE StaffWork
    <2>1. UNCHANGED <<selected, chain, claimed, notified, sign, jobs, mail, proc, calls, faults>>
      BY <1>1 DEF StaffWork
    <2>2. docs' \in BOOLEAN /\ tasks' \in BOOLEAN /\ credit' \in BOOLEAN
      BY <1>1 DEF StaffWork, ReviewDocuments, WorkTasks, SubmitCreditSummary, DInv, TypeOK
    <2>3. credit => credit'
      BY <1>1 DEF StaffWork, ReviewDocuments, WorkTasks, SubmitCreditSummary
    <2>4. TypeOK'
      BY <2>1, <2>2 DEF DInv, TypeOK, sign, mail
    <2>5. HandlersHold' /\ StageBInv' /\ ChainHeld'
      BY <2>1 DEF DInv, HandlersHold, StageBInv, StageBExclusive, StageBRowsOnce, RowsUnderClaim,
                  ReceiptsExplained, RowPending, ChainHeld, InStageB, At, mail
    <2>6. SeenReady' /\ StageBGated'
      BY <2>1, <2>3 DEF DInv, SeenReady, StageBGated, InStageB, At, sign, mail
    <2> QED BY <2>4, <2>5, <2>6 DEF DInv
  <1>2. ASSUME NEW p \in Callers, Entry(p) PROVE DInv'
    BY <1>2, EntryEffect, EffectKeeps DEF Procs
  <1>3. ASSUME NEW w \in Workers, NEW j \in Jobs, ClaimJob(w, j) PROVE DInv'
    BY <1>3, ClaimEffect, EffectKeeps DEF Procs
  <1>4. ASSUME NEW p \in Procs, Progress(p) \/ Crash(p) PROVE DInv'
    BY <1>4, ProgressEffect, EffectKeeps
  <1>5. CASE UNCHANGED vars
    BY <1>5 DEF DInv, vars, env, sign, mail, TypeOK, HandlersHold, StageBInv, StageBExclusive,
                StageBRowsOnce, RowsUnderClaim, ReceiptsExplained, RowPending, ChainHeld, SeenReady,
                StageBGated, InStageB, At
  <1> QED BY <1>1, <1>2, <1>3, <1>4, <1>5 DEF Next

\* The inductive invariant of progressSubmission and lenderPackageWorker.
THEOREM DispatchInvariant == Spec => []DInv
  BY InitInvariant, StepInvariant, PTL DEF Spec

\* maybeBuildAndSendPackage runs one dispatch at a time, writes one row for each
\* lender, and a lender has at most one package more than faults happened.
THEOREM StageBSendsOnce == Spec => []StageBOnce
  <1>1. ASSUME DInv PROVE StageBResendNeedsFault
    <2> SUFFICES ASSUME NEW l \in Lenders PROVE received[l]["stageB"] <= 1 + faults
      BY DEF StageBResendNeedsFault
    <2>1. /\ received[l]["stageB"] \in Nat /\ rows[l]["stageB"] \in Nat /\ faults \in Nat
          /\ rows[l]["stageB"] <= 1
      BY <1>1 DEF DInv, TypeOK, Sources, StageBInv, StageBRowsOnce
    <2>2. CASE RowPending(l)
      <3>1. PICK p \in Procs : /\ At(p, "row") /\ proc[p].source = "stageB"
                               /\ proc[p].lender = l
        BY <2>2 DEF RowPending
      <3>2. rows[l]["stageB"] = 0
        BY <1>1, <3>1 DEF DInv, StageBInv, HandlersHold, RowsUnderClaim, InStageB, DispatchPCs, At
      <3> QED BY <1>1, <2>1, <3>2 DEF DInv, StageBInv, ReceiptsExplained
    <2>3. CASE ~RowPending(l)
      BY <1>1, <2>1, <2>3 DEF DInv, StageBInv, ReceiptsExplained
    <2> QED BY <2>2, <2>3
  <1>2. DInv => StageBOnce
    BY <1>1 DEF DInv, StageBInv, StageBOnce
  <1> QED BY <1>2, DispatchInvariant, PTL

\* Nothing that stage B sent left before the credit summary and the signature,
\* and the chain notified and signed once.
THEOREM NothingLeavesEarly == Spec => []ChainIsGated
  <1>1. DInv => ChainIsGated
    BY DEF DInv, ChainHeld, ChainIsGated, StageBGated, ChainStartedOnce, At
  <1> QED BY <1>1, DispatchInvariant, PTL

-----------------------------------------------------------------------------
(* The resends of the worker                                                *)

\* The rows of job_queue that exist.
Created == {j \in Jobs : jobs[j].status # "none"}

\* A job that may still be worked on has an attempt left.
AttemptsLeft ==
  \A j \in Jobs : /\ jobs[j].attempts <= MaxAttempts
                  /\ jobs[j].status = "none" => jobs[j].attempts = 0
                  /\ jobs[j].status \in {"pending", "in_progress", "completed"}
                       => jobs[j].attempts < MaxAttempts

\* A worker inside lenderPackageWorker has a job in progress, and has it alone.
JobHeldAlone ==
  /\ \A p \in Procs : proc[p].source = "worker" =>
       /\ proc[p].pc \in {"lookup", "refuse"} \cup DispatchPCs
       /\ proc[p].job \in Jobs /\ jobs[proc[p].job].status = "in_progress"
  /\ \A p, q \in Procs :
       /\ proc[p].source = "worker" /\ proc[q].source = "worker"
       /\ proc[p].job = proc[q].job
       => p = q

\* Worker p holds job j and has not called lender l yet, but may.
YetToCall(p, j, l) ==
  /\ proc[p].source = "worker" /\ proc[p].job = j
  /\ \/ proc[p].pc \in {"lookup", "refuse"}
     \/ proc[p].pc \in {"build", "deliver"} /\ l \in proc[p].todo
     \/ At(p, "row") /\ l \in proc[p].todo \ {proc[p].lender}

\* Attempt n of job j is past the call of lender l: the attempt is counted, or it
\* is the present one and nobody is still to make the call.
Past(j, n, l) ==
  \/ n <= jobs[j].attempts
  \/ /\ n = jobs[j].attempts + 1
     /\ jobs[j].status \in {"in_progress", "completed"}
     /\ \A p \in Procs : ~YetToCall(p, j, l)

PastCalls(l) == {x \in Jobs \X (1..MaxAttempts) : Past(x[1], x[2], l)}

\* What a lender received from the worker it received in attempts of their own.
EachCallHasAttempt ==
  \A l \in Lenders : received[l]["worker"] <= Cardinality(PastCalls(l))

WInv == DInv /\ IsFiniteSet(Created) /\ AttemptsLeft /\ JobHeldAlone /\ EachCallHasAttempt

LEMMA Pairs ==
  ASSUME NEW J, IsFiniteSet(J), NEW S \in SUBSET (J \X (1..MaxAttempts))
  PROVE  IsFiniteSet(S) /\ Cardinality(S) \in Nat /\ Cardinality(S) <= MaxAttempts * Cardinality(J)
  <1>1. MaxAttempts \in Nat \ {0} /\ Cardinality(J) \in Nat
    BY BoundsAssumption, FS_CardinalityType
  <1>2. IsFiniteSet(1..MaxAttempts) /\ Cardinality(1..MaxAttempts) = MaxAttempts
    <2>1. 1 \in Int /\ MaxAttempts \in Int /\ ~(1 > MaxAttempts) /\ MaxAttempts - 1 + 1 = MaxAttempts
      BY <1>1
    <2>2. /\ IsFiniteSet(1..MaxAttempts)
          /\ Cardinality(1..MaxAttempts) = IF 1 > MaxAttempts THEN 0 ELSE MaxAttempts - 1 + 1
      BY <2>1, FS_Interval
    <2> QED BY <2>1, <2>2
  <1> DEFINE P == J \X (1..MaxAttempts)
  <1>3. IsFiniteSet(P) /\ Cardinality(P) = Cardinality(J) * Cardinality(1..MaxAttempts)
    BY <1>2, FS_Product
  <1>4. S \in SUBSET P
    OBVIOUS
  <1>5. IsFiniteSet(S) /\ Cardinality(S) <= Cardinality(P) /\ Cardinality(S) \in Nat
    <2> HIDE DEF P
    <2> QED BY <1>3, <1>4, FS_Subset, FS_CardinalityType
  <1>6. Cardinality(P) = MaxAttempts * Cardinality(J)
    BY <1>1, <1>2, <1>3
  <1> QED BY <1>5, <1>6

\* A set that grows has at least as many members, and one more with a new one.
LEMMA Grows ==
  ASSUME NEW S, NEW T, IsFiniteSet(T), S \subseteq T
  PROVE  /\ Cardinality(S) <= Cardinality(T)
         /\ \A x \in T \ S : Cardinality(S) + 1 <= Cardinality(T)
  <1>1. IsFiniteSet(S) /\ Cardinality(S) <= Cardinality(T)
    BY FS_Subset
  <1>2. ASSUME NEW x \in T \ S PROVE Cardinality(S) + 1 <= Cardinality(T)
    <2>1. Cardinality(S \cup {x}) = Cardinality(S) + 1
      BY <1>1, <1>2, FS_AddElement
    <2>2. S \cup {x} \in SUBSET T
      BY <1>2
    <2> QED BY <2>1, <2>2, FS_Subset
  <1> QED BY <1>1, <1>2

CallsBounded ==
  \A l \in Lenders : /\ IsFiniteSet(PastCalls(l)) /\ Cardinality(PastCalls(l)) \in Nat
                     /\ Cardinality(PastCalls(l)) <= MaxAttempts * Cardinality(Created)

\* The counted attempts are of jobs that exist.
LEMMA PastBounded == TypeOK /\ IsFiniteSet(Created) /\ AttemptsLeft => CallsBounded
  <1> SUFFICES ASSUME TypeOK, IsFiniteSet(Created), AttemptsLeft, NEW l \in Lenders
               PROVE  PastCalls(l) \in SUBSET (Created \X (1..MaxAttempts))
    BY Pairs DEF CallsBounded
  <1>1. ASSUME NEW x \in PastCalls(l) PROVE x \in Created \X (1..MaxAttempts)
    <2>1. x \in Jobs \X (1..MaxAttempts) /\ Past(x[1], x[2], l)
      BY <1>1 DEF PastCalls
    <2>2. x[1] \in Jobs /\ x[2] \in 1..MaxAttempts /\ x = <<x[1], x[2]>>
      BY <2>1
    <2>3. jobs[x[1]].status # "none"
      <3>1. jobs[x[1]].status = "none" => jobs[x[1]].attempts = 0
        BY <2>2 DEF AttemptsLeft
      <3> QED BY <2>1, <2>2, <3>1, BoundsAssumption DEF Past
    <2> QED BY <2>2, <2>3 DEF Created
  <1> QED BY <1>1

-----------------------------------------------------------------------------
(* What a step does to the jobs of the worker                               *)

\* No lender is sent anything by the worker.
NothingCalled == \A l \in Lenders : received'[l]["worker"] = received[l]["worker"]

NewJob == [status |-> "pending", attempts |-> 0]

\* A handler outside the worker, which may add a job.
Elsewhere(p) ==
  /\ NothingCalled /\ proc[p].source # "worker" /\ proc'[p].source # "worker"
  /\ jobs' = jobs \/ \E j \in Jobs : jobs[j].status = "none" /\ jobs' = [jobs EXCEPT ![j] = NewJob]

TakesJob(p, j) ==
  /\ NothingCalled /\ proc[p].source # "worker"
  /\ proc'[p].source = "worker" /\ proc'[p].job = j /\ proc'[p].pc = "lookup"
  /\ jobs[j].status = "pending"
  /\ \A k \in Jobs : /\ jobs'[k].attempts = jobs[k].attempts
                     /\ jobs'[k].status = IF k = j THEN "in_progress" ELSE jobs[k].status

\* The worker keeps its job and has no lender to call that it had not before.
GoesOn(p) ==
  /\ NothingCalled /\ UNCHANGED jobs
  /\ proc[p].source = "worker" /\ proc'[p].source = "worker" /\ proc'[p].job = proc[p].job
  /\ proc'[p].pc \in {"refuse"} \cup DispatchPCs
  /\ \A l \in Lenders : YetToCall(p, proc[p].job, l)' => YetToCall(p, proc[p].job, l)

\* The worker calls lender l, once in this attempt.
CallsFor(p, l) ==
  /\ UNCHANGED jobs
  /\ \A k \in Lenders \ {l} : received'[k]["worker"] = received[k]["worker"]
  /\ received'[l]["worker"] <= received[l]["worker"] + 1
  /\ proc[p].source = "worker" /\ proc'[p].source = "worker" /\ proc'[p].job = proc[p].job
  /\ proc'[p].pc \in DispatchPCs
  /\ \A k \in Lenders : YetToCall(p, proc[p].job, k)' => YetToCall(p, proc[p].job, k)
  /\ YetToCall(p, proc[p].job, l) /\ ~YetToCall(p, proc[p].job, l)'

\* The worker leaves its job: as it is, failed before any call, or with its
\* attempt counted, or completed.
LeavesJob(p) ==
  LET j == proc[p].job IN
  /\ NothingCalled /\ proc[p].source = "worker" /\ proc'[p].source # "worker"
  /\ \A k \in Jobs \ {j} : jobs'[k] = jobs[k]
  /\ \/ jobs'[j] = jobs[j]
     \/ /\ At(p, "refuse")
        /\ jobs'[j].status = "failed" /\ jobs'[j].attempts = jobs[j].attempts
     \/ /\ jobs'[j].attempts = jobs[j].attempts + 1
        /\ \/ jobs'[j].status = "failed"
           \/ jobs'[j].status = "pending" /\ jobs'[j].attempts < MaxAttempts
     \/ jobs'[j].status = "completed" /\ jobs'[j].attempts = jobs[j].attempts

WorkEffect(p) ==
  /\ Owned(p)
  /\ \/ Elsewhere(p) \/ (\E j \in Jobs : TakesJob(p, j)) \/ GoesOn(p)
     \/ (\E l \in Lenders : CallsFor(p, l)) \/ LeavesJob(p)

\* What the steps below use of the invariant.
LEMMA WorkTyped ==
  ASSUME WInv
  PROVE  /\ TypeOK /\ DInv
         /\ \A j \in Jobs : /\ jobs[j] \in [status : JobStatus, attempts : Nat]
                            /\ jobs[j].attempts \in Nat /\ jobs[j].status \in JobStatus
         /\ \A p \in Procs : /\ proc[p] \in ProcState
                             /\ proc[p].source = "worker" => proc[p].pc \in {"lookup", "refuse"} \cup DispatchPCs
         /\ \A l \in Lenders, s \in Sources : received[l][s] \in Nat
  <1>1. TypeOK /\ DInv
    BY DEF WInv, DInv
  <1>2. \A j \in Jobs : /\ jobs[j] \in [status : JobStatus, attempts : Nat]
                        /\ jobs[j].attempts \in Nat /\ jobs[j].status \in JobStatus
    BY <1>1 DEF TypeOK
  <1>3. \A p \in Procs : proc[p] \in ProcState
    BY <1>1 DEF TypeOK
  <1>4. \A l \in Lenders, s \in Sources : received[l][s] \in Nat
    BY <1>1 DEF TypeOK
  <1> QED BY <1>1, <1>2, <1>3, <1>4 DEF WInv, JobHeldAlone

LEMMA EntryWork ==
  ASSUME WInv, NEW p \in Callers, Entry(p)
  PROVE  WorkEffect(p)
  <1>1. p \in Procs /\ DInv /\ TypeOK
    BY WorkTyped DEF Procs
  <1>2. Owned(p) /\ At(p, "idle") /\ UNCHANGED <<jobs, mail>>
    <2>1. At(p, "idle") /\ UNCHANGED <<jobs, mail>>
      BY DEF Entry, Select, Check, Webhook, Invite
    <2> QED BY <1>1, <2>1, EntryTyped
  <1>3. proc[p].source # "worker"
    BY <1>1, <1>2, WorkTyped DEF At, DispatchPCs
  <1>4. proc'[p].source # "worker"
    <2>1. ASSUME NEW kind \in Kinds, NEW ids \in (SUBSET Lenders) \ {{}}, Select(p, kind, ids)
          PROVE  proc'[p].source # "worker"
      BY <1>1, <2>1 DEF Select, TypeOK, Idle
    <2>2. CASE Check(p)
      BY <1>1, <1>3, <2>2, Goes DEF Check, PCs
    <2>3. CASE Webhook(p) /\ documentId
      BY <1>1, <2>3 DEF Webhook, TypeOK, Idle
    <2>4. CASE Webhook(p) /\ ~documentId
      BY <1>3, <2>4 DEF Webhook
    <2>5. CASE Invite(p)
      BY <1>1, <2>5 DEF Invite, TypeOK, Idle
    <2> QED BY <2>1, <2>2, <2>3, <2>4, <2>5 DEF Entry
  <1> QED BY <1>2, <1>3, <1>4 DEF WorkEffect, Elsewhere, NothingCalled, mail

LEMMA ClaimWork ==
  ASSUME WInv, NEW w \in Workers, NEW j \in Jobs, ClaimJob(w, j)
  PROVE  WorkEffect(w) /\ TakesJob(w, j)
  <1> DEFINE new == [Idle EXCEPT !.pc = "lookup", !.kind = "job", !.source = "worker", !.job = j]
  <1>1. w \in Procs /\ DInv /\ TypeOK /\ Owned(w)
    BY WorkTyped, ClaimEffect DEF Procs, Effect
  <1>2. proc[w].source # "worker"
    BY <1>1, WorkTyped DEF ClaimJob, At, DispatchPCs
  <1>3. new.pc = "lookup" /\ new.source = "worker" /\ new.job = j
    BY DEF Idle
  <1>4. proc'[w] = new
    BY <1>1 DEF ClaimJob, TypeOK
  <1>5. \A k \in Jobs : /\ jobs'[k].attempts = jobs[k].attempts
                        /\ jobs'[k].status = IF k = j THEN "in_progress" ELSE jobs[k].status
    <2>1. PICK row : row = [jobs[j] EXCEPT !.status = "in_progress"]
      OBVIOUS
    <2>2. row.status = "in_progress" /\ row.attempts = jobs[j].attempts
      BY <2>1, WorkTyped
    <2>3. jobs' = [jobs EXCEPT ![j] = row]
      BY <2>1 DEF ClaimJob
    <2> QED BY <2>2, <2>3, <1>1 DEF TypeOK
  <1>6. jobs[j].status = "pending" /\ NothingCalled
    BY DEF ClaimJob, NothingCalled, mail
  <1> HIDE DEF new
  <1>7. TakesJob(w, j)
    BY <1>2, <1>3, <1>4, <1>5, <1>6 DEF TakesJob
  <1> QED BY <1>1, <1>7 DEF WorkEffect

\* The catch block leaves the job, or counts its attempt.
LEMMA AfterError ==
  ASSUME NEW job \in [status : JobStatus, attempts : Nat]
  PROVE  \/ JobAfterError(job) = job
         \/ /\ JobAfterError(job).attempts = job.attempts + 1
            /\ \/ JobAfterError(job).status = "failed"
               \/ JobAfterError(job).status = "pending" /\ JobAfterError(job).attempts < MaxAttempts
  BY BoundsAssumption DEF JobAfterError

LEMMA ProgressWork ==
  ASSUME WInv, NEW p \in Procs, Progress(p) \/ Crash(p)
  PROVE  WorkEffect(p)
  <1> USE DEF NothingCalled
  <1>t. /\ TypeOK /\ DInv /\ proc[p] \in ProcState /\ Owned(p)
        /\ proc[p].source = "worker" => /\ proc[p].pc \in {"lookup", "refuse"} \cup DispatchPCs /\ proc[p].job \in Jobs
    BY WorkTyped, ProgressTyped DEF WInv, JobHeldAlone
  <1>e. ASSUME End(p) PROVE proc'[p].source = "stageB"
    BY <1>e, <1>t, Ends, IdleTyped
  <1>o. ASSUME proc[p].source # "worker", proc'[p].source # "worker", NothingCalled, UNCHANGED jobs
        PROVE  WorkEffect(p)
    BY <1>o, <1>t DEF WorkEffect, Elsewhere
  <1>g. ASSUME NEW pc \in PCs, Goto(p, pc), proc[p].source # "worker", NothingCalled, UNCHANGED jobs
        PROVE  WorkEffect(p)
    BY <1>g, <1>o, <1>t, Goes
  <1>a. ASSUME ~(proc[p].pc \in {"lookup", "refuse"} \cup DispatchPCs) PROVE proc[p].source # "worker"
    BY <1>a, <1>t
  <1>x. ASSUME Throw(p), NothingCalled, UNCHANGED jobs, proc[p].source = "worker"
        PROVE  WorkEffect(p)
    <2> DEFINE new == [proc[p] EXCEPT !.pc = "finish", !.err = TRUE]
    <2>1. new.pc = "finish" /\ new.source = proc[p].source /\ new.job = proc[p].job
      BY <1>t DEF ProcState
    <2>2. proc'[p] = new
      BY <1>x, <1>t DEF Throw, TypeOK
    <2> HIDE DEF new
    <2>3. GoesOn(p)
      BY <1>x, <2>1, <2>2 DEF GoesOn, YetToCall, At, DispatchPCs
    <2> QED BY <1>t, <2>3 DEF WorkEffect
  <1>l. ASSUME NEW row, proc[p].job \in Jobs, jobs' = [jobs EXCEPT ![proc[p].job] = row]
        PROVE  jobs'[proc[p].job] = row /\ \A k \in Jobs \ {proc[p].job} : jobs'[k] = jobs[k]
    BY <1>l, <1>t DEF TypeOK
  <1>1. CASE SnapA(p)
    <2>1. PICK pc \in PCs : Goto(p, pc)
      BY <1>1 DEF SnapA, PCs
    <2> QED BY <1>1, <1>a, <1>g, <2>1 DEF SnapA, At, DispatchPCs, mail
  <1>2. CASE ClaimA(p)
    <2>1. PICK pc \in PCs : Goto(p, pc)
      BY <1>2 DEF ClaimA, PCs
    <2> QED BY <1>2, <1>a, <1>g, <2>1 DEF ClaimA, At, DispatchPCs, mail
  <1>3. CASE NotifyAdmins(p)
    BY <1>3, <1>a, <1>g DEF NotifyAdmins, PCs, At, DispatchPCs, mail
  <1>4. CASE SendForSignature(p)
    BY <1>4, <1>a, <1>g DEF SendForSignature, PCs, At, DispatchPCs, mail
  <1>5. CASE RecordDocumentId(p)
    BY <1>5, <1>a, <1>e, <1>o DEF RecordDocumentId, At, DispatchPCs, mail
  <1>6. CASE SnapB(p)
    <2>1. PICK pc \in PCs : Goto(p, pc)
      BY <1>6 DEF SnapB, PCs
    <2> QED BY <1>6, <1>a, <1>g, <2>1 DEF SnapB, At, DispatchPCs, mail
  <1>7. CASE ClaimB(p)
    <2>1. PICK pc \in PCs : Goto(p, pc)
      BY <1>7 DEF ClaimB, PCs
    <2> QED BY <1>7, <1>a, <1>g, <2>1 DEF ClaimB, At, DispatchPCs, mail
  <1>8. CASE SelectLenders(p)
    <2> DEFINE new == [proc[p] EXCEPT !.pc = "build", !.todo = selected, !.source = "stageB"]
    <2>1. new.source # "worker"
      BY <1>t DEF ProcState
    <2>2. Goto(p, "after") \/ proc'[p] = new
      BY <1>8, <1>t DEF SelectLenders, TypeOK
    <2>3. proc[p].source # "worker" /\ NothingCalled /\ UNCHANGED jobs /\ "after" \in PCs
      BY <1>8, <1>a DEF SelectLenders, At, DispatchPCs, mail, PCs
    <2> HIDE DEF new
    <2> QED BY <1>g, <1>o, <2>1, <2>2, <2>3
  <1>9. CASE FinishStageB(p)
    BY <1>9, <1>g DEF FinishStageB, PCs, mail
  <1>10. CASE After(p)
    <2> DEFINE new == [Idle EXCEPT !.pc = "build", !.kind = "direct",
                                   !.source = "direct", !.todo = proc[p].ids]
    <2>1. new.source # "worker"
      BY DEF Idle
    <2>2. End(p) \/ proc'[p] = new
      BY <1>10, <1>t DEF After, TypeOK
    <2>3. proc[p].source # "worker" /\ NothingCalled /\ UNCHANGED jobs
      BY <1>10, <1>a DEF After, At, DispatchPCs, mail
    <2> HIDE DEF new
    <2> QED BY <1>e, <1>o, <2>1, <2>2, <2>3
  <1>11. CASE FinishDirect(p)
    BY <1>11, <1>e, <1>o DEF FinishDirect, mail
  <1>12. CASE Build(p)
    <2> DEFINE new == [proc[p] EXCEPT !.pc = "finish", !.err = TRUE]
    <2>1. new.pc = "finish" /\ new.source = proc[p].source /\ new.job = proc[p].job
      BY <1>t DEF ProcState
    <2>2. Goto(p, "deliver") \/ proc' = [proc EXCEPT ![p] = new]
      BY <1>12 DEF Build
    <2>3. NothingCalled /\ UNCHANGED jobs /\ At(p, "build")
      BY <1>12 DEF Build, mail
    <2>4. CASE Goto(p, "deliver")
      <3>1. /\ proc'[p].pc = "deliver" /\ proc'[p].source = proc[p].source
            /\ proc'[p].job = proc[p].job /\ proc'[p].todo = proc[p].todo
        BY <2>4, <1>t DEF Goto, TypeOK, ProcState
      <3>2. proc[p].source = "worker" => GoesOn(p)
        BY <2>3, <3>1 DEF GoesOn, YetToCall, At, DispatchPCs
      <3> QED BY <1>o, <1>t, <2>3, <3>1, <3>2 DEF WorkEffect
    <2>5. CASE proc' = [proc EXCEPT ![p] = new]
      <3> HIDE DEF new
      <3>1. proc'[p].pc = "finish" /\ proc'[p].source = proc[p].source /\ proc'[p].job = proc[p].job
        BY <2>5, <2>1, <1>t DEF TypeOK
      <3>2. proc[p].source = "worker" => GoesOn(p)
        BY <2>3, <3>1 DEF GoesOn, YetToCall, At, DispatchPCs
      <3> QED BY <1>o, <1>t, <2>3, <3>1, <3>2 DEF WorkEffect
    <2> QED BY <2>2, <2>4, <2>5
  <1>13. ASSUME NEW l \in Lenders, Deliver(p, l) PROVE WorkEffect(p)
    <2> DEFINE thrown == [proc[p] EXCEPT !.pc = "finish", !.err = TRUE]
               called(ok) == [proc[p] EXCEPT !.pc = "row", !.lender = l, !.ok = ok]
    <2>1. thrown.pc = "finish" /\ thrown.source = proc[p].source /\ thrown.job = proc[p].job
      BY <1>t DEF ProcState
    <2>2. \A ok \in BOOLEAN : /\ called(ok).pc = "row" /\ called(ok).source = proc[p].source
                              /\ called(ok).job = proc[p].job
                              /\ called(ok).lender = l /\ called(ok).todo = proc[p].todo
      BY <1>t DEF ProcState
    <2>3. proc' = [proc EXCEPT ![p] = thrown] \/ \E ok \in BOOLEAN : proc' = [proc EXCEPT ![p] = called(ok)]
      BY <1>13 DEF Deliver
    <2>4. l \in proc[p].todo /\ At(p, "deliver") /\ UNCHANGED jobs
      BY <1>13 DEF Deliver
    <2> HIDE DEF thrown, called
    <2> DEFINE s == proc[p].source
               more == [received[l] EXCEPT ![s] = received[l][s] + 1]
    <2>5. /\ proc'[p].source = s /\ proc'[p].job = proc[p].job
          /\ \/ proc'[p].pc = "finish"
             \/ proc'[p].pc = "row" /\ proc'[p].lender = l /\ proc'[p].todo = proc[p].todo
      BY <2>1, <2>2, <2>3, <1>t DEF TypeOK
    <2>6. received' = [received EXCEPT ![l] = more] \/ received' = received
      BY <1>13, <1>t DEF Deliver, TypeOK
    <2>7. /\ \A k \in Sources \ {s} : more[k] = received[l][k]
          /\ more[s] = received[l][s] + 1 /\ s \in Sources
      BY <1>t DEF TypeOK, ProcState
    <2> HIDE DEF more
    <2>8. CASE s # "worker"
      <3>1. more["worker"] = received[l]["worker"]
        BY <2>7, <2>8 DEF Sources
      <3>2. NothingCalled
        BY <2>6, <3>1, <1>t DEF TypeOK
      <3> QED BY <1>o, <2>4, <2>5, <2>8, <3>2
    <2>9. CASE s = "worker"
      <3>1. more["worker"] = received[l]["worker"] + 1 /\ received[l]["worker"] \in Nat
        BY <2>7, <2>9, WorkTyped
      <3>2. /\ received'[l]["worker"] <= received[l]["worker"] + 1
            /\ \A k \in Lenders \ {l} : received'[k]["worker"] = received[k]["worker"]
        BY <2>6, <3>1, <1>t DEF TypeOK
      <3>3. YetToCall(p, proc[p].job, l)
        BY <2>4, <2>9 DEF YetToCall, At
      <3>4. ~YetToCall(p, proc[p].job, l)'
        BY <2>5 DEF YetToCall, At
      <3>5. \A k \in Lenders : YetToCall(p, proc[p].job, k)' => YetToCall(p, proc[p].job, k)
        BY <2>4, <2>5, <2>9 DEF YetToCall, At
      <3>6. CallsFor(p, l)
        BY <2>4, <2>5, <2>9, <3>2, <3>3, <3>4, <3>5 DEF CallsFor, DispatchPCs
      <3> QED BY <1>t, <3>6 DEF WorkEffect
    <2> QED BY <2>8, <2>9
  <1>14. CASE RecordPackage(p)
    <2> DEFINE new == [proc[p] EXCEPT !.pc = IF proc[p].todo = {proc[p].lender} THEN "finish" ELSE "deliver",
                          !.todo = proc[p].todo \ {proc[p].lender},
                          !.sent = proc[p].sent \/ proc[p].ok]
    <2>1. /\ new.pc \in {"finish", "deliver"} /\ new.todo = proc[p].todo \ {proc[p].lender}
          /\ new.source = proc[p].source /\ new.job = proc[p].job
      BY <1>t DEF ProcState
    <2>2. proc' = [proc EXCEPT ![p] = new]
      BY <1>14 DEF RecordPackage
    <2> HIDE DEF new
    <2>3. proc'[p] = new
      BY <2>2, <1>t DEF TypeOK
    <2>4. NothingCalled /\ UNCHANGED jobs /\ At(p, "row")
      BY <1>14 DEF RecordPackage
    <2>5. proc[p].source = "worker" => GoesOn(p)
      BY <2>1, <2>3, <2>4 DEF GoesOn, YetToCall, At, DispatchPCs
    <2> QED BY <1>o, <1>t, <2>1, <2>3, <2>4, <2>5 DEF WorkEffect
  <1>15. CASE Stamp(p)
    BY <1>15, <1>a, <1>g DEF Stamp, PCs, At, DispatchPCs, mail
  <1>16. CASE Enqueue(p)
    <2>1. proc[p].source # "worker" /\ proc'[p].source # "worker" /\ NothingCalled
      BY <1>16, <1>a, <1>e DEF Enqueue, At, DispatchPCs, mail
    <2>2. jobs' = jobs \/ \E j \in Jobs : jobs[j].status = "none" /\ jobs' = [jobs EXCEPT ![j] = NewJob]
      BY <1>16 DEF Enqueue, NewJob
    <2> QED BY <1>t, <2>1, <2>2 DEF WorkEffect, Elsewhere
  <1>17. CASE LookupLenders(p)
    <2> DEFINE j == proc[p].job
    <2>1. NothingCalled /\ UNCHANGED jobs /\ At(p, "lookup") /\ proc[p].source = "worker" /\ j \in Jobs
      BY <1>17, <1>t DEF LookupLenders, mail, DInv, HandlersHold, At
    <2>2. CASE Goto(p, "refuse")
      <3>1. proc'[p].pc = "refuse" /\ proc'[p].source = "worker" /\ proc'[p].job = j
        BY <2>1, <2>2, <1>t DEF Goto, TypeOK, ProcState
      <3>2. GoesOn(p)
        BY <2>1, <3>1 DEF GoesOn, YetToCall, At
      <3> QED BY <1>t, <3>2 DEF WorkEffect
    <2>3. CASE proc' = [proc EXCEPT ![p] = [@ EXCEPT !.pc = "build", !.todo = selected]]
      <3> DEFINE new == [proc[p] EXCEPT !.pc = "build", !.todo = selected]
      <3>1. new.pc = "build" /\ new.source = "worker" /\ new.job = j
        BY <1>t, <2>1 DEF ProcState
      <3>2. proc'[p] = new
        BY <2>3, <1>t DEF TypeOK
      <3> HIDE DEF new
      <3>3. GoesOn(p)
        BY <2>1, <3>1, <3>2 DEF GoesOn, YetToCall, At, DispatchPCs
      <3> QED BY <1>t, <3>3 DEF WorkEffect
    <2>4. CASE Throw(p)
      BY <2>1, <2>4, <1>x
    <2> QED BY <1>17, <2>2, <2>3, <2>4 DEF LookupLenders
  <1>18. CASE RefuseJob(p)
    <2> DEFINE j == proc[p].job
    <2>1. NothingCalled /\ At(p, "refuse") /\ proc[p].source = "worker" /\ j \in Jobs
      BY <1>18, <1>t DEF RefuseJob, mail, DInv, HandlersHold, At
    <2>2. CASE Throw(p) /\ UNCHANGED jobs
      BY <2>1, <2>2, <1>x
    <2>3. CASE jobs' = [jobs EXCEPT ![j] = [@ EXCEPT !.status = "failed"]] /\ End(p)
      <3>1. PICK row : row = [jobs[j] EXCEPT !.status = "failed"]
        OBVIOUS
      <3>2. row.status = "failed" /\ row.attempts = jobs[j].attempts
        BY <2>1, <3>1, WorkTyped
      <3>3. jobs'[j] = row /\ \A k \in Jobs \ {j} : jobs'[k] = jobs[k]
        BY <2>1, <2>3, <3>1, <1>l
      <3>4. LeavesJob(p)
        BY <1>e, <2>1, <2>3, <3>2, <3>3 DEF LeavesJob
      <3> QED BY <1>t, <3>4 DEF WorkEffect
    <2> QED BY <1>18, <2>2, <2>3 DEF RefuseJob
  <1>19. CASE CompleteJob(p)
    <2> DEFINE j == proc[p].job
    <2>1. NothingCalled /\ proc[p].source = "worker" /\ j \in Jobs
      BY <1>19, <1>t DEF CompleteJob, mail
    <2>2. CASE Throw(p) /\ UNCHANGED jobs
      BY <2>1, <2>2, <1>x
    <2>3. CASE jobs' = [jobs EXCEPT ![j] = [@ EXCEPT !.status = "completed"]] /\ End(p)
      <3>1. PICK row : row = [jobs[j] EXCEPT !.status = "completed"]
        OBVIOUS
      <3>2. row.status = "completed" /\ row.attempts = jobs[j].attempts
        BY <2>1, <3>1, WorkTyped
      <3>3. jobs'[j] = row /\ \A k \in Jobs \ {j} : jobs'[k] = jobs[k]
        BY <2>1, <2>3, <3>1, <1>l
      <3>4. LeavesJob(p)
        BY <1>e, <2>1, <2>3, <3>2, <3>3 DEF LeavesJob
      <3> QED BY <1>t, <3>4 DEF WorkEffect
    <2> QED BY <1>19, <2>2, <2>3 DEF CompleteJob
  <1>20. CASE CatchJob(p)
    <2> DEFINE j == proc[p].job
    <2>1. NothingCalled /\ proc[p].source = "worker" /\ j \in Jobs /\ End(p)
      BY <1>20, <1>t DEF CatchJob, mail
    <2>2. CASE UNCHANGED jobs
      BY <1>e, <1>t, <2>1, <2>2 DEF LeavesJob, WorkEffect
    <2>3. CASE jobs' = [jobs EXCEPT ![j] = JobAfterError(@)]
      <3>1. PICK row : row = JobAfterError(jobs[j])
        OBVIOUS
      <3>2. \/ row = jobs[j]
            \/ /\ row.attempts = jobs[j].attempts + 1
               /\ \/ row.status = "failed"
                  \/ row.status = "pending" /\ row.attempts < MaxAttempts
        BY <2>1, <3>1, AfterError, WorkTyped
      <3>3. jobs'[j] = row /\ \A k \in Jobs \ {j} : jobs'[k] = jobs[k]
        BY <2>1, <2>3, <3>1, <1>l
      <3>4. LeavesJob(p)
        BY <1>e, <2>1, <3>2, <3>3 DEF LeavesJob
      <3> QED BY <1>t, <3>4 DEF WorkEffect
    <2> QED BY <1>20, <2>2, <2>3 DEF CatchJob
  <1>21. CASE Crash(p)
    <2>1. NothingCalled /\ UNCHANGED jobs /\ proc'[p].source # "worker"
      BY <1>21, <1>e DEF Crash, mail
    <2>2. proc[p].source = "worker" => LeavesJob(p)
      BY <2>1 DEF LeavesJob
    <2> QED BY <1>o, <1>t, <2>1, <2>2 DEF WorkEffect
  <1> QED
    BY <1>1, <1>2, <1>3, <1>4, <1>5, <1>6, <1>7, <1>8, <1>9, <1>10, <1>11, <1>12, <1>13,
       <1>14, <1>15, <1>16, <1>17, <1>18, <1>19, <1>20, <1>21 DEF Progress

-----------------------------------------------------------------------------
(* The invariant of the worker is kept                                      *)

\* Nobody but p has a job to call lenders for that it had not before.
LEMMA OthersCallAlike ==
  ASSUME WInv, NEW p \in Procs, proc' = [proc EXCEPT ![p] = proc'[p]]
  PROVE  /\ \A q \in Procs \ {p} : proc'[q] = proc[q]
         /\ \A q \in Procs \ {p}, j \in Jobs, l \in Lenders : YetToCall(q, j, l)' <=> YetToCall(q, j, l)
  <1>1. \A q \in Procs \ {p} : proc'[q] = proc[q]
    BY WorkTyped DEF TypeOK
  <1> QED BY <1>1 DEF YetToCall, At

\* What a step does to the rows and to the worker's place keeps every attempt
\* that is past a call past it.
LEMMA PastStays ==
  ASSUME WInv, NEW p \in Procs, WorkEffect(p), NEW l \in Lenders, NEW j \in Jobs, NEW n \in 1..MaxAttempts,
         Past(j, n, l)
  PROVE  Past(j, n, l)'
  <1>t. /\ jobs[j].attempts \in Nat /\ n \in Nat
        /\ \A q \in Procs \ {p} : YetToCall(q, j, l)' <=> YetToCall(q, j, l)
    BY WorkTyped, OthersCallAlike DEF WorkEffect, Owned
  <1>y. ASSUME jobs'[j] = jobs[j], YetToCall(p, j, l)' => YetToCall(p, j, l)
        PROVE  Past(j, n, l)'
    <2>1. CASE n <= jobs[j].attempts
      BY <1>y, <2>1 DEF Past
    <2>2. CASE ~(n <= jobs[j].attempts)
      <3>1. /\ n = jobs[j].attempts + 1 /\ jobs[j].status \in {"in_progress", "completed"}
            /\ \A q \in Procs : ~YetToCall(q, j, l)
        BY <2>2 DEF Past
      <3>2. \A q \in Procs : ~YetToCall(q, j, l)'
        BY <3>1, <1>t, <1>y
      <3> QED BY <1>y, <3>1, <3>2 DEF Past
    <2> QED BY <2>1, <2>2
  <1>1. CASE Elsewhere(p)
    <2>1. ~YetToCall(p, j, l)'
      BY <1>1 DEF Elsewhere, YetToCall
    <2>2. CASE jobs'[j] = jobs[j]
      BY <1>y, <2>1, <2>2
    <2>3. CASE jobs'[j] # jobs[j]
      <3>1. jobs[j].status = "none"
        BY <1>1, <2>3, WorkTyped DEF Elsewhere, TypeOK
      <3>2. jobs[j].attempts = 0
        BY <3>1 DEF WInv, AttemptsLeft
      <3> QED BY <3>1, <3>2 DEF Past
    <2> QED BY <2>2, <2>3
  <1>2. ASSUME NEW k \in Jobs, TakesJob(p, k) PROVE Past(j, n, l)'
    <2>1. CASE j = k
      BY <1>2, <2>1, <1>t DEF TakesJob, Past
    <2>2. CASE j # k
      <3>1. ~YetToCall(p, j, l)'
        BY <1>2, <2>2 DEF TakesJob, YetToCall
      <3>2. jobs'[j].attempts = jobs[j].attempts /\ jobs'[j].status = jobs[j].status
        BY <1>2, <2>2 DEF TakesJob
      <3>3. \A q \in Procs : YetToCall(q, j, l)' => YetToCall(q, j, l)
        BY <3>1, <1>t
      <3> QED BY <3>2, <3>3 DEF Past
    <2> QED BY <2>1, <2>2
  <1>3. CASE GoesOn(p)
    BY <1>3, <1>y DEF GoesOn, YetToCall
  <1>4. ASSUME NEW k \in Lenders, CallsFor(p, k) PROVE Past(j, n, l)'
    BY <1>4, <1>y DEF CallsFor, YetToCall
  <1>5. CASE LeavesJob(p)
    <2>1. ~YetToCall(p, j, l)'
      BY <1>5 DEF LeavesJob, YetToCall
    <2>2. CASE jobs'[j] = jobs[j]
      BY <1>y, <2>1, <2>2
    <2>3. CASE jobs'[j] # jobs[j]
      <3>1. j = proc[p].job
        BY <1>5, <2>3 DEF LeavesJob
      <3>2. CASE At(p, "refuse") /\ jobs'[j].attempts = jobs[j].attempts
        <4>1. YetToCall(p, j, l)
          BY <1>5, <3>1, <3>2 DEF LeavesJob, YetToCall, At
        <4> QED BY <3>2, <4>1 DEF Past
      <3>3. CASE jobs'[j].attempts = jobs[j].attempts + 1
        <4>1. n <= jobs'[j].attempts
          BY <3>3, <1>t DEF Past
        <4> QED BY <4>1 DEF Past
      <3>4. CASE jobs'[j].status = "completed" /\ jobs'[j].attempts = jobs[j].attempts
        <4>1. (\A q \in Procs : ~YetToCall(q, j, l)) => \A q \in Procs : ~YetToCall(q, j, l)'
          BY <2>1, <1>t
        <4> QED BY <3>4, <4>1 DEF Past
      <3> QED BY <1>5, <2>3, <3>1, <3>2, <3>3, <3>4 DEF LeavesJob
    <2> QED BY <2>2, <2>3
  <1> QED BY <1>1, <1>2, <1>3, <1>4, <1>5 DEF WorkEffect

\* A call is the first of its attempt, and the attempt is past it then.
LEMMA CallIsNew ==
  ASSUME WInv, NEW p \in Procs, Owned(p), NEW l \in Lenders, CallsFor(p, l)
  PROVE  \E x \in PastCalls(l)' : x \notin PastCalls(l)
  <1>j. PICK j \in Jobs : j = proc[p].job
    BY DEF CallsFor, WInv, JobHeldAlone
  <1>1. jobs[j].status = "in_progress" /\ jobs[j].attempts \in Nat
    BY <1>j, WorkTyped DEF CallsFor, WInv, JobHeldAlone
  <1>n. PICK n : n = jobs[j].attempts + 1
    OBVIOUS
  <1>2. n \in 1..MaxAttempts /\ ~(n <= jobs[j].attempts)
    BY <1>1, <1>n, BoundsAssumption DEF WInv, AttemptsLeft
  <1>3. ~Past(j, n, l)
    BY <1>2, <1>j DEF CallsFor, Past
  <1>4. \A q \in Procs : ~YetToCall(q, j, l)'
    <2>1. ASSUME NEW q \in Procs \ {p} PROVE ~YetToCall(q, j, l)
      BY <2>1, <1>j DEF CallsFor, YetToCall, WInv, JobHeldAlone
    <2> QED BY <2>1, <1>j, OthersCallAlike DEF Owned, CallsFor
  <1>5. Past(j, n, l)'
    BY <1>1, <1>4, <1>n DEF CallsFor, Past
  <1>6. <<j, n>> \in PastCalls(l)' /\ <<j, n>> \notin PastCalls(l)
    BY <1>2, <1>3, <1>5 DEF PastCalls
  <1> QED BY <1>6

LEMMA WorkRowsKept ==
  ASSUME WInv, NEW p \in Procs, WorkEffect(p)
  PROVE  AttemptsLeft' /\ JobHeldAlone' /\ IsFiniteSet(Created)'
  <1>t. /\ TypeOK /\ TypeOK'
        /\ \A j \in Jobs : /\ jobs[j].attempts \in Nat
                           /\ jobs[j].attempts <= MaxAttempts
                           /\ jobs[j].status = "none" => jobs[j].attempts = 0
                           /\ jobs[j].status \in {"pending", "in_progress", "completed"}
                                => jobs[j].attempts < MaxAttempts
        /\ \A q \in Procs \ {p} : proc'[q] = proc[q]
        /\ MaxAttempts \in Nat \ {0}
    BY WorkTyped, OthersCallAlike, BoundsAssumption DEF WorkEffect, Owned, WInv, AttemptsLeft
  <1>p. proc[p].source = "worker" =>
          /\ proc[p].job \in Jobs /\ jobs[proc[p].job].status = "in_progress"
          /\ \A q \in Procs \ {p} : proc[q].source = "worker" => proc[q].job # proc[p].job
    BY DEF WInv, JobHeldAlone
  <1>c. ASSUME \A j \in Jobs : jobs'[j].status # "none" => jobs[j].status # "none"
        PROVE  IsFiniteSet(Created)'
    <2>1. Created' \in SUBSET Created
      BY <1>c DEF Created
    <2> QED BY <2>1, FS_Subset DEF WInv
  <1>1. CASE Elsewhere(p)
    <2>1. CASE jobs' = jobs
      <3>1. AttemptsLeft' /\ IsFiniteSet(Created)'
        BY <2>1 DEF WInv, AttemptsLeft, Created
      <3>2. JobHeldAlone'
        BY <1>1, <2>1, <1>t DEF Elsewhere, WInv, JobHeldAlone
      <3> QED BY <3>1, <3>2
    <2>2. ASSUME NEW j \in Jobs, jobs[j].status = "none", jobs' = [jobs EXCEPT ![j] = NewJob]
          PROVE  AttemptsLeft' /\ JobHeldAlone' /\ IsFiniteSet(Created)'
      <3>1. /\ jobs'[j].status = "pending" /\ jobs'[j].attempts = 0
            /\ \A k \in Jobs \ {j} : jobs'[k] = jobs[k]
        BY <2>2, <1>t DEF TypeOK, NewJob
      <3>2. AttemptsLeft'
        BY <3>1, <1>t DEF AttemptsLeft
      <3>3. JobHeldAlone'
        BY <1>1, <2>2, <3>1, <1>t DEF Elsewhere, WInv, JobHeldAlone
      <3>4. Created' = Created \cup {j}
        BY <2>2, <3>1 DEF Created
      <3>5. IsFiniteSet(Created)'
        BY <3>4, FS_AddElement DEF WInv
      <3> QED BY <3>2, <3>3, <3>5
    <2> QED BY <1>1, <2>1, <2>2 DEF Elsewhere
  <1>2. ASSUME NEW j \in Jobs, TakesJob(p, j)
        PROVE  AttemptsLeft' /\ JobHeldAlone' /\ IsFiniteSet(Created)'
    <2>1. AttemptsLeft'
      BY <1>2, <1>t DEF TakesJob, AttemptsLeft
    <2>2. IsFiniteSet(Created)'
      BY <1>2, <1>c DEF TakesJob
    <2>3. \A q \in Procs \ {p} : proc[q].source = "worker" => proc[q].job # j
      BY <1>2 DEF TakesJob, WInv, JobHeldAlone
    <2>4. JobHeldAlone'
      BY <1>2, <2>3, <1>t DEF TakesJob, WInv, JobHeldAlone
    <2> QED BY <2>1, <2>2, <2>4
  <1>3. ASSUME jobs' = jobs, proc[p].source = "worker", proc'[p].source = "worker",
               proc'[p].job = proc[p].job, proc'[p].pc \in {"refuse"} \cup DispatchPCs
        PROVE  AttemptsLeft' /\ JobHeldAlone' /\ IsFiniteSet(Created)'
    <2>1. AttemptsLeft' /\ IsFiniteSet(Created)'
      BY <1>3 DEF WInv, AttemptsLeft, Created
    <2>2. JobHeldAlone'
      BY <1>3, <1>t, <1>p DEF WInv, JobHeldAlone
    <2> QED BY <2>1, <2>2
  <1>4. CASE LeavesJob(p)
    <2> DEFINE j == proc[p].job
    <2>1. j \in Jobs /\ jobs[j].status = "in_progress" /\ jobs[j].attempts < MaxAttempts
      BY <1>4, <1>p, <1>t DEF LeavesJob
    <2>2. /\ \A k \in Jobs \ {j} : jobs'[k] = jobs[k]
          /\ jobs'[j].attempts <= MaxAttempts
          /\ jobs'[j].status \in {"in_progress", "failed", "pending", "completed"}
          /\ jobs'[j].status # "failed" => jobs'[j].attempts < MaxAttempts
      BY <1>4, <2>1, <1>t DEF LeavesJob
    <2>3. AttemptsLeft'
      BY <2>1, <2>2, <1>t DEF AttemptsLeft
    <2>4. IsFiniteSet(Created)'
      BY <2>1, <2>2, <1>c
    <2>5. JobHeldAlone'
      BY <1>4, <2>2, <1>p, <1>t DEF LeavesJob, WInv, JobHeldAlone
    <2> QED BY <2>3, <2>4, <2>5
  <1> QED BY <1>1, <1>2, <1>3, <1>4 DEF WorkEffect, GoesOn, CallsFor

\* Each further package of a lender has a further attempt past its call.
LEMMA CallsStayCounted ==
  ASSUME WInv, NEW p \in Procs, WorkEffect(p)
  PROVE  EachCallHasAttempt'
  <1> SUFFICES ASSUME NEW l \in Lenders
               PROVE  received'[l]["worker"] <= Cardinality(PastCalls(l)')
    BY DEF EachCallHasAttempt
  <1>1. IsFiniteSet(PastCalls(l)) /\ Cardinality(PastCalls(l)) \in Nat
    BY PastBounded DEF WInv, DInv, CallsBounded
  <1>2. IsFiniteSet(PastCalls(l)') /\ Cardinality(PastCalls(l)') \in Nat
    <2>1. (TypeOK /\ IsFiniteSet(Created) /\ AttemptsLeft)'
      BY WorkRowsKept DEF WorkEffect, Owned
    <2>2. CallsBounded'
      BY <2>1, PastBounded, PTL
    <2> QED BY <2>2 DEF CallsBounded
  <1>3. PastCalls(l) \subseteq PastCalls(l)'
    BY PastStays DEF PastCalls
  <1>4. /\ Cardinality(PastCalls(l)) <= Cardinality(PastCalls(l)')
        /\ (\E x \in PastCalls(l)' : x \notin PastCalls(l)) =>
             Cardinality(PastCalls(l)) + 1 <= Cardinality(PastCalls(l)')
    BY <1>2, <1>3, Grows
  <1>5. received[l]["worker"] <= Cardinality(PastCalls(l)) /\ received[l]["worker"] \in Nat
    BY WorkTyped DEF WInv, EachCallHasAttempt, Sources
  <1>6. received'[l]["worker"] \in Nat
    BY DEF WorkEffect, Owned, TypeOK, Sources
  <1>7. CASE received'[l]["worker"] = received[l]["worker"]
    BY <1>1, <1>2, <1>4, <1>5, <1>7
  <1>8. CASE CallsFor(p, l)
    <2>1. \E x \in PastCalls(l)' : x \notin PastCalls(l)
      BY <1>8, CallIsNew DEF WorkEffect
    <2>2. received'[l]["worker"] <= received[l]["worker"] + 1
      BY <1>8 DEF CallsFor
    <2> QED BY <2>1, <2>2, <1>1, <1>2, <1>4, <1>5, <1>6
  <1>9. received'[l]["worker"] = received[l]["worker"] \/ CallsFor(p, l)
    BY DEF WorkEffect, Elsewhere, TakesJob, GoesOn, LeavesJob, NothingCalled, CallsFor
  <1> QED BY <1>7, <1>8, <1>9

LEMMA WorkStarts == Init => WInv
  <1> SUFFICES ASSUME Init PROVE WInv
    OBVIOUS
  <1>1. DInv /\ TypeOK
    BY InitInvariant DEF DInv
  <1>2. \A j \in Jobs : jobs[j].status = "none" /\ jobs[j].attempts = 0
    BY DEF Init
  <1>3. \A p \in Procs : proc[p].source = "stageB"
    BY IdleTyped DEF Init
  <1>4. Created = {}
    BY <1>2 DEF Created
  <1>5. IsFiniteSet(Created)
    BY <1>4, FS_EmptySet
  <1>6. AttemptsLeft
    BY <1>2, BoundsAssumption DEF AttemptsLeft
  <1>7. JobHeldAlone
    BY <1>3 DEF JobHeldAlone
  <1>8. EachCallHasAttempt
    <2> SUFFICES ASSUME NEW l \in Lenders PROVE received[l]["worker"] <= Cardinality(PastCalls(l))
      BY DEF EachCallHasAttempt
    <2>1. received[l]["worker"] = 0
      BY DEF Init, Sources
    <2>2. Cardinality(PastCalls(l)) \in Nat
      BY <1>1, <1>5, <1>6, PastBounded DEF CallsBounded
    <2> QED BY <2>1, <2>2
  <1> QED BY <1>1, <1>5, <1>6, <1>7, <1>8 DEF WInv

LEMMA WorkKept == WInv /\ [Next]_vars => WInv'
  <1> SUFFICES ASSUME WInv, [Next]_vars PROVE WInv'
    OBVIOUS
  <1>1. DInv'
    BY StepInvariant DEF WInv
  <1>e. ASSUME NEW p \in Procs, WorkEffect(p) PROVE WInv'
    BY <1>1, <1>e, WorkRowsKept, CallsStayCounted DEF WInv
  <1>2. CASE UNCHANGED <<jobs, received, proc>>
    <2>1. IsFiniteSet(Created)' /\ AttemptsLeft' /\ JobHeldAlone'
      BY <1>2 DEF WInv, Created, AttemptsLeft, JobHeldAlone
    <2>2. EachCallHasAttempt'
      BY <1>2 DEF WInv, EachCallHasAttempt, PastCalls, Past, YetToCall, At
    <2> QED BY <1>1, <2>1, <2>2 DEF WInv
  <1>3. CASE StaffWork \/ UNCHANGED vars
    BY <1>2, <1>3 DEF StaffWork, vars, mail
  <1>4. ASSUME NEW p \in Callers, Entry(p) PROVE WInv'
    BY <1>4, <1>e, EntryWork DEF Procs
  <1>5. ASSUME NEW w \in Workers, NEW j \in Jobs, ClaimJob(w, j) PROVE WInv'
    BY <1>5, <1>e, ClaimWork DEF Procs
  <1>6. ASSUME NEW p \in Procs, Progress(p) \/ Crash(p) PROVE WInv'
    BY <1>6, <1>e, ProgressWork
  <1> QED BY <1>3, <1>4, <1>5, <1>6 DEF Next

\* lenderPackageWorker sends a lender at most MaxAttempts packages for each job
\* that was queued, for any number of replicas, faults and crashes: a job comes
\* back with its attempt counted, stays with the dead, or is over.
THEOREM ResendsAreBounded == Spec => []WorkerResendBound
  <1>1. WInv => WorkerResendBound
    <2> SUFFICES ASSUME WInv, NEW l \in Lenders
                 PROVE  received[l]["worker"] <= MaxAttempts * Cardinality(Created)
      BY DEF WorkerResendBound, Created
    <2>1. /\ Cardinality(PastCalls(l)) \in Nat
          /\ Cardinality(PastCalls(l)) <= MaxAttempts * Cardinality(Created)
      BY PastBounded DEF WInv, DInv, CallsBounded
    <2>2. received[l]["worker"] <= Cardinality(PastCalls(l)) /\ received[l]["worker"] \in Nat
      BY WorkTyped DEF WInv, EachCallHasAttempt, Sources
    <2>3. MaxAttempts * Cardinality(Created) \in Nat
      BY BoundsAssumption, FS_CardinalityType DEF WInv
    <2> HIDE DEF Created
    <2> QED BY <2>1, <2>2, <2>3
  <1> QED BY <1>1, WorkStarts, WorkKept, PTL DEF Spec
=============================================================================
