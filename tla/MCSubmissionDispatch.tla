------------------------ MODULE MCSubmissionDispatch ------------------------
(***************************************************************************)
(* Instances of SubmissionDispatch for TLC.  Where the question is the     *)
(* worker, documents and tasks are settled from the start and stay so:     *)
(* they only decide whether the chain starts, and the worker looks at      *)
(* neither.                                                                *)
(***************************************************************************)
EXTENDS SubmissionDispatch, TLC

Symmetry == Permutations(Lenders) \cup Permutations(Callers)
              \cup Permutations(Workers) \cup Permutations(Jobs)

WorkerInit == Init /\ docs = TRUE /\ tasks = TRUE
WorkerNext ==
  \/ StaffWork /\ UNCHANGED <<docs, tasks>>
  \/ \E p \in Callers : Entry(p)
  \/ \E w \in Workers, j \in Jobs : ClaimJob(w, j)
  \/ \E p \in Procs : Progress(p) \/ Crash(p)
WorkerSpec == WorkerInit /\ [][WorkerNext]_vars /\ Fairness
=============================================================================
