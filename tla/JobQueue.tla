------------------------------ MODULE JobQueue ------------------------------
(***************************************************************************)
(* What a queue with a retry limit promises.  A job is offered once, waits, *)
(* is taken by one worker, and that worker ends it or counts one failure    *)
(* and sends it back to wait, unless the limit is reached.  Once somebody   *)
(* interferes (resets a job, kills a worker, lets a lock run out) a second  *)
(* worker may take a job that is taken, and an outcome may come late and    *)
(* count from an old value.  Even then nobody takes up a job that is done   *)
(* or dead, only who took a job writes its outcome, a job is dead exactly   *)
(* when it has failed as often as it may, and no job is lost.               *)
(***************************************************************************)
EXTENDS Naturals

CONSTANTS Jobs, Takers, Limit

VARIABLES state,      \* none, waiting, taken, done or dead
          failures,   \* as counted by the queue
          hands,      \* who has taken a job and not written its outcome
          calm        \* nobody has interfered so far

queueVars == << state, failures, hands, calm >>

QueueInit ==
  /\ state = [j \in Jobs |-> "none"]
  /\ failures = [j \in Jobs |-> 0]
  /\ hands = [j \in Jobs |-> {}]
  /\ calm = TRUE

Offer(j) ==
  /\ state[j] = "none"
  /\ state' = [state EXCEPT ![j] = "waiting"]
  /\ UNCHANGED << failures, hands, calm >>

\* Several jobs at once; as long as it is calm, none that somebody holds.
Take(t, batch) ==
  /\ \A j \in batch : IF calm THEN state[j] = "waiting" /\ hands[j] = {}
                              ELSE state[j] \in {"waiting", "taken"}
  /\ state' = [j \in Jobs |-> IF j \in batch THEN "taken" ELSE state[j]]
  /\ hands' = [j \in Jobs |-> IF j \in batch THEN hands[j] \cup {t} ELSE hands[j]]
  /\ UNCHANGED << failures, calm >>

\* An outcome is that of a job the taker has in hand and, as long as it is
\* calm, of a job nobody else has.
HandsIn(t, j) ==
  /\ t \in hands[j]
  /\ calm => state[j] = "taken" /\ hands[j] = {t}
  /\ hands' = [hands EXCEPT ![j] = @ \ {t}]
  /\ UNCHANGED calm

Succeed(t, j) ==
  /\ HandsIn(t, j)
  /\ state' = [state EXCEPT ![j] = "done"]
  /\ UNCHANGED failures

Fail(t, j, n) ==
  /\ HandsIn(t, j)
  /\ calm => n = failures[j] + 1
  /\ failures' = [failures EXCEPT ![j] = n]
  /\ state' = [state EXCEPT ![j] = IF n = Limit THEN "dead" ELSE "waiting"]

Reset(j) ==
  /\ state[j] # "none"
  /\ state' = [state EXCEPT ![j] = "waiting"]
  /\ failures' = [failures EXCEPT ![j] = 0]
  /\ calm' = FALSE
  /\ UNCHANGED hands

\* Takers may die with jobs in hand.
Interfere ==
  /\ calm' = FALSE
  /\ \E left \in [Jobs -> SUBSET Takers] :
       hands' = left /\ \A j \in Jobs : left[j] \subseteq hands[j]
  /\ UNCHANGED << state, failures >>

QueueNext ==
  \/ \E j \in Jobs : Offer(j) \/ Reset(j)
  \/ \E t \in Takers, batch \in SUBSET Jobs : Take(t, batch)
  \/ \E t \in Takers, j \in Jobs : Succeed(t, j) \/ (\E n \in 1..Limit : Fail(t, j, n))
  \/ Interfere

QueueSpec == QueueInit /\ [][QueueNext]_queueVars
=============================================================================
