---------------------- MODULE LenderTransmissionProofs ----------------------
(***************************************************************************)
(* Proofs about LenderTransmission, for any number of handlers,             *)
(* applications, lenders, keys and retries.                                 *)
(***************************************************************************)
EXTENDS LenderTransmission, TLAPS

\* A finished handler's state is a request state.
LEMMA IdleType ==
  ASSUME NEW reply \in Replies
  PROVE  /\ Idle(reply) \in RequestState
         /\ Idle(reply).pc = "idle"
         /\ Idle(reply).outcome = "none"
  <1>1. PICK a \in Apps : TRUE
    BY SomeAssumption
  <1>2. PICK l \in Lenders : TRUE
    BY SomeAssumption
  <1>3. << a, l >> \in Pairs
    BY DEF Pairs
  <1>4. (CHOOSE p \in Pairs : TRUE) \in Pairs
    BY <1>3
  <1> QED
    BY <1>4 DEF Idle, RequestState, Steps, Outcomes, Stages, Received

\* Ending a transaction keeps the lock tables well-formed.
LEMMA ReleaseType ==
  ASSUME TypeOK, NEW r \in Requests, ReleaseLocks(r)
  PROVE  /\ advLock' \in [Pairs -> Requests \cup {NoOne}]
         /\ appLock' \in [Apps -> Requests \cup {NoOne}]
         /\ subLock' \in [Pairs -> Requests \cup {NoOne}]
  BY DEF TypeOK, ReleaseLocks

\* The stages of a path are stages.
LEMMA TargetsType ==
  ASSUME NEW o \in Outcomes, NEW s \in Stages
  PROVE  LastOf(TargetsAfter(o, s)) \in Stages
  <1>1. /\ LastOf(<< InReview, OffToLender >>) = OffToLender
        /\ LastOf(<< OffToLender >>) = OffToLender
        /\ LastOf(<< FailureStage(o) >>) = FailureStage(o)
    BY DEF LastOf
  <1>2. OffToLender \in Stages /\ FailureStage(o) \in Stages
    BY DEF FailureStage, Stages
  <1> QED
    BY <1>1, <1>2 DEF TargetsAfter

\* A reply ends the request in a well-formed state.
LEMMA ReplyType ==
  ASSUME TypeOK, NEW r \in Requests, NEW what \in Replies, Reply(r, what)
  PROVE  req' \in [Requests -> RequestState]
  BY IdleType DEF TypeOK, Reply

\* Moving a handler to its next statement.
LEMMA StepTo ==
  ASSUME TypeOK, NEW r \in Requests, NEW pc \in Steps
  PROVE  [req EXCEPT ![r].pc = pc] \in [Requests -> RequestState]
<1>1. req \in [Requests -> RequestState]
  BY DEF TypeOK
<1>2. [req[r] EXCEPT !.pc = pc] \in RequestState
  BY <1>1 DEF RequestState
<1> QED BY <1>1, <1>2

\* The fields of a request state.
LEMMA Fields ==
  ASSUME TypeOK, NEW r \in Requests
  PROVE  /\ req[r] \in RequestState
         /\ req[r].pair \in Pairs /\ req[r].pair[1] \in Apps /\ req[r].pair[2] \in Lenders
         /\ req[r].key \in Keys \cup {NoKey}
         /\ req[r].attempts \in Nat
         /\ req[r].seen \in Stages /\ req[r].next \in Stages
         /\ req[r].outcome \in Outcomes
         /\ stage[req[r].pair[1]] \in Stages
         /\ retry[req[r].pair].attempts \in Nat
         /\ inbox[req[r].pair] \in Nat
  <1>1. req[r] \in RequestState BY DEF TypeOK
  <1>2. req[r].pair \in Pairs BY <1>1 DEF RequestState
  <1>3. req[r].pair[1] \in Apps /\ req[r].pair[2] \in Lenders BY <1>2 DEF Pairs
  <1> QED BY <1>1, <1>2, <1>3 DEF TypeOK, RequestState

\* A rolled-back transaction leaves everything well-typed.
LEMMA RollbackType ==
  ASSUME TypeOK, NEW r \in Requests, NEW what \in Replies, Rollback(r, what),
         UNCHANGED << killSwitch, inbox, byHand, calls >>
  PROVE  TypeOK'
  <1>1. req' \in [Requests -> RequestState]
    BY ReplyType DEF Rollback
  <1>2. /\ advLock' \in [Pairs -> Requests \cup {NoOne}]
        /\ appLock' \in [Apps -> Requests \cup {NoOne}]
        /\ subLock' \in [Pairs -> Requests \cup {NoOne}]
    BY ReleaseType DEF Rollback
  <1> QED
    BY <1>1, <1>2 DEF TypeOK, Rollback, dbVars

\* Every step keeps the types: one case for each action.
LEMMA TypeStep ==
  ASSUME TypeOK, [Next]_vars
  PROVE  TypeOK'
  <1> USE DEF dbVars, lockVars
  <1>1. ASSUME NEW r \in Requests, NEW p \in Pairs, NEW k \in Keys \cup {NoKey},
               SubmitStart(r, p, k)
        PROVE  TypeOK'
    <2>1. [Idle("none") EXCEPT !.pc = "advisory", !.pair = p, !.key = k] \in RequestState
      BY IdleType DEF RequestState, Replies, Steps
    <2>2. CASE killSwitch
      <3>1. req' \in [Requests -> RequestState]
        BY <1>1, <2>2, ReplyType DEF SubmitStart, Replies
      <3> QED BY <1>1, <3>1 DEF TypeOK, SubmitStart
    <2>3. CASE ~killSwitch
      BY <1>1, <2>1, <2>3 DEF TypeOK, SubmitStart
    <2> QED BY <2>2, <2>3
  <1>2. ASSUME NEW r \in Requests, NEW p \in Pairs, RetryStart(r, p)
        PROVE  TypeOK'
    <2>1. [Idle("none") EXCEPT !.pc = "read", !.pair = p] \in RequestState
      BY IdleType DEF RequestState, Replies, Steps
    <2>2. CASE killSwitch
      <3>1. req' \in [Requests -> RequestState]
        BY <1>2, <2>2, ReplyType DEF RetryStart, Replies
      <3> QED BY <1>2, <3>1 DEF TypeOK, RetryStart
    <2>3. CASE ~killSwitch
      BY <1>2, <2>1, <2>3 DEF TypeOK, RetryStart
    <2> QED BY <2>2, <2>3
  <1>3. ASSUME NEW r \in Requests, NEW p \in Pairs, CancelStart(r, p)
        PROVE  TypeOK'
    <2>1. [Idle("none") EXCEPT !.pc = "cancelRead", !.pair = p] \in RequestState
      BY IdleType DEF RequestState, Replies, Steps
    <2> QED BY <1>3, <2>1 DEF TypeOK, CancelStart
  <1>4. ASSUME NEW r \in Requests, SubmitAdvisory(r) PROVE TypeOK'
    <2>1. req' \in [Requests -> RequestState]
      BY <1>4, StepTo, Fields DEF SubmitAdvisory, Steps
    <2> QED BY <1>4, <2>1, Fields DEF TypeOK, SubmitAdvisory
  <1>5. ASSUME NEW r \in Requests, SubmitRowLock(r) PROVE TypeOK'
    <2>1. req' \in [Requests -> RequestState]
      BY <1>5, StepTo, Fields DEF SubmitRowLock, Steps
    <2> QED BY <1>5, <2>1, Fields DEF TypeOK, SubmitRowLock
  <1>6. ASSUME NEW r \in Requests, SubmitLookup(r) PROVE TypeOK'
    <2>1. CASE Reply(r, "idempotent") /\ ReleaseLocks(r)
      <3>1. req' \in [Requests -> RequestState]
        BY <2>1, ReplyType DEF Replies
      <3> QED BY <1>6, <2>1, <3>1, ReleaseType DEF TypeOK, SubmitLookup
    <2>2. CASE req' = [req EXCEPT ![r].pc = "insert"] /\ UNCHANGED lockVars
      <3>1. req' \in [Requests -> RequestState]
        BY <2>2, StepTo DEF Steps
      <3> QED BY <1>6, <2>2, <3>1 DEF TypeOK, SubmitLookup
    <2> QED BY <1>6, <2>1, <2>2 DEF SubmitLookup
  <1>7. ASSUME NEW r \in Requests, SubmitRefused(r) PROVE TypeOK'
    BY <1>7, RollbackType DEF SubmitRefused, Replies
  <1>8. ASSUME NEW r \in Requests, SubmitMissingDocuments(r) PROVE TypeOK'
    <2>1. req' \in [Requests -> RequestState]
      BY <1>8, ReplyType DEF SubmitMissingDocuments, CountFailure, SetRetry, Replies
    <2>2. req[r].pair \in Pairs /\ req[r].pair[1] \in Apps /\ req[r].key \in Keys \cup {NoKey}
      BY DEF TypeOK, RequestState, Pairs
    <2>3. stage' \in [Apps -> Stages]
      BY <1>8, <2>2 DEF TypeOK, SubmitMissingDocuments, CountFailure, SetRetry, Stages, DocsRequired
    <2>4. sub' \in [Pairs -> [status : SubStatus, key : Keys \cup {NoKey}]]
      BY <1>8, <2>2 DEF TypeOK, SubmitMissingDocuments, CountFailure, SetRetry, SubStatus
    <2>5. retry' \in [Pairs -> [status : RetryStatus, attempts : Nat]]
      BY <1>8, <2>2 DEF TypeOK, SubmitMissingDocuments, CountFailure, SetRetry, RetryStatus
    <2> QED
      BY <1>8, <2>1, <2>3, <2>4, <2>5, ReleaseType DEF TypeOK, SubmitMissingDocuments, CountFailure, SetRetry
  <1>9. ASSUME NEW r \in Requests, SubmitInsert(r) PROVE TypeOK'
    <2>1. [req[r] EXCEPT !.pc = "send", !.seen = stage[req[r].pair[1]]] \in RequestState
      BY Fields DEF RequestState, Steps
    <2>2. req' \in [Requests -> RequestState]
      BY <1>9, <2>1 DEF TypeOK, SubmitInsert
    <2> QED BY <1>9, <2>2, Fields DEF TypeOK, SubmitInsert
  <1>10. ASSUME NEW r \in Requests, SubmitSend(r) PROVE TypeOK'
    <2>1. PICK o \in Outcomes \ {"none"} :
             /\ req' = [req EXCEPT ![r] = [@ EXCEPT !.pc = "finish", !.outcome = o]]
             /\ LenderAnswers(r, o)
      BY <1>10 DEF SubmitSend
    <2>2. [req[r] EXCEPT !.pc = "finish", !.outcome = o] \in RequestState
      BY Fields DEF RequestState, Steps
    <2>3. req' \in [Requests -> RequestState]
      BY <2>1, <2>2 DEF TypeOK
    <2> QED BY <2>1, <2>3, Fields DEF TypeOK, LenderAnswers
  <1>11. ASSUME NEW r \in Requests, SubmitFinish(r) PROVE TypeOK'
    <2> DEFINE p == req[r].pair
               o == req[r].outcome
               targets == TargetsAfter(o, req[r].seen)
    <2>1. p \in Pairs /\ p[1] \in Apps /\ req[r].key \in Keys \cup {NoKey}
          /\ o \in Outcomes /\ req[r].seen \in Stages
      BY DEF TypeOK, RequestState, Pairs
    <2>2. LastOf(targets) \in Stages
      BY <2>1, TargetsType
    <2>3. CASE PathAllowed(stage[p[1]], targets)
      <3>1. req' \in [Requests -> RequestState]
        BY <1>11, <2>3, ReplyType DEF SubmitFinish, CountFailure, SetRetry, Replies, SubmissionStatus
      <3>2. stage' \in [Apps -> Stages]
        BY <1>11, <2>1, <2>2, <2>3 DEF TypeOK, SubmitFinish, CountFailure, SetRetry
      <3>3. sub' \in [Pairs -> [status : SubStatus, key : Keys \cup {NoKey}]]
        BY <1>11, <2>1, <2>3 DEF TypeOK, SubmitFinish, CountFailure, SetRetry, SubStatus, SubmissionStatus
      <3>4. retry' \in [Pairs -> [status : RetryStatus, attempts : Nat]]
        BY <1>11, <2>1, <2>3 DEF TypeOK, SubmitFinish, CountFailure, SetRetry, RetryStatus
      <3>5. appStatus' \in [Apps -> {"open", "SUBMITTED_TO_LENDER"}]
        BY <1>11, <2>1, <2>3 DEF TypeOK, SubmitFinish, CountFailure, SetRetry
      <3> QED
        BY <1>11, <2>3, <3>1, <3>2, <3>3, <3>4, <3>5, ReleaseType DEF TypeOK, SubmitFinish, CountFailure, SetRetry
    <2>4. CASE ~PathAllowed(stage[p[1]], targets)
      BY <1>11, <2>4, RollbackType DEF SubmitFinish, CountFailure, SetRetry, Replies
    <2> QED BY <2>3, <2>4
  <1>12. ASSUME NEW r \in Requests, RetryRead(r) PROVE TypeOK'
    <2>1. req' \in [Requests -> RequestState]
      <3>1. CASE Reply(r, "error") \/ Reply(r, "already_submitted")
        BY <3>1, ReplyType DEF Replies
      <3>2. CASE req' = [req EXCEPT ![r].pc = "readAttempts"]
        BY <3>2, StepTo DEF Steps
      <3> QED BY <1>12, <3>1, <3>2 DEF RetryRead
    <2> QED BY <1>12, <2>1 DEF TypeOK, RetryRead
  <1>13. ASSUME NEW r \in Requests, RetryReadAttempts(r) PROVE TypeOK'
    <2>1. req' \in [Requests -> RequestState]
      <3>1. CASE Reply(r, "error")
        BY <3>1, ReplyType DEF Replies
      <3>2. CASE req' = [req EXCEPT ![r] = [@ EXCEPT !.pc = "readApp",
                                                   !.attempts = retry[req[r].pair].attempts]]
        <4>1. [req[r] EXCEPT !.pc = "readApp", !.attempts = retry[req[r].pair].attempts]
                \in RequestState
          BY Fields DEF RequestState, Steps
        <4> QED BY <3>2, <4>1 DEF TypeOK
      <3> QED BY <1>13, <3>1, <3>2 DEF RetryReadAttempts
    <2> QED BY <1>13, <2>1 DEF TypeOK, RetryReadAttempts
  <1>14. ASSUME NEW r \in Requests, RetryReadApp(r) PROVE TypeOK'
    <2>1. [req[r] EXCEPT !.pc = "resend", !.seen = stage[req[r].pair[1]]] \in RequestState
      BY Fields DEF RequestState, Steps
    <2>2. req' \in [Requests -> RequestState]
      BY <1>14, <2>1 DEF TypeOK, RetryReadApp
    <2> QED BY <1>14, <2>2, Fields DEF TypeOK, RetryReadApp
  <1>15. ASSUME NEW r \in Requests, RetrySend(r) PROVE TypeOK'
    <2>1. PICK o \in Outcomes \ {"none"} :
             /\ req' = [req EXCEPT ![r] = [@ EXCEPT !.pc = "lockSub", !.outcome = o]]
             /\ LenderAnswers(r, o)
      BY <1>15 DEF RetrySend
    <2>2. [req[r] EXCEPT !.pc = "lockSub", !.outcome = o] \in RequestState
      BY Fields DEF RequestState, Steps
    <2>3. req' \in [Requests -> RequestState]
      BY <2>1, <2>2 DEF TypeOK
    <2> QED BY <2>1, <2>3, Fields DEF TypeOK, LenderAnswers
  <1>16. ASSUME NEW r \in Requests, RetryLockSub(r) PROVE TypeOK'
    <2>1. req' \in [Requests -> RequestState]
      BY <1>16, StepTo, Fields DEF RetryLockSub, Steps
    <2> QED BY <1>16, <2>1, Fields DEF TypeOK, RetryLockSub
  <1>17. ASSUME NEW r \in Requests, RetryReadStage(r) PROVE TypeOK'
    <2> DEFINE targets == TargetsAfter(req[r].outcome, req[r].seen)
               cur == stage[req[r].pair[1]]
    <2>1. req[r].outcome \in Outcomes /\ req[r].seen \in Stages /\ cur \in Stages
      BY DEF TypeOK, RequestState, Pairs
    <2>2. LastOf(targets) \in Stages
      BY <2>1, TargetsType
    <2>3. CASE PathAllowed(cur, targets)
      <3>1. [req[r] EXCEPT !.pc = "commit", !.seen = cur, !.next = LastOf(targets)]
              \in RequestState
        BY <2>1, <2>2, Fields DEF RequestState, Steps
      <3>2. req' \in [Requests -> RequestState]
        BY <1>17, <2>3, <3>1 DEF TypeOK, RetryReadStage
      <3> QED BY <1>17, <2>3, <3>2 DEF TypeOK, RetryReadStage
    <2>4. CASE ~PathAllowed(cur, targets)
      BY <1>17, <2>4, RollbackType DEF RetryReadStage, Replies
    <2> QED BY <2>3, <2>4
  <1>18. ASSUME NEW r \in Requests, RetryCommit(r) PROVE TypeOK'
    <2>1. req' \in [Requests -> RequestState]
      BY <1>18, ReplyType DEF RetryCommit, SetRetry, Replies, SubmissionStatus
    <2>2. req[r].pair \in Pairs /\ req[r].pair[1] \in Apps /\ req[r].next \in Stages
          /\ req[r].attempts + 1 \in Nat
      BY DEF TypeOK, RequestState, Pairs
    <2>3. stage' \in [Apps -> Stages]
      BY <1>18, <2>2 DEF TypeOK, RetryCommit, SetRetry
    <2>4. sub' \in [Pairs -> [status : SubStatus, key : Keys \cup {NoKey}]]
      BY <1>18, <2>2 DEF TypeOK, RetryCommit, SetRetry, SubStatus, SubmissionStatus
    <2>5. retry' \in [Pairs -> [status : RetryStatus, attempts : Nat]]
      BY <1>18, <2>2 DEF TypeOK, RetryCommit, SetRetry, RetryStatus
    <2>6. appStatus' \in [Apps -> {"open", "SUBMITTED_TO_LENDER"}]
      BY <1>18, <2>2 DEF TypeOK, RetryCommit, SetRetry
    <2> QED
      BY <1>18, <2>1, <2>3, <2>4, <2>5, <2>6, ReleaseType DEF TypeOK, RetryCommit, SetRetry
  <1>19. ASSUME NEW r \in Requests, CancelRead(r) PROVE TypeOK'
    <2>1. req' \in [Requests -> RequestState]
      <3>1. CASE Reply(r, "error")
        BY <3>1, ReplyType DEF Replies
      <3>2. CASE req' = [req EXCEPT ![r] = [@ EXCEPT !.pc = "cancelCommit",
                                                   !.attempts = retry[req[r].pair].attempts]]
        <4>1. [req[r] EXCEPT !.pc = "cancelCommit", !.attempts = retry[req[r].pair].attempts]
                \in RequestState
          BY Fields DEF RequestState, Steps
        <4> QED BY <3>2, <4>1 DEF TypeOK
      <3> QED BY <1>19, <3>1, <3>2 DEF CancelRead
    <2> QED BY <1>19, <2>1 DEF TypeOK, CancelRead
  <1>20. ASSUME NEW r \in Requests, CancelCommit(r) PROVE TypeOK'
    <2>1. req' \in [Requests -> RequestState]
      BY <1>20, ReplyType DEF CancelCommit, SetRetry, Replies
    <2>2. retry' \in [Pairs -> [status : RetryStatus, attempts : Nat]]
      BY <1>20 DEF TypeOK, CancelCommit, SetRetry, RetryStatus, RequestState
    <2> QED BY <1>20, <2>1, <2>2 DEF TypeOK, CancelCommit, SetRetry
  <1>21. ASSUME NEW r \in Requests, Crash(r) PROVE TypeOK'
    BY <1>21, RollbackType DEF Crash, Replies
  <1>22. ASSUME NEW e \in BOOLEAN, SetKillSwitch(e) PROVE TypeOK'
    BY <1>22 DEF TypeOK, SetKillSwitch
  <1>23. ASSUME NEW a \in StaffApps, NEW s \in Stages, StaffMove(a, s) PROVE TypeOK'
    BY <1>23, StaffAssumption DEF TypeOK, StaffMove
  <1>24. ASSUME NEW p \in StaffApps \X Lenders, PortalMarkSubmitted(p) PROVE TypeOK'
    <2>1. p \in Pairs
      BY StaffAssumption DEF Pairs
    <2> QED BY <1>24, <2>1 DEF TypeOK, PortalMarkSubmitted, SubStatus
  <1>25. CASE UNCHANGED vars
    BY <1>25 DEF vars, TypeOK
  <1> QED
    BY <1>1, <1>2, <1>3, <1>4, <1>5, <1>6, <1>7, <1>8, <1>9, <1>10, <1>11, <1>12,
       <1>13, <1>14, <1>15, <1>16, <1>17, <1>18, <1>19, <1>20, <1>21, <1>22, <1>23,
       <1>24, <1>25 DEF Next, HandlerStep

\* The initial states are well-typed.
LEMMA TypeInit ==
  ASSUME Init
  PROVE  TypeOK
  <1>1. Idle("none") \in RequestState
    BY IdleType DEF Replies
  <1> QED
    BY <1>1 DEF Init, TypeOK, Stages, Received, InReview, DocsRequired, NoRow,
                NoRetry, SubStatus, RetryStatus

\* The database rows, the lock tables and the handlers' local values keep
\* their types in every behaviour.
THEOREM TypeCorrect == Spec => []TypeOK
  <1>1. Init => TypeOK BY TypeInit
  <1>2. TypeOK /\ [Next]_vars => TypeOK' BY TypeStep
  <1> QED BY <1>1, <1>2, PTL DEF Spec

\* Other handlers keep what they read and the locks they hold when r ends.
LEMMA EndOfRequest ==
  ASSUME TypeOK, NEW r \in Requests, NEW what \in Replies, Reply(r, what), ReleaseLocks(r)
  PROVE  /\ req'[r].pc = "idle" /\ req'[r].outcome = "none"
         /\ \A q \in Requests \ {r} :
              /\ req'[q] = req[q]
              /\ \A a \in Apps : appLock[a] = q => appLock'[a] = q
              /\ \A p \in Pairs : subLock[p] = q => subLock'[p] = q
  <1>1. req'[r] = Idle(what) /\ \A q \in Requests \ {r} : req'[q] = req[q]
    BY DEF TypeOK, Reply
  <1>2. ASSUME NEW q \in Requests \ {r}
        PROVE  /\ \A a \in Apps : appLock[a] = q => appLock'[a] = q
               /\ \A p \in Pairs : subLock[p] = q => subLock'[p] = q
    BY DEF TypeOK, ReleaseLocks
  <1> QED BY <1>1, <1>2, IdleType

\* What the invariant says of one handler, as the proofs below use it.
Handler(r) ==
  /\ req[r].pc \in {"lookup", "insert", "send", "finish"} => appLock[req[r].pair[1]] = r
  /\ req[r].pc \in {"send", "finish"} =>
       /\ subLock[req[r].pair] = r
       /\ sub[req[r].pair].status = "none"
       /\ req[r].seen = stage[req[r].pair[1]]
  /\ req[r].pc \in Retrying \cup {"cancelCommit"} => sub[req[r].pair].status # "none"
  /\ req[r].pc \in Retrying \cup {"send", "finish"} =>
       req[r].pair[2] = LenderOf[req[r].pair[1]]
  /\ req[r].pc \in Retrying \ {"readAttempts"} => req[r].attempts < MaxRetries
  /\ req[r].pc = "cancelCommit" => req[r].attempts <= MaxRetries
  /\ req[r].outcome = "accepted" => inbox[req[r].pair] > 0

Rows == RowFacts /\ AttemptsBounded /\ SubmittedMeansDelivered

\* The invariant is the handlers' facts and the rows' facts: that two submits
\* of one application never overlap follows from the row lock.
LEMMA Split ==
  ASSUME IInv
  PROVE  Rows /\ \A r \in Requests : Handler(r)
  BY DEF IInv, Rows, Handler, LocksHeld, HandlerFacts, SendOnlyUnrecorded,
         StageNotStaleInSubmit

\* The facts of the rows and of every handler make up the invariant.
LEMMA Join ==
  ASSUME Rows', \A r \in Requests : Handler(r)'
  PROVE  IInv'
  <1>1. LocksHeld' /\ HandlerFacts' /\ StageNotStaleInSubmit'
    BY DEF Handler, LocksHeld, HandlerFacts, StageNotStaleInSubmit
  <1>2. SendOnlyUnrecorded'
    BY DEF Handler, SendOnlyUnrecorded
  <1> QED BY <1>1, <1>2 DEF IInv, Rows

\* A handler whose own state and locks are untouched, and whose pair and
\* application nobody else may write, keeps its facts.
LEMMA Others ==
  ASSUME TypeOK, NEW r \in Requests, NEW q \in Requests \ {r}, Handler(q),
         req'[q] = req[q],
         \A a \in Apps : appLock[a] = q => appLock'[a] = q,
         \A p \in Pairs : subLock[p] = q => subLock'[p] = q,
         \A p \in Pairs : sub[p].status # "none" => sub'[p].status # "none",
         \A p \in Pairs : subLock[p] = q => sub'[p] = sub[p],
         \A a \in Apps : appLock[a] = q => stage'[a] = stage[a],
         \A p \in Pairs : inbox'[p] >= inbox[p] /\ inbox'[p] \in Nat
  PROVE  Handler(q)'
  BY Fields DEF Handler

\* A handler that has ended holds nothing and promises nothing.
LEMMA Ended ==
  ASSUME NEW r \in Requests, req'[r].pc = "idle", req'[r].outcome = "none"
  PROVE  Handler(r)'
  BY DEF Handler, Retrying

\* A rollback, on an error or a crash, keeps the invariant.
LEMMA RollbackInv ==
  ASSUME TypeOK, IInv, NEW r \in Requests, NEW what \in Replies, Rollback(r, what),
         UNCHANGED << killSwitch, inbox, byHand, calls >>
  PROVE  IInv'
  <1>1. Rows /\ \A q \in Requests : Handler(q)
    BY Split
  <1>2. Reply(r, what) /\ ReleaseLocks(r) /\ UNCHANGED << stage, appStatus, sub, retry >>
    BY DEF Rollback, dbVars
  <1>3. Handler(r)'
    BY <1>2, EndOfRequest, Ended
  <1>4. ASSUME NEW q \in Requests \ {r} PROVE Handler(q)'
    <2>1. Handler(q) BY <1>1
    <2>2. \A p \in Pairs : inbox'[p] >= inbox[p] /\ inbox'[p] \in Nat
      BY DEF TypeOK
    <2> QED BY <1>2, <2>1, <2>2, EndOfRequest, Others
  <1>5. Rows'
    BY <1>1, <1>2 DEF Rows, RowFacts, AttemptsBounded, SubmittedMeansDelivered
  <1> QED BY <1>3, <1>4, <1>5, Join

\* A statement that only moves r on, taking at most a lock that was free.
LEMMA StatementInv ==
  ASSUME TypeOK, IInv, NEW r \in Requests, Handler(r)',
         \A q \in Requests \ {r} :
           /\ req'[q] = req[q]
           /\ \A a \in Apps : appLock[a] = q => appLock'[a] = q
           /\ \A p \in Pairs : subLock[p] = q => subLock'[p] = q,
         UNCHANGED << stage, appStatus, sub, retry, inbox, byHand >>
  PROVE  IInv'
  <1>1. Rows /\ \A q \in Requests : Handler(q)
    BY Split
  <1>2. ASSUME NEW q \in Requests \ {r} PROVE Handler(q)'
    <2>1. Handler(q) BY <1>1
    <2>2. \A p \in Pairs : inbox'[p] >= inbox[p] /\ inbox'[p] \in Nat
      BY DEF TypeOK
    <2> QED BY <2>1, <2>2, Others
  <1>3. Rows'
    BY <1>1 DEF Rows, RowFacts, AttemptsBounded, SubmittedMeansDelivered
  <1> QED BY <1>2, <1>3, Join

\* Every step keeps the invariant.
LEMMA InvStep ==
  ASSUME TypeOK, IInv, [Next]_vars
  PROVE  IInv'
  <1> USE DEF dbVars, lockVars
  <1>0. Rows /\ \A q \in Requests : Handler(q)
    BY Split
  <1>1. ASSUME NEW r \in Requests, NEW p \in Pairs, NEW k \in Keys \cup {NoKey},
               SubmitStart(r, p, k) PROVE IInv'
    <2>1. req'[r].pc \in {"idle", "advisory"} /\ req'[r].outcome = "none"
          /\ \A q \in Requests \ {r} : req'[q] = req[q]
      <3>1. "none" \in Replies /\ "blocked" \in Replies
        BY DEF Replies
      <3>2. \A x \in Replies : Idle(x).pc = "idle" /\ Idle(x).outcome = "none" /\ Idle(x) \in RequestState
        BY IdleType
      <3>3. [Idle("none") EXCEPT !.pc = "advisory", !.pair = p, !.key = k].pc = "advisory" /\ [Idle("none") EXCEPT !.pc = "advisory", !.pair = p, !.key = k].outcome = "none"
        BY <3>1, <3>2 DEF RequestState
      <3> QED BY <1>1, <3>1, <3>2, <3>3 DEF TypeOK, SubmitStart, Reply
    <2>2. Handler(r)'
      BY <2>1 DEF Handler, Retrying
    <2> QED BY <1>1, <2>1, <2>2, StatementInv DEF SubmitStart
  <1>2. ASSUME NEW r \in Requests, NEW p \in Pairs, RetryStart(r, p) PROVE IInv'
    <2>1. req'[r].pc \in {"idle", "read"} /\ req'[r].outcome = "none"
          /\ \A q \in Requests \ {r} : req'[q] = req[q]
      <3>1. "none" \in Replies /\ "blocked" \in Replies
        BY DEF Replies
      <3>2. \A x \in Replies : Idle(x).pc = "idle" /\ Idle(x).outcome = "none" /\ Idle(x) \in RequestState
        BY IdleType
      <3>3. [Idle("none") EXCEPT !.pc = "read", !.pair = p].pc = "read" /\ [Idle("none") EXCEPT !.pc = "read", !.pair = p].outcome = "none"
        BY <3>1, <3>2 DEF RequestState
      <3> QED BY <1>2, <3>1, <3>2, <3>3 DEF TypeOK, RetryStart, Reply
    <2>2. Handler(r)'
      BY <2>1 DEF Handler, Retrying
    <2> QED BY <1>2, <2>1, <2>2, StatementInv DEF RetryStart
  <1>3. ASSUME NEW r \in Requests, NEW p \in Pairs, CancelStart(r, p) PROVE IInv'
    <2>1. req'[r].pc \in {"idle", "cancelRead"} /\ req'[r].outcome = "none"
          /\ \A q \in Requests \ {r} : req'[q] = req[q]
      <3>1. "none" \in Replies /\ "blocked" \in Replies
        BY DEF Replies
      <3>2. \A x \in Replies : Idle(x).pc = "idle" /\ Idle(x).outcome = "none" /\ Idle(x) \in RequestState
        BY IdleType
      <3>3. [Idle("none") EXCEPT !.pc = "cancelRead", !.pair = p].pc = "cancelRead" /\ [Idle("none") EXCEPT !.pc = "cancelRead", !.pair = p].outcome = "none"
        BY <3>1, <3>2 DEF RequestState
      <3> QED BY <1>3, <3>1, <3>2, <3>3 DEF TypeOK, CancelStart, Reply
    <2>2. Handler(r)'
      BY <2>1 DEF Handler, Retrying
    <2> QED BY <1>3, <2>1, <2>2, StatementInv DEF CancelStart
  <1>4. ASSUME NEW r \in Requests, SubmitAdvisory(r) PROVE IInv'
    <2>1. \A q \in Requests \ {r} : req'[q] = req[q]
      BY <1>4 DEF TypeOK, SubmitAdvisory
    <2>2. Handler(r)'
      BY <1>4, <1>0, Fields DEF TypeOK, SubmitAdvisory, Handler, Retrying
    <2> QED BY <1>4, <2>1, <2>2, StatementInv, NullAssumption, Fields DEF TypeOK, SubmitAdvisory, Free
  <1>5. ASSUME NEW r \in Requests, SubmitRowLock(r) PROVE IInv'
    <2>1. \A q \in Requests \ {r} : req'[q] = req[q]
      BY <1>5 DEF TypeOK, SubmitRowLock
    <2>2. Handler(r)'
      BY <1>5, <1>0, Fields DEF TypeOK, SubmitRowLock, Handler, Retrying, Pairs
    <2> QED BY <1>5, <2>1, <2>2, StatementInv, NullAssumption, Fields DEF TypeOK, SubmitRowLock, Free
  <1>6. ASSUME NEW r \in Requests, SubmitLookup(r) PROVE IInv'
    <2>1. CASE Reply(r, "idempotent") /\ ReleaseLocks(r)
      BY <1>6, <2>1, EndOfRequest, Ended, StatementInv DEF SubmitLookup, Replies
    <2>2. CASE req' = [req EXCEPT ![r].pc = "insert"] /\ UNCHANGED lockVars
      <3>1. \A q \in Requests \ {r} : req'[q] = req[q]
        BY <2>2 DEF TypeOK
      <3>2. Handler(r)'
        BY <1>6, <2>2, <1>0, Fields DEF TypeOK, SubmitLookup, Handler, Retrying
      <3> QED BY <1>6, <2>2, <3>1, <3>2, StatementInv DEF SubmitLookup
    <2> QED BY <1>6, <2>1, <2>2 DEF SubmitLookup
  <1>7. ASSUME NEW r \in Requests, SubmitRefused(r) PROVE IInv'
    BY <1>7, RollbackInv DEF SubmitRefused, Replies
  <1>8. ASSUME NEW r \in Requests, SubmitMissingDocuments(r) PROVE IInv'
    <2> DEFINE p == req[r].pair
    <2>1. p \in Pairs /\ p[1] \in Apps /\ appLock[p[1]] = r /\ p[2] = LenderOf[p[1]]
          /\ sub[p].status = "none" /\ Free(subLock, p, r)
      BY <1>8, <1>0, Fields DEF SubmitMissingDocuments, CountFailure, SetRetry, Handler, Sendable, DuplicateRow, InsertFree
    <2>2. Reply(r, "failed") /\ ReleaseLocks(r) /\ "failed" \in Replies
      BY <1>8 DEF SubmitMissingDocuments, CountFailure, SetRetry, Replies
    <2>3. Handler(r)'
      BY <2>2, EndOfRequest, Ended
    <2>4. ASSUME NEW q \in Requests \ {r} PROVE Handler(q)'
      <3>1. \A a \in Apps : appLock[a] = q => stage'[a] = stage[a]
        BY <1>8, <2>1 DEF SubmitMissingDocuments, CountFailure, SetRetry, TypeOK
      <3>2. \A x \in Pairs : subLock[x] = q => sub'[x] = sub[x]
        BY <1>8, <2>1, NullAssumption DEF SubmitMissingDocuments, CountFailure, SetRetry, TypeOK, Free
      <3>3. \A x \in Pairs : /\ sub[x].status # "none" => sub'[x].status # "none"
                              /\ inbox'[x] >= inbox[x] /\ inbox'[x] \in Nat
        BY <1>8, <2>1 DEF SubmitMissingDocuments, CountFailure, SetRetry, TypeOK
      <3>4. /\ req'[q] = req[q]
            /\ \A a \in Apps : appLock[a] = q => appLock'[a] = q
            /\ \A x \in Pairs : subLock[x] = q => subLock'[x] = q
        BY <2>2, EndOfRequest
      <3>5. Handler(q) BY <1>0
      <3>6. req[q].pair \in Pairs /\ req[q].pair[1] \in Apps /\ inbox[req[q].pair] \in Nat BY Fields
      <3>7. req[q].pc \in {"send", "finish"} => sub'[req[q].pair].status = "none"
        BY <3>2, <3>5, <3>6 DEF Handler
      <3>8. req[q].pc \in Retrying \cup {"cancelCommit"} => sub'[req[q].pair].status # "none"
        BY <3>3, <3>5, <3>6 DEF Handler
      <3>9. req[q].outcome = "accepted" => inbox'[req[q].pair] > 0
        BY <1>8, <3>5 DEF Handler, SubmitMissingDocuments, CountFailure, SetRetry
      <3> QED BY <3>1, <3>4, <3>5, <3>6, <3>7, <3>8, <3>9 DEF Handler
    <2>5. Rows'
      <3>1. sub'[p] = [status |-> "failed", key |-> req[r].key]
            /\ retry'[p].attempts = 1
            /\ \A x \in Pairs \ {p} : sub'[x] = sub[x] /\ retry'[x] = retry[x]
        BY <1>8, <1>0, <2>1 DEF SubmitMissingDocuments, CountFailure, SetRetry, TypeOK, Rows, RowFacts
      <3>2. UNCHANGED << inbox, byHand, appStatus >>
        BY <1>8 DEF SubmitMissingDocuments, CountFailure, SetRetry
      <3> QED
        BY <1>0, <2>1, <3>1, <3>2, RetriesAssumption
           DEF Rows, RowFacts, AttemptsBounded, SubmittedMeansDelivered
    <2> QED BY <2>3, <2>4, <2>5, Join
  <1>9. ASSUME NEW r \in Requests, SubmitInsert(r) PROVE IInv'
    <2>1. \A q \in Requests \ {r} : req'[q] = req[q]
      BY <1>9 DEF TypeOK, SubmitInsert
    <2>2. /\ req'[r].pc = "send" /\ req'[r].pair = req[r].pair
          /\ req'[r].seen = stage[req[r].pair[1]] /\ req'[r].outcome = req[r].outcome
      BY <1>9, Fields DEF TypeOK, SubmitInsert, RequestState
    <2>3. Handler(r)'
      BY <1>9, <1>0, <2>2, Fields
         DEF TypeOK, SubmitInsert, Handler, Retrying, DuplicateRow, Sendable
    <2> QED
      BY <1>9, <2>1, <2>3, StatementInv, NullAssumption, Fields
         DEF TypeOK, SubmitInsert, InsertFree, Free
  <1>10. ASSUME NEW r \in Requests, SubmitSend(r) PROVE IInv'
    <2>1. PICK oc \in Outcomes \ {"none"} :
             /\ req' = [req EXCEPT ![r] = [@ EXCEPT !.pc = "finish", !.outcome = oc]]
             /\ LenderAnswers(r, oc)
      BY <1>10 DEF SubmitSend
    <2>2. /\ req'[r] = [req[r] EXCEPT !.pc = "finish", !.outcome = oc]
          /\ \A q \in Requests \ {r} : req'[q] = req[q]
      BY <2>1 DEF TypeOK
    <2>3. /\ req'[r].pc = "finish" /\ req'[r].outcome = oc /\ req'[r].pair = req[r].pair
          /\ req'[r].seen = req[r].seen /\ req'[r].attempts = req[r].attempts
      BY <2>2, Fields DEF RequestState
    <2>4. /\ \A p \in Pairs : inbox'[p] >= inbox[p] /\ inbox'[p] \in Nat
          /\ oc = "accepted" => inbox'[req[r].pair] > 0
      BY <2>1, Fields DEF TypeOK, LenderAnswers
    <2>5. UNCHANGED << stage, appStatus, sub, retry, byHand, appLock, subLock >>
      BY <2>1 DEF LenderAnswers
    <2>6. Handler(r)'
      BY <1>10, <1>0, <2>3, <2>4, <2>5 DEF SubmitSend, Handler, Retrying
    <2>7. ASSUME NEW q \in Requests \ {r} PROVE Handler(q)'
      BY <1>0, <2>2, <2>4, <2>5, Others
    <2>8. Rows'
      <3>1. RowFacts' /\ AttemptsBounded'
        BY <1>0, <2>5 DEF Rows, RowFacts, AttemptsBounded
      <3>2. \A a \in Apps : <<a, LenderOf[a]>> \in Pairs
        BY LenderOfAssumption DEF Pairs
      <3>3. SubmittedMeansDelivered'
        BY <1>0, <2>4, <2>5, <3>2 DEF TypeOK, Rows, SubmittedMeansDelivered
      <3> QED BY <3>1, <3>3 DEF Rows
    <2> QED BY <2>6, <2>7, <2>8, Join
  <1>11. ASSUME NEW r \in Requests, SubmitFinish(r) PROVE IInv'
    <2> DEFINE p == req[r].pair
               oc == req[r].outcome
               targets == TargetsAfter(oc, req[r].seen)
    <2>1. p \in Pairs /\ p[1] \in Apps /\ appLock[p[1]] = r /\ subLock[p] = r
          /\ p[2] = LenderOf[p[1]] /\ sub[p].status = "none"
          /\ (oc = "accepted" => inbox[p] > 0)
      BY <1>11, <1>0, Fields DEF SubmitFinish, CountFailure, SetRetry, Handler
    <2>2. CASE PathAllowed(stage[p[1]], targets)
      <3>1. Reply(r, SubmissionStatus(oc)) /\ ReleaseLocks(r) /\ SubmissionStatus(oc) \in Replies
        BY <1>11, <2>2 DEF SubmitFinish, CountFailure, SetRetry, Replies, SubmissionStatus
      <3>2. Handler(r)'
        BY <3>1, EndOfRequest, Ended
      <3>3. /\ sub'[p] = [status |-> SubmissionStatus(oc), key |-> req[r].key]
            /\ \A x \in Pairs \ {p} : sub'[x] = sub[x] /\ retry'[x] = retry[x]
            /\ \A a \in Apps \ {p[1]} : stage'[a] = stage[a] /\ appStatus'[a] = appStatus[a]
            /\ oc # "accepted" => UNCHANGED appStatus
            /\ UNCHANGED << inbox, byHand >>
        BY <1>11, <2>1, <2>2 DEF SubmitFinish, CountFailure, SetRetry, TypeOK
      <3>4. retry'[p].attempts \in {0, 1}
        BY <1>11, <1>0, <2>1, <2>2 DEF SubmitFinish, CountFailure, SetRetry, TypeOK, Rows, RowFacts
      <3>5. ASSUME NEW q \in Requests \ {r} PROVE Handler(q)'
        <4>1. \A a \in Apps : appLock[a] = q => stage'[a] = stage[a]
          BY <2>1, <3>3
        <4>2. \A x \in Pairs : subLock[x] = q => sub'[x] = sub[x]
          BY <2>1, <3>3
        <4>3. \A x \in Pairs : /\ sub[x].status # "none" => sub'[x].status # "none"
                                /\ inbox'[x] >= inbox[x] /\ inbox'[x] \in Nat
          BY <2>1, <3>3 DEF TypeOK
        <4>4. /\ req'[q] = req[q]
              /\ \A a \in Apps : appLock[a] = q => appLock'[a] = q
              /\ \A x \in Pairs : subLock[x] = q => subLock'[x] = q
          BY <3>1, EndOfRequest
        <4>5. Handler(q) BY <1>0
        <4>6. req[q].pair \in Pairs /\ req[q].pair[1] \in Apps /\ inbox[req[q].pair] \in Nat BY Fields
        <4>7. req[q].pc \in {"send", "finish"} => sub'[req[q].pair].status = "none"
          BY <4>2, <4>5, <4>6 DEF Handler
        <4>8. req[q].pc \in Retrying \cup {"cancelCommit"} => sub'[req[q].pair].status # "none"
          BY <4>3, <4>5, <4>6 DEF Handler
        <4>9. req[q].outcome = "accepted" => inbox'[req[q].pair] > 0
          BY <3>3, <4>5 DEF Handler
        <4> QED BY <4>1, <4>4, <4>5, <4>6, <4>7, <4>8, <4>9 DEF Handler
      <3>6. Rows'
        <4>1. RowFacts'
          BY <1>0, <2>1, <3>3 DEF Rows, RowFacts, SubmissionStatus
        <4>2. AttemptsBounded'
          BY <1>0, <2>1, <3>3, <3>4, RetriesAssumption DEF Rows, AttemptsBounded
        <4>3. \A x \in Pairs : sub'[x].status = "submitted" => inbox'[x] > 0 \/ x \in byHand'
          BY <1>0, <2>1, <3>3 DEF Rows, SubmittedMeansDelivered, SubmissionStatus
        <4>4. p = << p[1], LenderOf[p[1]] >>
          BY <2>1 DEF Pairs
        <4>5. \A a \in Apps : appStatus'[a] = "SUBMITTED_TO_LENDER" => inbox'[<<a, LenderOf[a]>>] > 0
          BY <1>0, <2>1, <3>3, <4>4 DEF Rows, SubmittedMeansDelivered
        <4> QED BY <4>1, <4>2, <4>3, <4>5 DEF Rows, SubmittedMeansDelivered
      <3> QED BY <3>2, <3>5, <3>6, Join
    <2>3. CASE ~PathAllowed(stage[p[1]], targets)
      BY <1>11, <2>3, RollbackInv DEF SubmitFinish, CountFailure, SetRetry, Replies
    <2> QED BY <2>2, <2>3
  <1>12. ASSUME NEW r \in Requests, RetryRead(r) PROVE IInv'
    <2>1. \A q \in Requests \ {r} : req'[q] = req[q]
      BY <1>12 DEF TypeOK, RetryRead, Reply
    <2>2. Handler(r)'
      <3>1. CASE Reply(r, "error") \/ Reply(r, "already_submitted")
        BY <1>12, <3>1, IdleType, Ended DEF TypeOK, Reply, Replies
      <3>2. CASE /\ req' = [req EXCEPT ![r] = [@ EXCEPT !.pc = "readAttempts"]]
                 /\ sub[req[r].pair].status = "failed"
        <4>1. req'[r] = [req[r] EXCEPT !.pc = "readAttempts"]
          BY <3>2 DEF TypeOK
        <4>2. /\ req'[r].pc = "readAttempts" /\ req'[r].pair = req[r].pair
              /\ req'[r].outcome = req[r].outcome
          BY <4>1, Fields DEF RequestState
        <4> QED
          BY <1>12, <1>0, <3>2, <4>2, Fields, RetriesAssumption
             DEF RetryRead, Handler, Retrying, Rows, RowFacts
      <3> QED BY <1>12, <3>1, <3>2 DEF TypeOK, RetryRead
    <2> QED BY <1>12, <2>1, <2>2, StatementInv DEF RetryRead
  <1>13. ASSUME NEW r \in Requests, RetryReadAttempts(r) PROVE IInv'
    <2>1. \A q \in Requests \ {r} : req'[q] = req[q]
      BY <1>13 DEF TypeOK, RetryReadAttempts, Reply
    <2>2. Handler(r)'
      <3>1. CASE Reply(r, "error")
        BY <1>13, <3>1, IdleType, Ended DEF TypeOK, Reply, Replies
      <3>2. CASE /\ req' = [req EXCEPT ![r] = [@ EXCEPT !.pc = "readApp", !.attempts = retry[req[r].pair].attempts]]
                 /\ ~(retry[req[r].pair].attempts >= MaxRetries)
        <4>1. req'[r] = [req[r] EXCEPT !.pc = "readApp", !.attempts = retry[req[r].pair].attempts]
          BY <3>2 DEF TypeOK
        <4>2. /\ req'[r].pc = "readApp" /\ req'[r].pair = req[r].pair
              /\ req'[r].outcome = req[r].outcome
              /\ req'[r].attempts = retry[req[r].pair].attempts
          BY <4>1, Fields DEF RequestState
        <4> QED
          BY <1>13, <1>0, <3>2, <4>2, Fields, RetriesAssumption
             DEF RetryReadAttempts, Handler, Retrying
      <3> QED BY <1>13, <3>1, <3>2 DEF TypeOK, RetryReadAttempts
    <2> QED BY <1>13, <2>1, <2>2, StatementInv DEF RetryReadAttempts
  <1>14. ASSUME NEW r \in Requests, RetryReadApp(r) PROVE IInv'
    <2>1. \A q \in Requests \ {r} : req'[q] = req[q]
      BY <1>14 DEF TypeOK, RetryReadApp
    <2>2. Handler(r)'
      BY <1>14, <1>0, Fields DEF TypeOK, RetryReadApp, Handler, Retrying, RequestState
    <2> QED BY <1>14, <2>1, <2>2, StatementInv, NullAssumption, Fields DEF TypeOK, RetryReadApp, Free
  <1>15. ASSUME NEW r \in Requests, RetrySend(r) PROVE IInv'
    <2>1. PICK oc \in Outcomes \ {"none"} :
             /\ req' = [req EXCEPT ![r] = [@ EXCEPT !.pc = "lockSub", !.outcome = oc]]
             /\ LenderAnswers(r, oc)
      BY <1>15 DEF RetrySend
    <2>2. /\ req'[r] = [req[r] EXCEPT !.pc = "lockSub", !.outcome = oc]
          /\ \A q \in Requests \ {r} : req'[q] = req[q]
      BY <2>1 DEF TypeOK
    <2>3. /\ req'[r].pc = "lockSub" /\ req'[r].outcome = oc /\ req'[r].pair = req[r].pair
          /\ req'[r].seen = req[r].seen /\ req'[r].attempts = req[r].attempts
      BY <2>2, Fields DEF RequestState
    <2>4. /\ \A p \in Pairs : inbox'[p] >= inbox[p] /\ inbox'[p] \in Nat
          /\ oc = "accepted" => inbox'[req[r].pair] > 0
      BY <2>1, Fields DEF TypeOK, LenderAnswers
    <2>5. UNCHANGED << stage, appStatus, sub, retry, byHand, appLock, subLock >>
      BY <2>1 DEF LenderAnswers
    <2>6. Handler(r)'
      BY <1>15, <1>0, <2>3, <2>4, <2>5 DEF RetrySend, Handler, Retrying
    <2>7. ASSUME NEW q \in Requests \ {r} PROVE Handler(q)'
      BY <1>0, <2>2, <2>4, <2>5, Others
    <2>8. Rows'
      <3>1. RowFacts' /\ AttemptsBounded'
        BY <1>0, <2>5 DEF Rows, RowFacts, AttemptsBounded
      <3>2. \A a \in Apps : <<a, LenderOf[a]>> \in Pairs
        BY LenderOfAssumption DEF Pairs
      <3>3. SubmittedMeansDelivered'
        BY <1>0, <2>4, <2>5, <3>2 DEF TypeOK, Rows, SubmittedMeansDelivered
      <3> QED BY <3>1, <3>3 DEF Rows
    <2> QED BY <2>6, <2>7, <2>8, Join
  <1>16. ASSUME NEW r \in Requests, RetryLockSub(r) PROVE IInv'
    <2>1. \A q \in Requests \ {r} : req'[q] = req[q]
      BY <1>16 DEF TypeOK, RetryLockSub
    <2>2. Handler(r)'
      BY <1>16, <1>0, Fields DEF TypeOK, RetryLockSub, Handler, Retrying, RequestState
    <2> QED BY <1>16, <2>1, <2>2, StatementInv, NullAssumption, Fields DEF TypeOK, RetryLockSub, Free
  <1>17. ASSUME NEW r \in Requests, RetryReadStage(r) PROVE IInv'
    <2> DEFINE targets == TargetsAfter(req[r].outcome, req[r].seen)
               cur == stage[req[r].pair[1]]
    <2>1. CASE PathAllowed(cur, targets)
      <3>1. /\ req' = [req EXCEPT ![r] = [@ EXCEPT !.pc = "commit", !.seen = cur,
                                                   !.next = LastOf(targets)]]
            /\ UNCHANGED << dbVars, lockVars, inbox, byHand >>
        BY <1>17, <2>1 DEF RetryReadStage
      <3>2. /\ \A q \in Requests \ {r} : req'[q] = req[q]
            /\ req'[r].pc = "commit" /\ req'[r].pair = req[r].pair
            /\ req'[r].attempts = req[r].attempts /\ req'[r].outcome = req[r].outcome
        BY <3>1, Fields DEF TypeOK, RequestState
      <3>3. Handler(r)'
        BY <1>17, <1>0, <3>1, <3>2 DEF RetryReadStage, Handler, Retrying
      <3> QED BY <3>1, <3>2, <3>3, StatementInv
    <2>2. CASE ~PathAllowed(cur, targets)
      BY <1>17, <2>2, RollbackInv DEF RetryReadStage, Replies
    <2> QED BY <2>1, <2>2
  <1>18. ASSUME NEW r \in Requests, RetryCommit(r) PROVE IInv'
    <2> DEFINE p == req[r].pair
               oc == req[r].outcome
    <2>1. p \in Pairs /\ p[1] \in Apps /\ p[2] = LenderOf[p[1]] /\ sub[p].status # "none"
          /\ (oc = "accepted" => inbox[p] > 0) /\ req[r].attempts < MaxRetries
          /\ req[r].attempts \in Nat
      BY <1>18, <1>0, Fields DEF RetryCommit, SetRetry, Handler, Retrying
    <2>2. Reply(r, SubmissionStatus(oc)) /\ ReleaseLocks(r) /\ SubmissionStatus(oc) \in Replies
      BY <1>18 DEF RetryCommit, SetRetry, Replies, SubmissionStatus
    <2>3. Handler(r)'
      BY <2>2, EndOfRequest, Ended
    <2>4. /\ sub'[p].status = SubmissionStatus(oc)
          /\ retry'[p].attempts = req[r].attempts + 1
          /\ \A x \in Pairs \ {p} : sub'[x] = sub[x] /\ retry'[x] = retry[x]
          /\ \A a \in Apps \ {p[1]} : appStatus'[a] = appStatus[a]
          /\ oc # "accepted" => UNCHANGED appStatus
          /\ UNCHANGED << inbox, byHand >>
      BY <1>18, <2>1 DEF RetryCommit, SetRetry, TypeOK
    <2>5. ASSUME NEW q \in Requests \ {r} PROVE Handler(q)'
      <3>1. \A a \in Apps : appLock[a] = q => stage'[a] = stage[a]
        BY <1>18, <2>1, NullAssumption DEF RetryCommit, SetRetry, TypeOK, Free
      <3>2. \A x \in Pairs : /\ sub[x].status # "none" => sub'[x].status # "none"
                              /\ inbox'[x] >= inbox[x] /\ inbox'[x] \in Nat
        BY <2>1, <2>4 DEF TypeOK, SubmissionStatus
      <3>3. /\ req'[q] = req[q]
            /\ \A a \in Apps : appLock[a] = q => appLock'[a] = q
            /\ \A x \in Pairs : subLock[x] = q => subLock'[x] = q
        BY <2>2, EndOfRequest
      <3>4. req[q].pc \in {"send", "finish"} => req[q].pair # p
        BY <1>0, <2>1 DEF Handler
      <3> QED BY <1>0, <2>4, <3>1, <3>2, <3>3, <3>4, Fields DEF Handler
    <2>6. Rows'
      <3>1. RowFacts'
        BY <1>0, <2>1, <2>4 DEF Rows, RowFacts, SubmissionStatus
      <3>2. AttemptsBounded'
        BY <1>0, <2>1, <2>4, RetriesAssumption DEF Rows, AttemptsBounded
      <3>3. \A x \in Pairs : sub'[x].status = "submitted" => inbox'[x] > 0 \/ x \in byHand'
        BY <1>0, <2>1, <2>4 DEF Rows, SubmittedMeansDelivered, SubmissionStatus
      <3>4. p = << p[1], LenderOf[p[1]] >>
        BY <2>1 DEF Pairs
      <3>5. \A a \in Apps : appStatus'[a] = "SUBMITTED_TO_LENDER" => inbox'[<<a, LenderOf[a]>>] > 0
        BY <1>0, <2>1, <2>4, <3>4 DEF Rows, SubmittedMeansDelivered
      <3> QED BY <3>1, <3>2, <3>3, <3>5 DEF Rows, SubmittedMeansDelivered
    <2> QED BY <2>3, <2>5, <2>6, Join
  <1>19. ASSUME NEW r \in Requests, CancelRead(r) PROVE IInv'
    <2>1. \A q \in Requests \ {r} : req'[q] = req[q]
      BY <1>19 DEF TypeOK, CancelRead, Reply
    <2>2. Handler(r)'
      <3>1. CASE Reply(r, "error")
        BY <1>19, <3>1, IdleType, Ended DEF TypeOK, Reply, Replies
      <3>2. CASE /\ req' = [req EXCEPT ![r] = [@ EXCEPT !.pc = "cancelCommit", !.attempts = retry[req[r].pair].attempts]]
                 /\ sub[req[r].pair].status # "none"
        <4>1. req'[r] = [req[r] EXCEPT !.pc = "cancelCommit", !.attempts = retry[req[r].pair].attempts]
          BY <3>2 DEF TypeOK
        <4>2. /\ req'[r].pc = "cancelCommit" /\ req'[r].pair = req[r].pair
              /\ req'[r].outcome = req[r].outcome
              /\ req'[r].attempts = retry[req[r].pair].attempts
          BY <4>1, Fields DEF RequestState
        <4> QED
          BY <1>19, <1>0, <3>2, <4>2, Fields, RetriesAssumption
             DEF CancelRead, Handler, Retrying, Rows, AttemptsBounded
      <3> QED BY <1>19, <3>1, <3>2 DEF TypeOK, CancelRead
    <2> QED BY <1>19, <2>1, <2>2, StatementInv DEF CancelRead
  <1>20. ASSUME NEW r \in Requests, CancelCommit(r) PROVE IInv'
    <2> DEFINE p == req[r].pair
    <2>1. p \in Pairs /\ sub[p].status # "none" /\ req[r].attempts <= MaxRetries
      BY <1>20, <1>0, Fields DEF CancelCommit, SetRetry, Handler
    <2>2. Handler(r)' /\ \A q \in Requests \ {r} : req'[q] = req[q]
      BY <1>20, IdleType, Ended DEF CancelCommit, SetRetry, TypeOK, Reply, Replies
    <2>3. ASSUME NEW q \in Requests \ {r} PROVE Handler(q)'
      BY <1>20, <1>0, <2>2 DEF CancelCommit, SetRetry, Handler
    <2>4. /\ retry'[p].attempts = req[r].attempts
          /\ \A x \in Pairs \ {p} : retry'[x] = retry[x]
          /\ UNCHANGED << sub, inbox, byHand, appStatus >>
      BY <1>20, <2>1 DEF CancelCommit, SetRetry, TypeOK
    <2>5. Rows'
      BY <1>0, <2>1, <2>4 DEF Rows, RowFacts, AttemptsBounded, SubmittedMeansDelivered
    <2> QED BY <2>2, <2>3, <2>5, Join
  <1>21. ASSUME NEW r \in Requests, Crash(r) PROVE IInv'
    BY <1>21, RollbackInv DEF Crash, Replies
  <1>22. ASSUME NEW e \in BOOLEAN, SetKillSwitch(e) PROVE IInv'
    BY <1>22, <1>0, Join DEF SetKillSwitch, Rows, RowFacts, AttemptsBounded,
       SubmittedMeansDelivered, Handler
  <1>23. ASSUME NEW a \in StaffApps, NEW s \in Stages, StaffMove(a, s) PROVE IInv'
    <2>1. Rows'
      BY <1>23, <1>0 DEF StaffMove, Rows, RowFacts, AttemptsBounded, SubmittedMeansDelivered
    <2>2. ASSUME NEW q \in Requests PROVE Handler(q)'
      BY <1>23, <1>0, NullAssumption, StaffAssumption, Fields DEF StaffMove, Handler, TypeOK
    <2> QED BY <2>1, <2>2, Join
  <1>24. ASSUME NEW p \in StaffApps \X Lenders, PortalMarkSubmitted(p) PROVE IInv'
    <2>0. p \in Pairs
      BY StaffAssumption DEF Pairs
    <2>1. /\ sub'[p].status = "submitted"
          /\ \A x \in Pairs \ {p} : sub'[x] = sub[x]
          /\ byHand' = byHand \cup {p}
          /\ UNCHANGED << stage, appStatus, retry, inbox, appLock, subLock, req >>
      BY <1>24, <2>0 DEF PortalMarkSubmitted, TypeOK
    <2>2. Rows'
      BY <1>0, <2>0, <2>1 DEF Rows, RowFacts, AttemptsBounded, SubmittedMeansDelivered
    <2>3. ASSUME NEW q \in Requests PROVE Handler(q)'
      <3>1. req[q].pc \in {"send", "finish"} => req[q].pair # p
        BY <1>24, <1>0, NullAssumption DEF PortalMarkSubmitted, Handler
      <3> QED BY <1>0, <2>1, <3>1, Fields DEF Handler
    <2> QED BY <2>2, <2>3, Join
  <1>25. CASE UNCHANGED vars
    BY <1>25, <1>0, Join DEF vars, Rows, RowFacts, AttemptsBounded,
       SubmittedMeansDelivered, Handler
  <1> QED
    BY <1>1, <1>2, <1>3, <1>4, <1>5, <1>6, <1>7, <1>8, <1>9, <1>10, <1>11, <1>12, <1>13, <1>14, <1>15, <1>16, <1>17, <1>18, <1>19, <1>20, <1>21, <1>22, <1>23, <1>24, <1>25
       DEF Next, HandlerStep

LEMMA InvInit ==
  ASSUME Init
  PROVE  IInv
  <1>1. \A r \in Requests : req[r].pc = "idle" /\ req[r].outcome = "none"
    BY IdleType DEF Init, Replies
  <1>2. LocksHeld /\ HandlerFacts /\ SendOnlyUnrecorded /\ StageNotStaleInSubmit
    BY <1>1 DEF LocksHeld, HandlerFacts, SendOnlyUnrecorded, StageNotStaleInSubmit, Retrying
  <1>3. RowFacts /\ AttemptsBounded /\ SubmittedMeansDelivered
    BY RetriesAssumption
       DEF Init, NoRow, NoRetry, RowFacts, AttemptsBounded, SubmittedMeansDelivered
  <1> QED BY <1>2, <1>3 DEF IInv

\* The strengthened invariant holds in every behaviour.
THEOREM Invariance == Spec => []IInv
  <1>1. Init => IInv BY InvInit
  <1>2. TypeOK /\ IInv /\ [Next]_vars => IInv' BY InvStep
  <1> QED BY <1>1, <1>2, TypeCorrect, PTL DEF Spec

\* For any number of handlers, applications and retries: what is recorded as
\* submitted was received by the lender or marked by hand.
THEOREM RecordsAreTrue == Spec => []SubmittedMeansDelivered
  <1>1. IInv => SubmittedMeansDelivered BY DEF IInv
  <1> QED BY <1>1, Invariance, PTL

\* The locks of submitApplication hold across the call to the lender.
THEOREM SendIsExclusive == Spec => []SendIsIsolated
  <1>1. IInv => SendIsIsolated BY DEF IInv, SendIsIsolated
  <1> QED BY <1>1, Invariance, PTL

\* The recorded attempts respect config.lender.retry.maxCount.
THEOREM RetryLimit == Spec => []AttemptsBounded
  <1>1. IInv => AttemptsBounded BY DEF IInv
  <1> QED BY <1>1, Invariance, PTL

\* The three together, as the runs check them: the rows tell the truth for any
\* number of handlers, applications, lenders and retries.
THEOREM RowsStayTrue == Spec => []RowsAreTrue
  <1>1. TypeOK /\ IInv => RowsAreTrue BY DEF IInv, RowsAreTrue
  <1> QED BY <1>1, TypeCorrect, Invariance, PTL
\* KeySpentOnce, pair by pair: what two rows, two sends, or a row and a send
\* with one key have to do with one another.
Sending(r) == req[r].pc \in {"send", "finish"}

Spent(p, k) == sub[p].status # "none" /\ sub[p].key = k

KeyFacts == \A k \in Keys :
  /\ \A p, q \in Pairs : Spent(p, k) /\ Spent(q, k) => p = q
  /\ \A r, s \in Requests : Sending(r) /\ Sending(s) /\ req[r].key = k /\ req[s].key = k => r = s
  /\ \A p \in Pairs, r \in Requests : ~(Spent(p, k) /\ Sending(r) /\ req[r].key = k)

LEMMA KeysBothWays == (KeySpentOnce <=> KeyFacts) /\ (KeySpentOnce' <=> KeyFacts')
  BY DEF KeySpentOnce, KeyFacts, Sending, Spent

\* A step that spends no key and starts no send.
LEMMA KeysUntouched ==
  ASSUME KeyFacts,
         \A p \in Pairs, k \in Keys : Spent(p, k)' => Spent(p, k),
         \A r \in Requests : Sending(r)' => Sending(r) /\ req'[r].key = req[r].key
  PROVE  KeyFacts'
  BY DEF KeyFacts

\* A handler that ends, or goes on to another statement than the send.
LEMMA NoNewSend ==
  ASSUME TypeOK, NEW r \in Requests,
         \/ \E what \in Replies : Reply(r, what)
         \/ /\ \A q \in Requests \ {r} : req'[q] = req[q]
            /\ req'[r].key = req[r].key /\ (Sending(r)' => Sending(r))
  PROVE  \A q \in Requests : Sending(q)' => Sending(q) /\ req'[q].key = req[q].key
  <1>1. ASSUME NEW what \in Replies, Reply(r, what)
        PROVE  req'[r].pc = "idle" /\ \A q \in Requests \ {r} : req'[q] = req[q]
    BY <1>1, IdleType DEF Reply, TypeOK
  <1> QED BY <1>1 DEF Sending

\* The row a handler writes with its key, in the step that ends it.
LEMMA KeyRecorded ==
  ASSUME KeyFacts, TypeOK, NEW r \in Requests, NEW what \in Replies, Reply(r, what),
         NEW row, sub' = [sub EXCEPT ![req[r].pair] = row],
         row.key = req[r].key,
         row.key \in Keys =>
           /\ \A q \in Pairs : ~Spent(q, row.key)
           /\ \A q \in Requests \ {r} : ~(Sending(q) /\ req[q].key = row.key)
  PROVE  KeyFacts'
  <1>1. req'[r].pc = "idle" /\ \A q \in Requests \ {r} : req'[q] = req[q]
    BY IdleType DEF Reply, TypeOK
  <1>2. ~Sending(r)' /\ \A q \in Requests : Sending(q)' => q # r /\ Sending(q) /\ req'[q].key = req[q].key
    BY <1>1 DEF Sending
  <1>3. req[r].pair \in Pairs
    BY Fields
  <1>4. sub'[req[r].pair] = row /\ \A q \in Pairs \ {req[r].pair} : sub'[q] = sub[q]
    BY <1>3 DEF TypeOK
  <1>5. \A q \in Pairs, k \in Keys : Spent(q, k)' => (q = req[r].pair /\ row.key = k) \/ Spent(q, k)
    BY <1>4 DEF Spent
  <1> QED BY <1>2, <1>5 DEF KeyFacts

\* Every step keeps the keys apart: only the insert, and the two ends of a
\* submit that write its row, need the unique indexes.
LEMMA KeyStep ==
  ASSUME TypeOK, IInv, KeyFacts, [Next]_vars
  PROVE  KeyFacts'
  <1> USE DEF dbVars, lockVars
  <1>a. "none" \in Replies /\ "blocked" \in Replies /\ "error" \in Replies /\ "idempotent" \in Replies
        /\ "failed" \in Replies /\ "submitted" \in Replies /\ "already_submitted" \in Replies
        /\ "canceled" \in Replies
    BY DEF Replies
  <1>b. \A x \in Replies : Idle(x) \in RequestState /\ Idle(x).pc = "idle"
    BY IdleType
  <1>1. ASSUME NEW r \in Requests, NEW p \in Pairs, NEW k \in Keys \cup {NoKey},
               SubmitStart(r, p, k) \/ RetryStart(r, p) \/ CancelStart(r, p)
        PROVE  KeyFacts'
    <2>1. /\ sub' = sub
          /\ \A q \in Requests \ {r} : req'[q] = req[q]
          /\ ~Sending(r)'
      <3>1. \A x \in Replies : Reply(r, x) =>
              req'[r].pc = "idle" /\ \A q \in Requests \ {r} : req'[q] = req[q]
        BY <1>b DEF Reply, TypeOK
      <3>2. /\ sub' = sub
            /\ req'[r].pc \in {"idle", "advisory", "read", "cancelRead"}
            /\ \A q \in Requests \ {r} : req'[q] = req[q]
        <4>1. CASE SubmitStart(r, p, k)
          <5> DEFINE started == [Idle("none") EXCEPT !.pc = "advisory", !.pair = p, !.key = k]
          <5>1. started.pc = "advisory" BY <1>a, <1>b DEF RequestState
          <5>2. sub' = sub /\ (Reply(r, "blocked") \/ req' = [req EXCEPT ![r] = started])
            BY <4>1 DEF SubmitStart
          <5> HIDE DEF started
          <5> QED BY <5>1, <5>2, <3>1, <1>a DEF TypeOK
        <4>2. CASE RetryStart(r, p)
          <5> DEFINE started == [Idle("none") EXCEPT !.pc = "read", !.pair = p]
          <5>1. started.pc = "read" BY <1>a, <1>b DEF RequestState
          <5>2. sub' = sub /\ (Reply(r, "blocked") \/ req' = [req EXCEPT ![r] = started])
            BY <4>2 DEF RetryStart
          <5> HIDE DEF started
          <5> QED BY <5>1, <5>2, <3>1, <1>a DEF TypeOK
        <4>3. CASE CancelStart(r, p)
          <5> DEFINE started == [Idle("none") EXCEPT !.pc = "cancelRead", !.pair = p]
          <5>1. started.pc = "cancelRead" BY <1>a, <1>b DEF RequestState
          <5>2. sub' = sub /\ req' = [req EXCEPT ![r] = started]
            BY <4>3 DEF CancelStart
          <5> HIDE DEF started
          <5> QED BY <5>1, <5>2 DEF TypeOK
        <4> QED BY <1>1, <4>1, <4>2, <4>3
      <3> QED BY <3>2 DEF Sending
    <2> QED BY <2>1, KeysUntouched DEF Sending, Spent
  <1>2. ASSUME NEW r \in Requests,
               \/ SubmitAdvisory(r) \/ SubmitRowLock(r) \/ SubmitSend(r)
               \/ RetryReadApp(r) \/ RetrySend(r) \/ RetryLockSub(r)
        PROVE  KeyFacts'
    <2>1. /\ sub' = sub /\ req'[r].key = req[r].key /\ (Sending(r)' => Sending(r))
          /\ \A q \in Requests \ {r} : req'[q] = req[q]
      <3>1. CASE SubmitAdvisory(r)
        BY <3>1 DEF SubmitAdvisory, TypeOK, RequestState, Sending
      <3>4. CASE SubmitRowLock(r)
        BY <3>4 DEF SubmitRowLock, TypeOK, RequestState, Sending
      <3>5. CASE RetryReadApp(r)
        BY <3>5 DEF RetryReadApp, TypeOK, RequestState, Sending
      <3>6. CASE RetryLockSub(r)
        BY <3>6 DEF RetryLockSub, TypeOK, RequestState, Sending
      <3>2. CASE SubmitSend(r)
        BY <3>2 DEF SubmitSend, LenderAnswers, TypeOK, RequestState, Sending
      <3>3. CASE RetrySend(r)
        BY <3>3 DEF RetrySend, LenderAnswers, TypeOK, RequestState, Sending
      <3> QED BY <1>2, <3>1, <3>2, <3>3, <3>4, <3>5, <3>6
    <2> QED BY <2>1, NoNewSend, KeysUntouched DEF Spent
  <1>3. ASSUME NEW r \in Requests,
               \/ SubmitLookup(r) \/ RetryRead(r) \/ RetryReadAttempts(r)
               \/ RetryReadStage(r) \/ CancelRead(r)
        PROVE  KeyFacts'
    <2>1. /\ sub' = sub
          /\ \/ \E what \in Replies : Reply(r, what)
             \/ /\ \A q \in Requests \ {r} : req'[q] = req[q]
                /\ req'[r].key = req[r].key /\ ~Sending(r)'
      <3>1. ASSUME NEW what \in Replies, Reply(r, what)
            PROVE  \E w \in Replies : Reply(r, w)
        BY <3>1
      <3>2. CASE SubmitLookup(r)
        <4>1. sub' = sub /\ (Reply(r, "idempotent") \/ req' = [req EXCEPT ![r].pc = "insert"])
          BY <3>2 DEF SubmitLookup
        <4>2. CASE req' = [req EXCEPT ![r].pc = "insert"]
          BY <4>1, <4>2 DEF TypeOK, RequestState, Sending
        <4> QED BY <4>1, <4>2, <3>1, <1>a
      <3>3. CASE RetryRead(r)
        BY <3>1, <3>3, <1>a DEF RetryRead, TypeOK, RequestState, Sending
      <3>4. CASE RetryReadAttempts(r)
        <4> DEFINE n == retry[req[r].pair].attempts
        <4>1. sub' = sub /\ (Reply(r, "error") \/
                req' = [req EXCEPT ![r] = [@ EXCEPT !.pc = "readApp", !.attempts = n]])
          BY <3>4 DEF RetryReadAttempts
        <4> HIDE DEF n
        <4>2. CASE req' = [req EXCEPT ![r] = [@ EXCEPT !.pc = "readApp", !.attempts = n]]
          BY <4>1, <4>2 DEF TypeOK, RequestState, Sending
        <4> QED BY <4>1, <4>2, <3>1, <1>a
      <3>5. CASE RetryReadStage(r)
        <4> DEFINE target == LastOf(TargetsAfter(req[r].outcome, req[r].seen))
                   cur == stage[req[r].pair[1]]
        <4>1. sub' = sub /\ (Reply(r, "error") \/
                req' = [req EXCEPT ![r] = [@ EXCEPT !.pc = "commit", !.seen = cur, !.next = target]])
          BY <3>5 DEF RetryReadStage, Rollback
        <4> HIDE DEF target, cur
        <4>2. CASE req' = [req EXCEPT ![r] = [@ EXCEPT !.pc = "commit", !.seen = cur, !.next = target]]
          BY <4>1, <4>2 DEF TypeOK, RequestState, Sending
        <4> QED BY <4>1, <4>2, <3>1, <1>a
      <3>6. CASE CancelRead(r)
        <4> DEFINE n == retry[req[r].pair].attempts
        <4>1. sub' = sub /\ (Reply(r, "error") \/
                req' = [req EXCEPT ![r] = [@ EXCEPT !.pc = "cancelCommit", !.attempts = n]])
          BY <3>6 DEF CancelRead
        <4> HIDE DEF n
        <4>2. CASE req' = [req EXCEPT ![r] = [@ EXCEPT !.pc = "cancelCommit", !.attempts = n]]
          BY <4>1, <4>2 DEF TypeOK, RequestState, Sending
        <4> QED BY <4>1, <4>2, <3>1, <1>a
      <3> QED BY <1>3, <3>2, <3>3, <3>4, <3>5, <3>6
    <2> QED BY <2>1, NoNewSend, KeysUntouched DEF Spent
  <1>4. ASSUME NEW r \in Requests, SubmitRefused(r) \/ CancelCommit(r) \/ Crash(r)
        PROVE  KeyFacts'
    <2>1. sub' = sub /\ \E what \in Replies : Reply(r, what)
      BY <1>4, <1>a DEF SubmitRefused, CancelCommit, SetRetry, Crash, Rollback
    <2> QED BY <2>1, NoNewSend, KeysUntouched DEF Spent
  <1>5. ASSUME NEW r \in Requests, SubmitInsert(r) \/ SubmitMissingDocuments(r)
        PROVE  KeyFacts'
    <2>1. InsertFree(r) /\ ~DuplicateRow(r) /\ req[r].pair \in Pairs /\ NoKey \notin Keys
      BY <1>5, Fields, NullAssumption DEF SubmitInsert, SubmitMissingDocuments, CountFailure, SetRetry
    <2>2. req[r].key \in Keys =>
            /\ \A q \in Pairs : ~Spent(q, req[r].key)
            /\ \A q \in Requests \ {r} : ~(Sending(q) /\ req[q].key = req[r].key)
      BY <2>1 DEF InsertFree, DuplicateRow, Spent, Sending
    <2>3. CASE SubmitInsert(r)
      <3>1. sub' = sub /\ req'[r].key = req[r].key /\ \A q \in Requests \ {r} : req'[q] = req[q]
        BY <2>3 DEF SubmitInsert, TypeOK, RequestState
      <3>2. \A q \in Pairs, k \in Keys : Spent(q, k)' <=> Spent(q, k)
        BY <3>1 DEF Spent
      <3>3. \A q \in Requests : Sending(q)' => (q = r \/ Sending(q)) /\ req'[q].key = req[q].key
        BY <3>1 DEF Sending
      <3> QED BY <2>2, <3>2, <3>3 DEF KeyFacts
    <2>4. CASE SubmitMissingDocuments(r)
      <3> DEFINE row == [status |-> "failed", key |-> req[r].key]
      <3>1. sub' = [sub EXCEPT ![req[r].pair] = row] /\ Reply(r, "failed") /\ row.key = req[r].key
        BY <2>4 DEF SubmitMissingDocuments, CountFailure, SetRetry
      <3> HIDE DEF row
      <3> QED BY <3>1, <2>2, <1>a, KeyRecorded
    <2> QED BY <1>5, <2>3, <2>4
  <1>6. ASSUME NEW r \in Requests, SubmitFinish(r)
        PROVE  KeyFacts'
    <2>1. Sending(r)
      BY <1>6 DEF SubmitFinish, CountFailure, SetRetry, Sending
    <2>2. CASE sub' = sub /\ Reply(r, "error")
      BY <2>2, <1>a, NoNewSend, KeysUntouched DEF Spent
    <2> DEFINE status == SubmissionStatus(req[r].outcome)
               row == [status |-> status, key |-> req[r].key]
    <2>3. CASE sub' = [sub EXCEPT ![req[r].pair] = row] /\ Reply(r, status)
      <3>1. status \in Replies /\ row.key = req[r].key
        BY <1>a DEF SubmissionStatus
      <3>2. req[r].key \in Keys =>
              /\ \A q \in Pairs : ~Spent(q, req[r].key)
              /\ \A q \in Requests \ {r} : ~(Sending(q) /\ req[q].key = req[r].key)
        BY <2>1 DEF KeyFacts
      <3> HIDE DEF status, row
      <3> QED BY <2>3, <3>1, <3>2, KeyRecorded
    <2> QED BY <1>6, <2>2, <2>3 DEF SubmitFinish, CountFailure, SetRetry, Rollback
  <1>7. ASSUME NEW r \in Requests, RetryCommit(r)
        PROVE  KeyFacts'
    <2>1. sub[req[r].pair].status # "none" /\ req[r].pair \in Pairs
      BY <1>7, Fields, Split DEF RetryCommit, SetRetry, Handler, Retrying
    <2>2. \A q \in Pairs, k \in Keys : Spent(q, k)' => Spent(q, k)
      BY <1>7, <2>1 DEF RetryCommit, SetRetry, TypeOK, Spent
    <2>3. \E what \in Replies : Reply(r, what)
      BY <1>7, <1>a DEF RetryCommit, SetRetry, SubmissionStatus
    <2> QED BY <2>2, <2>3, NoNewSend, KeysUntouched
  <1>8. ASSUME NEW p \in StaffApps \X Lenders, PortalMarkSubmitted(p)
        PROVE  KeyFacts'
    <2>1. p \in Pairs /\ NoKey \notin Keys /\ req' = req
      BY <1>8, StaffAssumption, NullAssumption DEF Pairs, PortalMarkSubmitted
    <2>2. sub[p].status = "none" => sub[p].key = NoKey
      BY <2>1 DEF IInv, RowFacts
    <2>3. \A q \in Pairs, k \in Keys : Spent(q, k)' => Spent(q, k)
      BY <1>8, <2>1, <2>2 DEF PortalMarkSubmitted, TypeOK, Spent
    <2> QED BY <2>1, <2>3, KeysUntouched DEF Sending
  <1>9. ASSUME sub' = sub, req' = req
        PROVE  KeyFacts'
    BY <1>9, KeysUntouched DEF Sending, Spent
  <1> QED
    BY <1>1, <1>2, <1>3, <1>4, <1>5, <1>6, <1>7, <1>8, <1>9
    DEF Next, HandlerStep, SetKillSwitch, StaffMove, vars

\* For any number of requests, applications and keys: a key is spent once.
THEOREM KeyIsSpentOnce == Spec => []KeySpentOnce
  <1>1. Init => KeyFacts
    BY IdleType DEF Init, KeyFacts, NoRow, Spent, Sending, Replies
  <1>2. TypeOK /\ IInv /\ KeyFacts /\ [Next]_vars => KeyFacts'
    BY KeyStep
  <1>3. KeyFacts => KeySpentOnce
    BY KeysBothWays
  <1> QED BY <1>1, <1>2, <1>3, TypeCorrect, Invariance, PTL DEF Spec
=============================================================================
