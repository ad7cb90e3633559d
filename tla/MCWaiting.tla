----------------------------- MODULE MCWaiting ------------------------------
(* Three places where processes wait for one another or for time: submissions  *)
(* of two applications with one idempotency key, servers that migrate under    *)
(* the advisory lock, and the banking worker between its attempts.  A          *)
(* behaviour picks one of them at the start, and the others stay as they began.*)
EXTENDS LenderTransmission, SchemaMigrations, BankingAnalysis, TLC

CONSTANTS r1, r2, a1, a2, l1, l2, k1, s1, s2

VARIABLE picked

TwoApps == (a1 :> l1) @@ (a2 :> l2)

\* A file that creates a table bare, one that ensures two, one that the
\* command-line runner sorts before the second.
ServerOrderMC == <<"f1", "f2", "f3">>
CliOrderMC    == <<"f1", "f3", "f2">>
CreatesMC     == [f1 |-> {"a"}, f2 |-> {}, f3 |-> {"c"}]
EnsuresMC     == [f1 |-> {"b"}, f2 |-> {"b"}, f3 |-> {}]

-----------------------------------------------------------------------------
\* What is not picked starts from one of its initial states.
WaitingInit ==
  /\ picked \in {"submissions", "migrations", "banking"}
  /\ Init /\ MigInit /\ BankInit
  /\ picked # "submissions" => \A a \in Apps : stage[a] = InReview
  /\ picked # "migrations" => schema = {}

Submissions(A) == picked = "submissions" /\ A /\ UNCHANGED <<picked, migVars, bankVars>>
Migrations(A)  == picked = "migrations" /\ A /\ UNCHANGED <<picked, vars, bankVars>>
Banking(A)     == picked = "banking" /\ A /\ UNCHANGED <<picked, vars, migVars>>

WaitingNext == Submissions(Next) \/ Migrations(MigNext) \/ Banking(BankNext)

waitingVars == <<picked, vars, migVars, bankVars>>

\* A request or server whose process lives takes its next statement; the worker
\* polls every interval, its backoff passes, and a pipeline goes on, started by
\* the worker or by staff.
WaitingFairness ==
  /\ \A r \in Requests : WF_waitingVars(Submissions(HandlerStep(r)))
  /\ \A s \in Servers : WF_waitingVars(Migrations(ServerStep(s)))
  /\ WF_waitingVars(Banking(BackoffEnds))
  /\ \A r \in BankRunners : WF_waitingVars(Banking(PipelineStep(r) \/ BankingFails(r)))
  /\ WF_waitingVars(Banking(\E w \in BankWorkers : PollBanking(w)))

WaitingSpec == WaitingInit /\ [][WaitingNext]_waitingVars /\ WaitingFairness

=============================================================================
