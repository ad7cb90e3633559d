---------------------------- MODULE AccessProofs ----------------------------
(*****************************************************************************)
(* Who gets in, what is carried out once, and how the server starts: sign-in *)
(* and sessions, offline replay, idempotency keys, push subscriptions,       *)
(* operations, the migration history, and what a loan product asks for, each *)
(* for any values of its constants.  Each service has an inductive invariant *)
(* of its own; the theorems about the run of all services are at the end.    *)
(*****************************************************************************)
EXTENDS MCServices, SchemaMigrations, FiniteSetTheorems, SequenceTheorems,
        WellFoundedInduction, TLAPS

\* The variables of the run.
servicesVars == <<part, authVars, catVars, matchVars, reqVars, syncVars, httpVars, pushVars, noticeVars,
                  intakeVars, docVars, callVars, commVars, creditVars, opsVars, officeVars, bankVars>>

-----------------------------------------------------------------------------
(* The migration history.                                                    *)

\* Only a server that holds the lock is inside the loop over the files.
LoopHoldsLock == \A s \in Servers : srv[s].pc = "apply" => migLock = s

\* A server in the loop found or made the tracking table; if it has the key,
\* every file the server takes as applied is recorded.
ServerKnows == \A s \in Servers :
    srv[s].pc = "apply" =>
        /\ tracking # "none"
        /\ tracking = "keyed" => srv[s].applied \subseteq RecordedFiles

CliKnows == cli.pc = "apply" => tracking # "none" /\ cli.applied \subseteq RecordedFiles

\* What a kind of runner built is recorded, and a runner in its loop knows it.
BuiltIsKnown == \A f \in MigFiles :
    /\ built[f].server > 0 \/ built[f].cli > 0 => recorded[f] > 0
    /\ \A s \in Servers : srv[s].pc = "apply" /\ built[f].server > 0 => f \in srv[s].applied
    /\ cli.pc = "apply" /\ built[f].cli > 0 => f \in cli.applied

MInv == MigTypeOK /\ LoopHoldsLock /\ ServerKnows /\ CliKnows /\ BuiltIsKnown /\ BuiltOncePerRunner

-----------------------------------------------------------------------------
(* Types *)

LEMMA TypeInitially == MigInit => MigTypeOK
  <1> SUFFICES ASSUME MigInit PROVE MigTypeOK
    OBVIOUS
  <1>1. migLock \in Runners /\ schema \subseteq AllObjects /\ starts \in [Runners -> 0..MaxStarts]
    BY MigAssumption DEF MigInit, Runners
  <1>2. recorded \in [MigFiles -> Nat] /\ built \in [MigFiles -> [server: Nat, cli: Nat]]
    BY DEF MigInit
  <1>3. /\ srv \in [Servers -> [pc: {"down", "lock", "apply", "verify", "boot", "ready", "unready"},
                               applied: SUBSET MigFiles]]
        /\ cli \in [pc: {"down", "apply", "seed", "count", "lender", "products"}, applied: SUBSET MigFiles]
    BY DEF MigInit, Nowhere
  <1> QED BY <1>1, <1>2, <1>3 DEF MigInit, MigTypeOK

LEMMA TypeKept == MigTypeOK /\ [MigNext]_migVars => MigTypeOK'
  <1> SUFFICES ASSUME MigTypeOK, [MigNext]_migVars PROVE MigTypeOK'
    OBVIOUS
  <1> USE MigAssumption DEF MigTypeOK
  <1>1. ASSUME NEW s \in Servers, StartServer(s) PROVE MigTypeOK'
    BY <1>1 DEF StartServer, Runners
  <1>2. ASSUME NEW s \in Servers, LockAndList(s) PROVE MigTypeOK'
    BY <1>2 DEF LockAndList, Runners, RecordedFiles
  <1>3. ASSUME NEW s \in Servers, MigrateServer(s) PROVE MigTypeOK'
    <2>1. PICK f \in MigFiles : ApplyFile(s, f) \/ SkipFile(s, f) \/ Fatal(s, f)
      BY <1>3 DEF MigrateServer
    <2>2. CASE ApplyFile(s, f)
      <3>1. Objects(f) \subseteq AllObjects BY DEF AllObjects
      <3> QED BY <1>3, <2>2, <3>1 DEF MigrateServer, ApplyFile, Upserted
    <2>3. CASE SkipFile(s, f)
      BY <1>3, <2>3 DEF MigrateServer, SkipFile, Upserted
    <2>4. CASE Fatal(s, f)
      BY <1>3, <2>4 DEF MigrateServer, Fatal, Nowhere, Released, Runners
    <2> QED BY <2>1, <2>2, <2>3, <2>4
  <1>4. ASSUME NEW s \in Servers, UnlockServer(s) PROVE MigTypeOK'
    BY <1>4 DEF UnlockServer, Released, Runners
  <1>5. ASSUME NEW s \in Servers, VerifyRequiredTables(s) PROVE MigTypeOK'
    BY <1>5 DEF VerifyRequiredTables, Nowhere
  <1>6. ASSUME NEW s \in Servers, BootServer(s) PROVE MigTypeOK'
    BY <1>6 DEF BootServer
  <1>7. ASSUME NEW s \in Servers, LockTimesOut(s) PROVE MigTypeOK'
    BY <1>7 DEF LockTimesOut, Nowhere
  <1>8. ASSUME NEW s \in Servers, LoseDatabase(s) PROVE MigTypeOK'
    BY <1>8 DEF LoseDatabase
  <1>9. ASSUME NEW s \in Servers, CrashServer(s) PROVE MigTypeOK'
    BY <1>9 DEF CrashServer, Nowhere, Released, Runners
  <1>10. CASE StartCli
    BY <1>10 DEF StartCli, Runners, RecordedFiles
  <1>11. CASE MigrateCli
    <2>1. ASSUME NEW f \in MigFiles, CliApply(f) PROVE MigTypeOK'
      <3>1. Objects(f) \subseteq AllObjects BY DEF AllObjects
      <3> QED BY <1>11, <2>1, <3>1 DEF MigrateCli, CliApply
    <2>2. CASE CliFails
      BY <1>11, <2>2 DEF MigrateCli, CliFails, Nowhere
    <2> QED BY <1>11, <2>1, <2>2 DEF MigrateCli
  <1>12. CASE CliMigrated
    BY <1>12 DEF CliMigrated, Nowhere
  <1>13. CASE SeedAdmins
    BY <1>13 DEF SeedAdmins
  <1>14. CASE SeedBaselineLenders
    BY <1>14 DEF SeedBaselineLenders, Nowhere
  <1>15. CASE CrashCli
    BY <1>15 DEF CrashCli, Nowhere
  <1>16. CASE UNCHANGED migVars
    BY <1>16 DEF migVars
  <1> QED
    BY <1>1, <1>2, <1>3, <1>4, <1>5, <1>6, <1>7, <1>8, <1>9, <1>10, <1>11,
       <1>12, <1>13, <1>14, <1>15, <1>16 DEF MigNext, ServerStep

-----------------------------------------------------------------------------
(* The strengthened invariant *)

LEMMA InvInitially == MigInit => MInv
  BY TypeInitially DEF MigInit, MInv, LoopHoldsLock, ServerKnows, CliKnows,
     BuiltIsKnown, BuiltOncePerRunner, Nowhere, MigTypeOK

\* A recorded file stays recorded when one is added.
LEMMA RecordingGrows ==
  ASSUME MigTypeOK, NEW f \in MigFiles,
         recorded' = Upserted(f) \/ recorded' = [recorded EXCEPT ![f] = @ + 1]
  PROVE  RecordedFiles' = RecordedFiles \union {f}
  <1> USE DEF MigTypeOK
  <1>1. \A g \in MigFiles : recorded'[g] > 0 <=> (g = f \/ recorded[g] > 0)
    BY DEF Upserted
  <1> QED BY <1>1 DEF RecordedFiles

\* What a runner's step in its loop does not touch.
LEMMA InvKept == MInv /\ MigTypeOK' /\ [MigNext]_migVars => MInv'
  <1> SUFFICES ASSUME MInv, MigTypeOK', [MigNext]_migVars PROVE MInv'
    OBVIOUS
  <1> USE DEF MInv, LoopHoldsLock, ServerKnows, CliKnows, BuiltIsKnown, BuiltOncePerRunner
  <1>t. MigTypeOK OBVIOUS
  <1>1. ASSUME NEW s \in Servers, StartServer(s) PROVE MInv'
    BY <1>1 DEF StartServer, MigTypeOK, RecordedFiles
  <1>2. ASSUME NEW s \in Servers, LockAndList(s) PROVE MInv'
    <2>1. LoopHoldsLock'
      BY <1>2, MigAssumption DEF LockAndList, MigTypeOK
    <2>2. ServerKnows' /\ CliKnows'
      BY <1>2 DEF LockAndList, MigTypeOK, RecordedFiles
    <2>3. BuiltIsKnown' /\ BuiltOncePerRunner'
      BY <1>2 DEF LockAndList, MigTypeOK, RecordedFiles
    <2> QED BY <2>1, <2>2, <2>3
  <1>3. ASSUME NEW s \in Servers, MigrateServer(s) PROVE MInv'
    <2>1. PICK f \in MigFiles :
            NextFile(ServerOrder, srv[s].applied, f) /\ (ApplyFile(s, f) \/ SkipFile(s, f) \/ Fatal(s, f))
      BY <1>3 DEF MigrateServer
    <2>2. srv[s].pc = "apply" /\ f \notin srv[s].applied /\ migLock = s
      BY <1>3, <2>1 DEF MigrateServer, NextFile
    <2>3. UNCHANGED <<tracking, cli>>
      BY <1>3 DEF MigrateServer
    <2>4. CASE ApplyFile(s, f)
      <3>1. RecordedFiles' = RecordedFiles \union {f}
        BY <2>4, <1>t, RecordingGrows DEF ApplyFile
      <3>2. /\ migLock' = migLock
            /\ srv' = [srv EXCEPT ![s].applied = @ \union {f}]
            /\ built' = [built EXCEPT ![f].server = @ + 1]
        BY <2>4 DEF ApplyFile
      <3>3. \A r \in Servers : r # s => srv[r].pc # "apply"
        BY <2>2
      <3>4. built[f].server = 0
        BY <2>2, <1>t DEF MigTypeOK
      <3>5. LoopHoldsLock' /\ ServerKnows' /\ CliKnows'
        BY <3>1, <3>2, <3>3, <2>2, <2>3, <1>t DEF MigTypeOK
      <3>6. /\ \A g \in MigFiles : g # f => built'[g] = built[g]
            /\ built'[f].server = 1 /\ built'[f].cli = built[f].cli
        BY <3>2, <3>4, <1>t DEF MigTypeOK
      <3>7. BuiltOncePerRunner'
        BY <3>6
      <3>8. BuiltIsKnown'
        <4>1. \A g \in MigFiles : g \in RecordedFiles' <=> recorded'[g] > 0
          BY DEF RecordedFiles
        <4>2. \A g \in MigFiles : g \in RecordedFiles <=> recorded[g] > 0
          BY DEF RecordedFiles
        <4>3. \A r \in Servers : srv'[r].pc = "apply" =>
                r = s /\ srv'[r].applied = srv[s].applied \union {f}
          BY <3>2, <3>3, <1>t DEF MigTypeOK
        <4> QED BY <3>1, <3>6, <4>1, <4>2, <4>3, <2>2, <2>3
      <3> QED BY <3>5, <3>7, <3>8
    <2>5. CASE SkipFile(s, f)
      <3>1. /\ migLock' = migLock /\ built' = built
            /\ srv' = [srv EXCEPT ![s].applied = @ \union {f}]
            /\ RecordedFiles \subseteq RecordedFiles'
            /\ tracking = "keyed" => f \in RecordedFiles'
        <4>1. tracking = "keyed" => RecordedFiles' = RecordedFiles \union {f}
          BY <2>5, <1>t, RecordingGrows DEF SkipFile
        <4>2. tracking # "keyed" => RecordedFiles' = RecordedFiles
          BY <2>5 DEF SkipFile, RecordedFiles
        <4> QED BY <2>5, <4>1, <4>2 DEF SkipFile
      <3>2. LoopHoldsLock' /\ ServerKnows' /\ CliKnows'
        BY <3>1, <2>2, <2>3, <1>t DEF MigTypeOK
      <3>3. BuiltIsKnown' /\ BuiltOncePerRunner'
        <4>1. \A g \in MigFiles : recorded[g] > 0 => recorded'[g] > 0
          BY <3>1 DEF RecordedFiles
        <4> QED BY <3>1, <4>1, <2>2, <2>3, <1>t DEF MigTypeOK
      <3> QED BY <3>2, <3>3
    <2>6. CASE Fatal(s, f)
      BY <2>6, <2>2, <2>3, <1>t DEF Fatal, Released, Nowhere, MigTypeOK, RecordedFiles
    <2> QED BY <2>1, <2>4, <2>5, <2>6
  <1>4. ASSUME NEW s \in Servers, UnlockServer(s) PROVE MInv'
    BY <1>4, <1>t, MigAssumption DEF UnlockServer, Released, MigTypeOK, RecordedFiles
  <1>5. ASSUME NEW s \in Servers, VerifyRequiredTables(s) PROVE MInv'
    BY <1>5, <1>t DEF VerifyRequiredTables, Nowhere, MigTypeOK, RecordedFiles
  <1>6. ASSUME NEW s \in Servers, BootServer(s) PROVE MInv'
    BY <1>6, <1>t DEF BootServer, MigTypeOK, RecordedFiles
  <1>7. ASSUME NEW s \in Servers, LockTimesOut(s) PROVE MInv'
    BY <1>7, <1>t DEF LockTimesOut, Nowhere, MigTypeOK, RecordedFiles
  <1>8. ASSUME NEW s \in Servers, LoseDatabase(s) PROVE MInv'
    BY <1>8, <1>t DEF LoseDatabase, MigTypeOK, RecordedFiles
  <1>9. ASSUME NEW s \in Servers, CrashServer(s) PROVE MInv'
    BY <1>9, <1>t DEF CrashServer, Nowhere, Released, MigTypeOK, RecordedFiles
  <1>10. CASE StartCli
    BY <1>10, <1>t DEF StartCli, MigTypeOK, RecordedFiles
  <1>11. CASE MigrateCli
    <2>0. cli.pc = "apply" /\ UNCHANGED <<migLock, tracking, srv>>
      BY <1>11 DEF MigrateCli
    <2>1. ASSUME NEW f \in MigFiles, NextFile(CliOrder, cli.applied, f), CliApply(f) PROVE MInv'
      <3>1. RecordedFiles' = RecordedFiles \union {f}
        BY <2>1, <1>t, RecordingGrows DEF CliApply
      <3>2. /\ cli' = [cli EXCEPT !.applied = @ \union {f}]
            /\ built' = [built EXCEPT ![f].cli = @ + 1]
        BY <2>1 DEF CliApply
      <3>3. built[f].cli = 0
        BY <2>0, <2>1, <1>t DEF NextFile, MigTypeOK
      <3>4. LoopHoldsLock' /\ ServerKnows' /\ CliKnows'
        BY <3>1, <3>2, <2>0, <1>t DEF MigTypeOK
      <3>5. /\ \A g \in MigFiles : g # f => built'[g] = built[g]
            /\ built'[f].cli = 1 /\ built'[f].server = built[f].server
        BY <3>2, <3>3, <1>t DEF MigTypeOK
      <3>6. BuiltOncePerRunner'
        BY <3>5
      <3>7. BuiltIsKnown'
        <4>1. \A g \in MigFiles : g \in RecordedFiles' <=> recorded'[g] > 0
          BY DEF RecordedFiles
        <4>2. \A g \in MigFiles : g \in RecordedFiles <=> recorded[g] > 0
          BY DEF RecordedFiles
        <4>3. cli'.applied = cli.applied \union {f} /\ cli'.pc = "apply"
          BY <3>2, <2>0, <1>t DEF MigTypeOK
        <4> QED BY <3>1, <3>5, <4>1, <4>2, <4>3, <2>0
      <3> QED BY <3>4, <3>6, <3>7
    <2>2. CASE CliFails
      BY <2>0, <2>2, <1>t DEF CliFails, Nowhere, MigTypeOK, RecordedFiles
    <2> QED BY <1>11, <2>1, <2>2 DEF MigrateCli
  <1>12. CASE CliMigrated
    BY <1>12, <1>t DEF CliMigrated, Nowhere, MigTypeOK, RecordedFiles
  <1>13. CASE SeedAdmins
    BY <1>13, <1>t DEF SeedAdmins, MigTypeOK, RecordedFiles
  <1>14. CASE SeedBaselineLenders
    BY <1>14, <1>t DEF SeedBaselineLenders, Nowhere, MigTypeOK, RecordedFiles
  <1>15. CASE CrashCli
    BY <1>15, <1>t DEF CrashCli, Nowhere, MigTypeOK, RecordedFiles
  <1>16. CASE UNCHANGED migVars
    BY <1>16 DEF migVars, MigTypeOK, RecordedFiles
  <1> QED
    BY <1>1, <1>2, <1>3, <1>4, <1>5, <1>6, <1>7, <1>8, <1>9, <1>10, <1>11,
       <1>12, <1>13, <1>14, <1>15, <1>16 DEF MigNext, ServerStep

THEOREM MigrationInvariant == MigSpec => []MInv
  <1>1. MigInit => MInv BY InvInitially
  <1>2. MInv /\ [MigNext]_migVars => MInv' BY TypeKept, InvKept DEF MInv
  <1> QED BY <1>1, <1>2, PTL DEF MigSpec

\* However many servers start beside one another and beside the command-line
\* runner, and wherever they die, neither kind of runner commits a file twice.
THEOREM BuiltOnce == MigSpec => []MigrationsRunOnce
  <1>1. MInv => MigrationsRunOnce BY DEF MInv, MigrationsRunOnce
  <1> QED BY <1>1, MigrationInvariant, PTL

-----------------------------------------------------------------------------
(* The start-up implements the ordered history *)

LEMMA HistoryStarts == MigInit => H!HistoryInit
  BY DEF MigInit, H!HistoryInit, RecordedFiles, H!Files, MigFiles

\* Recording the first file a runner does not know, all of whose predecessors
\* are recorded, is a step of the history, unless the file was recorded before.
LEMMA RecordingIsAStep ==
  ASSUME NEW order \in {ServerOrder, CliOrder}, NEW known \in SUBSET RecordedFiles,
         NEW f \in MigFiles, NextFile(order, known, f),
         RecordedFiles' = RecordedFiles \union {f}
  PROVE  [H!RecordFile]_RecordedFiles
  <1>1. CASE f \in RecordedFiles
    BY <1>1
  <1>2. CASE f \notin RecordedFiles
    <2>1. H!FirstMissing(order, f)
      BY <1>2 DEF NextFile, H!FirstMissing
    <2>2. f \in H!Files
      BY DEF NextFile, H!Files
    <2> QED BY <2>1, <2>2 DEF H!RecordFile
  <1> QED BY <1>1, <1>2

LEMMA HistorySteps == MInv /\ [MigNext]_migVars => [H!RecordFile]_RecordedFiles
  <1> SUFFICES ASSUME MInv, [MigNext]_migVars PROVE [H!RecordFile]_RecordedFiles
    OBVIOUS
  <1>t. MigTypeOK BY DEF MInv
  <1>1. ASSUME NEW s \in Servers, MigrateServer(s) PROVE [H!RecordFile]_RecordedFiles
    <2>1. PICK f \in MigFiles :
            NextFile(ServerOrder, srv[s].applied, f) /\ (ApplyFile(s, f) \/ SkipFile(s, f) \/ Fatal(s, f))
      BY <1>1 DEF MigrateServer
    <2>2. tracking = "keyed" => srv[s].applied \in SUBSET RecordedFiles
      BY <1>1 DEF MigrateServer, MInv, ServerKnows
    <2>3. CASE tracking = "keyed" /\ (ApplyFile(s, f) \/ SkipFile(s, f))
      <3>1. RecordedFiles' = RecordedFiles \union {f}
        BY <2>3, <1>t, RecordingGrows DEF ApplyFile, SkipFile
      <3> QED BY <2>1, <2>2, <2>3, <3>1, RecordingIsAStep
    <2>4. CASE tracking # "keyed" \/ Fatal(s, f)
      BY <2>1, <2>4 DEF ApplyFile, SkipFile, Fatal, RecordedFiles
    <2> QED BY <2>1, <2>3, <2>4
  <1>2. CASE MigrateCli
    <2>1. ASSUME NEW f \in MigFiles, NextFile(CliOrder, cli.applied, f), CliApply(f)
          PROVE [H!RecordFile]_RecordedFiles
      <3>1. RecordedFiles' = RecordedFiles \union {f}
        BY <2>1, <1>t, RecordingGrows DEF CliApply
      <3>2. cli.applied \in SUBSET RecordedFiles
        BY <1>2 DEF MigrateCli, MInv, CliKnows
      <3> QED BY <2>1, <3>1, <3>2, RecordingIsAStep
    <2>2. CASE CliFails
      BY <2>2 DEF CliFails, RecordedFiles
    <2> QED BY <1>2, <2>1, <2>2 DEF MigrateCli
  <1>3. ASSUME UNCHANGED recorded PROVE [H!RecordFile]_RecordedFiles
    BY <1>3 DEF RecordedFiles
  <1> QED
    BY <1>1, <1>2, <1>3 DEF MigNext, ServerStep, migVars, StartServer, LockAndList,
       UnlockServer, VerifyRequiredTables, BootServer, LockTimesOut, LoseDatabase,
       CrashServer, StartCli, CliMigrated, SeedAdmins, SeedBaselineLenders, CrashCli

\* The start-up of any number of servers and the unlocked runner implement the
\* abstract specification: files are recorded one by one, in one of the orders.
THEOREM HistoryIsOrdered == MigSpec => OrderedHistory
  <1>1. MigInit => H!HistoryInit BY HistoryStarts
  <1>2. MInv /\ [MigNext]_migVars => [H!RecordFile]_RecordedFiles BY HistorySteps
  <1> QED BY <1>1, <1>2, MigrationInvariant, PTL DEF MigSpec, OrderedHistory, H!HistorySpec

-----------------------------------------------------------------------------
(* Sign-in, refresh tokens and disabled accounts.                            *)

(* The inductive invariant                                                  *)

TokenRow == [state : TokenState, user : Users \cup {Nobody}, version : Nat,
             parent : RefreshTokens \cup {Nobody}]

AccountRow == [activity : Activity, version : Nat, bound : BOOLEAN]

RequestState == [step : Steps, user : Users \cup {Nobody}, from : RefreshTokens \cup {Nobody},
                 version : Nat, seen : SUBSET RefreshTokens,
                 change : {"none", "disabled", "role"}]

\* The types of the variables the proof speaks of, without the bound on versions.
AuthTyped ==
  /\ account \in [Users -> AccountRow]
  /\ token \in [RefreshTokens -> TokenRow]
  /\ lockedBy \in [Users \cup RefreshTokens -> AuthHandlers \cup {Nobody}]
  /\ request \in [AuthHandlers -> RequestState]

\* The steps of a transaction.
Underway == {"load", "snapshot", "revoke", "finish"}

\* A refresh under way holds the row of the token it was given, still live.
HoldsItsToken ==
  \A h \in AuthHandlers :
    request[h].step \in Underway /\ request[h].from # Nobody
      => lockedBy[request[h].from] = h /\ token[request[h].from].state = "live"

\* A token that was exchanged is not live any more, and was exchanged once.
ExchangedIsOver ==
  /\ \A n \in RefreshTokens : token[n].parent # Nobody
       => token[token[n].parent].state \in {"revoked", "dead"}
  /\ \A n, m \in RefreshTokens :
       token[n].parent = token[m].parent /\ token[n].parent # Nobody => n = m

\* No version is ahead of its account, and a disabled account is ahead of all.
Behind(u, v) ==
  /\ v <= account[u].version
  /\ account[u].activity = "disabled" => v < account[u].version

TokensAreBehind ==
  \A t \in RefreshTokens : token[t].state # "unissued"
     => token[t].user \in Users /\ Behind(token[t].user, token[t].version)

\* The request knows its user, and a version that is not ahead of the account.
RequestsAreBehind ==
  \A h \in AuthHandlers :
    /\ request[h].step # "idle" => request[h].user \in Users
    /\ request[h].step \in {"check", "sign_in"} => request[h].from = Nobody
    /\ request[h].step \in {"snapshot", "revoke", "finish"} /\ request[h].change = "none"
         => Behind(request[h].user, request[h].version)

SInv == /\ AuthTyped /\ HoldsItsToken /\ ExchangedIsOver
        /\ TokensAreBehind /\ RequestsAreBehind

-----------------------------------------------------------------------------
(* What a step does                                                         *)

LEMMA IdleTyped == /\ Idle \in RequestState /\ Idle.step = "idle"
                   /\ Idle.from = Nobody /\ Idle.change = "none"
  BY DEF Idle, RequestState, Steps

LEMMA UnlockedTyped ==
  ASSUME AuthTyped, NEW h \in AuthHandlers
  PROVE  /\ Unlocked(h) \in [Users \cup RefreshTokens -> AuthHandlers \cup {Nobody}]
         /\ \A x \in Users \cup RefreshTokens : lockedBy[x] # h => Unlocked(h)[x] = lockedBy[x]
  BY DEF AuthTyped, Unlocked

\* A request that ends gives up what it held and nothing else.
LEMMA EndOf ==
  ASSUME SInv, NEW h \in AuthHandlers, Ends(h)
  PROVE  /\ request' \in [AuthHandlers -> RequestState]
         /\ lockedBy' \in [Users \cup RefreshTokens -> AuthHandlers \cup {Nobody}]
         /\ request'[h] = Idle
         /\ \A g \in AuthHandlers : g # h => request'[g] = request[g]
         /\ \A x \in Users \cup RefreshTokens : lockedBy[x] # h => lockedBy'[x] = lockedBy[x]
  BY IdleTyped, UnlockedTyped DEF SInv, AuthTyped, Ends

LEMMA StepTo ==
  ASSUME SInv, NEW h \in AuthHandlers, NEW s \in Steps, AuthGoto(h, s)
  PROVE  /\ request' \in [AuthHandlers -> RequestState]
         /\ request'[h].step = s /\ request'[h].user = request[h].user
         /\ request'[h].from = request[h].from /\ request'[h].change = request[h].change
         /\ request'[h].version = request[h].version
         /\ \A g \in AuthHandlers : g # h => request'[g] = request[g]
  <1> DEFINE new == [request[h] EXCEPT !.step = s]
  <1>1. request[h] \in RequestState
    BY DEF SInv, AuthTyped
  <1>2. /\ new \in RequestState /\ new.step = s /\ new.user = request[h].user
        /\ new.from = request[h].from /\ new.change = request[h].change
        /\ new.version = request[h].version
    BY <1>1 DEF RequestState
  <1>3. request' = [request EXCEPT ![h] = new]
    BY DEF AuthGoto
  <1> HIDE DEF new
  <1> QED BY <1>2, <1>3 DEF SInv, AuthTyped

\* The commit revokes the live tokens that h holds.
LEMMA CommitOf ==
  ASSUME SInv, NEW h \in AuthHandlers
  PROVE  /\ CommitRevocations(h) \in [RefreshTokens -> TokenRow]
         /\ \A t \in RefreshTokens :
              /\ CommitRevocations(h)[t].user = token[t].user
              /\ CommitRevocations(h)[t].version = token[t].version
              /\ CommitRevocations(h)[t].parent = token[t].parent
              /\ lockedBy[t] # h => CommitRevocations(h)[t].state = token[t].state
              /\ lockedBy[t] = h => CommitRevocations(h)[t].state # "live"
              /\ CommitRevocations(h)[t].state = "unissued" <=> token[t].state = "unissued"
              /\ token[t].state \in {"revoked", "dead"} => CommitRevocations(h)[t].state \in {"revoked", "dead"}
              /\ token[t].state = "live" => CommitRevocations(h)[t].state \in {"live", "revoked"}
  BY DEF SInv, AuthTyped, CommitRevocations, Revoked, TokenRow, TokenState

\* What everybody outside S relies on is left alone.
OthersKept(S) ==
  /\ \A g \in AuthHandlers \ S : request'[g] = request[g]
  /\ \A x \in Users \cup RefreshTokens :
       lockedBy[x] \in AuthHandlers \ S => lockedBy'[x] = lockedBy[x]
  /\ \A t \in RefreshTokens :
       lockedBy[t] \in AuthHandlers \ S /\ token[t].state = "live" => token'[t].state = "live"

\* Tokens only get older.
Older ==
  \A t \in RefreshTokens :
    /\ token'[t].user = token[t].user /\ token'[t].version = token[t].version
    /\ token'[t].parent = token[t].parent
    /\ token'[t].state = "unissued" <=> token[t].state = "unissued"
    /\ token[t].state \in {"revoked", "dead"} => token'[t].state \in {"revoked", "dead"}

\* h exchanges what it holds for n, and the other tokens only get older.
Issues(h, n) ==
  LET p == request[h].from IN
  /\ token[n].state = "unissued"
  /\ request[h].step = "finish" /\ request[h].change = "none"
  /\ \A t \in RefreshTokens \ {n} :
       /\ token'[t].user = token[t].user /\ token'[t].version = token[t].version
       /\ token'[t].parent = token[t].parent
       /\ token'[t].state = "unissued" <=> token[t].state = "unissued"
       /\ token[t].state \in {"revoked", "dead"} => token'[t].state \in {"revoked", "dead"}
  /\ token'[n] = [state |-> "live", user |-> request[h].user,
                  version |-> request[h].version, parent |-> p]
  /\ p # Nobody => token'[p].state = "revoked"

BehindNext(u, v) ==
  /\ v <= account'[u].version
  /\ account'[u].activity = "disabled" => v < account'[u].version

\* Versions only grow, and grow with a disabling.
AccountsAdvance == \A u \in Users, v \in Nat : Behind(u, v) => BehindNext(u, v)

OwnKept(S) ==
  \A h \in S :
    /\ request'[h].step \in Underway /\ request'[h].from # Nobody
         => lockedBy'[request'[h].from] = h /\ token'[request'[h].from].state = "live"
    /\ request'[h].step # "idle" => request'[h].user \in Users
    /\ request'[h].step \in {"check", "sign_in"} => request'[h].from = Nobody
    /\ request'[h].step \in {"snapshot", "revoke", "finish"} /\ request'[h].change = "none"
         => BehindNext(request'[h].user, request'[h].version)

LEMMA Combined ==
  ASSUME SInv, NEW S \in SUBSET AuthHandlers, AuthTyped', OthersKept(S), OwnKept(S), AccountsAdvance,
         Older \/ \E h \in AuthHandlers, n \in RefreshTokens : Issues(h, n)
  PROVE  SInv'
  <1>1. HoldsItsToken'
    <2> SUFFICES ASSUME NEW g \in AuthHandlers,
                        request'[g].step \in Underway, request'[g].from # Nobody
                 PROVE  lockedBy'[request'[g].from] = g /\ token'[request'[g].from].state = "live"
      BY DEF HoldsItsToken
    <2>1. CASE g \in S
      BY <2>1 DEF OwnKept
    <2>2. CASE g \notin S
      <3>1. request'[g] = request[g] /\ request[g].from \in RefreshTokens
        BY <2>2 DEF OthersKept, SInv, AuthTyped, RequestState
      <3>2. lockedBy[request[g].from] = g /\ token[request[g].from].state = "live"
        BY <3>1 DEF SInv, HoldsItsToken
      <3> QED BY <2>2, <3>1, <3>2 DEF OthersKept
    <2> QED BY <2>1, <2>2
  <1>2. RequestsAreBehind'
    <2> SUFFICES ASSUME NEW g \in AuthHandlers
                 PROVE  /\ request'[g].step # "idle" => request'[g].user \in Users
                        /\ request'[g].step \in {"check", "sign_in"} => request'[g].from = Nobody
                        /\ request'[g].step \in {"snapshot", "revoke", "finish"} /\ request'[g].change = "none"
                             => BehindNext(request'[g].user, request'[g].version)
      BY DEF RequestsAreBehind, Behind, BehindNext
    <2>1. CASE g \in S
      BY <2>1 DEF OwnKept
    <2>2. CASE g \notin S
      <3>1. request'[g] = request[g] /\ request[g].version \in Nat
        BY <2>2 DEF OthersKept, SInv, AuthTyped, RequestState
      <3>2. /\ request[g].step # "idle" => request[g].user \in Users
            /\ request[g].step \in {"check", "sign_in"} => request[g].from = Nobody
            /\ request[g].step \in {"snapshot", "revoke", "finish"} /\ request[g].change = "none"
                 => Behind(request[g].user, request[g].version)
        BY DEF SInv, RequestsAreBehind
      <3> QED BY <3>1, <3>2 DEF AccountsAdvance
    <2> QED BY <2>1, <2>2
  <1>t. \A t \in RefreshTokens : token[t].version \in Nat /\ token[t].parent \in RefreshTokens \cup {Nobody}
    BY DEF SInv, AuthTyped, TokenRow
  <1>3. CASE Older
    <2>1. ExchangedIsOver'
      BY <1>3, <1>t DEF Older, SInv, ExchangedIsOver
    <2>2. TokensAreBehind'
      BY <1>3, <1>t DEF Older, SInv, TokensAreBehind, AccountsAdvance, Behind, BehindNext
    <2> QED BY <1>1, <1>2, <2>1, <2>2 DEF SInv
  <1>4. ASSUME NEW h \in AuthHandlers, NEW n \in RefreshTokens, Issues(h, n) PROVE SInv'
    <2> DEFINE p == request[h].from
    <2>1. /\ token'[n].state = "live" /\ token'[n].user = request[h].user
          /\ token'[n].version = request[h].version /\ token'[n].parent = p
          /\ p \in RefreshTokens \cup {Nobody} /\ request[h].version \in Nat
      BY <1>4 DEF Issues, SInv, AuthTyped, RequestState
    <2>2. request[h].user \in Users /\ Behind(request[h].user, request[h].version)
      BY <1>4 DEF Issues, SInv, RequestsAreBehind
    <2>3. p # Nobody => token[p].state = "live" /\ p # n /\ token'[p].state = "revoked"
      BY <1>4 DEF Issues, SInv, HoldsItsToken, Underway
    <2>4. TokensAreBehind'
      <3>1. BehindNext(token'[n].user, token'[n].version)
        BY <2>1, <2>2 DEF AccountsAdvance
      <3>2. \A t \in RefreshTokens \ {n} : token'[t].state # "unissued"
              => token'[t].user \in Users /\ BehindNext(token'[t].user, token'[t].version)
        BY <1>4, <1>t DEF Issues, SInv, TokensAreBehind, AccountsAdvance
      <3> QED BY <2>1, <2>2, <3>1, <3>2 DEF TokensAreBehind, Behind, BehindNext
    <2>5. \A m \in RefreshTokens \ {n} : /\ token'[m].parent = token[m].parent
                                         /\ token[m].parent # n
                                         /\ p # Nobody => token[m].parent # p
      <3>1. \A m \in RefreshTokens : token[m].parent # Nobody => token[token[m].parent].state \in {"revoked", "dead"}
        BY DEF SInv, ExchangedIsOver
      <3>2. n # Nobody /\ token[n].state = "unissued" /\ (p # Nobody => token[p].state = "live")
        BY <1>4, <2>3, AuthAssumption DEF Issues
      <3>3. \A m \in RefreshTokens \ {n} : token'[m].parent = token[m].parent
        BY <1>4 DEF Issues
      <3> HIDE DEF p
      <3> QED BY <3>1, <3>2, <3>3
    <2>6. ExchangedIsOver'
      <3>1. \A m \in RefreshTokens : token'[m].parent # Nobody
              => token'[token'[m].parent].state \in {"revoked", "dead"}
        <4>1. CASE p # Nobody
          BY <1>4, <4>1, <1>t, <2>1, <2>3, <2>5 DEF Issues, SInv, ExchangedIsOver
        <4>2. CASE p = Nobody
          BY <1>4, <4>2, <1>t, <2>1, <2>5 DEF Issues, SInv, ExchangedIsOver
        <4> QED BY <4>1, <4>2
      <3>2. \A m, k \in RefreshTokens :
              token'[m].parent = token'[k].parent /\ token'[m].parent # Nobody => m = k
        BY <2>1, <2>5 DEF SInv, ExchangedIsOver
      <3> QED BY <3>1, <3>2 DEF ExchangedIsOver
    <2> QED BY <1>1, <1>2, <2>4, <2>6 DEF SInv
  <1> QED BY <1>3, <1>4

LEMMA SameTokens ==
  ASSUME UNCHANGED token PROVE Older
  BY DEF Older

LEMMA SameAccounts ==
  ASSUME UNCHANGED account PROVE AccountsAdvance
  BY DEF AccountsAdvance, Behind, BehindNext

-----------------------------------------------------------------------------
(* Steps without a request                                                  *)

LEMMA OutsideKeeps ==
  ASSUME SInv,
         \/ \E u \in Users : \/ StartOtp(u) \/ OtpExpires(u) \/ InFlightLapses(u)
                             \/ CreateUser(u) \/ AdminUpdateUser(u) \/ EnableUser(u)
         \/ \E t \in RefreshTokens : TokenLapses(t)
  PROVE  SInv'
  <1>1. ASSUME UNCHANGED <<token, lockedBy, request>>, account' \in [Users -> AccountRow],
               AccountsAdvance
        PROVE  SInv'
    <2>1. AuthTyped'
      BY <1>1 DEF SInv, AuthTyped
    <2>2. OthersKept({}) /\ OwnKept({})
      BY <1>1 DEF OthersKept, OwnKept
    <2> QED BY <1>1, <2>1, <2>2, SameTokens, Combined
  <1>2. ASSUME NEW u \in Users, StartOtp(u) \/ OtpExpires(u) \/ InFlightLapses(u) PROVE SInv'
    BY <1>1, <1>2, SameAccounts DEF StartOtp, OtpExpires, InFlightLapses, SInv, AuthTyped
  <1>3. ASSUME NEW u \in Users, CreateUser(u) PROVE SInv'
    <2>1. account' = [account EXCEPT ![u].activity = "created"]
          /\ UNCHANGED <<token, lockedBy, request>>
      BY <1>3 DEF CreateUser
    <2>2. account' \in [Users -> AccountRow] /\ AccountsAdvance
      BY <2>1 DEF SInv, AuthTyped, AccountRow, Activity, AccountsAdvance, Behind, BehindNext
    <2> QED BY <2>1, <2>2, <1>1
  <1>4. ASSUME NEW u \in Users, AdminUpdateUser(u) PROVE SInv'
    <2>1. PICK b \in BOOLEAN : account' = [account EXCEPT ![u].bound = b]
                               /\ UNCHANGED <<token, lockedBy, request>>
      BY <1>4 DEF AdminUpdateUser
    <2>2. account' \in [Users -> AccountRow] /\ AccountsAdvance
      BY <2>1 DEF SInv, AuthTyped, AccountRow, Activity, AccountsAdvance, Behind, BehindNext
    <2> QED BY <2>1, <2>2, <1>1
  <1>5. ASSUME NEW u \in Users, EnableUser(u) PROVE SInv'
    <2>1. account' = [account EXCEPT ![u] = [account[u] EXCEPT !.activity = "active"]]
          /\ UNCHANGED <<token, lockedBy, request>>
      BY <1>5 DEF EnableUser, SetUserActive
    <2>2. account' \in [Users -> AccountRow] /\ AccountsAdvance
      BY <2>1 DEF SInv, AuthTyped, AccountRow, Activity, AccountsAdvance, Behind, BehindNext
    <2> QED BY <2>1, <2>2, <1>1
  <1>6. ASSUME NEW t \in RefreshTokens, TokenLapses(t) PROVE SInv'
    <2>1. /\ token[t].state \in {"live", "revoked"} /\ lockedBy[t] = Nobody
          /\ token' = [token EXCEPT ![t].state = "dead"]
          /\ UNCHANGED <<account, lockedBy, request>>
      BY <1>6 DEF TokenLapses
    <2>2. token' \in [RefreshTokens -> TokenRow] /\ Older
      BY <2>1 DEF SInv, AuthTyped, TokenRow, TokenState, Older
    <2>3. AuthTyped'
      BY <2>1, <2>2 DEF SInv, AuthTyped
    <2>4. OthersKept({}) /\ OwnKept({})
      BY <2>1, AuthAssumption DEF OthersKept, OwnKept, SInv, AuthTyped, TokenRow
    <2> QED BY <2>1, <2>2, <2>3, <2>4, SameAccounts, Combined
  <1> QED BY <1>2, <1>3, <1>4, <1>5, <1>6

-----------------------------------------------------------------------------
(* Steps of a request                                                       *)

\* A request that does not touch tokens or accounts and takes only free locks.
LEMMA QuietStep ==
  ASSUME SInv, NEW h \in AuthHandlers, UNCHANGED <<account, token>>,
         request' \in [AuthHandlers -> RequestState],
         lockedBy' \in [Users \cup RefreshTokens -> AuthHandlers \cup {Nobody}],
         \A g \in AuthHandlers : g # h => request'[g] = request[g],
         \A x \in Users \cup RefreshTokens :
           lockedBy[x] \notin {h, Nobody} => lockedBy'[x] = lockedBy[x],
         OwnKept({h})
  PROVE  SInv'
  <1>1. AuthTyped'
    BY DEF SInv, AuthTyped
  <1>2. OthersKept({h})
    BY AuthAssumption DEF OthersKept
  <1> QED BY <1>1, <1>2, SameTokens, SameAccounts, Combined

\* A request that ends there has nothing left to keep.
LEMMA NothingToKeep ==
  ASSUME NEW h \in AuthHandlers, request'[h] = Idle
  PROVE  OwnKept({h})
  BY IdleTyped DEF OwnKept, Underway

LEMMA CodesKeep ==
  ASSUME SInv, NEW h \in AuthHandlers,
         (\E u \in Users : VerifyStart(h, u)) \/ VerifyCheck(h) \/ VerifySignIn(h)
  PROVE  SInv'
  <1>t. /\ request \in [AuthHandlers -> RequestState] /\ request[h] \in RequestState
        /\ lockedBy \in [Users \cup RefreshTokens -> AuthHandlers \cup {Nobody}]
        /\ request[h].step # "idle" => request[h].user \in Users
        /\ request[h].step \in {"check", "sign_in"} => request[h].from = Nobody
    BY DEF SInv, AuthTyped, RequestsAreBehind
  <1>1. ASSUME NEW u \in Users, VerifyStart(h, u) PROVE SInv'
    <2> DEFINE new == [Idle EXCEPT !.step = "check", !.user = u]
    <2>1. new \in RequestState /\ new.step = "check" /\ new.user = u /\ new.from = Nobody
      BY IdleTyped DEF RequestState, Steps
    <2>2. request' = [request EXCEPT ![h] = new] /\ UNCHANGED <<account, token, lockedBy>>
      BY <1>1 DEF VerifyStart
    <2> HIDE DEF new
    <2>3. OwnKept({h})
      BY <2>1, <2>2, <1>t DEF OwnKept, Underway
    <2> QED BY <2>1, <2>2, <2>3, <1>t, QuietStep
  <1>2. CASE VerifyCheck(h)
    <2>1. CASE Ends(h)
      BY <1>2, <2>1, EndOf, NothingToKeep, QuietStep DEF VerifyCheck
    <2>2. CASE AuthGoto(h, "sign_in") /\ UNCHANGED lockedBy
      <3>1. /\ request' \in [AuthHandlers -> RequestState]
            /\ request'[h].step = "sign_in" /\ request'[h].user = request[h].user
            /\ request'[h].from = request[h].from
            /\ \A g \in AuthHandlers : g # h => request'[g] = request[g]
        BY <2>2, StepTo DEF Steps
      <3>2. OwnKept({h})
        BY <1>2, <3>1, <1>t DEF VerifyCheck, At, OwnKept, Underway
      <3> QED BY <1>2, <2>2, <3>1, <3>2, <1>t, QuietStep DEF VerifyCheck
    <2> QED BY <1>2, <2>1, <2>2 DEF VerifyCheck
  <1>3. CASE VerifySignIn(h)
    <2> DEFINE u == request[h].user
    <2>1. CASE Ends(h)
      BY <1>3, <2>1, EndOf, NothingToKeep, QuietStep DEF VerifySignIn
    <2>2. CASE /\ MaySignIn(account[u])
               /\ lockedBy' = [lockedBy EXCEPT ![u] = h]
               /\ request' = [request EXCEPT ![h] = [@ EXCEPT !.step = "snapshot",
                                             !.version = account[u].version]]
      <3>1. u \in Users /\ FreeFor(h, u) /\ UNCHANGED <<account, token>> /\ request[h].step = "sign_in"
        BY <1>3, <1>t DEF VerifySignIn, At
      <3>2. account[u].version \in Nat /\ account[u].activity = "active"
        BY <3>1, <2>2 DEF SInv, AuthTyped, AccountRow, MaySignIn, AssertUserActive
      <3>3. /\ request' \in [AuthHandlers -> RequestState]
            /\ request'[h].step = "snapshot" /\ request'[h].user = u
            /\ request'[h].version = account[u].version /\ request'[h].from = request[h].from
            /\ \A g \in AuthHandlers : g # h => request'[g] = request[g]
        BY <2>2, <3>2, <1>t DEF RequestState, Steps
      <3>4. OwnKept({h})
        BY <3>1, <3>2, <3>3, <1>t DEF OwnKept, BehindNext
      <3>5. /\ lockedBy' \in [Users \cup RefreshTokens -> AuthHandlers \cup {Nobody}]
            /\ \A x \in Users \cup RefreshTokens :
                 lockedBy[x] \notin {h, Nobody} => lockedBy'[x] = lockedBy[x]
        BY <2>2, <3>1, <1>t DEF FreeFor
      <3> QED BY <3>1, <3>3, <3>4, <3>5, QuietStep
    <2> QED BY <1>3, <2>1, <2>2 DEF VerifySignIn, FindAuthUserByPhone
  <1> QED BY <1>1, <1>2, <1>3

LEMMA TokensKeep ==
  ASSUME SInv, NEW h \in AuthHandlers,
         \/ \E t \in RefreshTokens : RefreshStart(h, t)
         \/ ConsumeRefreshToken(h) \/ RefreshLoad(h) \/ RefreshReplay(h)
         \/ RevokeSnapshot(h) \/ RevokeSeen(h) \/ DeadlockAbort(h)
  PROVE  SInv'
  <1>t. /\ request \in [AuthHandlers -> RequestState] /\ request[h] \in RequestState
        /\ lockedBy \in [Users \cup RefreshTokens -> AuthHandlers \cup {Nobody}]
        /\ token \in [RefreshTokens -> TokenRow]
        /\ request[h].step # "idle" => request[h].user \in Users
        /\ request[h].version \in Nat
        /\ request[h].from \in RefreshTokens \cup {Nobody}
        /\ request[h].step \in Underway /\ request[h].from # Nobody
             => lockedBy[request[h].from] = h /\ token[request[h].from].state = "live"
        /\ request[h].step \in {"snapshot", "revoke", "finish"} /\ request[h].change = "none"
             => Behind(request[h].user, request[h].version)
    BY DEF SInv, AuthTyped, RequestsAreBehind, HoldsItsToken, RequestState
  <1>1. ASSUME NEW t \in RefreshTokens, RefreshStart(h, t) PROVE SInv'
    <2> DEFINE new == [Idle EXCEPT !.step = "consume", !.user = token[t].user, !.from = t]
    <2>0. token[t].user \in Users
      BY <1>1 DEF RefreshStart, SInv, TokensAreBehind
    <2>1. new \in RequestState /\ new.step = "consume" /\ new.user \in Users
      BY <2>0, IdleTyped DEF RequestState, Steps
    <2>2. request' = [request EXCEPT ![h] = new] /\ UNCHANGED <<account, token, lockedBy>>
      BY <1>1 DEF RefreshStart
    <2> HIDE DEF new
    <2>3. OwnKept({h})
      BY <2>1, <2>2, <1>t DEF OwnKept, Underway
    <2> QED BY <2>1, <2>2, <2>3, <1>t, QuietStep
  <1>2. CASE ConsumeRefreshToken(h)
    <2> DEFINE t == request[h].from
    <2>1. CASE /\ token[t].state = "live" /\ lockedBy' = [lockedBy EXCEPT ![t] = h]
               /\ AuthGoto(h, "load")
      <3>1. /\ request' \in [AuthHandlers -> RequestState]
            /\ request'[h].step = "load" /\ request'[h].user = request[h].user
            /\ request'[h].from = t
            /\ \A g \in AuthHandlers : g # h => request'[g] = request[g]
        BY <2>1, StepTo DEF Steps
      <3>2. FreeFor(h, t) /\ UNCHANGED <<account, token>> /\ request[h].user \in Users
        BY <1>2, <1>t DEF ConsumeRefreshToken, At
      <3>3. OwnKept({h})
        BY <2>1, <3>1, <3>2, <1>t DEF OwnKept
      <3>4. /\ lockedBy' \in [Users \cup RefreshTokens -> AuthHandlers \cup {Nobody}]
            /\ \A x \in Users \cup RefreshTokens :
                 lockedBy[x] \notin {h, Nobody} => lockedBy'[x] = lockedBy[x]
        BY <2>1, <3>2, <1>t DEF FreeFor
      <3> QED BY <3>1, <3>2, <3>3, <3>4, QuietStep
    <2>2. CASE AuthGoto(h, "replay") /\ UNCHANGED lockedBy
      <3>1. /\ request' \in [AuthHandlers -> RequestState]
            /\ request'[h].step = "replay" /\ request'[h].user = request[h].user
            /\ \A g \in AuthHandlers : g # h => request'[g] = request[g]
        BY <2>2, StepTo DEF Steps
      <3>2. UNCHANGED <<account, token>> /\ request[h].user \in Users
        BY <1>2, <1>t DEF ConsumeRefreshToken, At
      <3>3. OwnKept({h})
        BY <3>1, <3>2 DEF OwnKept, Underway
      <3> QED BY <2>2, <3>1, <3>2, <3>3, <1>t, QuietStep
    <2> QED BY <1>2, <2>1, <2>2 DEF ConsumeRefreshToken
  <1>c. ASSUME Ends(h), token' = CommitRevocations(h), UNCHANGED account PROVE SInv'
    <2>1. AuthTyped'
      BY <1>c, EndOf, CommitOf DEF SInv, AuthTyped
    <2>2. OthersKept({h})
      BY <1>c, EndOf, CommitOf DEF OthersKept
    <2>3. Older
      BY <1>c, CommitOf DEF Older
    <2> QED BY <1>c, <2>1, <2>2, <2>3, EndOf, NothingToKeep, SameAccounts, Combined
  <1>3. CASE RefreshLoad(h)
    <2> DEFINE u == request[h].user
    <2>1. CASE Ends(h) /\ UNCHANGED token
      BY <1>3, <2>1, EndOf, NothingToKeep, QuietStep DEF RefreshLoad
    <2>2. CASE Ends(h) /\ token' = CommitRevocations(h)
      BY <1>3, <2>2, <1>c DEF RefreshLoad
    <2>3. CASE /\ MaySignIn(account[u])
               /\ request' = [request EXCEPT ![h] = [@ EXCEPT !.step = "snapshot",
                                             !.version = account[u].version]]
               /\ UNCHANGED <<token, lockedBy>>
      <3>1. u \in Users /\ UNCHANGED <<account, token, lockedBy>> /\ request[h].step = "load"
        BY <1>3, <2>3, <1>t DEF RefreshLoad, At
      <3>2. account[u].version \in Nat /\ account[u].activity = "active"
        BY <3>1, <2>3 DEF SInv, AuthTyped, AccountRow, MaySignIn, AssertUserActive
      <3>3. /\ request' \in [AuthHandlers -> RequestState]
            /\ request'[h].step = "snapshot" /\ request'[h].user = u
            /\ request'[h].version = account[u].version /\ request'[h].from = request[h].from
            /\ \A g \in AuthHandlers : g # h => request'[g] = request[g]
        BY <2>3, <3>2, <1>t DEF RequestState, Steps
      <3>4. OwnKept({h})
        BY <3>1, <3>2, <3>3, <1>t DEF OwnKept, BehindNext, Underway
      <3> QED BY <3>1, <3>3, <3>4, <1>t, QuietStep
    <2> QED BY <1>3, <2>1, <2>2, <2>3 DEF RefreshLoad, FindAuthUserById
  <1>4. CASE RefreshReplay(h)
    BY <1>4, EndOf, NothingToKeep, QuietStep DEF RefreshReplay
  <1>5. CASE RevokeSnapshot(h)
    <2> DEFINE new == [request[h] EXCEPT !.step = "revoke", !.seen = LiveTokens(request[h].user)]
    <2>1. /\ new \in RequestState /\ new.step = "revoke" /\ new.user = request[h].user
          /\ new.from = request[h].from /\ new.change = request[h].change
          /\ new.version = request[h].version
      BY <1>t DEF RequestState, Steps, LiveTokens
    <2>2. request' = [request EXCEPT ![h] = new] /\ UNCHANGED <<account, token, lockedBy>>
      BY <1>5, <1>t DEF RevokeSnapshot
    <2> HIDE DEF new
    <2>3. request[h].step = "snapshot"
      BY <1>5 DEF RevokeSnapshot, At
    <2>4. OwnKept({h})
      BY <2>1, <2>2, <2>3, <1>t DEF OwnKept, Underway, Behind, BehindNext
    <2> QED BY <2>1, <2>2, <2>4, <1>t, QuietStep
  <1>6. CASE RevokeSeen(h)
    <2>1. /\ request' \in [AuthHandlers -> RequestState]
          /\ request'[h].step = "finish" /\ request'[h].user = request[h].user
          /\ request'[h].from = request[h].from /\ request'[h].change = request[h].change
          /\ request'[h].version = request[h].version
          /\ \A g \in AuthHandlers : g # h => request'[g] = request[g]
      BY <1>6, StepTo DEF RevokeSeen, Steps
    <2>2. /\ UNCHANGED <<account, token>> /\ request[h].step = "revoke"
          /\ \A t \in request[h].seen : FreeFor(h, t)
          /\ lockedBy' = [x \in Users \cup RefreshTokens |->
               IF x \in request[h].seen /\ token[x].state = "live" THEN h ELSE lockedBy[x]]
      BY <1>6 DEF RevokeSeen, At
    <2>3. /\ lockedBy' \in [Users \cup RefreshTokens -> AuthHandlers \cup {Nobody}]
          /\ \A x \in Users \cup RefreshTokens :
               lockedBy[x] \notin {h, Nobody} => lockedBy'[x] = lockedBy[x]
          /\ \A x \in Users \cup RefreshTokens : lockedBy[x] = h => lockedBy'[x] = h
      BY <2>2, <1>t DEF FreeFor
    <2>4. OwnKept({h})
      BY <2>1, <2>2, <2>3, <1>t DEF OwnKept, Underway, Behind, BehindNext
    <2> QED BY <2>1, <2>2, <2>3, <2>4, QuietStep
  <1>7. CASE DeadlockAbort(h)
    <2> DEFINE t == request[h].from
    <2>1. /\ t \in RefreshTokens /\ request[h].step = "revoke" /\ Ends(h) /\ UNCHANGED account
          /\ token' = [token EXCEPT ![t].state = "revoked"]
      BY <1>7, <1>t DEF DeadlockAbort, WaitsFor, At
    <2>2. lockedBy[t] = h /\ token[t].state = "live"
      BY <2>1, <1>t, AuthAssumption DEF Underway
    <2>3. token' \in [RefreshTokens -> TokenRow] /\ Older
      BY <2>1, <2>2, <1>t DEF TokenRow, TokenState, Older
    <2>4. AuthTyped'
      BY <2>1, <2>3, EndOf DEF SInv, AuthTyped
    <2>5. OthersKept({h})
      BY <2>1, <2>2, <1>t, EndOf DEF OthersKept
    <2> QED BY <2>1, <2>3, <2>4, <2>5, EndOf, NothingToKeep, SameAccounts, Combined
  <1> QED BY <1>1, <1>2, <1>3, <1>4, <1>5, <1>6, <1>7

LEMMA IssueKeeps ==
  ASSUME SInv, NEW h \in AuthHandlers, NEW n \in RefreshTokens, IssueToken(h, n)
  PROVE  SInv'
  <1> DEFINE p == request[h].from
             row == [state |-> "live", user |-> request[h].user,
                     version |-> request[h].version, parent |-> p]
  <1>1. /\ request[h].step = "finish" /\ request[h].change = "none" /\ token[n].state = "unissued"
        /\ token' = [CommitRevocations(h) EXCEPT ![n] = row] /\ Ends(h) /\ UNCHANGED account
    BY DEF IssueToken, At
  <1>2. row \in TokenRow
    BY DEF SInv, AuthTyped, RequestState, TokenRow, TokenState
  <1>3. p # Nobody => p \in RefreshTokens /\ lockedBy[p] = h /\ token[p].state = "live"
    BY <1>1 DEF SInv, HoldsItsToken, Underway, AuthTyped, RequestState
  <1>4. token' \in [RefreshTokens -> TokenRow] /\ token'[n] = row
        /\ \A t \in RefreshTokens \ {n} : token'[t] = CommitRevocations(h)[t]
    <2> HIDE DEF row
    <2> QED BY <1>1, <1>2, CommitOf
  <1>5. p # Nobody => token'[p].state = "revoked"
    BY <1>1, <1>3, <1>4, CommitOf
  <1>6. Issues(h, n)
    BY <1>1, <1>4, <1>5, CommitOf DEF Issues
  <1>7. AuthTyped'
    BY <1>1, <1>4, EndOf DEF SInv, AuthTyped
  <1>8. OthersKept({h})
    BY <1>1, <1>4, EndOf, CommitOf DEF OthersKept
  <1> QED BY <1>1, <1>6, <1>7, <1>8, EndOf, NothingToKeep, SameAccounts, Combined

LEMMA IncrementOf ==
  ASSUME NEW a \in AccountRow
  PROVE  /\ IncrementTokenVersion(a) \in AccountRow
         /\ IncrementTokenVersion(a).version = a.version + 1
  BY DEF AccountRow, IncrementTokenVersion

LEMMA AdminKeeps ==
  ASSUME SInv, NEW h \in AuthHandlers,
         \/ \E u \in Users : \E c \in {"disabled", "role"} : AdministerUser(h, u, c)
         \/ AdministerCommit(h)
  PROVE  SInv'
  <1>1. ASSUME NEW u \in Users, NEW c \in {"disabled", "role"}, AdministerUser(h, u, c) PROVE SInv'
    <2> DEFINE new == [Idle EXCEPT !.step = "snapshot", !.user = u, !.change = c]
    <2>1. /\ new \in RequestState /\ new.step = "snapshot" /\ new.user = u /\ new.from = Nobody
          /\ new.change # "none"
      BY IdleTyped DEF RequestState, Steps
    <2>2. /\ request' = [request EXCEPT ![h] = new] /\ UNCHANGED <<account, token>>
          /\ lockedBy[u] = Nobody /\ lockedBy' = [lockedBy EXCEPT ![u] = h]
      BY <1>1 DEF AdministerUser
    <2> HIDE DEF new
    <2>3. request' \in [AuthHandlers -> RequestState] /\ request'[h] = new
          /\ \A g \in AuthHandlers : g # h => request'[g] = request[g]
      BY <2>1, <2>2 DEF SInv, AuthTyped
    <2>4. OwnKept({h})
      BY <2>1, <2>3 DEF OwnKept
    <2>5. /\ lockedBy' \in [Users \cup RefreshTokens -> AuthHandlers \cup {Nobody}]
          /\ \A x \in Users \cup RefreshTokens :
               lockedBy[x] \notin {h, Nobody} => lockedBy'[x] = lockedBy[x]
      BY <2>2 DEF SInv, AuthTyped
    <2> QED BY <2>2, <2>3, <2>4, <2>5, QuietStep
  <1>2. CASE AdministerCommit(h)
    <2> DEFINE u == request[h].user
    <2>1. u \in Users /\ Ends(h) /\ token' = CommitRevocations(h)
      BY <1>2 DEF AdministerCommit, At, SInv, RequestsAreBehind
    <2>2. account[u] \in AccountRow
      BY <2>1 DEF SInv, AuthTyped
    <2>3. PICK row \in AccountRow : /\ account' = [account EXCEPT ![u] = row]
                                    /\ row.version = account[u].version + 1
      <3>1. CASE account' = [account EXCEPT ![u] = IncrementTokenVersion(SetUserActive(@, FALSE))]
        <4> DEFINE new == IncrementTokenVersion(SetUserActive(account[u], FALSE))
        <4>1. new \in AccountRow /\ new.version = account[u].version + 1
          <5>1. SetUserActive(account[u], FALSE) \in AccountRow
                /\ SetUserActive(account[u], FALSE).version = account[u].version
            BY <2>2 DEF AccountRow, Activity, SetUserActive
          <5> QED BY <5>1, IncrementOf
        <4>2. account' = [account EXCEPT ![u] = new]
          BY <3>1
        <4> HIDE DEF new
        <4> QED BY <4>1, <4>2
      <3>2. ASSUME NEW b \in BOOLEAN,
                   account' = [account EXCEPT ![u] = [IncrementTokenVersion(@) EXCEPT !.bound = b]]
            PROVE  \E row \in AccountRow : /\ account' = [account EXCEPT ![u] = row]
                                            /\ row.version = account[u].version + 1
        <4> DEFINE new == [IncrementTokenVersion(account[u]) EXCEPT !.bound = b]
        <4>1. new \in AccountRow /\ new.version = account[u].version + 1
          <5>1. /\ IncrementTokenVersion(account[u]) \in AccountRow
                /\ IncrementTokenVersion(account[u]).version = account[u].version + 1
            BY <2>2, IncrementOf
          <5> QED BY <5>1 DEF AccountRow
        <4>2. account' = [account EXCEPT ![u] = new]
          BY <3>2
        <4> HIDE DEF new
        <4> QED BY <4>1, <4>2
      <3> QED BY <1>2, <3>1, <3>2 DEF AdministerCommit
    <2>4. account' \in [Users -> AccountRow] /\ AccountsAdvance
      BY <2>1, <2>2, <2>3 DEF SInv, AuthTyped, AccountRow, AccountsAdvance, Behind, BehindNext
    <2>5. AuthTyped'
      BY <2>1, <2>4, EndOf, CommitOf DEF SInv, AuthTyped
    <2>6. OthersKept({h})
      BY <2>1, EndOf, CommitOf DEF OthersKept
    <2>7. Older
      BY <2>1, CommitOf DEF Older
    <2> QED BY <2>1, <2>4, <2>5, <2>6, <2>7, EndOf, NothingToKeep, Combined
  <1> QED BY <1>1, <1>2

-----------------------------------------------------------------------------
(* The theorems                                                             *)

LEMMA InitInvariant == AuthInit => SInv
  <1> SUFFICES ASSUME AuthInit PROVE SInv
    OBVIOUS
  <1>1. /\ account \in [Users -> [activity: {"absent", "active"}, version: {0}, bound: {TRUE}]]
        /\ lockedBy = [x \in Users \cup RefreshTokens |-> Nobody]
        /\ request = [h \in AuthHandlers |-> Idle]
    BY DEF AuthInit
  <1>2. PICK here \in {u \in Users : account[u].activity = "active"} \cup {Nobody} :
          token = [t \in RefreshTokens |->
                    IF here # Nobody /\ t = FreshToken
                    THEN [Unissued EXCEPT !.state = "live", !.user = here] ELSE Unissued]
    BY DEF AuthInit
  <1>3. \A t \in RefreshTokens :
          /\ token[t] \in TokenRow /\ token[t].parent = Nobody /\ token[t].version = 0
          /\ token[t].state # "unissued" => token[t].user \in Users
    BY <1>2 DEF Unissued, TokenRow, TokenState
  <1>4. \A u \in Users : /\ account[u] \in AccountRow /\ account[u].version = 0
                         /\ account[u].activity # "disabled"
    <2> SUFFICES ASSUME NEW u \in Users
                 PROVE  /\ account[u] \in AccountRow /\ account[u].version = 0
                        /\ account[u].activity # "disabled"
      OBVIOUS
    <2>1. account[u] \in [activity: {"absent", "active"}, version: {0}, bound: {TRUE}]
      BY <1>1
    <2> DEFINE flags == {TRUE}
    <2>2. flags \subseteq BOOLEAN
      OBVIOUS
    <2>3. account[u] \in [activity: {"absent", "active"}, version: {0}, bound: flags]
      BY <2>1
    <2> HIDE DEF flags
    <2> QED BY <2>2, <2>3 DEF AccountRow, Activity
  <1>5. AuthTyped
    <2>1. account \in [Users -> AccountRow]
      BY <1>1, <1>4
    <2>2. token \in [RefreshTokens -> TokenRow]
      BY <1>2, <1>3
    <2> QED BY <2>1, <2>2, <1>1, IdleTyped DEF AuthTyped
  <1>6. HoldsItsToken /\ RequestsAreBehind
    BY <1>1, IdleTyped DEF HoldsItsToken, RequestsAreBehind, Underway
  <1>7. ExchangedIsOver
    BY <1>3 DEF ExchangedIsOver
  <1>8. TokensAreBehind
    BY <1>3, <1>4 DEF TokensAreBehind, Behind
  <1> QED BY <1>5, <1>6, <1>7, <1>8 DEF SInv

LEMMA StepInvariant == SInv /\ [AuthNext]_authVars => SInv'
  <1>1. ASSUME SInv, UNCHANGED authVars PROVE SInv'
    BY <1>1 DEF SInv, AuthTyped, HoldsItsToken, ExchangedIsOver, TokensAreBehind, RequestsAreBehind,
                Behind, authVars
  <1> QED BY <1>1, OutsideKeeps, CodesKeep, TokensKeep, IssueKeeps, AdminKeeps DEF AuthNext

\* The inductive invariant of sign-in, refresh and account administration.
THEOREM AuthInvariant == AuthSpec => []SInv
  BY InitInvariant, StepInvariant, PTL DEF AuthSpec

\* A token exchanged twice would have two tokens that name it as their parent.
LEMMA ExchangedOnce == SInv => RotatedOnce
  <1> SUFFICES ASSUME SInv, NEW t \in RefreshTokens
               PROVE  Cardinality({n \in RefreshTokens : token[n].parent = t}) <= 1
    BY DEF RotatedOnce
  <1> DEFINE children == {n \in RefreshTokens : token[n].parent = t}
  <1>1. \A n, m \in children : n = m
    BY AuthAssumption DEF SInv, ExchangedIsOver
  <1> SUFFICES Cardinality(children) <= 1
    OBVIOUS
  <1> HIDE DEF children
  <1>2. CASE children = {}
    BY <1>2, FS_EmptySet
  <1>3. CASE children # {}
    <2>1. PICK n : n \in children
      BY <1>3
    <2>2. children = {n}
      BY <1>1, <2>1
    <2> QED BY <2>2, FS_Singleton
  <1> QED BY <1>2, <1>3

\* A live token of a disabled account carries a version the account left behind.
LEMMA NoLiveTokenIsCurrent == SInv => DisabledEndsSessions
  BY DEF SInv, AuthTyped, AccountRow, TokenRow, TokensAreBehind, Behind, DisabledEndsSessions

\* refreshSession exchanges a refresh token for at most one new token, however
\* many requests present it at the same time.
THEOREM TokenIsRotatedOnce == AuthSpec => []RotatedOnce
  BY ExchangedOnce, AuthInvariant, PTL

\* No refresh token survives the disabling of its account: what a refresh commits
\* beside setUserStatus carries a version the account has left behind.
THEOREM DisablingEndsSessions == AuthSpec => []DisabledEndsSessions
  BY NoLiveTokenIsCurrent, AuthInvariant, PTL

-----------------------------------------------------------------------------
(* The bounds of sign-in, and the locks that keep them                       *)

\* Whoever changes an account holds its row from before the version is looked
\* at until it is written: no second change takes it beyond the bound.
AuthBounded ==
  /\ \A u \in Users : account[u].version <= MaxTokenVersion
  /\ \A t \in RefreshTokens : token[t].version <= MaxTokenVersion
  /\ \A h \in AuthHandlers :
       /\ request[h].version <= MaxTokenVersion
       /\ request[h].change # "none" =>
            /\ request[h].user \in Users
            /\ lockedBy[request[h].user] = h /\ account[request[h].user].version < MaxTokenVersion

OtpTyped == otp \in [Users -> OtpRecord] /\ inFlight \subseteq Users /\ replayed \subseteq RefreshTokens

\* Whoever consumes or replays was given a token.
Presents == \A h \in AuthHandlers : request[h].step \in {"consume", "replay"} => request[h].from \in RefreshTokens

AuthInv == SInv /\ AuthBounded /\ OtpTyped /\ Presents

\* Nobody has signed in at the start.
LEMMA AuthStarts == AuthInit => AuthInv
<1> SUFFICES ASSUME AuthInit PROVE AuthInv
  OBVIOUS
<1>1. SInv /\ Presents
  BY InitInvariant, IdleTyped DEF AuthInit, Presents
<1>2. OtpTyped
  BY AuthAssumption DEF AuthInit, OtpTyped, OtpRecord
<1>3. /\ \A u \in Users : account[u].version = 0
      /\ \A t \in RefreshTokens : token[t].version = 0
      /\ \A h \in AuthHandlers : request[h].version = 0 /\ request[h].change = "none"
  <2>1. \A u \in Users : account[u].version = 0
    BY DEF AuthInit
  <2>2. \A t \in RefreshTokens : token[t].version = 0
    BY DEF AuthInit, Unissued
  <2>3. \A h \in AuthHandlers : request[h].version = 0 /\ request[h].change = "none"
    BY DEF AuthInit, Idle
  <2> QED BY <2>1, <2>2, <2>3
<1>4. 0 <= MaxTokenVersion
  BY AuthAssumption
<1> QED BY <1>1, <1>2, <1>3, <1>4 DEF AuthInv, AuthBounded

\* A step of one request that keeps the accounts' versions keeps the bounds.
LEMMA BoundedStep ==
  ASSUME AuthBounded, NEW h \in AuthHandlers,
         \A u \in Users : account'[u].version = account[u].version,
         \A t \in RefreshTokens : token'[t].version <= MaxTokenVersion,
         \A g \in AuthHandlers : g # h => request'[g] = request[g],
         request'[h].version <= MaxTokenVersion,
         request'[h].change # "none" => request'[h].change = request[h].change /\ request'[h].user = request[h].user,
         \A u \in Users : lockedBy[u] # Nobody /\ lockedBy[u] # h => lockedBy'[u] = lockedBy[u],
         request'[h].change # "none" => \A u \in Users : lockedBy[u] = h => lockedBy'[u] = h
  PROVE  AuthBounded'
<1>1. h # Nobody /\ \A g \in AuthHandlers : g # Nobody
  BY AuthAssumption
<1>2. ASSUME NEW g \in AuthHandlers
      PROVE  /\ request'[g].version <= MaxTokenVersion
             /\ request'[g].change # "none" =>
                  /\ request'[g].user \in Users
                  /\ lockedBy'[request'[g].user] = g /\ account'[request'[g].user].version < MaxTokenVersion
  <2>1. CASE g = h
    BY <2>1 DEF AuthBounded
  <2>2. CASE g # h
    BY <1>1, <2>2 DEF AuthBounded
  <2> QED BY <2>1, <2>2
<1>3. \A u \in Users : account'[u].version <= MaxTokenVersion
  BY DEF AuthBounded
<1> QED BY <1>2, <1>3 DEF AuthBounded

\* What ending, going on and committing do to versions, changes and locks.
LEMMA EndsBounded ==
  ASSUME SInv, AuthBounded, NEW h \in AuthHandlers, Ends(h)
  PROVE  /\ \A g \in AuthHandlers : g # h => request'[g] = request[g]
         /\ request'[h].version <= MaxTokenVersion /\ request'[h].change = "none"
         /\ \A u \in Users : lockedBy[u] # Nobody /\ lockedBy[u] # h => lockedBy'[u] = lockedBy[u]
<1>1. Idle.version = 0 /\ 0 <= MaxTokenVersion
  BY AuthAssumption DEF Idle
<1> QED BY <1>1, EndOf, IdleTyped

\* The steps of the codes and of the accounts, but for a change's commit.
LEMMA CodesBounded ==
  ASSUME SInv, AuthBounded,
         \/ \E u \in Users : \/ StartOtp(u) \/ OtpExpires(u) \/ InFlightLapses(u)
                             \/ CreateUser(u) \/ AdminUpdateUser(u) \/ EnableUser(u)
         \/ \E t \in RefreshTokens : TokenLapses(t)
  PROVE  AuthBounded'
<1>1. UNCHANGED <<lockedBy, request>>
  BY DEF StartOtp, OtpExpires, InFlightLapses, CreateUser, AdminUpdateUser, EnableUser, TokenLapses
<1>2. /\ account \in [Users -> AccountRow] /\ token \in [RefreshTokens -> TokenRow]
  BY DEF SInv, AuthTyped
<1>3. \A u \in Users : account'[u].version = account[u].version
  <2>1. CASE UNCHANGED account
    BY <2>1
  <2>2. ASSUME NEW u \in Users, CreateUser(u) \/ AdminUpdateUser(u) \/ EnableUser(u)
        PROVE  \A v \in Users : account'[v].version = account[v].version
    <3>1. PICK row : /\ account' = [account EXCEPT ![u] = row] /\ row.version = account[u].version
      <4>a. account[u] \in AccountRow
        BY <1>2
      <4>1. CASE CreateUser(u)
        <5>1. PICK row : row = [account[u] EXCEPT !.activity = "created"]
          OBVIOUS
        <5>2. row.version = account[u].version
          BY <4>a, <5>1 DEF AccountRow
        <5>3. account' = [account EXCEPT ![u] = row]
          BY <1>2, <4>1, <5>1 DEF CreateUser
        <5> QED BY <5>2, <5>3
      <4>2. CASE AdminUpdateUser(u)
        <5>1. PICK b \in BOOLEAN : account' = [account EXCEPT ![u].bound = b]
          BY <4>2 DEF AdminUpdateUser
        <5>2. PICK row : row = [account[u] EXCEPT !.bound = b]
          OBVIOUS
        <5>3. row.version = account[u].version
          BY <4>a, <5>2 DEF AccountRow
        <5>4. account' = [account EXCEPT ![u] = row]
          BY <1>2, <5>1, <5>2
        <5> QED BY <5>3, <5>4
      <4>3. CASE EnableUser(u)
        <5>1. PICK row : row = SetUserActive(account[u], TRUE)
          OBVIOUS
        <5>2. row.version = account[u].version
          BY <4>a, <5>1 DEF AccountRow, SetUserActive
        <5>3. account' = [account EXCEPT ![u] = row]
          BY <1>2, <4>3, <5>1 DEF EnableUser
        <5> QED BY <5>2, <5>3
      <4> QED BY <2>2, <4>1, <4>2, <4>3
    <3> QED BY <1>2, <3>1
  <2> QED BY <2>1, <2>2 DEF StartOtp, OtpExpires, InFlightLapses, TokenLapses
<1>4. \A t \in RefreshTokens : token'[t].version = token[t].version
  <2>1. CASE UNCHANGED token
    BY <2>1
  <2>2. ASSUME NEW t \in RefreshTokens, token' = [token EXCEPT ![t].state = "dead"]
        PROVE  \A n \in RefreshTokens : token'[n].version = token[n].version
    BY <1>2, <2>2 DEF TokenRow
  <2> QED BY <2>1, <2>2 DEF StartOtp, OtpExpires, InFlightLapses, CreateUser, AdminUpdateUser, EnableUser, TokenLapses
<1> QED BY <1>1, <1>3, <1>4 DEF AuthBounded

\* The steps of a refresh, a sign-in and a log-out keep the bounds.
LEMMA RequestsBounded ==
  ASSUME SInv, AuthBounded, NEW h \in AuthHandlers,
         \/ \E u \in Users : VerifyStart(h, u)
         \/ \E t \in RefreshTokens : RefreshStart(h, t) \/ IssueToken(h, t)
         \/ VerifyCheck(h) \/ VerifySignIn(h) \/ ConsumeRefreshToken(h) \/ RefreshLoad(h) \/ RefreshReplay(h)
         \/ RevokeSnapshot(h) \/ RevokeSeen(h) \/ DeadlockAbort(h)
  PROVE  AuthBounded'
<1>t. /\ request \in [AuthHandlers -> RequestState] /\ request[h] \in RequestState
      /\ lockedBy \in [Users \cup RefreshTokens -> AuthHandlers \cup {Nobody}]
      /\ token \in [RefreshTokens -> TokenRow] /\ account \in [Users -> AccountRow]
      /\ request[h].step # "idle" => request[h].user \in Users
      /\ request[h].version <= MaxTokenVersion
      /\ \A t \in RefreshTokens : token[t].version <= MaxTokenVersion
      /\ \A u \in Users : account[u].version <= MaxTokenVersion
  BY DEF SInv, AuthTyped, RequestsAreBehind, AuthBounded
<1>i. Idle.version = 0 /\ Idle.change = "none" /\ 0 <= MaxTokenVersion
  BY AuthAssumption DEF Idle
<1>a. UNCHANGED account
  BY DEF VerifyStart, RefreshStart, IssueToken, VerifyCheck, VerifySignIn, ConsumeRefreshToken, RefreshLoad,
         RefreshReplay, RevokeSnapshot, RevokeSeen, DeadlockAbort
<1>v. \A u \in Users : account'[u].version = account[u].version
  BY <1>a
<1>1. ASSUME NEW u \in Users, VerifyStart(h, u) PROVE AuthBounded'
  <2> DEFINE new == [Idle EXCEPT !.step = "check", !.user = u]
  <2>1. new.version = 0 /\ new.change = "none"
    BY DEF Idle
  <2>2. request' = [request EXCEPT ![h] = new] /\ UNCHANGED <<token, lockedBy>>
    BY <1>1 DEF VerifyStart
  <2> HIDE DEF new
  <2>3. request'[h] = new /\ \A g \in AuthHandlers : g # h => request'[g] = request[g]
    BY <1>t, <2>2
  <2> QED BY <1>t, <1>i, <1>v, <2>1, <2>2, <2>3, BoundedStep
<1>2. ASSUME NEW t \in RefreshTokens, RefreshStart(h, t) PROVE AuthBounded'
  <2> DEFINE new == [Idle EXCEPT !.step = "consume", !.user = token[t].user, !.from = t]
  <2>1. new.version = 0 /\ new.change = "none"
    BY DEF Idle
  <2>2. request' = [request EXCEPT ![h] = new] /\ UNCHANGED <<token, lockedBy>>
    BY <1>2 DEF RefreshStart
  <2> HIDE DEF new
  <2>3. request'[h] = new /\ \A g \in AuthHandlers : g # h => request'[g] = request[g]
    BY <1>t, <2>2
  <2> QED BY <1>t, <1>i, <1>v, <2>1, <2>2, <2>3, BoundedStep
<1>3. ASSUME NEW t \in RefreshTokens, IssueToken(h, t) PROVE AuthBounded'
  <2>1. /\ Ends(h)
        /\ token' = [CommitRevocations(h) EXCEPT ![t] =
             [state |-> "live", user |-> request[h].user, version |-> request[h].version, parent |-> request[h].from]]
    BY <1>3 DEF IssueToken
  <2>2. \A n \in RefreshTokens : token'[n].version <= MaxTokenVersion
    <3>1. /\ CommitRevocations(h) \in [RefreshTokens -> TokenRow]
          /\ \A n \in RefreshTokens : CommitRevocations(h)[n].version = token[n].version
      BY CommitOf
    <3> QED BY <1>t, <2>1, <3>1
  <2> QED BY <1>v, <2>1, <2>2, EndsBounded, BoundedStep
\* A request that ends, its transaction committed or not.
<1>e. ASSUME Ends(h), UNCHANGED token \/ token' = CommitRevocations(h) PROVE AuthBounded'
  <2>1. \A n \in RefreshTokens : token'[n].version <= MaxTokenVersion
    BY <1>t, <1>e, CommitOf
  <2> QED BY <1>v, <1>e, <2>1, EndsBounded, BoundedStep
\* A request that goes on.
<1>g. ASSUME NEW s \in Steps, AuthGoto(h, s), UNCHANGED token,
             \A x \in Users \cup RefreshTokens : lockedBy[x] \notin {h, Nobody} => lockedBy'[x] = lockedBy[x],
             \A x \in Users \cup RefreshTokens : lockedBy[x] = h => lockedBy'[x] = h
      PROVE  AuthBounded'
  <2>1. /\ request'[h].change = request[h].change /\ request'[h].user = request[h].user
        /\ request'[h].version = request[h].version
        /\ \A g \in AuthHandlers : g # h => request'[g] = request[g]
    BY <1>g, StepTo
  <2> QED BY <1>t, <1>v, <1>g, <2>1, BoundedStep
<1>4. CASE VerifyCheck(h)
  BY <1>e, <1>g, <1>4 DEF VerifyCheck, Steps
\* A request that goes on with the account's version.
<1>s. ASSUME NEW u \in Users, request' = [request EXCEPT ![h] = [@ EXCEPT !.step = "snapshot", !.version = account[u].version]],
             UNCHANGED token,
             \A x \in Users \cup RefreshTokens : lockedBy[x] \notin {h, Nobody} => lockedBy'[x] = lockedBy[x],
             \A x \in Users \cup RefreshTokens : lockedBy[x] = h => lockedBy'[x] = h
      PROVE  AuthBounded'
  <2>1. PICK new : new = [request[h] EXCEPT !.step = "snapshot", !.version = account[u].version]
    OBVIOUS
  <2>2. new.version = account[u].version /\ new.change = request[h].change /\ new.user = request[h].user
    BY <1>t, <2>1 DEF RequestState
  <2>3. request' = [request EXCEPT ![h] = new]
    BY <1>s, <2>1
  <2>4. request'[h] = new /\ \A g \in AuthHandlers : g # h => request'[g] = request[g]
    BY <1>t, <2>3
  <2>5. account[u].version <= MaxTokenVersion
    BY <1>t
  <2> QED BY <1>t, <1>v, <1>s, <2>2, <2>4, <2>5, BoundedStep
<1>5. CASE VerifySignIn(h)
  <2>1. CASE Ends(h) /\ UNCHANGED token
    BY <1>e, <2>1
  <2>2. CASE ~(Ends(h) /\ UNCHANGED token)
    <3>u. PICK u \in Users : u = request[h].user
      BY <1>t, <1>5 DEF VerifySignIn, At
    <3>1. /\ request' = [request EXCEPT ![h] = [@ EXCEPT !.step = "snapshot", !.version = account[u].version]]
          /\ UNCHANGED token /\ lockedBy' = [lockedBy EXCEPT ![u] = h] /\ FreeFor(h, u)
      BY <1>5, <2>2, <3>u DEF VerifySignIn
    <3>2. /\ \A x \in Users \cup RefreshTokens : lockedBy[x] \notin {h, Nobody} => lockedBy'[x] = lockedBy[x]
          /\ \A x \in Users \cup RefreshTokens : lockedBy[x] = h => lockedBy'[x] = h
      BY <1>t, <3>1 DEF FreeFor
    <3> QED BY <1>s, <3>1, <3>2
  <2> QED BY <2>1, <2>2
<1>6. CASE ConsumeRefreshToken(h)
  <2> DEFINE t == request[h].from
  <2>1. CASE lockedBy' = [lockedBy EXCEPT ![t] = h] /\ AuthGoto(h, "load")
    <3>1. FreeFor(h, t) /\ UNCHANGED token
      BY <1>6 DEF ConsumeRefreshToken
    <3>2. /\ \A x \in Users \cup RefreshTokens : lockedBy[x] \notin {h, Nobody} => lockedBy'[x] = lockedBy[x]
          /\ \A x \in Users \cup RefreshTokens : lockedBy[x] = h => lockedBy'[x] = h
      BY <1>t, <2>1, <3>1 DEF FreeFor
    <3> QED BY <1>g, <2>1, <3>1, <3>2 DEF Steps
  <2>2. CASE UNCHANGED lockedBy /\ AuthGoto(h, "replay")
    BY <1>g, <1>6, <2>2 DEF Steps, ConsumeRefreshToken
  <2> QED BY <1>6, <2>1, <2>2 DEF ConsumeRefreshToken
<1>7. CASE RefreshLoad(h)
  <2>1. CASE Ends(h) /\ (UNCHANGED token \/ token' = CommitRevocations(h))
    BY <1>e, <2>1
  <2>2. CASE ~(Ends(h) /\ (UNCHANGED token \/ token' = CommitRevocations(h)))
    <3>u. PICK u \in Users : u = request[h].user
      BY <1>t, <1>7 DEF RefreshLoad, At
    <3>1. /\ request' = [request EXCEPT ![h] = [@ EXCEPT !.step = "snapshot", !.version = account[u].version]]
          /\ UNCHANGED <<token, lockedBy>>
      BY <1>7, <2>2, <3>u DEF RefreshLoad
    <3> QED BY <1>s, <3>1
  <2> QED BY <2>1, <2>2
<1>8. CASE RefreshReplay(h)
  BY <1>e, <1>8 DEF RefreshReplay
<1>9. CASE RevokeSnapshot(h)
  <2>1. PICK new : new = [request[h] EXCEPT !.step = "revoke", !.seen = LiveTokens(request[h].user)]
    OBVIOUS
  <2>2. new.version = request[h].version /\ new.change = request[h].change /\ new.user = request[h].user
    BY <1>t, <2>1 DEF RequestState
  <2>3. request' = [request EXCEPT ![h] = new] /\ UNCHANGED <<token, lockedBy>>
    BY <1>9, <2>1 DEF RevokeSnapshot
  <2>4. request'[h] = new /\ \A g \in AuthHandlers : g # h => request'[g] = request[g]
    BY <1>t, <2>3
  <2> QED BY <1>t, <1>v, <2>2, <2>3, <2>4, BoundedStep
<1>10. CASE RevokeSeen(h)
  <2>1. /\ \A t \in request[h].seen : FreeFor(h, t)
        /\ lockedBy' = [x \in Users \cup RefreshTokens |->
             IF x \in request[h].seen /\ token[x].state = "live" THEN h ELSE lockedBy[x]]
        /\ AuthGoto(h, "finish") /\ UNCHANGED token
    BY <1>10 DEF RevokeSeen
  <2>2. /\ \A x \in Users \cup RefreshTokens : lockedBy[x] \notin {h, Nobody} => lockedBy'[x] = lockedBy[x]
        /\ \A x \in Users \cup RefreshTokens : lockedBy[x] = h => lockedBy'[x] = h
    BY <2>1 DEF FreeFor
  <2> QED BY <1>g, <2>1, <2>2 DEF Steps
<1>11. CASE DeadlockAbort(h)
  <2>1. Ends(h) /\ token' = [token EXCEPT ![request[h].from].state = "revoked"]
    BY <1>11 DEF DeadlockAbort
  <2>2. \A n \in RefreshTokens : token'[n].version = token[n].version
    BY <1>t, <2>1 DEF TokenRow
  <2> QED BY <1>t, <1>v, <2>1, <2>2, EndsBounded, BoundedStep
<1> QED BY <1>1, <1>2, <1>3, <1>4, <1>5, <1>6, <1>7, <1>8, <1>9, <1>10, <1>11

\* The steps of the administration keep the bounds.
LEMMA AdminBounded ==
  ASSUME SInv, AuthBounded, NEW h \in AuthHandlers,
         \/ \E u \in Users : \E c \in {"disabled", "role"} : AdministerUser(h, u, c)
         \/ AdministerCommit(h)
  PROVE  AuthBounded'
<1>t. /\ request \in [AuthHandlers -> RequestState]
      /\ lockedBy \in [Users \cup RefreshTokens -> AuthHandlers \cup {Nobody}]
      /\ account \in [Users -> AccountRow]
      /\ \A g \in AuthHandlers : g # Nobody
  BY AuthAssumption DEF SInv, AuthTyped
<1>1. ASSUME NEW u \in Users, NEW c \in {"disabled", "role"}, AdministerUser(h, u, c) PROVE AuthBounded'
  <2> DEFINE new == [Idle EXCEPT !.step = "snapshot", !.user = u, !.change = c]
  <2>1. new.version = 0 /\ new.change = c /\ new.user = u /\ 0 <= MaxTokenVersion
    BY AuthAssumption DEF Idle
  <2>2. /\ request' = [request EXCEPT ![h] = new] /\ UNCHANGED <<account, token>> /\ lockedBy[u] = Nobody
        /\ lockedBy' = [lockedBy EXCEPT ![u] = h] /\ account[u].version < MaxTokenVersion
    BY <1>1 DEF AdministerUser
  <2> HIDE DEF new
  <2>3. request'[h] = new /\ \A g \in AuthHandlers : g # h => request'[g] = request[g]
    BY <1>t, <2>2
  <2>4. lockedBy'[u] = h /\ \A x \in Users : x # u => lockedBy'[x] = lockedBy[x]
    BY <1>t, <2>2
  <2>5. ASSUME NEW g \in AuthHandlers, g # h, request'[g].change # "none"
        PROVE  /\ request'[g].user \in Users
               /\ lockedBy'[request'[g].user] = g /\ account'[request'[g].user].version < MaxTokenVersion
    <3>1. /\ request[g].user \in Users /\ lockedBy[request[g].user] = g
          /\ account[request[g].user].version < MaxTokenVersion
      BY <2>3, <2>5 DEF AuthBounded
    <3> QED BY <1>t, <2>2, <2>3, <2>4, <2>5, <3>1
  <2> QED BY <2>1, <2>2, <2>3, <2>4, <2>5 DEF AuthBounded
<1>2. CASE AdministerCommit(h)
  <2>u. PICK u \in Users : u = request[h].user
    BY <1>2 DEF AdministerCommit, AuthBounded
  <2>1. Ends(h) /\ token' = CommitRevocations(h) /\ account[u].version < MaxTokenVersion /\ lockedBy[u] = h
    BY <1>2, <2>u DEF AdministerCommit, AuthBounded
  <2>2. account[u] \in AccountRow
    BY <1>t
  <2>3. PICK row : account' = [account EXCEPT ![u] = row] /\ row.version = account[u].version + 1
    <3>1. CASE account' = [account EXCEPT ![u] = IncrementTokenVersion(SetUserActive(@, FALSE))]
      <4>1. PICK new : new = IncrementTokenVersion(SetUserActive(account[u], FALSE))
        OBVIOUS
      <4>2. SetUserActive(account[u], FALSE) \in AccountRow
            /\ SetUserActive(account[u], FALSE).version = account[u].version
        BY <2>2 DEF AccountRow, Activity, SetUserActive
      <4> QED BY <3>1, <4>1, <4>2, IncrementOf
    <3>2. ASSUME NEW b \in BOOLEAN,
                 account' = [account EXCEPT ![u] = [IncrementTokenVersion(@) EXCEPT !.bound = b]]
          PROVE  \E row : account' = [account EXCEPT ![u] = row] /\ row.version = account[u].version + 1
      <4>1. PICK new : new = [IncrementTokenVersion(account[u]) EXCEPT !.bound = b]
        OBVIOUS
      <4>2. IncrementTokenVersion(account[u]) \in AccountRow
            /\ IncrementTokenVersion(account[u]).version = account[u].version + 1
        BY <2>2, IncrementOf
      <4>3. new.version = account[u].version + 1
        BY <4>1, <4>2 DEF AccountRow
      <4> QED BY <3>2, <4>1, <4>3
    <3> QED BY <1>2, <2>u, <3>1, <3>2 DEF AdministerCommit
  <2>4. \A v \in Users : v # u => account'[v] = account[v]
    BY <1>t, <2>3
  <2>5. account'[u].version <= MaxTokenVersion
    <3>1. account'[u].version = account[u].version + 1
      BY <1>t, <2>3
    <3>2. PICK n : n = account[u].version
      OBVIOUS
    <3>3. n \in Nat /\ n < MaxTokenVersion
      BY <2>1, <2>2, <3>2 DEF AccountRow
    <3>4. n + 1 <= MaxTokenVersion
      BY <3>3, AuthAssumption
    <3> QED BY <3>1, <3>2, <3>4
  <2>6. \A t \in RefreshTokens : token'[t].version <= MaxTokenVersion
    BY <2>1, CommitOf DEF AuthBounded
  <2>7. /\ \A g \in AuthHandlers : g # h => request'[g] = request[g]
        /\ request'[h].version <= MaxTokenVersion /\ request'[h].change = "none"
        /\ \A v \in Users : lockedBy[v] # Nobody /\ lockedBy[v] # h => lockedBy'[v] = lockedBy[v]
    BY <2>1, EndsBounded
  <2>8. ASSUME NEW g \in AuthHandlers, g # h, request'[g].change # "none"
        PROVE  /\ request'[g].user \in Users
               /\ lockedBy'[request'[g].user] = g /\ account'[request'[g].user].version < MaxTokenVersion
    <3>1. /\ request[g].user \in Users /\ lockedBy[request[g].user] = g
          /\ account[request[g].user].version < MaxTokenVersion
      BY <2>7, <2>8 DEF AuthBounded
    <3>2. request[g].user # u
      BY <2>1, <2>8, <3>1
    <3> QED BY <1>t, <2>4, <2>7, <2>8, <3>1, <3>2
  <2>9. \A v \in Users : account'[v].version <= MaxTokenVersion
    BY <2>4, <2>5 DEF AuthBounded
  <2> QED BY <2>6, <2>7, <2>8, <2>9 DEF AuthBounded
<1> QED BY <1>1, <1>2

\* The codes of a phone, its mark and the guard keep their types.
LEMMA OtpKeeps == SInv /\ OtpTyped /\ Presents /\ [AuthNext]_authVars => OtpTyped'
<1> SUFFICES ASSUME SInv, OtpTyped, Presents, [AuthNext]_authVars PROVE OtpTyped'
  OBVIOUS
<1>t. otp \in [Users -> OtpRecord] /\ inFlight \subseteq Users /\ replayed \subseteq RefreshTokens
  BY DEF OtpTyped
<1>m. MaxOtpAttempts \in Nat /\ 0 \in 0..MaxOtpAttempts
  BY AuthAssumption
<1>r. \A h \in AuthHandlers : /\ request[h].step # "idle" => request[h].user \in Users
                              /\ request[h].from \in RefreshTokens \cup {Nobody}
  BY DEF SInv, AuthTyped, RequestsAreBehind, RequestState
\* One record of a phone is written.
<1>w. ASSUME NEW u \in Users, NEW row \in OtpRecord, otp' = [otp EXCEPT ![u] = row] PROVE otp' \in [Users -> OtpRecord]
  BY <1>t, <1>w
<1>1. ASSUME NEW u \in Users, StartOtp(u) \/ OtpExpires(u) PROVE OtpTyped'
  <2>1. UNCHANGED <<inFlight, replayed>>
    BY <1>1 DEF StartOtp, OtpExpires
  <2>2. otp[u] \in OtpRecord
    BY <1>t
  <2>3. CASE StartOtp(u)
    <3>1. PICK sent \in BOOLEAN : otp' = [otp EXCEPT ![u] = [session |-> "open", attempts |-> 0,
              verification |-> IF sent THEN CreateOtpVerification(u) ELSE otp[u].verification]]
      BY <2>3 DEF StartOtp
    <3>2. PICK row : row = [session |-> "open", attempts |-> 0,
              verification |-> IF sent THEN CreateOtpVerification(u) ELSE otp[u].verification]
      OBVIOUS
    <3>3. row \in OtpRecord
      BY <1>m, <2>2, <3>2 DEF OtpRecord, CreateOtpVerification
    <3> QED BY <1>t, <1>w, <2>1, <3>1, <3>2, <3>3 DEF OtpTyped
  <2>4. CASE OtpExpires(u)
    <3>1. PICK row : row = [otp[u] EXCEPT !.session = "expired", !.verification = "none"]
      OBVIOUS
    <3>2. row \in OtpRecord /\ otp' = [otp EXCEPT ![u] = row]
      BY <2>2, <2>4, <3>1 DEF OtpRecord, OtpExpires
    <3> QED BY <1>t, <1>w, <2>1, <3>2 DEF OtpTyped
  <2> QED BY <1>1, <2>3, <2>4
<1>2. ASSUME NEW h \in AuthHandlers, VerifyCheck(h) \/ VerifySignIn(h) PROVE OtpTyped'
  <2>u. PICK u \in Users : u = request[h].user
    BY <1>r, <1>2 DEF VerifyCheck, VerifySignIn, At
  <2>o. otp[u] \in OtpRecord
    BY <1>t
  <2>1. UNCHANGED replayed /\ (inFlight' = inFlight \/ inFlight' = inFlight \ {u})
    BY <1>2, <2>u DEF VerifyCheck, VerifySignIn, ClearVerifyAttempt
  <2>2. \E row \in OtpRecord : otp' = [otp EXCEPT ![u] = row]
    <3>1. CASE VerifyCheck(h)
      <4>1. PICK a \in 0..MaxOtpAttempts : otp' = [otp EXCEPT ![u].attempts = a]
        <5>1. otp[u].attempts \in 0..MaxOtpAttempts
          BY <2>o DEF OtpRecord
        <5>2. RecordOtpAttempt(otp[u].attempts) \in 0..MaxOtpAttempts
          BY <1>m, <5>1 DEF RecordOtpAttempt
        <5>3. \/ otp' = [otp EXCEPT ![u].attempts = RecordOtpAttempt(otp[u].attempts)]
              \/ otp' = [otp EXCEPT ![u].attempts = 0]
          BY <1>t, <2>u, <3>1 DEF VerifyCheck
        <5> QED BY <1>m, <5>2, <5>3
      <4>2. PICK row : row = [otp[u] EXCEPT !.attempts = a]
        OBVIOUS
      <4> QED BY <2>o, <4>1, <4>2 DEF OtpRecord
    <3>2. CASE VerifySignIn(h) /\ ~UNCHANGED otp
      <4>1. PICK row : row = [otp[u] EXCEPT !.verification = ApproveVerification(otp[u].verification)]
        OBVIOUS
      <4>2. otp' = [otp EXCEPT ![u] = row]
        BY <1>t, <2>u, <3>2, <4>1 DEF VerifySignIn
      <4>3. ApproveVerification(otp[u].verification) \in {"none", "pending", "approved"}
        BY <2>o DEF OtpRecord, ApproveVerification
      <4> QED BY <2>o, <4>1, <4>2, <4>3 DEF OtpRecord
    <3>3. CASE UNCHANGED otp
      <4>1. otp' = [otp EXCEPT ![u] = otp[u]]
        BY <1>t, <3>3
      <4> QED BY <2>o, <4>1
    <3> QED BY <1>2, <3>1, <3>2, <3>3
  <2>3. otp' \in [Users -> OtpRecord]
    BY <1>w, <2>2
  <2> QED BY <1>t, <2>1, <2>3 DEF OtpTyped
<1>3. CASE \/ UNCHANGED authVars
           \/ \E u \in Users : \/ InFlightLapses(u) \/ CreateUser(u) \/ AdminUpdateUser(u) \/ EnableUser(u)
           \/ \E t \in RefreshTokens : TokenLapses(t)
           \/ \E h \in AuthHandlers :
                \/ \E u \in Users : \/ VerifyStart(h, u)
                                    \/ \E c \in {"disabled", "role"} : AdministerUser(h, u, c)
                \/ \E t \in RefreshTokens : RefreshStart(h, t)
                \/ ConsumeRefreshToken(h) \/ RefreshLoad(h)
                \/ RevokeSnapshot(h) \/ RevokeSeen(h) \/ DeadlockAbort(h) \/ AdministerCommit(h)
  <2>1. UNCHANGED otp
    BY <1>3 DEF authVars, InFlightLapses, CreateUser, AdminUpdateUser, EnableUser, TokenLapses, VerifyStart,
                AdministerUser, RefreshStart, ConsumeRefreshToken, RefreshLoad, RevokeSnapshot, RevokeSeen,
                DeadlockAbort, AdministerCommit
  <2>2. inFlight' = inFlight \/ \E u \in Users : inFlight' = inFlight \cup {u} \/ inFlight' = inFlight \ {u}
    BY <1>3 DEF authVars, InFlightLapses, CreateUser, AdminUpdateUser, EnableUser, TokenLapses, VerifyStart,
                AdministerUser, RefreshStart, ConsumeRefreshToken, RefreshLoad, RevokeSnapshot, RevokeSeen,
                DeadlockAbort, AdministerCommit
  <2>3. replayed' = replayed \/ \E t \in RefreshTokens : replayed' = replayed \ {t}
    BY <1>3 DEF authVars, InFlightLapses, CreateUser, AdminUpdateUser, EnableUser, TokenLapses, VerifyStart,
                AdministerUser, RefreshStart, ConsumeRefreshToken, RefreshLoad, RevokeSnapshot, RevokeSeen,
                DeadlockAbort, AdministerCommit
  <2> QED BY <1>t, <2>1, <2>2, <2>3 DEF OtpTyped
<1>4. ASSUME NEW h \in AuthHandlers, RefreshReplay(h) PROVE OtpTyped'
  <2>1. /\ UNCHANGED <<otp, inFlight>>
        /\ replayed' = replayed \/ replayed' = replayed \cup {request[h].from}
    BY <1>4 DEF RefreshReplay
  <2>2. request[h].from \in RefreshTokens
    BY <1>4 DEF RefreshReplay, At, Presents
  <2> QED BY <1>t, <1>4, <2>1, <2>2 DEF OtpTyped
<1>5. ASSUME NEW h \in AuthHandlers, NEW t \in RefreshTokens, IssueToken(h, t) PROVE OtpTyped'
  <2>1. UNCHANGED <<otp, replayed>> /\ inFlight' \subseteq inFlight
    BY <1>5 DEF IssueToken, ClearVerifyAttempt
  <2> QED BY <1>t, <2>1 DEF OtpTyped
<1> QED BY <1>1, <1>2, <1>3, <1>4, <1>5 DEF AuthNext

\* Whoever consumes or replays presents a token.
LEMMA PresentsKeeps == SInv /\ Presents /\ [AuthNext]_authVars => Presents'
<1> SUFFICES ASSUME SInv, Presents, [AuthNext]_authVars PROVE Presents'
  OBVIOUS
<1>t. request \in [AuthHandlers -> RequestState]
  BY DEF SInv, AuthTyped
<1>0. CASE UNCHANGED request
  BY <1>0 DEF Presents
\* One request goes to a step at which nothing is claimed, or keeps its token.
<1>g. ASSUME NEW h \in AuthHandlers, \A g \in AuthHandlers : g # h => request'[g] = request[g],
             request'[h].step \in {"consume", "replay"} => request'[h].from \in RefreshTokens
      PROVE  Presents'
  BY <1>g DEF Presents
<1>e. ASSUME NEW h \in AuthHandlers, Ends(h) PROVE Presents'
  <2>1. request'[h].step = "idle" /\ \A g \in AuthHandlers : g # h => request'[g] = request[g]
    BY <1>e, EndOf, IdleTyped
  <2> QED BY <1>g, <2>1
<1>s. ASSUME NEW h \in AuthHandlers, NEW s \in Steps, AuthGoto(h, s),
             s \in {"consume", "replay"} => request[h].from \in RefreshTokens
      PROVE  Presents'
  <2>1. request'[h].step = s /\ request'[h].from = request[h].from
        /\ \A g \in AuthHandlers : g # h => request'[g] = request[g]
    BY <1>s, StepTo
  <2> QED BY <1>g, <1>s, <2>1
<1>w. ASSUME NEW h \in AuthHandlers, NEW row, request' = [request EXCEPT ![h] = row],
             row.step \in {"consume", "replay"} => row.from \in RefreshTokens
      PROVE  Presents'
  BY <1>g, <1>t, <1>w
<1>1. ASSUME NEW h \in AuthHandlers, NEW u \in Users,
             VerifyStart(h, u) \/ \E c \in {"disabled", "role"} : AdministerUser(h, u, c)
      PROVE  Presents'
  <2>1. PICK row : request' = [request EXCEPT ![h] = row] /\ row.step \in {"check", "snapshot"}
    <3>1. CASE VerifyStart(h, u)
      <4>1. PICK row : row = [Idle EXCEPT !.step = "check", !.user = u]
        OBVIOUS
      <4>2. row.step = "check"
        BY <4>1 DEF Idle
      <4> QED BY <3>1, <4>1, <4>2 DEF VerifyStart
    <3>2. ASSUME NEW c \in {"disabled", "role"}, AdministerUser(h, u, c)
          PROVE  \E row : request' = [request EXCEPT ![h] = row] /\ row.step \in {"check", "snapshot"}
      <4>1. PICK row : row = [Idle EXCEPT !.step = "snapshot", !.user = u, !.change = c]
        OBVIOUS
      <4>2. row.step = "snapshot"
        BY <4>1 DEF Idle
      <4> QED BY <3>2, <4>1, <4>2 DEF AdministerUser
    <3> QED BY <1>1, <3>1, <3>2
  <2> QED BY <1>w, <2>1
<1>2. ASSUME NEW h \in AuthHandlers, NEW t \in RefreshTokens, RefreshStart(h, t) \/ IssueToken(h, t) PROVE Presents'
  <2>1. CASE RefreshStart(h, t)
    <3>1. PICK row : row = [Idle EXCEPT !.step = "consume", !.user = token[t].user, !.from = t]
      OBVIOUS
    <3>2. row.from = t
      BY <3>1 DEF Idle
    <3> QED BY <1>w, <2>1, <3>1, <3>2 DEF RefreshStart
  <2>2. CASE IssueToken(h, t)
    BY <1>e, <2>2 DEF IssueToken
  <2> QED BY <1>2, <2>1, <2>2
<1>3. ASSUME NEW h \in AuthHandlers,
             \/ VerifyCheck(h) \/ ConsumeRefreshToken(h) \/ RefreshReplay(h) \/ RevokeSeen(h)
             \/ DeadlockAbort(h) \/ AdministerCommit(h)
      PROVE  Presents'
  <2>1. CASE Ends(h)
    BY <1>e, <2>1
  <2>2. CASE ConsumeRefreshToken(h)
    BY <1>s, <2>2 DEF ConsumeRefreshToken, At, Presents, Steps
  <2>3. CASE ~Ends(h) /\ ~ConsumeRefreshToken(h)
    BY <1>3, <1>s, <2>3 DEF VerifyCheck, RefreshReplay, RevokeSeen, DeadlockAbort, AdministerCommit, Steps
  <2> QED BY <2>1, <2>2, <2>3
<1>4. ASSUME NEW h \in AuthHandlers, VerifySignIn(h) \/ RefreshLoad(h) \/ RevokeSnapshot(h) PROVE Presents'
  <2>1. CASE Ends(h)
    BY <1>e, <2>1
  <2>2. CASE ~Ends(h)
    <3>0. request[h] \in RequestState
      BY <1>t
    <3>1. \E row : request' = [request EXCEPT ![h] = row] /\ row.step \in {"snapshot", "revoke"}
      <4>1. CASE RevokeSnapshot(h)
        <5>1. PICK row : row = [request[h] EXCEPT !.step = "revoke", !.seen = LiveTokens(request[h].user)]
          OBVIOUS
        <5>2. row.step = "revoke"
          BY <3>0, <5>1 DEF RequestState
        <5> QED BY <4>1, <5>1, <5>2 DEF RevokeSnapshot
      <4>2. CASE VerifySignIn(h) \/ RefreshLoad(h)
        <5>1. PICK row : row = [request[h] EXCEPT !.step = "snapshot", !.version = account[request[h].user].version]
          OBVIOUS
        <5>2. row.step = "snapshot"
          BY <3>0, <5>1 DEF RequestState
        <5>3. request' = [request EXCEPT ![h] = row]
          BY <2>2, <4>2, <5>1 DEF VerifySignIn, RefreshLoad
        <5> QED BY <5>2, <5>3
      <4> QED BY <1>4, <4>1, <4>2
    <3> QED BY <1>w, <3>1
  <2> QED BY <2>1, <2>2
<1>5. CASE \/ UNCHANGED authVars
           \/ \E u \in Users : \/ StartOtp(u) \/ OtpExpires(u) \/ InFlightLapses(u)
                               \/ CreateUser(u) \/ AdminUpdateUser(u) \/ EnableUser(u)
           \/ \E t \in RefreshTokens : TokenLapses(t)
  BY <1>0, <1>5 DEF authVars, StartOtp, OtpExpires, InFlightLapses, CreateUser, AdminUpdateUser, EnableUser, TokenLapses
<1> QED BY <1>1, <1>2, <1>3, <1>4, <1>5 DEF AuthNext

\* Every step of authentication preserves the invariant.
LEMMA AuthKeeps == AuthInv /\ [AuthNext]_authVars => AuthInv'
<1> SUFFICES ASSUME AuthInv, [AuthNext]_authVars PROVE AuthInv'
  OBVIOUS
<1>1. SInv' /\ OtpTyped' /\ Presents'
  BY StepInvariant, OtpKeeps, PresentsKeeps DEF AuthInv
<1>2. CASE UNCHANGED authVars
  BY <1>1, <1>2 DEF authVars, AuthInv, AuthBounded
<1>3. CASE AuthNext
  BY <1>1, <1>3, CodesBounded, RequestsBounded, AdminBounded DEF AuthInv, AuthNext
<1> QED BY <1>2, <1>3

\* The inductive invariant gives the types the run checks.
LEMMA AuthInvTypes == AuthInv => AuthTypeOK
<1> SUFFICES ASSUME AuthInv PROVE AuthTypeOK
  OBVIOUS
<1>1. MaxTokenVersion \in Nat
  BY AuthAssumption
<1>2. account \in [Users -> [activity: Activity, version: 0..MaxTokenVersion, bound: BOOLEAN]]
  BY <1>1 DEF AuthInv, SInv, AuthTyped, AccountRow, AuthBounded
<1>3. token \in [RefreshTokens -> [state: TokenState, user: Users \cup {Nobody}, version: 0..MaxTokenVersion,
                                   parent: RefreshTokens \cup {Nobody}]]
  BY <1>1 DEF AuthInv, SInv, AuthTyped, TokenRow, AuthBounded
<1>4. request \in [AuthHandlers -> [step: Steps, user: Users \cup {Nobody}, from: RefreshTokens \cup {Nobody},
        version: 0..MaxTokenVersion, seen: SUBSET RefreshTokens, change: {"none", "disabled", "role"}]]
  BY <1>1 DEF AuthInv, SInv, AuthTyped, RequestState, AuthBounded
<1> QED BY <1>2, <1>3, <1>4 DEF AuthInv, SInv, AuthTyped, OtpTyped, AuthTypeOK

-----------------------------------------------------------------------------
(* Offline replay.                                                           *)

BatchRow == [pc : {"idle", "lookup", "execute", "record"}, user : SyncUsers,
             todo : Seq(ReplayActions), seen : 0..MaxReplays]
ExecutedRow == [times : 0..MaxReplays, bodies : SUBSET ReplayBodies]

\* The batches between carrying out an action of key k and recording it.
Recording(k) == {c \in Batches : syncBatch[c].pc = "record" /\ RecordKey(Current(c)) = k}

\* A key that neither has a record nor waits for one owes nothing.
KeyPaid(k) ==
  /\ Times(k) <= 1 + excused[k]
  /\ Recording(k) = {} /\ syncRecord[k] = "none" => Times(k) <= excused[k]
  /\ Cardinality(Recording(k)) <= Times(k)
  /\ syncRecord[k] # "none" => syncRecord[k] \in executed[k].bodies

\* What a batch is about to carry out or record.
BatchSound(b) ==
  /\ syncBatch[b].pc # "idle" => syncBatch[b].todo # << >>
  /\ syncBatch[b].pc = "execute" =>
       LET k == RecordKey(Current(b)) IN
         /\ syncBatch[b].seen <= Times(k)
         /\ syncBatch[b].seen = Times(k) => Recording(k) = {} /\ syncRecord[k] = "none"
  /\ syncBatch[b].pc = "record" => Current(b).body \in executed[RecordKey(Current(b))].bodies

SyncTypes ==
  /\ syncBatch \in [Batches -> BatchRow]
  /\ syncRecord \in [RecordKeys -> ReplayBodies \cup {"none"}]
  /\ lenderOpen \in BOOLEAN
  /\ executed \in [RecordKeys -> ExecutedRow]
  /\ excused \in [RecordKeys -> Nat]

SyncInv ==
  /\ SyncTypes
  /\ \A b \in Batches : BatchSound(b)
  /\ \A k \in RecordKeys : KeyPaid(k)

\* The idle row, and bodies.
LEMMA IdleBatchIs == IdleBatch \in BatchRow /\ IdleBatch.pc = "idle" /\ "none" \notin ReplayBodies
<1>1. (CHOOSE u \in SyncUsers : TRUE) \in SyncUsers
  BY SyncAssumption
<1>2. "none" \notin ReplayBodies
  BY SyncAssumption DEF ReplayBodies
<1>3. << >> \in Seq(ReplayActions) /\ 0 \in 0..MaxReplays
  BY SyncAssumption
<1> QED BY <1>1, <1>2, <1>3 DEF IdleBatch, BatchRow

\* The action at the head of a batch under way.
LEMMA HeadIs ==
  ASSUME SyncTypes, NEW b \in Batches, syncBatch[b].todo # << >>
  PROVE  /\ Current(b) \in ReplayActions /\ RecordKey(Current(b)) \in RecordKeys /\ Current(b).body \in ReplayBodies
         /\ Tail(syncBatch[b].todo) \in Seq(ReplayActions)
<1>1. syncBatch[b].todo \in Seq(ReplayActions)
  BY DEF SyncTypes, BatchRow
<1>2. Head(syncBatch[b].todo) \in ReplayActions /\ Tail(syncBatch[b].todo) \in Seq(ReplayActions)
  BY <1>1, HeadTailProperties
<1> QED BY <1>2 DEF Current, RecordKeys, ReplayBodies

\* The sets of batches are finite.
LEMMA RecordingFinite ==
  ASSUME NEW k
  PROVE  /\ IsFiniteSet(Recording(k)) /\ Cardinality(Recording(k)) \in Nat
         /\ IsFiniteSet(Recording(k)') /\ Cardinality(Recording(k)') \in Nat
<1>1. Recording(k) \subseteq Batches /\ Recording(k)' \subseteq Batches
  BY DEF Recording
<1> QED BY <1>1, SyncAssumption, FS_Subset, FS_CardinalityType

\* Nothing is replayed at the start.
LEMMA SyncStarts == SyncInit => SyncInv
<1> SUFFICES ASSUME SyncInit PROVE SyncInv
  OBVIOUS
<1>m. 0 \in 0..MaxReplays
  BY SyncAssumption
<1>1. SyncTypes
  <2>1. [times |-> 0, bodies |-> {}] \in ExecutedRow
    BY <1>m DEF ExecutedRow
  <2> QED BY <2>1, IdleBatchIs DEF SyncInit, SyncTypes
<1>2. \A b \in Batches : BatchSound(b)
  BY IdleBatchIs DEF SyncInit, BatchSound
<1>3. ASSUME NEW k \in RecordKeys PROVE KeyPaid(k)
  <2>1. Recording(k) = {}
    BY IdleBatchIs DEF SyncInit, Recording
  <2>2. Times(k) = 0 /\ excused[k] = 0 /\ syncRecord[k] = "none"
    BY DEF SyncInit, Times
  <2> QED BY <2>1, <2>2, FS_EmptySet DEF KeyPaid
<1> QED BY <1>1, <1>2, <1>3 DEF SyncInv

\* What becomes of a batch that goes on.
LEMMA AdvanceTo ==
  ASSUME SyncTypes, NEW b \in Batches, syncBatch[b].todo # << >>, NEW result, Advance(b, result)
  PROVE  \E row \in BatchRow : /\ syncBatch' = [syncBatch EXCEPT ![b] = row] /\ row.pc \in {"idle", "lookup"}
                               /\ row.pc # "idle" => row.todo # << >>
<1>t. syncBatch[b] \in BatchRow /\ 0 \in 0..MaxReplays
  BY SyncAssumption DEF SyncTypes
<1>1. PICK left : left = IF result = "failed" THEN <<>> ELSE Tail(syncBatch[b].todo)
  OBVIOUS
<1>2. left \in Seq(ReplayActions)
  BY <1>1, HeadIs
<1>3. PICK row : row = [syncBatch[b] EXCEPT !.pc = "lookup", !.todo = left, !.seen = 0]
  OBVIOUS
<1>4. row \in BatchRow /\ row.pc = "lookup" /\ row.todo = left
  BY <1>t, <1>2, <1>3 DEF BatchRow
<1>5. syncBatch' = [syncBatch EXCEPT ![b] = IF left = << >> THEN IdleBatch ELSE row]
  BY <1>1, <1>3 DEF Advance, SyncTypes
<1>6. CASE left = << >>
  <2>1. syncBatch' = [syncBatch EXCEPT ![b] = IdleBatch]
    BY <1>5, <1>6
  <2> QED BY <2>1, IdleBatchIs
<1>7. CASE left # << >>
  <2>1. syncBatch' = [syncBatch EXCEPT ![b] = row]
    BY <1>5, <1>7
  <2> QED BY <1>4, <1>7, <2>1
<1> QED BY <1>6, <1>7

\* The other batches keep what they were about to do, and the key theirs.
LEMMA BatchMoves ==
  ASSUME SyncInv, NEW b \in Batches, NEW row \in BatchRow, syncBatch' = [syncBatch EXCEPT ![b] = row],
         executed' \in [RecordKeys -> ExecutedRow], syncRecord' \in [RecordKeys -> ReplayBodies \cup {"none"}],
         excused' \in [RecordKeys -> Nat], UNCHANGED lenderOpen,
         BatchSound(b)',
         \A k \in RecordKeys : KeyPaid(k)',
         \A k \in RecordKeys : executed'[k].times >= executed[k].times /\ executed[k].bodies \subseteq executed'[k].bodies,
         \* Whoever starts recording has carried out, and whoever records was recording.
         \A k \in RecordKeys : executed'[k].times = executed[k].times =>
           /\ Recording(k)' \subseteq Recording(k)
           /\ Recording(k) = {} => syncRecord'[k] = syncRecord[k] \/ syncRecord'[k] = "none"
  PROVE  SyncInv'
<1>t. syncBatch \in [Batches -> BatchRow]
  BY DEF SyncInv, SyncTypes
<1>1. SyncTypes'
  BY <1>t DEF SyncInv, SyncTypes
<1>2. ASSUME NEW c \in Batches, c # b PROVE BatchSound(c)'
  <2>1. syncBatch'[c] = syncBatch[c] /\ BatchSound(c)
    BY <1>t, <1>2 DEF SyncInv
  <2>2. CASE syncBatch[c].pc = "idle"
    BY <2>1, <2>2 DEF BatchSound
  <2>3. CASE syncBatch[c].pc # "idle"
    <3>1. PICK k \in RecordKeys : k = RecordKey(Current(c))
      BY <2>1, <2>3, HeadIs DEF SyncInv, BatchSound
    <3>2. Current(c)' = Current(c)
      BY <2>1 DEF Current
    <3>3. RecordKey(Current(c))' = k
      BY <3>1, <3>2 DEF RecordKey
    <3>4. PICK n, m, s : n = executed[k].times /\ m = executed'[k].times /\ s = syncBatch[c].seen
      OBVIOUS
    <3>5. n \in Nat /\ m \in Nat /\ s \in Nat /\ m >= n
      BY <3>4, SyncAssumption DEF SyncInv, SyncTypes, ExecutedRow, BatchRow
    <3>6. syncBatch[c].pc = "execute" => s <= m
      <4>1. syncBatch[c].pc = "execute" => s <= n
        BY <2>1, <3>1, <3>4 DEF BatchSound, Times
      <4> QED BY <3>5, <4>1
    <3>7. ASSUME syncBatch[c].pc = "execute", s = m PROVE Recording(k)' = {} /\ syncRecord'[k] = "none"
      <4>1. s <= n /\ (s = n => Recording(k) = {} /\ syncRecord[k] = "none")
        BY <2>1, <3>1, <3>4, <3>7 DEF BatchSound, Times
      <4>2. s = n /\ m = n
        BY <3>5, <3>7, <4>1
      <4> QED BY <3>4, <4>1, <4>2
    <3>8. syncBatch[c].pc = "record" => Current(c).body \in executed'[k].bodies
      BY <2>1, <3>1 DEF BatchSound
    <3> QED BY <2>1, <3>2, <3>3, <3>4, <3>6, <3>7, <3>8 DEF BatchSound, Times
  <2> QED BY <2>2, <2>3
<1> QED BY <1>1, <1>2 DEF SyncInv

\* A batch that neither is nor comes to record changes no key's recorders.
LEMMA RecordersStay ==
  ASSUME SyncTypes, NEW b \in Batches, NEW row, syncBatch' = [syncBatch EXCEPT ![b] = row],
         syncBatch[b].pc # "record", row.pc # "record", NEW k
  PROVE  Recording(k)' = Recording(k)
BY DEF SyncTypes, Recording, Current

\* A batch starts, or looks its next action up.
LEMMA LookUpsKeep ==
  ASSUME SyncInv, NEW b \in Batches,
         (\E u \in SyncUsers, q \in ActionQueues : StartSync(b, u, q)) \/ LookUp(b)
  PROVE  SyncInv'
<1>t. /\ SyncTypes /\ syncBatch \in [Batches -> BatchRow] /\ syncBatch[b] \in BatchRow
      /\ syncRecord \in [RecordKeys -> ReplayBodies \cup {"none"}] /\ executed \in [RecordKeys -> ExecutedRow]
      /\ excused \in [RecordKeys -> Nat] /\ 0 \in 0..MaxReplays
  BY SyncAssumption DEF SyncInv, SyncTypes
<1>u. UNCHANGED <<syncRecord, lenderOpen, executed, excused>> /\ syncBatch[b].pc # "record"
  BY DEF StartSync, LookUp
\* A batch goes to a step at which it neither carries out nor records.
<1>0. ASSUME NEW row \in BatchRow, syncBatch' = [syncBatch EXCEPT ![b] = row],
             row.pc # "record", BatchSound(b)'
      PROVE  SyncInv'
  <2>1. \A k : Recording(k)' = Recording(k)
    BY <1>t, <1>u, <1>0, RecordersStay
  <2>2. \A k \in RecordKeys : KeyPaid(k)'
    BY <1>u, <2>1 DEF SyncInv, KeyPaid, Times
  <2>3. \A k \in RecordKeys : executed'[k].times >= executed[k].times /\ executed[k].bodies \subseteq executed'[k].bodies
    <3>1. \A k \in RecordKeys : executed[k].times \in Int
      BY <1>t DEF ExecutedRow
    <3>2. \A n \in Int : n >= n
      OBVIOUS
    <3> QED BY <1>u, <3>1, <3>2
  <2> QED BY <1>t, <1>u, <1>0, <2>1, <2>2, <2>3, BatchMoves
<1>1. ASSUME NEW u \in SyncUsers, NEW q \in ActionQueues, StartSync(b, u, q) PROVE SyncInv'
  <2> DEFINE row == [pc |-> "lookup", user |-> u, todo |-> q, seen |-> 0]
  <2>1. q \in Seq(ReplayActions) /\ q # << >>
    <3>1. PICK n \in 1..MaxSyncActions : q \in [1..n -> ReplayActions]
      BY DEF ActionQueues
    <3>2. n \in Nat /\ n # 0
      BY SyncAssumption
    <3>3. q \in Seq(ReplayActions)
      BY <3>1, <3>2, IsASeq
    <3>4. Len(q) = n
      BY <3>1, <3>2, <3>3, LenProperties
    <3> QED BY <3>2, <3>3, <3>4
  <2>2. row \in BatchRow /\ row.pc = "lookup" /\ row.todo = q
    BY <1>t, <2>1 DEF BatchRow
  <2>3. syncBatch' = [syncBatch EXCEPT ![b] = row]
    BY <1>1 DEF StartSync
  <2> HIDE DEF row
  <2>4. BatchSound(b)'
    BY <1>t, <2>1, <2>2, <2>3 DEF BatchSound
  <2> QED BY <1>0, <2>2, <2>3, <2>4
<1>2. CASE LookUp(b)
  <2>0. syncBatch[b].pc = "lookup" /\ syncBatch[b].todo # << >>
    BY <1>2 DEF LookUp, SyncInv, BatchSound
  <2>1. CASE \E result : Advance(b, result)
    <3>1. PICK row \in BatchRow : /\ syncBatch' = [syncBatch EXCEPT ![b] = row] /\ row.pc \in {"idle", "lookup"}
                                  /\ row.pc # "idle" => row.todo # << >>
      BY <1>t, <2>0, <2>1, AdvanceTo
    <3>2. BatchSound(b)'
      BY <1>t, <3>1 DEF BatchSound
    <3> QED BY <1>0, <3>1, <3>2
  <2>2. CASE FindIdempotencyRecord(RecordKey(Current(b))) = "none" /\ BeginExecution(b, RecordKey(Current(b)))
    <3>1. PICK k \in RecordKeys : k = RecordKey(Current(b))
      BY <1>t, <2>0, HeadIs
    <3>2. PICK s : s = Times(k) - Cardinality(Recording(k))
      OBVIOUS
    <3>3. PICK n, m : n = Times(k) /\ m = Cardinality(Recording(k))
      OBVIOUS
    <3>4. n \in 0..MaxReplays /\ m \in Nat /\ m <= n /\ s = n - m
      BY <1>t, <3>2, <3>3, RecordingFinite DEF SyncInv, KeyPaid, Times, ExecutedRow
    <3>5. s \in 0..MaxReplays /\ s <= n /\ (s = n => m = 0)
      BY <3>4, SyncAssumption
    <3>6. PICK row : row = [syncBatch[b] EXCEPT !.pc = "execute", !.seen = s]
      OBVIOUS
    <3>7. row \in BatchRow /\ row.pc = "execute" /\ row.seen = s /\ row.todo = syncBatch[b].todo
      BY <1>t, <3>5, <3>6 DEF BatchRow
    <3>8. syncBatch' = [syncBatch EXCEPT ![b] = row]
      BY <1>t, <2>2, <3>1, <3>2, <3>6 DEF BeginExecution, Unrecorded, Recording
    <3>9. Recording(k)' = Recording(k) /\ Current(b)' = Current(b)
      BY <1>t, <1>u, <3>7, <3>8, RecordersStay DEF Current
    <3>10. Times(k)' = n /\ syncRecord'[k] = "none"
      BY <1>u, <2>2, <3>1, <3>3 DEF Times, FindIdempotencyRecord
    <3>11. m = 0 => Recording(k) = {}
      BY <3>3, RecordingFinite, FS_EmptySet
    <3>12. RecordKey(Current(b))' = k
      BY <3>1, <3>9 DEF RecordKey
    <3>13. BatchSound(b)'
      BY <1>t, <2>0, <3>5, <3>7, <3>8, <3>9, <3>10, <3>11, <3>12 DEF BatchSound, Times
    <3> QED BY <1>0, <3>7, <3>8, <3>13
  <2> QED BY <1>2, <2>1, <2>2 DEF LookUp
<1> QED BY <1>1, <1>2

\* Carrying out an action: paid for by the key, or by one more excuse.
LEMMA CarryingOutKeeps ==
  ASSUME SyncInv, NEW b \in Batches, Execute(b)
  PROVE  SyncInv'
<1>t. /\ SyncTypes /\ syncBatch \in [Batches -> BatchRow] /\ syncBatch[b] \in BatchRow
      /\ syncRecord \in [RecordKeys -> ReplayBodies \cup {"none"}] /\ executed \in [RecordKeys -> ExecutedRow]
      /\ excused \in [RecordKeys -> Nat] /\ 0 \in 0..MaxReplays /\ MaxReplays \in Nat
  BY SyncAssumption DEF SyncInv, SyncTypes
<1>0. /\ syncBatch[b].pc = "execute" /\ syncBatch[b].todo # << >> /\ BatchSound(b)
      /\ UNCHANGED <<syncRecord, lenderOpen>>
  BY DEF Execute, SyncInv, BatchSound
<1>k. PICK k \in RecordKeys : k = RecordKey(Current(b))
  BY <1>t, <1>0, HeadIs
<1>a. PICK body \in ReplayBodies : body = Current(b).body
  BY <1>t, <1>0, HeadIs
<1>n. \A j \in RecordKeys : executed[j].times \in Nat /\ executed[j].times \in 0..MaxReplays /\ excused[j] \in Nat
  BY <1>t DEF ExecutedRow
<1>r. \A n \in Nat : n >= n
  OBVIOUS
<1>1. CASE Advance(b, "failed") /\ UNCHANGED <<executed, excused>>
  <2>1. PICK row \in BatchRow : /\ syncBatch' = [syncBatch EXCEPT ![b] = row] /\ row.pc \in {"idle", "lookup"}
                                /\ row.pc # "idle" => row.todo # << >>
    BY <1>t, <1>0, <1>1, AdvanceTo
  <2>2. BatchSound(b)'
    BY <1>t, <2>1 DEF BatchSound
  <2>3. \A j : Recording(j)' = Recording(j)
    BY <1>t, <1>0, <2>1, RecordersStay
  <2>4. \A j \in RecordKeys : KeyPaid(j)'
    BY <1>0, <1>1, <2>3 DEF SyncInv, KeyPaid, Times
  <2>5. \A j \in RecordKeys : executed'[j].times >= executed[j].times /\ executed[j].bodies \subseteq executed'[j].bodies
    BY <1>1, <1>n, <1>r
  <2> QED BY <1>t, <1>0, <1>1, <2>1, <2>2, <2>3, <2>4, <2>5, BatchMoves
<1>2. CASE /\ Times(k) < MaxReplays
           /\ executed' = [executed EXCEPT ![k] = [times |-> @.times + 1, bodies |-> @.bodies \cup {body}]]
           /\ syncBatch' = [syncBatch EXCEPT ![b] = [@ EXCEPT !.pc = "record", !.seen = 0]]
           /\ excused' = IF Times(k) = syncBatch[b].seen THEN excused ELSE [excused EXCEPT ![k] = @ + 1]
  <2>n. PICK n \in Nat, old \in SUBSET ReplayBodies : n = executed[k].times /\ old = executed[k].bodies
    BY <1>t, <1>n DEF ExecutedRow
  <2>e. PICK e \in Nat : e = excused[k]
    BY <1>n
  <2>m. n + 1 \in 0..MaxReplays /\ old \subseteq ReplayBodies
    <3>1. old \subseteq ReplayBodies
      BY <1>t, <2>n DEF ExecutedRow
    <3> QED BY <1>2, <1>t, <2>n, <3>1 DEF Times
  <2>x. PICK done : done = [times |-> n + 1, bodies |-> old \cup {body}]
    OBVIOUS
  <2>y. done \in ExecutedRow /\ done.times = n + 1 /\ done.bodies = old \cup {body}
    BY <2>x, <2>m DEF ExecutedRow
  <2>1. executed' = [executed EXCEPT ![k] = done]
    BY <1>2, <2>n, <2>x
  <2>2. PICK row : row = [syncBatch[b] EXCEPT !.pc = "record", !.seen = 0]
    OBVIOUS
  <2>3. row \in BatchRow /\ row.pc = "record" /\ row.todo = syncBatch[b].todo
    BY <1>t, <2>2 DEF BatchRow
  <2>4. syncBatch' = [syncBatch EXCEPT ![b] = row] /\ syncBatch'[b] = row
    BY <1>t, <1>2, <2>2
  <2>5. Current(b)' = Current(b) /\ RecordKey(Current(b))' = k /\ executed'[k] = done
    BY <1>t, <1>k, <2>1, <2>3, <2>4 DEF Current, RecordKey
  <2>6. BatchSound(b)'
    BY <1>0, <1>a, <2>3, <2>4, <2>5, <2>y DEF BatchSound
  <2>7. Recording(k)' = Recording(k) \cup {b} /\ b \notin Recording(k)
    BY <1>t, <1>0, <1>k, <2>3, <2>4, <2>5 DEF Recording, Current
  <2>8. \A j \in RecordKeys : j # k => Recording(j)' = Recording(j)
    BY <1>t, <1>0, <1>k, <2>3, <2>4, <2>5 DEF Recording, Current
  <2>9. executed' \in [RecordKeys -> ExecutedRow] /\ \A j \in RecordKeys : j # k => executed'[j] = executed[j]
    BY <1>t, <2>1, <2>y
  <2>10. PICK f \in Nat : f = excused'[k]
    <3>1. excused[k] + 1 \in Nat
      BY <1>t
    <3> QED BY <1>2, <1>t, <2>e, <3>1
  <2>11. /\ excused' \in [RecordKeys -> Nat] /\ \A j \in RecordKeys : j # k => excused'[j] = excused[j]
         /\ f = e \/ f = e + 1
         /\ n = syncBatch[b].seen \/ f = e + 1
    <3>1. CASE Times(k) = syncBatch[b].seen
      BY <1>2, <1>t, <2>e, <2>n, <2>10, <3>1 DEF Times
    <3>2. CASE Times(k) # syncBatch[b].seen
      BY <1>2, <1>t, <2>e, <2>n, <2>10, <3>2 DEF Times
    <3> QED BY <3>1, <3>2
  <2>12. n + 1 <= 1 + f
    <3>1. KeyPaid(k)
      BY DEF SyncInv
    <3>2. n <= 1 + e
      BY <2>n, <2>e, <3>1 DEF KeyPaid, Times
    <3>3. n = syncBatch[b].seen => n <= e
      BY <1>0, <1>k, <2>n, <2>e, <3>1 DEF BatchSound, KeyPaid, Times
    <3> QED BY <2>11, <3>2, <3>3
  <2>13. Cardinality(Recording(k)') <= n + 1
    <3>1. Cardinality(Recording(k)') = Cardinality(Recording(k)) + 1
      BY <2>7, RecordingFinite, FS_AddElement
    <3>2. Cardinality(Recording(k)) <= n
      BY <2>n DEF SyncInv, KeyPaid, Times
    <3> QED BY <3>1, <3>2, RecordingFinite
  <2>14. syncRecord[k] # "none" => syncRecord[k] \in done.bodies
    BY <2>n, <2>y DEF SyncInv, KeyPaid
  <2>15. KeyPaid(k)'
    <3>1. Times(k)' = n + 1
      BY <2>5, <2>y DEF Times
    <3> QED BY <1>0, <2>5, <2>7, <2>10, <2>12, <2>13, <2>14, <3>1 DEF KeyPaid
  <2>16. ASSUME NEW j \in RecordKeys, j # k PROVE KeyPaid(j)'
    BY <1>0, <2>8, <2>9, <2>11, <2>16 DEF SyncInv, KeyPaid, Times
  <2>17. ASSUME NEW j \in RecordKeys
         PROVE  executed'[j].times >= executed[j].times /\ executed[j].bodies \subseteq executed'[j].bodies
    <3>1. CASE j = k
      BY <2>5, <2>n, <2>y, <3>1
    <3>2. CASE j # k
      BY <1>n, <1>r, <2>9, <3>2
    <3> QED BY <3>1, <3>2
  <2>18. ASSUME NEW j \in RecordKeys, executed'[j].times = executed[j].times
         PROVE  /\ Recording(j)' \subseteq Recording(j)
                /\ Recording(j) = {} => syncRecord'[j] = syncRecord[j] \/ syncRecord'[j] = "none"
    <3>1. j # k
      BY <2>5, <2>n, <2>y, <2>18
    <3> QED BY <1>0, <2>8, <3>1
  <2>19. \A j \in RecordKeys : KeyPaid(j)'
    BY <2>15, <2>16
  <2>20. syncRecord' \in [RecordKeys -> ReplayBodies \cup {"none"}]
    BY <1>t, <1>0
  <2> QED BY <1>0, <2>3, <2>4, <2>6, <2>9, <2>11, <2>17, <2>18, <2>19, <2>20, BatchMoves
<1> QED BY <1>1, <1>2, <1>k, <1>a DEF Execute

\* A batch that recorded leaves its key either with the record or excused.
LEMMA RecorderLeaves ==
  ASSUME SyncInv, NEW b \in Batches, syncBatch[b].pc = "record",
         NEW row \in BatchRow, syncBatch' = [syncBatch EXCEPT ![b] = row],
         row.pc \in {"idle", "lookup"}, row.pc # "idle" => row.todo # << >>,
         UNCHANGED <<lenderOpen, executed>>,
         \/ syncRecord' = [syncRecord EXCEPT ![RecordKey(Current(b))] = Current(b).body] /\ UNCHANGED excused
         \/ excused' = [excused EXCEPT ![RecordKey(Current(b))] = @ + 1] /\ UNCHANGED syncRecord
  PROVE  SyncInv'
<1>t. /\ SyncTypes /\ syncBatch \in [Batches -> BatchRow] /\ syncBatch[b].todo # << >> /\ BatchSound(b)
      /\ syncRecord \in [RecordKeys -> ReplayBodies \cup {"none"}] /\ executed \in [RecordKeys -> ExecutedRow]
      /\ excused \in [RecordKeys -> Nat]
  BY DEF SyncInv, SyncTypes, BatchSound
<1>k. PICK k \in RecordKeys : k = RecordKey(Current(b))
  BY <1>t, HeadIs
<1>a. PICK body \in ReplayBodies : body = Current(b).body
  BY <1>t, HeadIs
<1>n. \A j \in RecordKeys : executed[j].times \in Nat /\ excused[j] \in Nat /\ excused[j] + 1 \in Nat
  BY <1>t DEF ExecutedRow
<1>1. BatchSound(b)'
  BY <1>t DEF BatchSound
<1>2. b \in Recording(k) /\ Recording(k)' = Recording(k) \ {b}
  BY <1>t, <1>k DEF Recording, Current
<1>3. \A j \in RecordKeys : j # k => Recording(j)' = Recording(j)
  BY <1>t, <1>k DEF Recording, Current
<1>4. /\ syncRecord' \in [RecordKeys -> ReplayBodies \cup {"none"}] /\ excused' \in [RecordKeys -> Nat]
      /\ \A j \in RecordKeys : j # k => syncRecord'[j] = syncRecord[j] /\ excused'[j] = excused[j]
      /\ \/ syncRecord'[k] = body /\ excused'[k] = excused[k]
         \/ syncRecord'[k] = syncRecord[k] /\ excused'[k] = excused[k] + 1
  <2>1. CASE syncRecord' = [syncRecord EXCEPT ![k] = body] /\ UNCHANGED excused
    BY <1>t, <2>1
  <2>2. CASE excused' = [excused EXCEPT ![k] = @ + 1] /\ UNCHANGED syncRecord
    BY <1>t, <1>n, <2>2
  <2> QED BY <1>k, <1>a, <2>1, <2>2
<1>5. Cardinality(Recording(k)') <= executed[k].times
  <2>1. Cardinality(Recording(k)') = Cardinality(Recording(k)) - 1
    BY <1>2, RecordingFinite, FS_RemoveElement
  <2>2. Cardinality(Recording(k)) <= executed[k].times
    BY DEF SyncInv, KeyPaid, Times
  <2> QED BY <1>n, <2>1, <2>2, RecordingFinite
<1>6. KeyPaid(k)'
  <2>1. PICK n \in Nat, e \in Nat, f \in Nat : n = executed[k].times /\ e = excused[k] /\ f = excused'[k]
    BY <1>n, <1>4
  <2>2. n <= 1 + e /\ Times(k)' = n
    BY <2>1 DEF SyncInv, KeyPaid, Times
  <2>3. body # "none" /\ body \in executed[k].bodies
    BY <1>t, <1>k, <1>a, IdleBatchIs DEF BatchSound
  <2>4. syncRecord[k] # "none" => syncRecord[k] \in executed[k].bodies
    BY DEF SyncInv, KeyPaid
  <2>5. n <= 1 + f /\ (syncRecord'[k] = "none" => n <= f)
    <3>1. CASE syncRecord'[k] = body /\ f = e
      BY <2>2, <2>3, <3>1
    <3>2. CASE f = e + 1
      BY <2>2, <3>2
    <3> QED BY <1>4, <2>1, <3>1, <3>2
  <2>6. syncRecord'[k] # "none" => syncRecord'[k] \in executed'[k].bodies
    BY <1>4, <2>3, <2>4
  <2>7. Cardinality(Recording(k)') <= n
    BY <1>5, <2>1
  <2> QED BY <2>1, <2>2, <2>5, <2>6, <2>7 DEF KeyPaid
<1>7. ASSUME NEW j \in RecordKeys, j # k PROVE KeyPaid(j)'
  BY <1>3, <1>4, <1>7 DEF SyncInv, KeyPaid, Times
<1>8. \A j \in RecordKeys : executed'[j].times >= executed[j].times /\ executed[j].bodies \subseteq executed'[j].bodies
  <2>1. \A n \in Nat : n >= n
    OBVIOUS
  <2> QED BY <1>n, <2>1
<1>9. ASSUME NEW j \in RecordKeys
      PROVE  /\ Recording(j)' \subseteq Recording(j)
             /\ Recording(j) = {} => syncRecord'[j] = syncRecord[j] \/ syncRecord'[j] = "none"
  <2>1. CASE j = k
    BY <1>2, <2>1
  <2>2. CASE j # k
    BY <1>3, <1>4, <2>2
  <2> QED BY <2>1, <2>2
<1>10. \A j \in RecordKeys : KeyPaid(j)'
  BY <1>6, <1>7
<1>11. executed' \in [RecordKeys -> ExecutedRow]
  BY <1>t
<1> QED BY <1>1, <1>4, <1>8, <1>9, <1>10, <1>11, BatchMoves

\* The record of the outcome, and the process dying at any point of the batch.
LEMMA EndingsKeep ==
  ASSUME SyncInv, NEW b \in Batches, RecordOutcome(b) \/ SyncCrash(b)
  PROVE  SyncInv'
<1>t. /\ SyncTypes /\ syncBatch \in [Batches -> BatchRow]
      /\ syncRecord \in [RecordKeys -> ReplayBodies \cup {"none"}] /\ executed \in [RecordKeys -> ExecutedRow]
      /\ excused \in [RecordKeys -> Nat] /\ (syncBatch[b].pc # "idle" => syncBatch[b].todo # << >>)
  BY DEF SyncInv, SyncTypes, BatchSound
<1>1. CASE RecordOutcome(b)
  <2>0. syncBatch[b].pc = "record" /\ UNCHANGED <<lenderOpen, executed>>
    BY <1>1 DEF RecordOutcome
  <2>1. \E result : Advance(b, result)
    BY <1>1 DEF RecordOutcome
  <2>2. PICK row \in BatchRow : /\ syncBatch' = [syncBatch EXCEPT ![b] = row] /\ row.pc \in {"idle", "lookup"}
                                /\ row.pc # "idle" => row.todo # << >>
    <3>1. syncBatch[b].todo # << >>
      BY <1>t, <2>0
    <3> QED BY <1>t, <2>1, <3>1, AdvanceTo
  <2>3. \/ syncRecord' = [syncRecord EXCEPT ![RecordKey(Current(b))] = Current(b).body] /\ UNCHANGED excused
        \/ excused' = [excused EXCEPT ![RecordKey(Current(b))] = @ + 1] /\ UNCHANGED syncRecord
    BY <1>1 DEF RecordOutcome, CreateIdempotencyRecord
  <2> QED BY <2>0, <2>2, <2>3, RecorderLeaves
<1>2. CASE SyncCrash(b) /\ syncBatch[b].pc = "record"
  <2>1. /\ syncBatch' = [syncBatch EXCEPT ![b] = IdleBatch] /\ UNCHANGED <<lenderOpen, executed>>
        /\ excused' = [excused EXCEPT ![RecordKey(Current(b))] = @ + 1] /\ UNCHANGED syncRecord
    BY <1>2 DEF SyncCrash
  <2> QED BY <1>2, <2>1, IdleBatchIs, RecorderLeaves
<1>3. CASE SyncCrash(b) /\ syncBatch[b].pc # "record"
  <2>1. syncBatch' = [syncBatch EXCEPT ![b] = IdleBatch] /\ UNCHANGED <<lenderOpen, executed, excused, syncRecord>>
    BY <1>3 DEF SyncCrash
  <2>2. \A j : Recording(j)' = Recording(j)
    BY <1>t, <1>3, <2>1, IdleBatchIs, RecordersStay
  <2>3. \A j \in RecordKeys : KeyPaid(j)'
    BY <2>1, <2>2 DEF SyncInv, KeyPaid, Times
  <2>4. BatchSound(b)'
    BY <1>t, <2>1, IdleBatchIs DEF BatchSound
  <2>5. \A j \in RecordKeys : executed'[j].times >= executed[j].times /\ executed[j].bodies \subseteq executed'[j].bodies
    <3>1. \A j \in RecordKeys : executed[j].times \in Nat
      BY <1>t DEF ExecutedRow
    <3>2. \A n \in Nat : n >= n
      OBVIOUS
    <3> QED BY <2>1, <3>1, <3>2
  <2>6. IdleBatch \in BatchRow /\ UNCHANGED lenderOpen
    BY <2>1, IdleBatchIs
  <2>7. /\ executed' \in [RecordKeys -> ExecutedRow] /\ syncRecord' \in [RecordKeys -> ReplayBodies \cup {"none"}]
        /\ excused' \in [RecordKeys -> Nat]
    BY <1>t, <2>1
  <2>8. \A j \in RecordKeys : executed'[j].times = executed[j].times =>
           /\ Recording(j)' \subseteq Recording(j)
           /\ Recording(j) = {} => syncRecord'[j] = syncRecord[j] \/ syncRecord'[j] = "none"
    BY <2>1, <2>2
  <2>9. syncBatch' = [syncBatch EXCEPT ![b] = IdleBatch]
    BY <2>1
  <2> QED BY <2>3, <2>4, <2>5, <2>6, <2>7, <2>8, <2>9, BatchMoves
<1> QED BY <1>1, <1>2, <1>3

\* A record that lapses excuses one more execution of its key.
LEMMA LapsesKeep ==
  ASSUME SyncInv, NEW k \in RecordKeys, RecordLapses(k)
  PROVE  SyncInv'
<1>t. /\ syncRecord \in [RecordKeys -> ReplayBodies \cup {"none"}] /\ executed \in [RecordKeys -> ExecutedRow]
      /\ excused \in [RecordKeys -> Nat] /\ excused[k] \in Nat /\ excused[k] + 1 \in Nat
  BY DEF SyncInv, SyncTypes
<1>0. /\ syncRecord' = [syncRecord EXCEPT ![k] = "none"] /\ UNCHANGED <<syncBatch, lenderOpen, executed>>
      /\ excused' = [excused EXCEPT ![k] = @ + 1]
  BY DEF RecordLapses
<1>1. SyncTypes'
  BY <1>t, <1>0 DEF SyncInv, SyncTypes
<1>2. \A j : Recording(j)' = Recording(j)
  BY <1>0 DEF Recording, Current
<1>3. \A j \in RecordKeys : syncRecord'[j] = syncRecord[j] \/ syncRecord'[j] = "none"
  BY <1>t, <1>0
<1>4. ASSUME NEW c \in Batches PROVE BatchSound(c)'
  <2>1. BatchSound(c) /\ Current(c)' = Current(c)
    BY <1>0 DEF SyncInv, Current
  <2>2. syncBatch[c].pc # "idle" => RecordKey(Current(c)) \in RecordKeys
    BY <2>1, HeadIs DEF SyncInv, BatchSound
  <2> QED BY <1>0, <1>2, <1>3, <2>1, <2>2 DEF BatchSound, Times, RecordKey
<1>5. ASSUME NEW j \in RecordKeys PROVE KeyPaid(j)'
  <2>1. CASE j = k
    <3>1. excused'[k] = excused[k] + 1 /\ syncRecord'[k] = "none"
      BY <1>t, <1>0
    <3>2. PICK n \in Nat, e \in Nat : n = executed[k].times /\ e = excused[k]
      BY <1>t DEF ExecutedRow
    <3>3. n <= 1 + e /\ Times(k)' = n /\ Cardinality(Recording(k)) <= n
      BY <1>0, <3>2 DEF SyncInv, KeyPaid, Times
    <3> QED BY <1>2, <2>1, <3>1, <3>2, <3>3 DEF KeyPaid
  <2>2. CASE j # k
    <3>1. excused'[j] = excused[j] /\ syncRecord'[j] = syncRecord[j]
      BY <1>t, <1>0, <2>2
    <3> QED BY <1>0, <1>2, <3>1 DEF SyncInv, KeyPaid, Times
  <2> QED BY <2>1, <2>2
<1> QED BY <1>1, <1>4, <1>5 DEF SyncInv

\* Nothing the invariant speaks of changes.
LEMMA SyncRests ==
  ASSUME SyncInv, UNCHANGED <<syncBatch, syncRecord, executed, excused>>, lenderOpen' \in BOOLEAN
  PROVE  SyncInv'
<1>1. SyncTypes'
  BY DEF SyncInv, SyncTypes
<1>2. \A j : Recording(j)' = Recording(j)
  BY DEF Recording, Current
<1>3. \A c \in Batches : BatchSound(c)'
  BY <1>2 DEF SyncInv, BatchSound, Times, RecordKey, Current
<1>4. \A k \in RecordKeys : KeyPaid(k)'
  BY <1>2 DEF SyncInv, KeyPaid, Times
<1> QED BY <1>1, <1>3, <1>4 DEF SyncInv

\* Every step of the offline replay preserves the invariant.
LEMMA SyncKeeps == SyncInv /\ [SyncNext]_syncVars => SyncInv'
<1> SUFFICES ASSUME SyncInv, [SyncNext]_syncVars PROVE SyncInv'
  OBVIOUS
<1>1. CASE \E b \in Batches : (\E u \in SyncUsers, q \in ActionQueues : StartSync(b, u, q)) \/ LookUp(b)
  BY <1>1, LookUpsKeep
<1>2. CASE \E b \in Batches : Execute(b)
  BY <1>2, CarryingOutKeeps
<1>3. CASE \E b \in Batches : RecordOutcome(b) \/ SyncCrash(b)
  BY <1>3, EndingsKeep
<1>4. CASE \E k \in RecordKeys : RecordLapses(k)
  BY <1>4, LapsesKeep
<1>5. CASE LenderSwitched \/ UNCHANGED syncVars
  <2>1. UNCHANGED <<syncBatch, syncRecord, executed, excused>> /\ lenderOpen' \in BOOLEAN
    BY <1>5 DEF LenderSwitched, syncVars, SyncInv, SyncTypes
  <2> QED BY <2>1, SyncRests
<1> QED BY <1>1, <1>2, <1>3, <1>4, <1>5 DEF SyncNext

\* The invariant implies what the run checks.
LEMMA SyncInvImplies == SyncInv => SyncTypeOK /\ ReplayedOnce /\ RecordedWasDone
BY DEF SyncInv, SyncTypes, SyncTypeOK, BatchRow, ExecutedRow, KeyPaid, ReplayedOnce, RecordedWasDone

-----------------------------------------------------------------------------
(* Idempotency keys.                                                         *)

RequestRow == [pc : {"idle", "lookup", "handle", "store"}, key : HttpKeys \cup {"none"}, payload : Payloads \cup {"none"}]
StoredResponse == [key : HttpKeys, payload : Payloads]

\* The requests that found no answer under k and have not stored theirs.
BusyWith(k) == {r \in Requests : httpRequest[r].pc \in {"handle", "store"} /\ httpRequest[r].key = k}

\* A key that lost nothing: one request at a time, handled for the first time,
\* and what was handled is stored where a look-up finds it or about to be.
KeyIsKept(k) ==
  /\ \A q, r \in BusyWith(k) : q = r
  /\ \A r \in BusyWith(k) : httpRequest[r].pc = "handle" => handled[k] = 0
  /\ handled[k] \in {0, 1}
  /\ handled[k] = 1 => \/ redisStore[k] # "none" \/ k \in MemoryKeys
                       \/ \E r \in BusyWith(k) : httpRequest[r].pc = "store"
  /\ k \in MemoryKeys => redisLink # "ready"

HttpTypes ==
  /\ httpRequest \in [Requests -> RequestRow]
  /\ redisLink \in {"unattempted", "connecting", "ready", "unavailable"}
  /\ redisStore \in [HttpKeys -> Payloads \cup {"none"}]
  /\ memoryStore \in Seq(StoredResponse) /\ Len(memoryStore) <= MemoryLimit
  /\ handled \in [HttpKeys -> 0..MaxHandled]
  /\ forgotten \subseteq HttpKeys

HttpInv ==
  /\ HttpTypes
  /\ \A r \in Requests : httpRequest[r].pc # "idle" => httpRequest[r].key \in HttpKeys /\ httpRequest[r].payload \in Payloads
  /\ \A k \in HttpKeys \ forgotten : KeyIsKept(k)

\* The idle row.
LEMMA IdleRequestIs == IdleRequest \in RequestRow /\ IdleRequest.pc = "idle"
BY DEF IdleRequest, RequestRow

\* A key is in the Map exactly when its look-up there answers.
LEMMA MemoryAnswers ==
  ASSUME HttpTypes, NEW k
  PROVE  MemoryGet(k) # "none" <=> k \in MemoryKeys
<1>1. CASE k \notin MemoryKeys
  BY <1>1 DEF MemoryGet
<1>2. CASE k \in MemoryKeys
  <2>1. PICK i : i = CHOOSE j \in DOMAIN memoryStore : memoryStore[j].key = k
    OBVIOUS
  <2>2. i \in DOMAIN memoryStore
    BY <1>2, <2>1 DEF MemoryKeys
  <2>3. memoryStore[i] \in StoredResponse
    BY <2>2 DEF HttpTypes
  <2>4. memoryStore[i].payload # "none"
    BY <2>3, HttpAssumption DEF StoredResponse
  <2>5. MemoryGet(k) = memoryStore[i].payload
    BY <1>2, <2>1 DEF MemoryGet
  <2> QED BY <1>2, <2>4, <2>5
<1> QED BY <1>1, <1>2

\* The Map holds storage keys.
LEMMA MemoryKeysAre == HttpTypes => MemoryKeys \subseteq HttpKeys
<1> SUFFICES ASSUME HttpTypes, NEW i \in DOMAIN memoryStore PROVE memoryStore[i].key \in HttpKeys
  BY DEF MemoryKeys
<1>1. memoryStore[i] \in StoredResponse
  BY DEF HttpTypes
<1> QED BY <1>1 DEF StoredResponse

\* Storing keeps the limit and leaves the key stored, whatever it evicts.
LEMMA MemorySetStores ==
  ASSUME HttpTypes, NEW k \in HttpKeys, NEW p \in Payloads
  PROVE  /\ MemorySet(k, p) \in Seq(StoredResponse) /\ Len(MemorySet(k, p)) <= MemoryLimit
         /\ \E i \in DOMAIN MemorySet(k, p) : MemorySet(k, p)[i].key = k
         /\ \A i \in DOMAIN MemorySet(k, p) : MemorySet(k, p)[i].key \in MemoryKeys \cup {k}
<1> DEFINE entry == [key |-> k, payload |-> p]
           n == Len(memoryStore)
<1>1. entry \in StoredResponse /\ entry.key = k
  BY DEF StoredResponse
<1>2. memoryStore \in Seq(StoredResponse) /\ n \in Nat /\ n <= MemoryLimit /\ DOMAIN memoryStore = 1..n
      /\ MemoryLimit \in Nat /\ MemoryLimit >= 1
  BY HttpAssumption DEF HttpTypes
<1>3. CASE k \in MemoryKeys
  <2> DEFINE placed == [i \in DOMAIN memoryStore |-> IF memoryStore[i].key = k THEN entry ELSE memoryStore[i]]
  <2>e. /\ placed = [i \in 1..n |-> IF memoryStore[i].key = k THEN entry ELSE memoryStore[i]]
        /\ \A i \in 1..n : memoryStore[i] \in StoredResponse
    BY <1>2
  <2> HIDE DEF entry
  <2>1. placed \in Seq(StoredResponse) /\ Len(placed) = n
    <3>1. \A i \in 1..n : placed[i] \in StoredResponse
      BY <1>1, <2>e
    <3>2. placed \in [1..n -> StoredResponse]
      BY <3>1, <2>e
    <3>3. placed \in Seq(StoredResponse)
      BY <3>2, <1>2, IsASeq
    <3>4. DOMAIN placed = 1..n
      BY <2>e
    <3> QED BY <3>3, <3>4, <1>2, LenProperties
  <2>m. MemorySet(k, p) = IF Len(placed) > MemoryLimit THEN Tail(placed) ELSE placed
    BY <1>3 DEF MemorySet, entry
  <2>2. MemorySet(k, p) = placed
    <3> HIDE DEF placed, n
    <3> QED BY <1>2, <2>1, <2>m
  <2>3. PICK i \in DOMAIN memoryStore : memoryStore[i].key = k
    BY <1>3 DEF MemoryKeys
  <2>4. i \in DOMAIN placed /\ placed[i] = entry
    BY <2>3
  <2>5. ASSUME NEW j \in 1..n PROVE placed[j].key \in MemoryKeys \cup {k}
    <3>1. placed[j] = IF memoryStore[j].key = k THEN entry ELSE memoryStore[j]
      BY <2>e
    <3>2. memoryStore[j].key \in MemoryKeys
      BY <1>2 DEF MemoryKeys
    <3> QED BY <1>1, <3>1, <3>2
  <2>6. DOMAIN placed = 1..n
    BY <2>e
  <2> HIDE DEF placed
  <2> QED BY <1>1, <1>2, <2>1, <2>2, <2>4, <2>5, <2>6
<1>4. CASE k \notin MemoryKeys
  <2> DEFINE placed == Append(memoryStore, entry)
  <2> HIDE DEF entry
  <2>1. placed \in Seq(StoredResponse) /\ Len(placed) = n + 1 /\ placed[n + 1] = entry /\ DOMAIN placed = 1..(n + 1)
    BY <1>1, <1>2
  <2>k. ASSUME NEW j \in 1..(n + 1) PROVE placed[j].key \in MemoryKeys \cup {k}
    <3>1. CASE j = n + 1
      BY <1>1, <2>1, <3>1
    <3>2. CASE j # n + 1
      <4>1. j \in 1..n
        <5> HIDE DEF n, placed
        <5> QED BY <1>2, <3>2
      <4>2. placed[j] = memoryStore[j]
        BY <1>1, <1>2, <4>1
      <4>3. memoryStore[j].key \in MemoryKeys
        BY <1>2, <4>1 DEF MemoryKeys
      <4> QED BY <4>2, <4>3
    <3> QED BY <3>1, <3>2
  <2>2. MemorySet(k, p) = IF Len(placed) > MemoryLimit THEN Tail(placed) ELSE placed
    BY <1>4 DEF MemorySet, entry
  <2> HIDE DEF placed
  <2>3. CASE n + 1 <= MemoryLimit
    <3>1. MemorySet(k, p) = placed
      BY <1>2, <2>1, <2>2, <2>3
    <3>2. n + 1 \in DOMAIN placed
      BY <1>2, <2>1
    <3> QED BY <1>1, <2>1, <2>k, <2>3, <3>1, <3>2
  <2>4. CASE n + 1 > MemoryLimit
    <3>1. MemorySet(k, p) = Tail(placed)
      BY <1>2, <2>1, <2>2, <2>4
    <3>2. n = MemoryLimit /\ n >= 1
      <4> HIDE DEF n
      <4> QED BY <1>2, <2>4
    <3>3. Tail(placed) \in Seq(StoredResponse) /\ Len(Tail(placed)) = n
      BY <1>2, <2>1, <3>2
    <3>4. Tail(placed)[n] = placed[n + 1] /\ n \in DOMAIN Tail(placed)
      BY <1>2, <2>1, <3>2, <3>3
    <3>5. \A j \in 1..n : Tail(placed)[j] = placed[j + 1] /\ j + 1 \in 1..(n + 1)
      <4>1. placed # << >>
        BY <1>2, <2>1
      <4>2. \A j \in 1..Len(Tail(placed)) : Tail(placed)[j] = placed[j + 1]
        BY <2>1, <4>1, HeadTailProperties
      <4>3. \A j \in 1..n : j + 1 \in 1..(n + 1)
        <5> HIDE DEF n
        <5> QED BY <1>2
      <4> QED BY <3>3, <4>2, <4>3
    <3>6. \A j \in DOMAIN Tail(placed) : Tail(placed)[j].key \in MemoryKeys \cup {k}
      <4>1. DOMAIN Tail(placed) = 1..n
        BY <3>3
      <4> QED BY <2>k, <3>5, <4>1
    <3>7. \E j \in DOMAIN Tail(placed) : Tail(placed)[j].key = k
      BY <1>1, <2>1, <3>4
    <3> QED BY <1>2, <3>1, <3>2, <3>3, <3>6, <3>7
  <2> QED BY <1>2, <2>3, <2>4
<1> QED BY <1>3, <1>4

\* Taking one entry out leaves the entries of every other key.
LEMMA RemovedOne ==
  ASSUME HttpTypes, NEW i \in DOMAIN memoryStore
  PROVE  /\ RemoveAt(memoryStore, i) \in Seq(StoredResponse) /\ Len(RemoveAt(memoryStore, i)) <= MemoryLimit
         /\ \A j \in DOMAIN RemoveAt(memoryStore, i) : \E m \in DOMAIN memoryStore : RemoveAt(memoryStore, i)[j] = memoryStore[m]
         /\ \A m \in DOMAIN memoryStore \ {i} : \E j \in DOMAIN RemoveAt(memoryStore, i) : RemoveAt(memoryStore, i)[j] = memoryStore[m]
<1> DEFINE n == Len(memoryStore)
<1>1. memoryStore \in Seq(StoredResponse) /\ n \in Nat /\ n <= MemoryLimit /\ DOMAIN memoryStore = 1..n /\ i \in 1..n
      /\ MemoryLimit \in Nat
  BY HttpAssumption DEF HttpTypes
<1> DEFINE a == SubSeq(memoryStore, 1, i - 1)
           b == SubSeq(memoryStore, i + 1, n)
<1>2. a \in Seq(StoredResponse) /\ Len(a) = i - 1 /\ \A j \in 1..(i - 1) : a[j] = memoryStore[j]
  BY <1>1
<1>3. b \in Seq(StoredResponse) /\ Len(b) = n - i /\ \A j \in 1..(n - i) : b[j] = memoryStore[i + j]
  <2>1. b \in Seq(StoredResponse) /\ Len(b) = n - i
    BY <1>1
  <2>2. ASSUME NEW j \in 1..(n - i) PROVE b[j] = memoryStore[i + j]
    BY <1>1
  <2> QED BY <2>1, <2>2
<1> DEFINE c == a \o b
<1>4. RemoveAt(memoryStore, i) = c
  BY DEF RemoveAt
<1> HIDE DEF a, b
<1>5. c \in Seq(StoredResponse) /\ Len(c) = n - 1 /\ DOMAIN c = 1..(n - 1)
      /\ \A j \in 1..(n - 1) : c[j] = IF j <= i - 1 THEN a[j] ELSE b[j - (i - 1)]
  <2> HIDE DEF n
  <2>1. c \in Seq(StoredResponse) /\ Len(c) = Len(a) + Len(b)
        /\ \A j \in 1..(Len(a) + Len(b)) : c[j] = IF j <= Len(a) THEN a[j] ELSE b[j - Len(a)]
    BY <1>2, <1>3, ConcatProperties
  <2>2. Len(a) = i - 1 /\ Len(b) = n - i /\ Len(a) + Len(b) = n - 1
    BY <1>1, <1>2, <1>3
  <2> HIDE DEF c
  <2>3. DOMAIN c = 1..Len(c)
    BY <2>1
  <2> QED BY <2>1, <2>2, <2>3
<1> HIDE DEF c
<1>6. ASSUME NEW j \in 1..(n - 1) PROVE \E m \in 1..n : c[j] = memoryStore[m]
  <2>1. CASE j <= i - 1
    <3>1. c[j] = memoryStore[j] /\ j \in 1..n
      BY <1>1, <1>2, <1>5, <2>1
    <3> QED BY <3>1
  <2>2. CASE ~(j <= i - 1)
    <3>1. j - (i - 1) \in 1..(n - i) /\ j + 1 \in 1..n /\ i + (j - (i - 1)) = j + 1
      BY <1>1, <2>2
    <3>2. c[j] = memoryStore[j + 1]
      BY <1>3, <1>5, <2>2, <3>1
    <3> QED BY <3>1, <3>2
  <2> QED BY <2>1, <2>2
<1>7. ASSUME NEW m \in 1..n, m # i PROVE \E j \in 1..(n - 1) : c[j] = memoryStore[m]
  <2>1. CASE m < i
    <3>1. m \in 1..(n - 1) /\ m <= i - 1 /\ m \in 1..(i - 1)
      BY <1>1, <2>1
    <3>2. c[m] = memoryStore[m]
      BY <1>2, <1>5, <3>1
    <3> QED BY <3>1, <3>2
  <2>2. CASE m > i
    <3>1. m - 1 \in 1..(n - 1) /\ ~(m - 1 <= i - 1) /\ (m - 1) - (i - 1) \in 1..(n - i) /\ i + ((m - 1) - (i - 1)) = m
      BY <1>1, <2>2
    <3>2. c[m - 1] = memoryStore[m]
      BY <1>3, <1>5, <3>1
    <3> QED BY <3>1, <3>2
  <2> QED BY <1>1, <1>7, <2>1, <2>2
<1>8. n - 1 <= MemoryLimit
  <2> HIDE DEF n
  <2> QED BY <1>1
<1> HIDE DEF n
<1> QED BY <1>1, <1>4, <1>5, <1>6, <1>7, <1>8

\* No request has come at the start.
LEMMA HttpStarts == HttpInit => HttpInv
<1> SUFFICES ASSUME HttpInit PROVE HttpInv
  OBVIOUS
<1>1. HttpTypes /\ \A r \in Requests : httpRequest[r].pc = "idle"
  <2>1. memoryStore \in Seq(StoredResponse) /\ Len(memoryStore) = 0
    BY DEF HttpInit
  <2> QED BY <2>1, IdleRequestIs, HttpAssumption DEF HttpInit, HttpTypes
<1>2. \A k : BusyWith(k) = {} /\ k \notin MemoryKeys
  BY <1>1 DEF BusyWith, HttpInit, MemoryKeys
<1>3. \A k \in HttpKeys : handled[k] = 0
  BY DEF HttpInit
<1> QED BY <1>1, <1>2, <1>3 DEF HttpInv, KeyIsKept

\* A request's own step: its row and what it leaves elsewhere.
LEMMA RequestMoves ==
  ASSUME HttpInv, NEW r \in Requests, NEW row \in RequestRow, httpRequest' = [httpRequest EXCEPT ![r] = row],
         row.pc # "idle" => row.key \in HttpKeys /\ row.payload \in Payloads,
         redisLink' \in {"unattempted", "connecting", "ready", "unavailable"},
         redisStore' \in [HttpKeys -> Payloads \cup {"none"}],
         memoryStore' \in Seq(StoredResponse), Len(memoryStore') <= MemoryLimit,
         handled' \in [HttpKeys -> 0..MaxHandled], forgotten' \subseteq HttpKeys,
         \A k \in HttpKeys \ forgotten' : KeyIsKept(k)'
  PROVE  HttpInv'
<1>1. HttpTypes'
  BY DEF HttpInv, HttpTypes
<1> QED BY <1>1 DEF HttpInv, HttpTypes

\* A key whose requests, count and stored answers are left alone stays kept.
LEMMA KeyQuiet ==
  ASSUME NEW k, KeyIsKept(k), BusyWith(k)' = BusyWith(k), \A r \in BusyWith(k) : httpRequest'[r] = httpRequest[r],
         handled'[k] = handled[k], redisStore[k] # "none" => redisStore'[k] # "none", (k \in MemoryKeys)' <=> k \in MemoryKeys,
         k \in MemoryKeys /\ redisLink # "ready" => redisLink' # "ready"
  PROVE  KeyIsKept(k)'
BY DEF KeyIsKept

\* A request of another key moves without the requests of k.
LEMMA OtherKey ==
  ASSUME HttpTypes, NEW r \in Requests, NEW c, NEW row, httpRequest' = [httpRequest EXCEPT ![r] = row],
         httpRequest[r].pc \in {"handle", "store"} => httpRequest[r].key = c,
         row.pc \in {"handle", "store"} => row.key = c, NEW k, k # c
  PROVE  BusyWith(k)' = BusyWith(k) /\ \A q \in BusyWith(k) : httpRequest'[q] = httpRequest[q]
BY DEF HttpTypes, BusyWith

\* A request looks its key up, is handled, and its answer is stored.
LEMMA RequestsKeep ==
  ASSUME HttpInv, NEW r \in Requests,
         \/ \E k \in HttpKeys, p \in Payloads : Arrive(r, k, p)
         \/ Lookup(r) \/ Handle(r) \/ StoreResponse(r)
  PROVE  HttpInv'
<1>t. /\ HttpTypes /\ httpRequest \in [Requests -> RequestRow] /\ httpRequest[r] \in RequestRow
      /\ redisLink \in {"unattempted", "connecting", "ready", "unavailable"}
      /\ redisStore \in [HttpKeys -> Payloads \cup {"none"}]
      /\ memoryStore \in Seq(StoredResponse) /\ Len(memoryStore) <= MemoryLimit
      /\ handled \in [HttpKeys -> 0..MaxHandled] /\ forgotten \subseteq HttpKeys
      /\ IdleRequest \in RequestRow /\ IdleRequest.pc = "idle"
      /\ MaxHandled \in Nat
  BY IdleRequestIs, HttpAssumption DEF HttpInv, HttpTypes
<1>m. ASSUME UNCHANGED memoryStore PROVE MemoryKeys' = MemoryKeys
  BY <1>m DEF MemoryKeys
<1>1. ASSUME NEW k \in HttpKeys, NEW p \in Payloads, Arrive(r, k, p) PROVE HttpInv'
  <2> DEFINE row == [pc |-> "lookup", key |-> k, payload |-> p]
  <2>1. row \in RequestRow /\ row.pc = "lookup" /\ row.key \in HttpKeys /\ row.payload \in Payloads
    BY DEF RequestRow
  <2>2. /\ httpRequest' = [httpRequest EXCEPT ![r] = row] /\ httpRequest[r].pc = "idle"
        /\ UNCHANGED <<redisLink, redisStore, memoryStore, handled, forgotten>>
    BY <1>1 DEF Arrive
  <2> HIDE DEF row
  <2>3. \A j : BusyWith(j)' = BusyWith(j) /\ \A q \in BusyWith(j) : httpRequest'[q] = httpRequest[q]
    BY <1>t, <2>1, <2>2 DEF BusyWith
  <2>4. ASSUME NEW j \in HttpKeys \ forgotten' PROVE KeyIsKept(j)'
    <3>1. KeyIsKept(j)
      BY <2>2 DEF HttpInv
    <3> QED BY <1>m, <2>2, <2>3, <3>1, KeyQuiet
  <2> QED BY <1>t, <2>1, <2>2, <2>4, RequestMoves
<1>2. CASE Lookup(r)
  <2>k. PICK k : k = httpRequest[r].key
    OBVIOUS
  <2>0. k \in HttpKeys /\ httpRequest[r].payload \in Payloads /\ httpRequest[r].pc = "lookup"
    BY <1>2, <2>k DEF HttpInv, Lookup
  <2>1. /\ redisLink' \in {"unattempted", "connecting", "ready", "unavailable"}
        /\ redisLink # "ready" => redisLink' # "ready"
        /\ UNCHANGED <<redisStore, memoryStore, handled>>
    BY <1>t, <1>2 DEF Lookup, FetchRedisClient
  <2>2. CASE httpRequest' = [httpRequest EXCEPT ![r] = IdleRequest] /\ UNCHANGED forgotten
    <3>3. \A j : BusyWith(j)' = BusyWith(j) /\ \A q \in BusyWith(j) : httpRequest'[q] = httpRequest[q]
      BY <1>t, <2>0, <2>2 DEF BusyWith
    <3>4. ASSUME NEW j \in HttpKeys \ forgotten' PROVE KeyIsKept(j)'
      <4>1. KeyIsKept(j)
        BY <2>2 DEF HttpInv
      <4> QED BY <1>m, <2>1, <3>3, <4>1, KeyQuiet
    <3> QED BY <1>t, <2>1, <2>2, <3>4, RequestMoves
  <2>3. ASSUME NEW found \in FetchStoredResponse(k), found = "none",
               httpRequest' = [httpRequest EXCEPT ![r].pc = "handle"],
               forgotten' = IF Racing(r, k) \/ redisStore[k] # "none" THEN forgotten \cup {k} ELSE forgotten
        PROVE  HttpInv'
    <3>1. PICK row : row = [httpRequest[r] EXCEPT !.pc = "handle"]
      OBVIOUS
    <3>2. row \in RequestRow /\ row.pc = "handle" /\ row.key = k /\ row.payload = httpRequest[r].payload
      BY <1>t, <2>k, <3>1 DEF RequestRow
    <3>3. httpRequest' = [httpRequest EXCEPT ![r] = row]
      BY <1>t, <2>3, <3>1
    <3>4. forgotten' \subseteq HttpKeys /\ forgotten \subseteq forgotten'
      BY <1>t, <2>0, <2>3
    <3>5. ASSUME NEW j \in HttpKeys \ forgotten', j # k PROVE KeyIsKept(j)'
      <4>1. KeyIsKept(j)
        BY <3>4, <3>5 DEF HttpInv
      <4>2. /\ HttpTypes /\ (httpRequest[r].pc \in {"handle", "store"} => httpRequest[r].key = k)
            /\ row.pc \in {"handle", "store"} => row.key = k
        BY <1>t, <2>k, <3>2
      <4>3. BusyWith(j)' = BusyWith(j) /\ \A q \in BusyWith(j) : httpRequest'[q] = httpRequest[q]
        BY <3>3, <3>5, <4>2, OtherKey
      <4>4. handled' = handled /\ redisStore' = redisStore /\ MemoryKeys' = MemoryKeys
            /\ (redisLink # "ready" => redisLink' # "ready")
        BY <1>m, <2>1
      <4> QED BY <4>1, <4>3, <4>4, KeyQuiet
    <3>6. ASSUME k \notin forgotten' PROVE KeyIsKept(k)'
      <4>1. KeyIsKept(k) /\ ~Racing(r, k) /\ redisStore[k] = "none"
        BY <2>0, <2>3, <3>4, <3>6 DEF HttpInv
      <4>2. BusyWith(k) = {}
        BY <2>0, <4>1 DEF Racing, BusyWith
      <4>3. BusyWith(k)' = {r} /\ httpRequest'[r] = row
        BY <1>t, <3>2, <3>3, <4>2 DEF BusyWith
      <4>4. k \notin MemoryKeys
        <5>1. CASE redisLink = "ready"
          BY <4>1, <5>1 DEF KeyIsKept
        <5>2. CASE redisLink # "ready"
          <6>1. found = MemoryGet(k)
            BY <2>3, <5>2 DEF FetchStoredResponse
          <6> QED BY <1>t, <2>3, <6>1, MemoryAnswers
        <5> QED BY <5>1, <5>2
      <4>5. handled[k] = 0
        BY <4>1, <4>2, <4>4 DEF KeyIsKept
      <4>6. handled'[k] = 0 /\ MemoryKeys' = MemoryKeys
        BY <1>m, <2>1, <4>5
      <4> QED BY <3>2, <4>3, <4>4, <4>6 DEF KeyIsKept
    <3> QED BY <1>t, <2>0, <2>1, <3>2, <3>3, <3>4, <3>5, <3>6, RequestMoves
  <2>4. PICK found \in FetchStoredResponse(k) :
           IF found # "none"
           THEN httpRequest' = [httpRequest EXCEPT ![r] = IdleRequest] /\ UNCHANGED forgotten
           ELSE /\ httpRequest' = [httpRequest EXCEPT ![r].pc = "handle"]
                /\ forgotten' = IF Racing(r, k) \/ redisStore[k] # "none" THEN forgotten \cup {k} ELSE forgotten
    BY <1>2, <2>k DEF Lookup
  <2> QED BY <2>2, <2>3, <2>4
<1>3. CASE Handle(r)
  <2>k. PICK k : k = httpRequest[r].key
    OBVIOUS
  <2>0. k \in HttpKeys /\ httpRequest[r].payload \in Payloads /\ httpRequest[r].pc = "handle"
    BY <1>3, <2>k DEF HttpInv, Handle
  <2>1. UNCHANGED <<redisLink, redisStore, memoryStore>>
    BY <1>3 DEF Handle
  <2>2. PICK row : row = [httpRequest[r] EXCEPT !.pc = "store"]
    OBVIOUS
  <2>3. row \in RequestRow /\ row.pc = "store" /\ row.key = k /\ row.payload = httpRequest[r].payload
    BY <1>t, <2>k, <2>2 DEF RequestRow
  <2>4. \/ /\ httpRequest' = [httpRequest EXCEPT ![r] = row] /\ UNCHANGED forgotten
        \/ /\ httpRequest' = [httpRequest EXCEPT ![r] = IdleRequest] /\ forgotten' = forgotten \cup {k}
    BY <1>t, <1>3, <2>k, <2>2 DEF Handle
  <2>5. handled' = handled \/ (handled[k] < MaxHandled /\ handled' = [handled EXCEPT ![k] = handled[k] + 1])
    BY <1>3, <2>k DEF Handle
  <2>6. handled' \in [HttpKeys -> 0..MaxHandled] /\ \A j \in HttpKeys : j # k => handled'[j] = handled[j]
    <3>1. CASE handled' = handled
      BY <1>t, <3>1
    <3>2. CASE handled[k] < MaxHandled /\ handled' = [handled EXCEPT ![k] = handled[k] + 1]
      <4>1. handled[k] + 1 \in 0..MaxHandled
        BY <1>t, <2>0, <3>2
      <4> QED BY <1>t, <2>0, <3>2, <4>1
    <3> QED BY <2>5, <3>1, <3>2
  <2>7. PICK to \in RequestRow : httpRequest' = [httpRequest EXCEPT ![r] = to] /\ (to = row \/ to = IdleRequest)
    BY <1>t, <2>3, <2>4
  <2>8. ASSUME NEW j \in HttpKeys \ forgotten', j # k PROVE KeyIsKept(j)'
    <3>1. KeyIsKept(j)
      BY <2>4, <2>8 DEF HttpInv
    <3>2. /\ HttpTypes /\ (httpRequest[r].pc \in {"handle", "store"} => httpRequest[r].key = k)
          /\ to.pc \in {"handle", "store"} => to.key = k
      BY <1>t, <2>k, <2>3, <2>7
    <3>3. BusyWith(j)' = BusyWith(j) /\ \A q \in BusyWith(j) : httpRequest'[q] = httpRequest[q]
      BY <2>7, <2>8, <3>2, OtherKey
    <3> QED BY <1>m, <2>1, <2>6, <2>8, <3>1, <3>3, KeyQuiet
  <2>9. ASSUME k \notin forgotten' PROVE KeyIsKept(k)'
    <3>1. KeyIsKept(k) /\ httpRequest' = [httpRequest EXCEPT ![r] = row]
      BY <2>0, <2>4, <2>9 DEF HttpInv
    <3>2. r \in BusyWith(k)
      BY <2>0, <2>k DEF BusyWith
    <3>3. BusyWith(k) = {r} /\ handled[k] = 0
      BY <2>0, <3>1, <3>2 DEF KeyIsKept
    <3>4. BusyWith(k)' = {r} /\ httpRequest'[r].pc = "store"
      BY <1>t, <2>3, <3>1, <3>3 DEF BusyWith
    <3>5. handled'[k] \in {0, 1}
      BY <1>t, <2>0, <2>5, <3>3
    <3>6. MemoryKeys' = MemoryKeys /\ redisLink' = redisLink
      BY <1>m, <2>1
    <3> QED BY <3>1, <3>4, <3>5, <3>6 DEF KeyIsKept
  <2>10. forgotten' \subseteq HttpKeys
    BY <1>t, <2>0, <2>4
  <2> QED BY <1>t, <2>0, <2>1, <2>3, <2>6, <2>7, <2>8, <2>9, <2>10, RequestMoves
<1>4. CASE StoreResponse(r)
  <2>k. PICK k, p : k = httpRequest[r].key /\ p = httpRequest[r].payload
    OBVIOUS
  <2>0. k \in HttpKeys /\ p \in Payloads /\ httpRequest[r].pc = "store"
    BY <1>4, <2>k DEF HttpInv, StoreResponse
  <2>1. /\ redisLink' \in {"unattempted", "connecting", "ready", "unavailable"}
        /\ redisLink # "ready" => redisLink' # "ready"
        /\ handled' = handled /\ httpRequest' = [httpRequest EXCEPT ![r] = IdleRequest]
    BY <1>t, <1>4 DEF StoreResponse, FetchRedisClient
  <2>2. \A j : j # k => BusyWith(j)' = BusyWith(j) /\ \A q \in BusyWith(j) : httpRequest'[q] = httpRequest[q]
    BY <1>t, <2>1, <2>k, OtherKey
  <2>3. ASSUME k \notin forgotten PROVE KeyIsKept(k) /\ BusyWith(k)' = {}
    <3>1. KeyIsKept(k) /\ r \in BusyWith(k)
      BY <2>0, <2>3, <2>k DEF HttpInv, BusyWith
    <3>2. BusyWith(k) = {r}
      BY <3>1 DEF KeyIsKept
    <3> QED BY <1>t, <2>1, <3>1, <3>2 DEF BusyWith
  <2>4. CASE redisLink = "ready" /\ redisStore' = [redisStore EXCEPT ![k] = p] /\ UNCHANGED <<memoryStore, forgotten>>
    <3>1. redisStore' \in [HttpKeys -> Payloads \cup {"none"}] /\ redisStore'[k] = p /\ p # "none"
          /\ \A j \in HttpKeys : j # k => redisStore'[j] = redisStore[j]
      BY <1>t, <2>0, <2>4, HttpAssumption
    <3>2. ASSUME NEW j \in HttpKeys \ forgotten', j # k PROVE KeyIsKept(j)'
      <4>1. KeyIsKept(j)
        BY <2>4, <3>2 DEF HttpInv
      <4> QED BY <1>m, <2>1, <2>2, <2>4, <3>1, <3>2, <4>1, KeyQuiet
    <3>3. ASSUME k \notin forgotten' PROVE KeyIsKept(k)'
      <4>1. KeyIsKept(k) /\ BusyWith(k)' = {}
        BY <2>3, <2>4, <3>3
      <4>2. k \notin MemoryKeys'
        BY <1>m, <2>4, <4>1 DEF KeyIsKept
      <4> QED BY <2>1, <3>1, <4>1, <4>2 DEF KeyIsKept
    <3> QED BY <1>t, <2>1, <2>4, <3>1, <3>2, <3>3, RequestMoves
  <2>5. CASE /\ memoryStore' = MemorySet(k, p) /\ UNCHANGED redisStore
             /\ forgotten' = forgotten \cup Evicted(k, p) \cup (IF redisLink = "ready" THEN {k} ELSE {})
    <3>1. /\ memoryStore' \in Seq(StoredResponse) /\ Len(memoryStore') <= MemoryLimit /\ k \in MemoryKeys'
      <4>1. PICK store : store = MemorySet(k, p)
        OBVIOUS
      <4>2. /\ store \in Seq(StoredResponse) /\ Len(store) <= MemoryLimit
            /\ \E i \in DOMAIN store : store[i].key = k
        BY <1>t, <2>0, <4>1, MemorySetStores
      <4>3. memoryStore' = store
        BY <2>5, <4>1
      <4>4. k \in MemoryKeys'
        BY <4>2, <4>3 DEF MemoryKeys
      <4> QED BY <4>2, <4>3, <4>4
    <3>2. Evicted(k, p) = MemoryKeys \ MemoryKeys'
      BY <2>5 DEF Evicted, MemoryKeys
    <3>3. MemoryKeys \subseteq HttpKeys
      BY <1>t, MemoryKeysAre
    <3>4. forgotten' \subseteq HttpKeys /\ forgotten \subseteq forgotten'
      BY <1>t, <2>0, <2>5, <3>2, <3>3
    <3>5. MemoryKeys' \subseteq MemoryKeys \cup {k}
      <4>1. \A i \in DOMAIN MemorySet(k, p) : MemorySet(k, p)[i].key \in MemoryKeys \cup {k}
        BY <1>t, <2>0, MemorySetStores
      <4> QED BY <2>5, <4>1 DEF MemoryKeys
    <3>6. ASSUME NEW j \in HttpKeys \ forgotten', j # k PROVE KeyIsKept(j)'
      <4>1. KeyIsKept(j)
        BY <3>4, <3>6 DEF HttpInv
      <4>2. (j \in MemoryKeys)' <=> j \in MemoryKeys
        BY <2>5, <3>2, <3>5, <3>6
      <4> QED BY <2>1, <2>2, <2>5, <3>6, <4>1, <4>2, KeyQuiet
    <3>7. ASSUME k \notin forgotten' PROVE KeyIsKept(k)'
      <4>1. KeyIsKept(k) /\ BusyWith(k)' = {} /\ redisLink # "ready"
        BY <2>3, <2>5, <3>4, <3>7
      <4> QED BY <2>1, <3>1, <4>1 DEF KeyIsKept
    <3> QED BY <1>t, <2>1, <2>5, <3>1, <3>4, <3>6, <3>7, RequestMoves
  <2> QED BY <1>4, <2>k, <2>4, <2>5 DEF StoreResponse
<1> QED BY <1>1, <1>2, <1>3, <1>4

\* Every step of the idempotency layer preserves the invariant.
LEMMA HttpKeeps == HttpInv /\ [HttpNext]_httpVars => HttpInv'
<1> SUFFICES ASSUME HttpInv, [HttpNext]_httpVars PROVE HttpInv'
  OBVIOUS
<1>t. /\ HttpTypes /\ httpRequest \in [Requests -> RequestRow]
      /\ redisStore \in [HttpKeys -> Payloads \cup {"none"}]
      /\ memoryStore \in Seq(StoredResponse) /\ Len(memoryStore) <= MemoryLimit
      /\ forgotten \subseteq HttpKeys /\ MemoryLimit \in Nat
      /\ redisLink \in {"unattempted", "connecting", "ready", "unavailable"}
      /\ IdleRequest \in RequestRow /\ IdleRequest.pc = "idle"
  BY IdleRequestIs, HttpAssumption DEF HttpInv, HttpTypes
<1>k. MemoryKeys \subseteq HttpKeys
  BY <1>t, MemoryKeysAre
\* Steps of the stores alone.
<1>0. ASSUME UNCHANGED <<httpRequest, handled>>, HttpTypes', forgotten \subseteq forgotten',
             \A k \in HttpKeys \ forgotten' :
               /\ redisStore'[k] = redisStore[k] /\ (k \in MemoryKeys' <=> k \in MemoryKeys)
               /\ k \in MemoryKeys => redisLink' # "ready" \/ redisLink = "ready"
      PROVE  HttpInv'
  <2>1. ASSUME NEW k \in HttpKeys \ forgotten' PROVE KeyIsKept(k)'
    <3>1. BusyWith(k)' = BusyWith(k) /\ KeyIsKept(k)
      BY <1>0 DEF BusyWith, HttpInv
    <3> QED BY <1>0, <3>1, KeyQuiet
  <2> QED BY <1>0, <2>1 DEF HttpInv
<1>1. ASSUME NEW c \in HttpKeys, ResponseExpires(c) PROVE HttpInv'
  <2>1. UNCHANGED <<httpRequest, redisLink, handled>> /\ forgotten' = forgotten \cup {c}
    BY <1>1 DEF ResponseExpires
  <2>2. CASE UNCHANGED redisStore /\ \E i \in DOMAIN memoryStore :
                memoryStore[i].key = c /\ memoryStore' = RemoveAt(memoryStore, i)
    <3>1. PICK i \in DOMAIN memoryStore : memoryStore[i].key = c /\ memoryStore' = RemoveAt(memoryStore, i)
      BY <2>2
    <3>2. /\ memoryStore' \in Seq(StoredResponse) /\ Len(memoryStore') <= MemoryLimit
          /\ \A j \in DOMAIN memoryStore' : \E m \in DOMAIN memoryStore : memoryStore'[j] = memoryStore[m]
          /\ \A m \in DOMAIN memoryStore \ {i} : \E j \in DOMAIN memoryStore' : memoryStore'[j] = memoryStore[m]
      BY <1>t, <3>1, RemovedOne
    <3>3. \A k : k # c => (k \in MemoryKeys' <=> k \in MemoryKeys)
      <4>1. \A k \in MemoryKeys' : k \in MemoryKeys
        BY <3>2 DEF MemoryKeys
      <4>2. ASSUME NEW k \in MemoryKeys, k # c PROVE k \in MemoryKeys'
        <5>1. PICK m \in DOMAIN memoryStore : memoryStore[m].key = k
          BY DEF MemoryKeys
        <5>2. m \in DOMAIN memoryStore \ {i}
          BY <3>1, <4>2, <5>1
        <5> QED BY <3>2, <5>1, <5>2 DEF MemoryKeys
      <4> QED BY <4>1, <4>2
    <3>4. HttpTypes'
      BY <2>1, <2>2, <3>2 DEF HttpInv, HttpTypes
    <3>5. ASSUME NEW k \in HttpKeys \ forgotten', k \in MemoryKeys PROVE redisLink' # "ready"
      BY <2>1, <3>5 DEF HttpInv, KeyIsKept
    <3> QED BY <1>0, <2>1, <2>2, <3>3, <3>4, <3>5
  <2>3. CASE redisStore' = [redisStore EXCEPT ![c] = "none"] /\ UNCHANGED memoryStore
    <3>1. redisStore' \in [HttpKeys -> Payloads \cup {"none"}] /\ \A k \in HttpKeys : k # c => redisStore'[k] = redisStore[k]
      BY <1>t, <2>3
    <3>2. HttpTypes' /\ MemoryKeys' = MemoryKeys
      BY <2>1, <2>3, <3>1 DEF HttpInv, HttpTypes, MemoryKeys
    <3>3. ASSUME NEW k \in HttpKeys \ forgotten', k \in MemoryKeys PROVE redisLink' # "ready"
      BY <2>1, <3>3 DEF HttpInv, KeyIsKept
    <3> QED BY <1>0, <2>1, <3>1, <3>2, <3>3
  <2> QED BY <1>1, <2>2, <2>3 DEF ResponseExpires
<1>2. CASE RedisConnects
  <2>1. UNCHANGED <<httpRequest, redisStore, memoryStore, handled>> /\ redisLink = "connecting"
        /\ \/ redisLink' = "ready" /\ forgotten' = forgotten \cup MemoryKeys
           \/ redisLink' = "unavailable" /\ UNCHANGED forgotten
    BY <1>2 DEF RedisConnects
  <2>2. MemoryKeys' = MemoryKeys
    BY <2>1 DEF MemoryKeys
  <2>3. HttpTypes' /\ forgotten \subseteq forgotten'
    BY <1>k, <2>1 DEF HttpInv, HttpTypes
  <2>4. \A k \in HttpKeys \ forgotten' : k \in MemoryKeys => redisLink' # "ready"
    BY <2>1
  <2> QED BY <1>0, <2>1, <2>2, <2>3, <2>4
<1>3. CASE Restart
  <2>1. /\ httpRequest' = [r \in Requests |-> IdleRequest] /\ redisLink' = "unattempted" /\ memoryStore' = << >>
        /\ UNCHANGED <<redisStore, handled>>
        /\ forgotten' = forgotten \cup MemoryKeys \cup {k \in HttpKeys : \E r \in Requests :
                                                  httpRequest[r].pc \in {"handle", "store"} /\ httpRequest[r].key = k}
    BY <1>3 DEF Restart
  <2>2. HttpTypes'
    <3>1. memoryStore' \in Seq(StoredResponse) /\ Len(memoryStore') = 0
      BY <2>1
    <3>2. forgotten' \subseteq HttpKeys /\ httpRequest' \in [Requests -> RequestRow]
      BY <1>t, <1>k, <2>1
    <3> QED BY <1>t, <2>1, <3>1, <3>2 DEF HttpInv, HttpTypes
  <2>3. \A k : BusyWith(k)' = {} /\ k \notin MemoryKeys'
    BY <1>t, <2>1 DEF BusyWith, MemoryKeys
  <2>4. ASSUME NEW k \in HttpKeys \ forgotten' PROVE KeyIsKept(k)'
    <3>1. KeyIsKept(k) /\ BusyWith(k) = {} /\ k \notin MemoryKeys
      BY <2>1 DEF HttpInv, BusyWith
    <3> QED BY <2>1, <2>3, <3>1 DEF KeyIsKept
  <2> QED BY <1>t, <2>1, <2>2, <2>4 DEF HttpInv
<1>4. CASE UNCHANGED httpVars
  <2>1. UNCHANGED <<httpRequest, redisLink, redisStore, memoryStore, handled, forgotten>>
    BY <1>4 DEF httpVars
  <2>2. HttpTypes' /\ MemoryKeys' = MemoryKeys
    BY <2>1 DEF HttpInv, HttpTypes, MemoryKeys
  <2> QED BY <1>0, <2>1, <2>2
<1>5. CASE HttpNext
  BY <1>1, <1>2, <1>3, <1>5, RequestsKeep DEF HttpNext
<1> QED BY <1>4, <1>5

\* The inductive invariant gives what the run checks.
LEMMA HttpInvImplies == HttpInv => HttpTypeOK /\ HandledOnce
<1>1. HttpInv => HttpTypeOK
  BY DEF HttpInv, HttpTypes, HttpTypeOK, RequestRow, StoredResponse
<1>2. \A n \in {0, 1} : n <= 1
  OBVIOUS
<1>3. HttpInv => HandledOnce
  BY <1>2 DEF HttpInv, KeyIsKept, HandledOnce
<1> QED BY <1>1, <1>3

-----------------------------------------------------------------------------
(* Push subscriptions.                                                       *)

RegistrarRow == [pc : {"idle", "write"}, user : PushUsers \cup {"none"},
                 endpoint : Endpoints \cup {"none"}, found : 0..MaxPushRows]
SenderRow == [pc : {"idle", "audit", "send", "drop"}, user : PushUsers \cup {"none"},
              todo : SUBSET Endpoints, drop : Endpoints \cup {"none"}]
AuditRow == [unread : 0..MaxAudit, read : 0..MaxAudit]

Registering == {q \in Registrars : registrar[q].pc = "write"}

\* A row is numbered, owned, and has its owner's keys.
RowsAreOwned ==
  \A e \in Endpoints :
    /\ subscription[e].id <= rowsMade
    /\ subscription[e].id # 0 <=> subscription[e].owner # "none"
    /\ subscription[e].keys = subscription[e].owner

\* The row a registration found, if it is still there, belongs to its user: a
\* number is never used twice.
FoundRowIsOwn ==
  \A r \in Registrars : registrar[r].pc = "write" =>
    /\ registrar[r].user \in PushUsers /\ registrar[r].endpoint \in Endpoints
    /\ registrar[r].found <= rowsMade
    /\ registrar[r].found # 0 /\ subscription[registrar[r].endpoint].id = registrar[r].found =>
         subscription[registrar[r].endpoint].owner = registrar[r].user

\* A sender that files or sends has somebody, one that drops an endpoint has one.
SendersAddress ==
  \A s \in Senders :
    /\ sender[s].pc # "idle" => sender[s].user \in PushUsers
    /\ sender[s].pc = "drop" => sender[s].drop \in Endpoints

\* The rows of a user's notifications stay within the bound.
AuditsBounded == \A u \in PushUsers : pushAudit[u].unread + pushAudit[u].read <= MaxAudit

PushInv ==
  /\ PushTypeOK /\ AuditsBounded
  /\ rowsMade + Cardinality(Registering) <= MaxPushRows
  /\ RowsAreOwned /\ FoundRowIsOwn /\ SendersAddress

\* The types, as the steps below use them.
LEMMA PushTyped ==
  ASSUME PushInv
  PROVE  /\ subscription \in [Endpoints -> PushRow] /\ rowsMade \in 0..MaxPushRows
         /\ registrar \in [Registrars -> RegistrarRow]
         /\ pushReady \in {"unset", "configured", "off"}
         /\ sender \in [Senders -> SenderRow]
         /\ pushAudit \in [PushUsers -> AuditRow]
  BY DEF PushInv, PushTypeOK, RegistrarRow, SenderRow, AuditRow

\* The registrations under way are finitely many.
LEMMA RegisteringIsFinite ==
  IsFiniteSet(Registering) /\ Cardinality(Registering) \in Nat
<1>1. Registering \subseteq Registrars
  BY DEF Registering
<1> QED BY <1>1, PushAssumption, FS_Subset, FS_CardinalityType

\* No endpoint has a row at the start.
LEMMA PushStarts == PushInit => PushInv
<1> SUFFICES ASSUME PushInit PROVE PushInv
  OBVIOUS
<1>1. PushTypeOK
  BY PushAssumption DEF PushInit, PushTypeOK, PushRow, NoPushRow, IdleRegistrar, IdleSender
<1>2. Registering = {}
  BY DEF PushInit, Registering, IdleRegistrar
<1>3. rowsMade + Cardinality(Registering) <= MaxPushRows
  BY <1>2, FS_EmptySet, PushAssumption DEF PushInit
<1>4. RowsAreOwned
  BY DEF PushInit, RowsAreOwned, NoPushRow
<1>5. FoundRowIsOwn /\ SendersAddress
  BY DEF PushInit, FoundRowIsOwn, SendersAddress, IdleRegistrar, IdleSender
<1>6. AuditsBounded
  BY PushAssumption DEF PushInit, AuditsBounded
<1> QED BY <1>1, <1>3, <1>4, <1>5, <1>6 DEF PushInv

\* A registration looks for the row of its endpoint.
LEMMA SubscribeKeeps ==
  ASSUME PushInv, NEW r \in Registrars, NEW u \in PushUsers, NEW e \in Endpoints, Subscribe(r, u, e)
  PROVE  PushInv'
<1> USE PushAssumption
<1> DEFINE row == [pc |-> "write", user |-> u, endpoint |-> e, found |-> subscription[e].id]
<1>t. /\ subscription \in [Endpoints -> PushRow] /\ rowsMade \in 0..MaxPushRows
      /\ registrar \in [Registrars -> RegistrarRow]
  BY PushTyped
<1>1. /\ registrar' = [registrar EXCEPT ![r] = row] /\ subscription[e].owner \in {u, "none"}
      /\ registrar[r].pc = "idle" /\ rowsMade + Cardinality(Registering) < MaxPushRows
      /\ UNCHANGED <<subscription, rowsMade, pushReady, sender, pushAudit>>
  BY DEF Subscribe, Registering
<1>2. row \in RegistrarRow /\ row.pc = "write" /\ row.user = u /\ row.endpoint = e
      /\ row.found = subscription[e].id
  BY <1>t DEF RegistrarRow, PushRow
<1> HIDE DEF row
<1>3. /\ registrar' \in [Registrars -> RegistrarRow] /\ registrar'[r] = row
      /\ \A q \in Registrars : q # r => registrar'[q] = registrar[q]
  BY <1>t, <1>1, <1>2
<1>4. Registering' = Registering \cup {r} /\ r \notin Registering
  BY <1>1, <1>2, <1>3 DEF Registering
<1>5. Cardinality(Registering') = Cardinality(Registering) + 1
  BY <1>4, RegisteringIsFinite, FS_AddElement
<1>6. (rowsMade + Cardinality(Registering) <= MaxPushRows)'
  BY <1>t, <1>1, <1>5, RegisteringIsFinite
<1>7. FoundRowIsOwn'
  <2>1. subscription[e].id <= rowsMade /\ (subscription[e].id # 0 => subscription[e].owner = u)
    BY <1>1 DEF PushInv, RowsAreOwned
  <2> QED BY <1>1, <1>2, <1>3, <2>1 DEF PushInv, FoundRowIsOwn
<1>8. PushTypeOK' /\ RowsAreOwned' /\ SendersAddress' /\ AuditsBounded'
  BY <1>1, <1>3 DEF PushInv, PushTypeOK, RegistrarRow, RowsAreOwned, SendersAddress, AuditsBounded
<1> QED BY <1>6, <1>7, <1>8 DEF PushInv

\* A registration inserts a row or overwrites the one it found.
LEMMA WriteSubscriptionKeeps ==
  ASSUME PushInv, NEW r \in Registrars, WriteSubscription(r)
  PROVE  PushInv'
<1> USE PushAssumption
<1>t. /\ subscription \in [Endpoints -> PushRow] /\ rowsMade \in 0..MaxPushRows
      /\ registrar \in [Registrars -> RegistrarRow]
  BY PushTyped
<1> DEFINE u == registrar[r].user
           e == registrar[r].endpoint
           found == registrar[r].found
<1>1. /\ registrar[r].pc = "write" /\ registrar' = [registrar EXCEPT ![r] = IdleRegistrar]
      /\ UNCHANGED <<pushReady, sender, pushAudit>>
      /\ u \in PushUsers /\ e \in Endpoints
  BY DEF WriteSubscription, PushInv, FoundRowIsOwn
<1>2. IdleRegistrar \in RegistrarRow /\ IdleRegistrar.pc = "idle"
  BY DEF IdleRegistrar, RegistrarRow
<1>3. /\ registrar' \in [Registrars -> RegistrarRow] /\ registrar'[r].pc = "idle"
      /\ \A q \in Registrars : q # r => registrar'[q] = registrar[q]
  BY <1>t, <1>1, <1>2
<1>4. Registering' = Registering \ {r} /\ r \in Registering
  BY <1>1, <1>3 DEF Registering
<1>5. Cardinality(Registering') = Cardinality(Registering) - 1
  BY <1>4, RegisteringIsFinite, FS_RemoveElement
<1>6. /\ subscription' \in [Endpoints -> PushRow] /\ rowsMade' \in 0..MaxPushRows
      /\ RowsAreOwned' /\ rowsMade <= rowsMade' /\ rowsMade' <= rowsMade + 1
      /\ \A d \in Endpoints : \/ subscription'[d].id = subscription[d].id
                                 /\ subscription'[d].owner = subscription[d].owner
                              \/ subscription'[d].id = rowsMade + 1
  <2>0. rowsMade + Cardinality(Registering) <= MaxPushRows /\ Cardinality(Registering) # 0
        /\ Cardinality(Registering) \in Nat
    BY <1>4, RegisteringIsFinite, FS_EmptySet DEF PushInv
  <2>b. rowsMade + 1 \in 0..MaxPushRows
    BY <2>0, <1>t
  <2>1. CASE found # 0 /\ subscription[e].id = found
             /\ subscription' = [subscription EXCEPT ![e].keys = u] /\ UNCHANGED rowsMade
    <3>1. subscription[e].owner = u
      BY <1>1, <2>1 DEF PushInv, FoundRowIsOwn
    <3> HIDE DEF u, e, found
    <3> QED BY <1>t, <1>1, <2>1, <3>1 DEF PushInv, RowsAreOwned, PushRow
  <2>2. CASE subscription[e].id = 0 /\ rowsMade' = rowsMade + 1
             /\ subscription' = [subscription EXCEPT ![e] = [id |-> rowsMade + 1, owner |-> u, keys |-> u]]
    <3> HIDE DEF u, e, found
    <3>1. u # "none" /\ rowsMade' \in 0..MaxPushRows
      BY <1>1, <2>2, <2>b
    <3>2. /\ subscription' \in [Endpoints -> PushRow]
          /\ subscription'[e].id = rowsMade + 1 /\ subscription'[e].owner = u /\ subscription'[e].keys = u
          /\ \A d \in Endpoints : d # e => subscription'[d] = subscription[d]
      BY <1>t, <1>1, <2>2, <2>b DEF PushRow
    <3>3. \A d \in Endpoints : subscription[d].id \in Nat /\ subscription[d].id <= rowsMade
      BY <1>t DEF PushInv, RowsAreOwned, PushRow
    <3>4. RowsAreOwned'
      BY <1>t, <2>2, <3>1, <3>2, <3>3 DEF PushInv, RowsAreOwned
    <3> QED BY <1>t, <2>2, <3>1, <3>2, <3>4
  <2>3. CASE UNCHANGED <<subscription, rowsMade>>
    BY <1>t, <2>3 DEF PushInv, RowsAreOwned
  <2> QED BY <2>1, <2>2, <2>3 DEF WriteSubscription
<1>7. FoundRowIsOwn'
  <2> SUFFICES ASSUME NEW q \in Registrars, registrar'[q].pc = "write"
               PROVE  /\ registrar'[q].user \in PushUsers /\ registrar'[q].endpoint \in Endpoints
                      /\ registrar'[q].found <= rowsMade'
                      /\ registrar'[q].found # 0
                         /\ subscription'[registrar'[q].endpoint].id = registrar'[q].found =>
                           subscription'[registrar'[q].endpoint].owner = registrar'[q].user
    BY DEF FoundRowIsOwn
  <2>1. q # r /\ registrar'[q] = registrar[q] /\ registrar[q] \in RegistrarRow /\ registrar[q].pc = "write"
    BY <1>3, <1>t
  <2>2. /\ registrar[q].user \in PushUsers /\ registrar[q].endpoint \in Endpoints
        /\ registrar[q].found <= rowsMade /\ registrar[q].found \in Nat
        /\ registrar[q].found # 0 /\ subscription[registrar[q].endpoint].id = registrar[q].found =>
             subscription[registrar[q].endpoint].owner = registrar[q].user
    BY <2>1 DEF PushInv, FoundRowIsOwn, RegistrarRow
  <2>3. registrar[q].found <= rowsMade' /\ registrar[q].found # rowsMade + 1
    BY <1>t, <1>6, <2>2
  <2> QED BY <1>6, <2>1, <2>2, <2>3
<1>8. (rowsMade + Cardinality(Registering) <= MaxPushRows)'
  <2>1. rowsMade' <= rowsMade + 1 /\ rowsMade' \in Int
    BY <1>6
  <2>2. rowsMade + Cardinality(Registering) <= MaxPushRows /\ Cardinality(Registering) \in Nat
    BY RegisteringIsFinite DEF PushInv
  <2> QED BY <1>5, <1>t, <2>1, <2>2
<1>9. PushTypeOK' /\ SendersAddress' /\ AuditsBounded'
  BY <1>1, <1>3, <1>6 DEF PushInv, PushTypeOK, RegistrarRow, SendersAddress, AuditsBounded
<1> QED BY <1>6, <1>7, <1>8, <1>9 DEF PushInv

\* The row of an endpoint is removed, or none is.
RowGoes ==
  \/ UNCHANGED subscription
  \/ \E e \in Endpoints : subscription' = [subscription EXCEPT ![e] = NoPushRow]

\* A row that goes takes its keys with it.
LEMMA RowsGo ==
  ASSUME PushInv, RowGoes, UNCHANGED <<rowsMade, registrar>>
  PROVE  /\ subscription' \in [Endpoints -> PushRow] /\ RowsAreOwned' /\ FoundRowIsOwn'
         /\ (rowsMade + Cardinality(Registering) <= MaxPushRows)'
<1>t. /\ subscription \in [Endpoints -> PushRow] /\ rowsMade \in 0..MaxPushRows
      /\ registrar \in [Registrars -> RegistrarRow]
  BY PushTyped
<1>1. NoPushRow \in PushRow /\ NoPushRow.id = 0 /\ NoPushRow.owner = "none" /\ NoPushRow.keys = "none"
  BY PushAssumption DEF NoPushRow, PushRow
<1>2. /\ subscription' \in [Endpoints -> PushRow]
      /\ \A d \in Endpoints : subscription'[d] = subscription[d] \/ subscription'[d] = NoPushRow
  BY <1>t, <1>1 DEF RowGoes
<1>3. RowsAreOwned'
  BY <1>t, <1>1, <1>2 DEF PushInv, RowsAreOwned
<1>4. FoundRowIsOwn'
  BY <1>t, <1>1, <1>2 DEF PushInv, FoundRowIsOwn
<1>5. Registering' = Registering
  BY DEF Registering
<1> QED BY <1>2, <1>3, <1>4, <1>5 DEF PushInv

\* A step of a sender.
LEMMA SenderKeeps ==
  ASSUME PushInv, NEW s \in Senders,
         \/ \E u \in PushUsers : ListSubscriptions(s, u)
         \/ FileNotification(s) \/ DropSubscription(s)
         \/ \E e \in Endpoints : ContactEndpoint(s, e)
  PROVE  PushInv'
<1> USE PushAssumption
<1>t. /\ subscription \in [Endpoints -> PushRow] /\ sender \in [Senders -> SenderRow]
      /\ pushAudit \in [PushUsers -> AuditRow] /\ SendersAddress /\ AuditsBounded
      /\ (UNCHANGED pushAudit => AuditsBounded')
  BY PushTyped DEF PushInv, AuditsBounded
<1>i. IdleSender \in SenderRow /\ IdleSender.pc = "idle"
  BY DEF IdleSender, SenderRow
<1>1. ASSUME NEW row \in SenderRow, sender' = [sender EXCEPT ![s] = row],
             row.pc # "idle" => row.user \in PushUsers, row.pc = "drop" => row.drop \in Endpoints
      PROVE  sender' \in [Senders -> SenderRow] /\ SendersAddress'
  BY <1>t, <1>1 DEF SendersAddress
<1>2. ASSUME sender' \in [Senders -> SenderRow], SendersAddress',
             pushAudit' \in [PushUsers -> AuditRow], AuditsBounded',
             RowGoes, UNCHANGED <<rowsMade, registrar, pushReady>>
      PROVE  PushInv'
  <2>1. PushTypeOK'
    BY <1>2, RowsGo, PushTyped DEF PushTypeOK, RegistrarRow, SenderRow, AuditRow
  <2> QED BY <1>2, <2>1, RowsGo DEF PushInv
<1>3. ASSUME NEW u \in PushUsers, ListSubscriptions(s, u) PROVE PushInv'
  <2> DEFINE row == [pc |-> "audit", user |-> u, drop |-> "none",
                     todo |-> {e \in Endpoints : subscription[e].owner = u}]
  <2>1. row \in SenderRow /\ row.pc = "audit" /\ row.user = u
    BY DEF SenderRow
  <2>2. sender' = [sender EXCEPT ![s] = row] /\ UNCHANGED <<subscription, rowsMade, registrar, pushReady, pushAudit>>
    BY <1>3 DEF ListSubscriptions
  <2> HIDE DEF row
  <2> QED BY <1>t, <1>1, <1>2, <2>1, <2>2 DEF RowGoes
<1>4. CASE FileNotification(s)
  <2> DEFINE u == sender[s].user
             row == IF sender[s].todo = {} THEN IdleSender ELSE [sender[s] EXCEPT !.pc = "send"]
  <2>1. /\ sender' = [sender EXCEPT ![s] = row] /\ UNCHANGED <<subscription, rowsMade, registrar, pushReady>>
        /\ u \in PushUsers /\ pushAudit[u].unread + pushAudit[u].read < MaxAudit
        /\ pushAudit' = [pushAudit EXCEPT ![u].unread = @ + 1]
    BY <1>t, <1>4 DEF FileNotification, SendersAddress
  <2>2. row \in SenderRow /\ row.pc \in {"idle", "send"} /\ (row.pc # "idle" => row.user \in PushUsers)
    BY <1>t, <1>i, <2>1 DEF SenderRow
  <2> HIDE DEF row
  <2>3. pushAudit' \in [PushUsers -> AuditRow] /\ AuditsBounded'
    <3>1. pushAudit[u] \in AuditRow
      BY <1>t, <2>1
    <3>2. /\ pushAudit[u].unread + 1 \in 0..MaxAudit
          /\ pushAudit[u].unread + 1 + pushAudit[u].read <= MaxAudit
      BY <2>1, <3>1 DEF AuditRow
    <3> QED BY <1>t, <2>1, <3>1, <3>2 DEF AuditRow, AuditsBounded
  <2> QED BY <1>1, <1>2, <2>1, <2>2, <2>3 DEF RowGoes
<1>5. ASSUME NEW e \in Endpoints, ContactEndpoint(s, e) PROVE PushInv'
  <2>0. /\ UNCHANGED <<subscription, rowsMade, registrar, pushReady, pushAudit>>
        /\ sender[s].pc = "send" /\ sender[s] \in SenderRow /\ sender[s].user \in PushUsers
    BY <1>t, <1>5 DEF ContactEndpoint, SendersAddress
  <2>1. CASE Sent(s, e)
    <3> DEFINE row == IF sender[s].todo = {e} THEN IdleSender
                      ELSE [sender[s] EXCEPT !.todo = @ \ {e}]
    <3>1. row \in SenderRow /\ row.pc \in {"idle", "send"} /\ (row.pc # "idle" => row.user \in PushUsers)
      BY <2>0, <1>i DEF SenderRow
    <3>2. sender' = [sender EXCEPT ![s] = row]
      BY <1>t, <2>1 DEF Sent, SenderRow
    <3> HIDE DEF row
    <3> QED BY <1>t, <1>1, <1>2, <2>0, <3>1, <3>2 DEF RowGoes
  <2>2. CASE sender' = [sender EXCEPT ![s] = [@ EXCEPT !.pc = "drop", !.drop = e]]
    <3> DEFINE row == [sender[s] EXCEPT !.pc = "drop", !.drop = e]
    <3>1. row \in SenderRow /\ row.user \in PushUsers /\ row.drop \in Endpoints
      BY <2>0 DEF SenderRow
    <3>2. sender' = [sender EXCEPT ![s] = row]
      BY <1>t, <2>2
    <3> HIDE DEF row
    <3> QED BY <1>t, <1>1, <1>2, <2>0, <3>1, <3>2 DEF RowGoes
  <2> QED BY <1>5, <2>1, <2>2 DEF ContactEndpoint
<1>6. CASE DropSubscription(s)
  <2> DEFINE left == sender[s].todo \ {sender[s].drop}
             row == IF left = {} THEN IdleSender
                    ELSE [sender[s] EXCEPT !.pc = "send", !.todo = left, !.drop = "none"]
  <2>1. /\ sender[s].pc = "drop" /\ sender[s].drop \in Endpoints /\ sender[s].user \in PushUsers
        /\ sender' = [sender EXCEPT ![s] = row] /\ sender[s] \in SenderRow
        /\ UNCHANGED <<rowsMade, registrar, pushReady, pushAudit>>
    BY <1>t, <1>6 DEF DropSubscription, SendersAddress
  <2>2. row \in SenderRow /\ row.pc \in {"idle", "send"} /\ (row.pc # "idle" => row.user \in PushUsers)
    BY <2>1, <1>i DEF SenderRow
  <2>3. RowGoes
    BY <1>6, <2>1 DEF DropSubscription, RowGoes
  <2> HIDE DEF row
  <2> QED BY <1>t, <1>1, <1>2, <2>1, <2>2, <2>3
<1> QED BY <1>3, <1>4, <1>5, <1>6

\* Every step of the push service preserves the invariant.
LEMMA PushKeeps == PushInv /\ [PushNext]_pushVars => PushInv'
<1> SUFFICES ASSUME PushInv, [PushNext]_pushVars PROVE PushInv'
  OBVIOUS
<1> USE PushAssumption
<1>t. /\ PushTypeOK /\ pushAudit \in [PushUsers -> AuditRow] /\ SendersAddress /\ AuditsBounded
      /\ (UNCHANGED pushAudit => AuditsBounded')
  BY PushTyped DEF PushInv, AuditsBounded
<1>1. CASE UNCHANGED pushVars
  BY <1>t, <1>1 DEF pushVars, PushInv, PushTypeOK, RowsAreOwned, FoundRowIsOwn, SendersAddress, Registering
<1>2. CASE (\E u \in PushUsers, e \in Endpoints : DeleteSubscription(u, e))
           \/ (\E e \in Endpoints : DeleteSubscriptionLegacy(e))
  <2>1. RowGoes /\ UNCHANGED <<rowsMade, registrar, pushReady, sender, pushAudit>>
    BY <1>2 DEF DeleteSubscription, DeleteSubscriptionLegacy, RowGoes
  <2> QED BY <1>t, <2>1, RowsGo DEF PushInv, PushTypeOK, SendersAddress
<1>3. CASE InitializePushService
  BY <1>t, <1>3 DEF InitializePushService, PushInv, PushTypeOK, RowsAreOwned, FoundRowIsOwn, SendersAddress, Registering
<1>4. CASE PurgeNotifications \/ \E u \in PushUsers : AcknowledgeNotification(u)
  <2>1. pushAudit' \in [PushUsers -> AuditRow] /\ AuditsBounded'
    <3>1. CASE PurgeNotifications
      <4>1. pushAudit' \in [PushUsers -> AuditRow]
        BY <3>1 DEF PurgeNotifications, AuditRow
      <4>2. ASSUME NEW u \in PushUsers PROVE pushAudit'[u].unread + pushAudit'[u].read <= MaxAudit
        <5>1. /\ pushAudit'[u].unread <= pushAudit[u].unread /\ pushAudit'[u].read <= pushAudit[u].read
              /\ pushAudit[u].unread + pushAudit[u].read <= MaxAudit
          BY <1>t, <3>1 DEF PurgeNotifications, AuditsBounded
        <5>2. pushAudit[u] \in AuditRow /\ pushAudit'[u] \in AuditRow
          BY <1>t, <4>1
        <5> QED BY <5>1, <5>2 DEF AuditRow
      <4> QED BY <4>1, <4>2 DEF AuditsBounded
    <3>2. ASSUME NEW u \in PushUsers, AcknowledgeNotification(u)
          PROVE  pushAudit' \in [PushUsers -> AuditRow] /\ AuditsBounded'
      <4>1. pushAudit[u].unread > 0 /\ pushAudit[u] \in AuditRow
            /\ pushAudit[u].unread + pushAudit[u].read <= MaxAudit
        BY <1>t, <3>2 DEF AcknowledgeNotification, PushInv, AuditsBounded
      <4>2. pushAudit[u].unread - 1 \in 0..MaxAudit /\ pushAudit[u].read + 1 \in 0..MaxAudit
        BY <4>1 DEF AuditRow
      <4> DEFINE row == [pushAudit[u] EXCEPT !.unread = @ - 1, !.read = @ + 1]
      <4>3. row \in AuditRow /\ row.unread = pushAudit[u].unread - 1 /\ row.read = pushAudit[u].read + 1
        BY <4>1, <4>2 DEF AuditRow
      <4>4. pushAudit' = [pushAudit EXCEPT ![u] = row]
        BY <3>2 DEF AcknowledgeNotification
      <4> HIDE DEF row
      <4>5. /\ pushAudit' \in [PushUsers -> AuditRow] /\ pushAudit'[u] = row
            /\ \A v \in PushUsers : v # u => pushAudit'[v] = pushAudit[v]
        BY <1>t, <4>3, <4>4
      <4>6. row.unread + row.read = pushAudit[u].unread + pushAudit[u].read
        BY <4>1, <4>3 DEF AuditRow
      <4> QED BY <1>t, <4>1, <4>5, <4>6 DEF AuditsBounded
    <3> QED BY <1>4, <3>1, <3>2
  <2>2. UNCHANGED <<subscription, rowsMade, registrar, pushReady, sender>>
    BY <1>4 DEF PurgeNotifications, AcknowledgeNotification
  <2> QED BY <1>t, <2>1, <2>2 DEF PushInv, PushTypeOK, AuditRow, RowsAreOwned, FoundRowIsOwn, SendersAddress, Registering
<1> QED BY <1>1, <1>2, <1>3, <1>4, SubscribeKeeps, WriteSubscriptionKeeps, SenderKeeps DEF PushNext

\* The invariant implies what the run checks.
LEMMA PushInvImplies == PushInv => PushTypeOK /\ KeysBelongToOwner
  BY DEF PushInv, RowsAreOwned, KeysBelongToOwner

-----------------------------------------------------------------------------
(* Operations.                                                               *)

ExportPlace == {"none", "audit", "run", "confirm", "answer", "success", "failure", "both"}

\* What a job promises is there; when it is about to complete, all of it is
\* marked.
ScopeIsMarked ==
  \A j \in ReplayJobs :
    /\ promised[j] \subseteq present
    /\ replayAt[j] = "complete" \/ replayJob[j] = "completed" => promised[j] \subseteq marked

\* With the switch on, a job that has written since neither fetches nor writes.
SwitchIsSeen ==
  \A j \in ReplayJobs :
    /\ overrun[j] \in {0, 1}
    /\ killSwitch["replay"] /\ replayAt[j] \in {"fetch", "write"} => overrun[j] = 0
    /\ ~killSwitch["replay"] => overrun[j] = 0

\* An export past its audit has the row.
ExportsPastAudit ==
  /\ handed \subseteq exportAudit
  /\ \A e \in Exports : exportAt[e] \in {"run", "confirm", "answer"} => e \in exportAudit

\* A job that works reads as running, and one that has no task and no end was not
\* told it.
JobHasTask ==
  \A j \in ReplayJobs :
    /\ replayAt[j] \in Working => replayJob[j] = "running"
    /\ replayJob[j] \in {"queued", "running"} /\ replayAt[j] = "none" => j \in unwritten

OpsInv == OpsTypeOK /\ overrun \in [ReplayJobs -> {0, 1}] /\ ScopeIsMarked /\ SwitchIsSeen
          /\ ExportsPastAudit /\ JobHasTask

\* The types, as the steps below use them.
LEMMA OpsTyped ==
  ASSUME OpsInv
  PROVE  /\ killSwitch \in [SwitchKeys -> BOOLEAN] /\ turns \in 0 .. MaxTurns
         /\ present \subseteq Sources /\ marked \subseteq Sources
         /\ replayJob \in [ReplayJobs -> ReplayStatus]
         /\ replayAt \in [ReplayJobs -> ReplayPlaces] /\ unwritten \subseteq ReplayJobs
         /\ batch \in [ReplayJobs -> SUBSET Sources]
         /\ promised \in [ReplayJobs -> SUBSET Sources]
         /\ overrun \in [ReplayJobs -> {0, 1}]
         /\ exportAt \in [Exports -> ExportPlace]
  BY DEF OpsInv, OpsTypeOK, ExportPlace

\* No job and no export is under way at the start.
LEMMA OpsStarts == OpsInit => OpsInv
<1> SUFFICES ASSUME OpsInit PROVE OpsInv
  OBVIOUS
<1>1. OpsTypeOK
  BY OpsAssumption DEF OpsInit, OpsTypeOK, ReplayStatus, ReplayPlaces
<1> QED BY <1>1 DEF OpsInit, OpsInv, ScopeIsMarked, SwitchIsSeen, ExportsPastAudit, JobHasTask, Working

\* A step of the exports.
LEMMA ExportKeeps ==
  ASSUME OpsInv, NEW e \in Exports, ExportStep(e)
  PROVE  OpsInv'
<1>t. exportAt \in [Exports -> ExportPlace]
  BY OpsTyped
<1>1. /\ UNCHANGED <<killSwitch, turns, present>> /\ UNCHANGED replayVars
      /\ exportAt' \in [Exports -> ExportPlace]
      /\ ExportsPastAudit'
  <2>1. CASE AssertExportsEnabled(e)
    BY <1>t, <2>1 DEF AssertExportsEnabled, ExportMoves, ReplayStays, ExportPlace, OpsInv, ExportsPastAudit
  <2>2. CASE RecordExportAudit(e)
    BY <1>t, <2>2 DEF RecordExportAudit, ExportMoves, ReplayStays, ExportPlace, OpsInv, ExportsPastAudit
  <2>3. CASE StreamRows(e)
    BY <1>t, <2>3 DEF StreamRows, ExportMoves, ReplayStays, ExportPlace, OpsInv, ExportsPastAudit
  <2>4. CASE AnswerJson(e)
    BY <1>t, <2>4 DEF AnswerJson, ExportMoves, ReplayStays, ExportPlace, OpsInv, ExportsPastAudit
  <2>5. CASE AnswerCsv(e)
    BY <1>t, <2>5 DEF AnswerCsv, ExportMoves, ReplayStays, ExportPlace, OpsInv, ExportsPastAudit
  <2> QED BY <2>1, <2>2, <2>3, <2>4, <2>5 DEF ExportStep
<1> QED
  BY <1>1 DEF OpsInv, OpsTypeOK, replayVars, ScopeIsMarked, SwitchIsSeen, JobHasTask, ExportPlace

\* What a job's step may write into the tables.
JobRows ==
  /\ replayAt \in [ReplayJobs -> ReplayPlaces] /\ replayJob \in [ReplayJobs -> ReplayStatus]
  /\ batch \in [ReplayJobs -> SUBSET Sources] /\ promised \in [ReplayJobs -> SUBSET Sources]
  /\ overrun \in [ReplayJobs -> {0, 1}] /\ marked \subseteq Sources /\ unwritten \subseteq ReplayJobs
  /\ ScopeIsMarked /\ SwitchIsSeen /\ JobHasTask

\* An UPDATE of a job that has come so far keeps them in step.
LEMMA UpdateKeeps ==
  ASSUME OpsInv, NEW j \in ReplayJobs, NEW from \in DOMAIN Written, NEW to \in {"none", "first"},
         Updates(j, from, to), to = "first" <=> from = "start"
  PROVE  JobRows'
<1>t. /\ replayAt \in [ReplayJobs -> ReplayPlaces] /\ replayJob \in [ReplayJobs -> ReplayStatus]
      /\ batch \in [ReplayJobs -> SUBSET Sources] /\ promised \in [ReplayJobs -> SUBSET Sources]
      /\ overrun \in [ReplayJobs -> {0, 1}] /\ marked \subseteq Sources /\ unwritten \subseteq ReplayJobs
  BY OpsTyped
<1>a. ScopeIsMarked /\ SwitchIsSeen /\ JobHasTask
  BY DEF OpsInv
<1>1. /\ from \in {"start", "abort", "complete", "catch"}
      /\ Written[from] = CASE from = "start" -> "running" [] from = "abort" -> "aborted"
                           [] from = "complete" -> "completed" [] from = "catch" -> "failed"
  BY DEF Written
<1>2. PICK status \in ReplayStatus : status = Written[from]
  BY <1>1 DEF ReplayStatus
<1>3. /\ (status = "completed" => from = "complete") /\ (status = "running" <=> to = "first") /\ status # "queued"
  BY <1>1, <1>2
<1>4. /\ replayAt[j] = from /\ replayAt' = [replayAt EXCEPT ![j] = to] /\ replayJob' = [replayJob EXCEPT ![j] = status]
      /\ UNCHANGED <<batch, promised, marked, overrun, unwritten, killSwitch, present>>
  BY <1>2 DEF Updates, Moves, OthersStay
<1>5. /\ replayAt' \in [ReplayJobs -> ReplayPlaces] /\ replayJob' \in [ReplayJobs -> ReplayStatus]
      /\ batch' \in [ReplayJobs -> SUBSET Sources] /\ promised' \in [ReplayJobs -> SUBSET Sources]
      /\ overrun' \in [ReplayJobs -> {0, 1}] /\ marked' \subseteq Sources /\ unwritten' \subseteq ReplayJobs
  BY <1>t, <1>4 DEF ReplayPlaces, Working
<1>6. ScopeIsMarked'
  BY <1>t, <1>a, <1>3, <1>4 DEF ScopeIsMarked
<1>7. SwitchIsSeen'
  BY <1>t, <1>a, <1>4 DEF SwitchIsSeen
<1>8. JobHasTask'
  BY <1>t, <1>a, <1>3, <1>4 DEF JobHasTask, Working
<1> QED BY <1>5, <1>6, <1>7, <1>8 DEF JobRows

\* So does a task that is gone or told to the catch, whatever its last statement
\* wrote.
LEMMA LossKeeps ==
  ASSUME OpsInv, NEW j \in ReplayJobs, replayAt[j] \notin {"none", "dead"}, Unanswered(j), OthersStay,
         NEW to \in {"none", "catch", "dead"}, replayAt' = [replayAt EXCEPT ![j] = to],
         unwritten' \subseteq ReplayJobs, unwritten \subseteq unwritten', to = "none" => j \in unwritten',
         batch' = [batch EXCEPT ![j] = {}], UNCHANGED promised
  PROVE  JobRows'
<1>t. /\ replayAt \in [ReplayJobs -> ReplayPlaces] /\ replayJob \in [ReplayJobs -> ReplayStatus]
      /\ batch \in [ReplayJobs -> SUBSET Sources] /\ promised \in [ReplayJobs -> SUBSET Sources]
      /\ overrun \in [ReplayJobs -> {0, 1}] /\ marked \subseteq Sources /\ unwritten \subseteq ReplayJobs
  BY OpsTyped
<1>a. ScopeIsMarked /\ SwitchIsSeen /\ JobHasTask /\ UNCHANGED <<killSwitch, present>>
  BY DEF OpsInv, OthersStay
<1>1. PICK status \in ReplayStatus :
        /\ replayJob' = [replayJob EXCEPT ![j] = status]
        /\ status = "completed" => replayAt[j] = "complete" \/ replayJob[j] = "completed"
  <2>1. CASE UNCHANGED replayJob
    BY <1>t, <2>1
  <2>2. CASE replayAt[j] \in DOMAIN Written /\ replayJob' = [replayJob EXCEPT ![j] = Written[replayAt[j]]]
    <3>1. PICK from \in DOMAIN Written : from = replayAt[j]
      BY <2>2
    <3>2. Written[from] \in ReplayStatus /\ (Written[from] = "completed" => from = "complete")
      BY DEF Written, ReplayStatus
    <3> QED BY <2>2, <3>1, <3>2
  <2> QED BY <2>1, <2>2 DEF Unanswered
<1>2. /\ marked \subseteq marked' /\ marked' \subseteq Sources
      /\ overrun' \in [ReplayJobs -> {0, 1}] /\ \A k \in ReplayJobs \ {j} : overrun'[k] = overrun[k]
      /\ ~killSwitch["replay"] => overrun' = overrun
  <2>1. CASE UNCHANGED <<marked, overrun>>
    BY <1>t, <2>1
  <2>2. CASE replayAt[j] = "write" /\ MarkBatch(j)
    <3>1. killSwitch["replay"] => overrun[j] = 0
      BY <1>a, <2>2 DEF SwitchIsSeen
    <3> QED BY <1>t, <2>2, <3>1 DEF MarkBatch
  <2> QED BY <2>1, <2>2 DEF Unanswered
<1>3. /\ replayAt' \in [ReplayJobs -> ReplayPlaces] /\ replayJob' \in [ReplayJobs -> ReplayStatus]
      /\ batch' \in [ReplayJobs -> SUBSET Sources] /\ promised' \in [ReplayJobs -> SUBSET Sources]
  BY <1>t, <1>1 DEF ReplayPlaces, Working
<1>4. ScopeIsMarked'
  BY <1>t, <1>a, <1>1, <1>2 DEF ScopeIsMarked
<1>5. SwitchIsSeen'
  BY <1>t, <1>a, <1>2 DEF SwitchIsSeen
<1>6. JobHasTask'
  BY <1>t, <1>a, <1>1 DEF JobHasTask, Working
<1> QED BY <1>2, <1>3, <1>4, <1>5, <1>6 DEF JobRows

\* A step of one job's task, or its death.
LEMMA JobKeeps ==
  ASSUME OpsInv, NEW j \in ReplayJobs, CreateReplayJob(j) \/ RunReplayJob(j) \/ ReplayDies(j)
  PROVE  OpsInv'
<1>t. /\ replayAt \in [ReplayJobs -> ReplayPlaces] /\ replayJob \in [ReplayJobs -> ReplayStatus]
      /\ batch \in [ReplayJobs -> SUBSET Sources] /\ promised \in [ReplayJobs -> SUBSET Sources]
      /\ overrun \in [ReplayJobs -> {0, 1}] /\ marked \subseteq Sources /\ unwritten \subseteq ReplayJobs
      /\ present \subseteq Sources
  BY OpsTyped
<1>0. OthersStay
  BY DEF CreateReplayJob, RunReplayJob, ReplayDies, RecordReplayStarted, StartReplayJob, LookAtSwitch,
     AbortReplayJob, FetchBatch, InsertReplayEvents, CompleteReplayJob, ReplayFails, FailReplayJob, Updates
<1>a. ScopeIsMarked /\ SwitchIsSeen /\ JobHasTask /\ UNCHANGED <<killSwitch, present>>
  BY <1>0 DEF OpsInv, OthersStay
<1>1. JobRows'
  <2>1. CASE CreateReplayJob(j)
    <3>1. PICK to \in {"none", "audit"} :
            /\ replayAt' = [replayAt EXCEPT ![j] = to] /\ replayJob' = [replayJob EXCEPT ![j] = "queued"]
            /\ promised' = [promised EXCEPT ![j] = present] /\ UNCHANGED <<batch, marked, overrun>>
            /\ \A k \in ReplayJobs \ {j} : k \in unwritten => k \in unwritten'
            /\ to = "none" => j \in unwritten'
            /\ unwritten' \subseteq ReplayJobs
      BY <1>t, <2>1 DEF CreateReplayJob, Moves
    <3>2. ScopeIsMarked' /\ SwitchIsSeen'
      BY <1>t, <1>a, <3>1 DEF ScopeIsMarked, SwitchIsSeen
    <3>3. JobHasTask'
      BY <1>t, <1>a, <3>1 DEF JobHasTask, Working
    <3>4. /\ replayAt' \in [ReplayJobs -> ReplayPlaces] /\ replayJob' \in [ReplayJobs -> ReplayStatus]
          /\ promised' \in [ReplayJobs -> SUBSET Sources]
      BY <1>t, <3>1 DEF ReplayPlaces, ReplayStatus
    <3> QED BY <1>t, <3>1, <3>2, <3>3, <3>4 DEF JobRows
  <2>2. CASE RecordReplayStarted(j)
    BY <1>t, <1>a, <2>2 DEF RecordReplayStarted, Moves, JobRows, ReplayPlaces, Working,
       ScopeIsMarked, SwitchIsSeen, JobHasTask
  <2>3. CASE LookAtSwitch(j)
    <3>1. PICK from \in {"first", "look"}, to \in {"abort", "look", "fetch"} :
            /\ replayAt[j] = from /\ replayAt' = [replayAt EXCEPT ![j] = to]
            /\ to = "fetch" => ~killSwitch["replay"]
            /\ UNCHANGED <<replayJob, batch, promised, marked, overrun, unwritten>>
      BY <2>3 DEF LookAtSwitch, Moves, IsKillSwitchEnabled
    <3>2. ScopeIsMarked' /\ SwitchIsSeen'
      BY <1>t, <1>a, <3>1 DEF ScopeIsMarked, SwitchIsSeen
    <3>3. JobHasTask' /\ replayAt' \in [ReplayJobs -> ReplayPlaces]
      BY <1>t, <1>a, <3>1 DEF JobHasTask, Working, ReplayPlaces
    <3> QED BY <1>t, <3>1, <3>2, <3>3 DEF JobRows
  <2>4. CASE FetchBatch(j)
    <3>1. PICK ids \in SUBSET (present \ marked) :
            /\ replayAt[j] = "fetch"
            /\ Cardinality(ids) < BatchSize => ids = present \ marked
            /\ replayAt' = [replayAt EXCEPT ![j] = IF EndOfScope(ids) THEN "complete" ELSE "write"]
            /\ batch' = [batch EXCEPT ![j] = IF EndOfScope(ids) THEN {} ELSE ids]
            /\ UNCHANGED <<replayJob, promised, marked, overrun, unwritten>>
      BY <2>4 DEF FetchBatch
    <3>2. ids = {} => present \subseteq marked
      BY <3>1, FS_EmptySet, OpsAssumption
    <3>3. ScopeIsMarked' /\ SwitchIsSeen'
      BY <1>t, <1>a, <3>1, <3>2 DEF EndOfScope, ScopeIsMarked, SwitchIsSeen
    <3>4. JobHasTask' /\ replayAt' \in [ReplayJobs -> ReplayPlaces]
      BY <1>t, <1>a, <3>1 DEF JobHasTask, Working, ReplayPlaces
    <3>5. batch' \in [ReplayJobs -> SUBSET Sources]
      BY <1>t, <3>1
    <3> QED BY <1>t, <3>1, <3>3, <3>4, <3>5 DEF JobRows
  <2>5. CASE InsertReplayEvents(j)
    <3>1. /\ replayAt[j] = "write" /\ replayAt' = [replayAt EXCEPT ![j] = "look"]
          /\ marked' = marked \cup batch[j] /\ batch' = [batch EXCEPT ![j] = {}]
          /\ overrun' = IF killSwitch["replay"] THEN [overrun EXCEPT ![j] = @ + 1] ELSE overrun
          /\ UNCHANGED <<replayJob, promised, unwritten>>
      BY <2>5 DEF InsertReplayEvents, MarkBatch, Moves
    <3>2. overrun' \in [ReplayJobs -> {0, 1}] /\ SwitchIsSeen'
      BY <1>t, <1>a, <3>1 DEF SwitchIsSeen
    <3>3. ScopeIsMarked' /\ marked' \subseteq Sources
      BY <1>t, <1>a, <3>1 DEF ScopeIsMarked
    <3>4. JobHasTask' /\ replayAt' \in [ReplayJobs -> ReplayPlaces]
      BY <1>t, <1>a, <3>1 DEF JobHasTask, Working, ReplayPlaces
    <3> QED BY <1>t, <3>1, <3>2, <3>3, <3>4 DEF JobRows
  <2>6. CASE StartReplayJob(j) \/ AbortReplayJob(j) \/ CompleteReplayJob(j) \/ FailReplayJob(j)
    BY <2>6, UpdateKeeps DEF StartReplayJob, AbortReplayJob, CompleteReplayJob, FailReplayJob, Written
  <2>7. CASE ReplayFails(j)
    <3>1. PICK to \in {"none", "catch"} :
            /\ to = (IF replayAt[j] \in Working THEN "catch" ELSE "none")
            /\ replayAt' = [replayAt EXCEPT ![j] = to]
      BY <2>7 DEF ReplayFails
    <3>2. unwritten' \subseteq ReplayJobs /\ unwritten \subseteq unwritten' /\ (to = "none" => j \in unwritten')
      BY <1>t, <2>7, <3>1 DEF ReplayFails
    <3> QED BY <1>0, <2>7, <3>1, <3>2, LossKeeps DEF ReplayFails
  <2>8. CASE ReplayDies(j)
    <3>1. unwritten' \subseteq ReplayJobs /\ unwritten \subseteq unwritten'
      BY <1>t, <2>8 DEF ReplayDies
    <3> QED BY <1>0, <2>8, <3>1, LossKeeps DEF ReplayDies
  <2> QED BY <2>1, <2>2, <2>3, <2>4, <2>5, <2>6, <2>7, <2>8 DEF RunReplayJob
<1> QED
  BY <1>0, <1>1 DEF OpsInv, OpsTypeOK, OthersStay, exportVars, ExportsPastAudit, JobRows

\* Every step of the operations preserves the invariant.
LEMMA OpsKeeps == OpsInv /\ [OpsNext]_opsVars => OpsInv'
<1> SUFFICES ASSUME OpsInv, [OpsNext]_opsVars PROVE OpsInv'
  OBVIOUS
<1>t. /\ killSwitch \in [SwitchKeys -> BOOLEAN] /\ turns \in 0 .. MaxTurns
      /\ overrun \in [ReplayJobs -> {0, 1}] /\ present \subseteq Sources
  BY OpsTyped
<1>1. ASSUME NEW key \in SwitchKeys, NEW enabled \in BOOLEAN, SetKillSwitch(key, enabled) PROVE OpsInv'
  <2>1. turns' \in 0 .. MaxTurns
    <3>1. turns' = turns + 1 /\ turns < MaxTurns
      BY <1>1 DEF SetKillSwitch
    <3> QED BY <1>t, <3>1, OpsAssumption
  <2>2. /\ killSwitch' \in [SwitchKeys -> BOOLEAN] /\ overrun' \in [ReplayJobs -> {0, 1}]
        /\ UNCHANGED <<present, replayJob, replayAt, batch, promised, marked, unwritten>>
        /\ UNCHANGED exportVars
    BY <1>1, <1>t DEF SetKillSwitch
  <2>3. SwitchIsSeen'
    BY <1>1, <1>t DEF SetKillSwitch, OpsInv, SwitchIsSeen, SwitchKeys
  <2> QED
    BY <2>1, <2>2, <2>3 DEF OpsInv, OpsTypeOK, exportVars, ScopeIsMarked, ExportsPastAudit, JobHasTask
<1>2. CASE SourceAppears
  BY <1>2, <1>t DEF SourceAppears, replayVars, exportVars, OpsInv, OpsTypeOK, ScopeIsMarked, SwitchIsSeen,
     ExportsPastAudit, JobHasTask
<1>3. CASE UNCHANGED opsVars
  BY <1>3 DEF opsVars, OpsInv, OpsTypeOK, ScopeIsMarked, SwitchIsSeen, ExportsPastAudit, JobHasTask
<1> QED BY <1>1, <1>2, <1>3, ExportKeeps, JobKeeps DEF OpsNext

\* The invariant implies what the run checks.
LEMMA OpsInvImplies ==
  OpsInv => OpsTypeOK /\ CompletedCoversScope /\ KillSwitchBites /\ UnendedHasTask /\ ExportsAreAudited
  BY DEF OpsInv, ScopeIsMarked, SwitchIsSeen, ExportsPastAudit, JobHasTask, CompletedCoversScope,
     KillSwitchBites, UnendedHasTask, ExportsAreAudited

-----------------------------------------------------------------------------
(* Finite recursion.  The library states induction and recursion with an      *)
(* operator as a parameter; these lemmas have sets and functions in its place. *)

\* A set of subsets of a finite set to which, element by element, every subset
\* can be brought has them all: induction, by a smallest counterexample.
LEMMA FiniteInduction ==
  ASSUME NEW S, IsFiniteSet(S), NEW good, {} \in good,
         \A s \in SUBSET S : s # {} => \E x \in s : s \ {x} \in good => s \in good
  PROVE  \A s \in SUBSET S : s \in good
<1> DEFINE T == {n \in Nat : \E s \in SUBSET S : s \notin good /\ Cardinality(s) = n}
<1>1. ASSUME NEW s \in SUBSET S
      PROVE  /\ IsFiniteSet(s) /\ Cardinality(s) \in Nat
             /\ \A x \in s : Cardinality(s \ {x}) = Cardinality(s) - 1
  BY FS_Subset, FS_CardinalityType, FS_RemoveElement
<1>2. ASSUME NEW b \in SUBSET S, b \notin good PROVE FALSE
  <2>1. T \subseteq Nat /\ T # {}
    BY <1>1, <1>2
  <2>2. PICK n \in T : \A m \in T : ~ (<<m, n>> \in OpToRel(<, Nat))
    <3> HIDE DEF T
    <3> QED BY <2>1, NatLessThanWellFounded, WFMin
  <2>3. PICK s \in SUBSET S : s \notin good /\ Cardinality(s) = n
    OBVIOUS
  <2>4. PICK x \in s : s \ {x} \notin good
    <3>1. s # {}
      BY <2>3
    <3> QED BY <2>3, <3>1
  <2>5. Cardinality(s \ {x}) = n - 1 /\ n - 1 \in Nat /\ n \in Nat
    <3>1. Cardinality(s \ {x}) \in Nat
      BY <1>1
    <3> QED BY <1>1, <2>3, <3>1
  <2>6. n - 1 \in T
    BY <2>4, <2>5
  <2>7. <<n - 1, n>> \in OpToRel(<, Nat)
    BY <2>5 DEF OpToRel
  <2> QED BY <2>2, <2>6, <2>7
<1> QED BY <1>2

\* next picks an element of every subset of S that has one, and g takes them one
\* by one: what F makes of the next element and of g for the others.
Picks(next, S) == \A s \in SUBSET S : s # {} => next[s] \in s
Takes(g, next, F, base, S, V) ==
  /\ g \in [SUBSET S -> V] /\ g[{}] = base
  /\ \A s \in SUBSET S : s # {} => g[s] = F[next[s]][g[s \ {next[s]}]]

\* Recursion over the subsets of a finite set, one element at a time, defines a
\* function.
LEMMA RecursionExists ==
  ASSUME NEW S, IsFiniteSet(S), NEW V, NEW base \in V, NEW next, Picks(next, S),
         NEW F \in [S -> [V -> V]]
  PROVE  \E g : Takes(g, next, F, base, S, V)
<1>p. \A s \in SUBSET S : s # {} => next[s] \in s
  BY DEF Picks
<1> DEFINE Unroll(g) == [s \in SUBSET S |-> IF s = {} THEN base ELSE F[next[s]][g[s \ {next[s]}]]]
           Upto(n) == {s \in SUBSET S : Cardinality(s) <= n}
           T == {n \in Nat : ~ \E g \in [SUBSET S -> V] : \A s \in Upto(n) : g[s] = Unroll(g)[s]}
<1>1. ASSUME NEW s \in SUBSET S
      PROVE  /\ IsFiniteSet(s) /\ Cardinality(s) \in Nat
             /\ \A x \in s : Cardinality(s \ {x}) = Cardinality(s) - 1
             /\ Cardinality(s) = 0 <=> s = {}
             /\ Cardinality(s) <= Cardinality(S)
  BY FS_Subset, FS_CardinalityType, FS_RemoveElement, FS_EmptySet
<1>2. ASSUME NEW g \in [SUBSET S -> V] PROVE Unroll(g) \in [SUBSET S -> V]
  BY <1>p
<1>3. T = {}
  <2> SUFFICES ASSUME T # {} PROVE FALSE
    OBVIOUS
  <2>1. T \subseteq Nat
    OBVIOUS
  <2>2. PICK n \in T : \A m \in T : ~ (<<m, n>> \in OpToRel(<, Nat))
    <3> HIDE DEF T
    <3> QED BY <2>1, NatLessThanWellFounded, WFMin
  <2>3. n # 0
    <3> DEFINE g == [s \in SUBSET S |-> base]
    <3>1. g \in [SUBSET S -> V]
      OBVIOUS
    <3>2. ASSUME NEW s \in Upto(0) PROVE g[s] = Unroll(g)[s]
      <4>1. s = {}
        BY <1>1
      <4> QED BY <4>1
    <3>3. 0 \notin T
      <4> HIDE DEF Unroll, Upto, g
      <4> QED BY <3>1, <3>2
    <3> HIDE DEF T
    <3> QED BY <3>3
  <2>4. n - 1 \in Nat /\ <<n - 1, n>> \in OpToRel(<, Nat)
    BY <2>1, <2>3 DEF OpToRel
  <2>5. n - 1 \notin T
    BY <2>2, <2>4
  <2>6. PICK g \in [SUBSET S -> V] : \A s \in Upto(n - 1) : g[s] = Unroll(g)[s]
    BY <2>4, <2>5
  <2>7. ASSUME NEW s \in Upto(n) PROVE Unroll(g)[s] = Unroll(Unroll(g))[s]
    <3>1. CASE s = {}
      BY <3>1
    <3>2. CASE s # {}
      <4> DEFINE r == s \ {next[s]}
      <4>1. r \in Upto(n - 1) /\ r \in SUBSET S
        <5>1. next[s] \in s /\ n \in Nat
          BY <1>p, <2>1, <3>2
        <5>2. Cardinality(r) = Cardinality(s) - 1 /\ Cardinality(s) \in Nat /\ Cardinality(s) <= n
          BY <1>1, <5>1
        <5>3. Cardinality(r) <= n - 1
          BY <5>1, <5>2
        <5> QED BY <5>3
      <4>2. g[r] = Unroll(g)[r]
        BY <2>6, <4>1
      <4> QED BY <3>2, <4>2, <1>2
    <3> QED BY <3>1, <3>2
  <2>8. Unroll(g) \in [SUBSET S -> V]
    BY <1>2
  <2>9. n \notin T
    <3> HIDE DEF Unroll
    <3> QED BY <2>7, <2>8
  <2> QED BY <2>9
<1>4. Cardinality(S) \in Nat /\ \A s \in SUBSET S : s \in Upto(Cardinality(S))
  BY <1>1
<1>5. PICK g \in [SUBSET S -> V] : \A s \in Upto(Cardinality(S)) : g[s] = Unroll(g)[s]
  BY <1>3, <1>4
<1>6. g = Unroll(g)
  <2>1. \A s \in SUBSET S : g[s] = Unroll(g)[s]
    BY <1>4, <1>5
  <2>2. Unroll(g) \in [SUBSET S -> V]
    BY <1>2
  <2> HIDE DEF Unroll
  <2> QED BY <2>1, <2>2
<1>7. g[{}] = base /\ \A s \in SUBSET S : s # {} => g[s] = F[next[s]][g[s \ {next[s]}]]
  BY <1>6
<1>8. Takes(g, next, F, base, S, V)
  BY <1>7 DEF Takes
<1> QED BY <1>8

\* A set of indices that is not empty has a greatest one.
LEMMA GreatestIndex ==
  ASSUME NEW n \in Nat, NEW S \in SUBSET (1..n), S # {}
  PROVE  \E v \in S : \A w \in S : v >= w
<1> DEFINE good == {s \in SUBSET S : s = {} \/ \E v \in s : \A w \in s : v >= w}
<1>1. IsFiniteSet(S)
  <2>1. IsFiniteSet(1..n)
    BY FS_Interval
  <2> QED BY <2>1, FS_Subset
<1>2. ASSUME NEW s \in SUBSET S, NEW x \in s, s \ {x} \in good PROVE s \in good
  <2>1. s \subseteq Nat
    OBVIOUS
  <2>2. CASE s \ {x} = {}
    <3>1. s = {x} /\ x \in Nat
      BY <1>2, <2>1, <2>2
    <3>2. \A m \in Nat : m >= m
      OBVIOUS
    <3> QED BY <3>1, <3>2
  <2>3. ASSUME NEW v \in s \ {x}, \A w \in s \ {x} : v >= w PROVE s \in good
    <3>1. CASE v >= x
      BY <2>3, <3>1
    <3>2. CASE x >= v
      <4>1. \A w \in s : x >= w
        BY <2>1, <2>3, <3>2
      <4> QED BY <4>1
    <3> QED BY <2>1, <3>1, <3>2
  <2> QED BY <1>2, <2>2, <2>3
<1>3. S \in good
  <2>1. {} \in good
    OBVIOUS
  <2>2. \A s \in SUBSET S : s # {} => \E x \in s : s \ {x} \in good => s \in good
    <3> HIDE DEF good
    <3> QED BY <1>2
  <2> HIDE DEF good
  <2>3. \A s \in SUBSET S : s \in good
    BY <1>1, <2>1, <2>2, FiniteInduction
  <2> QED BY <2>3
<1> QED BY <1>3

-----------------------------------------------------------------------------
(* Product requirements.                                                     *)

\* What the merge makes of a document, and of a list.
Merged == [required: BOOLEAN, min: Amounts \cup {Null}, max: Amounts \cup {Null}]
MergedLists == UNION {[D -> Merged] : D \in SUBSET {e.doc : e \in Entries}}

\* The entries of E that ask for document d.
Asking(E, d) == {e \in E : e.doc = d}

\* The row r of a document covers the amounts of the entries asking for it, and
\* no more than they say.
Covers(r, asking) ==
  /\ r.min \in {e.min : e \in asking} \cup {Null} /\ r.max \in {e.max : e \in asking} \cup {Null}
  /\ \A e \in asking : /\ e.min # Null => r.min # Null /\ r.min <= e.min
                       /\ e.max # Null => r.max # Null /\ r.max >= e.max

\* found says what the entries of E say together.
Says(found, E) ==
  /\ DOMAIN found = {e.doc : e \in E}
  /\ \A d \in DOMAIN found :
       /\ found[d].required = (\E e \in Asking(E, d) : e.required)
       /\ Covers(found[d], Asking(E, d))

\* The fields of an entry.
LEMMA EntryTyped ==
  ASSUME NEW e \in Entries
  PROVE  e.required \in BOOLEAN /\ e.min \in Amounts \cup {Null} /\ e.max \in Amounts \cup {Null}
  BY RequirementsAssumption

\* The bounds of an amount that two entries give together.
LEMMA BoundsTyped ==
  ASSUME NEW a \in Amounts \cup {Null}, NEW b \in Amounts \cup {Null}
  PROVE  /\ Lower(a, b) \in {a, b} /\ Upper(a, b) \in {a, b}
         /\ a # Null => Lower(a, b) # Null /\ Lower(a, b) <= a
         /\ b # Null => Lower(a, b) # Null /\ Lower(a, b) <= b
         /\ a # Null => Upper(a, b) # Null /\ Upper(a, b) >= a
         /\ b # Null => Upper(a, b) # Null /\ Upper(a, b) >= b
<1>1. Amounts \subseteq Nat /\ Null \notin Amounts
  BY RequirementsAssumption
<1> QED BY <1>1 DEF Lower, Upper

\* What a round of the merge makes of the document of the entry, and of others.
LEMMA RoundOfMerge ==
  ASSUME NEW found \in MergedLists, NEW e \in Entries
  PROVE  /\ MergeRequirement(found, e) \in MergedLists
         /\ DOMAIN MergeRequirement(found, e) = DOMAIN found \cup {e.doc}
         /\ \A d \in DOMAIN found : d # e.doc => MergeRequirement(found, e)[d] = found[d]
         /\ e.doc \notin DOMAIN found =>
              MergeRequirement(found, e)[e.doc] = [required |-> e.required, min |-> e.min, max |-> e.max]
         /\ e.doc \in DOMAIN found =>
              /\ found[e.doc] \in Merged
              /\ MergeRequirement(found, e)[e.doc] =
                 [required |-> found[e.doc].required \/ e.required,
                  min |-> Lower(found[e.doc].min, e.min), max |-> Upper(found[e.doc].max, e.max)]
<1> DEFINE m == MergeRequirement(found, e)
<1>1. PICK D \in SUBSET {f.doc : f \in Entries} : found \in [D -> Merged]
  BY DEF MergedLists
<1>2. CASE e.doc \notin DOMAIN found
  <2> DEFINE new == [required |-> e.required, min |-> e.min, max |-> e.max]
  <2>1. new \in Merged
    BY EntryTyped DEF Merged
  <2>2. m = [d \in D \cup {e.doc} |-> IF d = e.doc THEN new ELSE found[d]]
    BY <1>1, <1>2 DEF MergeRequirement, KeepLast
  <2> HIDE DEF new, m
  <2>3. m \in [D \cup {e.doc} -> Merged] /\ D \cup {e.doc} \in SUBSET {f.doc : f \in Entries}
    BY <1>1, <2>1, <2>2
  <2>4. m \in MergedLists
    BY <2>3 DEF MergedLists
  <2>5. DOMAIN m = DOMAIN found \cup {e.doc} /\ m[e.doc] = new /\ \A d \in DOMAIN found : d # e.doc => m[d] = found[d]
    BY <1>1, <2>2
  <2> QED BY <1>2, <2>4, <2>5 DEF m, new
<1>3. CASE e.doc \in DOMAIN found
  <2> DEFINE old == found[e.doc]
             new == [required |-> old.required \/ e.required,
                     min |-> Lower(old.min, e.min), max |-> Upper(old.max, e.max)]
  <2>0. old \in Merged
    BY <1>1, <1>3
  <2>1. new \in Merged
    <3>1. old.min \in Amounts \cup {Null} /\ old.max \in Amounts \cup {Null}
      BY <2>0 DEF Merged
    <3>2. Lower(old.min, e.min) \in Amounts \cup {Null} /\ Upper(old.max, e.max) \in Amounts \cup {Null}
      BY <3>1, EntryTyped, BoundsTyped
    <3>3. (old.required \/ e.required) \in BOOLEAN
      OBVIOUS
    <3> QED BY <3>2, <3>3 DEF Merged
  <2>2. m = [found EXCEPT ![e.doc] = new]
    BY <1>3 DEF MergeRequirement
  <2> HIDE DEF new, m, old
  <2>3. m \in [D -> Merged] /\ m[e.doc] = new /\ DOMAIN m = DOMAIN found
    BY <1>1, <1>3, <2>1, <2>2
  <2>4. m \in MergedLists
    BY <2>3 DEF MergedLists
  <2>5. \A d \in DOMAIN found : d # e.doc => m[d] = found[d]
    BY <1>1, <2>2
  <2> QED BY <1>3, <2>0, <2>3, <2>4, <2>5 DEF m, new, old
<1> QED BY <1>2, <1>3

\* A round of the merge adds what its entry says.
LEMMA MergeAdds ==
  ASSUME NEW found \in MergedLists, NEW E \in SUBSET Entries, Says(found, E), NEW e \in Entries
  PROVE  Says(MergeRequirement(found, e), E \cup {e})
<1> DEFINE m == MergeRequirement(found, e)
           F == E \cup {e}
<1>r. /\ DOMAIN m = DOMAIN found \cup {e.doc}
      /\ \A d \in DOMAIN found : d # e.doc => m[d] = found[d]
      /\ e.doc \notin DOMAIN found => m[e.doc] = [required |-> e.required, min |-> e.min, max |-> e.max]
      /\ e.doc \in DOMAIN found =>
           /\ found[e.doc] \in Merged
           /\ m[e.doc] = [required |-> found[e.doc].required \/ e.required,
                          min |-> Lower(found[e.doc].min, e.min), max |-> Upper(found[e.doc].max, e.max)]
  BY RoundOfMerge
<1> HIDE DEF m
<1>1. DOMAIN m = {f.doc : f \in F}
  BY <1>r DEF Says, Covers
<1>2. ASSUME NEW d \in DOMAIN m
      PROVE  /\ m[d].required = (\E f \in Asking(F, d) : f.required)
             /\ m[d].min \in {f.min : f \in Asking(F, d)} \cup {Null}
             /\ m[d].max \in {f.max : f \in Asking(F, d)} \cup {Null}
             /\ \A f \in Asking(F, d) : /\ f.min # Null => m[d].min # Null /\ m[d].min <= f.min
                                        /\ f.max # Null => m[d].max # Null /\ m[d].max >= f.max
  <2>1. CASE d # e.doc
    <3>1. Asking(F, d) = Asking(E, d)
      BY <2>1 DEF Asking
    <3>2. d \in DOMAIN found /\ m[d] = found[d]
      BY <1>2, <2>1, <1>r
    <3> HIDE DEF F
    <3> QED BY <3>1, <3>2 DEF Says, Covers
  <2>2. CASE d = e.doc /\ d \notin DOMAIN found
    <3>1. Asking(F, d) = {e}
      BY <2>2 DEF Says, Asking
    <3>2. m[d].required = e.required /\ m[d].min = e.min /\ m[d].max = e.max
      BY <2>2, <1>r
    <3>3. e.min \in Amounts \cup {Null} /\ e.max \in Amounts \cup {Null} /\ Amounts \subseteq Nat
      BY EntryTyped, RequirementsAssumption
    <3>4. e.required = (\E f \in {e} : f.required)
      BY EntryTyped
    <3> HIDE DEF F
    <3>5. m[d].required = (\E f \in Asking(F, d) : f.required)
      BY <3>1, <3>2, <3>4
    <3>0. \A n \in Nat : n <= n /\ n >= n
      OBVIOUS
    <3>6. e.min <= e.min \/ e.min = Null
      BY <3>0, <3>3
    <3>7. e.max >= e.max \/ e.max = Null
      BY <3>0, <3>3
    <3> QED BY <3>1, <3>2, <3>5, <3>6, <3>7
  <2>3. CASE d = e.doc /\ d \in DOMAIN found
    <3> DEFINE old == found[d]
    <3>1. Asking(F, d) = Asking(E, d) \cup {e}
      BY <2>3 DEF Asking
    <3>2. /\ m[d].required = (old.required \/ e.required)
          /\ m[d].min = Lower(old.min, e.min) /\ m[d].max = Upper(old.max, e.max)
      BY <2>3, <1>r
    <3>3. old \in Merged
      BY <2>3, <1>r
    <3>4. /\ old.required = (\E f \in Asking(E, d) : f.required)
          /\ old.min \in {f.min : f \in Asking(E, d)} \cup {Null}
          /\ old.max \in {f.max : f \in Asking(E, d)} \cup {Null}
          /\ \A f \in Asking(E, d) : /\ f.min # Null => old.min # Null /\ old.min <= f.min
                                     /\ f.max # Null => old.max # Null /\ old.max >= f.max
      BY <2>3 DEF Says, Covers
    <3>t. /\ old.min \in Amounts \cup {Null} /\ old.max \in Amounts \cup {Null}
          /\ e.min \in Amounts \cup {Null} /\ e.max \in Amounts \cup {Null}
      BY <3>3, EntryTyped DEF Merged
    <3> HIDE DEF F, old
    <3>5. m[d].required = (\E f \in Asking(F, d) : f.required)
      BY <3>1, <3>2, <3>4
    <3>6. m[d].min \in {f.min : f \in Asking(F, d)} \cup {Null}
      <4>1. Lower(old.min, e.min) \in {old.min, e.min}
        BY <3>t, BoundsTyped
      <4> QED BY <3>1, <3>2, <3>4, <4>1
    <3>7. m[d].max \in {f.max : f \in Asking(F, d)} \cup {Null}
      <4>1. Upper(old.max, e.max) \in {old.max, e.max}
        BY <3>t, BoundsTyped
      <4> QED BY <3>1, <3>2, <3>4, <4>1
    <3>8. ASSUME NEW f \in Asking(F, d)
          PROVE  /\ f.min # Null => m[d].min # Null /\ m[d].min <= f.min
                 /\ f.max # Null => m[d].max # Null /\ m[d].max >= f.max
      <4>1. /\ old.min # Null => m[d].min # Null /\ m[d].min <= old.min
            /\ e.min # Null => m[d].min # Null /\ m[d].min <= e.min
            /\ old.max # Null => m[d].max # Null /\ m[d].max >= old.max
            /\ e.max # Null => m[d].max # Null /\ m[d].max >= e.max
            /\ m[d].min \in Amounts \cup {Null} /\ m[d].max \in Amounts \cup {Null}
        BY <3>2, <3>t, BoundsTyped
      <4>2. CASE f = e
        BY <4>1, <4>2
      <4>3. CASE f \in Asking(E, d)
        <5>1. f.min \in Amounts \cup {Null} /\ f.max \in Amounts \cup {Null} /\ Amounts \subseteq Nat /\ Null \notin Amounts
          BY <4>3, EntryTyped, RequirementsAssumption DEF Asking
        <5>2. f.min # Null => m[d].min # Null /\ m[d].min <= f.min
          <6>1. f.min # Null => old.min # Null /\ old.min <= f.min
            BY <3>4, <4>3
          <6>2. \A a, b, c \in Nat : a <= b /\ b <= c => a <= c
            OBVIOUS
          <6> QED BY <3>t, <4>1, <5>1, <6>1, <6>2
        <5>3. f.max # Null => m[d].max # Null /\ m[d].max >= f.max
          <6>1. f.max # Null => old.max # Null /\ old.max >= f.max
            BY <3>4, <4>3
          <6>2. \A a, b, c \in Nat : a >= b /\ b >= c => a >= c
            OBVIOUS
          <6> QED BY <3>t, <4>1, <5>1, <6>1, <6>2
        <5> QED BY <5>2, <5>3
      <4> QED BY <3>1, <4>2, <4>3
    <3> QED BY <3>5, <3>6, <3>7, <3>8
  <2> QED BY <2>1, <2>2, <2>3
<1>3. Says(m, F)
  BY <1>1, <1>2 DEF Says, Covers
<1> QED BY <1>3 DEF m

\* The entries at the indices kept of a list.
EntriesAt(docs, kept) == {docs[i] : i \in kept}

\* The merge of the kept entries of a list adds what they say to what was found
\* before (dedupeRequirements).
LEMMA DedupeAdds ==
  ASSUME NEW n \in Nat, NEW docs \in [1..n -> Entries], NEW kept \in SUBSET (1..n),
         NEW found \in MergedLists
  PROVE  /\ DedupeRequirements(found, docs, kept) \in MergedLists
         /\ \A E \in SUBSET Entries :
              Says(found, E) => Says(DedupeRequirements(found, docs, kept), E \cup EntriesAt(docs, kept))
<1> DEFINE last == [s \in SUBSET kept |-> Max(s)]
           F == [i \in kept |-> [m \in MergedLists |-> MergeRequirement(m, docs[i])]]
           iter[s \in SUBSET kept] ==
             IF s = {} THEN found
             ELSE LET x == Max(s) IN MergeRequirement(iter[s \ {x}], docs[x])
           Unroll(g) == [s \in SUBSET kept |-> IF s = {} THEN found
                                             ELSE MergeRequirement(g[s \ {Max(s)}], docs[Max(s)])]
<1>f. IsFiniteSet(kept)
  <2>1. IsFiniteSet(1..n)
    BY FS_Interval
  <2> QED BY <2>1, FS_Subset
<1>m. ASSUME NEW s \in SUBSET kept, s # {} PROVE Max(s) \in s
  <2>1. \E v \in s : \A w \in s : v >= w
    BY <1>m, GreatestIndex
  <2> QED BY <2>1 DEF Max
<1>e. \A i \in kept : docs[i] \in Entries
  OBVIOUS
<1>1. \E g : g = Unroll(g)
  <2>1. \A s \in SUBSET kept : s # {} => last[s] \in s
    BY <1>m
  <2>2. F \in [kept -> [MergedLists -> MergedLists]]
    BY <1>e, RoundOfMerge
  <2> HIDE DEF F, last
  <2>3. PICK g \in [SUBSET kept -> MergedLists] :
          /\ g[{}] = found
          /\ \A s \in SUBSET kept : s # {} => g[s] = F[last[s]][g[s \ {last[s]}]]
    <3>1. Picks(last, kept)
      BY <2>1 DEF Picks
    <3>2. \E g : Takes(g, last, F, found, kept, MergedLists)
      BY <1>f, <2>2, <3>1, RecursionExists
    <3> QED BY <3>2 DEF Takes
  <2>4. ASSUME NEW s \in SUBSET kept, s # {}
        PROVE  F[last[s]][g[s \ {last[s]}]] = MergeRequirement(g[s \ {Max(s)}], docs[Max(s)])
    <3>1. last[s] = Max(s) /\ Max(s) \in kept
      BY <1>m, <2>4 DEF last
    <3>2. g[s \ {Max(s)}] \in MergedLists
      OBVIOUS
    <3> QED BY <3>1, <3>2 DEF F
  <2>5. g = Unroll(g)
    BY <2>3, <2>4
  <2> QED BY <2>5
<1>2. iter = Unroll(iter)
  <2>1. iter = CHOOSE g : g = Unroll(g)
    OBVIOUS
  <2>2. (CHOOSE g : g = Unroll(g)) = Unroll(CHOOSE g : g = Unroll(g))
    <3> HIDE DEF iter, Unroll
    <3> QED BY <1>1
  <2> HIDE DEF iter, Unroll
  <2> QED BY <2>1, <2>2
<1>3. DedupeRequirements(found, docs, kept) = iter[kept]
  BY DEF DedupeRequirements, MapThenFoldSet
<1> HIDE DEF iter, F, last
<1> DEFINE Adds(s) == \A E \in SUBSET Entries : Says(found, E) => Says(iter[s], E \cup EntriesAt(docs, s))
           good == {s \in SUBSET kept : iter[s] \in MergedLists /\ Adds(s)}
<1>4. {} \in good
  <2>1. iter[{}] = found
    BY <1>2
  <2>2. \A E : E \cup EntriesAt(docs, {}) = E
    BY DEF EntriesAt
  <2> HIDE DEF iter
  <2> QED BY <2>1, <2>2
<1>5. ASSUME NEW s \in SUBSET kept, s # {}, s \ {Max(s)} \in good PROVE s \in good
  <2> DEFINE r == s \ {Max(s)}
             e == docs[Max(s)]
  <2>1. iter[s] = MergeRequirement(iter[r], e)
    BY <1>2, <1>5
  <2>2. Max(s) \in s /\ e \in Entries
    BY <1>5, <1>m, <1>e
  <2>3. iter[r] \in MergedLists /\ Adds(r)
    BY <1>5
  <2>4. MergeRequirement(iter[r], e) \in MergedLists
    BY <2>2, <2>3, RoundOfMerge
  <2>5. ASSUME NEW E \in SUBSET Entries, Says(found, E)
        PROVE  Says(MergeRequirement(iter[r], e), E \cup EntriesAt(docs, s))
    <3>1. E \cup EntriesAt(docs, r) \in SUBSET Entries
      BY <1>e DEF EntriesAt
    <3>2. (E \cup EntriesAt(docs, r)) \cup {e} = E \cup EntriesAt(docs, s)
      BY <2>2 DEF EntriesAt
    <3>3. Says(iter[r], E \cup EntriesAt(docs, r))
      BY <2>3, <2>5
    <3> HIDE DEF r, e
    <3>4. Says(MergeRequirement(iter[r], e), (E \cup EntriesAt(docs, r)) \cup {e})
      BY <2>2, <2>3, <3>1, <3>3, MergeAdds
    <3> QED BY <3>2, <3>4
  <2> HIDE DEF r, e
  <2> QED BY <2>1, <2>4, <2>5
<1>6. \A s \in SUBSET kept : s # {} => \E x \in s : s \ {x} \in good => s \in good
  <2> HIDE DEF good
  <2> QED BY <1>5, <1>m
<1>7. kept \in good
  <2> HIDE DEF good
  <2>1. \A s \in SUBSET kept : s \in good
    BY <1>f, <1>4, <1>6, FiniteInduction
  <2> QED BY <2>1
<1> QED BY <1>3, <1>7

\* What the typed entries of a product ask for.
AskedBy(p) == EntriesAt(listing[p].docs, Understood(listing[p].docs))

\* The list of a product is a list of entries, and the indices the service
\* understands are indices of it.
LEMMA ListTyped ==
  ASSUME ReqTypeOK, NEW p \in RequiredProducts
  PROVE  \E n \in Nat : /\ listing[p].docs \in [1..n -> Entries]
                        /\ Understood(listing[p].docs) \in SUBSET (1..n)
<1>1. listing[p].docs \in EntryLists
  BY DEF ReqTypeOK
<1>2. PICK n \in 0..MaxEntries : listing[p].docs \in [1..n -> Entries]
  BY <1>1 DEF EntryLists
<1>3. Understood(listing[p].docs) \in SUBSET (1..n) /\ n \in Nat
  BY <1>2 DEF Understood, MaxEntries
<1> QED BY <1>2, <1>3

\* The merge begins with nothing, which no entry asks for.
LEMMA NothingFound == <<>> \in MergedLists /\ Says(<<>>, {})
<1>1. <<>> \in [{} -> Merged] /\ DOMAIN <<>> = {}
  OBVIOUS
<1> QED BY <1>1 DEF MergedLists, Says, Asking

\* The lists of the matching products, merged one after the other, say what all
\* their typed entries say (resolveRequirementsForProductType).
LEMMA ResolvedForType ==
  ASSUME ReqTypeOK, NEW category, NEW country, NEW amount
  PROVE  \E found \in MergedLists :
           /\ Says(found, UNION {AskedBy(p) : p \in ListMatchingProducts(category, country, amount)})
           /\ ResolveRequirementsForProductType(category, country, amount) = EnsureAlwaysRequired(found)
<1> DEFINE products == ListMatchingProducts(category, country, amount)
           next == [s \in SUBSET products |-> CHOOSE x \in s : TRUE]
           merge(p, found) == DedupeRequirements(found, listing[p].docs, Understood(listing[p].docs))
           F == [p \in products |-> [m \in MergedLists |-> merge(p, m)]]
           iter[s \in SUBSET products] ==
             IF s = {} THEN <<>>
             ELSE LET x == CHOOSE x \in s : TRUE IN merge(x, iter[s \ {x}])
           Unroll(g) == [s \in SUBSET products |->
                         IF s = {} THEN <<>>
                         ELSE merge(CHOOSE x \in s : TRUE, g[s \ {CHOOSE x \in s : TRUE}])]
           All(s) == UNION {AskedBy(p) : p \in s}
<1>f. IsFiniteSet(products) /\ products \subseteq RequiredProducts
  BY RequirementsAssumption, FS_Subset DEF ListMatchingProducts
<1>0. <<>> \in MergedLists /\ Says(<<>>, {})
  BY NothingFound
<1>a. ASSUME NEW p \in products, NEW m \in MergedLists
      PROVE  /\ merge(p, m) \in MergedLists
             /\ \A E \in SUBSET Entries : Says(m, E) => Says(merge(p, m), E \cup AskedBy(p))
  <2>1. PICK n \in Nat : /\ listing[p].docs \in [1..n -> Entries]
                         /\ Understood(listing[p].docs) \in SUBSET (1..n)
    BY <1>f, ListTyped
  <2> QED BY <1>a, <2>1, DedupeAdds DEF AskedBy
<1>e. \A p \in products : AskedBy(p) \in SUBSET Entries
  <2> SUFFICES ASSUME NEW p \in products PROVE AskedBy(p) \in SUBSET Entries
    OBVIOUS
  <2>1. PICK n \in Nat : /\ listing[p].docs \in [1..n -> Entries]
                         /\ Understood(listing[p].docs) \in SUBSET (1..n)
    BY <1>f, ListTyped
  <2> QED BY <2>1 DEF AskedBy, EntriesAt
<1>m. \A s \in SUBSET products : s # {} => (CHOOSE x \in s : TRUE) \in s
  OBVIOUS
<1>1. \E g : g = Unroll(g)
  <2>1. Picks(next, products)
    BY <1>m DEF Picks
  <2>2. F \in [products -> [MergedLists -> MergedLists]]
    <3> HIDE DEF merge
    <3> QED BY <1>a
  <2> HIDE DEF F, next, merge, products
  <2>3. \E g : Takes(g, next, F, <<>>, products, MergedLists)
    BY <1>f, <1>0, <2>1, <2>2, RecursionExists
  <2>4. PICK g \in [SUBSET products -> MergedLists] :
          /\ g[{}] = <<>>
          /\ \A s \in SUBSET products : s # {} => g[s] = F[next[s]][g[s \ {next[s]}]]
    BY <2>3 DEF Takes
  <2>5. ASSUME NEW s \in SUBSET products, s # {}
        PROVE  F[next[s]][g[s \ {next[s]}]] = merge(CHOOSE x \in s : TRUE, g[s \ {CHOOSE x \in s : TRUE}])
    <3>1. next[s] = (CHOOSE x \in s : TRUE) /\ next[s] \in products
      BY <1>m, <2>5 DEF next
    <3>2. g[s \ {next[s]}] \in MergedLists
      OBVIOUS
    <3> QED BY <3>1, <3>2 DEF F
  <2>6. g = Unroll(g)
    BY <2>4, <2>5
  <2> QED BY <2>6
<1>2. iter = Unroll(iter)
  <2>1. iter = CHOOSE g : g = Unroll(g)
    OBVIOUS
  <2>2. (CHOOSE g : g = Unroll(g)) = Unroll(CHOOSE g : g = Unroll(g))
    <3> HIDE DEF iter, Unroll
    <3> QED BY <1>1
  <2> HIDE DEF iter, Unroll
  <2> QED BY <2>1, <2>2
<1>3. ResolveRequirementsForProductType(category, country, amount) = EnsureAlwaysRequired(iter[products])
  BY DEF ResolveRequirementsForProductType, FoldSet, MapThenFoldSet
<1> HIDE DEF iter, F, next
<1> DEFINE good == {s \in SUBSET products : iter[s] \in MergedLists /\ Says(iter[s], All(s))}
<1>4. {} \in good
  <2>1. iter[{}] = <<>> /\ All({}) = {}
    BY <1>2
  <2> HIDE DEF iter, All
  <2> QED BY <1>0, <2>1
<1>5. ASSUME NEW s \in SUBSET products, s # {}, NEW x \in s, x = (CHOOSE y \in s : TRUE), s \ {x} \in good
      PROVE  s \in good
  <2> DEFINE r == s \ {x}
  <2>1. iter[s] = merge(x, iter[r])
    BY <1>2, <1>5
  <2>2. iter[r] \in MergedLists /\ Says(iter[r], All(r))
    BY <1>5
  <2>3. All(r) \in SUBSET Entries /\ All(r) \cup AskedBy(x) = All(s)
    BY <1>e
  <2> HIDE DEF r, All, merge, products
  <2>4. merge(x, iter[r]) \in MergedLists /\ Says(merge(x, iter[r]), All(r) \cup AskedBy(x))
    BY <1>a, <2>2, <2>3
  <2> QED BY <2>1, <2>3, <2>4
<1>6. \A s \in SUBSET products : s # {} => \E x \in s : s \ {x} \in good => s \in good
  <2> HIDE DEF good, products
  <2> QED BY <1>5, <1>m
<1>7. products \in good
  <2> HIDE DEF good, products
  <2>1. \A s \in SUBSET products : s \in good
    BY <1>f, <1>4, <1>6, FiniteInduction
  <2> QED BY <2>1
<1> QED BY <1>3, <1>7

\* found says what the entries of E say, and has the documents that are always
\* required, of which no entry need speak.
SaysAndRequires(found, E) ==
  /\ DOMAIN found = {e.doc : e \in E} \cup AlwaysRequired
  /\ \A d \in DOMAIN found :
       /\ found[d].required = (Asking(E, d) = {} \/ \E e \in Asking(E, d) : e.required)
       /\ Covers(found[d], Asking(E, d))

\* ensureAlwaysRequired adds what is missing and changes nothing else.
LEMMA EnsuredSays ==
  ASSUME NEW m, NEW E, Says(m, E)
  PROVE  SaysAndRequires(EnsureAlwaysRequired(m), E)
<1> DEFINE found == EnsureAlwaysRequired(m)
           none == [required |-> TRUE, min |-> Null, max |-> Null]
<1>1. found = [d \in DOMAIN m \cup AlwaysRequired |-> IF d \in DOMAIN m THEN m[d] ELSE none]
  BY DEF EnsureAlwaysRequired
<1>2. DOMAIN m = {e.doc : e \in E}
  BY DEF Says
<1> HIDE DEF found
<1>3. DOMAIN found = {e.doc : e \in E} \cup AlwaysRequired
  BY <1>1, <1>2
<1>4. ASSUME NEW d \in DOMAIN found
      PROVE  /\ found[d].required = (Asking(E, d) = {} \/ \E e \in Asking(E, d) : e.required)
             /\ Covers(found[d], Asking(E, d))
  <2>1. CASE d \in DOMAIN m
    <3>1. found[d] = m[d]
      BY <1>1, <2>1
    <3>2. Asking(E, d) # {}
      BY <1>2, <2>1 DEF Asking
    <3> QED BY <2>1, <3>1, <3>2 DEF Says
  <2>2. CASE d \notin DOMAIN m
    <3>1. found[d] = none
      BY <1>1, <1>4, <2>2
    <3>2. found[d].required = TRUE /\ found[d].min = Null /\ found[d].max = Null
      BY <3>1
    <3>3. Asking(E, d) = {}
      BY <1>2, <2>2 DEF Asking
    <3>4. Covers(found[d], Asking(E, d))
      BY <3>2, <3>3 DEF Covers
    <3> QED BY <3>2, <3>3, <3>4
  <2> QED BY <2>1, <2>2
<1>5. SaysAndRequires(found, E)
  BY <1>3, <1>4 DEF SaysAndRequires
<1> QED BY <1>5 DEF found

\* What the products of a type and a country are said to require.
LEMMA MergesAreRight == ReqTypeOK => MergedRequirements
<1> SUFFICES ASSUME ReqTypeOK, NEW category \in Categories, NEW country \in Countries,
                    NEW amount \in Amounts \cup {Null}
             PROVE  LET found == ResolveRequirementsForProductType(category, country, amount)
                        all == UNION {{listing[p].docs[i] : i \in {j \in DOMAIN listing[p].docs :
                                                                     listing[p].docs[j].key = "type"}} :
                                        p \in {q \in RequiredProducts :
                                                 /\ listing[q].active /\ listing[q].lenderActive
                                                 /\ listing[q].category = category
                                                 /\ \/ country = "BOTH"
                                                    \/ listing[q].country \in {country, "BOTH"}
                                                 /\ WithinAmount(listing[q].term, amount)}}
                        of(d) == {e \in all : e.doc = d}
                    IN /\ DOMAIN found = {e.doc : e \in all} \cup AlwaysRequired
                       /\ \A d \in DOMAIN found :
                            /\ found[d].required = (of(d) = {} \/ \E e \in of(d) : e.required)
                            /\ found[d].min \in {e.min : e \in of(d)} \cup {Null}
                            /\ found[d].max \in {e.max : e \in of(d)} \cup {Null}
                            /\ \A e \in of(d) :
                                 /\ e.min # Null => found[d].min # Null /\ found[d].min <= e.min
                                 /\ e.max # Null => found[d].max # Null /\ found[d].max >= e.max
  BY DEF MergedRequirements
<1> DEFINE products == {q \in RequiredProducts :
                          /\ listing[q].active /\ listing[q].lenderActive
                          /\ listing[q].category = category
                          /\ country = "BOTH" \/ listing[q].country \in {country, "BOTH"}
                          /\ WithinAmount(listing[q].term, amount)}
           all == UNION {{listing[p].docs[i] : i \in {j \in DOMAIN listing[p].docs :
                                                        listing[p].docs[j].key = "type"}} : p \in products}
           found == ResolveRequirementsForProductType(category, country, amount)
<1>1. products = ListMatchingProducts(category, country, amount)
  BY DEF ListMatchingProducts
<1>2. \A p : AskedBy(p) = {listing[p].docs[i] : i \in {j \in DOMAIN listing[p].docs :
                                                        listing[p].docs[j].key = "type"}}
  BY DEF AskedBy, EntriesAt, Understood
<1>3. all = UNION {AskedBy(p) : p \in ListMatchingProducts(category, country, amount)}
  <2> HIDE DEF products
  <2> QED BY <1>1, <1>2
<1> HIDE DEF products, all, found
<1>4. SaysAndRequires(found, all)
  <2>1. PICK m \in MergedLists :
          /\ Says(m, UNION {AskedBy(p) : p \in ListMatchingProducts(category, country, amount)})
          /\ ResolveRequirementsForProductType(category, country, amount) = EnsureAlwaysRequired(m)
    BY ResolvedForType
  <2>2. Says(m, all) /\ found = EnsureAlwaysRequired(m)
    BY <1>3, <2>1 DEF found
  <2> QED BY <2>2, EnsuredSays
<1>5. /\ DOMAIN found = {e.doc : e \in all} \cup AlwaysRequired
      /\ \A d \in DOMAIN found :
           /\ found[d].required = ({e \in all : e.doc = d} = {} \/ \E e \in {f \in all : f.doc = d} : e.required)
           /\ found[d].min \in {e.min : e \in {f \in all : f.doc = d}} \cup {Null}
           /\ found[d].max \in {e.max : e \in {f \in all : f.doc = d}} \cup {Null}
           /\ \A e \in {f \in all : f.doc = d} :
                /\ e.min # Null => found[d].min # Null /\ found[d].min <= e.min
                /\ e.max # Null => found[d].max # Null /\ found[d].max >= e.max
  BY <1>4 DEF SaysAndRequires, Covers, Asking
<1> QED BY <1>5 DEF all, found, products

\* What a borrower is asked for, for an amount.
LEMMA DemandsFit == ReqTypeOK => DemandFitsAmount
<1> SUFFICES ASSUME ReqTypeOK, NEW p \in RequiredProducts, NEW amount \in Amounts \cup {Null}
             PROVE  LET docs == listing[p].docs
                        applies == {docs[i] : i \in {j \in DOMAIN docs : docs[j].key = "type"
                                                                        /\ WithinAmount(docs[j], amount)}}
                        asked == ListClientRequirements(p, amount)
                    IN IF listing[p].active /\ listing[p].lenderActive
                       THEN asked = {e.doc : e \in {f \in applies : f.required}}
                                    \cup (AlwaysRequired \ {e.doc : e \in applies})
                       ELSE asked = {}
  BY DEF DemandFitsAmount
<1> DEFINE docs == listing[p].docs
           applies == {docs[i] : i \in {j \in DOMAIN docs : docs[j].key = "type"
                                                           /\ WithinAmount(docs[j], amount)}}
           kept == {i \in Understood(docs) : WithinAmount(docs[i], amount)}
           merged == DedupeRequirements(<<>>, docs, kept)
           found == EnsureAlwaysRequired(merged)
<1>1. PICK n \in Nat : docs \in [1..n -> Entries] /\ Understood(docs) \in SUBSET (1..n)
  BY ListTyped
<1>2. applies = EntriesAt(docs, kept) /\ kept \in SUBSET (1..n)
  BY <1>1 DEF EntriesAt, Understood
<1>3. applies \in SUBSET Entries
  BY <1>1
<1>4. ListClientRequirements(p, amount) =
        IF listing[p].active /\ listing[p].lenderActive THEN {d \in DOMAIN found : found[d].required} ELSE {}
  BY DEF ListClientRequirements, ResolveLenderProductRequirements
<1>0. <<>> \in MergedLists /\ Says(<<>>, {})
  BY NothingFound
<1> HIDE DEF applies, kept, docs
<1>5. merged \in MergedLists /\ Says(merged, applies)
  <2>1. Says(<<>>, {}) => Says(merged, {} \cup EntriesAt(docs, kept))
    BY <1>0, <1>1, <1>2, DedupeAdds
  <2> QED BY <1>0, <1>1, <1>2, <2>1, DedupeAdds
<1> HIDE DEF merged
<1>6. /\ DOMAIN found = {e.doc : e \in applies} \cup AlwaysRequired
      /\ \A d \in DOMAIN found :
           found[d].required = (Asking(applies, d) = {} \/ \E e \in Asking(applies, d) : e.required)
  BY <1>5, EnsuredSays DEF SaysAndRequires
<1> HIDE DEF found
<1>7. {d \in DOMAIN found : found[d].required} = {e.doc : e \in {f \in applies : f.required}}
                                                \cup (AlwaysRequired \ {e.doc : e \in applies})
  <2>1. ASSUME NEW d
        PROVE  d \in {c \in DOMAIN found : found[c].required} <=>
                 \/ \E e \in applies : e.required /\ e.doc = d
                 \/ d \in AlwaysRequired /\ ~ \E e \in applies : e.doc = d
    BY <1>6 DEF Asking
  <2> QED BY <2>1
<1> QED BY <1>4, <1>7 DEF applies, docs

\* The lists a requirement edit makes of the one it has read.
LEMMA EditedLists ==
  ASSUME NEW s \in EntryLists
  PROVE  /\ \A e \in Entries : Len(s) < MaxEntries => Append(s, e) \in EntryLists
         /\ \A i \in 1..Len(s), e \in Entries : [s EXCEPT ![i] = e] \in EntryLists
         /\ \A i \in 1..Len(s) : RemoveAt(s, i) \in EntryLists
<1>1. PICK n \in 0..MaxEntries : s \in [1..n -> Entries]
  BY DEF EntryLists
<1>2. s \in Seq(Entries) /\ Len(s) = n /\ n \in Nat /\ MaxEntries = 2
  BY <1>1 DEF MaxEntries
<1>3. ASSUME NEW t \in Seq(Entries), Len(t) <= MaxEntries PROVE t \in EntryLists
  <2>1. Len(t) \in 0..MaxEntries
    <3>1. \A m \in Nat : m <= 2 => m \in 0..2
      OBVIOUS
    <3>2. Len(t) \in Nat
      OBVIOUS
    <3> QED BY <1>2, <1>3, <3>1, <3>2
  <2>2. t \in [1..Len(t) -> Entries]
    OBVIOUS
  <2> QED BY <2>1, <2>2 DEF EntryLists
<1>4. ASSUME NEW e \in Entries, Len(s) < MaxEntries PROVE Append(s, e) \in EntryLists
  <2>1. Append(s, e) \in Seq(Entries) /\ Len(Append(s, e)) = n + 1 /\ n + 1 <= MaxEntries
    BY <1>2, <1>4
  <2> QED BY <1>3, <2>1
<1>5. ASSUME NEW i \in 1..Len(s), NEW e \in Entries PROVE [s EXCEPT ![i] = e] \in EntryLists
  <2>1. [s EXCEPT ![i] = e] \in [1..n -> Entries]
    BY <1>1
  <2> QED BY <2>1 DEF EntryLists
<1>6. ASSUME NEW i \in 1..Len(s) PROVE RemoveAt(s, i) \in EntryLists
  <2> DEFINE a == SubSeq(s, 1, i - 1)
             b == SubSeq(s, i + 1, Len(s))
  <2>1. i \in 1..n /\ i - 1 \in Nat
    BY <1>2
  <2>2. a \in Seq(Entries) /\ Len(a) = i - 1
    BY <1>2, <2>1, SubSeqProperties
  <2>3. b \in Seq(Entries) /\ Len(b) = n - i
    BY <1>2, <2>1, SubSeqProperties
  <2> HIDE DEF a, b
  <2>4. a \o b \in Seq(Entries) /\ Len(a \o b) = Len(a) + Len(b)
    BY <2>2, <2>3
  <2>5. Len(a) + Len(b) <= MaxEntries
    BY <1>2, <2>1, <2>2, <2>3
  <2>6. a \o b \in EntryLists
    BY <1>3, <2>4, <2>5
  <2> QED BY <2>6 DEF RemoveAt, a, b
<1> QED BY <1>4, <1>5, <1>6

\* The rows of the two tables.
ListingRow == [active: BOOLEAN, lenderActive: BOOLEAN, category: Categories, country: Countries,
               min: MinAmounts, term: Terms, docs: EntryLists]
EditRow == [product: {{p} : p \in RequiredProducts} \cup {{}}, docs: EntryLists]

\* The type invariant, by rows.
LEMMA ReqTyped ==
  /\ ReqTypeOK <=> /\ listing \in [RequiredProducts -> ListingRow]
                   /\ editing \in [Editors -> EditRow]
  /\ ReqTypeOK' <=> /\ listing' \in [RequiredProducts -> ListingRow]
                    /\ editing' \in [Editors -> EditRow]
  BY DEF ReqTypeOK, ListingRow, EditRow

\* An editor at rest.
LEMMA NoEditTyped == NoEdit \in EditRow
<1>1. <<>> \in [1..0 -> Entries] /\ 0 \in 0..MaxEntries
  BY DEF MaxEntries
<1>2. <<>> \in EntryLists
  BY <1>1 DEF EntryLists
<1> QED BY <1>2 DEF NoEdit, EditRow

\* A list written back whole leaves the tables well-formed.
LEMMA WritesTyped ==
  ASSUME ReqTypeOK, NEW h \in Editors, NEW docs \in EntryLists, WriteDocuments(h, docs)
  PROVE  ReqTypeOK'
<1>1. PICK p \in editing[h].product : listing' = [listing EXCEPT ![p].docs = docs]
  BY DEF WriteDocuments
<1>t. listing \in [RequiredProducts -> ListingRow] /\ editing \in [Editors -> EditRow]
  BY ReqTyped
<1>2. p \in RequiredProducts
  BY <1>1, <1>t DEF EditRow
<1>3. listing[p] \in ListingRow
  BY <1>2, <1>t
<1>4. [listing[p] EXCEPT !.docs = docs] \in ListingRow
  BY <1>3 DEF ListingRow
<1>5. listing' \in [RequiredProducts -> ListingRow]
  BY <1>1, <1>2, <1>4, <1>t
<1>6. editing' \in [Editors -> EditRow]
  BY <1>t, NoEditTyped DEF WriteDocuments
<1> QED BY <1>5, <1>6, ReqTyped

\* The portal's form writes lists of entries.
LEMMA ReqInitTyped == ReqInit => ReqTypeOK
<1> SUFFICES ASSUME ReqInit PROVE ReqTypeOK
  OBVIOUS
<1>1. listing \in [RequiredProducts -> ListingRow]
  <2>1. FormLists \subseteq EntryLists
    BY DEF FormLists
  <2>2. [active: {TRUE}, lenderActive: {TRUE}, category: Categories, country: Countries,
         min: MinAmounts, term: Terms, docs: FormLists] \subseteq ListingRow
    BY <2>1 DEF ListingRow
  <2> QED BY <2>2 DEF ReqInit
<1>2. editing \in [Editors -> EditRow]
  BY NoEditTyped DEF ReqInit
<1> QED BY <1>1, <1>2, ReqTyped

\* Products and edits hold lists of entries.
LEMMA ReqKeeps == ReqTypeOK /\ [ReqNext]_reqVars => ReqTypeOK'
<1> SUFFICES ASSUME ReqTypeOK, [ReqNext]_reqVars PROVE ReqTypeOK'
  OBVIOUS
<1>t. listing \in [RequiredProducts -> ListingRow] /\ editing \in [Editors -> EditRow]
  BY ReqTyped
<1>1. ASSUME NEW p \in RequiredProducts, NEW active \in BOOLEAN, NEW docs \in FormLists, PutProduct(p, active, docs)
      PROVE  ReqTypeOK'
  <2>1. listing[p] \in ListingRow /\ docs \in EntryLists
    BY <1>t DEF FormLists
  <2>2. [listing[p] EXCEPT !.docs = docs, !.active = active] \in ListingRow
    BY <2>1 DEF ListingRow
  <2>3. listing' = [listing EXCEPT ![p] = [listing[p] EXCEPT !.docs = docs, !.active = active]] /\ editing' = editing
    BY <1>1 DEF PutProduct
  <2>4. listing' \in [RequiredProducts -> ListingRow] /\ editing' \in [Editors -> EditRow]
    BY <1>t, <2>2, <2>3
  <2> QED BY <2>4, ReqTyped
<1>2. ASSUME NEW p \in RequiredProducts, LenderStatus(p) PROVE ReqTypeOK'
  <2>1. listing[p] \in ListingRow
    BY <1>t
  <2>2. [listing[p] EXCEPT !.lenderActive = ~listing[p].lenderActive] \in ListingRow
    BY <2>1 DEF ListingRow
  <2>3. listing' = [listing EXCEPT ![p] = [listing[p] EXCEPT !.lenderActive = ~listing[p].lenderActive]]
        /\ editing' = editing
    BY <1>2 DEF LenderStatus
  <2>4. listing' \in [RequiredProducts -> ListingRow] /\ editing' \in [Editors -> EditRow]
    BY <1>t, <2>2, <2>3
  <2> QED BY <2>4, ReqTyped
<1>3. ASSUME NEW p \in RequiredProducts, NEW h \in Editors, ReadDocuments(h, p) PROVE ReqTypeOK'
  <2>1. listing[p].docs \in EntryLists
    BY <1>t DEF ListingRow
  <2>2. [product |-> {p}, docs |-> listing[p].docs] \in EditRow
    BY <2>1 DEF EditRow
  <2>3. listing' = listing /\ editing' = [editing EXCEPT ![h] = [product |-> {p}, docs |-> listing[p].docs]]
    BY <1>3 DEF ReadDocuments
  <2>4. listing' \in [RequiredProducts -> ListingRow] /\ editing' \in [Editors -> EditRow]
    BY <1>t, <2>2, <2>3
  <2> QED BY <2>4, ReqTyped
<1>4. ASSUME NEW h \in Editors PROVE editing[h].docs \in EntryLists
  BY <1>t DEF EditRow
<1>5. ASSUME NEW h \in Editors, NEW e \in Entries, CreateRequirementForProduct(h, e) PROVE ReqTypeOK'
  <2>1. Append(editing[h].docs, e) \in EntryLists
    BY <1>4, <1>5, EditedLists DEF CreateRequirementForProduct
  <2> QED BY <1>5, <2>1, WritesTyped DEF CreateRequirementForProduct
<1>6. ASSUME NEW h \in Editors, NEW e \in Entries, NEW i \in 1..MaxEntries, UpdateRequirementForProduct(h, i, e)
      PROVE  ReqTypeOK'
  <2>1. [editing[h].docs EXCEPT ![i] = e] \in EntryLists
    BY <1>4, <1>6, EditedLists DEF UpdateRequirementForProduct
  <2> QED BY <1>6, <2>1, WritesTyped DEF UpdateRequirementForProduct
<1>7. ASSUME NEW h \in Editors, NEW i \in 1..MaxEntries, DeleteRequirementForProduct(h, i)
      PROVE  ReqTypeOK'
  <2>1. RemoveAt(editing[h].docs, i) \in EntryLists
    BY <1>4, <1>7, EditedLists DEF DeleteRequirementForProduct
  <2> QED BY <1>7, <2>1, WritesTyped DEF DeleteRequirementForProduct
<1>8. CASE UNCHANGED reqVars
  <2>1. listing' \in [RequiredProducts -> ListingRow] /\ editing' \in [Editors -> EditRow]
    BY <1>t, <1>8 DEF reqVars
  <2> QED BY <2>1, ReqTyped
<1> QED BY <1>1, <1>2, <1>3, <1>5, <1>6, <1>7, <1>8 DEF ReqNext

-----------------------------------------------------------------------------
(* The services of the run, one of which a behaviour picks.                  *)

\* The picked service starts as it would alone.
LEMMA AccessStarts ==
  Init =>
    /\ part = "auth" => AuthInit
    /\ part = "sync" => SyncInit
    /\ part = "idempotency" => HttpInit
    /\ part = "push" => PushInit
    /\ part = "operations" => OpsInit
    /\ part = "requirements" => ReqInit
BY DEF Init

\* A step is one of the picked service, or leaves it as it is.
LEMMA AccessMoves ==
  [Next]_servicesVars =>
    /\ part' = part
    /\ part = "auth" => [AuthNext]_authVars
    /\ part = "sync" => [SyncNext]_syncVars
    /\ part = "idempotency" => [HttpNext]_httpVars
    /\ part = "push" => [PushNext]_pushVars
    /\ part = "operations" => [OpsNext]_opsVars
    /\ part = "requirements" => [ReqNext]_reqVars
<1> SUFFICES ASSUME [Next]_servicesVars
             PROVE  /\ part' = part
                    /\ part = "auth" => [AuthNext]_authVars
                    /\ part = "sync" => [SyncNext]_syncVars
                    /\ part = "idempotency" => [HttpNext]_httpVars
                    /\ part = "push" => [PushNext]_pushVars
                    /\ part = "operations" => [OpsNext]_opsVars
                    /\ part = "requirements" => [ReqNext]_reqVars
  OBVIOUS
<1>1. CASE UNCHANGED servicesVars
  BY <1>1 DEF servicesVars
<1>2. CASE Only("auth") /\ AuthNext
  BY <1>2 DEF Only
<1>3. CASE Only("catalogue") /\ CatNext
  BY <1>3 DEF Only
<1>4. CASE Only("matches") /\ MatchNext
  BY <1>4 DEF Only
<1>5. CASE Only("requirements") /\ ReqNext
  BY <1>5 DEF Only
<1>6. CASE Only("sync") /\ SyncNext
  BY <1>6 DEF Only
<1>7. CASE Only("idempotency") /\ HttpNext
  BY <1>7 DEF Only
<1>8. CASE Only("push") /\ PushNext
  BY <1>8 DEF Only
<1>9. CASE Only("notices") /\ NoticeNext
  BY <1>9 DEF Only
<1>10. CASE Only("intake") /\ IntakeNext
  BY <1>10 DEF Only
<1>11. CASE Only("documents") /\ DocNext
  BY <1>11 DEF Only
<1>12. CASE Only("calls") /\ CallNext
  BY <1>12 DEF Only
<1>13. CASE Only("messages") /\ CommNext
  BY <1>13 DEF Only
<1>14. CASE Only("credit") /\ CreditNext
  BY <1>14 DEF Only
<1>15. CASE Only("operations") /\ OpsNext
  BY <1>15 DEF Only
<1>16. CASE Only("office") /\ OfficeNext
  BY <1>16 DEF Only
<1>17. CASE Only("banking") /\ BankNext
  BY <1>17 DEF Only
<1> QED BY <1>1, <1>2, <1>3, <1>4, <1>5, <1>6, <1>7, <1>8, <1>9, <1>10, <1>11, <1>12, <1>13, <1>14, <1>15, <1>16, <1>17 DEF Next

\* What holds of whichever service is picked.
AccessInv ==
  /\ part = "auth" => AuthInv
  /\ part = "sync" => SyncInv
  /\ part = "idempotency" => HttpInv
  /\ part = "push" => PushInv
  /\ part = "operations" => OpsInv
  /\ part = "requirements" => ReqTypeOK
\* Every behaviour of the run keeps the invariant of the service it picked.
THEOREM AccessInvariant == Spec => []AccessInv
<1>1. Init => AccessInv
  BY AccessStarts, AuthStarts, SyncStarts, HttpStarts, PushStarts, OpsStarts, ReqInitTyped DEF AccessInv
<1>2. AccessInv /\ [Next]_servicesVars => AccessInv'
  <2> SUFFICES ASSUME AccessInv, [Next]_servicesVars PROVE AccessInv'
    OBVIOUS
  <2>0. part' = part
    BY AccessMoves
  <2>1. part = "auth" => AuthInv'
    BY AccessMoves, AuthKeeps DEF AccessInv
  <2>2. part = "sync" => SyncInv'
    BY AccessMoves, SyncKeeps DEF AccessInv
  <2>3. part = "idempotency" => HttpInv'
    BY AccessMoves, HttpKeeps DEF AccessInv
  <2>4. part = "push" => PushInv'
    BY AccessMoves, PushKeeps DEF AccessInv
  <2>5. part = "operations" => OpsInv'
    BY AccessMoves, OpsKeeps DEF AccessInv
  <2>6. part = "requirements" => ReqTypeOK'
    BY AccessMoves, ReqKeeps DEF AccessInv
  <2> QED BY <2>0, <2>1, <2>2, <2>3, <2>4, <2>5, <2>6 DEF AccessInv
<1> QED BY <1>1, <1>2, PTL DEF Spec, servicesVars

\* AuthSessions: a refresh token is exchanged once, and no session of a disabled
\* account would come back with it.
THEOREM SessionsStaySafe == Spec => []SessionsAreSafe
<1>1. AccessInv => SessionsAreSafe
  BY AuthInvTypes, ExchangedOnce, NoLiveTokenIsCurrent DEF AccessInv, AuthInv, SessionsAreSafe
<1> QED BY <1>1, AccessInvariant, PTL

\* OfflineSync: every execution of a queued request but the first is paid for by
\* overlapping look-ups, a lost or lapsed record or a crash, and a record answers
\* only for a payload that was carried out.
THEOREM ReplaysStaySafe == Spec => []ReplaysAreSafe
<1>1. AccessInv => ReplaysAreSafe
  BY SyncInvImplies DEF AccessInv, ReplaysAreSafe
<1> QED BY <1>1, AccessInvariant, PTL

\* HttpIdempotency: a request is handled once under its key unless a stored answer
\* was lost.
THEOREM KeysStayHonoured == Spec => []KeysAreHonoured
<1>1. AccessInv => KeysAreHonoured
  BY HttpInvImplies DEF AccessInv, KeysAreHonoured
<1> QED BY <1>1, AccessInvariant, PTL

\* PushDevices: an endpoint has the keys of the user it belongs to.
THEOREM DevicesStayOwned == Spec => []DevicesAreOwned
<1>1. AccessInv => DevicesAreOwned
  BY PushInvImplies DEF AccessInv, DevicesAreOwned
<1> QED BY <1>1, AccessInvariant, PTL

\* OpsJobs: a completed replay covers its scope, the kill switch bites, a job that
\* has neither ended nor a task died with its server or lost a statement nobody
\* catches, and no export leaves without its audit row.
THEOREM OperationsStaySafe == Spec => []OperationsAreSafe
<1>1. AccessInv => OperationsAreSafe
  BY OpsInvImplies DEF AccessInv, OperationsAreSafe
<1> QED BY <1>1, AccessInvariant, PTL

\* ProductRequirements: the requirements merged over any number of products say
\* what all their entries say, and a borrower is asked for exactly what the
\* amount demands.
THEOREM RequirementsStayRight == Spec => []RequirementsAreRight
<1>1. AccessInv => RequirementsAreRight
  BY MergesAreRight, DemandsFit DEF AccessInv, RequirementsAreRight
<1> QED BY <1>1, AccessInvariant, PTL
=============================================================================
