-------------------------- MODULE SchemaMigrations --------------------------
(***************************************************************************)
(* Start-up of the server (index.ts, startup/runMigrations.ts) beside the  *)
(* command-line runner and seeder (migrations.ts, migrationsCheck.ts,      *)
(* db/seed.ts).                                                            *)
(*                                                                         *)
(* Every server process takes one advisory lock, reads schema_migrations   *)
(* and applies the missing files in order, one transaction per file.  A    *)
(* file that fails on an object that exists already is rolled back and     *)
(* recorded all the same; any other failure ends the process.  The         *)
(* command-line runner takes no lock and records with a plain INSERT.  The *)
(* two create the tracking table differently: only the server's has the    *)
(* primary key its ON CONFLICT clause needs.                               *)
(*                                                                         *)
(* A transaction is one step: PostgreSQL lets the two runners interleave   *)
(* between files, not inside one.  A statement fails because of its SQL,   *)
(* because it waits too long or because its connection is lost; the INSERT *)
(* of one row, which waits for nobody, does not time out.                  *)
(***************************************************************************)
EXTENDS Sequences, Naturals

CONSTANTS
    Servers,         \* server processes (instances of the App Service)
    NoServer,        \* holder of a free lock
    ServerOrder,     \* the files as the server sorts them
    CliOrder,        \* the files as the command-line runner sorts them
    Creates,         \* file -> objects it creates with a bare CREATE
    Ensures,         \* file -> objects it creates with IF NOT EXISTS
    Found,           \* objects a hot fix may have left in the schema
    RequiredTables,  \* tables verifyRequiredTables asks for
    MaxStarts        \* bound on the starts of a server and of the runner

MigFiles == {ServerOrder[i] : i \in DOMAIN ServerOrder}

Objects(f) == Creates[f] \union Ensures[f]

AllObjects == UNION {Objects(f) : f \in MigFiles}

ASSUME MigAssumption ==
    /\ NoServer \notin Servers
    /\ MigFiles = {CliOrder[i] : i \in DOMAIN CliOrder}
    /\ Creates \in [MigFiles -> SUBSET AllObjects]
    /\ Ensures \in [MigFiles -> SUBSET AllObjects]
    /\ Found \subseteq AllObjects /\ RequiredTables \subseteq AllObjects
    /\ MaxStarts \in Nat

VARIABLES
    migLock,     \* holder of the advisory lock
    tracking,    \* schema_migrations: none, keyed (the server's), plain
    recorded,    \* file -> its rows in schema_migrations
    schema,      \* objects that exist
    srv,         \* server -> its place in start() and the files it knows applied
    cli,         \* the same of the command-line runner
    starts,      \* runner -> times it was started
    built,       \* file -> transactions of it each kind of runner committed
    admins,      \* the seeded administrators exist
    lenders      \* the baseline catalogue: none, lender (no products), whole

migVars == <<migLock, tracking, recorded, schema, srv, cli, starts, built, admins, lenders>>

Runners == Servers \union {NoServer}

MigTypeOK ==
    /\ migLock \in Runners
    /\ tracking \in {"none", "keyed", "plain"}
    /\ recorded \in [MigFiles -> Nat]
    /\ schema \subseteq AllObjects
    /\ srv \in [Servers -> [pc: {"down", "lock", "apply", "verify", "boot", "ready", "unready"},
                            applied: SUBSET MigFiles]]
    /\ cli \in [pc: {"down", "apply", "seed", "count", "lender", "products"}, applied: SUBSET MigFiles]
    /\ starts \in [Runners -> 0..MaxStarts]
    /\ built \in [MigFiles -> [server: Nat, cli: Nat]]
    /\ admins \in BOOLEAN
    /\ lenders \in {"none", "lender", "whole"}

\* f is the runner's next file: the first of its order it does not know applied.
NextFile(order, applied, f) ==
    \E i \in DOMAIN order :
        order[i] = f /\ f \notin applied /\ \A j \in 1..(i - 1) : order[j] \in applied

Done(applied) == MigFiles \subseteq applied

RecordedFiles == {f \in MigFiles : recorded[f] > 0}

\* One of the codes 42P07, 42710, 42701...: a bare CREATE finds its object.
Duplicate(f) == Creates[f] \intersect schema # {}

Nowhere == [pc |-> "down", applied |-> {}]

----------------------------------------------------------------------------
(* The server *)

\* start(): initDb connects; the process then waits for the lock.
StartServer(s) ==
    /\ srv[s].pc = "down" /\ starts[s] < MaxStarts
    /\ starts' = [starts EXCEPT ![s] = @ + 1]
    /\ srv' = [srv EXCEPT ![s] = [pc |-> "lock", applied |-> {}]]
    /\ UNCHANGED <<migLock, tracking, recorded, schema, cli, built, admins, lenders>>

\* Mutant: the lock is not waited for.
UnlockedList(s) ==
    /\ srv[s].pc = "lock"
    /\ tracking' = IF tracking = "none" THEN "keyed" ELSE tracking
    /\ srv' = [srv EXCEPT ![s] = [pc |-> "apply", applied |-> RecordedFiles]]
    /\ UNCHANGED <<migLock, recorded, schema, cli, starts, built, admins, lenders>>

\* pg_advisory_lock, ensureTrackingTable, fetchApplied.
LockAndList(s) ==
    /\ srv[s].pc = "lock" /\ migLock = NoServer
    /\ migLock' = s
    /\ tracking' = IF tracking = "none" THEN "keyed" ELSE tracking
    /\ srv' = [srv EXCEPT ![s] = [pc |-> "apply", applied |-> RecordedFiles]]
    /\ UNCHANGED <<recorded, schema, cli, starts, built, admins, lenders>>

\* Every connection of the pool has a statement timeout of ten seconds: a wait
\* for the lock that takes longer fails, and the process exits.
LockTimesOut(s) ==
    /\ srv[s].pc = "lock" /\ migLock # NoServer
    /\ srv' = [srv EXCEPT ![s] = Nowhere]
    /\ UNCHANGED <<migLock, tracking, recorded, schema, cli, starts, built, admins, lenders>>

\* INSERT ... ON CONFLICT (id) DO NOTHING, which a table without a key refuses.
Upserted(f) == [recorded EXCEPT ![f] = IF @ = 0 THEN 1 ELSE @]

\* BEGIN; the file; the row; COMMIT.
ApplyFile(s, f) ==
    /\ ~Duplicate(f) /\ tracking = "keyed"
    /\ schema' = schema \union Objects(f)
    /\ recorded' = Upserted(f)
    /\ built' = [built EXCEPT ![f].server = @ + 1]
    /\ srv' = [srv EXCEPT ![s].applied = @ \union {f}]
    /\ UNCHANGED migLock

\* A duplicate object: the file is rolled back and taken as applied; a failure
\* of the row's INSERT is ignored.
SkipFile(s, f) ==
    /\ Duplicate(f)
    /\ recorded' = IF tracking = "keyed" THEN Upserted(f) ELSE recorded
    /\ srv' = [srv EXCEPT ![s].applied = @ \union {f}]
    /\ UNCHANGED <<migLock, schema, built>>

\* The lock is bound to the connection: it goes with the process.
Released(s) == IF migLock = s THEN NoServer ELSE migLock

\* Mutant: the failed file is passed over.
PassOver(s, f) ==
    /\ srv' = [srv EXCEPT ![s].applied = @ \union {f}]
    /\ UNCHANGED <<migLock, recorded, schema, built>>

\* Any other error (a fault of the file, 42P10 on a table without a key):
\* ROLLBACK, rethrown, and start() calls process.exit(1).
Fatal(s, f) ==
    /\ srv' = [srv EXCEPT ![s] = Nowhere]
    /\ migLock' = Released(s)
    /\ UNCHANGED <<recorded, schema, built>>

\* One turn of the loop over the files.
MigrateServer(s) ==
    /\ srv[s].pc = "apply" /\ ~Done(srv[s].applied)
    /\ \E f \in MigFiles :
        /\ NextFile(ServerOrder, srv[s].applied, f)
        /\ ApplyFile(s, f) \/ SkipFile(s, f) \/ (~Duplicate(f) /\ Fatal(s, f))
    /\ UNCHANGED <<tracking, cli, starts, admins, lenders>>

\* The loop is over: the columns are looked at (and only logged), the lock is
\* given back.
UnlockServer(s) ==
    /\ srv[s].pc = "apply" /\ Done(srv[s].applied)
    /\ migLock' = Released(s)
    /\ srv' = [srv EXCEPT ![s].pc = "verify"]
    /\ UNCHANGED <<tracking, recorded, schema, cli, starts, built, admins, lenders>>

\* A missing table rejects start(): the process never listens and runs out.
VerifyRequiredTables(s) ==
    /\ srv[s].pc = "verify"
    /\ srv' = [srv EXCEPT ![s] = IF RequiredTables \subseteq schema
                                 THEN [@ EXCEPT !.pc = "boot"] ELSE Nowhere]
    /\ UNCHANGED <<migLock, tracking, recorded, schema, cli, starts, built, admins, lenders>>

\* The administrators are counted and seeded if there are none (an upsert whose
\* failure is only logged), the workers start, the port opens: markReady.
BootServer(s) ==
    /\ srv[s].pc = "boot"
    /\ admins' \in {admins, TRUE}
    /\ srv' = [srv EXCEPT ![s].pc = "ready"]
    /\ UNCHANGED <<migLock, tracking, recorded, schema, cli, starts, built, lenders>>

\* A pool error marks the process not ready; nothing marks it ready again.
LoseDatabase(s) ==
    /\ srv[s].pc = "ready"
    /\ srv' = [srv EXCEPT ![s].pc = "unready"]
    /\ UNCHANGED <<migLock, tracking, recorded, schema, cli, starts, built, admins, lenders>>

\* Mutant: the lock outlives the process.
CrashHoldingLock(s) ==
    /\ srv[s].pc # "down"
    /\ srv' = [srv EXCEPT ![s] = Nowhere]
    /\ UNCHANGED <<migLock, tracking, recorded, schema, cli, starts, built, admins, lenders>>

\* The process dies, or is stopped, anywhere.
CrashServer(s) ==
    /\ srv[s].pc # "down"
    /\ srv' = [srv EXCEPT ![s] = Nowhere]
    /\ migLock' = Released(s)
    /\ UNCHANGED <<tracking, recorded, schema, cli, starts, built, admins, lenders>>

----------------------------------------------------------------------------
(* The command-line runner and seeder *)

\* ensureMigrationsTable, listMigrationFiles, fetchAppliedMigrations.
StartCli ==
    /\ cli.pc = "down" /\ starts[NoServer] < MaxStarts
    /\ starts' = [starts EXCEPT ![NoServer] = @ + 1]
    /\ tracking' = IF tracking = "none" THEN "plain" ELSE tracking
    /\ cli' = [pc |-> "apply", applied |-> RecordedFiles]
    /\ UNCHANGED <<migLock, recorded, schema, srv, built, admins, lenders>>

\* begin; the statements of the file; the row; commit.
CliApply(f) ==
    /\ ~Duplicate(f) /\ ~(tracking = "keyed" /\ recorded[f] > 0)
    /\ schema' = schema \union Objects(f)
    /\ recorded' = [recorded EXCEPT ![f] = @ + 1]
    /\ built' = [built EXCEPT ![f].cli = @ + 1]
    /\ cli' = [cli EXCEPT !.applied = @ \union {f}]

\* Any error, the key's refusal of a second row included: rollback, rethrown.
CliFails == cli' = Nowhere /\ UNCHANGED <<recorded, schema, built>>

MigrateCli ==
    /\ cli.pc = "apply" /\ ~Done(cli.applied)
    /\ \/ \E f \in MigFiles : NextFile(CliOrder, cli.applied, f) /\ CliApply(f)
       \/ CliFails
    /\ UNCHANGED <<migLock, tracking, srv, starts, admins, lenders>>

\* main ends here; seedDatabase goes on and seeds the administrators.
CliMigrated ==
    /\ cli.pc = "apply" /\ Done(cli.applied)
    /\ cli' \in {Nowhere, [cli EXCEPT !.pc = "seed"]}
    /\ UNCHANGED <<migLock, tracking, recorded, schema, srv, starts, built, admins, lenders>>

SeedAdmins ==
    /\ cli.pc = "seed"
    /\ admins' = TRUE
    /\ cli' = [cli EXCEPT !.pc = "count"]
    /\ UNCHANGED <<migLock, tracking, recorded, schema, srv, starts, built, lenders>>

\* seedBaselineLenders: the count, the lender, its products, in three statements.
SeedBaselineLenders ==
    /\ \/ cli.pc = "count" /\ lenders # "none" /\ cli' = Nowhere /\ UNCHANGED lenders
       \/ cli.pc = "count" /\ lenders = "none"
          /\ cli' = [cli EXCEPT !.pc = "lender"] /\ UNCHANGED lenders
       \/ cli.pc = "lender" /\ lenders' = "lender" /\ cli' = [cli EXCEPT !.pc = "products"]
       \/ cli.pc = "products" /\ lenders' = "whole" /\ cli' = Nowhere
    /\ UNCHANGED <<migLock, tracking, recorded, schema, srv, starts, built, admins>>

CrashCli ==
    /\ cli.pc # "down"
    /\ cli' = Nowhere
    /\ UNCHANGED <<migLock, tracking, recorded, schema, srv, starts, built, admins, lenders>>

----------------------------------------------------------------------------
MigInit ==
    /\ migLock = NoServer /\ tracking = "none"
    /\ recorded = [f \in MigFiles |-> 0]
    /\ schema \in SUBSET Found
    /\ srv = [s \in Servers |-> Nowhere] /\ cli = Nowhere
    /\ starts = [r \in Runners |-> 0]
    /\ built = [f \in MigFiles |-> [server |-> 0, cli |-> 0]]
    /\ admins = FALSE /\ lenders = "none"

ServerStep(s) == LockAndList(s) \/ MigrateServer(s) \/ UnlockServer(s)
                    \/ VerifyRequiredTables(s) \/ BootServer(s)

MigNext ==
    \/ \E s \in Servers : StartServer(s) \/ ServerStep(s) \/ LockTimesOut(s) \/ LoseDatabase(s) \/ CrashServer(s)
    \/ StartCli \/ MigrateCli \/ CliMigrated \/ SeedAdmins \/ SeedBaselineLenders \/ CrashCli

MigSpec == MigInit /\ [][MigNext]_migVars

----------------------------------------------------------------------------
(* Properties *)

H == INSTANCE SchemaHistory WITH
        Orders <- {ServerOrder, CliOrder}, history <- RecordedFiles

\* The table schema_migrations is an ordered history: whatever the servers and
\* the unlocked runner do at the same time, and wherever they die, a file is
\* recorded only when it is the first one missing in one of the two orders,
\* and no row disappears (startup/runMigrations.ts throws on the first file
\* that fails and never goes past it).
OrderedHistory == H!HistorySpec

\* The advisory lock keeps the servers apart, and re-reading schema_migrations
\* does the same for successive runs: the servers together, and the runs of the
\* command-line runner together, commit the SQL of a file at most once.
BuiltOncePerRunner == \A f \in MigFiles : built[f].server <= 1 /\ built[f].cli <= 1

\* Every file's SQL is committed at most once per kind of runner, and the
\* tracking table has the shape the statements read.
MigrationsRunOnce == MigTypeOK /\ BuiltOncePerRunner

\* The comment at startup/runMigrations.ts:5 takes a duplicate object as
\* "already-there, safe to skip": what a recorded file creates is there.
SkippedWasThere == \A f \in RecordedFiles : Objects(f) \subseteq schema

\* A server that waits for the lock gets it, or dies: a process that ends while
\* it migrates does not leave the others waiting.
LockIsPassedOn == \A s \in Servers : srv[s].pc = "lock" ~> srv[s].pc # "lock"
=============================================================================
