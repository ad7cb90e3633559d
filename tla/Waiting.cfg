SPECIFICATION WaitingSpec
CHECK_DEADLOCK FALSE
CONSTANTS
  r1 = r1  r2 = r2  a1 = a1  a2 = a2  l1 = l1  l2 = l2  k1 = k1  s1 = s1  s2 = s2
  \* LenderTransmission
  NoKey = NoKey  NoOne = NoOne
  Requests = {r1, r2}  Apps = {a1, a2}  Lenders = {l1, l2}  LenderOf <- TwoApps
  Keys = {k1}  StaffApps = {}  MaxRetries = 2  MaxCalls = 2
  \* SchemaMigrations
  Servers = {s1, s2}  NoServer = NoServer  ServerOrder <- ServerOrderMC  CliOrder <- CliOrderMC
  Creates <- CreatesMC  Ensures <- EnsuresMC  Found = {"a", "b"}  RequiredTables = {"b"}
  MaxStarts = 2
  \* BankingAnalysis
  BankWorkers = {"w1"}  BankStaff = {"m1"}  Statements = {"d1"}  OtherDocs = {}
  MaxBankAttempts = 2  MaxBankRetries = 1  MaxLost = 1
INVARIANTS KeySpentOnce MigrationsRunOnce
PROPERTIES RequestsEnd OrderedHistory LockIsPassedOn BankingSettles
