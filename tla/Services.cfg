SPECIFICATION Spec
SYMMETRY ServicesSymmetry
CHECK_DEADLOCK FALSE
CONSTANTS
  h1 = h1  h2 = h2  r1 = r1  r2 = r2
  \* AuthSessions
  Users = {"u1"}  AuthHandlers = {h1, h2}  RefreshTokens = {"t1", "t2", "t3"}
  MaxTokenVersion = 1  MaxOtpAttempts = 1  Nobody = Nobody
  \* LenderCatalogue
  Lenders = {"l1"}  Products = {"p1"}  CatHandlers = {h1, h2}
  Methods = {"EMAIL", "API", "MANUAL"}  MaxRevision = 3
  \* LenderMatches
  OfferedProducts = {r1, r2}  Matchers = {h1, h2}  MaxEvidence = 2
  \* ProductRequirements
  RequiredProducts = {r1, r2}  Entries <- EntriesMC  AlwaysRequired = {"d2"}
  Categories = {"TERM"}  Countries = {"CA", "BOTH"}  Amounts = {1, 2}  MinAmounts = {Null}  Terms <- TermsMC
  Editors = {"e1"}  Null = Null
  \* OfflineSync
  Batches = {h1, h2}  ReplayActions <- ReplayActionsMC  SyncUsers <- SyncUsersMC
  MaxSyncActions = 2  MaxReplays = 2
  \* HttpIdempotency
  Requests = {h1, h2}  HttpKeys = {r1, r2}  Payloads = {"a"}  MemoryLimit = 1  MaxHandled = 2
  \* PushDevices
  PushUsers = {r1, r2}  Endpoints = {"e1", "e2"}  Registrars = {h1, h2}  Senders = {"s1"}
  MaxPushRows = 3  MaxAudit = 1
  \* StaffNotices
  Staff = {r1, r2}  NoteIds = {"n1"}  Leads = {"l1"}  NoteHandlers = {h1, h2}
  \* ReadinessIntake
  Persons = {"p1"}  IntakeHandlers = {h1, h2}  MaxApps = 3
  \* DocumentVersions
  DocRows = {r1, r2}  DocTypes = {"t1", "t2"}  Demand <- DemandMC  DocHandlers = {h1, h2}
  MaxVersions = 2  MaxDocCalls = 4
  \* CallLogs
  Calls = {"c1"}  CallHandlers = {h1, h2}  Callers = {"u1"}  MaxCallOps = 3
  \* Communications
  Phones = {"p1"}  Ours = "ours"  Nil = "nil"  CommStaff <- CommStaffMC  CommHandlers = {h1, h2}
  ThreadLimit = 1  ClientLimit = 1  TimelineLimit = 1
  MaxCommRows = 2  MaxTexts = 1  MaxDeliveries = 2
  \* CreditSummaries
  Authors = {h1, h2}  SummaryEdits = {"e1"}  MaxVersion = 3
  \* OpsJobs
  ReplayJobs = {h1, h2}  Sources = {r1, r2}  BatchSize = 2  Exports = {"x1"}  MaxTurns = 1
  \* Office365
  Tabs = {h1, h2}  CalTasks = {"t1"}  MaxIssued = 2
  \* BankingAnalysis
  BankWorkers = {h1, h2}  BankStaff = {"m1"}  Statements = {"d1"}  OtherDocs = {}
  MaxBankAttempts = 1  MaxBankRetries = 1  MaxLost = 1
INVARIANTS SessionsAreSafe LendersAreWhole MatchesAreCurrent RequirementsAreRight ReplaysAreSafe KeysAreHonoured DevicesAreOwned MentionsArrive SessionsConvertOnce ReviewsAreBacked CallsEndTogether  SummariesAreKept OperationsAreSafe OfficeIsInStep AnalysesAreWhole
PROPERTIES AcceptedIsFinal
