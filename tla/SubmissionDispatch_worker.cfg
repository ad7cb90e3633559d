SPECIFICATION WorkerSpec
CONSTANTS
  Lenders = {l1}
  Callers = {c1}
  Workers = {w1}
  Jobs = {j1, j2}
  CallKinds = {"direct", "webhook", "sign"}
  MaxCalls = 3
  MaxFaults = 2
  MaxAttempts = 2
  JobStatusChecked = FALSE
  CrashesHappen = FALSE
  NoJob = NoJob
  NoLender = NoLender
CHECK_DEADLOCK FALSE
INVARIANTS WorkerResendBound
PROPERTIES JobSettles
