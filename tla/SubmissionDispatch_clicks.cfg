SPECIFICATION Spec
CONSTANTS
  Lenders = {l1}
  Callers = {c1, c2}
  Workers = {}
  Jobs = {j1}
  CallKinds = {"direct"}
  MaxCalls = 2
  MaxFaults = 0
  MaxAttempts = 2
  JobStatusChecked = TRUE
  CrashesHappen = FALSE
  NoJob = NoJob
  NoLender = NoLender
INVARIANTS NoDuplicatePackage
