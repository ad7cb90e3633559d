SPECIFICATION Spec
CONSTANTS
  Lenders = {l1, l2}
  Callers = {c1, c2}
  Workers = {}
  Jobs = {j1}
  CallKinds = {"send", "check", "webhook", "sign"}
  MaxCalls = 4
  MaxFaults = 2
  MaxAttempts = 2
  JobStatusChecked = TRUE
  CrashesHappen = TRUE
  NoJob = NoJob
  NoLender = NoLender
SYMMETRY Symmetry
INVARIANTS StageBOnce ChainIsGated
