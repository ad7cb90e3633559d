SPECIFICATION SubjectSpec
CONSTANTS
  Docs = {d1, d2}
  Required = {d1}
  Calls = {c1, c2}
  OcrRetries = 1
  BankRetries = 1
  MaxForced = 1
SYMMETRY Symmetry
INVARIANTS StageFollowsJobs
PROPERTIES BankingCompletionStands
