SPECIFICATION Spec
CONSTANTS
  r1 = r1
  r2 = r2
  a1 = a1
  a2 = a2
  l1 = l1
  l2 = l2
  k1 = k1
  NoKey = NoKey
  NoOne = NoOne
  Requests = {r1, r2}
  Apps = {a1}
  Lenders = {l1}
  LenderOf <- OneLender
  Keys = {}
  StaffApps = {a1}
  MaxRetries = 2
  MaxCalls = 4
INVARIANTS RowsAreTrue SendIsIsolated
