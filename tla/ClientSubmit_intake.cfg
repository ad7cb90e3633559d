SPECIFICATION Spec
CONSTANTS
  Handlers = {h1, h2}
  MaxRequests = 2
SYMMETRY Symmetry
CHECK_DEADLOCK FALSE
INVARIANTS NothingMultiplies NothingIsUndone
PROPERTIES CompanyStands
