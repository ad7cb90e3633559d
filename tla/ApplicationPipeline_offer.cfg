SPECIFICATION Spec
CONSTANTS
  Handlers = {h1}
  Docs = {d1, d2}
  Offers = {o1, o2}
  NewStatuses = {"created"}
  MaxRequests = 1
  MaxFaults = 0
CHECK_DEADLOCK FALSE
INVARIANT AcceptedOfferMovesApplication
