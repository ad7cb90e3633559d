SPECIFICATION Spec
CONSTANTS
  Handlers = {h1, h2}
  Docs = {d1, d2}
  Offers = {o1, o2}
  NewStatuses = {"created", "sent", "accepted", "declined"}
  MaxRequests = 2
  MaxFaults = 1
SYMMETRY Symmetry
CHECK_DEADLOCK FALSE
INVARIANTS StageAndLogAgree
PROPERTIES IllegalMoveNeedsStaleRead AcceptedOfferStands
