SPECIFICATION Spec
CONSTANTS
  Orders = {o1}
  Fresh = fresh
  Retries = 2
  SameId = {}
  Slots = {h1}
  MaxRequests = 2
  MaxFailures = 3
  MaxCrashes = 1
INVARIANTS
  NoticesNeedTheirId
PROPERTIES
  WorkEnds
CHECK_DEADLOCK FALSE
