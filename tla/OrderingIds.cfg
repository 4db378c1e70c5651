SPECIFICATION Safety
CONSTANTS
  Orders = {o1}
  Fresh = fresh
  Retries = 3
  SameId = {}
  Slots = {h1}
  MaxRequests = 0
  MaxFailures = 0
  MaxCrashes = 0
INVARIANTS
  DeadLettersHaveNoOrder
CHECK_DEADLOCK FALSE
