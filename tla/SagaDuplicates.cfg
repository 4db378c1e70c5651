SPECIFICATION Safety
CONSTANTS
  Orders = {o1}
  Fresh = fresh
  Publishers = {"PlaceOrder"}
  CancelIds = {}
  Retries = 3
  MaxFailures = 0
  MaxCrashes = 1
INVARIANTS
  NoDuplicateEvents
CHECK_DEADLOCK FALSE
