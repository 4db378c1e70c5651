SPECIFICATION Safety
CONSTANTS
  Orders = {o1}
  Fresh = fresh
  Publishers = {"PlaceOrder"}
  CancelIds = {}
  Retries = 3
  MaxFailures = 2
  MaxCrashes = 0
INVARIANTS
  FailureIsRolledBack
CHECK_DEADLOCK FALSE
