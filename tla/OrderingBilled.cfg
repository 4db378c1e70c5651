SPECIFICATION Safety
CONSTANTS
  Orders = {o1}
  Fresh = fresh
  Retries = 3
  SameId = {o1}
  Slots = {h1, h2}
  MaxRequests = 1
  MaxFailures = 0
  MaxCrashes = 0
PROPERTIES
  CancelRespectsStatus
CHECK_DEADLOCK FALSE
