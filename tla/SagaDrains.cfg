SPECIFICATION Spec
CONSTANTS
  Orders = {o1}
  Fresh = fresh
  Publishers = {"PlaceOrder", "ExecuteOrderTransaction"}
  CancelIds = {"placed", "fresh"}
  Retries = 1
  MaxFailures = 1
  MaxCrashes = 1
PROPERTIES
  QueuesDrain
CHECK_DEADLOCK FALSE
