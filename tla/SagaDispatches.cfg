SPECIFICATION Spec
CONSTANTS
  Orders = {o1, o2}
  Fresh = fresh
  Publishers = {"PlaceOrder"}
  CancelIds = {"placed"}
  Retries = 1
  MaxFailures = 0
  MaxCrashes = 0
INVARIANTS
  SagaNeverAhead
PROPERTIES
  PlacedIsDispatched
CHECK_DEADLOCK FALSE
