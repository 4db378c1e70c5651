SPECIFICATION Safety
CONSTANTS
  Orders = {o1}
  Fresh = fresh
  Publishers = {"PlaceOrder", "ExecuteOrderTransaction"}
  CancelIds = {"placed"}
  Retries = 1
  MaxFailures = 2
  MaxCrashes = 1
INVARIANTS
  TypeOK
  SagaInv
  WorkInv
  DuplicatesTakeCrashes
  FailedMeansUnbilled
  StallInv
  StallsLeaveATrace
PROPERTIES
  ImplementsLifecycle
  ImplementsNews
  WorkIsUsedUp
CHECK_DEADLOCK FALSE
