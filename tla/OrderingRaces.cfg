SPECIFICATION Safety
CONSTANTS
  Orders = {o1}
  Fresh = fresh
  Retries = 1
  SameId = {o1}
  Slots = {h1, h2}
  MaxRequests = 2
  MaxFailures = 1
  MaxCrashes = 1
SYMMETRY Symmetry
INVARIANTS
  TypeOK
  PaymentIsRecorded
  NoticesInv
  OrderingInv
  AnswersAreTrue
PROPERTIES
  DeletedStaysDeleted
  ImplementsRecord
CHECK_DEADLOCK FALSE
