\* Two requests of one user overlap, over a Discount that changes its coupons or
\* starts again, and with one failing call.
SPECIFICATION Spec
CONSTANTS
  Products    = {p1, p2}
  Requests    = {r1, r2}
  Quantities  = {1}
  Amounts     = {1}
  Seeded      = p1
  Seed       <- SeedCoupons
  NoBasket    = NoBasket
  MaxRequests = 3
  MaxChanges  = 1
  MaxFailures = 1
INVARIANTS
  NothingIsCountedTwice
  LossTakesARace
  DiscountsAreOffered
  FailuresAreExplained
  BasketInv
PROPERTIES
  RequestsEnd
  DiscountReturns
CHECK_DEADLOCK FALSE
