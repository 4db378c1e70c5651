\* One tab: boot, login, navigation, the token lapsing, with one request at a
\* time beside them.
SPECIFICATION Spec
CONSTANTS
  Products    = {p1}
  Submits     = {s1}
  Calls       = {c1}
  Retries     = 3
  MaxVersions = 3
  OthersShop  = TRUE
  MaxFailures = 1
INVARIANTS
  TypeOK
  BarShowsNavigation
  ViewIsOfThisVisit
  OrdersAreCurrent
PROPERTIES
  NavigationEnds
  CallsEnd
CHECK_DEADLOCK FALSE
