\* One tab that shops and orders, twice at once, while another client of the
\* same user changes the basket.
SPECIFICATION Spec
CONSTANTS
  Products    = {p1}
  Submits     = {s1, s2}
  Calls       = {c1, c2}
  Retries     = 1
  MaxVersions = 2
  OthersShop  = TRUE
  MaxFailures = 1
SYMMETRY CallsAndSubmits
INVARIANTS
  OneOrderPerSubmit
  ConfirmedIsOrdered
  ClientInv
PROPERTIES
  ImplementsCheckout
CHECK_DEADLOCK FALSE
