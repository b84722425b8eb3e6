CONSTANTS
  Types = {"TOPUP", "PAYMENT"}
  Credits = {"TOPUP"}
  NoType = NoType
  Stamps = {1, 2, 3}
  MaxInt = 15
  Pages = {0, 2}
  PerPages = {0, 1, 2, 3}
  CallsMayFail = TRUE

SPECIFICATION Spec
INVARIANT
  ErrorsAreReported
CHECK_DEADLOCK FALSE
