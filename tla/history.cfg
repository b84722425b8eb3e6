CONSTANTS
  Types = {"TOPUP", "PAYMENT"}
  Credits = {"TOPUP"}
  NoType = NoType
  Stamps = {1, 2, 3}
  MaxInt = 15
  Pages = {0, 2, 9, 12, 40}
  PerPages = {0, 1, 2, 3}
  CallsMayFail = TRUE

SPECIFICATION Spec
INVARIANTS
  TypeOK
  WalkShowsAll
  RepeatsNeedCommits
  PartsAgree
  NextLeadsToEntries
CHECK_DEADLOCK FALSE
