CONSTANTS
  u1 = u1
  stranger = stranger
  a1 = a1
  a2 = a2
  a3 = a3
  Attempts = {a1, a2, a3}
  OldUsers = {u1}
  Strangers = {stranger}
  Codes = {"USD", "usd", "XXX"}
  ISO = {"USD"}
  Upper <- MCUpper
  Shard <- MCShard
  Process <- MCProcess
  CallsMayFail = TRUE
  MayCrash = TRUE

SPECIFICATION Spec
SYMMETRY Symmetric
INVARIANTS
  TypeOK
  OneWalletPerCurrency
  AnswersAreTrue
PROPERTIES
  NothingBetweenCheckAndInsert
  KeepsRegistry
