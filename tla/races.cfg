CONSTANTS
  w1 = w1
  w2 = w2
  w3 = w3
  ghost = ghost
  k1 = k1
  k2 = k2
  k3 = k3
  NoKey = NoKey
  NoWallet = NoWallet
  NoAttempt = NoAttempt
  WalletIds <- MCIds
  Wallets <- TwoWallets
  Currency <- MCCurrency
  Opening <- MCOpening
  NumShards = 2
  Shard <- MCShard
  UUIDRank <- MCRank
  Requests <- RaceRequests
  Attempts = {a1, a2, a3, a4}
  MaxNumeric = 150
  MaxConns = 3
  Retention = 0
  Skew = 0
  MaxClock = 0
  CallsMayFail = FALSE
  MayCrash = FALSE

SPECIFICATION Spec
SYMMETRY Symmetric
INVARIANTS
  TypeOK
  LedgerChain
  DuplicateMeansDone
  KeysAreBacked
  NothingStuck
PROPERTIES
  BankSpec
