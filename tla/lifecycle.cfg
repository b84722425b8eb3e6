CONSTANTS
  w1 = w1
  w2 = w2
  w3 = w3
  ghost = ghost
  k1 = k1
  k2 = k2
  k3 = k3
  NoKey = NoKey
  NoWallet = NoWallet
  NoAttempt = NoAttempt
  WalletIds <- MCIds
  Wallets <- TwoWallets
  Currency <- MCCurrency
  Opening <- MCOpening
  NumShards = 2
  Shard <- MCShard
  UUIDRank <- MCRank
  Requests <- RepeatedRequests
  Attempts = {a1, a2}
  MaxNumeric = 150
  MaxConns = 2
  Retention = 0
  Skew = 0
  MaxClock = 1
  CallsMayFail = TRUE
  MayCrash = TRUE
  Intervals <- MCIntervals
  Unset = Unset
  Hour = 3
  MaxInt = 15

SPECIFICATION FairLSpec
INVARIANT
  UpWhileRunning
PROPERTIES
  Spec
  ExitZeroCutsNobody
  ShutdownEnds
  ExpiredKeysGo
