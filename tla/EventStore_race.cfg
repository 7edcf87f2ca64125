CONSTANTS
  alice = alice
  bob = bob
  k1 = k1
  k2 = k2
  Wallets <- MCTwoWallets
  Workers <- MCTwoWorkers
  Currency <- MCSameCurrency
  Amounts <- MCAmounts
  SnapshotThreshold = 2
  MaxCommands = 4
SPECIFICATION Spec
SYMMETRY Symmetric
CHECK_DEADLOCK FALSE
INVARIANTS
  TypeOK
  NoGaps
  TransfersAreFunded
  AckedIsDurable
  RehydrationIsExact
  NothingFoldedTwice
  NoWalletWedged
  NoOverdraftUnlessForked
