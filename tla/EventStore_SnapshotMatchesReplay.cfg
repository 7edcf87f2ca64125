CONSTANTS
  alice = alice
  bob = bob
  k1 = k1
  k2 = k2
  Wallets <- MCOneWallet
  Workers <- MCTwoWorkers
  Currency <- MCSameCurrency
  Amounts <- MCOneAmount
  SnapshotThreshold = 2
  MaxCommands = 4
SPECIFICATION Spec
SYMMETRY Symmetric
CHECK_DEADLOCK FALSE
INVARIANT SnapshotMatchesReplay
