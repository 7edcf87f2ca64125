CONSTANTS
  alice = alice
  bob = bob
  k1 = k1
  k2 = k2
  Wallets <- MCTwoWallets
  Workers <- MCWorkers
  Currency <- MCCurrency
  Amounts <- MCOneOrTwo
  SnapshotThreshold = 3
  MaxCommands = 4
  Partitions <- MCPartitions
  PartitionOf <- MCSpread
  BatchSize = 2
  MaxFaults = 1
SPECIFICATION MCTransfersSpec
CHECK_DEADLOCK FALSE
INVARIANTS
  OrderUnlessForked
PROPERTY AckedIsPublished
