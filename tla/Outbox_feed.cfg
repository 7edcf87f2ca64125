CONSTANTS
  alice = alice
  bob = bob
  carol = carol
  Wallets <- MCThreeWallets
  Partitions <- MCTwoPartitions
  PartitionOf <- MCSpread
  BatchSize = 2
  MaxEvents = 3
  MaxFaults = 2
SPECIFICATION FairSpec
CHECK_DEADLOCK FALSE
INVARIANTS
  TypeOK
  PublishedIsInTopic
  PerAggregateOrder
  NoEventSkipped
PROPERTIES
  EventuallyPublished
  ImplementsFeed
