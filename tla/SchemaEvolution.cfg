CONSTANTS
  alice = alice
  bob = bob
  Wallets <- MCWallets
  Builds <- MCBuilds
  Oldest <- MCOldest
  Newest <- MCNewest
  Legacy <- MCLegacy
  BatchSize = 2
  MaxEvents = 2
  MaxDeploys = 2
  MaxFaults = 1
SPECIFICATION FairSpec
CHECK_DEADLOCK FALSE
INVARIANTS
  TypeOK
  ShapeIsExact
PROPERTIES
  EverythingIsProjected
