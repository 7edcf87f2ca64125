CONSTANTS
  alice = alice
  bob = bob
  op1 = op1
  c1 = c1
  c2 = c2
  Wallets <- MCWallets
  Partitions <- MCPartitions
  Log <- MCLog
  Members <- MCMembers
  MaxAttempts = 2
  Reprocessors <- MCOneOperator
  MaxFaults = 2
SPECIFICATION OperatedSpec
CHECK_DEADLOCK FALSE
INVARIANTS
  TypeOK
  CommittedIsHandled
  ResolvedIsProjected
  BalanceCountsInboxOnce
PROPERTIES
  EverythingIsHandled
  DeadLettersAreRepaired
