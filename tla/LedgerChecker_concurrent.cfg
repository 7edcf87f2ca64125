CONSTANTS
  alice = alice
  bob = bob
  p1 = p1
  p2 = p2
  Wallets <- MCWallets
  Events <- MCForked
  Projectors <- MCTwoProjectors
SPECIFICATION CheckSpec
SYMMETRY Symmetric
CHECK_DEADLOCK FALSE
INVARIANTS
  TypeOK
  CompletedIsBalanced
  MovementsLagAtMost
  TransactionsCoverLedger
  NoDeadlock
  SerialMatchesLedger
  StatusMatchesChecker
  NoFalseMissingMovement
