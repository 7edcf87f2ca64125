CONSTANTS
  alice = alice
  bob = bob
  p1 = p1
  p2 = p2
  Wallets <- MCWallets
  Events <- MCEvents
  Projectors <- MCTwoProjectors
SPECIFICATION CheckSpec
SYMMETRY Symmetric
CHECK_DEADLOCK FALSE
INVARIANT BalancesMatchLedger
