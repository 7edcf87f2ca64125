CONSTANTS
  alice = alice
  bob = bob
  p1 = p1
  p2 = p2
  Wallets <- MCWallets
  Events <- MCHalfTransfer
  Projectors <- MCTwoProjectors
  Replayer = p1
  Rank <- MCRank
  Legacy <- MCLegacy
  MaxRuns = 2
SPECIFICATION ReplaySpec
CHECK_DEADLOCK FALSE
INVARIANT ScopedReplayKeepsMovements
