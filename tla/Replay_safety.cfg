CONSTANTS
  alice = alice
  bob = bob
  p1 = p1
  p2 = p2
  Wallets <- MCWallets
  Events <- MCReturned
  Projectors <- MCTwoProjectors
  Replayer = p1
  Rank <- MCRank
  Legacy <- MCLegacy
  MaxRuns = 2
SPECIFICATION ReplaySpec
CHECK_DEADLOCK FALSE
INVARIANTS
  ReplayRebuildsWallets
  FullReplayRebuildsMovements
  ReplayIsComplete
  VersionIsEarned
