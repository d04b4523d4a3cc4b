SPECIFICATION AllSpec
CONSTANTS
  alice = alice
  bob = bob
  h1 = h1
  h2 = h2
  Handlers = {h1}
  RoundOf <- TwoOfRound16
  Ballots <- Round16Ballots
  Listings <- RowMissing
  StartStages <- Open
  StartLedgers <- PoorLedger
  MaxRaw = 1
INVARIANTS
  TheBuildAccepts
