SPECIFICATION Spec
CONSTANTS
  alice = alice
  bob = bob
  RoundOf <- TwoMatches
  SourceOf <- BaseAndRedraw
  Ballots <- PlacedAndLate
  StartVotes <- Placed
  TicketLedger <- ShortLedger
  Required = 3
  Callers = {"server", "shell"}
  Overlap = FALSE
  MaxCorrections = 1
  MaxKills = 1
INVARIANTS
  PoolsAreTheVotes
PROPERTIES
  DoneMeansOnFile
  LockedRoundsStay
