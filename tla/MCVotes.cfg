SPECIFICATION VotersSpec
CONSTANTS
  alice = alice
  bob = bob
  h1 = h1
  h2 = h2
  Handlers = {h1, h2}
  RoundOf <- ThreeRounds
  Ballots <- ViewBallots
  Listings <- SecondMissing
  StartStages <- PoolOrOpening
  StartLedgers <- RichOrTwo
  MaxRaw = 1
  Users = {u1, u2, u3}
  Runners = {watch, operator}
  PageSize = 1
  MaxPages = 2
  MaxChanges = 3
INVARIANTS
  AllocationsAreTheBallots
  RestHasCapacity
  VotesNameTheirTeams
  CachedFollowersFollow
PROPERTIES
  NoVoteOnAKnownWinner
  NobodyIsLeftOut
SYMMETRY AnyRunner
