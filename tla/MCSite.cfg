SPECIFICATION MCSpec
CONSTANTS
  w1 = w1
  w2 = w2
  w3 = w3
  w4 = w4
  x1 = x1
  x2 = x2
  b1 = b1
  b2 = b2
  None = None
  Wallets = {w1, w2}
  XIds = {x1, x2}
  Browsers = {b1, b2}
  Calls = {c1, c2}
  u2 = u2
  Uids = {u1, u2}
  MaxChallenges = 2
  QueueLimit = 1
  Voters = {w1, w2}
  Nobody = Nobody
  MaxSessions = 2
  MaxPosts = 1
  MaxErrors = 2
  MaxWrites = 1
  Votes = {v1}
  MaxVersion = 1
  MaxLosses = 1
  MaxFailures = 1
  SnapshotKeep = 1
  Checkouts = {k1}
  MaxBlock = 5
  Lookback = 3
  Overlap = 1
  Holders = {w1, w2, w3, w4}
  Weights = {2}
  Previous <- ThreeOwners
  Grants <- OneGrant
  Resolver <- OneJoined
  Divisor = 3
  Reward = 1
  MaxBuybacks = 2
  MaxMigrations = 2
  m1 = m1
  m2 = m2
  argentina = argentina
  france = france
  Map <- TwoMatches
  ByNumber = {m2}
  TeamIds <- OnlyFirstNamed
  Unnamed = Unnamed
  Pages <- FivePages
  Children = {s1, s2}
  MaxEdits = 2
  Placers = {w1, w2}
  Official <- Renamed
  OpenMatches = {"M89", "M90"}
  Histories <- OldVotes
  Builds = {d1}
  ShellBuilds = FALSE
  MaxEvents = 4
CHECK_DEADLOCK FALSE
INVARIANTS
  OneAnswerPerChallenge
  OneUidPerVoter
  RestoreKeepsVotes
  LedgerCountsWhatWasShown
  EveryTicketHasOneOwner
  VotesAreTheirLog
PROPERTIES
  TicketsComeUp
  ViewerCatchesUp
  DataGetsBackedUp
  TicketsAreNotLost
  ResultsMoveForward
