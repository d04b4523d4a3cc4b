SPECIFICATION DataSpec
CONSTANTS
  Votes = {v1}
  MaxVersion = 1
  MaxLosses = 1
  MaxFailures = 0
  SnapshotKeep = 1
CHECK_DEADLOCK FALSE
INVARIANTS
  RestoredVotesCount
