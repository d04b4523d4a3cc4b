SPECIFICATION MCSpec
CONSTANTS
  p1 = p1
  b1 = b1
  RoundSeq <- TwoRounds
  MaxAttempt = 1
  MaxNonces = 2
  Pages = {p1}
  Readers = {b1}
INVARIANTS
  SignedRunsOneAtATime
  BoardListsRealDraws
PROPERTIES
  NobodyWaitsForEver
