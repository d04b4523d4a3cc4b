SPECIFICATION DrawsSpec
CONSTANTS
  Accounts = {admin}
  Deployer = admin
  NoAccount = NoAccount
  VrfConfigs <- MCVrfConfigs
  DefaultCounts = {0, 2, 257}
  Keccak <- MCKeccak
  MaxRequests = 3
  Words = {0, 1, 2, 3, 4, 5, 6, 7, 8, 9, 10, 11, 12, 13, 14, 15, 16, 17, 18, 19, 20, 21, 22, 23}
  RoundIds = {1, 2}
  LedgerHashes = {0, 1}
  MatchLists <- MCMatchLists
  DrawIds = {1}
  TicketCounts = {0, 2, 3, 4}
  SlotCounts = {0, 2, 3}
  MatchRuns = {r1, r2}
  MatchLedgers <- TwoRows
  RevealOrder <- SecondFirst
  SlotBatch = 1
  MaxDeaths = 2
SYMMETRY AnyRun
INVARIANTS
  RoundBookkeeping
  RoundLifecycle
  MatchTicketsValid
  SlotTicketsValid
  PicksAreFair
  AnnouncedIsTheDraw
PROPERTIES
  RoundsAreFair
  SlotDrawsAreFair
