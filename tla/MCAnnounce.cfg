SPECIFICATION DrawsSpec
CONSTANTS
  Accounts = {admin}
  Deployer = admin
  NoAccount = NoAccount
  VrfConfigs <- MCVrfConfigs
  DefaultCounts = {0, 2, 257}
  Keccak <- MCKeccak
  MaxRequests = 1
  Words = {17}
  RoundIds = {}
  LedgerHashes = {0, 1}
  MatchLists <- MCMatchLists
  DrawIds = {1}
  TicketCounts = {0, 2, 3, 4}
  SlotCounts = {0, 2, 3}
  MatchRuns = {r1, r2}
  MatchLedgers <- TwoRows
  RevealOrder <- SecondFirst
  SlotBatch = 1
  MaxDeaths = 0
INVARIANT
  AnnouncedLedgerIsDrawn
