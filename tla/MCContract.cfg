SPECIFICATION LiveSpec
CONSTANTS
  Accounts = {admin, guest}
  Deployer = admin
  NoAccount = NoAccount
  VrfConfigs <- MCVrfConfigs
  DefaultCounts = {0, 2, 257}
  Keccak <- MCKeccak
  MaxRequests = 3
  Words = {17}
  RoundIds = {1}
  LedgerHashes = {1}
  MatchLists <- MCMatchLists
  DrawIds = {1}
  TicketCounts = {2}
  SlotCounts = {2}
INVARIANTS
  RequestsReachTheirDraw
  WordAnswersCurrentRequest
  NominationIsCurrent
PROPERTIES
  RequestsAreAnswered
