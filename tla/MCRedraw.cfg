SPECIFICATION Spec
CONSTANTS
  alice = alice
  bob = bob
  RoundOf <- OneMatch
  SourceOf <- BaseAndRedraw
  Ballots <- BothTeamsBallots
  StartVotes <- BothTeams
  TicketLedger <- ShortLedger
  Required = 3
  Callers = {"server", "shell"}
  Overlap = FALSE
  MaxCorrections = 1
  MaxKills = 0
INVARIANTS
  WinnersOwnTheirTickets
