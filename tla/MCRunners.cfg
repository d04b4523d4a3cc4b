SPECIFICATION MCSpec
CONSTANTS
  r1 = r1
  r2 = r2
  m1 = m1
  m2 = m2
  m3 = m3
  Runners <- TwoRunners
  Modes = {"broadcast", "verify", "record"}
  Ledgers = {1, 2}
  Matches <- ThreeMatches
  Words = {1}
  BatchSize = 2
  MaxKills = 4
INVARIANTS
  SnapshotTellsTheDraw
  SnapshotIsComplete
PROPERTIES
  RoundStaysFair
  LabelNeverRegresses
  RoundGetsPublished
