SPECIFICATION FairSpec
CONSTANTS
  Tab = {1, 2, 3}
  Call = {c1}
  NoTab = NoTab
  NoCall = NoCall
  Timely = TRUE
  MaxOps <- RaceOps
PROPERTY ContestHasWinner
CHECK_DEADLOCK FALSE
