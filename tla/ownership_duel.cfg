SPECIFICATION FairSpec
CONSTANTS
  Tab = {1, 2}
  Call = {c1}
  NoTab = NoTab
  NoCall = NoCall
  Timely = TRUE
  MaxOps <- DuelOps
INVARIANTS TypeOK AtMostOneOwner NoClaimUnopposed
PROPERTIES SingleWriterSpec HandoverWithoutGap ContestHasWinner
CHECK_DEADLOCK FALSE
