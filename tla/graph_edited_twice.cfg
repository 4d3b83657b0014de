SPECIFICATION RoundTripSpec
CONSTANTS
  Count = 2
  Attributes <- FewAttributes
  Opaque <- NoneOpaque
  MaxEdits = 2
  MaxBackground = 0
  MaxMisparses = 0
INVARIANT NothingResurrected
CHECK_DEADLOCK FALSE
