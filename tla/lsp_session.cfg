SPECIFICATION FairSpec
CONSTANTS
  d1 = d1
  d2 = d2
  a = a
  b = b
  none = none
  unparsed = unparsed
  Doc = {d1, d2}
  Text = {a, b}
  None = none
  Unparsed = unparsed
  MaxBehind = 1
  Env = {"loadFails"}
INVARIANTS TypeOK WakeIsInvisible NothingLeftBehind
PROPERTIES SteadyServerSpec BuiltBeforeAsked EveryRequestAnswered GoneIsPurged
CHECK_DEADLOCK FALSE
