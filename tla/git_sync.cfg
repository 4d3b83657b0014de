SPECIFICATION FairSpec
CONSTANTS
  m1 = m1
  m2 = m2
  t1 = t1
  t2 = t2
  Engine = {e1}
  Mine = {m1,m2}
  Theirs = {t1,t2}
  Clash <- ClashingPair
  Env = {"edit", "network", "auth", "access"}
  MaxCommits = 6
INVARIANTS TypeOK IdleMeansPushed MarkersNeverPushed ButtonsWork
PROPERTIES StagedEditKept TheirsKept EditsGetCommitted
CHECK_DEADLOCK FALSE
