SPECIFICATION Spec
CONSTANTS
  m1 = m1
  m2 = m2
  t1 = t1
  t2 = t2
  Engine = {e1, e2}
  Mine = {m1,m2}
  Theirs = {t1}
  Clash <- ClashingPair
  Env = {"reload"}
  MaxCommits = 6
INVARIANT MarkersNeverPushed
CHECK_DEADLOCK FALSE
