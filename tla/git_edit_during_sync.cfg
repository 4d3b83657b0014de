SPECIFICATION Spec
CONSTANTS
  m1 = m1
  m2 = m2
  t1 = t1
  t2 = t2
  Engine = {e1}
  Mine = {m1,m2}
  Theirs = {t1,t2}
  Clash <- NoClash
  Env = {"edit"}
  MaxCommits = 6
PROPERTY NoEditLost
CHECK_DEADLOCK FALSE
