SPECIFICATION Spec
CONSTANTS
  p = p
  q = q
  readme = readme
  theirs = theirs
  x = x
  Path = {p, q}
  Other = {readme}
  Text = {x}
  Foreign = theirs
  Env = {}
  Caller = {me}
  Anyone = anyone
  me = me
  anyone = anyone
CHECK_DEADLOCK FALSE
INVARIANTS CollaboratorKept
