SPECIFICATION FairSpec
CONSTANTS
  p = p
  q = q
  readme = readme
  theirs = theirs
  x = x
  Path = {p, q}
  Other = {readme}
  Text = {x}
  Foreign = theirs
  Env = {"fail", "deleteFails", "reload"}
  Caller = {me}
  Anyone = anyone
  me = me
  anyone = anyone
INVARIANTS TypeOK LastWrittenWins UnknownFilesKept NoResurrection
PROPERTIES EveryCallSettles
