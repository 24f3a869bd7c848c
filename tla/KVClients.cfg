CONSTANTS
  k1 = k1
  k2 = k2
  s1 = s1
  s2 = s2
  Keys = {k1, k2}
  Callers = {c1, c2}
  Stores = {s1, s2}
  First = s1
  Watchers = {w1}
  Writers = {p1, p2}
  Confs <- MCConfs
  Bounds <- MCBounds
  MaxRetries = 2
  Buffer = 2
SPECIFICATION Spec
CHECK_DEADLOCK FALSE
INVARIANTS
  ClientsAreSound
  MigrationKeepsWrites
PROPERTIES
  NoLostUpdate
  WatcherSeesLast
  FollowsFile
