CONSTANTS
  Instances = {1, 2}
  Tokens = {1, 2}
  Nodes = {n1, n2}
  Watchers = {n1}
  Callers = {c1}
  OwnTokens <- TokenEach
  Homes <- OneHome
  LeftTimeout = 0
  MaxRetries = 2
  MaxTime = 2
  MaxCas = 2
  MaxStops = 0
SPECIFICATION FairSpec
CHECK_DEADLOCK FALSE
ACTION_CONSTRAINT OneInstanceLater
INVARIANT WatcherUpToDate
PROPERTY Converges
