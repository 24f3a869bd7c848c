CONSTANTS
  Instances = {1}
  Tokens = {1, 2}
  Nodes = {n1, n2}
  Watchers = {}
  Callers = {c1}
  OwnTokens <- TokenEach
  Homes <- AnyHome
  LeftTimeout = 1
  MaxRetries = 2
  MaxTime = 3
  MaxCas = 3
  MaxStops = 0
SPECIFICATION Spec
CHECK_DEADLOCK FALSE
SYMMETRY Symmetry
INVARIANT CasSeesCurrentValue
