CONSTANTS
  Instances = {1, 2}
  Tokens = {1, 2}
  Nodes = {n1, n2}
  Watchers = {}
  Callers = {c1}
  OwnTokens <- SharedToken
  Homes <- AnyHome
  LeftTimeout = 0
  MaxRetries = 2
  MaxTime = 2
  MaxCas = 3
  MaxStops = 1
SPECIFICATION Spec
SYMMETRY Symmetry
CONSTRAINT FewValuesAndCalls
CHECK_DEADLOCK FALSE
INVARIANT
  NodesAreSound
  CasSeesCurrentValue
PROPERTY
  StoreNeverGoesBack
