CONSTANTS Confs <- MCConfs
SPECIFICATION Spec
CHECK_DEADLOCK FALSE
INVARIANT
  DependencyOrder
PROPERTY
  NobodyWaitsForEver
