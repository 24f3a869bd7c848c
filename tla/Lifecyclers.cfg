CONSTANTS
  Instances = {1, 2}
  Other = 3
  TokenSpace = {1, 2, 3}
  Confs <- MCConfs
SPECIFICATION LifecyclersSpec
CHECK_DEADLOCK FALSE
INVARIANTS
  TokensAreKept
  UnregisteredStaysAway
PROPERTIES
  EntriesAreKept
  GetsIntoRing
  Leaves
