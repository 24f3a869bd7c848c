CONSTANTS
  Instances = {1, 2}
  Tokens = {1, 2}
  Replicas = {r1, r2, r3}
  Updates <- MCUpdates
SPECIFICATION ReplicasSpec
SYMMETRY Symmetry
INVARIANTS
  ReplicaIsSound
  SameUpdatesAgree
PROPERTY
  NeverGoesBack
