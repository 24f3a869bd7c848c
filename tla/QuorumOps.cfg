CONSTANTS
  Scenarios <- MCScenarios
  MaxChanges = 1
SPECIFICATION FairSpec
CHECK_DEADLOCK FALSE
INVARIANTS
  SendsNeverBlock
  BatchIsRight
  ReadsSeeWrites
  GetFindsReplicas
PROPERTY
  CallsReturn
