CONSTANTS Confs <- MCConfs
SPECIFICATION Spec
CHECK_DEADLOCK FALSE
INVARIANTS LookbackIncludes ShardIsBalanced CacheIsFresh
PROPERTY Consistency
