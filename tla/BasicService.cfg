CONSTANTS
  Stoppers = {p1, p2}
  Listeners = {l1, l2}
  Waiters = {w1}
SPECIFICATION FairSpec
CHECK_DEADLOCK FALSE
INVARIANTS
  StateIsConsistent
  NoInternalPanic
  ListenersNeverBlock
  ListenersSeeEveryTransition
  AwaitAnswers
PROPERTIES
  ImplementsContract
  StopEnds
