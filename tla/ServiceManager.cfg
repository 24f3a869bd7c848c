CONSTANTS
  Services = {s1, s2}
  Listeners = {l1}
  Watchers = {l1}
  Waiters = {w1}
SPECIFICATION MCFairSpec
CHECK_DEADLOCK FALSE
INVARIANTS
  NeverPanics
  AnswersHold
  ListenersAreServed
PROPERTY
  StopReturns
