CONSTANTS
  Stoppers = {p1, p2}
  Listeners = {}
  Waiters = {}
SPECIFICATION Spec
CHECK_DEADLOCK FALSE
INVARIANT StopAsyncFindsCancel
