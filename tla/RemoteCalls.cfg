SPECIFICATION Spec
CHECK_DEADLOCK FALSE
CONSTANTS
  c1 = c1
  c2 = c2
  Callers = {c1, c2}
  Uids = {1}
  Polled = {1}
  CanBreak = TRUE
  MaxData = 0
  Calls <- Unlocked
  MaxCalls = 3
INVARIANTS
  OpenAtDaemon
  QueueAccounted
PROPERTY ImplementsCalls
