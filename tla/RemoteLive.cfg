SPECIFICATION FairSpec
CHECK_DEADLOCK FALSE
CONSTANTS
  c1 = c1
  c2 = c2
  Callers = {c1, c2}
  Uids = {1, 2}
  Polled = {2}
  CanBreak = FALSE
  MaxData = 1
  Calls <- Locked
  MaxCalls = 3
INVARIANT OneSender
PROPERTY KnownCallsReturn
