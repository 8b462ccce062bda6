SPECIFICATION Spec
CONSTANTS
  t1 = t1
  t2 = t2
  t3 = t3
  f1 = f1
  f2 = f2
  f3 = f3
  Threads = {t1, t2, t3}
  Fds = {f1, f2, f3}
  NoFd = NoFd
  MaxDevices = 2
  Calls <- EveryCall
  Mishaps = {}
  MaxRefs = 3
SYMMETRY Symmetry
INVARIANTS
  OneSlotPerFd
  ForeignUntouched
  HeldIsFound
  HeldStaysOpen
  CountIsHeld
  OneFreer
  NothingLeft
CHECK_DEADLOCK FALSE
