SPECIFICATION Spec
CHECK_DEADLOCK FALSE
CONSTANTS
  t1 = t1
  t2 = t2
  Threads = {t1, t2}
  MaxFrames = 2
  NRead = 2
  MinBufs = 1
  IgnoreFirst = 1
  SupportsRead = FALSE
  CanStream = TRUE
  Orphans = TRUE
  LaxInput = FALSE
  DstOnly = FALSE
  MaxGen = 2
  MaxMaps = 1
  Calls <- CaptureCalls
  Refusable <- Refusals
SYMMETRY ThreadSymmetry
INVARIANT ConvertReadsMapped
INVARIANT NoStaleMapping
INVARIANT DestinationLive
INVARIANT NothingMappedOnceClosed
INVARIANT FakeMapsBacked
