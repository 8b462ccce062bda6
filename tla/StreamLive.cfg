SPECIFICATION FairSpec
CHECK_DEADLOCK FALSE
CONSTANTS
  t1 = t1
  t2 = t2
  Threads = {t1, t2}
  MaxFrames = 2
  NRead = 2
  MinBufs = 1
  IgnoreFirst = 1
  SupportsRead = FALSE
  CanStream = TRUE
  Orphans = FALSE
  LaxInput = FALSE
  DstOnly = FALSE
  MaxGen = 3
  MaxMaps = 1
  Calls <- ReadVersusFormat
  Refusable <- NoRefusals
PROPERTY EveryCallReturns
