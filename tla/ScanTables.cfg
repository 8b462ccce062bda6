SPECIFICATION FairSpec
\* The program may end after an abort.
CHECK_DEADLOCK FALSE
CONSTANTS
  e1 = e1
  e2 = e2
  NoTs = NoTs
  Air <- Carousel
  TableOf <- TableIds
  Programs <- PatPrograms
  NetworkPid = "network"
  TsIds = {NoTs, e1}
  WordBits = 4
  NBuf = 2
  MaxFaults = 2
INVARIANTS TableComplete NoStaleSection BuffersAccounted
PROPERTY ScanEnds
