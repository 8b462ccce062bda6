SPECIFICATION Spec
CONSTANTS
  Procs = {viewer, other}
  Viewers = {viewer}
  Devices <- SomeDevices
  Requests <- SomeRequests
  UpdateRate = 2
  MaxEvents = 2
INVARIANTS EnumerationWhole KeptOnceFilled
PROPERTY ChangeShows
