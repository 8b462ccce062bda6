SPECIFICATION Spec
CONSTANTS
  Shapes <- SomeShapes
  X <- MX
  Y <- MY
  Rplc <- MR
INVARIANTS RoundTrip InPlace
CHECK_DEADLOCK FALSE
