CONSTANTS
  NBuf = 3
  Half = 2
  Period = 3
  Offsets <- Exact
SPECIFICATION Spec
INVARIANTS
  CopiesOffScreen
