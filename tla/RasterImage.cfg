CONSTANTS
  NBuf = 2
  Half = 2
  Period = 3
  Offsets <- Exact
SPECIFICATION Spec
INVARIANTS
  TypeOK
  OneBehind
  ShownIsScanned
PROPERTIES
  ImplementsContract
  FlushedFrameReachesPanel
