CONSTANTS
  NBuf = 3
  MaxPresents = 4
  ThumbAt = {2, 4}
  CropAt = {2}
  IdleAfter = 2
  RedumpAfter = 3
  ThumbRows = 2
  CropRows = 1
  MaxCalls = 2
SPECIFICATION Spec
INVARIANTS
  TypeOK
  OneDumpAtATime
  StaleIsRedumped
  DumpIsBounded
PROPERTY LastFrameIsDumped
