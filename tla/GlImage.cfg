CONSTANTS
  NBuf = 3
  Half = 2
  Period = 3
  Offsets <- ExactOrEarly
SPECIFICATION Spec
INVARIANTS
  TypeOK
  HandedBackAtMostDEarly
PROPERTIES
  ImplementsContract
  LastFrameReachesPanel
  SwapEnds
  TearingHeals
