CONSTANTS
  NBuf = 3
  Half = 2
  Period = 4
  Offsets <- Late
SPECIFICATION Spec
INVARIANTS
  HandedBackAtMostDEarly
