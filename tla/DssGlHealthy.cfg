CONSTANTS
  NBuf = 3
  Half = 2
  PollsPerSync = 1
  GuardPolls = 3
SPECIFICATION HealthyFairSpec
INVARIANTS
  TypeOK
  NoTear
PROPERTIES
  ImplementsContract
  LastFrameReachesPanel
