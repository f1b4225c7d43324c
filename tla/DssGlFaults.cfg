CONSTANTS
  NBuf = 3
  Half = 2
  PollsPerSync = 1
  GuardPolls = 2
SPECIFICATION FairSpec
PROPERTIES
  SwapEnds
  TearingHeals
