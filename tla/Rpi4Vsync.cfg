CONSTANTS
  Half = 4
  TruePeriod = 16
  Jitter = 1
  PeriodMin = 16
  PeriodMax = 32
  NominalPeriod = 14
  Samples = 4
  Needed = 3
  MaxSkips = 1
  ResyncAfter = 48
  FirstResync = 24
  EnoughPeriods = 2
  Tolerance = 4
  MaxNow = 240
SPECIFICATION Spec
CHECK_DEADLOCK FALSE
INVARIANTS
  TypeOK
PROPERTIES
  CounterNeverGoesBack
  PeriodNeverWorsens
  CalibratedPeriod
  BlocksUntilCount
