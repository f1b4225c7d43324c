CONSTANTS
  PanelMaxX = 2
  Points <- TwoPoints
  QueueLen = 3
  MaxReports = 2
  MaxTaps = 1
SPECIFICATION Spec
INVARIANTS
  TypeOK
  HitsWhatIsSeen
PROPERTIES
  DeliversPointerStream
  ReportsAreDelivered
CHECK_DEADLOCK FALSE
