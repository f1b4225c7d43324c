CONSTANTS
  Main = Main
  A = A
  B = B
  C = C
  r1 = r1
  r2 = r2
  HEAD = HEAD
  Absent = Absent
  Dep = {A, B, C}
  Rev = {r1, r2}
  Histories <- MCHistories
  MaxStops = 1
SPECIFICATION Spec
INVARIANTS
  TypeOK
  DependenciesFirst
  SyncedAsPinned
  SyncedSetIsCanonical
PROPERTIES
  SyncEnds
CHECK_DEADLOCK FALSE
