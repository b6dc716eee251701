SPECIFICATION SpecInScene
CONSTANTS
  k1 = k1
  k2 = k2
  Desks = {d1, d2}
  Sweeper = Sweeper
  AssignmentRows <- Duty
  Definitions <- Versions
  Keys = {k1, k2}
  SweepLimit = 2
  MaxFailedSweeps = 1
  AppAhead = 1
  MaxTime = 3
  Servers = {s1, s2}
  MaxRows = 3
  MaxStamp = 2
  OutboxBatch = 2
  MaxOutages = 1
  MaxStops = 1
CHECK_DEADLOCK FALSE
INVARIANTS OneVerdict NoCircularWait
PROPERTIES OverdueIsSettled PoisonDoesNotStall
