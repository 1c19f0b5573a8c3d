SPECIFICATION FairSpec
CONSTANTS
  Ids = {i1, i2}
  Threads = {t1, t2}
  Callers = {c1, c2}
  Capacity = 1
  Deadlines = {FALSE}
  MaxStarts = 1
  StartFails = FALSE
  NoId = NoId
INVARIANTS
  StopReportIsTrue
PROPERTIES
  StopLeavesNothing
CHECK_DEADLOCK FALSE
