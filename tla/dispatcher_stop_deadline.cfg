SPECIFICATION Spec
CONSTANTS
  Ids = {i1, i2}
  Threads = {t1, t2}
  Callers = {c1}
  Capacity = 1
  Deadlines = {TRUE}
  MaxStarts = 1
  StartFails = FALSE
  NoId = NoId
INVARIANTS
  StoppedIsEmpty
CHECK_DEADLOCK FALSE
