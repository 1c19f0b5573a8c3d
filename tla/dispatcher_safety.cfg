SPECIFICATION Spec
CONSTANTS
  Ids = {i1, i2, i3}
  Threads = {t1, t2}
  Callers = {c1, c2}
  Capacity = 2
  Deadlines = {TRUE, FALSE}
  MaxStarts = 2
  StartFails = TRUE
  NoId = NoId
SYMMETRY Symmetric
INVARIANTS
  PendingIsExact
  StoppedHasNoThread
CHECK_DEADLOCK FALSE
