SPECIFICATION Spec
CONSTANTS
  None = None
  Docs = {d1, d2}
  Contents = {x1, x2}
  Callers = {c1, c2}
  Reindexers = {c1}
  Generations = {g1, g2}
  MaxEdits = 1
  MaxCrashes = 0
SYMMETRY Symmetric
INVARIANTS
  ChunksMatchDigest
CHECK_DEADLOCK FALSE
