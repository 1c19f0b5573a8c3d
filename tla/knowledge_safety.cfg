SPECIFICATION Spec
CONSTANTS
  None = None
  Docs = {d1, d2}
  Contents = {x1, x2}
  Callers = {c1, c2}
  Reindexers = {c1}
  Generations = {g1, g2}
  MaxEdits = 1
  MaxCrashes = 1
SYMMETRY Symmetric
INVARIANTS
  FoundWasCurrent
  IndexFollowsCatalogue
  PublishedIsWhole
  SourceKept
PROPERTIES
  DisabledStaysDisabled
CHECK_DEADLOCK FALSE
