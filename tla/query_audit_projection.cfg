SPECIFICATION AuditSpec
CONSTANTS
  Queries = {q1, q2}
  Exports = {e1}
  Selections = {all}
  Nobody = nobody
  MaxFailures = 0
SYMMETRY Symmetric
CHECK_DEADLOCK FALSE
INVARIANTS
  HistoryIsProjection
