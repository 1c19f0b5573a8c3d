SPECIFICATION FairSpec
CONSTANTS
  Users = {u1, u2}
  Scheduler = Scheduler
  Nobody = Nobody
  MaxSteps = 2
  MaxFailures = 1
  MaxAutoSteps = 2
  MaxObservations = 2
  MaxActions = 3
  MaxInterruptions = 2
  Faults = {"model_error", "tool_error", "tx_error", "revocation"}
INVARIANTS
  WriteIsApprovedOnce
  PendingAgrees
  BudgetHolds
  CompletedHasEvidence
PROPERTIES
  EndedIsFinal
  UnattendedResolves
CHECK_DEADLOCK FALSE
