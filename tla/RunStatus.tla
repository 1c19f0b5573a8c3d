------------------------------ MODULE RunStatus ------------------------------
(***************************************************************************)
(* The status vocabulary shared by analysis jobs and segmentation runs,    *)
(* the transition table and the rule that derives a job's status from its  *)
(* runs (app/core/state_machine.py).  Pure definitions: no state.          *)
(***************************************************************************)
EXTENDS Integers

TerminalStatuses == {"COMPLETED", "COMPLETED_WITH_WARNINGS", "FAILED"}

\* Position of an active status in ACTIVE_RUN_ORDER.
Rank ==
  [QUEUED |-> 0, PREPROCESSING |-> 1, SEGMENTING |-> 2, POSTPROCESSING |-> 3,
   QUALITY_CHECKING |-> 4, ANALYZING |-> 5, AGGREGATING |-> 6]

ActiveStatuses ==
  {"QUEUED", "PREPROCESSING", "SEGMENTING", "POSTPROCESSING",
   "QUALITY_CHECKING", "ANALYZING", "AGGREGATING"}

\* Active statuses that no queue entry can explain: some worker must own them
\* (STALE_ACTIVE_STATUSES in app/orchestration/recovery.py).
StaleActiveStatuses == ActiveStatuses \ {"QUEUED"}

\* What a run row can hold.  A job also goes through its configuration states.
RunStatuses == ActiveStatuses \cup TerminalStatuses
JobStatuses ==
  RunStatuses \cup {"CREATED", "VALIDATING", "READY_FOR_CONFIGURATION"}

\* The success chain of ALLOWED_TRANSITIONS; FAILED is reachable from every
\* status on it.
AllowedTransitions ==
  [QUEUED           |-> {"PREPROCESSING", "FAILED"},
   PREPROCESSING    |-> {"SEGMENTING", "FAILED"},
   SEGMENTING       |-> {"POSTPROCESSING", "FAILED"},
   POSTPROCESSING   |-> {"QUALITY_CHECKING", "FAILED"},
   QUALITY_CHECKING |-> {"ANALYZING", "FAILED"},
   ANALYZING        |-> {"AGGREGATING", "FAILED"},
   AGGREGATING      |-> {"COMPLETED", "COMPLETED_WITH_WARNINGS", "FAILED"},
   COMPLETED               |-> {},
   COMPLETED_WITH_WARNINGS |-> {},
   FAILED                  |-> {}]

\* The active status of the least rank (the min() of aggregate_job_status).
LeastAdvanced(active) ==
  CHOOSE s \in active : \A t \in active : Rank[s] <= Rank[t]

\* aggregate_job_status of a job whose runs have exactly the statuses in S:
\* the code only asks whether all, some or none of the runs have a status, so
\* the set of statuses determines the answer.
AggregateJobStatus(S) ==
  LET active == S \ TerminalStatuses
  IN  CASE S = {}          -> "READY_FOR_CONFIGURATION"
        [] active # {}     -> LeastAdvanced(active)
        [] S = {"FAILED"}  -> "FAILED"
        [] S = {"COMPLETED"} -> "COMPLETED"
        [] OTHER           -> "COMPLETED_WITH_WARNINGS"

\* The quality gate's verdicts (app/contracts/enums.py) and the terminal status
\* a run earns from one.
QualityVerdicts == {"PASS", "WARN", "REVIEW_REQUIRED"}
EarnedStatus(q) ==
  IF q = "PASS" THEN "COMPLETED" ELSE "COMPLETED_WITH_WARNINGS"
=============================================================================
