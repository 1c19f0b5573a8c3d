------------------------------ MODULE RunLedger ------------------------------
(***************************************************************************)
(* What the analysis service promises about its durable run records, with  *)
(* no mention of queues, workers, requests or restarts.                    *)
(*                                                                         *)
(*  - A run is accepted once, moves forward along the transition table,    *)
(*    and never changes again after a terminal status.                     *)
(*  - A run completes only with a saved measurement, with the status that  *)
(*    the measurement's quality verdict earns.                             *)
(*  - A job's status is, at every moment, the aggregate of its runs.       *)
(*                                                                         *)
(* RunPipeline is shown to implement this specification.                   *)
(***************************************************************************)
EXTENDS RunStatus

CONSTANTS
  Runs,      \* identifiers of run rows
  Jobs,      \* identifiers of analysis jobs
  JobOf      \* the job each run belongs to

VARIABLES
  status,    \* status of each run, or "ABSENT" before its row exists
  quality,   \* verdict saved with the run's measurement, or "NONE"
  jobStatus  \* status of each job

ledgerVars == <<status, quality, jobStatus>>

Present(st, j) == {r \in Runs : JobOf[r] = j /\ st[r] # "ABSENT"}
JobAggregate(st, j) == AggregateJobStatus({st[r] : r \in Present(st, j)})

Init ==
  /\ status = [r \in Runs |-> "ABSENT"]
  /\ quality = [r \in Runs |-> "NONE"]
  /\ jobStatus = [j \in Jobs |-> "READY_FOR_CONFIGURATION"]

\* Every change of run statuses re-derives the status of every job.
Restatus(st) ==
  /\ status' = st
  /\ jobStatus' = [j \in Jobs |-> JobAggregate(st, j)]

Accept ==
  /\ \E S \in SUBSET {r \in Runs : status[r] = "ABSENT"} :
       /\ S # {}
       /\ Restatus([r \in Runs |-> IF r \in S THEN "QUEUED" ELSE status[r]])
  /\ UNCHANGED quality

Move(r, s) ==
  /\ status[r] # "ABSENT"
  /\ s \in AllowedTransitions[status[r]]
  /\ s \in TerminalStatuses \ {"FAILED"} =>
       quality[r] # "NONE" /\ s = EarnedStatus(quality[r])
  /\ Restatus([status EXCEPT ![r] = s])
  /\ UNCHANGED quality

Measure(r, q) ==
  /\ status[r] = "ANALYZING"
  /\ quality[r] = "NONE"
  /\ quality' = [quality EXCEPT ![r] = q]
  /\ UNCHANGED <<status, jobStatus>>

Next ==
  \/ Accept
  \/ \E r \in Runs, s \in RunStatuses : Move(r, s)
  \/ \E r \in Runs, q \in QualityVerdicts : Measure(r, q)

Spec == Init /\ [][Next]_ledgerVars
=============================================================================
