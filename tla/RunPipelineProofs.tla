------------------------- MODULE RunPipelineProofs -------------------------
(***************************************************************************)
(* Theorems about RunPipeline, for every set of runs, jobs, workers and    *)
(* request handlers, every queue bound, any number of crashes and any set  *)
(* of faults.                                                              *)
(***************************************************************************)
EXTENDS RunPipeline, TLAPS

USE DEF RunStatuses, ActiveStatuses, TerminalStatuses

-----------------------------------------------------------------------------
(* The job aggregate.                                                      *)

\* Some active status has the least rank: aggregate_job_status's min() has a
\* well-defined answer on every non-empty set of active statuses.
LEMMA LeastAdvancedExists ==
  ASSUME NEW S \in SUBSET ActiveStatuses, S # {}
  PROVE  LeastAdvanced(S) \in S
<1> DEFINE Least(s) == s \in S /\ \A t \in S : Rank[s] <= Rank[t]
<1>1. \E s \in S : Least(s)
  <2>1. CASE "QUEUED" \in S
    BY <2>1 DEF Rank
  <2>2. CASE "QUEUED" \notin S /\ "PREPROCESSING" \in S
    BY <2>2 DEF Rank
  <2>3. CASE S \cap {"QUEUED", "PREPROCESSING"} = {} /\ "SEGMENTING" \in S
    BY <2>3 DEF Rank
  <2>4. CASE S \cap {"QUEUED", "PREPROCESSING", "SEGMENTING"} = {}
             /\ "POSTPROCESSING" \in S
    BY <2>4 DEF Rank
  <2>5. CASE S \subseteq {"QUALITY_CHECKING", "ANALYZING", "AGGREGATING"}
             /\ "QUALITY_CHECKING" \in S
    BY <2>5 DEF Rank
  <2>6. CASE S \subseteq {"ANALYZING", "AGGREGATING"} /\ "ANALYZING" \in S
    BY <2>6 DEF Rank
  <2>7. CASE S = {"AGGREGATING"}
    BY <2>7 DEF Rank
  <2> QED
    BY <2>1, <2>2, <2>3, <2>4, <2>5, <2>6, <2>7
<1> QED
  BY <1>1 DEF LeastAdvanced

\* The aggregate of run statuses is a job status.
LEMMA AggregateType ==
  ASSUME NEW S \in SUBSET RunStatuses
  PROVE  AggregateJobStatus(S) \in JobStatuses
<1>1. CASE S \ TerminalStatuses # {}
  <2>1. S \ TerminalStatuses \in SUBSET ActiveStatuses
    OBVIOUS
  <2>2. LeastAdvanced(S \ TerminalStatuses) \in ActiveStatuses
    BY <1>1, <2>1, LeastAdvancedExists
  <2>3. AggregateJobStatus(S) = LeastAdvanced(S \ TerminalStatuses)
    BY <1>1 DEF AggregateJobStatus
  <2> QED
    BY <2>2, <2>3 DEF JobStatuses
<1>2. CASE S \ TerminalStatuses = {}
  BY <1>2 DEF AggregateJobStatus, JobStatuses
<1> QED
  BY <1>1, <1>2

\* A job with a queued run is queued, whatever its other runs do: what lets
\* create_runs and create_review_run write QUEUED without reading the runs.
LEMMA AggregateQueued ==
  ASSUME NEW S \in SUBSET RunStatuses, "QUEUED" \in S
  PROVE  AggregateJobStatus(S) = "QUEUED"
<1> DEFINE A == S \ TerminalStatuses
<1>1. A \in SUBSET ActiveStatuses /\ "QUEUED" \in A
  OBVIOUS
<1>2. \A s \in A : (\A t \in A : Rank[s] <= Rank[t]) => s = "QUEUED"
  BY <1>1 DEF Rank
<1>3. "QUEUED" \in A /\ \A t \in A : Rank["QUEUED"] <= Rank[t]
  BY <1>1 DEF Rank
<1>4. LeastAdvanced(A) = "QUEUED"
  BY <1>2, <1>3 DEF LeastAdvanced
<1> QED
  BY <1>1, <1>4 DEF AggregateJobStatus

-----------------------------------------------------------------------------
(* Type correctness.                                                       *)

\* Moving a run keeps the database well-typed.
LEMMA SetRunStatusType ==
  ASSUME TypeOK, NEW r \in Runs, NEW s \in RunStatuses, SetRunStatus(r, s)
  PROVE  /\ status' \in [Runs -> RunStatuses \cup {"ABSENT"}]
         /\ trail' \in [Runs -> Seq(RunStatuses)]
         /\ jobStatus' \in [Jobs -> JobStatuses]
<1>1. status' \in [Runs -> RunStatuses \cup {"ABSENT"}]
  BY DEF TypeOK, SetRunStatus
<1>2. trail' \in [Runs -> Seq(RunStatuses)]
  BY DEF TypeOK, SetRunStatus
<1>3. AggregateJobStatus(StatusesOf(status', JobOf[r])) \in JobStatuses
  <2>1. StatusesOf(status', JobOf[r]) \in SUBSET RunStatuses
    BY <1>1 DEF StatusesOf, RunsOf
  <2> QED
    BY <2>1, AggregateType
<1>4. jobStatus' \in [Jobs -> JobStatuses]
  BY <1>3, PipelineAssumptions DEF TypeOK, SetRunStatus
<1> QED
  BY <1>1, <1>2, <1>4

\* Inserting queued runs keeps the database well-typed.
LEMMA InsertQueuedType ==
  ASSUME TypeOK, NEW S \in SUBSET Runs, NEW j \in Jobs, InsertQueued(S, j)
  PROVE  /\ status' \in [Runs -> RunStatuses \cup {"ABSENT"}]
         /\ trail' \in [Runs -> Seq(RunStatuses)]
         /\ jobStatus' \in [Jobs -> JobStatuses]
<1>1. <<"QUEUED">> \in Seq(RunStatuses)
  OBVIOUS
<1> QED
  BY <1>1 DEF TypeOK, InsertQueued, JobStatuses

\* A submission keeps the dispatcher well-typed.
LEMMA SubmitType ==
  ASSUME TypeOK, NEW r \in Runs, Submit(r)
  PROVE  queue' \in Seq(Runs) /\ known' \in SUBSET Runs
<1>1. CASE r \in known \/ Len(queue) >= Capacity
  BY <1>1 DEF TypeOK, Submit, dispatcher
<1>2. CASE ~(r \in known \/ Len(queue) >= Capacity)
  <2>1. queue' = Append(queue, r) /\ known' = known \cup {r}
    BY <1>2 DEF Submit
  <2>2. queue \in Seq(Runs) /\ known \in SUBSET Runs
    BY DEF TypeOK
  <2> QED
    BY <2>1, <2>2
<1> QED
  BY <1>1, <1>2

\* Every reachable state of the pipeline is well-typed.
THEOREM TypeCorrect == Spec => []TypeOK
<1>1. Init => TypeOK
  BY PipelineAssumptions DEF Init, TypeOK, WorkerSteps, JobStatuses
<1>2. TypeOK /\ [Next]_vars => TypeOK'
  <2> SUFFICES ASSUME TypeOK, [Next]_vars
               PROVE  TypeOK'
    OBVIOUS
  <2> USE DEF database, dispatcher, workers, clients, recovery
  <2>1. ASSUME NEW c \in Clients, NEW j \in Jobs, CheckCreate(c, j)
        PROVE  TypeOK'
    BY <2>1 DEF TypeOK, CheckCreate
  <2>2. ASSUME NEW c \in Clients, CommitCreate(c)
        PROVE  TypeOK'
    <3> PICK S \in SUBSET Runs :
          /\ InsertQueued(S, ctarget[c])
          /\ cbatch' = [cbatch EXCEPT ![c] = S]
      BY <2>2 DEF CommitCreate, RunsOf
    <3>1. ctarget[c] \in Jobs
      BY <2>2 DEF CommitCreate, TypeOK
    <3> QED
      BY <2>2, <3>1, InsertQueuedType DEF TypeOK, CommitCreate
  <2>3. ASSUME NEW c \in Clients, NEW p \in Runs, CheckReview(c, p)
        PROVE  TypeOK'
    BY <2>3 DEF TypeOK, CheckReview
  <2>4. ASSUME NEW c \in Clients, NEW child \in Runs, CommitReview(c, child)
        PROVE  TypeOK'
    <3>1. JobOf[child] \in Jobs /\ ctarget[c] \in Runs
      BY <2>4, PipelineAssumptions DEF CommitReview, TypeOK
    <3>2. /\ status' \in [Runs -> RunStatuses \cup {"ABSENT"}]
          /\ trail' \in [Runs -> Seq(RunStatuses)]
          /\ jobStatus' \in [Jobs -> JobStatuses]
      BY <2>4, <3>1, InsertQueuedType DEF CommitReview
    <3> QED
      BY <2>4, <3>1, <3>2 DEF TypeOK, CommitReview
  <2>5. ASSUME NEW c \in Clients, RejectRequest(c)
        PROVE  TypeOK'
    BY <2>5 DEF TypeOK, RejectRequest
  <2>6. ASSUME NEW c \in Clients, NEW r \in Runs, Dispatch(c, r)
        PROVE  TypeOK'
    BY ZenonT(30), <2>6, SubmitType DEF TypeOK, Dispatch
  <2>7. ASSUME NEW w \in Workers, Take(w)
        PROVE  TypeOK'
    <3>1. Head(queue) \in Runs /\ Tail(queue) \in Seq(Runs)
      BY <2>7 DEF TypeOK, Take
    <3> QED
      BY <2>7, <3>1 DEF TypeOK, Take, WorkerStep, WorkerSteps
  <2>8. ASSUME NEW w \in Workers, Claim(w)
        PROVE  TypeOK'
    <3>1. wrun[w] \in Runs
      BY <2>8 DEF TypeOK, Claim, WorkerStep
    <3> QED
      BY <2>8, <3>1, SetRunStatusType
      DEF TypeOK, Claim, WorkerStep, WorkerSteps, OwnerSteps
  <2>9. ASSUME NEW w \in Workers, ClaimRefused(w) \/ ClaimRaises(w)
        PROVE  TypeOK'
    BY ZenonT(30), <2>9 DEF TypeOK, ClaimRefused, ClaimRaises, WorkerStep, WorkerSteps
  <2>10. ASSUME NEW w \in Workers, LoadInputs(w) \/ InputsMissing(w)
         PROVE  TypeOK'
    BY ZenonT(30), <2>10 DEF TypeOK, LoadInputs, InputsMissing, WorkerStep, WorkerSteps,
                 OwnerSteps, TrySteps, Target
  <2>11. ASSUME NEW w \in Workers, NEW step \in DOMAIN Target,
                Advance(w, step)
         PROVE  TypeOK'
    <3>1. wrun[w] \in Runs
      BY <2>11 DEF TypeOK, Advance, WorkerStep, Target
    <3>2. Target[step] \in RunStatuses /\ After[step] \in WorkerSteps
      BY DEF Target, After, WorkerSteps, OwnerSteps, TrySteps
    <3>3. After[step] # "idle"
      BY DEF Target, After
    <3> QED
      BY <2>11, <3>1, <3>2, <3>3, SetRunStatusType
      DEF TypeOK, Advance, WorkerStep
  <2>12. ASSUME NEW w \in Workers, NEW q \in QualityVerdicts, SaveResult(w, q)
         PROVE  TypeOK'
    BY <2>12 DEF TypeOK, SaveResult, WorkerStep, WorkerSteps, OwnerSteps,
                 TrySteps, Target
  <2>13. ASSUME NEW w \in Workers, Finish(w)
         PROVE  TypeOK'
    <3>1. wrun[w] \in Runs
      BY <2>13 DEF TypeOK, Finish, WorkerStep
    <3>2. EarnedStatus(wquality[w]) \in RunStatuses
      BY DEF EarnedStatus
    <3> QED
      BY <2>13, <3>1, <3>2, SetRunStatusType
      DEF TypeOK, Finish, WorkerStep, WorkerSteps, OwnerSteps, TrySteps
  <2>14. ASSUME NEW w \in Workers, ReadBack(w)
         PROVE  TypeOK'
    BY <2>14 DEF TypeOK, ReadBack, WorkerStep, WorkerSteps
  <2>15. ASSUME NEW w \in Workers, WorkRaises(w) \/ FailureNotRecorded(w)
         PROVE  TypeOK'
    BY ZenonT(30), <2>15 DEF TypeOK, WorkRaises, FailureNotRecorded, WorkerStep,
                 WorkerSteps, OwnerSteps, TrySteps, Target
  <2>16. ASSUME NEW w \in Workers, RecordFailure(w)
         PROVE  TypeOK'
    <3>1. wrun[w] \in Runs
      BY <2>16 DEF TypeOK, RecordFailure, WorkerStep
    <3>2. /\ status' \in [Runs -> RunStatuses \cup {"ABSENT"}]
          /\ trail' \in [Runs -> Seq(RunStatuses)]
          /\ jobStatus' \in [Jobs -> JobStatuses]
          /\ quality' = quality /\ parent' = parent
      <4>1. CASE status[wrun[w]] \in TerminalStatuses
        BY <2>16, <4>1 DEF RecordFailure, TypeOK
      <4>2. CASE status[wrun[w]] \notin TerminalStatuses
        BY <2>16, <3>1, <4>2, SetRunStatusType DEF RecordFailure
      <4> QED
        BY <4>1, <4>2
    <3> QED
      BY <2>16, <3>1, <3>2 DEF TypeOK, RecordFailure, WorkerStep, WorkerSteps
  <2>17. ASSUME NEW w \in Workers, Release(w)
         PROVE  TypeOK'
    BY <2>17 DEF TypeOK, Release, WorkerStep, WorkerSteps
  <2>18. ASSUME SchedulerPoll
         PROVE  TypeOK'
    BY <2>18 DEF TypeOK, SchedulerPoll, Rows
  <2>19. ASSUME NEW r \in Runs, SchedulerSubmit(r)
         PROVE  TypeOK'
    BY <2>19, SubmitType DEF TypeOK, SchedulerSubmit
  <2>20. ASSUME Crash
         PROVE  TypeOK'
    BY <2>20, PipelineAssumptions DEF TypeOK, Crash, WorkerSteps
  <2>21. ASSUME Start
         PROVE  TypeOK'
    BY <2>21 DEF TypeOK, Start, Rows
  <2>22. ASSUME NEW r \in Runs, RecoverSubmit(r)
         PROVE  TypeOK'
    BY <2>22, SubmitType DEF TypeOK, RecoverSubmit
  <2>23. ASSUME NEW r \in Runs, RecoverFail(r)
         PROVE  TypeOK'
    <3>1. /\ status' \in [Runs -> RunStatuses \cup {"ABSENT"}]
          /\ trail' \in [Runs -> Seq(RunStatuses)]
          /\ jobStatus' \in [Jobs -> JobStatuses]
          /\ quality' = quality /\ parent' = parent
      <4>1. CASE status[r] \in TerminalStatuses
        BY <2>23, <4>1 DEF RecoverFail, TypeOK
      <4>2. CASE status[r] \notin TerminalStatuses
        BY <2>23, <4>2, SetRunStatusType DEF RecoverFail
      <4> QED
        BY <4>1, <4>2
    <3> QED
      BY <2>23, <3>1 DEF TypeOK, RecoverFail
  <2>24. ASSUME NEW r \in Runs, RecoverFailRaises(r)
         PROVE  TypeOK'
    BY <2>24 DEF TypeOK, RecoverFailRaises
  <2>25. ASSUME Serve
         PROVE  TypeOK'
    BY <2>25 DEF TypeOK, Serve
  <2>26. ASSUME UNCHANGED vars
         PROVE  TypeOK'
    BY <2>26 DEF TypeOK, vars
  <2> QED
    BY <2>1, <2>2, <2>3, <2>4, <2>5, <2>6, <2>7, <2>8, <2>9, <2>10, <2>11,
       <2>12, <2>13, <2>14, <2>15, <2>16, <2>17, <2>18, <2>19, <2>20, <2>21,
       <2>22, <2>23, <2>24, <2>25, <2>26
    DEF Next, ClientNext, WorkerProgress, WorkerFault, SchedulerNext,
        RecoveryNext
<1> QED
  BY <1>1, <1>2, PTL DEF Spec

-----------------------------------------------------------------------------
(* Exclusive execution, and what rests on it.                              *)

\* A step that moves no run and no worker keeps what holds of them.
LEMMA QuietStep ==
  ASSUME ExecutionInv, DownIsQuiet',
         UNCHANGED <<status, quality, workers>>, recStale' \subseteq recStale
  PROVE  ExecutionInv'
BY DEF ExecutionInv, OwnedRunIsClaimed, ExclusiveExecution, StageAgrees,
       MeasuredOnce, CompletedHasEarnedResult, RecoveryFailsOnlyLeftovers,
       Owns, workers

\* A worker that goes on to a step at which it owns nothing, or that stays an
\* owner without a status to agree with, disturbs nobody.
LEMMA LetGoStep ==
  ASSUME TypeOK, ExecutionInv, NEW w \in Workers, NEW to \in WorkerSteps,
         wpc' = [wpc EXCEPT ![w] = to],
         to \in OwnerSteps => wpc[w] \in OwnerSteps,
         to \notin DOMAIN StageAt \cup {"save"},
         UNCHANGED <<status, quality, wrun, wquality, recStale, phase>>,
         wpc[w] # "idle"
  PROVE  ExecutionInv'
<1>1. DownIsQuiet'
  BY DEF ExecutionInv, DownIsQuiet
<1>2. OwnedRunIsClaimed' /\ ExclusiveExecution'
  BY DEF ExecutionInv, OwnedRunIsClaimed, ExclusiveExecution, Owns, TypeOK
<1>3. StageAgrees'
  BY DEF ExecutionInv, StageAgrees, TypeOK, StageAt
<1>4. MeasuredOnce' /\ CompletedHasEarnedResult'
  BY DEF ExecutionInv, MeasuredOnce, CompletedHasEarnedResult, TypeOK
<1>5. RecoveryFailsOnlyLeftovers'
  BY DEF ExecutionInv, RecoveryFailsOnlyLeftovers, Owns, TypeOK
<1> QED
  BY <1>1, <1>2, <1>3, <1>4, <1>5 DEF ExecutionInv

\* A worker that moves the run it owns, and stays its owner or lets it go,
\* disturbs no other worker: nobody else owns that run.
LEMMA OwnerMoves ==
  ASSUME TypeOK, ExecutionInv,
         NEW w \in Workers, wpc[w] \in OwnerSteps,
         NEW to \in WorkerSteps, NEW s \in RunStatuses \ {"QUEUED"},
         wpc' = [wpc EXCEPT ![w] = to],
         status' = [status EXCEPT ![wrun[w]] = s],
         UNCHANGED <<quality, wrun, wquality, recStale, phase>>,
         to \in DOMAIN StageAt => s = StageAt[to],
         to \in {"aggregate", "finish"} =>
           wquality[w] # "NONE" /\ wquality[w] = quality[wrun[w]],
         s \in {"ANALYZING", "AGGREGATING"} \cup TerminalStatuses
           \/ quality[wrun[w]] = "NONE",
         to = "save" => quality[wrun[w]] = "NONE",
         s \in TerminalStatuses \ {"FAILED"} =>
           quality[wrun[w]] # "NONE" /\ s = EarnedStatus(quality[wrun[w]])
  PROVE  ExecutionInv'
<1> DEFINE r == wrun[w]
<1>1. r \in Runs /\ wpc[w] # "idle"
  BY DEF TypeOK, OwnerSteps, TrySteps, Target
<1>2. \A v \in Workers : v # w /\ wpc[v] \in OwnerSteps => wrun[v] # r
  BY <1>1 DEF ExecutionInv, ExclusiveExecution, Owns
<1>3. DownIsQuiet'
  BY <1>1 DEF ExecutionInv, DownIsQuiet
<1>4. OwnedRunIsClaimed' /\ ExclusiveExecution'
  BY <1>1, <1>2 DEF ExecutionInv, OwnedRunIsClaimed, ExclusiveExecution, Owns,
     TypeOK
<1>5. StageAgrees'
  <2> SUFFICES ASSUME NEW v \in Workers
               PROVE  StageAgrees!(v)'
    BY DEF StageAgrees
  <2>1. CASE v = w
    BY <1>1, <2>1 DEF TypeOK
  <2>2. CASE v # w
    BY <1>1, <1>2, <2>2
    DEF ExecutionInv, StageAgrees, TypeOK, StageAt, OwnerSteps, TrySteps,
        Target
  <2> QED
    BY <2>1, <2>2
<1>6. MeasuredOnce' /\ CompletedHasEarnedResult'
  BY <1>1, <1>2 DEF ExecutionInv, MeasuredOnce, CompletedHasEarnedResult,
     TypeOK, OwnerSteps, TrySteps
<1>7. RecoveryFailsOnlyLeftovers'
  <2>1. r \notin recStale
    BY <1>1 DEF ExecutionInv, RecoveryFailsOnlyLeftovers, Owns
  <2> QED
    BY <1>1, <1>2, <2>1 DEF ExecutionInv, RecoveryFailsOnlyLeftovers, Owns,
       TypeOK
<1> QED
  BY <1>3, <1>4, <1>5, <1>6, <1>7 DEF ExecutionInv

\* No row that exists is touched by an insertion.
LEMMA InsertStep ==
  ASSUME TypeOK, ExecutionInv, NEW j \in Jobs,
         NEW S \in SUBSET {r \in Runs : status[r] = "ABSENT"},
         InsertQueued(S, j), DownIsQuiet',
         UNCHANGED <<quality, workers, recStale>>
  PROVE  ExecutionInv'
<1>1. status' = [r \in Runs |-> IF r \in S THEN "QUEUED" ELSE status[r]]
  BY DEF InsertQueued
<1>2. OwnedRunIsClaimed' /\ ExclusiveExecution'
  BY <1>1 DEF ExecutionInv, OwnedRunIsClaimed, ExclusiveExecution, Owns,
     TypeOK, workers, OwnerSteps, TrySteps, Target
<1>3. StageAgrees'
  <2> SUFFICES ASSUME NEW w \in Workers
               PROVE  StageAgrees!(w)'
    BY DEF StageAgrees
  <2>1. wpc[w] \in DOMAIN StageAt => wrun[w] \in Runs
    BY DEF TypeOK, StageAt
  <2> QED
    BY <1>1, <2>1 DEF ExecutionInv, StageAgrees, StageAt, workers
<1>4. MeasuredOnce' /\ CompletedHasEarnedResult'
  BY <1>1 DEF ExecutionInv, MeasuredOnce, CompletedHasEarnedResult, TypeOK,
     workers
<1>5. RecoveryFailsOnlyLeftovers'
  BY <1>1 DEF ExecutionInv, RecoveryFailsOnlyLeftovers, Owns, TypeOK, workers,
     StaleActiveStatuses
<1> QED
  BY <1>2, <1>3, <1>4, <1>5 DEF ExecutionInv

\* In every reachable state a run has at most one owner, the durable status is
\* the stage its owner is in, terminal statuses are earned, and recovery only
\* fails what nobody executes.
THEOREM ExecutionCorrect == Spec => []ExecutionInv
<1>1. Init => ExecutionInv
  BY DEF Init, ExecutionInv, OwnedRunIsClaimed, ExclusiveExecution, Owns,
     StageAgrees, MeasuredOnce, CompletedHasEarnedResult, DownIsQuiet,
     RecoveryFailsOnlyLeftovers, OwnerSteps, TrySteps, Target, StageAt
<1>2. TypeOK /\ TypeOK' /\ ExecutionInv /\ [Next]_vars => ExecutionInv'
  <2> SUFFICES ASSUME TypeOK, TypeOK', ExecutionInv, [Next]_vars
               PROVE  ExecutionInv'
    OBVIOUS
  <2> USE DEF database
  <2>1. ASSUME NEW c \in Clients, NEW j \in Jobs, CheckCreate(c, j)
        PROVE  ExecutionInv'
    <3>1. DownIsQuiet'
      BY <2>1 DEF CheckCreate, DownIsQuiet
    <3> QED
      BY <2>1, <3>1, QuietStep DEF CheckCreate, recovery
  <2>2. ASSUME NEW c \in Clients, CommitCreate(c)
        PROVE  ExecutionInv'
    <3> PICK S \in SUBSET {r \in Runs : status[r] = "ABSENT"} :
          InsertQueued(S, ctarget[c])
      BY <2>2 DEF CommitCreate, RunsOf
    <3>1. ctarget[c] \in Jobs
      BY <2>2 DEF CommitCreate, TypeOK
    <3>2. DownIsQuiet'
      BY <2>2 DEF CommitCreate, ExecutionInv, DownIsQuiet
    <3> QED
      BY <2>2, <3>1, <3>2, InsertStep DEF CommitCreate, recovery
  <2>3. ASSUME NEW c \in Clients, NEW p \in Runs, CheckReview(c, p)
        PROVE  ExecutionInv'
    <3>1. DownIsQuiet'
      BY <2>3 DEF CheckReview, DownIsQuiet
    <3> QED
      BY <2>3, <3>1, QuietStep DEF CheckReview, recovery
  <2>4. ASSUME NEW c \in Clients, NEW child \in Runs, CommitReview(c, child)
        PROVE  ExecutionInv'
    <3>1. JobOf[child] \in Jobs
      BY PipelineAssumptions
    <3>2. DownIsQuiet'
      BY <2>4 DEF CommitReview, ExecutionInv, DownIsQuiet
    <3>3. {child} \in SUBSET {r \in Runs : status[r] = "ABSENT"}
      BY <2>4 DEF CommitReview
    <3> QED
      BY <2>4, <3>1, <3>2, <3>3, InsertStep DEF CommitReview, recovery
  <2>5. ASSUME NEW c \in Clients, RejectRequest(c)
        PROVE  ExecutionInv'
    <3>1. DownIsQuiet'
      BY <2>5 DEF RejectRequest, ExecutionInv, DownIsQuiet, TypeOK, dispatcher,
         workers
    <3> QED
      BY <2>5, <3>1, QuietStep DEF RejectRequest, recovery
  <2>6. ASSUME NEW c \in Clients, NEW r \in Runs, Dispatch(c, r)
        PROVE  ExecutionInv'
    <3>1. DownIsQuiet'
      BY <2>6 DEF Dispatch, ExecutionInv, DownIsQuiet
    <3> QED
      BY <2>6, <3>1, QuietStep DEF Dispatch, recovery
  <2>7. ASSUME NEW w \in Workers, Take(w)
        PROVE  ExecutionInv'
    <3>1. phase # "down" /\ phase' = phase
      BY <2>7 DEF Take, WorkerStep, ExecutionInv, DownIsQuiet
    <3>2. wpc[w] = "idle" /\ wpc' = [wpc EXCEPT ![w] = "claim"]
      BY <2>7 DEF Take, WorkerStep
    <3>3. wrun' = [wrun EXCEPT ![w] = Head(queue)]
          /\ UNCHANGED <<status, quality, wquality, recStale>>
      BY <2>7 DEF Take, WorkerStep, recovery
    <3>4. OwnedRunIsClaimed' /\ ExclusiveExecution'
      BY <3>2, <3>3 DEF ExecutionInv, OwnedRunIsClaimed, ExclusiveExecution,
         Owns, TypeOK, OwnerSteps, TrySteps, Target
    <3>5. StageAgrees'
      BY <3>2, <3>3 DEF ExecutionInv, StageAgrees, TypeOK, StageAt
    <3>6. MeasuredOnce' /\ CompletedHasEarnedResult'
      BY <3>2, <3>3 DEF ExecutionInv, MeasuredOnce, CompletedHasEarnedResult,
         TypeOK
    <3>7. RecoveryFailsOnlyLeftovers'
      BY <3>2, <3>3 DEF ExecutionInv, RecoveryFailsOnlyLeftovers, Owns, TypeOK,
         OwnerSteps, TrySteps, Target
    <3> QED
      BY <3>1, <3>4, <3>5, <3>6, <3>7 DEF ExecutionInv, DownIsQuiet
  <2>8. ASSUME NEW w \in Workers, Claim(w)
        PROVE  ExecutionInv'
    <3> DEFINE r == wrun[w]
    <3>1. /\ wpc[w] = "claim" /\ wpc' = [wpc EXCEPT ![w] = "load"]
          /\ status[r] = "QUEUED"
          /\ status' = [status EXCEPT ![r] = "PREPROCESSING"]
          /\ UNCHANGED <<quality, wrun, wquality, recStale, phase>>
      BY <2>8 DEF Claim, WorkerStep, SetRunStatus, recovery
    <3>2. r \in Runs
      BY <3>1 DEF TypeOK
    <3>3. \A v \in Workers : wpc[v] \in OwnerSteps => wrun[v] # r
      BY <3>1 DEF ExecutionInv, OwnedRunIsClaimed
    <3>4. OwnedRunIsClaimed' /\ ExclusiveExecution'
      BY <3>1, <3>2, <3>3 DEF ExecutionInv, OwnedRunIsClaimed,
         ExclusiveExecution, Owns, TypeOK
    <3>5. StageAgrees'
      <4> SUFFICES ASSUME NEW v \in Workers
                   PROVE  StageAgrees!(v)'
        BY DEF StageAgrees
      <4>1. CASE v = w
        BY <3>1, <3>2, <4>1 DEF TypeOK, StageAt
      <4>2. CASE v # w
        BY <3>1, <3>2, <3>3, <4>2 DEF ExecutionInv, StageAgrees, TypeOK,
           StageAt, OwnerSteps, TrySteps, Target
      <4> QED
        BY <4>1, <4>2
    <3>6. MeasuredOnce' /\ CompletedHasEarnedResult'
      BY <3>1, <3>2, <3>3 DEF ExecutionInv, MeasuredOnce,
         CompletedHasEarnedResult, TypeOK, OwnerSteps, TrySteps
    <3>7. RecoveryFailsOnlyLeftovers'
      <4>1. r \notin recStale
        BY <3>1 DEF ExecutionInv, RecoveryFailsOnlyLeftovers,
           StaleActiveStatuses
      <4> QED
        BY <3>1, <3>2, <4>1 DEF ExecutionInv, RecoveryFailsOnlyLeftovers, Owns,
           TypeOK
    <3>8. DownIsQuiet'
      BY <3>1 DEF ExecutionInv, DownIsQuiet
    <3> QED
      BY <3>4, <3>5, <3>6, <3>7, <3>8 DEF ExecutionInv
  <2>9. ASSUME NEW w \in Workers,
               ClaimRefused(w) \/ ClaimRaises(w) \/ InputsMissing(w)
                 \/ ReadBack(w) \/ FailureNotRecorded(w)
        PROVE  ExecutionInv'
    <3>1. /\ wpc' = [wpc EXCEPT ![w] = "release"]
          /\ wpc[w] # "idle"
          /\ UNCHANGED <<status, quality, wrun, wquality, recStale, phase>>
      BY <2>9 DEF ClaimRefused, ClaimRaises, InputsMissing, ReadBack,
         FailureNotRecorded, WorkerStep, recovery
    <3>2. "release" \in WorkerSteps \ (OwnerSteps \cup DOMAIN StageAt \cup {"save"})
      BY DEF WorkerSteps, OwnerSteps, TrySteps, Target, StageAt
    <3> QED
      BY <3>1, <3>2, LetGoStep
  <2>10. ASSUME NEW w \in Workers, LoadInputs(w)
         PROVE  ExecutionInv'
    <3>1. /\ wpc[w] = "load"
          /\ wpc' = [wpc EXCEPT ![w] = "segment"]
          /\ UNCHANGED <<status, quality, wrun, wquality, recStale, phase>>
      BY <2>10 DEF LoadInputs, WorkerStep, recovery
    <3>2. OwnedRunIsClaimed' /\ ExclusiveExecution' /\ DownIsQuiet'
      BY <3>1 DEF ExecutionInv, OwnedRunIsClaimed, ExclusiveExecution, Owns,
         TypeOK, OwnerSteps, DownIsQuiet
    <3>3. StageAgrees' /\ MeasuredOnce' /\ CompletedHasEarnedResult'
      BY <3>1 DEF ExecutionInv, StageAgrees, TypeOK, StageAt, MeasuredOnce,
         CompletedHasEarnedResult
    <3>4. RecoveryFailsOnlyLeftovers'
      BY <3>1 DEF ExecutionInv, RecoveryFailsOnlyLeftovers, Owns, TypeOK,
         OwnerSteps
    <3> QED
      BY <3>2, <3>3, <3>4 DEF ExecutionInv
  <2>11. ASSUME NEW w \in Workers, NEW step \in DOMAIN Target,
                Advance(w, step)
         PROVE  ExecutionInv'
    <3>1. /\ wpc[w] = step
          /\ wpc' = [wpc EXCEPT ![w] = After[step]]
          /\ status' = [status EXCEPT ![wrun[w]] = Target[step]]
          /\ UNCHANGED <<quality, wrun, wquality, recStale, phase>>
      BY <2>11 DEF Advance, WorkerStep, SetRunStatus, recovery
    <3>2. wrun[w] \in Runs
      BY <3>1 DEF TypeOK, Target
    <3>3. step \in OwnerSteps /\ After[step] \in WorkerSteps
      BY DEF Target, After, WorkerSteps, OwnerSteps, TrySteps
    <3>4. Target[step] \in RunStatuses \ {"QUEUED"}
          /\ Target[step] \notin TerminalStatuses
      BY DEF Target
    <3>5. After[step] \in DOMAIN StageAt => Target[step] = StageAt[After[step]]
      BY DEF Target, After, StageAt
    <3>6. After[step] \in {"aggregate", "finish"} =>
            wquality[w] # "NONE" /\ wquality[w] = quality[wrun[w]]
      BY <3>1 DEF Target, After, ExecutionInv, StageAgrees
    <3>7. step \in DOMAIN StageAt /\ status[wrun[w]] = StageAt[step]
      BY <3>1 DEF Target, StageAt, ExecutionInv, StageAgrees
    <3>8. step # "aggregate" => quality[wrun[w]] = "NONE"
      BY <3>2, <3>7 DEF StageAt, Target, ExecutionInv, MeasuredOnce
    <3>9. Target[step] \in {"ANALYZING", "AGGREGATING"} \/ quality[wrun[w]] = "NONE"
      BY <3>8 DEF Target
    <3>10. After[step] = "save" => quality[wrun[w]] = "NONE"
      BY <3>8 DEF Target, After
    <3> QED
      BY <3>1, <3>3, <3>4, <3>5, <3>6, <3>9, <3>10, OwnerMoves
  <2>12. ASSUME NEW w \in Workers, NEW q \in QualityVerdicts, SaveResult(w, q)
         PROVE  ExecutionInv'
    <3> DEFINE r == wrun[w]
    <3>1. /\ wpc[w] = "save" /\ wpc' = [wpc EXCEPT ![w] = "aggregate"]
          /\ quality' = [quality EXCEPT ![r] = q]
          /\ wquality' = [wquality EXCEPT ![w] = q]
          /\ UNCHANGED <<status, wrun, recStale, phase>>
      BY <2>12 DEF SaveResult, WorkerStep, recovery
    <3>2. r \in Runs /\ status[r] = "ANALYZING"
      BY <3>1 DEF TypeOK, ExecutionInv, StageAgrees, StageAt
    <3>3. \A v \in Workers : v # w /\ wpc[v] \in OwnerSteps => wrun[v] # r
      BY <3>1, <3>2 DEF ExecutionInv, ExclusiveExecution, Owns, OwnerSteps,
         TrySteps
    <3>4. OwnedRunIsClaimed' /\ ExclusiveExecution' /\ DownIsQuiet'
      BY <3>1 DEF ExecutionInv, OwnedRunIsClaimed, ExclusiveExecution, Owns,
         TypeOK, OwnerSteps, TrySteps, DownIsQuiet
    <3>5. StageAgrees'
      <4> SUFFICES ASSUME NEW v \in Workers
                   PROVE  StageAgrees!(v)'
        BY DEF StageAgrees
      <4>1. CASE v = w
        BY <3>1, <3>2, <4>1 DEF TypeOK, StageAt, QualityVerdicts
      <4>2. CASE v # w
        BY <3>1, <3>2, <3>3, <4>2 DEF ExecutionInv, StageAgrees, TypeOK,
           StageAt, OwnerSteps, TrySteps, Target
      <4> QED
        BY <4>1, <4>2
    <3>6. MeasuredOnce' /\ CompletedHasEarnedResult'
      BY <3>1, <3>2, <3>3 DEF ExecutionInv, MeasuredOnce,
         CompletedHasEarnedResult, TypeOK, OwnerSteps, TrySteps
    <3>7. RecoveryFailsOnlyLeftovers'
      BY <3>1 DEF ExecutionInv, RecoveryFailsOnlyLeftovers, Owns, TypeOK,
         OwnerSteps, TrySteps
    <3> QED
      BY <3>4, <3>5, <3>6, <3>7 DEF ExecutionInv
  <2>13. ASSUME NEW w \in Workers, Finish(w)
         PROVE  ExecutionInv'
    <3> DEFINE s == EarnedStatus(wquality[w])
    <3>1. /\ wpc[w] = "finish"
          /\ wpc' = [wpc EXCEPT ![w] = "readback"]
          /\ status' = [status EXCEPT ![wrun[w]] = s]
          /\ UNCHANGED <<quality, wrun, wquality, recStale, phase>>
      BY <2>13 DEF Finish, WorkerStep, SetRunStatus, recovery
    <3>2. "finish" \in OwnerSteps /\ "readback" \in WorkerSteps
          /\ "readback" \notin DOMAIN StageAt
      BY DEF WorkerSteps, OwnerSteps, TrySteps, StageAt
    <3>3. wquality[w] # "NONE" /\ wquality[w] = quality[wrun[w]]
      BY <3>1 DEF ExecutionInv, StageAgrees
    <3>4. s \in TerminalStatuses
      BY DEF EarnedStatus
    <3> QED
      BY <3>1, <3>2, <3>3, <3>4, OwnerMoves
  <2>14. ASSUME NEW w \in Workers, WorkRaises(w)
         PROVE  ExecutionInv'
    <3>1. /\ wpc' = [wpc EXCEPT ![w] = "fail"]
          /\ wpc[w] \in TrySteps
          /\ UNCHANGED <<status, quality, wrun, wquality, recStale, phase>>
      BY <2>14 DEF WorkRaises, WorkerStep, recovery
    <3>2. "fail" \in WorkerSteps \ (DOMAIN StageAt \cup {"save"})
      BY DEF WorkerSteps, OwnerSteps, TrySteps, Target, StageAt
    <3>3. wpc[w] \in OwnerSteps /\ wpc[w] # "idle"
      BY <3>1 DEF OwnerSteps, TrySteps, Target
    <3> QED
      BY <3>1, <3>2, <3>3, LetGoStep
  <2>15. ASSUME NEW w \in Workers, RecordFailure(w)
         PROVE  ExecutionInv'
    <3>1. /\ wpc[w] = "fail"
          /\ wpc' = [wpc EXCEPT ![w] = "release"]
          /\ UNCHANGED <<quality, wrun, wquality, recStale, phase>>
      BY <2>15 DEF RecordFailure, WorkerStep, SetRunStatus, recovery
    <3>2. /\ "fail" \in OwnerSteps
          /\ "release" \in WorkerSteps
          /\ "release" \notin OwnerSteps \cup DOMAIN StageAt \cup {"save"}
      BY DEF WorkerSteps, OwnerSteps, TrySteps, Target, StageAt
    <3>3. CASE status[wrun[w]] \in TerminalStatuses
      <4>1. UNCHANGED status
        BY <2>15, <3>3 DEF RecordFailure
      <4> QED
        BY <3>1, <3>2, <4>1, LetGoStep
    <3>4. CASE status[wrun[w]] \notin TerminalStatuses
      <4>1. status' = [status EXCEPT ![wrun[w]] = "FAILED"]
        BY <2>15, <3>4 DEF RecordFailure, SetRunStatus
      <4> QED
        BY <3>1, <3>2, <4>1, OwnerMoves
    <3> QED
      BY <3>3, <3>4
  <2>16. ASSUME NEW w \in Workers, Release(w)
         PROVE  ExecutionInv'
    <3>1. /\ wpc[w] = "release"
          /\ wpc' = [wpc EXCEPT ![w] = "idle"]
          /\ wrun' = [wrun EXCEPT ![w] = NoRun]
          /\ wquality' = [wquality EXCEPT ![w] = "NONE"]
          /\ UNCHANGED <<status, quality, recStale, phase, queue, snapshot, cpc>>
      BY <2>16 DEF Release, WorkerStep, recovery, clients
    <3>2. "idle" \notin OwnerSteps \cup DOMAIN StageAt
      BY DEF OwnerSteps, TrySteps, Target, StageAt
    <3>3. OwnedRunIsClaimed' /\ ExclusiveExecution' /\ DownIsQuiet'
      BY <3>1, <3>2 DEF ExecutionInv, OwnedRunIsClaimed, ExclusiveExecution,
         Owns, TypeOK, DownIsQuiet
    <3>4. StageAgrees' /\ MeasuredOnce' /\ CompletedHasEarnedResult'
      BY <3>1, <3>2 DEF ExecutionInv, StageAgrees, TypeOK, MeasuredOnce,
         CompletedHasEarnedResult
    <3>5. RecoveryFailsOnlyLeftovers'
      BY <3>1, <3>2 DEF ExecutionInv, RecoveryFailsOnlyLeftovers, Owns, TypeOK
    <3> QED
      BY <3>3, <3>4, <3>5 DEF ExecutionInv
  <2>17. ASSUME SchedulerPoll
         PROVE  ExecutionInv'
    <3>1. DownIsQuiet'
      BY <2>17 DEF SchedulerPoll, DownIsQuiet
    <3> QED
      BY <2>17, <3>1, QuietStep DEF SchedulerPoll, recovery
  <2>18. ASSUME NEW r \in Runs, SchedulerSubmit(r)
         PROVE  ExecutionInv'
    <3>1. DownIsQuiet'
      BY <2>18 DEF SchedulerSubmit, ExecutionInv, DownIsQuiet
    <3> QED
      BY <2>18, <3>1, QuietStep DEF SchedulerSubmit, recovery
  <2>19. ASSUME Crash
         PROVE  ExecutionInv'
    <3>1. /\ wpc' = [w \in Workers |-> "idle"]
          /\ wrun' = [w \in Workers |-> NoRun]
          /\ recStale' = {} /\ queue' = <<>> /\ snapshot' = {}
          /\ cpc' = [c \in Clients |-> "idle"]
          /\ UNCHANGED <<status, quality>>
      BY <2>19 DEF Crash
    <3>2. "idle" \notin OwnerSteps \cup DOMAIN StageAt
      BY DEF OwnerSteps, TrySteps, Target, StageAt
    <3>3. OwnedRunIsClaimed' /\ ExclusiveExecution' /\ DownIsQuiet'
      BY <3>1, <3>2 DEF OwnedRunIsClaimed, ExclusiveExecution, Owns, DownIsQuiet
    <3>4. StageAgrees' /\ MeasuredOnce' /\ CompletedHasEarnedResult'
      BY <3>1, <3>2 DEF ExecutionInv, StageAgrees, MeasuredOnce,
         CompletedHasEarnedResult
    <3> QED
      BY <3>1, <3>3, <3>4 DEF ExecutionInv, RecoveryFailsOnlyLeftovers
  <2>20. ASSUME Start
         PROVE  ExecutionInv'
    <3>1. /\ \A w \in Workers : wpc[w] = "idle"
          /\ recStale' = Rows(StaleActiveStatuses)
          /\ phase' = "recovering"
          /\ UNCHANGED <<status, quality, wpc, wrun, wquality>>
      BY <2>20 DEF Start, ExecutionInv, DownIsQuiet, workers
    <3>2. RecoveryFailsOnlyLeftovers'
      BY <3>1 DEF RecoveryFailsOnlyLeftovers, Owns, Rows, OwnerSteps, TrySteps,
         Target
    <3> QED
      BY <3>1, <3>2 DEF ExecutionInv, OwnedRunIsClaimed, ExclusiveExecution,
         StageAgrees, MeasuredOnce, CompletedHasEarnedResult, DownIsQuiet, Owns
  <2>21. ASSUME NEW r \in Runs, RecoverSubmit(r)
         PROVE  ExecutionInv'
    <3>1. DownIsQuiet'
      BY <2>21 DEF RecoverSubmit, DownIsQuiet
    <3> QED
      BY <2>21, <3>1, QuietStep DEF RecoverSubmit
  <2>22. ASSUME NEW r \in Runs, RecoverFail(r)
         PROVE  ExecutionInv'
    <3>1. /\ status[r] \in StaleActiveStatuses
          /\ \A w \in Workers : wpc[w] \in OwnerSteps => wrun[w] # r
      BY <2>22 DEF RecoverFail, ExecutionInv, RecoveryFailsOnlyLeftovers, Owns
    <3>2. /\ status' = [status EXCEPT ![r] = "FAILED"]
          /\ recStale' = recStale \ {r}
          /\ phase' = "recovering"
          /\ UNCHANGED <<quality, wpc, wrun, wquality>>
      BY <2>22, <3>1 DEF RecoverFail, SetRunStatus, StaleActiveStatuses, workers
    <3>3. OwnedRunIsClaimed' /\ ExclusiveExecution' /\ DownIsQuiet'
      BY <3>1, <3>2 DEF ExecutionInv, OwnedRunIsClaimed, ExclusiveExecution,
         Owns, TypeOK, DownIsQuiet
    <3>4. StageAgrees'
      <4> SUFFICES ASSUME NEW v \in Workers
                   PROVE  StageAgrees!(v)'
        BY DEF StageAgrees
      <4> QED
        BY <3>1, <3>2 DEF ExecutionInv, StageAgrees, TypeOK, StageAt,
           OwnerSteps, TrySteps, Target
    <3>5. MeasuredOnce' /\ CompletedHasEarnedResult'
      BY <3>1, <3>2 DEF ExecutionInv, MeasuredOnce, CompletedHasEarnedResult,
         TypeOK
    <3>6. RecoveryFailsOnlyLeftovers'
      BY <3>1, <3>2 DEF ExecutionInv, RecoveryFailsOnlyLeftovers, Owns, TypeOK
    <3> QED
      BY <3>3, <3>4, <3>5, <3>6 DEF ExecutionInv
  <2>23. ASSUME NEW r \in Runs, RecoverFailRaises(r)
         PROVE  ExecutionInv'
    <3>1. DownIsQuiet'
      BY <2>23 DEF RecoverFailRaises, DownIsQuiet
    <3> QED
      BY <2>23, <3>1, QuietStep DEF RecoverFailRaises
  <2>24. ASSUME Serve
         PROVE  ExecutionInv'
    <3>1. DownIsQuiet'
      BY <2>24 DEF Serve, DownIsQuiet
    <3> QED
      BY <2>24, <3>1, QuietStep DEF Serve, recovery
  <2>25. ASSUME UNCHANGED vars
         PROVE  ExecutionInv'
    <3>1. DownIsQuiet'
      BY <2>25 DEF vars, ExecutionInv, DownIsQuiet, dispatcher, workers, clients
    <3> QED
      BY <2>25, <3>1, QuietStep DEF vars, recovery
  <2> QED
    BY <2>1, <2>2, <2>3, <2>4, <2>5, <2>6, <2>7, <2>8, <2>9, <2>10, <2>11,
       <2>12, <2>13, <2>14, <2>15, <2>16, <2>17, <2>18, <2>19, <2>20, <2>21,
       <2>22, <2>23, <2>24, <2>25
    DEF Next, ClientNext, WorkerProgress, WorkerFault, SchedulerNext,
        RecoveryNext
<1> QED
  BY <1>1, <1>2, TypeCorrect, PTL DEF Spec

\* The durable status of an executed run is the stage its worker is in.
THEOREM StageTheorem == Spec => []StageAgrees
BY ExecutionCorrect, PTL DEF ExecutionInv

\* No run is ever executed by two workers.
THEOREM ExclusionTheorem == Spec => []ExclusiveExecution
BY ExecutionCorrect, PTL DEF ExecutionInv

\* A completed run has the measurement that earns its status.
THEOREM ResultTheorem == Spec => []CompletedHasEarnedResult
BY ExecutionCorrect, PTL DEF ExecutionInv

\* Startup recovery never fails a run that a worker executes.
THEOREM LeftoverTheorem == Spec => []RecoveryFailsOnlyLeftovers
BY ExecutionCorrect, PTL DEF ExecutionInv

-----------------------------------------------------------------------------
(* What a step can do to the database.                                     *)

InsertEffect ==
  \E j \in Jobs : \E S \in SUBSET RunsOf(j) :
    /\ S # {}
    /\ \A r \in S : status[r] = "ABSENT"
    /\ InsertQueued(S, j)
    /\ UNCHANGED quality

MoveEffect ==
  \E r \in Runs, s \in RunStatuses :
    /\ status[r] # "ABSENT"
    /\ s \in AllowedTransitions[status[r]]
    /\ s \in TerminalStatuses \ {"FAILED"} =>
         quality[r] # "NONE" /\ s = EarnedStatus(quality[r])
    /\ SetRunStatus(r, s)
    /\ UNCHANGED quality

MeasureEffect ==
  \E r \in Runs, q \in QualityVerdicts :
    /\ status[r] = "ANALYZING"
    /\ quality[r] = "NONE"
    /\ quality' = [quality EXCEPT ![r] = q]
    /\ UNCHANGED <<status, trail, jobStatus>>

NoEffect == UNCHANGED <<status, trail, jobStatus, quality>>

DatabaseEffect == InsertEffect \/ MoveEffect \/ MeasureEffect \/ NoEffect

\* Whatever the step, whoever takes it: the database gains queued rows, one run
\* moves along the transition table, one measurement is saved, or nothing
\* changes.
LEMMA StepEffect ==
  ASSUME TypeOK, ExecutionInv, [Next]_vars
  PROVE  DatabaseEffect
<1> USE DEF database
<1>1. ASSUME NEW c \in Clients, CommitCreate(c)
      PROVE  InsertEffect
  <2>1. ctarget[c] \in Jobs
    BY <1>1 DEF CommitCreate, TypeOK
  <2> QED
    BY <1>1, <2>1 DEF CommitCreate, InsertEffect
<1>2. ASSUME NEW c \in Clients, NEW child \in Runs, CommitReview(c, child)
      PROVE  InsertEffect
  <2>1. JobOf[child] \in Jobs /\ {child} \in SUBSET RunsOf(JobOf[child])
    BY PipelineAssumptions DEF RunsOf
  <2>2. InsertQueued({child}, JobOf[child]) /\ UNCHANGED quality
        /\ status[child] = "ABSENT"
    BY <1>2 DEF CommitReview
  <2> QED
    BY <2>1, <2>2 DEF InsertEffect
<1>3. ASSUME NEW w \in Workers, Claim(w)
      PROVE  MoveEffect
  <2>1. wrun[w] \in Runs /\ status[wrun[w]] = "QUEUED"
    BY <1>3 DEF Claim, WorkerStep, TypeOK
  <2> QED
    BY <1>3, <2>1 DEF Claim, MoveEffect, AllowedTransitions
<1>4. ASSUME NEW w \in Workers, NEW step \in DOMAIN Target, Advance(w, step)
      PROVE  MoveEffect
  <2>1. wpc[w] = step /\ step # "idle" /\ step \in OwnerSteps
    BY <1>4 DEF Advance, WorkerStep, Target, OwnerSteps, TrySteps
  <2>2. wrun[w] \in Runs /\ status[wrun[w]] # "ABSENT"
    BY <2>1 DEF TypeOK, ExecutionInv, OwnedRunIsClaimed
  <2>3. Target[step] \in RunStatuses \ TerminalStatuses
    BY DEF Target
  <2> QED
    BY <1>4, <2>2, <2>3 DEF Advance, MoveEffect
<1>5. ASSUME NEW w \in Workers, NEW q \in QualityVerdicts, SaveResult(w, q)
      PROVE  MeasureEffect
  <2>1. wpc[w] = "save"
    BY <1>5 DEF SaveResult, WorkerStep
  <2>2. /\ wrun[w] \in Runs /\ status[wrun[w]] = "ANALYZING"
        /\ quality[wrun[w]] = "NONE"
    BY <2>1 DEF TypeOK, ExecutionInv, StageAgrees, StageAt, MeasuredOnce
  <2> QED
    BY <1>5, <2>2 DEF SaveResult, MeasureEffect
<1>6. ASSUME NEW w \in Workers, Finish(w)
      PROVE  MoveEffect
  <2>1. wpc[w] = "finish"
    BY <1>6 DEF Finish, WorkerStep
  <2>2. /\ wrun[w] \in Runs /\ status[wrun[w]] = "AGGREGATING"
        /\ wquality[w] # "NONE" /\ wquality[w] = quality[wrun[w]]
    BY <2>1 DEF TypeOK, ExecutionInv, StageAgrees, StageAt
  <2>3. EarnedStatus(wquality[w]) \in RunStatuses
    BY DEF EarnedStatus
  <2> QED
    BY <1>6, <2>2, <2>3 DEF Finish, MoveEffect
<1>7. ASSUME NEW w \in Workers, RecordFailure(w)
      PROVE  MoveEffect \/ NoEffect
  <2>1. CASE status[wrun[w]] \in TerminalStatuses
    BY <1>7, <2>1 DEF RecordFailure, NoEffect
  <2>2. CASE status[wrun[w]] \notin TerminalStatuses
    <3>1. wpc[w] = "fail"
      BY <1>7 DEF RecordFailure, WorkerStep
    <3>2. wrun[w] \in Runs /\ status[wrun[w]] \in ActiveStatuses
      BY <3>1, <2>2 DEF TypeOK, ExecutionInv, OwnedRunIsClaimed, OwnerSteps
    <3>3. "FAILED" \in AllowedTransitions[status[wrun[w]]]
      BY <3>2 DEF AllowedTransitions
    <3>4. SetRunStatus(wrun[w], "FAILED") /\ UNCHANGED quality
      BY <1>7, <2>2 DEF RecordFailure
    <3> QED
      BY <3>2, <3>3, <3>4 DEF MoveEffect
  <2> QED
    BY <2>1, <2>2
<1>8. ASSUME NEW r \in Runs, RecoverFail(r)
      PROVE  MoveEffect
  <2>1. status[r] \in ActiveStatuses
    BY <1>8 DEF RecoverFail, ExecutionInv, RecoveryFailsOnlyLeftovers,
       StaleActiveStatuses
  <2>2. "FAILED" \in AllowedTransitions[status[r]]
    BY <2>1 DEF AllowedTransitions
  <2>3. SetRunStatus(r, "FAILED") /\ UNCHANGED quality
    BY <1>8, <2>1 DEF RecoverFail
  <2> QED
    BY <2>1, <2>2, <2>3 DEF MoveEffect
<1>9. ASSUME \E c \in Clients : \/ \E j \in Jobs : CheckCreate(c, j)
                                \/ \E p \in Runs : CheckReview(c, p)
                                \/ RejectRequest(c)
                                \/ \E r \in Runs : Dispatch(c, r)
      PROVE  NoEffect
  BY <1>9 DEF CheckCreate, CheckReview, RejectRequest, Dispatch, NoEffect
<1>10. ASSUME NEW w \in Workers,
              \/ Take(w) \/ ClaimRefused(w) \/ ClaimRaises(w)
              \/ LoadInputs(w) \/ InputsMissing(w) \/ ReadBack(w)
              \/ WorkRaises(w) \/ FailureNotRecorded(w) \/ Release(w)
       PROVE  NoEffect
  BY <1>10 DEF Take, ClaimRefused, ClaimRaises, LoadInputs, InputsMissing,
     ReadBack, WorkRaises, FailureNotRecorded, Release, NoEffect
<1>11. ASSUME \/ SchedulerNext \/ Start \/ Serve \/ Crash
              \/ \E r \in Runs : RecoverSubmit(r) \/ RecoverFailRaises(r)
       PROVE  NoEffect
  BY <1>11 DEF SchedulerNext, SchedulerPoll, SchedulerSubmit, Start, Serve,
     Crash, RecoverSubmit, RecoverFailRaises, NoEffect
<1>12. ASSUME UNCHANGED vars
       PROVE  NoEffect
  BY <1>12 DEF vars, NoEffect
<1> QED
  BY <1>1, <1>2, <1>3, <1>4, <1>5, <1>6, <1>7, <1>8, <1>9, <1>10, <1>11, <1>12
  DEF DatabaseEffect, Next, ClientNext, WorkerProgress, WorkerFault,
      RecoveryNext

-----------------------------------------------------------------------------
(* Job statuses.                                                           *)

\* Every job's status is, in every reachable state, the aggregate of its runs.
THEOREM JobTheorem == Spec => []JobStatusIsAggregate
<1>1. Init => JobStatusIsAggregate
  <2> SUFFICES ASSUME Init, NEW j \in Jobs
               PROVE  jobStatus[j] = AggregateJobStatus(StatusesOf(status, j))
    BY DEF JobStatusIsAggregate
  <2>1. StatusesOf(status, j) = {}
    BY DEF Init, StatusesOf, RunsOf
  <2> QED
    BY <2>1 DEF Init, AggregateJobStatus
<1>2. TypeOK /\ TypeOK' /\ JobStatusIsAggregate /\ DatabaseEffect
        => JobStatusIsAggregate'
  <2> SUFFICES ASSUME TypeOK, TypeOK', JobStatusIsAggregate, DatabaseEffect,
                      NEW j \in Jobs
               PROVE  jobStatus'[j] = AggregateJobStatus(StatusesOf(status', j))
    BY DEF JobStatusIsAggregate
  <2>1. jobStatus[j] = AggregateJobStatus(StatusesOf(status, j))
    BY DEF JobStatusIsAggregate
  <2>2. CASE InsertEffect
    <3> PICK k \in Jobs :
          \E S \in SUBSET RunsOf(k) : S # {} /\ InsertQueued(S, k)
      BY <2>2 DEF InsertEffect
    <3> PICK S \in SUBSET RunsOf(k) : S # {} /\ InsertQueued(S, k)
      OBVIOUS
    <3>1. CASE j = k
      <4>1. "QUEUED" \in StatusesOf(status', j)
        BY <3>1 DEF InsertQueued, StatusesOf, RunsOf
      <4>2. StatusesOf(status', j) \in SUBSET RunStatuses
        BY DEF StatusesOf, RunsOf, TypeOK
      <4>3. jobStatus'[j] = "QUEUED"
        BY <3>1 DEF InsertQueued, TypeOK
      <4> QED
        BY <4>1, <4>2, <4>3, AggregateQueued
    <3>2. CASE j # k
      <4>1. \A r \in RunsOf(j) : status'[r] = status[r]
        BY <3>2 DEF InsertQueued, RunsOf
      <4>2. StatusesOf(status', j) = StatusesOf(status, j)
        BY <4>1 DEF StatusesOf
      <4>3. jobStatus'[j] = jobStatus[j]
        BY <3>2 DEF InsertQueued, TypeOK
      <4> QED
        BY <2>1, <4>2, <4>3
    <3> QED
      BY <3>1, <3>2
  <2>3. CASE MoveEffect
    <3> PICK r \in Runs, s \in RunStatuses : SetRunStatus(r, s)
      BY <2>3 DEF MoveEffect
    <3>1. CASE j = JobOf[r]
      BY <3>1 DEF SetRunStatus, TypeOK
    <3>2. CASE j # JobOf[r]
      <4>1. \A q \in RunsOf(j) : status'[q] = status[q]
        BY <3>2 DEF SetRunStatus, RunsOf, TypeOK
      <4>2. StatusesOf(status', j) = StatusesOf(status, j)
        BY <4>1 DEF StatusesOf
      <4>3. jobStatus'[j] = jobStatus[j]
        BY <3>2 DEF SetRunStatus, TypeOK
      <4> QED
        BY <2>1, <4>2, <4>3
    <3> QED
      BY <3>1, <3>2
  <2>4. CASE MeasureEffect \/ NoEffect
    BY <2>1, <2>4 DEF MeasureEffect, NoEffect
  <2> QED
    BY <2>2, <2>3, <2>4 DEF DatabaseEffect
<1>3. TypeOK /\ TypeOK' /\ ExecutionInv /\ JobStatusIsAggregate /\ [Next]_vars
        => JobStatusIsAggregate'
  BY <1>2, StepEffect
<1> QED
  BY <1>1, <1>3, TypeCorrect, ExecutionCorrect, PTL DEF Spec

-----------------------------------------------------------------------------
(* The event trail.                                                        *)

\* The trail of a run is its whole history: it starts with QUEUED, obeys the
\* transition table at every step and ends with the run's status.
THEOREM TrailTheorem == Spec => []TrailIsHistory
<1>1. Init => TrailIsHistory
  BY DEF Init, TrailIsHistory
<1>2. TypeOK /\ TypeOK' /\ TrailIsHistory /\ DatabaseEffect => TrailIsHistory'
  <2> SUFFICES ASSUME TypeOK, TypeOK', TrailIsHistory, DatabaseEffect,
                      NEW r \in Runs
               PROVE  TrailIsHistory!(r)'
    BY DEF TrailIsHistory
  <2>1. TrailIsHistory!(r)
    BY DEF TrailIsHistory
  <2>2. CASE InsertEffect
    <3> PICK j \in Jobs :
          \E S \in SUBSET RunsOf(j) :
            (\A q \in S : status[q] = "ABSENT") /\ InsertQueued(S, j)
      BY <2>2 DEF InsertEffect
    <3> PICK S \in SUBSET RunsOf(j) :
          (\A q \in S : status[q] = "ABSENT") /\ InsertQueued(S, j)
      OBVIOUS
    <3>1. CASE r \in S
      <4>1. status'[r] = "QUEUED" /\ trail'[r] = <<"QUEUED">>
        BY <3>1 DEF InsertQueued
      <4> QED
        BY <4>1
    <3>2. CASE r \notin S
      <4>1. status'[r] = status[r] /\ trail'[r] = trail[r]
        BY <3>2 DEF InsertQueued
      <4> QED
        BY <2>1, <4>1
    <3> QED
      BY <3>1, <3>2
  <2>3. CASE MoveEffect
    <3> PICK q \in Runs, s \in RunStatuses :
          /\ status[q] # "ABSENT"
          /\ s \in AllowedTransitions[status[q]]
          /\ SetRunStatus(q, s)
      BY <2>3 DEF MoveEffect
    <3>1. CASE r = q
      <4> DEFINE t == trail[r]
      <4>1. t \in Seq(RunStatuses) /\ Len(t) \in Nat \ {0}
        BY <2>1, <3>1 DEF TypeOK
      <4>2. t[1] = "QUEUED" /\ t[Len(t)] = status[r]
        BY <2>1, <3>1
      <4>3. status'[r] = s /\ trail'[r] = Append(t, s)
        BY <3>1 DEF SetRunStatus, TypeOK
      <4>4. Len(Append(t, s)) = Len(t) + 1 /\ Append(t, s)[Len(t) + 1] = s
            /\ \A i \in 1..Len(t) : Append(t, s)[i] = t[i]
        BY <4>1
      <4>5. \A i \in 1..Len(t) :
              Append(t, s)[i + 1] \in AllowedTransitions[Append(t, s)[i]]
        <5> SUFFICES ASSUME NEW i \in 1..Len(t)
                     PROVE  Append(t, s)[i + 1]
                              \in AllowedTransitions[Append(t, s)[i]]
          OBVIOUS
        <5>1. CASE i = Len(t)
          BY <3>1, <4>1, <4>2, <4>4, <5>1
        <5>2. CASE i # Len(t)
          <6>1. i \in 1..(Len(t) - 1) /\ i + 1 \in 1..Len(t)
            BY <4>1, <5>2
          <6>2. t[i + 1] \in AllowedTransitions[t[i]]
            BY <2>1, <3>1, <6>1
          <6> QED
            BY <4>4, <6>1, <6>2
        <5> QED
          BY <5>1, <5>2
      <4>6. s # "ABSENT"
        OBVIOUS
      <4> QED
        BY <4>1, <4>2, <4>3, <4>4, <4>5, <4>6
    <3>2. CASE r # q
      <4>1. status'[r] = status[r] /\ trail'[r] = trail[r]
        BY <3>2 DEF SetRunStatus, TypeOK
      <4> QED
        BY <2>1, <4>1
    <3> QED
      BY <3>1, <3>2
  <2>4. CASE MeasureEffect \/ NoEffect
    BY <2>1, <2>4 DEF MeasureEffect, NoEffect
  <2> QED
    BY <2>2, <2>3, <2>4 DEF DatabaseEffect
<1>3. TypeOK /\ TypeOK' /\ ExecutionInv /\ TrailIsHistory /\ [Next]_vars
        => TrailIsHistory'
  BY <1>2, StepEffect
<1> QED
  BY <1>1, <1>3, TypeCorrect, ExecutionCorrect, PTL DEF Spec

-----------------------------------------------------------------------------
(* Reviews.                                                                *)

\* A terminal status never changes again.
LEMMA TerminalIsFinal ==
  ASSUME TypeOK, DatabaseEffect, NEW r \in Runs, status[r] \in TerminalStatuses
  PROVE  status'[r] = status[r]
<1>1. CASE InsertEffect
  BY <1>1 DEF InsertEffect, InsertQueued
<1>2. CASE MoveEffect
  <2> PICK q \in Runs, s \in RunStatuses :
        s \in AllowedTransitions[status[q]] /\ SetRunStatus(q, s)
    BY <1>2 DEF MoveEffect
  <2>1. q # r
    BY DEF AllowedTransitions
  <2> QED
    BY <2>1 DEF SetRunStatus, TypeOK
<1>3. CASE MeasureEffect \/ NoEffect
  BY <1>3 DEF MeasureEffect, NoEffect
<1> QED
  BY <1>1, <1>2, <1>3 DEF DatabaseEffect

\* What a request handler saw in its first transaction still holds in its
\* second one.
ReviewInv ==
  /\ ReviewedParentIsFinal
  /\ \A c \in Clients :
       cpc[c] = "review" => status[ctarget[c]] \in TerminalStatuses

\* The parent of a review run has finished, and stays what it was, although the
\* transaction that inserts the review does not look at it again.
THEOREM ReviewTheorem == Spec => []ReviewedParentIsFinal
<1>1. Init => ReviewInv
  BY DEF Init, ReviewInv, ReviewedParentIsFinal
<1>2. TypeOK /\ TypeOK' /\ DatabaseEffect /\ ReviewInv /\ [Next]_vars
        => ReviewInv'
  <2> SUFFICES ASSUME TypeOK, TypeOK', DatabaseEffect, ReviewInv, [Next]_vars
               PROVE  ReviewInv'
    OBVIOUS
  <2> USE DEF database, clients
  <2>1. \A r \in Runs : status[r] \in TerminalStatuses => status'[r] = status[r]
    BY TerminalIsFinal
  <2>2. ASSUME parent' = parent
        PROVE  ReviewedParentIsFinal'
    <3> SUFFICES ASSUME NEW r \in Runs, parent[r] # NoRun
                 PROVE  status'[parent[r]] \in TerminalStatuses
                        /\ JobOf[parent[r]] = JobOf[r]
      BY <2>2 DEF ReviewedParentIsFinal
    <3>1. parent[r] \in Runs
      BY DEF TypeOK
    <3> QED
      BY <2>1, <3>1 DEF ReviewInv, ReviewedParentIsFinal
  <2>3. ASSUME NEW c \in Clients, cpc'[c] = "review",
               cpc[c] = "review", ctarget'[c] = ctarget[c]
        PROVE  status'[ctarget'[c]] \in TerminalStatuses
    BY <2>1, <2>3 DEF ReviewInv, TypeOK
  <2>4. ASSUME NEW c \in Clients, NEW child \in Runs, CommitReview(c, child)
        PROVE  ReviewInv'
    <3>1. /\ cpc[c] = "review" /\ cpc' = [cpc EXCEPT ![c] = "dispatch"]
          /\ ctarget' = ctarget
          /\ parent' = [parent EXCEPT ![child] = ctarget[c]]
          /\ JobOf[child] = JobOf[ctarget[c]]
      BY <2>4 DEF CommitReview
    <3>2. ctarget[c] \in Runs /\ status'[ctarget[c]] \in TerminalStatuses
      BY <2>1, <3>1 DEF TypeOK, ReviewInv
    <3>3. ReviewedParentIsFinal'
      <4> SUFFICES ASSUME NEW r \in Runs, parent'[r] # NoRun
                   PROVE  status'[parent'[r]] \in TerminalStatuses
                          /\ JobOf[parent'[r]] = JobOf[r]
        BY DEF ReviewedParentIsFinal
      <4>1. CASE r = child
        BY <3>1, <3>2, <4>1 DEF TypeOK
      <4>2. CASE r # child
        <5>1. parent'[r] = parent[r] /\ parent[r] \in Runs
          BY <3>1, <4>2 DEF TypeOK
        <5> QED
          BY <2>1, <5>1 DEF ReviewInv, ReviewedParentIsFinal
      <4> QED
        BY <4>1, <4>2
    <3>4. \A d \in Clients : cpc'[d] = "review" =>
            cpc[d] = "review" /\ ctarget'[d] = ctarget[d]
      BY <3>1 DEF TypeOK
    <3> QED
      BY <2>3, <3>3, <3>4 DEF ReviewInv
  <2>5. ASSUME NEW c \in Clients, NEW p \in Runs, CheckReview(c, p)
        PROVE  ReviewInv'
    <3>1. parent' = parent /\ status' = status
      BY <2>5 DEF CheckReview
    <3>2. \A d \in Clients : cpc'[d] = "review" =>
            status'[ctarget'[d]] \in TerminalStatuses
      BY <2>5, <3>1 DEF CheckReview, ReviewInv, TypeOK
    <3> QED
      BY <2>2, <3>1, <3>2 DEF ReviewInv
  <2>6. ASSUME parent' = parent,
               \A d \in Clients : cpc'[d] = "review" =>
                 cpc[d] = "review" /\ ctarget'[d] = ctarget[d]
        PROVE  ReviewInv'
    BY <2>2, <2>3, <2>6 DEF ReviewInv
  <2>7. ASSUME NEW c \in Clients,
               \/ \E j \in Jobs : CheckCreate(c, j)
               \/ CommitCreate(c)
               \/ RejectRequest(c)
               \/ \E r \in Runs : Dispatch(c, r)
        PROVE  ReviewInv'
    <3>1. parent' = parent
      BY <2>7 DEF CheckCreate, CommitCreate, RejectRequest, Dispatch
    <3>2. \A d \in Clients : cpc'[d] = "review" =>
            cpc[d] = "review" /\ ctarget'[d] = ctarget[d]
      BY <2>7 DEF CheckCreate, CommitCreate, RejectRequest, Dispatch, TypeOK
    <3> QED
      BY <2>6, <3>1, <3>2
  <2>8. ASSUME NEW w \in Workers, WorkerProgress(w) \/ WorkerFault(w)
        PROVE  ReviewInv'
    <3>1. UNCHANGED <<parent, cpc, ctarget>>
      BY <2>8 DEF WorkerProgress, WorkerFault, Take, Claim, ClaimRefused,
         ClaimRaises, LoadInputs, InputsMissing, Advance, SaveResult, Finish,
         ReadBack, WorkRaises, RecordFailure, FailureNotRecorded, Release,
         WorkerStep
    <3> QED
      BY <2>6, <3>1
  <2>9. ASSUME \/ SchedulerNext \/ RecoveryNext
               \/ \E r \in Runs : RecoverFailRaises(r)
        PROVE  ReviewInv'
    <3>1. UNCHANGED <<parent, cpc, ctarget>>
      BY <2>9 DEF SchedulerNext, SchedulerPoll, SchedulerSubmit, RecoveryNext,
         Start, RecoverSubmit, RecoverFail, RecoverFailRaises, Serve
    <3> QED
      BY <2>6, <3>1
  <2>10. ASSUME Crash
         PROVE  ReviewInv'
    <3>1. parent' = parent /\ \A d \in Clients : cpc'[d] # "review"
      BY <2>10 DEF Crash
    <3> QED
      BY <2>6, <3>1
  <2>11. ASSUME UNCHANGED vars
         PROVE  ReviewInv'
    BY <2>6, <2>11 DEF vars
  <2> QED
    BY <2>4, <2>5, <2>7, <2>8, <2>9, <2>10, <2>11 DEF Next, ClientNext
<1>3. TypeOK /\ TypeOK' /\ ExecutionInv /\ ReviewInv /\ [Next]_vars
        => ReviewInv'
  BY <1>2, StepEffect
<1>4. Spec => []ReviewInv
  BY <1>1, <1>3, TypeCorrect, ExecutionCorrect, PTL DEF Spec
<1> QED
  BY <1>4, PTL DEF ReviewInv

-----------------------------------------------------------------------------
(* Refinement.                                                             *)

\* The ledger derives job statuses the same way.
LEMMA LedgerAggregate ==
  ASSUME NEW st, NEW j
  PROVE  Ledger!JobAggregate(st, j) = AggregateJobStatus(StatusesOf(st, j))
<1>1. {st[r] : r \in Ledger!Present(st, j)} = StatusesOf(st, j)
  BY DEF Ledger!Present, StatusesOf, RunsOf
<1>2. \A A : Ledger!LeastAdvanced(A) = LeastAdvanced(A)
  BY DEF Ledger!LeastAdvanced, LeastAdvanced, Ledger!Rank, Rank
<1>3. \A S : Ledger!AggregateJobStatus(S) = AggregateJobStatus(S)
  BY <1>2 DEF Ledger!AggregateJobStatus, AggregateJobStatus,
     Ledger!TerminalStatuses
<1> QED
  BY <1>1, <1>3 DEF Ledger!JobAggregate

\* Every behaviour of the pipeline is a behaviour of the ledger.
THEOREM RefinementTheorem == Spec => ImplementsLedger
<1> USE DEF Ledger!TerminalStatuses, Ledger!RunStatuses, Ledger!ActiveStatuses
<1>1. Init => Ledger!Init
  BY DEF Init, Ledger!Init
<1>2. TypeOK' /\ JobStatusIsAggregate' /\ DatabaseEffect
        => [Ledger!Next]_Ledger!ledgerVars
  <2> SUFFICES ASSUME TypeOK', JobStatusIsAggregate', DatabaseEffect
               PROVE  [Ledger!Next]_Ledger!ledgerVars
    OBVIOUS
  <2>1. jobStatus' = [j \in Jobs |-> Ledger!JobAggregate(status', j)]
    BY LedgerAggregate DEF TypeOK, JobStatusIsAggregate
  <2>2. Ledger!Restatus(status')
    BY <2>1 DEF Ledger!Restatus
  <2>3. CASE InsertEffect
    <3> PICK j \in Jobs :
          \E S \in SUBSET RunsOf(j) :
            /\ S # {} /\ (\A q \in S : status[q] = "ABSENT")
            /\ InsertQueued(S, j) /\ UNCHANGED quality
      BY <2>3 DEF InsertEffect
    <3> PICK S \in SUBSET RunsOf(j) :
          /\ S # {} /\ (\A q \in S : status[q] = "ABSENT")
          /\ InsertQueued(S, j) /\ UNCHANGED quality
      OBVIOUS
    <3>1. S \in SUBSET {r \in Runs : status[r] = "ABSENT"}
      BY DEF RunsOf
    <3>2. status' = [r \in Runs |-> IF r \in S THEN "QUEUED" ELSE status[r]]
      BY DEF InsertQueued
    <3>3. Ledger!Restatus([r \in Runs |->
                             IF r \in S THEN "QUEUED" ELSE status[r]])
      BY <2>2, <3>2
    <3> QED
      BY <3>1, <3>3 DEF Ledger!Accept, Ledger!Next
  <2>4. CASE MoveEffect
    <3> PICK r \in Runs, s \in RunStatuses :
          /\ status[r] # "ABSENT"
          /\ s \in AllowedTransitions[status[r]]
          /\ s \in TerminalStatuses \ {"FAILED"} =>
               quality[r] # "NONE" /\ s = EarnedStatus(quality[r])
          /\ SetRunStatus(r, s)
          /\ UNCHANGED quality
      BY <2>4 DEF MoveEffect
    <3>1. Ledger!Restatus([status EXCEPT ![r] = s])
      BY <2>2 DEF SetRunStatus
    <3>2. s \in Ledger!AllowedTransitions[status[r]]
      BY DEF Ledger!AllowedTransitions, AllowedTransitions
    <3>3. Ledger!EarnedStatus(quality[r]) = EarnedStatus(quality[r])
      BY DEF Ledger!EarnedStatus, EarnedStatus
    <3>4. Ledger!Move(r, s)
      BY <3>1, <3>2, <3>3 DEF Ledger!Move
    <3> QED
      BY <3>4 DEF Ledger!Next
  <2>5. CASE MeasureEffect
    <3> PICK r \in Runs, q \in QualityVerdicts :
          /\ status[r] = "ANALYZING" /\ quality[r] = "NONE"
          /\ quality' = [quality EXCEPT ![r] = q]
          /\ UNCHANGED <<status, trail, jobStatus>>
      BY <2>5 DEF MeasureEffect
    <3>1. Ledger!Measure(r, q)
      BY DEF Ledger!Measure
    <3> QED
      BY <3>1 DEF Ledger!Next, Ledger!QualityVerdicts, QualityVerdicts
  <2>6. CASE NoEffect
    BY <2>6 DEF NoEffect, Ledger!ledgerVars
  <2> QED
    BY <2>3, <2>4, <2>5, <2>6 DEF DatabaseEffect
<1>3. TypeOK /\ TypeOK' /\ ExecutionInv /\ JobStatusIsAggregate' /\ [Next]_vars
        => [Ledger!Next]_Ledger!ledgerVars
  BY <1>2, StepEffect
<1> QED
  BY <1>1, <1>3, TypeCorrect, ExecutionCorrect, JobTheorem, PTL
  DEF Spec, ImplementsLedger, Ledger!Spec
=============================================================================
