---------------------------- MODULE RunPipeline ----------------------------
(***************************************************************************)
(* The life of analysis runs inside one API process: request handlers that *)
(* create runs, the durable rows in SQLite, the bounded in-memory queue,   *)
(* the worker threads that execute runs, the periodic scheduler that hands *)
(* queued rows to the queue again, and the recovery that follows a crash.  *)
(*                                                                         *)
(* A step is one database transaction, one critical section of the         *)
(* dispatcher, or one local step of a thread.  SQLite serialises writing   *)
(* transactions, and every transaction here that writes takes the write    *)
(* lock before it reads what it aggregates, so one action per transaction  *)
(* is exact.  A read that is used by a LATER transaction is an action of   *)
(* its own.                                                                *)
(***************************************************************************)
EXTENDS RunStatus, Sequences, FiniteSets

CONSTANTS
  Runs,         \* run identifiers; a run exists once its row is inserted
  Jobs,         \* analysis jobs whose upload has been validated
  JobOf,        \* the job a run identifier is used for
  Workers,      \* threads of the dispatcher
  Clients,      \* request handlers that may be active at the same time
  Capacity,     \* bound of the in-memory queue
  NoRun,        \* stands for "no run"
  MaxCrashes,   \* bound on process crashes
  Faults        \* which of FaultKinds may happen

FaultKinds ==
  {"work_error",      \* inference, a file or a status transaction raises
   "claim_error",     \* the claiming transaction raises
   "input_missing",   \* the source image is gone when the claim committed
   "record_error",    \* the transaction that records a failure raises
   "recovery_error"}  \* mark_failed raises during startup recovery

ASSUME PipelineAssumptions ==
  /\ JobOf \in [Runs -> Jobs]
  /\ Capacity \in Nat \ {0}
  /\ NoRun \notin Runs \cup Jobs
  /\ MaxCrashes \in Nat
  /\ Faults \subseteq FaultKinds

VARIABLES
  (* durable: the database *)
  status,       \* segmentation_runs.status, "ABSENT" before the insert
  quality,      \* image_summaries.quality_status, "NONE" before save_result
  parent,       \* segmentation_runs.parent_run_id
  trail,        \* run_status_events of each run, oldest first
  jobStatus,    \* analysis_jobs.status
  (* the process *)
  phase,        \* "down", "recovering" or "serving"
  crashes,      \* number of crashes so far
  queue, known, \* the dispatcher's queue and its set of pending run ids
  wpc, wrun,    \* each worker's next step and the run it holds
  wquality,     \* the verdict a worker computed
  cpc,          \* each request handler's next step
  ctarget,      \* the job or parent run it checked
  cbatch,       \* its committed runs that it has not yet dispatched
  snapshot,     \* rows the scheduler read as QUEUED and has not yet submitted
  recQueued, recStale  \* rows startup recovery read and has not yet handled

database == <<status, quality, parent, trail, jobStatus>>
dispatcher == <<queue, known>>
workers == <<wpc, wrun, wquality>>
clients == <<cpc, ctarget, cbatch>>
recovery == <<recQueued, recStale>>
vars == <<database, phase, crashes, dispatcher, workers, clients,
          snapshot, recovery>>

-----------------------------------------------------------------------------
(* The steps of execute_run after the claim, in program order.             *)

\* Steps that only move the run to the next status, and that status.
Target ==
  [segment     |-> "SEGMENTING",
   postprocess |-> "POSTPROCESSING",
   check       |-> "QUALITY_CHECKING",
   analyze     |-> "ANALYZING",
   aggregate   |-> "AGGREGATING"]

After ==
  [segment     |-> "postprocess",
   postprocess |-> "check",
   check       |-> "analyze",
   analyze     |-> "save",
   aggregate   |-> "finish"]

\* Steps inside the try block of execute_run.
TrySteps == DOMAIN Target \cup {"save", "finish", "readback"}

\* Steps at which a worker owns the run it holds: its claim has committed.
OwnerSteps == TrySteps \cup {"load", "fail"}

WorkerSteps == OwnerSteps \cup {"idle", "claim", "release"}

-----------------------------------------------------------------------------
(* Shared pieces of the handlers.                                          *)

RunsOf(j) == {r \in Runs : JobOf[r] = j}
StatusesOf(st, j) == {st[r] : r \in {q \in RunsOf(j) : st[q] # "ABSENT"}}
Rows(S) == {r \in Runs : status[r] \in S}

\* A committed transaction that moves run r to status s, appends the event and
\* re-derives the status of r's job.
SetRunStatus(r, s) ==
  /\ status' = [status EXCEPT ![r] = s]
  /\ trail' = [trail EXCEPT ![r] = Append(@, s)]
  /\ jobStatus' = [jobStatus EXCEPT ![JobOf[r]] =
                     AggregateJobStatus(StatusesOf(status', JobOf[r]))]

\* A committed transaction that inserts the runs in S for job j.
InsertQueued(S, j) ==
  /\ status' = [r \in Runs |-> IF r \in S THEN "QUEUED" ELSE status[r]]
  /\ trail' = [r \in Runs |-> IF r \in S THEN <<"QUEUED">> ELSE trail[r]]
  /\ jobStatus' = [jobStatus EXCEPT ![j] = "QUEUED"]

\* Faulty variant: the id is marked pending before the queue refuses it.
Submit_MarksBeforePut(r) ==
  IF r \in known
  THEN UNCHANGED dispatcher
  ELSE /\ known' = known \cup {r}
       /\ queue' = IF Len(queue) < Capacity THEN Append(queue, r) ELSE queue

\* dispatcher.submit: a pending id is a duplicate, a full queue defers.
Submit(r) ==
  IF r \in known \/ Len(queue) >= Capacity
  THEN UNCHANGED dispatcher
  ELSE queue' = Append(queue, r) /\ known' = known \cup {r}

-----------------------------------------------------------------------------
Init ==
  /\ status = [r \in Runs |-> "ABSENT"]
  /\ quality = [r \in Runs |-> "NONE"]
  /\ parent = [r \in Runs |-> NoRun]
  /\ trail = [r \in Runs |-> <<>>]
  /\ jobStatus = [j \in Jobs |-> "READY_FOR_CONFIGURATION"]
  /\ phase = "down"
  /\ crashes = 0
  /\ queue = <<>>
  /\ known = {}
  /\ wpc = [w \in Workers |-> "idle"]
  /\ wrun = [w \in Workers |-> NoRun]
  /\ wquality = [w \in Workers |-> "NONE"]
  /\ cpc = [c \in Clients |-> "idle"]
  /\ ctarget = [c \in Clients |-> NoRun]
  /\ cbatch = [c \in Clients |-> {}]
  /\ snapshot = {}
  /\ recQueued = {}
  /\ recStale = {}

-----------------------------------------------------------------------------
(* Request handlers: create_runs and create_review_run.                    *)

\* Jobs to which create_runs may add runs.
Configurable ==
  TerminalStatuses \cup {"READY_FOR_CONFIGURATION"}

\* create_runs reads the job before its first write, outside the write lock.
CheckCreate(c, j) ==
  /\ phase = "serving"
  /\ cpc[c] = "idle"
  /\ jobStatus[j] \in Configurable
  /\ cpc' = [cpc EXCEPT ![c] = "create"]
  /\ ctarget' = [ctarget EXCEPT ![c] = j]
  /\ UNCHANGED <<database, phase, crashes, dispatcher, workers, cbatch,
                 snapshot, recovery>>

CommitCreate(c) ==
  /\ cpc[c] = "create"
  /\ \E S \in SUBSET {r \in RunsOf(ctarget[c]) : status[r] = "ABSENT"} :
       /\ S # {}
       /\ InsertQueued(S, ctarget[c])
       /\ cbatch' = [cbatch EXCEPT ![c] = S]
  /\ cpc' = [cpc EXCEPT ![c] = "dispatch"]
  /\ UNCHANGED <<quality, parent, phase, crashes, dispatcher, workers,
                 ctarget, snapshot, recovery>>

\* Faulty variant: any existing parent is accepted.
CheckReview_AnyParent(c, p) ==
  /\ phase = "serving"
  /\ cpc[c] = "idle"
  /\ status[p] # "ABSENT"
  /\ cpc' = [cpc EXCEPT ![c] = "review"]
  /\ ctarget' = [ctarget EXCEPT ![c] = p]
  /\ UNCHANGED <<database, phase, crashes, dispatcher, workers, cbatch,
                 snapshot, recovery>>

\* create_review_run's first transaction accepts only a finished parent.
CheckReview(c, p) ==
  /\ phase = "serving"
  /\ cpc[c] = "idle"
  /\ status[p] \in TerminalStatuses
  /\ cpc' = [cpc EXCEPT ![c] = "review"]
  /\ ctarget' = [ctarget EXCEPT ![c] = p]
  /\ UNCHANGED <<database, phase, crashes, dispatcher, workers, cbatch,
                 snapshot, recovery>>

\* Its second transaction inserts the child without looking at the parent's
\* status again.
CommitReview(c, child) ==
  /\ cpc[c] = "review"
  /\ status[child] = "ABSENT"
  /\ JobOf[child] = JobOf[ctarget[c]]
  /\ InsertQueued({child}, JobOf[child])
  /\ parent' = [parent EXCEPT ![child] = ctarget[c]]
  /\ cbatch' = [cbatch EXCEPT ![c] = {child}]
  /\ cpc' = [cpc EXCEPT ![c] = "dispatch"]
  /\ UNCHANGED <<quality, phase, crashes, dispatcher, workers, ctarget,
                 snapshot, recovery>>

\* Validation or the commit raises: nothing was written.
RejectRequest(c) ==
  /\ cpc[c] \in {"create", "review"}
  /\ cpc' = [cpc EXCEPT ![c] = "idle"]
  /\ ctarget' = [ctarget EXCEPT ![c] = NoRun]
  /\ UNCHANGED <<database, phase, crashes, dispatcher, workers, cbatch,
                 snapshot, recovery>>

\* _dispatch_runs: one submission per committed run; a full queue is logged.
Dispatch(c, r) ==
  /\ cpc[c] = "dispatch"
  /\ r \in cbatch[c]
  /\ Submit(r)
  /\ cbatch' = [cbatch EXCEPT ![c] = @ \ {r}]
  /\ IF cbatch[c] = {r}
     THEN /\ cpc' = [cpc EXCEPT ![c] = "idle"]
          /\ ctarget' = [ctarget EXCEPT ![c] = NoRun]
     ELSE UNCHANGED <<cpc, ctarget>>
  /\ UNCHANGED <<database, phase, crashes, workers, snapshot, recovery>>

-----------------------------------------------------------------------------
(* Workers: the dispatcher's loop around execute_run.                      *)

WorkerStep(w, from, to) ==
  /\ wpc[w] = from
  /\ wpc' = [wpc EXCEPT ![w] = to]
  /\ UNCHANGED <<phase, crashes, clients, snapshot, recovery>>

Take(w) ==
  /\ queue # <<>>
  /\ WorkerStep(w, "idle", "claim")
  /\ wrun' = [wrun EXCEPT ![w] = Head(queue)]
  /\ queue' = Tail(queue)
  /\ UNCHANGED <<database, known, wquality>>

\* claim_queued: UPDATE ... WHERE status = 'QUEUED', in one transaction with the
\* job's new aggregate.
Claim(w) ==
  /\ WorkerStep(w, "claim", "load")
  /\ status[wrun[w]] = "QUEUED"
  /\ SetRunStatus(wrun[w], "PREPROCESSING")
  /\ UNCHANGED <<quality, parent, dispatcher, wrun, wquality>>

\* The conditional update matched no row: a duplicate delivery.
ClaimRefused(w) ==
  /\ WorkerStep(w, "claim", "release")
  /\ status[wrun[w]] # "QUEUED"
  /\ UNCHANGED <<database, dispatcher, wrun, wquality>>

ClaimRaises(w) ==
  /\ "claim_error" \in Faults
  /\ WorkerStep(w, "claim", "release")
  /\ UNCHANGED <<database, dispatcher, wrun, wquality>>

\* require_managed(..., must_exist=True), after the claim committed and before
\* the try block.
LoadInputs(w) ==
  /\ WorkerStep(w, "load", "segment")
  /\ UNCHANGED <<database, dispatcher, wrun, wquality>>

\* It raises: no handler records the failure.
InputsMissing(w) ==
  /\ "input_missing" \in Faults
  /\ WorkerStep(w, "load", "release")
  /\ UNCHANGED <<database, dispatcher, wrun, wquality>>

\* _set_run_status to the step's status, through ensure_transition.
Advance(w, step) ==
  /\ WorkerStep(w, step, After[step])
  /\ Target[step] \in AllowedTransitions[status[wrun[w]]]
  /\ SetRunStatus(wrun[w], Target[step])
  /\ UNCHANGED <<quality, parent, dispatcher, wrun, wquality>>

\* The measurement and its verdict are saved in a transaction of their own.
SaveResult(w, q) ==
  /\ WorkerStep(w, "save", "aggregate")
  /\ quality' = [quality EXCEPT ![wrun[w]] = q]
  /\ wquality' = [wquality EXCEPT ![w] = q]
  /\ UNCHANGED <<status, parent, trail, jobStatus, dispatcher, wrun>>

\* Faulty variant: the verdict is forgotten.
Finish_IgnoresVerdict(w) ==
  /\ WorkerStep(w, "finish", "readback")
  /\ "COMPLETED" \in AllowedTransitions[status[wrun[w]]]
  /\ SetRunStatus(wrun[w], "COMPLETED")
  /\ UNCHANGED <<quality, parent, dispatcher, wrun, wquality>>

\* The terminal status follows the verdict the worker still holds.
Finish(w) ==
  /\ WorkerStep(w, "finish", "readback")
  /\ EarnedStatus(wquality[w]) \in AllowedTransitions[status[wrun[w]]]
  /\ SetRunStatus(wrun[w], EarnedStatus(wquality[w]))
  /\ UNCHANGED <<quality, parent, dispatcher, wrun, wquality>>

\* execute_run reads the finished row once more, still inside the try block.
ReadBack(w) ==
  /\ WorkerStep(w, "readback", "release")
  /\ UNCHANGED <<database, dispatcher, wrun, wquality>>

\* Faulty variant: the exception leaves execute_run unrecorded.
WorkRaises_Unrecorded(w) ==
  /\ "work_error" \in Faults
  /\ wpc[w] \in TrySteps
  /\ WorkerStep(w, wpc[w], "release")
  /\ UNCHANGED <<database, dispatcher, wrun, wquality>>

\* Anything in the try block raises; a status transaction rolls back.
WorkRaises(w) ==
  /\ "work_error" \in Faults
  /\ wpc[w] \in TrySteps
  /\ WorkerStep(w, wpc[w], "fail")
  /\ UNCHANGED <<database, dispatcher, wrun, wquality>>

\* Faulty variant: a finished run is failed too.
RecordFailure_Overwrites(w) ==
  /\ WorkerStep(w, "fail", "release")
  /\ SetRunStatus(wrun[w], "FAILED")
  /\ UNCHANGED <<quality, parent, dispatcher, wrun, wquality>>

\* _record_failure leaves a terminal run alone.
RecordFailure(w) ==
  /\ WorkerStep(w, "fail", "release")
  /\ IF status[wrun[w]] \in TerminalStatuses
     THEN UNCHANGED database
     ELSE SetRunStatus(wrun[w], "FAILED") /\ UNCHANGED <<quality, parent>>
  /\ UNCHANGED <<dispatcher, wrun, wquality>>

\* _record_failure swallows its own exception.
FailureNotRecorded(w) ==
  /\ "record_error" \in Faults
  /\ WorkerStep(w, "fail", "release")
  /\ UNCHANGED <<database, dispatcher, wrun, wquality>>

\* The worker loop's finally block forgets the run.
Release(w) ==
  /\ WorkerStep(w, "release", "idle")
  /\ known' = known \ {wrun[w]}
  /\ wrun' = [wrun EXCEPT ![w] = NoRun]
  /\ wquality' = [wquality EXCEPT ![w] = "NONE"]
  /\ UNCHANGED <<database, queue>>

-----------------------------------------------------------------------------
(* The queued-run scheduler: a database snapshot, then one submission per  *)
(* row of it, while workers go on.                                         *)

SchedulerPoll ==
  /\ phase = "serving"
  /\ snapshot = {}
  /\ snapshot' = Rows({"QUEUED"})
  /\ snapshot' # {}
  /\ UNCHANGED <<database, phase, crashes, dispatcher, workers, clients,
                 recovery>>

SchedulerSubmit(r) ==
  /\ r \in snapshot
  /\ Submit(r)
  /\ snapshot' = snapshot \ {r}
  /\ UNCHANGED <<database, phase, crashes, workers, clients, recovery>>

-----------------------------------------------------------------------------
(* Crash, restart and startup recovery under the FAIL policy.              *)

\* The process ends: the database survives, nothing else does.  A graceful
\* stop whose drain timed out ends the same way, its threads being daemons.
Crash ==
  /\ phase # "down"
  /\ crashes < MaxCrashes
  /\ crashes' = crashes + 1
  /\ phase' = "down"
  /\ queue' = <<>>
  /\ known' = {}
  /\ wpc' = [w \in Workers |-> "idle"]
  /\ wrun' = [w \in Workers |-> NoRun]
  /\ wquality' = [w \in Workers |-> "NONE"]
  /\ cpc' = [c \in Clients |-> "idle"]
  /\ ctarget' = [c \in Clients |-> NoRun]
  /\ cbatch' = [c \in Clients |-> {}]
  /\ snapshot' = {}
  /\ recQueued' = {}
  /\ recStale' = {}
  /\ UNCHANGED database

\* Faulty variant: queued rows count as left over too.
Start_QueuedIsStale ==
  /\ phase = "down"
  /\ phase' = "recovering"
  /\ recQueued' = Rows({"QUEUED"})
  /\ recStale' = Rows(ActiveStatuses)
  /\ UNCHANGED <<database, crashes, dispatcher, workers, clients, snapshot>>

\* recover(): the dispatcher starts, then one read lists the rows to handle.
Start ==
  /\ phase = "down"
  /\ phase' = "recovering"
  /\ recQueued' = Rows({"QUEUED"})
  /\ recStale' = Rows(StaleActiveStatuses)
  /\ UNCHANGED <<database, crashes, dispatcher, workers, clients, snapshot>>

RecoverSubmit(r) ==
  /\ phase = "recovering"
  /\ r \in recQueued
  /\ Submit(r)
  /\ recQueued' = recQueued \ {r}
  /\ UNCHANGED <<database, phase, crashes, workers, clients, snapshot,
                 recStale>>

\* mark_failed, after every queued row was submitted and workers are busy.  It
\* leaves a terminal run alone.
RecoverFail(r) ==
  /\ phase = "recovering"
  /\ recQueued = {}
  /\ r \in recStale
  /\ IF status[r] \in TerminalStatuses
     THEN UNCHANGED database
     ELSE SetRunStatus(r, "FAILED") /\ UNCHANGED <<quality, parent>>
  /\ recStale' = recStale \ {r}
  /\ UNCHANGED <<phase, crashes, dispatcher, workers, clients, snapshot,
                 recQueued>>

\* mark_failed raises: recovery notes the error and goes on.
RecoverFailRaises(r) ==
  /\ "recovery_error" \in Faults
  /\ phase = "recovering"
  /\ recQueued = {}
  /\ r \in recStale
  /\ recStale' = recStale \ {r}
  /\ UNCHANGED <<database, phase, crashes, dispatcher, workers, clients,
                 snapshot, recQueued>>

\* The lifespan yields: requests are served and the scheduler runs.
Serve ==
  /\ phase = "recovering"
  /\ recQueued = {}
  /\ recStale = {}
  /\ phase' = "serving"
  /\ UNCHANGED <<database, crashes, dispatcher, workers, clients, snapshot,
                 recovery>>

-----------------------------------------------------------------------------
ClientNext(c) ==
  \/ \E j \in Jobs : CheckCreate(c, j)
  \/ CommitCreate(c)
  \/ \E p \in Runs : CheckReview(c, p)
  \/ \E child \in Runs : CommitReview(c, child)
  \/ RejectRequest(c)
  \/ \E r \in Runs : Dispatch(c, r)

\* The steps of a worker that nothing but a crash can prevent.
WorkerProgress(w) ==
  \/ Take(w)
  \/ Claim(w)
  \/ ClaimRefused(w)
  \/ LoadInputs(w)
  \/ \E step \in DOMAIN Target : Advance(w, step)
  \/ \E q \in QualityVerdicts : SaveResult(w, q)
  \/ Finish(w)
  \/ ReadBack(w)
  \/ RecordFailure(w)
  \/ Release(w)

WorkerFault(w) ==
  \/ ClaimRaises(w)
  \/ InputsMissing(w)
  \/ WorkRaises(w)
  \/ FailureNotRecorded(w)

SchedulerNext ==
  \/ SchedulerPoll
  \/ \E r \in Runs : SchedulerSubmit(r)

RecoveryNext ==
  \/ Start
  \/ \E r \in Runs : RecoverSubmit(r)
  \/ \E r \in Runs : RecoverFail(r)
  \/ Serve

Next ==
  \/ \E c \in Clients : ClientNext(c)
  \/ \E w \in Workers : WorkerProgress(w)
  \/ \E w \in Workers : WorkerFault(w)
  \/ SchedulerNext
  \/ RecoveryNext
  \/ \E r \in Runs : RecoverFailRaises(r)
  \/ Crash

Spec == Init /\ [][Next]_vars

\* Threads and the event loop keep running; requests, faults and crashes owe
\* nothing.  A worker needs strong fairness on taking work only if another
\* worker could take every entry; each entry is taken by SOME worker under
\* weak fairness, because the queue is non-empty until one of them takes it.
Fairness ==
  /\ \A w \in Workers : WF_vars(WorkerProgress(w))
  /\ WF_vars(SchedulerPoll)
  /\ \A r \in Runs : WF_vars(SchedulerSubmit(r))
  /\ WF_vars(RecoveryNext)
  /\ \A c \in Clients : WF_vars(\E r \in Runs : Dispatch(c, r))

FairSpec == Spec /\ Fairness
-----------------------------------------------------------------------------
(* Properties.                                                             *)

\* Type correctness of the whole state.
TypeOK ==
  /\ status \in [Runs -> RunStatuses \cup {"ABSENT"}]
  /\ quality \in [Runs -> QualityVerdicts \cup {"NONE"}]
  /\ parent \in [Runs -> Runs \cup {NoRun}]
  /\ trail \in [Runs -> Seq(RunStatuses)]
  /\ jobStatus \in [Jobs -> JobStatuses]
  /\ phase \in {"down", "recovering", "serving"}
  /\ crashes \in 0..MaxCrashes
  /\ queue \in Seq(Runs)
  /\ known \in SUBSET Runs
  /\ wpc \in [Workers -> WorkerSteps]
  /\ wrun \in [Workers -> Runs \cup {NoRun}]
  /\ \A w \in Workers : wpc[w] # "idle" => wrun[w] \in Runs
  /\ wquality \in [Workers -> QualityVerdicts \cup {"NONE"}]
  /\ cpc \in [Clients -> {"idle", "create", "review", "dispatch"}]
  /\ ctarget \in [Clients -> Jobs \cup Runs \cup {NoRun}]
  /\ \A c \in Clients : /\ cpc[c] = "create" => ctarget[c] \in Jobs
                        /\ cpc[c] = "review" => ctarget[c] \in Runs
  /\ cbatch \in [Clients -> SUBSET Runs]
  /\ snapshot \in SUBSET Runs
  /\ recQueued \in SUBSET Runs
  /\ recStale \in SUBSET Runs

Owns(w, r) == wpc[w] \in OwnerSteps /\ wrun[w] = r

\* The same run may sit in the queue and be handed out again by a stale
\* snapshot, but the claim lets at most one worker execute it.
ExclusiveExecution ==
  \A w1, w2 \in Workers, r \in Runs :
    Owns(w1, r) /\ Owns(w2, r) => w1 = w2

\* The status a worker's program point takes for granted.
StageAt ==
  [load |-> "PREPROCESSING", segment |-> "PREPROCESSING",
   postprocess |-> "SEGMENTING", check |-> "POSTPROCESSING",
   analyze |-> "QUALITY_CHECKING", save |-> "ANALYZING",
   aggregate |-> "ANALYZING", finish |-> "AGGREGATING"]

\* Neither a duplicate delivery nor recovery moves a run under the worker that
\* executes it: the durable status is the stage the worker believes it is in,
\* and the verdict it holds is the one it saved.
StageAgrees ==
  \A w \in Workers :
    /\ wpc[w] \in DOMAIN StageAt => status[wrun[w]] = StageAt[wpc[w]]
    /\ wpc[w] \in {"aggregate", "finish"} =>
         wquality[w] # "NONE" /\ wquality[w] = quality[wrun[w]]

\* A run reported as finished has a saved measurement, and the terminal status
\* is the one its verdict earns, whatever crashed or failed on the way.
CompletedHasEarnedResult ==
  \A r \in Runs :
    status[r] \in TerminalStatuses \ {"FAILED"} =>
      quality[r] # "NONE" /\ status[r] = EarnedStatus(quality[r])

\* A job's status is always the aggregate of its runs, although request
\* handlers, workers and recovery each write it in transactions of their own.
JobStatusIsAggregate ==
  \A j \in Jobs : jobStatus[j] = AggregateJobStatus(StatusesOf(status, j))

\* run_status_events tells the whole history of a run: it starts with QUEUED,
\* every entry follows from the one before it by the transition table, and it
\* ends with the current status.
TrailIsHistory ==
  \A r \in Runs :
    IF status[r] = "ABSENT" THEN trail[r] = <<>>
    ELSE /\ Len(trail[r]) > 0
         /\ trail[r][1] = "QUEUED"
         /\ trail[r][Len(trail[r])] = status[r]
         /\ \A i \in 1..(Len(trail[r]) - 1) :
              trail[r][i + 1] \in AllowedTransitions[trail[r][i]]

\* A run that recovery is about to fail is a leftover of the previous process:
\* no worker of this one executes it, although the workers started before the
\* leftovers are failed.
RecoveryFailsOnlyLeftovers ==
  \A r \in recStale :
    /\ status[r] \in StaleActiveStatuses
    /\ \A w \in Workers : ~Owns(w, r)

\* A review child's parent had finished, and is still what it was then.
ReviewedParentIsFinal ==
  \A r \in Runs :
    parent[r] # NoRun =>
      /\ status[parent[r]] \in TerminalStatuses
      /\ JobOf[parent[r]] = JobOf[r]

\* What the properties above need to be inductive.

\* The run a worker executes has been claimed.
OwnedRunIsClaimed ==
  \A w \in Workers :
    wpc[w] \in OwnerSteps => status[wrun[w]] \in RunStatuses \ {"QUEUED"}

\* No measurement exists before the step that saves it.
MeasuredOnce ==
  /\ \A r \in Runs :
       status[r] \notin {"ANALYZING", "AGGREGATING"} \cup TerminalStatuses =>
         quality[r] = "NONE"
  /\ \A w \in Workers : wpc[w] = "save" => quality[wrun[w]] = "NONE"

\* A process that is not running does nothing.
DownIsQuiet ==
  phase = "down" =>
    /\ queue = <<>>
    /\ snapshot = {}
    /\ \A w \in Workers : wpc[w] = "idle"
    /\ \A c \in Clients : cpc[c] = "idle"

ExecutionInv ==
  /\ OwnedRunIsClaimed
  /\ ExclusiveExecution
  /\ StageAgrees
  /\ MeasuredOnce
  /\ CompletedHasEarnedResult
  /\ RecoveryFailsOnlyLeftovers
  /\ DownIsQuiet

\* While the service is up, a run in an active stage has a worker that executes
\* it; otherwise nobody would ever finish it before the next restart.
ActiveRunIsOwned ==
  phase = "serving" =>
    \A r \in Rows(StaleActiveStatuses) : \E w \in Workers : Owns(w, r)

\* Every accepted run reaches a terminal status: a batch larger than the queue,
\* a deferred dispatch, a stale snapshot or a crash only delays it.
AcceptedRunFinishes ==
  \A r \in Runs : status[r] = "QUEUED" ~> status[r] \in TerminalStatuses

\* The pipeline implements the ledger: what the database shows is accounted for
\* by accepting, moving, measuring and aggregating, in every interleaving.
Ledger == INSTANCE RunLedger WITH
  Runs <- Runs, Jobs <- Jobs, JobOf <- JobOf,
  status <- status, quality <- quality, jobStatus <- jobStatus
ImplementsLedger == Ledger!Spec
=============================================================================
