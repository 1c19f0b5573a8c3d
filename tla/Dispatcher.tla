----------------------------- MODULE Dispatcher -----------------------------
(***************************************************************************)
(* The in-process task dispatcher, one thread step at a time: a bounded    *)
(* queue of run ids, a fixed pool of worker threads, and callers that      *)
(* start and stop it (app/orchestration/dispatcher.py).                    *)
(*                                                                         *)
(* A step is one critical section of the condition's lock, or one access   *)
(* to what the lock does not protect: the queue as the workers see it, the *)
(* shutdown event, the start and the end of a thread.                      *)
(***************************************************************************)
EXTENDS Integers, Sequences, FiniteSets

CONSTANTS
  Ids,        \* run ids that may be submitted
  Threads,    \* worker threads of one generation
  Callers,    \* threads that call start and stop
  Capacity,   \* bound of the queue
  Deadlines,  \* which stop calls have a timeout: a subset of BOOLEAN
  MaxStarts,  \* bound on successful start calls
  StartFails, \* whether the operating system may refuse a thread
  NoId        \* stands for "no run id"

ASSUME DispatcherAssumptions ==
  /\ Capacity \in Nat \ {0}
  /\ IsFiniteSet(Threads) /\ Threads # {}
  /\ Deadlines \subseteq BOOLEAN
  /\ MaxStarts \in Nat
  /\ StartFails \in BOOLEAN
  /\ NoId \notin Ids

VARIABLES
  running, accepting,  \* _running and _accepting
  shutdown,            \* the _shutdown event
  queue,               \* _queue
  known, inFlight,     \* _known_run_ids and _in_flight_run_ids
  live,                \* _live_workers
  tpc,                 \* each thread's next step, "none" when there is no thread
  tid,                 \* the run id each thread holds
  cpc,                 \* each caller's next step
  timed,               \* whether the caller's stop has a timeout
  drained,             \* what its drain returned
  taken,               \* the ids its _discard_queued has taken
  joins,               \* the generation of threads its stop joins
  report,              \* what its last stop returned, until the next start
  starts               \* number of generations started

pool == <<running, accepting, live>>
threads == <<tpc, tid>>
pending == <<queue, known, inFlight>>
callers == <<cpc, timed, drained, taken, joins, report>>
vars == <<pool, shutdown, pending, threads, callers, starts>>

-----------------------------------------------------------------------------
Init ==
  /\ running = FALSE
  /\ accepting = FALSE
  /\ shutdown = FALSE
  /\ queue = <<>>
  /\ known = {}
  /\ inFlight = {}
  /\ live = 0
  /\ tpc = [t \in Threads |-> "none"]
  /\ tid = [t \in Threads |-> NoId]
  /\ cpc = [c \in Callers |-> "idle"]
  /\ timed = [c \in Callers |-> FALSE]
  /\ drained = [c \in Callers |-> FALSE]
  /\ taken = [c \in Callers |-> {}]
  /\ joins = [c \in Callers |-> 0]
  /\ report = [c \in Callers |-> "none"]
  /\ starts = 0

-----------------------------------------------------------------------------
(* submit: one critical section.  A duplicate, a full queue and a closed   *)
(* dispatcher change nothing.                                              *)
Submit(r) ==
  /\ running /\ accepting
  /\ r \notin known
  /\ Len(queue) < Capacity
  /\ queue' = Append(queue, r)
  /\ known' = known \cup {r}
  /\ UNCHANGED <<pool, shutdown, inFlight, threads, callers, starts>>

-----------------------------------------------------------------------------
(* start.                                                                  *)

\* The critical section; "abandoned queue state" and a shutdown still in
\* progress raise instead.
Start(c) ==
  /\ cpc[c] = "idle"
  /\ ~running
  /\ known = {} /\ queue = <<>>
  /\ starts < MaxStarts
  /\ starts' = starts + 1
  /\ shutdown' = FALSE
  /\ running' = TRUE
  /\ accepting' = TRUE
  /\ live' = Cardinality(Threads)
  /\ tpc' = [t \in Threads |-> "unstarted"]
  /\ cpc' = [cpc EXCEPT ![c] = "starting"]
  /\ report' = [d \in Callers |-> "none"]
  /\ UNCHANGED <<pending, tid, timed, drained, taken, joins>>

StartThread(c, t) ==
  /\ cpc[c] = "starting"
  /\ tpc[t] = "unstarted"
  /\ tpc' = [tpc EXCEPT ![t] = "get"]
  /\ cpc' = [cpc EXCEPT ![c] =
               IF \E u \in Threads \ {t} : tpc[u] = "unstarted"
               THEN "starting" ELSE "idle"]
  /\ UNCHANGED <<pool, shutdown, pending, tid, timed, drained, taken, joins, report,
                 starts>>

\* Thread.start raises: the event is set first, submissions stop afterwards.
StartThreadFails(c) ==
  /\ StartFails
  /\ cpc[c] = "starting"
  /\ shutdown' = TRUE
  /\ cpc' = [cpc EXCEPT ![c] = "abort"]
  /\ UNCHANGED <<pool, pending, threads, timed, drained, taken, joins, report, starts>>

AbortStart(c) ==
  /\ cpc[c] = "abort"
  /\ accepting' = FALSE
  /\ cpc' = [cpc EXCEPT ![c] = "idle"]
  /\ UNCHANGED <<running, live, shutdown, pending, threads, timed, drained,
                 taken, joins, report, starts>>

-----------------------------------------------------------------------------
(* stop.                                                                   *)

\* Nothing runs: the call returns True at once.
StopWhenStopped(c) ==
  /\ cpc[c] = "idle"
  /\ ~running
  /\ accepting' = FALSE
  /\ report' = [report EXCEPT ![c] = "stopped"]
  /\ UNCHANGED <<running, live, shutdown, pending, threads, cpc, timed,
                 drained, taken, joins, starts>>

\* The first critical section closes the dispatcher.
Stop(c, drain, deadline) ==
  /\ cpc[c] = "idle"
  /\ running
  /\ accepting' = FALSE
  /\ cpc' = [cpc EXCEPT ![c] = IF drain THEN "drain" ELSE "discard"]
  /\ timed' = [timed EXCEPT ![c] = deadline]
  /\ report' = [report EXCEPT ![c] = "none"]
  /\ UNCHANGED <<running, live, shutdown, pending, threads, drained, taken,
                 joins, starts>>

\* drain() waits on the condition until no id is pending.
DrainDone(c) ==
  /\ cpc[c] = "drain"
  /\ known = {}
  /\ drained' = [drained EXCEPT ![c] = TRUE]
  /\ cpc' = [cpc EXCEPT ![c] = "shut"]
  /\ UNCHANGED <<pool, shutdown, pending, threads, timed, taken, joins, report,
                 starts>>

DrainTimesOut(c) ==
  /\ cpc[c] = "drain"
  /\ timed[c]
  /\ known # {}
  /\ drained' = [drained EXCEPT ![c] = FALSE]
  /\ cpc' = [cpc EXCEPT ![c] = "shut"]
  /\ UNCHANGED <<pool, shutdown, pending, threads, timed, taken, joins, report,
                 starts>>

\* _discard_queued takes entries without the lock, racing the workers...
DiscardOne(c) ==
  /\ cpc[c] = "discard"
  /\ queue # <<>>
  /\ taken' = [taken EXCEPT ![c] = @ \cup {Head(queue)}]
  /\ queue' = Tail(queue)
  /\ UNCHANGED <<pool, shutdown, known, inFlight, threads, cpc, timed, drained,
                 joins, report, starts>>

\* ...and forgets them in a critical section once the queue is empty.
DiscardForget(c) ==
  /\ cpc[c] = "discard"
  /\ queue = <<>>
  /\ known' = known \ taken[c]
  /\ taken' = [taken EXCEPT ![c] = {}]
  /\ drained' = [drained EXCEPT ![c] = TRUE]
  /\ cpc' = [cpc EXCEPT ![c] = "shut"]
  /\ UNCHANGED <<pool, shutdown, queue, inFlight, threads, timed, joins, report, starts>>

\* Faulty variant: the event is not set.
SetShutdown_Forgotten(c) ==
  /\ cpc[c] = "shut"
  /\ cpc' = [cpc EXCEPT ![c] = "threads"]
  /\ UNCHANGED <<pool, shutdown, pending, threads, timed, drained, taken,
                 joins, report, starts>>

SetShutdown(c) ==
  /\ cpc[c] = "shut"
  /\ shutdown' = TRUE
  /\ cpc' = [cpc EXCEPT ![c] = "threads"]
  /\ UNCHANGED <<pool, pending, threads, timed, drained, taken, joins, report,
                 starts>>

\* The second critical section copies the thread list, which is a newer
\* generation's if another caller has restarted the dispatcher meanwhile.
CopyThreads(c) ==
  /\ cpc[c] = "threads"
  /\ joins' = [joins EXCEPT ![c] = starts]
  /\ cpc' = [cpc EXCEPT ![c] = "join"]
  /\ UNCHANGED <<pool, shutdown, pending, threads, timed, drained, taken,
                 report, starts>>

\* stop returns drained and not running, after the joins.
StopReturns(c) ==
  /\ cpc' = [cpc EXCEPT ![c] = "idle"]
  /\ report' = [report EXCEPT ![c] =
                  IF drained[c] /\ ~running THEN "stopped" ELSE "incomplete"]
  /\ UNCHANGED <<pool, shutdown, pending, threads, timed, drained, taken, joins, starts>>

\* The dispatcher restarts only after every thread has left.
Joined(c) ==
  /\ cpc[c] = "join"
  /\ joins[c] < starts \/ \A t \in Threads : tpc[t] = "none"
  /\ StopReturns(c)

JoinTimesOut(c) ==
  /\ cpc[c] = "join"
  /\ timed[c]
  /\ StopReturns(c)

\* A thread that was never started cannot be joined: RuntimeError, once the
\* threads before it have ended.
JoinRaises(c) ==
  /\ cpc[c] = "join"
  /\ joins[c] = starts
  /\ \E t \in Threads : tpc[t] = "unstarted"
  /\ \A t \in Threads : tpc[t] \in {"none", "unstarted"}
  /\ cpc' = [cpc EXCEPT ![c] = "idle"]
  /\ UNCHANGED <<pool, shutdown, pending, threads, timed, drained, taken,
                 joins, report, starts>>

-----------------------------------------------------------------------------
(* _worker_loop.                                                           *)

ThreadStep(t, from, to) ==
  /\ tpc[t] = from
  /\ tpc' = [tpc EXCEPT ![t] = to]
  /\ UNCHANGED <<callers, starts>>

Get(t) ==
  /\ queue # <<>>
  /\ ThreadStep(t, "get", "mark")
  /\ tid' = [tid EXCEPT ![t] = Head(queue)]
  /\ queue' = Tail(queue)
  /\ UNCHANGED <<pool, shutdown, known, inFlight>>

\* get(timeout=0.1) raises Empty; the event is looked at afterwards.
GetTimesOut(t) ==
  /\ queue = <<>>
  /\ ThreadStep(t, "get", "look")
  /\ UNCHANGED <<pool, shutdown, pending, tid>>

LookAtShutdown(t) ==
  /\ ThreadStep(t, "look", IF shutdown THEN "exit" ELSE "get")
  /\ UNCHANGED <<pool, shutdown, pending, tid>>

MarkInFlight(t) ==
  /\ ThreadStep(t, "mark", "task")
  /\ inFlight' = inFlight \cup {tid[t]}
  /\ UNCHANGED <<pool, shutdown, queue, known, tid>>

\* The task returns or raises, and its callback has run.
TaskEnds(t) ==
  /\ ThreadStep(t, "task", "forget")
  /\ UNCHANGED <<pool, shutdown, pending, tid>>

\* Faulty variant: the id is forgotten only by the in-flight report.
Forget_InFlightOnly(t) ==
  /\ ThreadStep(t, "forget", "get")
  /\ inFlight' = inFlight \ {tid[t]}
  /\ tid' = [tid EXCEPT ![t] = NoId]
  /\ UNCHANGED <<pool, shutdown, queue, known>>

\* The finally block around the task.
Forget(t) ==
  /\ ThreadStep(t, "forget", "get")
  /\ inFlight' = inFlight \ {tid[t]}
  /\ known' = known \ {tid[t]}
  /\ tid' = [tid EXCEPT ![t] = NoId]
  /\ UNCHANGED <<pool, shutdown, queue>>

\* Faulty variant: the first thread to leave declares the dispatcher stopped.
Exit_FirstStops(t) ==
  /\ ThreadStep(t, "exit", "none")
  /\ live' = live - 1
  /\ running' = FALSE
  /\ accepting' = FALSE
  /\ UNCHANGED <<shutdown, pending, tid>>

\* The outer finally block: the last thread to leave stops the dispatcher.
Exit(t) ==
  /\ ThreadStep(t, "exit", "none")
  /\ live' = live - 1
  /\ IF live' = 0
     THEN running' = FALSE /\ accepting' = FALSE
     ELSE UNCHANGED <<running, accepting>>
  /\ UNCHANGED <<shutdown, pending, tid>>

-----------------------------------------------------------------------------
ThreadNext(t) ==
  \/ Get(t)
  \/ GetTimesOut(t)
  \/ LookAtShutdown(t)
  \/ MarkInFlight(t)
  \/ TaskEnds(t)
  \/ Forget(t)
  \/ Exit(t)

\* The steps of a caller that has entered start or stop and has no deadline.
CallProgress(c) ==
  \/ \E t \in Threads : StartThread(c, t)
  \/ AbortStart(c)
  \/ DrainDone(c)
  \/ DiscardOne(c)
  \/ DiscardForget(c)
  \/ SetShutdown(c)
  \/ CopyThreads(c)
  \/ Joined(c)
  \/ JoinRaises(c)

CallNext(c) ==
  \/ Start(c)
  \/ StartThreadFails(c)
  \/ StopWhenStopped(c)
  \/ \E drain \in BOOLEAN, deadline \in Deadlines : Stop(c, drain, deadline)
  \/ DrainTimesOut(c)
  \/ JoinTimesOut(c)

Next ==
  \/ \E r \in Ids : Submit(r)
  \/ \E t \in Threads : ThreadNext(t)
  \/ \E c \in Callers : CallProgress(c)
  \/ \E c \in Callers : CallNext(c)

Spec == Init /\ [][Next]_vars

\* Threads run and tasks end; nobody has to submit, start or stop.
Fairness ==
  /\ \A t \in Threads : WF_vars(ThreadNext(t))
  /\ \A c \in Callers : WF_vars(CallProgress(c))

FairSpec == Spec /\ Fairness
-----------------------------------------------------------------------------
(* Properties.                                                             *)

ThreadSteps ==
  {"none", "unstarted", "get", "look", "mark", "task", "forget", "exit"}
CallSteps ==
  {"idle", "starting", "abort", "drain", "discard", "shut", "threads", "join"}

\* Type correctness of the whole state.
TypeOK ==
  /\ running \in BOOLEAN /\ accepting \in BOOLEAN /\ shutdown \in BOOLEAN
  /\ queue \in Seq(Ids)
  /\ known \in SUBSET Ids
  /\ inFlight \in SUBSET Ids
  /\ live \in 0..Cardinality(Threads)
  /\ tpc \in [Threads -> ThreadSteps]
  /\ tid \in [Threads -> Ids \cup {NoId}]
  /\ cpc \in [Callers -> CallSteps]
  /\ timed \in [Callers -> BOOLEAN]
  /\ drained \in [Callers -> BOOLEAN]
  /\ taken \in [Callers -> SUBSET Ids]
  /\ joins \in [Callers -> 0..MaxStarts]
  /\ report \in [Callers -> {"none", "stopped", "incomplete"}]
  /\ starts \in 0..MaxStarts

\* The threads that hold a run id.
Holders == {t \in Threads : tpc[t] \in {"mark", "task", "forget"}}

Queued == {queue[i] : i \in 1..Len(queue)}
Held == {tid[t] : t \in Holders}
Taken == UNION {taken[c] : c \in Callers}

\* The pending set that rejects duplicates is exactly what is in the queue, in
\* a worker's hands or being discarded, and each id is in one place only: no id
\* is ever lost while it blocks its own resubmission, none is executed twice at
\* the same time.
PendingIsExact ==
  /\ known = Queued \cup Held \cup Taken
  /\ Queued \cap Held = {} /\ Queued \cap Taken = {} /\ Held \cap Taken = {}
  /\ \A i, j \in 1..Len(queue) : queue[i] = queue[j] => i = j
  /\ \A t, u \in Holders : tid[t] = tid[u] => t = u
  /\ \A c, d \in Callers : taken[c] \cap taken[d] # {} => c = d
  /\ inFlight = {tid[t] : t \in {u \in Holders : tpc[u] # "mark"}}

\* is_running is false only when no thread of the pool is left, so that a
\* restart never runs two generations at the same time.
StoppedHasNoThread ==
  ~running => /\ ~accepting
              /\ \A t \in Threads : tpc[t] = "none"

\* Once the workers have left, nothing is left behind for them.
StoppedIsEmpty == ~running => queue = <<>> /\ known \subseteq Taken

\* When stop returns True, every accepted id has been executed or discarded and
\* every thread has ended.
StopReportIsTrue ==
  \A c \in Callers :
    report[c] = "stopped" =>
      /\ ~running
      /\ queue = <<>> /\ known \subseteq Taken
      /\ \A t \in Threads : tpc[t] = "none"

\* A stop without a deadline returns, whatever is queued or being executed.
StopTerminates ==
  \A c \in Callers :
    cpc[c] \in {"drain", "discard", "shut", "threads", "join"} ~> cpc[c] = "idle"

\* An accepted id does not stay pending forever.
AcceptedLeaves == \A r \in Ids : r \in known ~> r \notin known

\* Whatever is queued or executed when a stop without a deadline begins, the stop
\* ends and nothing stays pending.
StopLeavesNothing == StopTerminates /\ AcceptedLeaves
=============================================================================
