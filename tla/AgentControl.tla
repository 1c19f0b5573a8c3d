---------------------------- MODULE AgentControl ----------------------------
(***************************************************************************)
(* One durable agent task: a model proposes decisions, tools act on the    *)
(* laboratory's data, people approve, reject, answer and cancel, and a     *)
(* scheduler goes on with what a closed browser or a crash has left behind *)
(* (app/agent/control.py, app/agent/scheduler.py).                         *)
(*                                                                         *)
(* A call holds the task's lock from its first read to its return; the     *)
(* scheduler selects the task and checks its creator's credential before   *)
(* it asks for the lock.  A step is one transaction of a call, the effect  *)
(* of a tool, or one of the scheduler's reads outside the lock.            *)
(***************************************************************************)
EXTENDS Integers, Sequences, FiniteSets

CONSTANTS
  Users,            \* request threads
  Scheduler,        \* the thread that resumes tasks
  Nobody,           \* holds a free lock
  MaxSteps,         \* budget: model decisions
  MaxFailures,      \* budget: failures a task survives
  MaxAutoSteps,     \* budget: decisions of one call
  MaxObservations,  \* observations a task remembers
  MaxActions,       \* bound on action identifiers
  MaxInterruptions, \* bound on crashes and rolled-back transactions
  Faults            \* which of FaultKinds may happen

FaultKinds ==
  {"model_error",   \* the provider fails, or names an unknown tool
   "tool_error",    \* a tool raises or answers with an error
   "tx_error",      \* a transaction around the tool raises and rolls back
   "revocation"}    \* the creator's credential is revoked

ASSUME AgentAssumptions ==
  /\ Scheduler \notin Users
  /\ Nobody \notin Users \cup {Scheduler}
  /\ MaxSteps \in Nat \ {0}
  /\ MaxFailures \in Nat
  /\ MaxAutoSteps \in Nat \ {0}
  /\ MaxObservations \in Nat \ {0}
  /\ MaxActions \in Nat
  /\ MaxInterruptions \in Nat
  /\ Faults \subseteq FaultKinds

Actors == Users \cup {Scheduler}
Actions == 1..MaxActions
NoAction == 0

VARIABLES
  (* durable: the task and its approvals *)
  status,        \* agent_tasks.status
  pending,       \* the action of pending_action_json, or NoAction
  started,       \* its execution_started mark
  due,           \* next_wakeup_at is not in the future, or is not set
  steps, failures,
  observations,  \* what it remembers of tools: outcome and references, oldest first
  final,         \* the references of the final answer
  actions,       \* number of action identifiers in use
  tool,          \* each action's tool: "read" or "write"
  approval,      \* each action's approval row
  (* the world *)
  effects,       \* how often each action's tool has taken effect, up to 2
  credential,    \* the creator's credential is active
  (* the process *)
  interruptions,
  lock,          \* who holds the task's lock
  pc,            \* each actor's next step
  auto,          \* decisions left to the call that holds the lock
  doing,         \* the action it executes
  outcome        \* what the tool answered

task == <<status, pending, started, due, steps, failures, observations, final,
          actions, tool, approval>>
call == <<lock, pc, auto, doing, outcome>>
vars == <<task, effects, credential, interruptions, call>>

Terminal == {"completed", "failed", "cancelled"}

\* Tools that only read are idempotent and need no approval; tools that write
\* need one and are not.
Idempotent(a) == tool[a] = "read"

-----------------------------------------------------------------------------
Init ==
  /\ status = "created"
  /\ pending = NoAction
  /\ started = FALSE
  /\ due = TRUE
  /\ steps = 0
  /\ failures = 0
  /\ observations = <<>>
  /\ final = {}
  /\ actions = 0
  /\ tool = [a \in Actions |-> "none"]
  /\ approval = [a \in Actions |-> "none"]
  /\ effects = [a \in Actions |-> 0]
  /\ credential = TRUE
  /\ interruptions = 0
  /\ lock = Nobody
  /\ pc = [c \in Actors |-> "idle"]
  /\ auto = 0
  /\ doing = NoAction
  /\ outcome = "none"

-----------------------------------------------------------------------------
(* Shared pieces of the calls.                                             *)

\* The call goes on with `step`, or returns or raises and frees the lock.
Continue(c, step) ==
  /\ pc' = [pc EXCEPT ![c] = step]
  /\ lock' = c
Return(c) ==
  /\ pc' = [pc EXCEPT ![c] = "idle"]
  /\ lock' = Nobody
  /\ auto' = 0
  /\ doing' = NoAction
  /\ outcome' = "none"

NoPending ==
  /\ pending' = NoAction
  /\ started' = FALSE
  /\ due' = TRUE

\* A fresh action becomes the pending one.
NewAction(t) ==
  /\ actions < MaxActions
  /\ actions' = actions + 1
  /\ tool' = [tool EXCEPT ![actions + 1] = t]
  /\ pending' = actions + 1
  /\ started' = FALSE

\* Faulty variant: the failure budget is off by one.
RecordFailure_OneMore(retryable) ==
  /\ failures' = failures + 1
  /\ status' = IF retryable /\ failures <= MaxFailures THEN "running" ELSE "failed"

\* _record_failure.  Every caller that keeps a pending action clears it.
RecordFailure(retryable) ==
  /\ failures' = failures + 1
  /\ status' = IF retryable /\ failures' <= MaxFailures THEN "running" ELSE "failed"

\* What a tool refers to - runs, reports, files - is known by the tool's action.
Remembered == [outcome : {"ok", "error"}, refs : SUBSET Actions]

\* _record_observation keeps the newest observations.
Observe(answer, references) ==
  LET new == [outcome |-> answer, refs |-> references] IN
  observations' =
    IF Len(observations) < MaxObservations
    THEN Append(observations, new)
    ELSE Append(Tail(observations), new)

-----------------------------------------------------------------------------
(* Calls of a person.                                                      *)

\* The calls that are one transaction need the lock to be free.
Free(u) == u \in Users /\ pc[u] = "idle" /\ lock = Nobody

SubmitInput(u) ==
  /\ Free(u)
  /\ status = "waiting_for_input"
  /\ status' = "running"
  /\ due' = TRUE
  /\ UNCHANGED <<pending, started, steps, failures, observations, final,
                 actions, tool, approval, effects, credential, interruptions, call>>

\* resolve_approval commits the approval and executes the action in one call.
Approve(u) ==
  /\ Free(u)
  /\ status = "waiting_for_approval"
  /\ pending # NoAction
  /\ approval[pending] = "pending"
  /\ approval' = [approval EXCEPT ![pending] = "approved"]
  /\ status' = "running"
  /\ due' = TRUE
  /\ Continue(u, "execute")
  /\ auto' = 0
  /\ UNCHANGED <<pending, started, steps, failures, observations, final,
                 actions, tool, effects, credential, interruptions, doing, outcome>>

\* Faulty variant: the rejected action stays pending.
Reject_KeepsPending(u) ==
  /\ Free(u)
  /\ status = "waiting_for_approval"
  /\ pending # NoAction
  /\ approval[pending] = "pending"
  /\ approval' = [approval EXCEPT ![pending] = "rejected"]
  /\ Observe("error", {})
  /\ status' = "running"
  /\ UNCHANGED <<pending, started, due, steps, failures, final, actions, tool,
                 effects, credential, interruptions, call>>

Reject(u) ==
  /\ Free(u)
  /\ status = "waiting_for_approval"
  /\ pending # NoAction
  /\ approval[pending] = "pending"
  /\ approval' = [approval EXCEPT ![pending] = "rejected"]
  /\ Observe("error", {})
  /\ status' = "running"
  /\ NoPending
  /\ UNCHANGED <<steps, failures, final, actions, tool, effects, credential,
                 interruptions, call>>

\* Faulty variant: cancelling does not wait for the call that executes.
Cancel_WithoutLock(u) ==
  /\ u \in Users /\ pc[u] = "idle"
  /\ status \notin Terminal
  /\ status' = "cancelled"
  /\ NoPending
  /\ UNCHANGED <<steps, failures, observations, final, actions, tool, approval,
                 effects, credential, interruptions, call>>

Cancel(u) ==
  /\ Free(u)
  /\ status \notin Terminal
  /\ status' = "cancelled"
  /\ NoPending
  /\ UNCHANGED <<steps, failures, observations, final, actions, tool, approval,
                 effects, credential, interruptions, call>>

-----------------------------------------------------------------------------
(* run, called by a person or by the scheduler.                            *)

\* A person's call, or the scheduler's after it has checked the credential.
MayEnter(c) ==
  /\ lock = Nobody
  /\ IF c = Scheduler THEN pc[c] = "authorized" ELSE pc[c] = "idle"

\* A pending action is executed before anything else.
EnterWithPending(c, n) ==
  /\ MayEnter(c)
  /\ pending # NoAction
  /\ status = "running" \/ (status = "waiting_for_external" /\ due)
  /\ Continue(c, "execute")
  /\ auto' = n
  /\ UNCHANGED <<task, effects, credential, interruptions, doing, outcome>>

EnterPlanning(c, n) ==
  /\ MayEnter(c)
  /\ pending = NoAction
  /\ status \in {"created", "running"}
  /\ Continue(c, "decide")
  /\ auto' = n
  /\ UNCHANGED <<task, effects, credential, interruptions, doing, outcome>>

\* The task waits, or has ended while the scheduler was on its way.
NothingToRun ==
  /\ MayEnter(Scheduler)
  /\ \/ status \in Terminal \cup {"waiting_for_approval", "waiting_for_input"}
     \/ status = "waiting_for_external" /\ ~due
  /\ pc' = [pc EXCEPT ![Scheduler] = "idle"]
  /\ UNCHANGED <<task, effects, credential, interruptions, lock, auto, doing, outcome>>

-----------------------------------------------------------------------------
(* _advance_once and _apply_decision: one decision, one transaction.       *)

Deciding(c) == pc[c] = "decide"

FailForBudget(c) ==
  /\ Deciding(c)
  /\ steps >= MaxSteps
  /\ status' = "failed"
  /\ NoPending
  /\ Return(c)
  /\ UNCHANGED <<steps, failures, observations, final, actions, tool, approval,
                 effects, credential, interruptions>>

\* _record_model_failure: the decision was not applied, no step is counted.
ModelFails(c) ==
  /\ "model_error" \in Faults
  /\ Deciding(c)
  /\ steps < MaxSteps
  /\ RecordFailure(TRUE)
  /\ Return(c)
  /\ UNCHANGED <<pending, started, due, steps, observations, final, actions,
                 tool, approval, effects, credential, interruptions>>

\* An applied decision counts one step.
Decision(c) ==
  /\ Deciding(c)
  /\ steps < MaxSteps
  /\ steps' = steps + 1
  /\ UNCHANGED <<effects, credential, interruptions>>

DecideRead(c) ==
  /\ Decision(c)
  /\ NewAction("read")
  /\ due' = TRUE
  /\ status' = "running"
  /\ auto' = auto - 1
  /\ Continue(c, "execute")
  /\ UNCHANGED <<failures, observations, final, approval, doing, outcome>>

DecideWrite(c) ==
  /\ Decision(c)
  /\ NewAction("write")
  /\ due' = TRUE
  /\ approval' = [approval EXCEPT ![actions'] = "pending"]
  /\ status' = "waiting_for_approval"
  /\ Return(c)
  /\ UNCHANGED <<failures, observations, final>>

AskUser(c) ==
  /\ Decision(c)
  /\ status' = "waiting_for_input"
  /\ due' = TRUE
  /\ Return(c)
  /\ UNCHANGED <<pending, started, failures, observations, final, actions,
                 tool, approval>>

GiveUp(c) ==
  /\ Decision(c)
  /\ status' = "failed"
  /\ due' = TRUE
  /\ Return(c)
  /\ UNCHANGED <<pending, started, failures, observations, final, actions,
                 tool, approval>>

\* The references a finish may cite, whatever the outcome of the tool that gave
\* them.
Evidence == UNION {observations[i].refs : i \in 1..Len(observations)}

\* Faulty variant: references are compared with the actions ever proposed.
Finish_AnyReference(c, refs) ==
  /\ Decision(c)
  /\ refs # {} /\ refs \subseteq 1..actions
  /\ final' = refs
  /\ status' = "completed"
  /\ due' = TRUE
  /\ Return(c)
  /\ UNCHANGED <<pending, started, failures, observations, actions, tool,
                 approval>>

\* A finish must cite evidence of the remembered observations...
Finish(c, refs) ==
  /\ Decision(c)
  /\ refs # {} /\ refs \subseteq Evidence
  /\ final' = refs
  /\ status' = "completed"
  /\ due' = TRUE
  /\ Return(c)
  /\ UNCHANGED <<pending, started, failures, observations, actions, tool,
                 approval>>

\* ...otherwise it counts as a failure, and as a step.
FinishRefused(c) ==
  /\ Decision(c)
  /\ RecordFailure(TRUE)
  /\ Return(c)
  /\ UNCHANGED <<pending, started, due, observations, final, actions, tool,
                 approval>>

-----------------------------------------------------------------------------
(* _execute_pending_action.                                                *)

\* The first transaction, when the action was started before and must not be
\* repeated: the task fails and a person has to look.
Ambiguous(c) ==
  /\ pc[c] = "execute"
  /\ started /\ ~Idempotent(pending)
  /\ Observe("error", {})
  /\ RecordFailure(FALSE)
  /\ NoPending
  /\ Return(c)
  /\ UNCHANGED <<steps, final, actions, tool, approval, effects, credential,
                 interruptions>>

\* Faulty variant: the mark is not written before the tool runs.
StartTool_Unmarked(c) ==
  /\ pc[c] = "execute"
  /\ started => Idempotent(pending)
  /\ due' = TRUE
  /\ doing' = pending
  /\ Continue(c, "tool")
  /\ UNCHANGED <<status, pending, started, steps, failures, observations, final,
                 actions, tool, approval, effects, credential, interruptions, auto,
                 outcome>>

\* Otherwise it marks the action as started, before the tool runs.
StartTool(c) ==
  /\ pc[c] = "execute"
  /\ started => Idempotent(pending)
  /\ started' = TRUE
  /\ due' = TRUE
  /\ doing' = pending
  /\ Continue(c, "tool")
  /\ UNCHANGED <<status, pending, steps, failures, observations, final,
                 actions, tool, approval, effects, credential, interruptions, auto,
                 outcome>>

\* A query whose answer is unclear ends in an error and yet names the runs it
\* has looked at; other errors name nothing.
Errors == {"unclear", "retryable", "fatal"}
Outcomes == {"ok", "continue"} \cup Errors

\* The tool's effect, outside every transaction.  A tool that raises may or may
\* not have done something before.
RunTool(c, answer) ==
  /\ pc[c] = "tool"
  /\ answer \in Errors => "tool_error" \in Faults
  /\ answer = "unclear" => tool[doing] = "read"
  /\ answer = "continue" => actions < MaxActions
  /\ outcome' = answer
  /\ \/ effects' = [effects EXCEPT ![doing] = IF @ = 2 THEN 2 ELSE @ + 1]
     \/ answer \in {"retryable", "fatal"} /\ UNCHANGED effects
  /\ Continue(c, "record")
  /\ UNCHANGED <<task, credential, interruptions, auto, doing>>

\* The call goes on planning after a run, and returns after an approval or when
\* its own budget is used up.
GoOn(c) ==
  IF status' = "running" /\ auto > 0
  THEN /\ Continue(c, "decide")
       /\ doing' = NoAction
       /\ outcome' = "none"
       /\ UNCHANGED auto
  ELSE Return(c)

\* The second transaction, for each kind of answer.  A read may find nothing to
\* refer to; a write names what it has made.
RecordSuccess(c) ==
  /\ pc[c] = "record"
  /\ outcome = "ok"
  /\ pending = doing
  /\ \E references \in SUBSET {doing} :
       /\ tool[doing] = "write" => references # {}
       /\ Observe("ok", references)
  /\ NoPending
  /\ status' = "running"
  /\ GoOn(c)
  /\ UNCHANGED <<steps, failures, final, actions, tool, approval, effects,
                 credential, interruptions>>

\* An asynchronous tool hands over to a read-only one, which the scheduler runs
\* after a delay.
RecordContinuation(c) ==
  /\ pc[c] = "record"
  /\ outcome = "continue"
  /\ pending = doing
  /\ Observe("ok", {doing})
  /\ NewAction("read")
  /\ due' = FALSE
  /\ status' = "waiting_for_external"
  /\ Return(c)
  /\ UNCHANGED <<steps, failures, final, approval, effects, credential, interruptions>>

\* Faulty variant: a tool that has failed is remembered like one that succeeded.
RecordError_AsSuccess(c) ==
  /\ pc[c] = "record"
  /\ outcome \in Errors
  /\ pending = doing
  /\ Observe("ok", {doing})
  /\ RecordFailure(outcome # "fatal")
  /\ NoPending
  /\ GoOn(c)
  /\ UNCHANGED <<steps, final, actions, tool, approval, effects, credential,
                 interruptions>>

\* The references of an error are remembered as well.
RecordError(c) ==
  /\ pc[c] = "record"
  /\ outcome \in Errors
  /\ pending = doing
  /\ Observe("error", IF outcome = "unclear" THEN {doing} ELSE {})
  /\ RecordFailure(outcome # "fatal")
  /\ NoPending
  /\ GoOn(c)
  /\ UNCHANGED <<steps, final, actions, tool, approval, effects, credential,
                 interruptions>>

\* Either transaction raises and rolls back; the call raises.
TransactionRaises(c) ==
  /\ "tx_error" \in Faults
  /\ pc[c] \in {"execute", "record"}
  /\ interruptions < MaxInterruptions
  /\ interruptions' = interruptions + 1
  /\ Return(c)
  /\ UNCHANGED <<task, effects, credential>>

-----------------------------------------------------------------------------
(* resume_ready_tasks.                                                     *)

\* Faulty variant: only tasks that wait for a wake-up are resumed.
Ready_OnlyWaiting == status = "waiting_for_external" /\ due

Ready ==
  \/ status = "waiting_for_external" /\ due
  \/ status = "running" /\ pending # NoAction

\* The query, which does not ask who is executing the action just now.
Select ==
  /\ pc[Scheduler] = "idle"
  /\ Ready
  /\ pc' = [pc EXCEPT ![Scheduler] = "selected"]
  /\ UNCHANGED <<task, effects, credential, interruptions, lock, auto, doing, outcome>>

\* _principal_for_resume.
CheckCredential ==
  /\ pc[Scheduler] = "selected"
  /\ pc' = [pc EXCEPT ![Scheduler] = IF credential THEN "authorized" ELSE "refused"]
  /\ UNCHANGED <<task, effects, credential, interruptions, lock, auto, doing, outcome>>

\* _fail_resume_authorization, whatever the task is doing by now.
FailAuthorization ==
  /\ pc[Scheduler] = "refused"
  /\ lock = Nobody
  /\ IF status \in Terminal
     THEN UNCHANGED <<status, pending, started, due>>
     ELSE status' = "failed" /\ NoPending
  /\ pc' = [pc EXCEPT ![Scheduler] = "idle"]
  /\ UNCHANGED <<steps, failures, observations, final, actions, tool, approval,
                 effects, credential, interruptions, lock, auto, doing, outcome>>

-----------------------------------------------------------------------------
(* The environment.                                                        *)

DelayPasses ==
  /\ status = "waiting_for_external"
  /\ ~due
  /\ due' = TRUE
  /\ UNCHANGED <<status, pending, started, steps, failures, observations, final,
                 actions, tool, approval, effects, credential, interruptions, call>>

Revoke ==
  /\ "revocation" \in Faults
  /\ credential
  /\ credential' = FALSE
  /\ UNCHANGED <<task, effects, interruptions, call>>

\* The process ends; the task and what the tools did survive.
Crash ==
  /\ interruptions < MaxInterruptions
  /\ interruptions' = interruptions + 1
  /\ pc' = [c \in Actors |-> "idle"]
  /\ lock' = Nobody
  /\ auto' = 0
  /\ doing' = NoAction
  /\ outcome' = "none"
  /\ UNCHANGED <<task, effects, credential>>

-----------------------------------------------------------------------------
UserNext(u) ==
  \/ SubmitInput(u)
  \/ Approve(u)
  \/ Reject(u)
  \/ Cancel(u)

\* A person may ask for fewer decisions than the budget of one call.
EnterRun(c) ==
  \E n \in IF c = Scheduler THEN {MaxAutoSteps} ELSE 1..MaxAutoSteps :
    EnterWithPending(c, n) \/ EnterPlanning(c, n)

\* The steps of a call that holds the lock.
CallProgress(c) ==
  \/ FailForBudget(c)
  \/ DecideRead(c)
  \/ DecideWrite(c)
  \/ AskUser(c)
  \/ GiveUp(c)
  \/ \E refs \in SUBSET Actions : Finish(c, refs)
  \/ FinishRefused(c)
  \/ Ambiguous(c)
  \/ StartTool(c)
  \/ \E answer \in Outcomes : RunTool(c, answer)
  \/ RecordSuccess(c)
  \/ RecordContinuation(c)
  \/ RecordError(c)

SchedulerNext ==
  \/ Select
  \/ CheckCredential
  \/ FailAuthorization
  \/ EnterRun(Scheduler)
  \/ NothingToRun

Next ==
  \/ \E u \in Users : UserNext(u)
  \/ \E u \in Users : EnterRun(u)
  \/ \E c \in Actors : CallProgress(c)
  \/ \E c \in Actors : ModelFails(c)
  \/ \E c \in Actors : TransactionRaises(c)
  \/ SchedulerNext
  \/ DelayPasses
  \/ Revoke
  \/ Crash

Spec == Init /\ [][Next]_vars

\* Threads that have begun a call go on, the scheduler polls, time passes.
\* Requests, faults and interruptions owe nothing.
Fairness ==
  /\ \A c \in Actors : WF_vars(CallProgress(c))
  /\ WF_vars(SchedulerNext)
  /\ WF_vars(DelayPasses)

FairSpec == Spec /\ Fairness
-----------------------------------------------------------------------------
(* Properties.                                                             *)

Statuses ==
  {"created", "running", "waiting_for_approval", "waiting_for_input",
   "waiting_for_external"} \cup Terminal

\* Type correctness of the whole state.
TypeOK ==
  /\ status \in Statuses
  /\ pending \in 0..actions
  /\ started \in BOOLEAN /\ due \in BOOLEAN
  /\ steps \in Nat
  /\ failures \in Nat
  /\ observations \in Seq(Remembered)
  /\ Len(observations) <= MaxObservations
  /\ final \in SUBSET Actions
  /\ actions \in 0..MaxActions
  /\ tool \in [Actions -> {"none", "read", "write"}]
  /\ approval \in [Actions -> {"none", "pending", "approved", "rejected"}]
  /\ effects \in [Actions -> 0..2]
  /\ credential \in BOOLEAN
  /\ interruptions \in 0..MaxInterruptions
  /\ lock \in Actors \cup {Nobody}
  /\ pc \in [Actors -> {"idle", "decide", "execute", "tool", "record",
                        "selected", "authorized", "refused"}]
  /\ auto \in 0..MaxAutoSteps
  /\ doing \in 0..actions
  /\ outcome \in Outcomes \cup {"none"}

\* A write takes effect at most once: not after a crash between the effect and
\* its record, not when the scheduler finds the action still pending, not when
\* two calls meet.
WriteHappensAtMostOnce ==
  \A a \in Actions : tool[a] = "write" => effects[a] <= 1

\* No write takes effect without a person's approval of this very action.
WriteWasApproved ==
  \A a \in Actions :
    tool[a] = "write" /\ effects[a] > 0 => approval[a] = "approved"

\* One approval, one write: however often an action is found pending, by people or
\* by the scheduler, and whatever crashes or is refused on the way.
WriteIsApprovedOnce == WriteHappensAtMostOnce /\ WriteWasApproved

\* The status and the pending action tell the same story: what waits for an
\* approval can still be approved, what runs unattended may run unattended, and
\* a task that plans, asks or has ended has nothing left to execute.
PendingAgrees ==
  /\ status = "waiting_for_approval" =>
       /\ pending # NoAction
       /\ tool[pending] = "write"
       /\ approval[pending] = "pending"
       /\ ~started
  /\ status = "waiting_for_external" => pending # NoAction /\ tool[pending] = "read"
  /\ status = "running" /\ pending # NoAction =>
       tool[pending] = "read" \/ approval[pending] = "approved"
  /\ status \in Terminal \cup {"created", "waiting_for_input"} => pending = NoAction

\* Nothing happens to a task that has ended, and none of its tools acts.
EndedIsFinal ==
  [][(status \in Terminal) => UNCHANGED <<task, effects>>]_vars

\* No task takes more decisions than its budget allows, whoever advances it, and
\* one that has not failed has used no more failures than it may survive.
BudgetHolds ==
  /\ steps <= MaxSteps
  /\ status # "failed" => failures <= MaxFailures
  /\ failures <= MaxFailures + 1

\* A completed task cites something, and whatever it cites comes from a tool that
\* has acted and is remembered to have said so: a write that is cited is one that
\* succeeded.  A read that is cited may have ended in an error: the code compares
\* references, not outcomes.
CompletedHasEvidence ==
  status = "completed" =>
    /\ final # {}
    /\ \A a \in final :
         /\ effects[a] > 0
         /\ \E i \in 1..Len(observations) :
              /\ a \in observations[i].refs
              /\ tool[a] = "write" => observations[i].outcome = "ok"

\* An action that is to run unattended does not stay pending: whoever began it
\* and whatever crashed, it is executed, recorded, given up or cancelled.
UnattendedResolves ==
  \A a \in Actions :
    pending = a /\ status \in {"running", "waiting_for_external"} ~> pending # a
=============================================================================
