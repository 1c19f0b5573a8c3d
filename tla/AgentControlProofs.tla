------------------------- MODULE AgentControlProofs -------------------------
(***************************************************************************)
(* Theorems about AgentControl, for every set of users, every budget, any  *)
(* number of actions and interruptions, and every set of faults.           *)
(***************************************************************************)
EXTENDS AgentControl, TLAPS

-----------------------------------------------------------------------------
(* The inductive invariant.                                                *)

\* The steps at which an actor is inside a call.
Executing == {"execute", "tool", "record"}
InCall == {"decide"} \cup Executing

\* The lock is held by the actor that is inside a call.
LockInv == \A c \in Actors : pc[c] \in InCall <=> lock = c

\* What the actor inside a call relies on from one transaction to the next.
HolderInv ==
  \A c \in Actors :
    /\ pc[c] = "decide" =>
         status \in {"created", "running"} /\ pending = NoAction /\ auto > 0
    /\ pc[c] \in Executing =>
         pending # NoAction /\ status \in {"running", "waiting_for_external"}
    /\ pc[c] \in {"tool", "record"} => doing = pending /\ started
    /\ pc[c] = "tool" /\ tool[pending] = "write" => effects[pending] = 0
    /\ pc[c] = "record" /\ outcome \in {"ok", "continue", "unclear"} =>
         effects[doing] > 0
    /\ pc[c] = "record" /\ outcome = "unclear" => tool[doing] = "read"

\* Identifiers that are not in use have no history.
FreshInv ==
  \A a \in Actions :
    a > actions => tool[a] = "none" /\ approval[a] = "none" /\ effects[a] = 0

\* A write that is pending and not marked as started has not taken effect.
MarkInv ==
  pending # NoAction /\ tool[pending] = "write" /\ ~started => effects[pending] = 0

\* Whatever an observation refers to has taken effect, and a write it refers to
\* has succeeded.
Proven(o) ==
  \A a \in o.refs : effects[a] > 0 /\ (tool[a] = "write" => o.outcome = "ok")
EvidenceInv ==
  \A i \in 1..Len(observations) : Proven(observations[i])

AgentInv ==
  /\ TypeOK
  /\ LockInv
  /\ HolderInv
  /\ PendingAgrees
  /\ FreshInv
  /\ MarkInv
  /\ WriteHappensAtMostOnce
  /\ WriteWasApproved
  /\ BudgetHolds
  /\ EvidenceInv
  /\ CompletedHasEvidence
-----------------------------------------------------------------------------
(* The shape of the steps.                                                 *)

\* The steps that a person, a lock holder and everybody else may take.
CallStep(c) ==
  CallProgress(c) \/ ModelFails(c) \/ TransactionRaises(c)
EntryStep(c) ==
  \E n \in 1..MaxAutoSteps : EnterWithPending(c, n) \/ EnterPlanning(c, n)
OutsideStep ==
  \/ NothingToRun \/ Select \/ CheckCredential \/ FailAuthorization
  \/ DelayPasses \/ Revoke \/ Crash

LEMMA StepKinds ==
  ASSUME [Next]_vars
  PROVE  \/ \E u \in Users : UserNext(u)
         \/ \E c \in Actors : EntryStep(c)
         \/ \E c \in Actors : CallStep(c)
         \/ OutsideStep
         \/ UNCHANGED vars
<1>1. ASSUME NEW c \in Actors, EnterRun(c)
      PROVE  EntryStep(c)
  BY <1>1, AgentAssumptions DEF EnterRun, EntryStep
<1>2. Users \subseteq Actors /\ Scheduler \in Actors
  BY DEF Actors
<1> QED
  BY <1>1, <1>2 DEF Next, SchedulerNext, CallStep, OutsideStep

\* A call step is one of a lock holder, who keeps the lock or frees it.
LEMMA CallShape ==
  ASSUME TypeOK, LockInv, NEW c \in Actors, CallStep(c)
  PROVE  /\ lock = c /\ pc[c] \in InCall
         /\ \A d \in Actors \ {c} : pc[d] \notin InCall /\ pc'[d] = pc[d]
         /\ \/ lock' = Nobody /\ pc'[c] = "idle"
            \/ lock' = c /\ pc'[c] \in InCall
<1>1. pc[c] \in InCall
  BY DEF CallStep, CallProgress, FailForBudget, ModelFails, DecideRead,
     DecideWrite, AskUser, GiveUp, Finish, FinishRefused, Ambiguous, StartTool,
     RunTool, RecordSuccess, RecordContinuation, RecordError,
     TransactionRaises, Decision, Deciding, InCall, Executing
<1>2. \/ Return(c)
      \/ \E step \in InCall : Continue(c, step)
  BY DEF CallStep, CallProgress, FailForBudget, ModelFails, DecideRead,
     DecideWrite, AskUser, GiveUp, Finish, FinishRefused, Ambiguous, StartTool,
     RunTool, RecordSuccess, RecordContinuation, RecordError,
     TransactionRaises, GoOn, InCall, Executing
<1>3. pc \in [Actors -> {"idle", "decide", "execute", "tool", "record",
                         "selected", "authorized", "refused"}]
  BY DEF TypeOK
<1> QED
  BY <1>1, <1>2, <1>3 DEF LockInv, Return, Continue

LEMMA LockStep ==
  ASSUME TypeOK, LockInv, [Next]_vars
  PROVE  LockInv'
<1>1. /\ pc \in [Actors -> {"idle", "decide", "execute", "tool", "record",
                            "selected", "authorized", "refused"}]
      /\ Nobody \notin Actors /\ Scheduler \in Actors /\ Users \subseteq Actors
  BY AgentAssumptions DEF TypeOK, Actors
<1>2. ASSUME NEW u \in Users, UserNext(u)
      PROVE  LockInv'
  BY <1>1, <1>2 DEF UserNext, SubmitInput, Approve, Reject, Cancel, Free,
     Continue, call, LockInv, InCall, Executing
<1>3. ASSUME NEW c \in Actors, EntryStep(c)
      PROVE  LockInv'
  BY <1>1, <1>3 DEF EntryStep, EnterWithPending, EnterPlanning, MayEnter,
     Continue, LockInv, InCall, Executing
<1>4. ASSUME NEW c \in Actors, CallStep(c)
      PROVE  LockInv'
  BY <1>1, <1>4, CallShape DEF LockInv, InCall, Executing
<1>5. CASE OutsideStep
  BY <1>1, <1>5 DEF OutsideStep, NothingToRun, Select, CheckCredential,
     FailAuthorization, DelayPasses, Revoke, Crash, MayEnter, call, LockInv,
     InCall, Executing
<1>6. CASE UNCHANGED vars
  BY <1>6 DEF vars, call, LockInv
<1> QED
  BY <1>2, <1>3, <1>4, <1>5, <1>6, StepKinds
-----------------------------------------------------------------------------
(* Type correctness.                                                       *)

LEMMA ObserveType ==
  ASSUME TypeOK, NEW answer \in {"ok", "error"}, NEW references \in SUBSET Actions,
         Observe(answer, references)
  PROVE  /\ observations' \in Seq(Remembered)
         /\ Len(observations') <= MaxObservations
<1> DEFINE new == [outcome |-> answer, refs |-> references]
<1>0. new \in Remembered
  BY DEF Remembered
<1>1. observations \in Seq(Remembered) /\ Len(observations) <= MaxObservations
  BY DEF TypeOK
<1> HIDE DEF new
<1>2. CASE Len(observations) < MaxObservations
  <2>1. observations' = Append(observations, new)
    BY <1>2 DEF Observe, new
  <2> QED
    BY <1>0, <1>1, <1>2, <2>1, AgentAssumptions
<1>3. CASE ~(Len(observations) < MaxObservations)
  <2>1. /\ observations' = Append(Tail(observations), new)
        /\ observations # <<>>
    BY <1>1, <1>3, AgentAssumptions DEF Observe, new
  <2> QED
    BY <1>0, <1>1, <2>1, AgentAssumptions
<1> QED
  BY <1>2, <1>3

LEMMA NewActionType ==
  ASSUME TypeOK, NEW t \in {"read", "write"}, NewAction(t)
  PROVE  /\ actions' = actions + 1 /\ actions' \in Actions
         /\ actions' \in 0..MaxActions
         /\ pending' = actions' /\ pending' \in 0..actions'
         /\ started' = FALSE
         /\ tool' = [tool EXCEPT ![actions'] = t]
         /\ tool' \in [Actions -> {"none", "read", "write"}]
BY AgentAssumptions DEF TypeOK, NewAction, Actions

\* The flags, the variables of the task, of the world, of the process.
FlagType ==
  started \in BOOLEAN /\ due \in BOOLEAN /\ credential \in BOOLEAN

TaskType ==
  /\ status \in Statuses
  /\ pending \in 0..actions
  /\ steps \in Nat
  /\ failures \in Nat
  /\ observations \in Seq(Remembered)
  /\ Len(observations) <= MaxObservations
  /\ final \in SUBSET Actions
  /\ actions \in 0..MaxActions
  /\ tool \in [Actions -> {"none", "read", "write"}]
  /\ approval \in [Actions -> {"none", "pending", "approved", "rejected"}]

WorldType ==
  /\ effects \in [Actions -> 0..2]
  /\ interruptions \in 0..MaxInterruptions

CallType ==
  /\ lock \in Actors \cup {Nobody}
  /\ pc \in [Actors -> {"idle", "decide", "execute", "tool", "record",
                        "selected", "authorized", "refused"}]
  /\ auto \in 0..MaxAutoSteps
  /\ doing \in 0..actions
  /\ outcome \in Outcomes \cup {"none"}

LEMMA TypeParts == TypeOK <=> FlagType /\ TaskType /\ WorldType /\ CallType
BY Zenon DEF TypeOK, FlagType, TaskType, WorldType, CallType

LEMMA FlagTypeStep ==
  ASSUME FlagType, [Next]_vars
  PROVE  FlagType'
<1> USE DEF FlagType
<1>1. ASSUME NEW u \in Users, UserNext(u)
      PROVE  FlagType'
  BY <1>1, Zenon DEF UserNext, SubmitInput, Approve, Reject, Cancel, NoPending
<1>2. ASSUME NEW c \in Actors, EntryStep(c)
      PROVE  FlagType'
  BY <1>2, Zenon DEF EntryStep, EnterWithPending, EnterPlanning, task
<1>3. CASE OutsideStep
  BY <1>3, Zenon DEF OutsideStep, NothingToRun, Select, CheckCredential,
     FailAuthorization, DelayPasses, Revoke, Crash, NoPending, task
<1>4. ASSUME NEW c \in Actors, CallStep(c)
      PROVE  FlagType'
  BY <1>4, Zenon DEF CallStep, CallProgress, FailForBudget, ModelFails,
     DecideRead, DecideWrite, AskUser, GiveUp, Finish, FinishRefused,
     Ambiguous, StartTool, RunTool, RecordSuccess, RecordContinuation,
     RecordError, TransactionRaises, Decision, NewAction, NoPending, task
<1>5. CASE UNCHANGED vars
  BY <1>5, Zenon DEF vars, task
<1> QED
  BY <1>1, <1>2, <1>3, <1>4, <1>5, StepKinds

LEMMA TaskTypeStep ==
  ASSUME TypeOK, HolderInv, [Next]_vars
  PROVE  TaskType' /\ actions' >= actions
<1> USE AgentAssumptions
<1>1. TaskType
  BY TypeParts
<1>2. ASSUME UNCHANGED <<actions, tool, steps, failures, observations, final>>,
             status' \in Statuses, pending' \in 0..actions,
             approval' \in [Actions -> {"none", "pending", "approved", "rejected"}]
      PROVE  TaskType' /\ actions' >= actions
  BY <1>1, <1>2 DEF TaskType
<1>3. ASSUME UNCHANGED task
      PROVE  TaskType' /\ actions' >= actions
  BY <1>1, <1>3 DEF task, TaskType
<1>4. ASSUME NEW u \in Users, UserNext(u)
      PROVE  TaskType' /\ actions' >= actions
  <2>1. CASE SubmitInput(u) \/ Cancel(u)
    BY <1>1, <1>2, <2>1 DEF SubmitInput, Cancel, NoPending, NoAction, TaskType,
       Statuses, Terminal
  <2>2. CASE Approve(u)
    <3>1. pending \in Actions
      BY <1>1, <2>2 DEF Approve, TaskType, Actions, NoAction
    <3> QED
      BY <1>1, <1>2, <2>2, <3>1 DEF Approve, TaskType, Statuses
  <2>3. CASE Reject(u)
    <3>1. /\ observations' \in Seq(Remembered)
          /\ Len(observations') <= MaxObservations
      BY <2>3, ObserveType DEF Reject
    <3>2. pending \in Actions
      BY <1>1, <2>3 DEF Reject, TaskType, Actions, NoAction
    <3>3. approval' \in [Actions -> {"none", "pending", "approved", "rejected"}]
      BY <1>1, <2>3, <3>2 DEF Reject, TaskType
    <3> QED
      BY <1>1, <2>3, <3>1, <3>3 DEF Reject, NoPending, NoAction, TaskType, Statuses
  <2> QED
    BY <1>4, <2>1, <2>2, <2>3 DEF UserNext
<1>5. ASSUME NEW c \in Actors, EntryStep(c)
      PROVE  TaskType' /\ actions' >= actions
  BY <1>3, <1>5 DEF EntryStep, EnterWithPending, EnterPlanning
<1>6. CASE OutsideStep
  BY SMTT(20), <1>1, <1>2, <1>3, <1>6 DEF OutsideStep, NothingToRun, Select,
     CheckCredential, FailAuthorization, DelayPasses, Revoke, Crash, NoPending,
     NoAction, TaskType, Statuses, Terminal
<1>7. ASSUME NEW c \in Actors, CallStep(c)
      PROVE  TaskType' /\ actions' >= actions
  <2>1. CASE FailForBudget(c)
    BY <1>1, <1>2, <2>1 DEF FailForBudget, NoPending, NoAction, TaskType,
       Statuses, Terminal
  <2>2. CASE ModelFails(c)
    BY <1>1, <2>2 DEF ModelFails, RecordFailure, TaskType, Statuses, Terminal
  <2>3. CASE DecideRead(c)
    <3>1. NewAction("read")
      BY <2>3 DEF DecideRead
    <3> QED
      BY <1>1, <2>3, <3>1, NewActionType DEF DecideRead, Decision, TaskType, Statuses
  <2>4. CASE DecideWrite(c)
    <3>1. NewAction("write")
      BY <2>4 DEF DecideWrite
    <3> QED
      BY <1>1, <2>4, <3>1, NewActionType DEF DecideWrite, Decision, TaskType, Statuses
  <2>5. CASE AskUser(c) \/ GiveUp(c)
    BY <1>1, <2>5 DEF AskUser, GiveUp, Decision, TaskType, Statuses, Terminal
  <2>6. CASE \E refs \in SUBSET Actions : Finish(c, refs)
    BY <1>1, <2>6 DEF Finish, Decision, TaskType, Statuses, Terminal
  <2>7. CASE FinishRefused(c)
    BY <1>1, <2>7 DEF FinishRefused, Decision, RecordFailure, TaskType, Statuses,
       Terminal
  <2>8. CASE Ambiguous(c) \/ RecordError(c)
    <3>1. PICK references \in SUBSET Actions : Observe("error", references)
      <4>1. CASE Ambiguous(c)
        BY <4>1 DEF Ambiguous
      <4>2. CASE RecordError(c)
        <5>1. doing \in Actions
          BY <1>1, <4>2 DEF RecordError, HolderInv, Executing, TaskType, Actions, NoAction
        <5> QED
          BY <4>2, <5>1 DEF RecordError
      <4> QED
        BY <2>8, <4>1, <4>2
    <3>2. /\ observations' \in Seq(Remembered)
          /\ Len(observations') <= MaxObservations
      BY <3>1, ObserveType
    <3> QED
      BY <1>1, <2>8, <3>2 DEF Ambiguous, RecordError, RecordFailure, NoPending,
         NoAction, TaskType, Statuses, Terminal
  <2>9. CASE StartTool(c)
    BY <1>1, <1>2, <2>9 DEF StartTool, TaskType
  <2>10. CASE \/ \E answer \in Outcomes : RunTool(c, answer)
              \/ TransactionRaises(c)
    BY <1>3, <2>10 DEF RunTool, TransactionRaises
  <2>11. CASE RecordSuccess(c) \/ RecordContinuation(c)
    <3>1. doing \in Actions
      BY <1>1, <2>11 DEF RecordSuccess, RecordContinuation, HolderInv, Executing,
         TaskType, Actions, NoAction
    <3>2. PICK references \in SUBSET Actions : Observe("ok", references)
      BY <2>11, <3>1 DEF RecordSuccess, RecordContinuation
    <3>3. /\ observations' \in Seq(Remembered)
          /\ Len(observations') <= MaxObservations
      BY <3>2, ObserveType
    <3>4. CASE RecordSuccess(c)
      BY <1>1, <3>3, <3>4 DEF RecordSuccess, NoPending, NoAction, TaskType, Statuses
    <3>5. CASE RecordContinuation(c)
      <4>1. NewAction("read")
        BY <3>5 DEF RecordContinuation
      <4> QED
        BY <1>1, <3>3, <3>5, <4>1, NewActionType
           DEF RecordContinuation, TaskType, Statuses
    <3> QED
      BY <2>11, <3>4, <3>5
  <2> QED
    BY <1>7, <2>1, <2>2, <2>3, <2>4, <2>5, <2>6, <2>7, <2>8, <2>9, <2>10, <2>11
       DEF CallStep, CallProgress
<1>8. CASE UNCHANGED vars
  BY <1>3, <1>8 DEF vars
<1> QED
  BY <1>4, <1>5, <1>6, <1>7, <1>8, StepKinds

LEMMA WorldTypeStep ==
  ASSUME TypeOK, [Next]_vars
  PROVE  WorldType' /\ \A a \in Actions : effects'[a] >= effects[a]
<1> USE AgentAssumptions
<1>1. WorldType
  BY TypeParts
<1>2. ASSUME UNCHANGED effects,
             interruptions' \in 0..MaxInterruptions
      PROVE  WorldType' /\ \A a \in Actions : effects'[a] >= effects[a]
  BY <1>1, <1>2 DEF WorldType
<1>3. CASE \E u \in Users : UserNext(u)
  BY <1>1, <1>2, <1>3 DEF UserNext, SubmitInput, Approve, Reject, Cancel, WorldType
<1>4. CASE \E c \in Actors : EntryStep(c)
  BY <1>1, <1>2, <1>4 DEF EntryStep, EnterWithPending, EnterPlanning, WorldType
<1>5. CASE OutsideStep
  BY <1>1, <1>2, <1>5 DEF OutsideStep, NothingToRun, Select, CheckCredential,
     FailAuthorization, DelayPasses, Revoke, Crash, WorldType
<1>6. ASSUME NEW c \in Actors, CallStep(c)
      PROVE  WorldType' /\ \A a \in Actions : effects'[a] >= effects[a]
  <2>1. CASE \E answer \in Outcomes : RunTool(c, answer)
    <3>1. \/ effects' = [effects EXCEPT ![doing] = IF @ = 2 THEN 2 ELSE @ + 1]
          \/ effects' = effects
      BY <2>1 DEF RunTool
    <3>2. effects' \in [Actions -> 0..2] /\ \A a \in Actions : effects'[a] >= effects[a]
      BY <1>1, <3>1 DEF WorldType
    <3> QED
      BY <1>1, <2>1, <3>2 DEF RunTool, WorldType
  <2>2. CASE TransactionRaises(c)
    BY <1>1, <1>2, <2>2 DEF TransactionRaises, WorldType
  <2>3. CASE \/ FailForBudget(c) \/ ModelFails(c) \/ DecideRead(c) \/ DecideWrite(c)
             \/ AskUser(c) \/ GiveUp(c) \/ \E refs \in SUBSET Actions : Finish(c, refs)
             \/ FinishRefused(c) \/ Ambiguous(c) \/ StartTool(c) \/ RecordSuccess(c)
             \/ RecordContinuation(c) \/ RecordError(c)
    <3>1. UNCHANGED <<effects, interruptions>>
      BY <2>3 DEF FailForBudget, ModelFails, DecideRead, DecideWrite, AskUser,
         GiveUp, Finish, FinishRefused, Ambiguous, StartTool, RecordSuccess,
         RecordContinuation, RecordError, Decision
    <3> QED
      BY <1>1, <1>2, <3>1 DEF WorldType
  <2> QED
    BY <1>6, <2>1, <2>2, <2>3 DEF CallStep, CallProgress
<1>7. CASE UNCHANGED vars
  BY <1>1, <1>2, <1>7 DEF vars, WorldType
<1> QED
  BY <1>3, <1>4, <1>5, <1>6, <1>7, StepKinds

LEMMA CallTypeStep ==
  ASSUME TypeOK, HolderInv, actions' \in Nat, actions' >= actions, [Next]_vars
  PROVE  CallType'
<1> USE AgentAssumptions DEF InCall, Executing
<1> DEFINE Points == {"idle", "decide", "execute", "tool", "record",
                      "selected", "authorized", "refused"}
<1>1. /\ CallType /\ actions \in Nat /\ pending \in 0..actions
      /\ Users \subseteq Actors /\ Scheduler \in Actors
  BY TypeParts DEF TaskType, Actors
<1>2. ASSUME UNCHANGED <<auto, doing, outcome>>,
             NEW c \in Actors, NEW step \in Points, pc' = [pc EXCEPT ![c] = step],
             lock' \in Actors \cup {Nobody}
      PROVE  CallType'
  BY <1>1, <1>2 DEF CallType
<1>3. ASSUME NEW c \in Actors, Return(c)
      PROVE  CallType'
  BY <1>1, <1>3 DEF CallType, Return, NoAction
<1>4. ASSUME NEW c \in Actors, NEW step \in Points, Continue(c, step),
             auto' \in 0..MaxAutoSteps, doing' \in 0..actions,
             outcome' \in Outcomes \cup {"none"}
      PROVE  CallType'
  BY <1>1, <1>4 DEF CallType, Continue
<1>5. ASSUME UNCHANGED call
      PROVE  CallType'
  BY <1>1, <1>5 DEF call, CallType
<1>6. CASE \E u \in Users : UserNext(u)
  <2>1. CASE \E u \in Users : Approve(u)
    <3>1. PICK u \in Users : Approve(u)
      BY <2>1
    <3>2. auto' \in 0..MaxAutoSteps /\ UNCHANGED <<doing, outcome>>
      BY <3>1 DEF Approve
    <3> QED
      BY <1>1, <1>4, <3>1, <3>2 DEF Approve, CallType
  <2>2. CASE \E u \in Users : SubmitInput(u) \/ Reject(u) \/ Cancel(u)
    BY <1>5, <2>2 DEF SubmitInput, Reject, Cancel
  <2> QED
    BY <1>6, <2>1, <2>2 DEF UserNext
<1>7. ASSUME NEW c \in Actors, EntryStep(c)
      PROVE  CallType'
  BY <1>1, <1>4, <1>7 DEF EntryStep, EnterWithPending, EnterPlanning, CallType
<1>8. CASE OutsideStep
  <2>1. CASE Crash
    BY <1>1, <2>1 DEF Crash, CallType, NoAction
  <2>2. CASE NothingToRun \/ Select \/ CheckCredential \/ FailAuthorization
    BY <1>1, <1>2, <2>2 DEF NothingToRun, Select, CheckCredential,
       FailAuthorization, CallType
  <2>3. CASE DelayPasses \/ Revoke
    BY <1>5, <2>3 DEF DelayPasses, Revoke
  <2> QED
    BY <1>8, <2>1, <2>2, <2>3 DEF OutsideStep
<1>9. ASSUME NEW c \in Actors, CallStep(c)
      PROVE  CallType'
  <2>1. CASE DecideRead(c)
    <3>1. auto' \in 0..MaxAutoSteps
      BY <1>1, <2>1 DEF DecideRead, Decision, Deciding, HolderInv, CallType
    <3> QED
      BY <1>1, <1>4, <2>1, <3>1 DEF DecideRead, CallType
  <2>2. CASE StartTool(c) \/ \E answer \in Outcomes : RunTool(c, answer)
    BY <1>1, <1>4, <2>2 DEF StartTool, RunTool, CallType
  <2>3. CASE RecordSuccess(c) \/ RecordError(c)
    <3>1. Return(c) \/ ( /\ Continue(c, "decide") /\ UNCHANGED auto
                         /\ doing' = NoAction /\ outcome' = "none")
      BY <2>3 DEF RecordSuccess, RecordError, GoOn
    <3> QED
      BY <1>1, <1>3, <1>4, <3>1 DEF CallType, NoAction
  <2>4. CASE \/ FailForBudget(c) \/ ModelFails(c) \/ DecideWrite(c) \/ AskUser(c)
             \/ GiveUp(c) \/ \E refs \in SUBSET Actions : Finish(c, refs)
             \/ FinishRefused(c) \/ Ambiguous(c) \/ RecordContinuation(c)
             \/ TransactionRaises(c)
    BY <1>3, <2>4 DEF FailForBudget, ModelFails, DecideWrite, AskUser, GiveUp,
       Finish, FinishRefused, Ambiguous, RecordContinuation, TransactionRaises
  <2> QED
    BY <1>9, <2>1, <2>2, <2>3, <2>4 DEF CallStep, CallProgress
<1>10. CASE UNCHANGED vars
  BY <1>5, <1>10 DEF vars
<1> QED
  BY <1>6, <1>7, <1>8, <1>9, <1>10, StepKinds

LEMMA TypeStep ==
  ASSUME TypeOK, HolderInv, [Next]_vars
  PROVE  TypeOK'
<1>1. FlagType' /\ TaskType' /\ actions' >= actions /\ WorldType'
  BY TypeParts, FlagTypeStep, TaskTypeStep, WorldTypeStep
<1>2. actions' \in Nat
  BY <1>1, AgentAssumptions DEF TaskType
<1>3. CallType'
  BY <1>1, <1>2, CallTypeStep
<1> QED
  BY <1>1, <1>3 DEF TypeOK, FlagType, TaskType, WorldType, CallType
-----------------------------------------------------------------------------
(* What the holder of the lock relies on.                                  *)

LEMMA HolderStep ==
  ASSUME TypeOK, LockInv, HolderInv, PendingAgrees, FreshInv, MarkInv, [Next]_vars
  PROVE  HolderInv'
<1> USE AgentAssumptions DEF InCall, Executing
<1>1. /\ TaskType /\ WorldType /\ CallType
      /\ Users \subseteq Actors /\ Scheduler \in Actors /\ Nobody \notin Actors
  BY TypeParts DEF Actors
<1>2. ASSUME \A d \in Actors : pc'[d] \notin InCall
      PROVE  HolderInv'
  BY <1>2 DEF HolderInv
<1>3. ASSUME lock = Nobody
      PROVE  \A d \in Actors : pc[d] \notin InCall
  BY <1>1, <1>3 DEF LockInv
<1>4. ASSUME UNCHANGED <<status, pending, started, tool, effects, auto, doing, outcome>>,
             \A d \in Actors : pc'[d] \in InCall => pc'[d] = pc[d]
      PROVE  HolderInv'
  BY <1>4 DEF HolderInv
<1>5. ASSUME NEW u \in Users, UserNext(u)
      PROVE  HolderInv'
  <2>1. CASE Approve(u)
    BY <1>1, <1>3, <2>1 DEF Approve, Free, Continue, HolderInv, CallType
  <2>2. CASE SubmitInput(u) \/ Reject(u) \/ Cancel(u)
    BY <1>2, <1>3, <2>2 DEF SubmitInput, Reject, Cancel, Free, call
  <2> QED
    BY <1>5, <2>1, <2>2 DEF UserNext
<1>6. ASSUME NEW c \in Actors, EntryStep(c)
      PROVE  HolderInv'
  BY <1>1, <1>3, <1>6 DEF EntryStep, EnterWithPending, EnterPlanning, MayEnter,
     Continue, HolderInv, CallType, task
<1>7. CASE OutsideStep
  <2>1. CASE Crash
    BY <1>2, <2>1 DEF Crash
  <2>2. CASE FailAuthorization
    BY <1>1, <1>2, <1>3, <2>2 DEF FailAuthorization, CallType
  <2>3. CASE NothingToRun \/ Select \/ CheckCredential
    BY <1>1, <1>4, <2>3 DEF NothingToRun, Select, CheckCredential, CallType, task
  <2>4. CASE DelayPasses \/ Revoke
    BY <1>4, <2>4 DEF DelayPasses, Revoke, call, task
  <2> QED
    BY <1>7, <2>1, <2>2, <2>3, <2>4 DEF OutsideStep
<1>8. ASSUME NEW c \in Actors, CallStep(c)
      PROVE  HolderInv'
  <2>1. \A d \in Actors \ {c} : pc'[d] \notin InCall
    BY <1>8, CallShape
  <2>2. ASSUME pc'[c] = "idle"
        PROVE  HolderInv'
    BY <1>2, <2>1, <2>2
  <2>3. CASE DecideRead(c)
    <3>1. /\ pending' # NoAction /\ status' = "running" /\ pc'[c] = "execute"
      BY <1>1, <2>3, NewActionType DEF DecideRead, Continue, Actions, NoAction, CallType
    <3> QED
      BY <2>1, <3>1 DEF HolderInv
  <2>4. CASE StartTool(c)
    <3>1. /\ pc[c] = "execute" /\ pc'[c] = "tool" /\ doing' = pending
          /\ UNCHANGED <<status, pending, tool, effects>> /\ started' = TRUE
          /\ started => tool[pending] = "read"
      BY <1>1, <2>4 DEF StartTool, Continue, CallType, Idempotent
    <3>2. /\ pending' # NoAction /\ status' \in {"running", "waiting_for_external"}
          /\ tool'[pending'] = "write" => effects'[pending'] = 0
      BY <3>1 DEF HolderInv, MarkInv
    <3> QED
      BY <2>1, <3>1, <3>2 DEF HolderInv
  <2>5. ASSUME NEW answer \in Outcomes, RunTool(c, answer)
        PROVE  HolderInv'
    <3>1. /\ pc[c] = "tool" /\ pc'[c] = "record" /\ outcome' = answer
          /\ UNCHANGED <<status, pending, tool, doing, started>>
      BY <1>1, <2>5 DEF RunTool, Continue, CallType, task
    <3>2. doing = pending /\ doing \in Actions
      BY <1>1, <3>1 DEF HolderInv, Actions, NoAction, TaskType
    <3>3. /\ answer \in {"ok", "continue", "unclear"} => effects'[doing] > 0
          /\ answer = "unclear" => tool[doing] = "read"
      BY <1>1, <2>5, <3>2 DEF RunTool, WorldType
    <3> QED
      BY <2>1, <3>1, <3>3 DEF HolderInv
  <2>6. CASE RecordSuccess(c) \/ RecordError(c)
    <3>1. /\ pending' = NoAction
          /\ \/ pc'[c] = "idle"
             \/ pc'[c] = "decide" /\ status' = "running" /\ auto' > 0
      BY <1>1, <2>6 DEF RecordSuccess, RecordError, NoPending, GoOn, Return, Continue,
         CallType
    <3> QED
      BY <2>1, <2>2, <3>1 DEF HolderInv
  <2>7. CASE \/ FailForBudget(c) \/ ModelFails(c) \/ DecideWrite(c) \/ AskUser(c)
             \/ GiveUp(c) \/ \E refs \in SUBSET Actions : Finish(c, refs)
             \/ FinishRefused(c) \/ Ambiguous(c) \/ RecordContinuation(c)
             \/ TransactionRaises(c)
    <3>1. Return(c)
      BY <2>7 DEF FailForBudget, ModelFails, DecideWrite, AskUser, GiveUp,
         Finish, FinishRefused, Ambiguous, RecordContinuation, TransactionRaises
    <3> QED
      BY <1>1, <2>2, <3>1 DEF Return, CallType
  <2> QED
    BY <1>8, <2>3, <2>4, <2>5, <2>6, <2>7 DEF CallStep, CallProgress
<1>9. CASE UNCHANGED vars
  BY <1>4, <1>9 DEF vars, task, call
<1> QED
  BY <1>5, <1>6, <1>7, <1>8, <1>9, StepKinds
-----------------------------------------------------------------------------
(* What the task and the world agree on.                                   *)

\* The ways in which a step changes the pending action, its mark, its approval
\* and its effect: not at all, by an approval, by clearing it, by a new action,
\* by marking it, by acting.
Keeps == UNCHANGED <<pending, started, actions, tool, approval, effects>>
Approves ==
  /\ status = "waiting_for_approval" /\ status' = "running"
  /\ pending \in Actions /\ approval[pending] = "pending"
  /\ approval' = [approval EXCEPT ![pending] = "approved"]
  /\ UNCHANGED <<pending, started, actions, tool, effects>>
Clears ==
  /\ pending' = NoAction
  /\ \/ UNCHANGED approval
     \/ /\ pending \in Actions /\ approval[pending] = "pending"
        /\ approval' = [approval EXCEPT ![pending] = "rejected"]
  /\ UNCHANGED <<actions, tool, effects>>
Proposes(t) ==
  /\ NewAction(t) /\ UNCHANGED effects
  /\ \/ t = "read" /\ UNCHANGED approval
        /\ status' \in {"running", "waiting_for_external"}
     \/ t = "write" /\ approval' = [approval EXCEPT ![actions'] = "pending"]
        /\ status' = "waiting_for_approval"
Marks ==
  /\ started' = TRUE /\ pending # NoAction
  /\ status \in {"running", "waiting_for_external"}
  /\ UNCHANGED <<status, pending, actions, tool, approval, effects>>
Acts ==
  /\ pending \in Actions /\ started
  /\ status \in {"running", "waiting_for_external"}
  /\ tool[pending] = "write" => effects[pending] = 0
  /\ effects' = [effects EXCEPT ![pending] = IF @ = 2 THEN 2 ELSE @ + 1]
  /\ UNCHANGED <<status, pending, started, actions, tool, approval>>

LEMMA PendingEffect ==
  ASSUME TypeOK, HolderInv, PendingAgrees, [Next]_vars
  PROVE  \/ Keeps /\ (status' = status \/ pending = NoAction)
                  /\ (status' # status => status' \in {"running", "waiting_for_input"} \cup Terminal)
         \/ Approves
         \/ Clears /\ status' \in {"running"} \cup Terminal
         \/ \E t \in {"read", "write"} : Proposes(t)
         \/ Marks
         \/ Acts
<1> USE AgentAssumptions
<1>1. TaskType /\ WorldType /\ CallType
  BY TypeParts
<1>2. CASE UNCHANGED <<task, effects>>
  BY <1>2 DEF task, Keeps
<1>3. ASSUME NEW u \in Users, UserNext(u)
      PROVE  \/ Keeps /\ pending = NoAction /\ status' = "running"
             \/ Approves
             \/ Clears /\ status' \in {"running"} \cup Terminal
  <2>1. pending # NoAction => pending \in Actions
    BY <1>1 DEF TaskType, Actions, NoAction
  <2>2. CASE SubmitInput(u)
    BY <2>2 DEF SubmitInput, Keeps, PendingAgrees
  <2>3. CASE Approve(u)
    BY <2>1, <2>3 DEF Approve, Approves
  <2>4. CASE Reject(u) \/ Cancel(u)
    BY <2>1, <2>4 DEF Reject, Cancel, Clears, NoPending, Terminal
  <2> QED
    BY <1>3, <2>2, <2>3, <2>4 DEF UserNext
<1>4. CASE \E c \in Actors : EntryStep(c)
  BY <1>2, <1>4 DEF EntryStep, EnterWithPending, EnterPlanning
<1>5. CASE OutsideStep
  <2>1. CASE FailAuthorization
    BY <2>1 DEF FailAuthorization, Keeps, Clears, NoPending, Terminal
  <2>2. CASE DelayPasses
    BY <2>2 DEF DelayPasses, Keeps
  <2>3. CASE NothingToRun \/ Select \/ CheckCredential \/ Revoke \/ Crash
    BY <1>2, <2>3 DEF NothingToRun, Select, CheckCredential, Revoke, Crash
  <2> QED
    BY <1>5, <2>1, <2>2, <2>3 DEF OutsideStep
<1>6. ASSUME NEW c \in Actors, CallStep(c)
      PROVE  \/ Keeps /\ (status' = status \/ pending = NoAction)
                  /\ (status' # status => status' \in {"running", "waiting_for_input"} \cup Terminal)
             \/ Clears /\ status' \in {"running"} \cup Terminal
             \/ \E t \in {"read", "write"} : Proposes(t)
             \/ Marks
             \/ Acts
  <2>1. /\ pc[c] = "decide" => pending = NoAction
        /\ pc[c] \in Executing => pending \in Actions
        /\ pc[c] \in Executing => status \in {"running", "waiting_for_external"}
    BY <1>1 DEF HolderInv, TaskType, Actions, NoAction
  <2>2. CASE ModelFails(c) \/ FinishRefused(c)
    BY <2>1, <2>2 DEF ModelFails, FinishRefused, Decision, Deciding,
       RecordFailure, Keeps, Terminal
  <2>3. CASE AskUser(c) \/ GiveUp(c) \/ \E refs \in SUBSET Actions : Finish(c, refs)
    BY <2>1, <2>3 DEF AskUser, GiveUp, Finish, Decision, Deciding, Keeps, Terminal
  <2>4. CASE DecideRead(c)
    BY <2>4 DEF DecideRead, Decision, Proposes
  <2>5. CASE DecideWrite(c)
    BY <2>5 DEF DecideWrite, Decision, Proposes
  <2>6. CASE FailForBudget(c) \/ Ambiguous(c) \/ RecordError(c) \/ RecordSuccess(c)
    BY <2>6 DEF FailForBudget, Ambiguous, RecordError, RecordSuccess, RecordFailure,
       NoPending, Clears, Terminal
  <2>7. CASE RecordContinuation(c)
    BY <2>7 DEF RecordContinuation, Proposes
  <2>8. CASE StartTool(c)
    <3>1. pending \in Actions /\ status \in {"running", "waiting_for_external"}
      BY <2>1, <2>8 DEF StartTool, Executing
    <3> QED
      BY <2>8, <3>1 DEF StartTool, Marks, Actions, NoAction
  <2>9. CASE \E answer \in Outcomes : RunTool(c, answer)
    <3>1. /\ pc[c] = "tool" /\ doing = pending /\ started
          /\ tool[pending] = "write" => effects[pending] = 0
      BY <2>9 DEF RunTool, HolderInv
    <3>2. /\ UNCHANGED task
          /\ \/ effects' = [effects EXCEPT ![doing] = IF @ = 2 THEN 2 ELSE @ + 1]
             \/ UNCHANGED effects
      BY <2>9 DEF RunTool
    <3> QED
      BY <2>1, <3>1, <3>2 DEF Acts, Keeps, task, Executing
  <2>10. CASE TransactionRaises(c)
    BY <2>10 DEF TransactionRaises, task, Keeps
  <2> QED
    BY <1>6, <2>2, <2>3, <2>4, <2>5, <2>6, <2>7, <2>8, <2>9, <2>10
       DEF CallStep, CallProgress
<1>7. CASE UNCHANGED vars
  BY <1>2, <1>7 DEF vars
<1> QED
  BY <1>3, <1>4, <1>5, <1>6, <1>7, StepKinds DEF Terminal

\* No write acts twice or without approval, and status and pending action agree,
\* because of what each of these effects may be.
LEMMA WriteStep ==
  ASSUME TypeOK, TypeOK', HolderInv, PendingAgrees, FreshInv, MarkInv,
         WriteHappensAtMostOnce, WriteWasApproved, [Next]_vars
  PROVE  /\ PendingAgrees' /\ FreshInv' /\ MarkInv'
         /\ WriteHappensAtMostOnce' /\ WriteWasApproved'
<1>1. /\ TaskType /\ WorldType /\ NoAction \notin Actions
      /\ \A a \in Actions : a \in Nat /\ effects[a] \in Nat
  BY TypeParts, AgentAssumptions DEF WorldType, Actions, NoAction
<1> USE DEF PendingAgrees, FreshInv, MarkInv, WriteHappensAtMostOnce, WriteWasApproved
<1>2. CASE Keeps /\ (status' = status \/ pending = NoAction)
                 /\ (status' # status => status' \in {"running", "waiting_for_input"} \cup Terminal)
  BY <1>1, <1>2 DEF Keeps, Terminal
<1>3. CASE Approves
  <2>1. PendingAgrees'
    BY <1>1, <1>3 DEF Approves, TaskType, Terminal
  <2>2. FreshInv'
    BY <1>1, <1>3 DEF Approves, TaskType
  <2> QED
    BY <1>1, <1>3, <2>1, <2>2 DEF Approves, TaskType
<1>4. CASE Clears /\ status' \in {"running"} \cup Terminal
  <2>1. PendingAgrees' /\ MarkInv'
    BY <1>1, <1>4 DEF Clears, Terminal
  <2>2. FreshInv' /\ WriteHappensAtMostOnce' /\ WriteWasApproved'
    BY <1>1, <1>4 DEF Clears, TaskType
  <2> QED
    BY <2>1, <2>2
<1>5. ASSUME NEW t \in {"read", "write"}, Proposes(t)
      PROVE  /\ PendingAgrees' /\ FreshInv' /\ MarkInv'
             /\ WriteHappensAtMostOnce' /\ WriteWasApproved'
  <2>1. /\ actions' = actions + 1 /\ actions' \in Actions /\ actions \in Nat
        /\ pending' = actions' /\ started' = FALSE
        /\ tool' = [tool EXCEPT ![actions'] = t]
        /\ UNCHANGED effects
    <3>1. NewAction(t) /\ UNCHANGED effects
      BY <1>5, Zenon DEF Proposes
    <3>2. actions \in Nat
      BY <1>1, AgentAssumptions DEF TaskType
    <3>3. /\ actions' = actions + 1 /\ actions' \in Actions
          /\ pending' = actions' /\ started' = FALSE
          /\ tool' = [tool EXCEPT ![actions'] = t]
      BY <3>1, NewActionType, Zenon
    <3> QED
      BY <3>1, <3>2, <3>3, Zenon
  <2>2. effects[actions'] = 0 /\ tool[actions'] = "none" /\ approval[actions'] = "none"
    BY <2>1
  <2>3. /\ tool'[actions'] = t
        /\ \A a \in Actions \ {actions'} : tool'[a] = tool[a] /\ approval'[a] = approval[a]
    BY <1>1, <1>5, <2>1 DEF Proposes, TaskType
  <2>4. PendingAgrees'
    BY <1>1, <1>5, <2>1, <2>3 DEF Proposes, TaskType, Terminal
  <2>5. FreshInv'
    BY <1>1, <2>1, <2>3
  <2>6. MarkInv' /\ WriteHappensAtMostOnce' /\ WriteWasApproved'
    BY <1>1, <2>1, <2>2, <2>3
  <2> QED
    BY <2>4, <2>5, <2>6
<1>6. CASE Marks
  BY <1>1, <1>6 DEF Marks
<1>7. CASE Acts
  <2>1. /\ pending \in Actions /\ started /\ UNCHANGED <<status, pending, started, actions, tool, approval>>
        /\ status \in {"running", "waiting_for_external"}
        /\ \A a \in Actions \ {pending} : effects'[a] = effects[a]
        /\ tool[pending] = "write" => effects'[pending] = 1
    BY <1>1, <1>7 DEF Acts, WorldType
  <2>2. tool[pending] = "write" => approval[pending] = "approved"
    BY <1>1, <2>1
  <2>3. ~(pending > actions)
    BY <1>1 DEF TaskType
  <2> QED
    BY <1>1, <2>1, <2>2, <2>3
<1> QED
  BY <1>2, <1>3, <1>4, <1>5, <1>6, <1>7, PendingEffect
-----------------------------------------------------------------------------
(* Budgets and evidence.                                                   *)

LEMMA BudgetStep ==
  ASSUME TypeOK, HolderInv, BudgetHolds, [Next]_vars
  PROVE  BudgetHolds'
<1> USE AgentAssumptions DEF BudgetHolds
<1>1. steps \in Nat /\ failures \in Nat
  BY DEF TypeOK
<1>2. ASSUME UNCHANGED <<steps, failures>>, status = "failed" => status' = "failed"
      PROVE  BudgetHolds'
  BY <1>2
<1>3. ASSUME steps' \in {steps, steps + 1}, steps < MaxSteps \/ steps' = steps,
             status # "failed", NEW retryable \in BOOLEAN, RecordFailure(retryable)
      PROVE  BudgetHolds'
  BY <1>1, <1>3 DEF RecordFailure
<1>4. CASE \E u \in Users : UserNext(u)
  BY <1>2, <1>4 DEF UserNext, SubmitInput, Approve, Reject, Cancel, Terminal
<1>5. CASE \E c \in Actors : EntryStep(c)
  BY <1>2, <1>5 DEF EntryStep, EnterWithPending, EnterPlanning, task
<1>6. CASE OutsideStep
  BY <1>2, <1>6 DEF OutsideStep, NothingToRun, Select, CheckCredential,
     FailAuthorization, DelayPasses, Revoke, Crash, task, Terminal
<1>7. ASSUME NEW c \in Actors, CallStep(c)
      PROVE  BudgetHolds'
  <2>1. pc[c] \in {"decide"} \cup Executing => status # "failed"
    BY DEF HolderInv, Executing
  <2>2. CASE ModelFails(c) \/ FinishRefused(c)
    <3>1. RecordFailure(TRUE) /\ steps < MaxSteps /\ steps' \in {steps, steps + 1}
          /\ pc[c] = "decide"
      BY <2>2 DEF ModelFails, FinishRefused, Decision, Deciding
    <3> QED
      BY <1>3, <2>1, <3>1
  <2>3. CASE \/ DecideRead(c) \/ DecideWrite(c) \/ AskUser(c) \/ GiveUp(c)
             \/ \E refs \in SUBSET Actions : Finish(c, refs)
    <3>1. pc[c] = "decide" /\ steps < MaxSteps /\ steps' = steps + 1 /\ failures' = failures
      BY <2>3 DEF DecideRead, DecideWrite, AskUser, GiveUp, Finish, Decision, Deciding
    <3> QED
      BY <1>1, <2>1, <3>1
  <2>4. CASE Ambiguous(c) \/ RecordError(c)
    <3>1. PICK retryable \in BOOLEAN : RecordFailure(retryable)
      BY <2>4, Zenon DEF Ambiguous, RecordError
    <3>2. steps' = steps /\ pc[c] \in Executing
      BY <2>4 DEF Ambiguous, RecordError, Executing
    <3> QED
      BY <1>3, <2>1, <3>1, <3>2
  <2>5. CASE FailForBudget(c) \/ RecordSuccess(c) \/ RecordContinuation(c)
    <3>1. UNCHANGED <<steps, failures>>
          /\ (status' = "failed" \/ pc[c] \in Executing)
      BY <2>5 DEF FailForBudget, RecordSuccess, RecordContinuation, Executing
    <3> QED
      BY <1>2, <2>1, <3>1
  <2>6. CASE \/ StartTool(c) \/ \E answer \in Outcomes : RunTool(c, answer)
             \/ TransactionRaises(c)
    BY <1>2, <2>6 DEF StartTool, RunTool, TransactionRaises, task
  <2> QED
    BY <1>7, <2>2, <2>3, <2>4, <2>5, <2>6 DEF CallStep, CallProgress
<1>8. CASE UNCHANGED vars
  BY <1>2, <1>8 DEF vars, task
<1> QED
  BY <1>4, <1>5, <1>6, <1>7, <1>8, StepKinds

\* A step neither takes an effect back nor changes the tool of an action that
\* has acted.
LEMMA PastStays ==
  ASSUME TypeOK, HolderInv, PendingAgrees, FreshInv, [Next]_vars
  PROVE  \A a \in Actions : effects[a] > 0 => effects'[a] > 0 /\ tool'[a] = tool[a]
<1>1. TaskType /\ WorldType
  BY TypeParts
<1>2. \A a \in Actions : effects[a] > 0 => effects'[a] > 0
  BY <1>1, WorldTypeStep DEF WorldType
<1>3. CASE UNCHANGED tool
  BY <1>2, <1>3
<1>4. ASSUME NEW t \in {"read", "write"}, Proposes(t)
      PROVE  \A a \in Actions : effects[a] > 0 => tool'[a] = tool[a]
  <2>1. NewAction(t)
    BY <1>4, Zenon DEF Proposes
  <2>2. /\ actions' = actions + 1 /\ actions' \in Actions /\ actions \in Nat
        /\ tool' = [tool EXCEPT ![actions'] = t]
    <3>1. actions \in Nat
      BY <1>1, AgentAssumptions DEF TaskType
    <3> QED
      BY <2>1, <3>1, NewActionType, Zenon
  <2>3. effects[actions'] = 0
    BY <2>2 DEF FreshInv
  <2> QED
    BY <1>1, <2>2, <2>3 DEF TaskType
<1>5. UNCHANGED tool \/ \E t \in {"read", "write"} : Proposes(t)
  BY PendingEffect, Zenon DEF Keeps, Approves, Clears, Marks, Acts
<1> QED
  BY <1>2, <1>3, <1>4, <1>5

LEMMA ObserveEvidence ==
  ASSUME TypeOK, EvidenceInv, NEW answer \in {"ok", "error"},
         NEW references \in SUBSET Actions, Observe(answer, references),
         Proven([outcome |-> answer, refs |-> references])
  PROVE  \A i \in 1..Len(observations') : Proven(observations'[i])
<1> DEFINE new == [outcome |-> answer, refs |-> references]
<1>0. new \in Remembered /\ Proven(new)
  BY DEF Remembered
<1> HIDE DEF new
<1>1. /\ observations \in Seq(Remembered)
      /\ \A i \in 1..Len(observations) : Proven(observations[i])
  BY DEF TypeOK, EvidenceInv
<1>2. CASE Len(observations) < MaxObservations
  <2>1. observations' = Append(observations, new)
    BY <1>2 DEF Observe, new
  <2>2. \A i \in 1..Len(observations') :
          observations'[i] = IF i <= Len(observations) THEN observations[i] ELSE new
    BY <1>0, <1>1, <2>1
  <2>3. Len(observations) \in Nat /\ Len(observations') = Len(observations) + 1
    BY <1>0, <1>1, <2>1
  <2> QED
    BY <1>0, <1>1, <2>2, <2>3
<1>3. CASE ~(Len(observations) < MaxObservations)
  <2> DEFINE kept == Tail(observations)
  <2>1. observations' = Append(kept, new) /\ observations # <<>>
    BY <1>1, <1>3, AgentAssumptions DEF Observe, new
  <2>2. /\ kept \in Seq(Remembered) /\ Len(kept) \in Nat
        /\ \A i \in 1..Len(kept) : i + 1 \in 1..Len(observations)
                                   /\ kept[i] = observations[i + 1]
    BY <1>1, <2>1
  <2>3. \A i \in 1..Len(kept) : Proven(kept[i])
    BY <1>1, <2>2
  <2> HIDE DEF kept
  <2>4. /\ Len(observations') = Len(kept) + 1
        /\ \A i \in 1..Len(observations') :
             observations'[i] = IF i <= Len(kept) THEN kept[i] ELSE new
    BY <1>0, <2>1, <2>2
  <2> QED
    BY <1>0, <2>2, <2>3, <2>4
<1> QED
  BY <1>2, <1>3

LEMMA EvidenceStep ==
  ASSUME TypeOK, TypeOK', HolderInv, PendingAgrees, FreshInv, EvidenceInv,
         CompletedHasEvidence, [Next]_vars
  PROVE  EvidenceInv' /\ CompletedHasEvidence'
<1>1. /\ \A a \in Actions : effects[a] > 0 => effects'[a] > 0 /\ tool'[a] = tool[a]
      /\ observations \in Seq(Remembered) /\ observations' \in Seq(Remembered)
      /\ final \in SUBSET Actions
  BY PastStays, Zenon DEF TypeOK
<1>2. ASSUME \A i \in 1..Len(observations') : Proven(observations'[i])
      PROVE  EvidenceInv'
  <2>1. ASSUME NEW i \in 1..Len(observations')
        PROVE  observations'[i].refs \subseteq Actions
    <3>1. observations'[i] \in Remembered
      BY <1>1
    <3> QED
      BY <3>1 DEF Remembered
  <2> QED
    BY <1>1, <1>2, <2>1 DEF EvidenceInv, Proven
<1>3. ASSUME observations' = observations
      PROVE  EvidenceInv'
  BY <1>2, <1>3 DEF EvidenceInv
<1>4. ASSUME NEW answer \in {"ok", "error"}, NEW references \in SUBSET Actions,
             Observe(answer, references),
             Proven([outcome |-> answer, refs |-> references])
      PROVE  EvidenceInv'
  BY <1>2, <1>4, ObserveEvidence
<1>5. ASSUME status' # "completed" \/ (status = "completed" /\ UNCHANGED <<final, observations>>)
      PROVE  CompletedHasEvidence'
  BY <1>1, <1>5 DEF CompletedHasEvidence
<1>6. ASSUME NEW u \in Users, UserNext(u)
      PROVE  EvidenceInv' /\ CompletedHasEvidence'
  <2>1. CASE Reject(u)
    BY <1>4, <1>5, <2>1 DEF Reject, Proven
  <2>2. CASE SubmitInput(u) \/ Approve(u) \/ Cancel(u)
    BY <1>3, <1>5, <2>2 DEF SubmitInput, Approve, Cancel
  <2> QED
    BY <1>6, <2>1, <2>2 DEF UserNext
<1>7. CASE \E c \in Actors : EntryStep(c)
  BY <1>3, <1>5, <1>7 DEF EntryStep, EnterWithPending, EnterPlanning, task
<1>8. CASE OutsideStep
  BY <1>3, <1>5, <1>8 DEF OutsideStep, NothingToRun, Select, CheckCredential,
     FailAuthorization, DelayPasses, Revoke, Crash, task
<1>9. ASSUME NEW c \in Actors, CallStep(c)
      PROVE  EvidenceInv' /\ CompletedHasEvidence'
  <2>1. CASE Ambiguous(c)
    BY <1>4, <1>5, <2>1 DEF Ambiguous, RecordFailure, Proven
  <2>2. pc[c] = "record" => doing \in Actions
    BY AgentAssumptions DEF HolderInv, Executing, TypeOK, Actions, NoAction
  <2>3. CASE RecordError(c)
    <3> DEFINE references == IF outcome = "unclear" THEN {doing} ELSE {}
    <3>1. references \in SUBSET Actions /\ Observe("error", references)
      BY <2>2, <2>3 DEF RecordError
    <3>2. Proven([outcome |-> "error", refs |-> references])
      BY <2>3 DEF RecordError, HolderInv, Proven
    <3>3. status' # "completed"
      BY <2>3 DEF RecordError, RecordFailure
    <3> HIDE DEF references
    <3> QED
      BY <1>4, <1>5, <3>1, <3>2, <3>3
  <2>4. CASE RecordSuccess(c) \/ RecordContinuation(c)
    <3>1. /\ doing \in Actions /\ effects[doing] > 0 /\ status' # "completed"
      BY <2>2, <2>4 DEF RecordSuccess, RecordContinuation, HolderInv
    <3>2. PICK references \in SUBSET {doing} : Observe("ok", references)
      BY <2>4 DEF RecordSuccess, RecordContinuation
    <3>3. Proven([outcome |-> "ok", refs |-> references])
      BY <3>1 DEF Proven
    <3> QED
      BY <1>4, <1>5, <3>1, <3>2, <3>3
  <2>5. ASSUME NEW refs \in SUBSET Actions, Finish(c, refs)
        PROVE  EvidenceInv' /\ CompletedHasEvidence'
    <3>1. /\ refs # {} /\ refs \subseteq Evidence /\ final' = refs
          /\ UNCHANGED <<observations, effects, tool>>
      BY <2>5 DEF Finish, Decision
    <3>2. \A a \in refs :
            /\ effects[a] > 0
            /\ \E i \in 1..Len(observations) :
                 /\ a \in observations[i].refs
                 /\ tool[a] = "write" => observations[i].outcome = "ok"
      BY <3>1 DEF Evidence, EvidenceInv, Proven
    <3> QED
      BY <1>3, <3>1, <3>2 DEF CompletedHasEvidence
  <2>6. CASE \/ FailForBudget(c) \/ ModelFails(c) \/ DecideRead(c) \/ DecideWrite(c)
             \/ AskUser(c) \/ GiveUp(c) \/ FinishRefused(c)
    BY <1>3, <1>5, <2>6 DEF FailForBudget, ModelFails, DecideRead, DecideWrite,
       AskUser, GiveUp, FinishRefused, RecordFailure
  <2>7. CASE \/ StartTool(c) \/ \E answer \in Outcomes : RunTool(c, answer)
             \/ TransactionRaises(c)
    BY <1>3, <1>5, <2>7 DEF StartTool, RunTool, TransactionRaises, task
  <2> QED
    BY <1>9, <2>1, <2>3, <2>4, <2>5, <2>6, <2>7 DEF CallStep, CallProgress
<1>10. CASE UNCHANGED vars
  BY <1>3, <1>5, <1>10 DEF vars, task
<1> QED
  BY <1>6, <1>7, <1>8, <1>9, <1>10, StepKinds
-----------------------------------------------------------------------------
(* The theorems.                                                           *)

\* The inductive invariant: types, the lock, what its holder relies on, what
\* the task and the world agree on, budgets and evidence.
THEOREM AgentCorrect == Spec => []AgentInv
<1>1. Init => AgentInv
  <2> SUFFICES ASSUME Init
               PROVE  AgentInv
    OBVIOUS
  <2> USE AgentAssumptions DEF Init, Actors, Actions, NoAction
  <2>1. FlagType
    BY Zenon DEF FlagType
  <2>2. TaskType
    BY DEF TaskType, Statuses
  <2>3. WorldType /\ CallType
    BY DEF WorldType, CallType
  <2>4. LockInv /\ HolderInv
    BY DEF LockInv, HolderInv, InCall, Executing
  <2>5. PendingAgrees /\ FreshInv /\ MarkInv
    BY DEF PendingAgrees, FreshInv, MarkInv, Terminal
  <2>6. WriteHappensAtMostOnce /\ WriteWasApproved /\ BudgetHolds
    BY DEF WriteHappensAtMostOnce, WriteWasApproved, BudgetHolds
  <2>7. EvidenceInv /\ CompletedHasEvidence
    BY DEF EvidenceInv, CompletedHasEvidence
  <2> QED
    BY <2>1, <2>2, <2>3, <2>4, <2>5, <2>6, <2>7, TypeParts DEF AgentInv
<1>2. AgentInv /\ [Next]_vars => AgentInv'
  BY TypeStep, LockStep, HolderStep, WriteStep, BudgetStep, EvidenceStep DEF AgentInv
<1> QED
  BY <1>1, <1>2, PTL DEF Spec

\* A tool that writes never acts twice for one action, whatever crashes between
\* its effect and its record, and whoever finds the action pending.
THEOREM OnceTheorem == Spec => []WriteHappensAtMostOnce
BY AgentCorrect, PTL DEF AgentInv

\* A tool that writes acts only after a person has approved this very action.
THEOREM ApprovalTheorem == Spec => []WriteWasApproved
BY AgentCorrect, PTL DEF AgentInv

\* One approval makes one write at most.
THEOREM WriteTheorem == Spec => []WriteIsApprovedOnce
BY AgentCorrect, PTL DEF AgentInv, WriteIsApprovedOnce

\* The status of a task, its pending action and its approval tell one story.
THEOREM AgreementTheorem == Spec => []PendingAgrees
BY AgentCorrect, PTL DEF AgentInv

\* Whoever advances the task, it takes no more decisions than its budget allows;
\* it survives no more failures than it may, and counts at most one beyond them.
THEOREM BudgetTheorem == Spec => []BudgetHolds
BY AgentCorrect, PTL DEF AgentInv

\* A completed task cites what it remembers of actions that have taken effect,
\* and a write it cites is one that it remembers to have succeeded.  A read may
\* have ended in an error: the references of errors are remembered as well.
THEOREM EvidenceTheorem == Spec => []CompletedHasEvidence
BY AgentCorrect, PTL DEF AgentInv

\* Nothing happens to a task that has ended: who could act would be inside a
\* call, and no call goes on with an ended task.
THEOREM EndedTheorem == Spec => EndedIsFinal
<1>1. ASSUME AgentInv, [Next]_vars, status \in Terminal
      PROVE  UNCHANGED <<task, effects>>
  <2>1. TypeOK /\ LockInv /\ HolderInv
    BY <1>1 DEF AgentInv
  <2>2. \A c \in Actors : pc[c] \notin InCall
    BY <1>1, <2>1 DEF HolderInv, InCall, Executing, Terminal
  <2>3. \A c \in Actors : ~CallStep(c)
    BY <2>1, <2>2, CallShape
  <2>4. CASE \E u \in Users : UserNext(u)
    BY <1>1, <2>4 DEF UserNext, SubmitInput, Approve, Reject, Cancel, Terminal
  <2>5. CASE \E c \in Actors : EntryStep(c)
    BY <2>5 DEF EntryStep, EnterWithPending, EnterPlanning
  <2>6. CASE OutsideStep
    BY <1>1, <2>6 DEF OutsideStep, NothingToRun, Select, CheckCredential,
       FailAuthorization, DelayPasses, Revoke, Crash, task, Terminal
  <2>7. CASE UNCHANGED vars
    BY <2>7 DEF vars
  <2> QED
    BY <1>1, <2>3, <2>4, <2>5, <2>6, <2>7, StepKinds
<1>2. AgentInv /\ [Next]_vars => (status \in Terminal => UNCHANGED <<task, effects>>)
  BY <1>1
<1> QED
  BY <1>2, AgentCorrect, PTL DEF Spec, EndedIsFinal
=============================================================================
