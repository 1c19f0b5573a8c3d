-------------------------- MODULE DispatcherProofs --------------------------
(***************************************************************************)
(* Theorems about Dispatcher, for every set of ids and of callers, every   *)
(* finite pool, every capacity, both kinds of stop, and threads that the   *)
(* operating system refuses.                                               *)
(***************************************************************************)
EXTENDS Dispatcher, FiniteSetTheorems, TLAPS

-----------------------------------------------------------------------------
(* The inductive invariant.                                                *)

\* The threads that have not left, those which never started included.
Alive == {t \in Threads : tpc[t] # "none"}

\* _live_workers counts them, and the flags follow the count.
PoolInv ==
  /\ live = Cardinality(Alive)
  /\ running <=> Alive # {}
  /\ accepting => running

DispatcherInv == TypeOK /\ PoolInv /\ PendingIsExact
-----------------------------------------------------------------------------
(* The pool of threads.                                                    *)

LEMMA AliveIsFinite ==
  /\ IsFiniteSet(Alive)
  /\ Cardinality(Alive) \in 0..Cardinality(Threads)
<1>1. Alive \in SUBSET Threads
  BY DEF Alive
<1>2. IsFiniteSet(Alive) /\ Cardinality(Alive) <= Cardinality(Threads)
  BY <1>1, FS_Subset, DispatcherAssumptions
<1>3. Cardinality(Alive) \in Nat /\ Cardinality(Threads) \in Nat
  BY <1>2, FS_CardinalityType, DispatcherAssumptions
<1> QED
  BY <1>2, <1>3

\* Only start and the end of a thread change who is alive.
LEMMA PoolStep ==
  ASSUME TypeOK, PoolInv, [Next]_vars
  PROVE  PoolInv'
<1>1. tpc \in [Threads -> ThreadSteps]
  BY DEF TypeOK
<1>2. ASSUME UNCHANGED <<pool, tpc>>
      PROVE  PoolInv'
  BY <1>2 DEF PoolInv, Alive, pool
<1>3. ASSUME UNCHANGED <<running, live, tpc>>, accepting' = FALSE
      PROVE  PoolInv'
  BY <1>3 DEF PoolInv, Alive
<1>4. ASSUME NEW t \in Threads, NEW to \in ThreadSteps, tpc[t] # "none",
             to # "none", tpc' = [tpc EXCEPT ![t] = to], UNCHANGED pool
      PROVE  PoolInv'
  <2>1. Alive' = Alive
    BY <1>1, <1>4 DEF Alive
  <2> QED
    BY <1>4, <2>1 DEF PoolInv, pool
<1>5. ASSUME NEW t \in Threads, Exit(t)
      PROVE  PoolInv'
  <2>1. /\ tpc[t] = "exit" /\ tpc' = [tpc EXCEPT ![t] = "none"]
        /\ live' = live - 1
        /\ IF live' = 0 THEN running' = FALSE /\ accepting' = FALSE
                        ELSE UNCHANGED <<running, accepting>>
    BY <1>5 DEF Exit, ThreadStep
  <2>2. t \in Alive /\ Alive' = Alive \ {t}
    BY <1>1, <2>1 DEF Alive
  <2>3. IsFiniteSet(Alive') /\ Cardinality(Alive') = Cardinality(Alive) - 1
    BY <2>2, AliveIsFinite, FS_RemoveElement
  <2>4. live' = Cardinality(Alive')
    BY <2>1, <2>3 DEF PoolInv
  <2>5. live' = 0 <=> Alive' = {}
    BY <2>3, <2>4, FS_EmptySet
  <2>6. running
    BY <2>2 DEF PoolInv
  <2> QED
    BY <2>1, <2>4, <2>5, <2>6 DEF PoolInv
<1>6. ASSUME NEW c \in Callers, Start(c)
      PROVE  PoolInv'
  <2>1. Alive' = Threads
    BY <1>6 DEF Start, Alive
  <2> QED
    BY <1>6, <2>1, DispatcherAssumptions DEF Start, PoolInv
<1>7. CASE \E r \in Ids : Submit(r)
  BY <1>2, <1>7 DEF Submit, threads
<1>8. ASSUME NEW t \in Threads, ThreadNext(t)
      PROVE  PoolInv'
  <2>1. CASE Exit(t)
    BY <1>5, <2>1
  <2>2. CASE ~Exit(t)
    <3>1. /\ UNCHANGED pool /\ tpc[t] # "none"
          /\ \E to \in ThreadSteps \ {"none"} : tpc' = [tpc EXCEPT ![t] = to]
      BY <1>8, <2>2 DEF ThreadNext, Get, GetTimesOut, LookAtShutdown,
         MarkInFlight, TaskEnds, Forget, ThreadStep, ThreadSteps
    <3> QED
      BY <1>4, <3>1
  <2> QED
    BY <2>1, <2>2
<1>9. ASSUME NEW c \in Callers, CallProgress(c)
      PROVE  PoolInv'
  <2>1. CASE \E t \in Threads : StartThread(c, t)
    BY <1>4, <2>1 DEF StartThread, ThreadSteps
  <2>2. CASE AbortStart(c)
    BY <1>3, <2>2 DEF AbortStart, threads
  <2>3. CASE \/ DrainDone(c) \/ DiscardOne(c) \/ DiscardForget(c)
             \/ SetShutdown(c) \/ CopyThreads(c) \/ Joined(c) \/ JoinRaises(c)
    BY <1>2, <2>3 DEF DrainDone, DiscardOne, DiscardForget, SetShutdown,
       CopyThreads, Joined, JoinRaises, StopReturns, threads
  <2> QED
    BY <1>9, <2>1, <2>2, <2>3 DEF CallProgress
<1>10. ASSUME NEW c \in Callers, CallNext(c)
       PROVE  PoolInv'
  <2>1. CASE Start(c)
    BY <1>6, <2>1
  <2>2. CASE \/ StopWhenStopped(c)
             \/ \E drain \in BOOLEAN, deadline \in Deadlines :
                  Stop(c, drain, deadline)
    BY <1>3, <2>2 DEF StopWhenStopped, Stop, threads
  <2>3. CASE StartThreadFails(c) \/ DrainTimesOut(c) \/ JoinTimesOut(c)
    BY <1>2, <2>3 DEF StartThreadFails, DrainTimesOut, JoinTimesOut,
       StopReturns, threads
  <2> QED
    BY <1>10, <2>1, <2>2, <2>3 DEF CallNext
<1>11. CASE UNCHANGED vars
  BY <1>2, <1>11 DEF vars, threads
<1> QED
  BY <1>7, <1>8, <1>9, <1>10, <1>11 DEF Next

LEMMA FlagType ==
  ASSUME NEW f \in [Callers -> BOOLEAN], NEW c, NEW v \in BOOLEAN
  PROVE  [f EXCEPT ![c] = v] \in [Callers -> BOOLEAN]
OBVIOUS

\* The count keeps its type because it is a cardinality.
LEMMA TypeStep ==
  ASSUME TypeOK, PendingIsExact, PoolInv', [Next]_vars
  PROVE  TypeOK'
<1>1. live' \in 0..Cardinality(Threads)
  <2>1. Alive' \in SUBSET Threads
    BY DEF Alive
  <2>2. IsFiniteSet(Alive') /\ Cardinality(Alive') <= Cardinality(Threads)
    BY <2>1, FS_Subset, DispatcherAssumptions
  <2>3. Cardinality(Alive') \in Nat /\ Cardinality(Threads) \in Nat
    BY <2>2, FS_CardinalityType, DispatcherAssumptions
  <2> QED
    BY <2>2, <2>3 DEF PoolInv
<1> USE <1>1, DispatcherAssumptions
   DEF TypeOK, ThreadSteps, CallSteps, pool, threads, pending, callers
<1>2. CASE \E r \in Ids : Submit(r)
  BY <1>2 DEF Submit
<1>3. ASSUME NEW t \in Threads, ThreadNext(t)
      PROVE  TypeOK'
  <2>1. CASE Get(t)
    <3>1. Head(queue) \in Ids /\ Tail(queue) \in Seq(Ids)
      BY <2>1 DEF Get
    <3> QED
      BY <2>1, <3>1 DEF Get, ThreadStep
  <2>2. CASE GetTimesOut(t) \/ LookAtShutdown(t) \/ TaskEnds(t)
    BY <2>2 DEF GetTimesOut, LookAtShutdown, TaskEnds, ThreadStep
  <2>3. CASE MarkInFlight(t) \/ Forget(t)
    <3>1. t \in Holders
      BY <2>3 DEF MarkInFlight, Forget, ThreadStep, Holders
    <3>2. tid[t] \in Ids
      BY <3>1 DEF PendingIsExact, Held
    <3> QED
      BY <2>3, <3>2 DEF MarkInFlight, Forget, ThreadStep
  <2>4. CASE Exit(t)
    BY <2>4 DEF Exit, ThreadStep
  <2> QED
    BY <1>3, <2>1, <2>2, <2>3, <2>4 DEF ThreadNext
<1>4. ASSUME NEW c \in Callers, CallProgress(c)
      PROVE  TypeOK'
  <2>1. CASE \E t \in Threads : StartThread(c, t)
    BY <2>1 DEF StartThread
  <2>2. CASE AbortStart(c) \/ DrainDone(c) \/ SetShutdown(c)
    BY <2>2 DEF AbortStart, DrainDone, SetShutdown
  <2>3. CASE DiscardOne(c)
    <3>1. Head(queue) \in Ids /\ Tail(queue) \in Seq(Ids)
      BY <2>3 DEF DiscardOne
    <3> QED
      BY <2>3, <3>1 DEF DiscardOne
  <2>4. CASE DiscardForget(c)
    <3>1. drained' \in [Callers -> BOOLEAN]
      BY <2>4, FlagType DEF DiscardForget
    <3> QED
      BY <2>4, <3>1 DEF DiscardForget
  <2>5. CASE CopyThreads(c)
    BY <2>5 DEF CopyThreads
  <2>6. CASE Joined(c)
    BY <2>6 DEF Joined, StopReturns
  <2>7. CASE JoinRaises(c)
    BY <2>7 DEF JoinRaises
  <2> QED
    BY <1>4, <2>1, <2>2, <2>3, <2>4, <2>5, <2>6, <2>7 DEF CallProgress
<1>5. ASSUME NEW c \in Callers, CallNext(c)
      PROVE  TypeOK'
  <2>1. CASE Start(c)
    <3>1. /\ starts' \in 0..MaxStarts
          /\ report' \in [Callers -> {"none", "stopped", "incomplete"}]
          /\ tpc' \in [Threads -> ThreadSteps]
      BY <2>1 DEF Start
    <3>2. cpc' \in [Callers -> CallSteps]
      BY <2>1 DEF Start
    <3> QED
      BY <2>1, <3>1, <3>2 DEF Start
  <2>2. CASE StartThreadFails(c) \/ StopWhenStopped(c) \/ DrainTimesOut(c)
    <3>1. drained' \in [Callers -> BOOLEAN]
      BY <2>2, FlagType DEF StartThreadFails, StopWhenStopped, DrainTimesOut
    <3> QED
      BY <2>2, <3>1 DEF StartThreadFails, StopWhenStopped, DrainTimesOut
  <2>3. CASE \E drain \in BOOLEAN, deadline \in Deadlines :
               Stop(c, drain, deadline)
    <3>1. timed' \in [Callers -> BOOLEAN]
      BY <2>3, FlagType DEF Stop
    <3> QED
      BY <2>3, <3>1 DEF Stop
  <2>4. CASE JoinTimesOut(c)
    BY <2>4 DEF JoinTimesOut, StopReturns
  <2> QED
    BY <1>5, <2>1, <2>2, <2>3, <2>4 DEF CallNext
<1>6. CASE UNCHANGED vars
  BY <1>6 DEF vars
<1> QED
  BY <1>2, <1>3, <1>4, <1>5, <1>6 DEF Next
-----------------------------------------------------------------------------
(* The pending set.                                                        *)

Elements(q) == {q[i] : i \in 1..Len(q)}
NoRepeats(q) == \A i, j \in 1..Len(q) : q[i] = q[j] => i = j
Marked == {t \in Holders : tpc[t] # "mark"}

LEMMA AppendElements ==
  ASSUME NEW S, NEW q \in Seq(S), NEW r \in S, NoRepeats(q), r \notin Elements(q)
  PROVE  Elements(Append(q, r)) = Elements(q) \cup {r} /\ NoRepeats(Append(q, r))
<1>1. Append(q, r) \in Seq(S) /\ Len(q) \in Nat /\ Len(Append(q, r)) = Len(q) + 1
  OBVIOUS
<1>2. \A i \in 1..Len(q) : Append(q, r)[i] = q[i] /\ q[i] # r
  BY DEF Elements
<1>3. Append(q, r)[Len(q) + 1] = r
  OBVIOUS
<1>4. NoRepeats(Append(q, r))
  BY <1>1, <1>2, <1>3 DEF NoRepeats
<1>5. Elements(Append(q, r)) = Elements(q) \cup {r}
  BY <1>1, <1>2, <1>3 DEF Elements
<1> QED
  BY <1>4, <1>5

LEMMA TailElements ==
  ASSUME NEW S, NEW q \in Seq(S), q # <<>>, NoRepeats(q)
  PROVE  /\ Head(q) \in Elements(q)
         /\ Elements(Tail(q)) = Elements(q) \ {Head(q)}
         /\ NoRepeats(Tail(q))
<1>1. /\ Len(q) \in Nat \ {0} /\ Head(q) = q[1]
      /\ Len(Tail(q)) = Len(q) - 1
      /\ \A i \in 1..Len(Tail(q)) : Tail(q)[i] = q[i + 1]
  OBVIOUS
<1>2. Head(q) \in Elements(q)
  BY <1>1 DEF Elements
<1>3. \A i \in 2..Len(q) : q[i] # q[1] /\ q[i] = Tail(q)[i - 1]
  BY <1>1 DEF NoRepeats
<1>4. \A x : x \in Elements(Tail(q)) <=> \E i \in 2..Len(q) : x = q[i]
  <2>1. ASSUME NEW x \in Elements(Tail(q))
        PROVE  \E i \in 2..Len(q) : x = q[i]
    <3>1. PICK i \in 1..Len(Tail(q)) : x = Tail(q)[i]
      BY DEF Elements
    <3>2. i + 1 \in 2..Len(q) /\ x = q[i + 1]
      BY <1>1, <3>1
    <3> QED
      BY <3>2
  <2>2. ASSUME NEW i \in 2..Len(q)
        PROVE  q[i] \in Elements(Tail(q))
    <3>1. i - 1 \in 1..Len(Tail(q)) /\ q[i] = Tail(q)[i - 1]
      BY <1>1, <1>3
    <3> QED
      BY <3>1 DEF Elements
  <2> QED
    BY <2>1, <2>2
<1>5. Elements(Tail(q)) = Elements(q) \ {Head(q)}
  <2>1. \A x : x \in Elements(q) <=> x = q[1] \/ \E i \in 2..Len(q) : x = q[i]
    BY <1>1 DEF Elements
  <2> QED
    BY <1>1, <1>3, <1>4, <2>1
<1>6. NoRepeats(Tail(q))
  BY <1>1 DEF NoRepeats
<1> QED
  BY <1>2, <1>5, <1>6

\* Steps which move no id leave the pending set exact.
LEMMA SamePending ==
  ASSUME PendingIsExact, UNCHANGED <<pending, tid, taken>>,
         Holders' = Holders, Marked' = Marked
  PROVE  PendingIsExact'
<1>1. UNCHANGED <<queue, known, inFlight, tid, taken>>
  BY DEF pending
<1>2. Held' = Held /\ Queued' = Queued /\ Taken' = Taken
  BY <1>1 DEF Held, Queued, Taken
<1> QED
  BY <1>1, <1>2 DEF PendingIsExact, Marked

LEMMA PendingStep ==
  ASSUME TypeOK, PoolInv, PendingIsExact, [Next]_vars
  PROVE  PendingIsExact'
<1> USE DEF PendingIsExact
<1>1. /\ tpc \in [Threads -> ThreadSteps] /\ tid \in [Threads -> Ids \cup {NoId}]
      /\ taken \in [Callers -> SUBSET Ids] /\ queue \in Seq(Ids)
  BY DEF TypeOK
<1>2. Queued = Elements(queue) /\ Queued' = Elements(queue') /\ NoRepeats(queue)
  BY DEF Queued, Elements, NoRepeats
<1>3. \A x : x \in Taken <=> \E c \in Callers : x \in taken[c]
  BY DEF Taken
<1>4. ASSUME NEW r \in Ids, Submit(r)
      PROVE  PendingIsExact'
  <2>1. /\ r \notin known /\ queue' = Append(queue, r) /\ known' = known \cup {r}
        /\ UNCHANGED <<tpc, tid, taken, inFlight>>
    BY <1>4 DEF Submit, threads, callers
  <2>2. Holders' = Holders /\ Held' = Held /\ Taken' = Taken
    BY <2>1 DEF Holders, Held, Taken
  <2>3. r \notin Queued /\ r \notin Held /\ r \notin Taken
    BY <2>1
  <2>4. Queued' = Queued \cup {r} /\ NoRepeats(queue')
    BY <1>1, <1>2, <2>1, <2>3, AppendElements
  <2> QED
    BY <2>1, <2>2, <2>3, <2>4 DEF NoRepeats
<1>5. ASSUME NEW c \in Callers, DiscardOne(c)
      PROVE  PendingIsExact'
  <2> DEFINE r == Head(queue)
  <2>1. /\ taken' = [taken EXCEPT ![c] = @ \cup {r}]
        /\ queue' = Tail(queue) /\ queue # <<>>
        /\ UNCHANGED <<tpc, tid, known, inFlight>>
    BY <1>5 DEF DiscardOne, threads
  <2>2. Holders' = Holders /\ Held' = Held
    BY <2>1 DEF Holders, Held
  <2>3. r \in Queued /\ Queued' = Queued \ {r} /\ NoRepeats(queue')
    BY <1>1, <1>2, <2>1, TailElements
  <2>4. Taken' = Taken \cup {r}
    <3>1. \A d \in Callers : taken'[d] = IF d = c THEN taken[d] \cup {r} ELSE taken[d]
      BY <1>1, <2>1
    <3>2. \A x : x \in Taken' <=> \E d \in Callers : x \in taken'[d]
      BY DEF Taken
    <3> QED
      BY ZenonT(30), <1>3, <3>1, <3>2
  <2>5. \A d, e \in Callers : taken'[d] \cap taken'[e] # {} => d = e
    BY <1>1, <1>3, <2>1, <2>3
  <2> QED
    BY <2>1, <2>2, <2>3, <2>4, <2>5 DEF NoRepeats
<1>6. ASSUME NEW c \in Callers, DiscardForget(c)
      PROVE  PendingIsExact'
  <2>1. /\ known' = known \ taken[c] /\ taken' = [taken EXCEPT ![c] = {}]
        /\ UNCHANGED <<queue, inFlight, tpc, tid>>
    BY <1>6 DEF DiscardForget, threads
  <2>2. Holders' = Holders /\ Held' = Held /\ Queued' = Queued
    BY <2>1 DEF Holders, Held, Queued
  <2>3. \A d \in Callers : taken'[d] = IF d = c THEN {} ELSE taken[d]
    BY <1>1, <2>1
  <2>4. Taken' = Taken \ taken[c]
    <3>1. \A x : x \in Taken' <=> \E d \in Callers : x \in taken'[d]
      BY DEF Taken
    <3> QED
      BY <1>3, <2>3, <3>1
  <2>5. \A d, e \in Callers : taken'[d] \cap taken'[e] # {} => d = e
    BY <2>3
  <2>6. taken[c] \subseteq Taken
    BY <1>3
  <2> QED
    BY <2>1, <2>2, <2>4, <2>5, <2>6
<1>7. ASSUME NEW t \in Threads, Get(t)
      PROVE  PendingIsExact'
  <2> DEFINE r == Head(queue)
  <2>1. /\ tpc[t] = "get" /\ tpc' = [tpc EXCEPT ![t] = "mark"]
        /\ tid' = [tid EXCEPT ![t] = r]
        /\ queue' = Tail(queue) /\ queue # <<>>
        /\ UNCHANGED <<known, inFlight, taken>>
    BY <1>7 DEF Get, ThreadStep, callers
  <2>2. t \notin Holders /\ Holders' = Holders \cup {t} /\ Marked' = Marked
    BY <1>1, <2>1 DEF Holders, Marked
  <2>3. \A u \in Holders : tid'[u] = tid[u] /\ tid'[t] = r
    BY <1>1, <2>1, <2>2 DEF Holders
  <2>4. tid'[t] = r /\ Held' = Held \cup {r}
    BY <1>1, <2>1, <2>2, <2>3 DEF Held
  <2>5. r \in Queued /\ Queued' = Queued \ {r} /\ NoRepeats(queue')
    BY <1>1, <1>2, <2>1, TailElements
  <2>6. Taken' = Taken /\ r \notin Held /\ r \notin Taken
    BY <2>1, <2>5 DEF Taken
  <2>7. \A u, v \in Holders' : tid'[u] = tid'[v] => u = v
    BY <2>2, <2>3, <2>4, <2>6 DEF Held
  <2>8. inFlight' = {tid'[u] : u \in Marked'}
    BY <2>1, <2>2, <2>3 DEF Marked
  <2>9. known' = Queued' \cup Held' \cup Taken'
    BY <2>1, <2>4, <2>5, <2>6
  <2>10. Queued' \cap Held' = {} /\ Queued' \cap Taken' = {} /\ Held' \cap Taken' = {}
    BY <2>4, <2>5, <2>6
  <2> QED
    BY <2>1, <2>5, <2>7, <2>8, <2>9, <2>10 DEF NoRepeats, Marked
<1>8. ASSUME NEW t \in Threads, MarkInFlight(t)
      PROVE  PendingIsExact'
  <2>1. /\ tpc[t] = "mark" /\ tpc' = [tpc EXCEPT ![t] = "task"]
        /\ inFlight' = inFlight \cup {tid[t]}
        /\ UNCHANGED <<queue, known, tid, taken>>
    BY <1>8 DEF MarkInFlight, ThreadStep, callers
  <2>2. Holders' = Holders /\ Marked' = Marked \cup {t}
    BY <1>1, <2>1 DEF Holders, Marked
  <2>3. Held' = Held /\ Queued' = Queued /\ Taken' = Taken
    BY <2>1, <2>2 DEF Held, Queued, Taken
  <2>4. inFlight' = {tid'[u] : u \in Marked'}
    BY <2>1, <2>2 DEF Marked
  <2> QED
    BY <2>1, <2>2, <2>3, <2>4 DEF Marked
<1>9. ASSUME NEW t \in Threads, Forget(t)
      PROVE  PendingIsExact'
  <2>1. /\ tpc[t] = "forget" /\ tpc' = [tpc EXCEPT ![t] = "get"]
        /\ tid' = [tid EXCEPT ![t] = NoId]
        /\ inFlight' = inFlight \ {tid[t]} /\ known' = known \ {tid[t]}
        /\ UNCHANGED <<queue, taken>>
    BY <1>9 DEF Forget, ThreadStep, callers
  <2>2. /\ t \in Marked /\ t \in Holders
        /\ Holders' = Holders \ {t} /\ Marked' = Marked \ {t}
    BY <1>1, <2>1 DEF Holders, Marked
  <2>3. \A u \in Holders \ {t} : tid'[u] = tid[u] /\ tid[u] # tid[t]
    BY <1>1, <2>1, <2>2 DEF Holders
  <2>4. Held' = Held \ {tid[t]} /\ tid[t] \in Held
    <3>1. Held' = {tid'[u] : u \in Holders \ {t}}
      BY <2>2 DEF Held
    <3>2. Held' = {tid[u] : u \in Holders \ {t}}
      BY <2>3, <3>1
    <3> QED
      BY <2>2, <2>3, <3>2 DEF Held
  <2>5. Queued' = Queued /\ Taken' = Taken
    BY <2>1 DEF Queued, Taken
  <2>6. inFlight' = {tid'[u] : u \in Marked'}
    <3>1. inFlight = {tid[u] : u \in Marked}
      BY DEF Marked
    <3>2. \A u \in Marked \ {t} : tid'[u] = tid[u] /\ tid[u] # tid[t]
      BY <2>3 DEF Marked
    <3> QED
      BY SMTT(20), <2>1, <2>2, <3>1, <3>2
  <2>7. \A u, v \in Holders' : tid'[u] = tid'[v] => u = v
    BY <2>2, <2>3
  <2> QED
    BY <2>1, <2>4, <2>5, <2>6, <2>7 DEF Marked
<1>10. ASSUME NEW t \in Threads, ThreadNext(t)
       PROVE  PendingIsExact'
  <2>1. CASE GetTimesOut(t) \/ LookAtShutdown(t) \/ TaskEnds(t) \/ Exit(t)
    <3>1. UNCHANGED <<pending, tid, taken>>
      BY <2>1 DEF GetTimesOut, LookAtShutdown, TaskEnds, Exit, ThreadStep, callers
    <3>2. Holders' = Holders /\ Marked' = Marked
      BY <1>1, <2>1 DEF GetTimesOut, LookAtShutdown, TaskEnds, Exit, ThreadStep,
         Holders, Marked
    <3> QED
      BY <3>1, <3>2, SamePending
  <2> QED
    BY <1>7, <1>8, <1>9, <1>10, <2>1 DEF ThreadNext
<1>11. ASSUME NEW c \in Callers, CallProgress(c)
       PROVE  PendingIsExact'
  <2>1. CASE \E t \in Threads : StartThread(c, t)
    <3>1. UNCHANGED <<pending, tid, taken>>
      BY <2>1 DEF StartThread
    <3>2. Holders' = Holders /\ Marked' = Marked
      BY <1>1, <2>1 DEF StartThread, Holders, Marked
    <3> QED
      BY <3>1, <3>2, SamePending
  <2>2. CASE \/ AbortStart(c) \/ DrainDone(c) \/ SetShutdown(c)
             \/ CopyThreads(c) \/ Joined(c) \/ JoinRaises(c)
    <3>1. UNCHANGED <<pending, tid, taken, tpc>>
      BY <2>2 DEF AbortStart, DrainDone, SetShutdown, CopyThreads, Joined,
         JoinRaises, StopReturns, threads
    <3> QED
      BY <3>1, SamePending DEF Holders, Marked
  <2> QED
    BY <1>5, <1>6, <1>11, <2>1, <2>2 DEF CallProgress
<1>12. ASSUME NEW c \in Callers, CallNext(c)
       PROVE  PendingIsExact'
  <2>1. CASE Start(c)
    <3>1. UNCHANGED <<pending, tid, taken>>
      BY <2>1 DEF Start
    <3>2. Alive = {}
      BY <2>1 DEF Start, PoolInv
    <3>3. Holders' = {} /\ Holders = {}
      BY <2>1, <3>2 DEF Start, Holders, Alive
    <3> QED
      BY <3>1, <3>3, SamePending DEF Marked
  <2>2. CASE ~Start(c)
    <3>1. UNCHANGED <<pending, tid, taken, tpc>>
      BY <1>12, <2>2 DEF CallNext, StartThreadFails, StopWhenStopped, Stop,
         DrainTimesOut, JoinTimesOut, StopReturns, threads
    <3> QED
      BY <3>1, SamePending DEF Holders, Marked
  <2> QED
    BY <2>1, <2>2
<1>13. CASE UNCHANGED vars
  BY <1>13, SamePending DEF vars, threads, callers, Holders, Marked
<1> QED
  BY <1>4, <1>10, <1>11, <1>12, <1>13 DEF Next
-----------------------------------------------------------------------------
(* What a stop without a deadline may claim, as long as the dispatcher has *)
(* not been started twice: a call that was in stop before a restart sets   *)
(* the shutdown event of the next generation.                              *)

\* A stop has seen that nothing is pending, or thrown away what was queued.
Leaving == {"shut", "threads", "join"}
Stopping == {"drain", "discard"} \cup Leaving

\* The start was given up: a thread is missing and nobody starts it any more.
Stranded ==
  /\ \E t \in Threads : tpc[t] = "unstarted"
  /\ \A c \in Callers : cpc[c] # "starting"

\* Nobody waits with a deadline, and a report outlives no restart.
ReportInv ==
  \A c \in Callers : ~timed[c] /\ (report[c] = "stopped" => ~running)

\* Before the first start there is nothing to stop.
FreshInv ==
  starts = 0 => /\ ~running /\ ~accepting /\ ~shutdown /\ queue = <<>>
                /\ \A c \in Callers : cpc[c] = "idle"

\* In the first generation: whoever is in stop has closed the dispatcher, which
\* stays closed; whoever has finished draining or discarding leaves the queue
\* empty for good; and a thread leaves only after that.
ClosedInOrder ==
  /\ ~running => queue = <<>>
  /\ \A c \in Callers : cpc[c] \in Stopping => ~accepting
  /\ \A c \in Callers : cpc[c] \in Leaving => queue = <<>>
  /\ \A c \in Callers : cpc[c] = "starting" => \E t \in Threads : tpc[t] = "unstarted"
  /\ \A c, d \in Callers : cpc[c] = "starting" /\ cpc[d] = "starting" => c = d
  /\ \A t \in Threads : tpc[t] = "exit" => shutdown
  /\ shutdown => (~accepting /\ queue = <<>>) \/ Stranded

FirstInv == starts = 1 => ClosedInOrder

StopInv == ReportInv /\ FreshInv /\ FirstInv

LEMMA ReportStep ==
  ASSUME TRUE \notin Deadlines, DispatcherInv, ReportInv, [Next]_vars
  PROVE  ReportInv'
<1>1. /\ timed \in [Callers -> BOOLEAN] /\ Deadlines \subseteq BOOLEAN
      /\ report \in [Callers -> {"none", "stopped", "incomplete"}]
  BY DispatcherAssumptions DEF DispatcherInv, TypeOK
<1>2. ASSUME UNCHANGED <<timed, report>>, running' => running
      PROVE  ReportInv'
  BY <1>2 DEF ReportInv
<1>3. ASSUME NEW t \in Threads, ThreadNext(t)
      PROVE  ReportInv'
  BY <1>2, <1>3 DEF ThreadNext, Get, GetTimesOut, LookAtShutdown, MarkInFlight, TaskEnds,
     Forget, Exit, ThreadStep, callers, pool
<1>4. ASSUME NEW c \in Callers, StopReturns(c), UNCHANGED <<pool, timed>>
      PROVE  ReportInv'
  BY <1>1, <1>4 DEF StopReturns, ReportInv, pool
<1>5. ASSUME NEW c \in Callers, CallProgress(c)
      PROVE  ReportInv'
  <2>1. CASE Joined(c)
    BY <1>4, <2>1 DEF Joined, StopReturns
  <2> QED
    BY <1>2, <1>5, <2>1 DEF CallProgress, StartThread, AbortStart, DrainDone, DiscardOne,
       DiscardForget, SetShutdown, CopyThreads, JoinRaises, pool
<1>6. ASSUME NEW c \in Callers, CallNext(c)
      PROVE  ReportInv'
  <2>1. CASE Start(c)
    BY <2>1 DEF Start, ReportInv
  <2>2. CASE StartThreadFails(c)
    BY <1>2, <2>2 DEF StartThreadFails, pool
  <2>3. CASE StopWhenStopped(c)
    BY <1>1, <2>3 DEF StopWhenStopped, ReportInv
  <2>4. ASSUME NEW drain \in BOOLEAN, NEW deadline \in Deadlines, Stop(c, drain, deadline)
        PROVE  ReportInv'
    <3>1. deadline = FALSE
      BY <1>1
    <3> QED
      BY <1>1, <2>4, <3>1 DEF Stop, ReportInv
  <2>5. CASE DrainTimesOut(c) \/ JoinTimesOut(c)
    BY <2>5 DEF DrainTimesOut, JoinTimesOut, ReportInv
  <2> QED
    BY <1>6, <2>1, <2>2, <2>3, <2>4, <2>5 DEF CallNext
<1>7. CASE \E r \in Ids : Submit(r)
  BY <1>2, <1>7 DEF Submit, callers, pool
<1>8. CASE UNCHANGED vars
  BY <1>2, <1>8 DEF vars, callers, pool
<1> QED
  BY <1>3, <1>5, <1>6, <1>7, <1>8 DEF Next


\* Before the first start no thread and no call has a step to take.
LEMMA FreshStep ==
  ASSUME DispatcherInv, FreshInv, [Next]_vars, starts' = starts
  PROVE  FreshInv'
<1> SUFFICES ASSUME starts = 0
             PROVE  FreshInv'
  BY DEF FreshInv
<1>1. /\ ~running /\ ~accepting /\ ~shutdown /\ queue = <<>>
      /\ \A c \in Callers : cpc[c] = "idle"
      /\ \A t \in Threads : tpc[t] = "none"
  BY DEF FreshInv, DispatcherInv, PoolInv, Alive
<1>2. ASSUME NEW t \in Threads
      PROVE  ~ThreadNext(t)
  BY <1>1 DEF ThreadNext, Get, GetTimesOut, LookAtShutdown, MarkInFlight, TaskEnds,
     Forget, Exit, ThreadStep
<1>3. ASSUME NEW c \in Callers
      PROVE  ~CallProgress(c)
  BY <1>1 DEF CallProgress, StartThread, AbortStart, DrainDone, DiscardOne,
     DiscardForget, SetShutdown, CopyThreads, Joined, JoinRaises
<1>4. ASSUME NEW c \in Callers, CallNext(c)
      PROVE  StopWhenStopped(c)
  BY <1>1, <1>4 DEF CallNext, Start, StartThreadFails, Stop, DrainTimesOut, JoinTimesOut
<1>5. ~\E r \in Ids : Submit(r)
  BY <1>1 DEF Submit
<1>6. CASE \E c \in Callers : StopWhenStopped(c)
  BY <1>1, <1>6 DEF StopWhenStopped, pending, FreshInv
<1>7. CASE UNCHANGED vars
  BY <1>1, <1>7 DEF vars, pool, pending, callers, FreshInv
<1> QED
  BY <1>2, <1>3, <1>4, <1>5, <1>6, <1>7 DEF Next

\* A thread looks at the event, and the last one to leave finds the queue empty.
LEMMA ThreadsClose ==
  ASSUME DispatcherInv, ClosedInOrder, NEW t \in Threads, ThreadNext(t)
  PROVE  ClosedInOrder'
<1>1. tpc \in [Threads -> ThreadSteps]
  BY DEF DispatcherInv, TypeOK
<1>2. UNCHANGED <<cpc, shutdown>>
  BY DEF ThreadNext, Get, GetTimesOut, LookAtShutdown, MarkInFlight, TaskEnds, Forget,
     Exit, ThreadStep, callers
<1>3. /\ tpc[t] # "unstarted" /\ tpc'[t] # "unstarted"
      /\ \A u \in Threads \ {t} : tpc'[u] = tpc[u]
      /\ tpc'[t] = "exit" => shutdown
  BY <1>1 DEF ThreadNext, Get, GetTimesOut, LookAtShutdown, MarkInFlight, TaskEnds, Forget,
     Exit, ThreadStep
<1>4. Stranded => Stranded'
  BY <1>2, <1>3 DEF Stranded
<1>5. queue = <<>> => queue' = <<>>
  BY DEF ThreadNext, Get, GetTimesOut, LookAtShutdown, MarkInFlight, TaskEnds, Forget,
     Exit, pending
<1>6. ~accepting => ~accepting'
  BY DEF ThreadNext, Get, GetTimesOut, LookAtShutdown, MarkInFlight, TaskEnds, Forget,
     Exit, pool
<1>7. ~running' => queue' = <<>>
  <2>1. CASE running /\ ~running'
    <3>1. Exit(t) /\ tpc[t] = "exit"
      BY <2>1 DEF ThreadNext, Get, GetTimesOut, LookAtShutdown, MarkInFlight, TaskEnds,
         Forget, Exit, ThreadStep, pool
    <3>2. ~running' => Alive' = {}
      BY PoolStep DEF DispatcherInv, PoolInv, Next
    <3>3. \A u \in Threads : tpc'[u] = "none"
      BY <2>1, <3>2 DEF Alive
    <3>4. ~Stranded /\ shutdown
      BY <1>3, <3>1, <3>3 DEF Stranded, ClosedInOrder
    <3> QED
      BY <1>5, <3>4 DEF ClosedInOrder
  <2>2. CASE ~running
    BY <1>5, <2>2 DEF ClosedInOrder
  <2> QED
    BY <2>1, <2>2
<1>8. \A c \in Callers : cpc[c] = "starting" => \E u \in Threads : tpc'[u] = "unstarted"
  BY <1>3 DEF ClosedInOrder
<1> QED
  BY <1>2, <1>3, <1>4, <1>5, <1>6, <1>7, <1>8 DEF ClosedInOrder

\* A stop sets the event when nothing is queued and nothing can be any more; a
\* start that is given up sets it too, but a thread is missing then.
LEMMA CallsClose ==
  ASSUME TRUE \notin Deadlines, DispatcherInv, ReportInv, ClosedInOrder,
         NEW c \in Callers, CallProgress(c) \/ CallNext(c), ~Start(c)
  PROVE  ClosedInOrder'
<1>1. /\ tpc \in [Threads -> ThreadSteps] /\ cpc \in [Callers -> CallSteps]
      /\ queue \in Seq(Ids)
  BY DEF DispatcherInv, TypeOK
<1>2. known = {} => queue = <<>>
  <2>1. known = {} => \A i \in 1..Len(queue) : FALSE
    BY DEF DispatcherInv, PendingIsExact, Queued
  <2>2. (\A i \in 1..Len(queue) : FALSE) => Len(queue) = 0
    BY <1>1
  <2> QED
    BY <1>1, <2>1, <2>2
<1>3. CASE \E t \in Threads : StartThread(c, t)
  <2>1. PICK t \in Threads : StartThread(c, t)
    BY <1>3
  <2>2. cpc[c] = "starting" /\ UNCHANGED <<running, accepting, shutdown, queue>>
    BY <2>1 DEF StartThread, pool, pending
  <2>3. ~Stranded
    BY <2>2 DEF Stranded
  <2>4. /\ \A u \in Threads : tpc'[u] = IF u = t THEN "get" ELSE tpc[u]
        /\ \A d \in Callers \ {c} : cpc'[d] = cpc[d]
        /\ cpc'[c] \in {"starting", "idle"}
        /\ cpc'[c] = "starting" => \E u \in Threads \ {t} : tpc[u] = "unstarted"
    BY <1>1, <2>1 DEF StartThread
  <2> QED
    BY <2>2, <2>3, <2>4 DEF ClosedInOrder, Leaving, Stopping
<1>4. CASE StartThreadFails(c)
  <2>1. /\ UNCHANGED <<running, accepting, queue, tpc>> /\ shutdown'
        /\ cpc[c] = "starting" /\ cpc' = [cpc EXCEPT ![c] = "abort"]
    BY <1>4 DEF StartThreadFails, pool, pending, threads
  <2>2. Stranded'
    BY <1>1, <2>1 DEF Stranded, ClosedInOrder
  <2> QED
    BY <1>1, <2>1, <2>2 DEF ClosedInOrder, Leaving, Stopping
<1>5. CASE AbortStart(c)
  BY <1>1, <1>5 DEF AbortStart, pool, pending, threads, ClosedInOrder, Leaving, Stopping, Stranded
<1>6. CASE StopWhenStopped(c)
  BY <1>6 DEF StopWhenStopped, pending, threads, ClosedInOrder, Stranded
<1>7. CASE \E drain \in BOOLEAN, deadline \in Deadlines : Stop(c, drain, deadline)
  BY <1>1, <1>7 DEF Stop, pending, threads, ClosedInOrder, Leaving, Stopping, Stranded
<1>8. CASE DrainDone(c)
  BY <1>1, <1>2, <1>8 DEF DrainDone, pool, pending, threads, ClosedInOrder, Leaving, Stopping,
     Stranded
<1>9. CASE DiscardOne(c)
  <2>1. queue # <<>> /\ UNCHANGED <<running, accepting, shutdown, tpc, cpc>>
    BY <1>9 DEF DiscardOne, pool, threads
  <2> QED
    BY <2>1 DEF ClosedInOrder, Stranded
<1>10. CASE DiscardForget(c)
  BY <1>1, <1>10 DEF DiscardForget, pool, threads, ClosedInOrder, Leaving, Stopping, Stranded
<1>11. CASE SetShutdown(c)
  <2>1. cpc[c] = "shut" /\ ~accepting /\ queue = <<>>
    BY <1>11 DEF SetShutdown, ClosedInOrder, Leaving, Stopping
  <2> QED
    BY <1>1, <1>11, <2>1 DEF SetShutdown, pool, pending, threads, ClosedInOrder, Leaving,
       Stopping
<1>12. CASE CopyThreads(c)
  BY <1>1, <1>12 DEF CopyThreads, pool, pending, threads, ClosedInOrder, Leaving, Stopping,
     Stranded
<1>13. CASE Joined(c) \/ JoinRaises(c)
  BY <1>1, <1>13 DEF Joined, JoinRaises, StopReturns, pool, pending, threads, ClosedInOrder,
     Leaving, Stopping, Stranded
<1>14. ~DrainTimesOut(c) /\ ~JoinTimesOut(c)
  BY DEF DrainTimesOut, JoinTimesOut, ReportInv
<1> QED
  BY <1>3, <1>4, <1>5, <1>6, <1>7, <1>8, <1>9, <1>10, <1>11, <1>12, <1>13, <1>14
     DEF CallProgress, CallNext

LEMMA FirstStep ==
  ASSUME TRUE \notin Deadlines, DispatcherInv, StopInv, [Next]_vars
  PROVE  FreshInv' /\ FirstInv'
<1>1. starts \in Nat /\ cpc \in [Callers -> CallSteps]
  BY DispatcherAssumptions DEF DispatcherInv, TypeOK
<1>2. CASE \E c \in Callers : Start(c)
  <2>1. PICK c \in Callers : Start(c)
    BY <1>2
  <2>2. starts' = starts + 1
    BY <2>1 DEF Start
  <2>3. starts' # 0 /\ (starts' = 1 => starts = 0)
    BY <1>1, <2>2
  <2>4. ASSUME starts = 0
        PROVE  ClosedInOrder'
    <3>1. /\ running' /\ ~shutdown' /\ Threads # {}
          /\ \A t \in Threads : tpc'[t] = "unstarted"
          /\ cpc' = [cpc EXCEPT ![c] = "starting"]
      BY <2>1, DispatcherAssumptions DEF Start
    <3>2. \A d \in Callers : cpc[d] = "idle"
      BY <2>4 DEF StopInv, FreshInv
    <3> QED
      BY <1>1, <3>1, <3>2 DEF ClosedInOrder, Leaving, Stopping
  <2> QED
    BY <2>3, <2>4 DEF FreshInv, FirstInv
<1>3. CASE ~\E c \in Callers : Start(c)
  <2>1. starts' = starts
    BY <1>3 DEF Next, vars, Submit, ThreadNext, Get, GetTimesOut, LookAtShutdown, MarkInFlight,
       TaskEnds, Forget, Exit, ThreadStep, CallProgress, StartThread, AbortStart, DrainDone,
       DiscardOne, DiscardForget, SetShutdown, CopyThreads, Joined, JoinRaises, CallNext,
       StartThreadFails, StopWhenStopped, Stop, DrainTimesOut, JoinTimesOut, StopReturns
  <2>2. ASSUME starts = 1
        PROVE  ClosedInOrder'
    <3>1. ClosedInOrder
      BY <2>2 DEF StopInv, FirstInv
    <3>2. CASE \E t \in Threads : ThreadNext(t)
      BY <3>1, <3>2, ThreadsClose
    <3>3. CASE \E c \in Callers : CallProgress(c) \/ CallNext(c)
      BY <1>3, <3>1, <3>3, CallsClose DEF StopInv
    <3>4. CASE \E r \in Ids : Submit(r)
      BY <3>1, <3>4 DEF Submit, pool, threads, callers, ClosedInOrder, Leaving, Stopping,
         Stranded
    <3>5. CASE UNCHANGED vars
      BY <3>1, <3>5 DEF vars, pool, threads, pending, callers, ClosedInOrder, Stranded
    <3> QED
      BY <3>2, <3>3, <3>4, <3>5 DEF Next
  <2>3. FreshInv'
    BY <2>1, FreshStep DEF StopInv
  <2> QED
    BY <2>1, <2>2, <2>3 DEF FirstInv
<1> QED
  BY <1>2, <1>3

-----------------------------------------------------------------------------
(* The theorems.                                                           *)

\* The inductive invariant: types, the count of live threads, the pending set.
THEOREM DispatcherCorrect == Spec => []DispatcherInv
<1>1. Init => DispatcherInv
  <2> SUFFICES ASSUME Init
               PROVE  DispatcherInv
    OBVIOUS
  <2>1. Alive = {} /\ Holders = {}
    BY DEF Init, Alive, Holders
  <2>2. PoolInv
    BY <2>1, FS_EmptySet DEF Init, PoolInv
  <2>3. TypeOK
    <3>1. Cardinality(Threads) \in Nat
      BY FS_CardinalityType, DispatcherAssumptions
    <3>2. timed \in [Callers -> BOOLEAN] /\ drained \in [Callers -> BOOLEAN]
      BY DEF Init
    <3>3. /\ tpc \in [Threads -> ThreadSteps] /\ cpc \in [Callers -> CallSteps]
          /\ tid \in [Threads -> Ids \cup {NoId}]
          /\ taken \in [Callers -> SUBSET Ids] /\ joins \in [Callers -> 0..MaxStarts]
          /\ report \in [Callers -> {"none", "stopped", "incomplete"}]
      BY DispatcherAssumptions DEF Init, ThreadSteps, CallSteps
    <3>4. running \in BOOLEAN /\ accepting \in BOOLEAN /\ shutdown \in BOOLEAN
      BY DEF Init
    <3>5. /\ queue \in Seq(Ids) /\ known \in SUBSET Ids /\ inFlight \in SUBSET Ids
          /\ starts \in 0..MaxStarts /\ live \in 0..Cardinality(Threads)
      BY <3>1, SMT, DispatcherAssumptions DEF Init
    <3> QED
      BY <3>2, <3>3, <3>4, <3>5 DEF TypeOK
  <2>4. PendingIsExact
    <3>1. Queued = {} /\ Held = {} /\ Taken = {}
      BY <2>1 DEF Init, Queued, Held, Taken
    <3> QED
      BY <2>1, <3>1 DEF Init, PendingIsExact
  <2> QED
    BY <2>2, <2>3, <2>4 DEF DispatcherInv
<1>2. DispatcherInv /\ [Next]_vars => DispatcherInv'
  BY PoolStep, TypeStep, PendingStep DEF DispatcherInv
<1> QED
  BY <1>1, <1>2, PTL DEF Spec

\* The set that rejects duplicates holds exactly the ids that are queued, held
\* by a worker or being discarded, each in one place.
THEOREM PendingTheorem == Spec => []PendingIsExact
BY DispatcherCorrect, PTL DEF DispatcherInv

\* A dispatcher that says it is stopped has no thread, so that a restart never
\* runs two generations at the same time.
THEOREM StoppedTheorem == Spec => []StoppedHasNoThread
<1>1. DispatcherInv => StoppedHasNoThread
  BY DEF DispatcherInv, TypeOK, PoolInv, Alive, StoppedHasNoThread
<1> QED
  BY <1>1, DispatcherCorrect, PTL

\* When a stop without a deadline returns True, nothing is queued, nothing is
\* pending but what another caller is discarding, and every thread has ended -
\* threads that the operating system refused included - until the dispatcher is
\* started a second time.
THEOREM StopReportTheorem ==
  ASSUME TRUE \notin Deadlines
  PROVE  Spec => [](starts <= 1 => StopReportIsTrue)
<1>1. Init => StopInv
  BY DEF Init, StopInv, ReportInv, FreshInv, FirstInv
<1>2. DispatcherInv /\ StopInv /\ [Next]_vars => StopInv'
  BY ReportStep, FirstStep DEF StopInv
<1>3. DispatcherInv /\ StopInv => (starts <= 1 => StopReportIsTrue)
  <2> SUFFICES ASSUME DispatcherInv, StopInv, starts <= 1, NEW c \in Callers,
                      report[c] = "stopped"
               PROVE  /\ ~running
                      /\ queue = <<>> /\ known \subseteq Taken
                      /\ \A t \in Threads : tpc[t] = "none"
    BY DEF StopReportIsTrue
  <2>1. ~running
    BY DEF StopInv, ReportInv
  <2>2. \A t \in Threads : tpc[t] = "none"
    BY <2>1 DEF DispatcherInv, PoolInv, Alive
  <2>3. starts = 0 \/ starts = 1
    BY DEF DispatcherInv, TypeOK
  <2>4. queue = <<>>
    BY <2>1, <2>3 DEF StopInv, FreshInv, FirstInv, ClosedInOrder
  <2>5. Queued = {} /\ Held = {}
    BY <2>2, <2>4 DEF Queued, Held, Holders
  <2> QED
    BY <2>1, <2>2, <2>4, <2>5 DEF DispatcherInv, PendingIsExact
<1> QED
  BY <1>1, <1>2, <1>3, DispatcherCorrect, PTL DEF Spec
=============================================================================
