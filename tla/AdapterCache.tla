---------------------------- MODULE AdapterCache ----------------------------
(***************************************************************************)
(* The bounded cache of loaded model adapters and the leases under which   *)
(* they are used (app/inference/cache.py), with the lock that serialises   *)
(* inference around them (app/inference/execution.py).                     *)
(*                                                                         *)
(* A step is one critical section of the metadata lock, or one acquisition *)
(* or release of the lock of one adapter.  Loading happens inside such a   *)
(* section, unloading outside.                                             *)
(***************************************************************************)
EXTENDS Integers, Sequences, FiniteSets

CONSTANTS
  Keys,        \* cache keys, as numbers: health probes take them in order
  Threads,     \* threads that lease, probe or unload
  Nobody,      \* owner of a free lock
  MaxSize,     \* bound of the cache
  Calls,       \* the calls threads make: a subset of CallKinds
  Serialised,  \* whether leases are taken under the inference lock
  LoadFails    \* whether loading an adapter may raise

CallKinds == {"lease", "probe", "unload", "clear"}

ASSUME CacheAssumptions ==
  /\ Keys \subseteq Nat /\ IsFiniteSet(Keys)
  /\ IsFiniteSet(Threads) /\ Nobody \notin Threads
  /\ MaxSize \in Nat \ {0}
  /\ Calls \subseteq CallKinds
  /\ Serialised \in BOOLEAN
  /\ LoadFails \in BOOLEAN

\* An adapter object is its key and a number, which is used again when nothing
\* refers to the object any more.  There are enough numbers for the cached
\* adapter of a key and for those in the hands of each thread.
Adapters == Keys \X (1..(2 * Cardinality(Threads) + 1))
NoAdapter == <<0, 0>>
Key(a) == a[1]

VARIABLES
  items,     \* the cached adapters, least recently used first
  loaded,    \* the adapters that are loaded
  owner,     \* who holds each adapter's prediction lock
  retiring,  \* _retiring
  inference, \* who holds the inference lock
  pc,        \* each thread's next step
  want,      \* the key a lease asks for
  mine,      \* the adapter a lease has been given or a probe looks at, or NoAdapter
  todo,      \* the adapters a thread has to unload, in order
  then,      \* what it does afterwards
  candidates,  \* what a health probe has still to look at
  held       \* the adapters a health probe holds

adapters == <<items, loaded, owner, retiring>>
lease == <<want, mine>>
probe == <<candidates, held>>
vars == <<adapters, inference, pc, lease, todo, then, probe>>

-----------------------------------------------------------------------------
Init ==
  /\ items = <<>>
  /\ loaded = {}
  /\ owner = [a \in Adapters |-> Nobody]
  /\ retiring = {}
  /\ inference = Nobody
  /\ pc = [t \in Threads |-> "idle"]
  /\ want = [t \in Threads |-> 0]
  /\ mine = [t \in Threads |-> NoAdapter]
  /\ todo = [t \in Threads |-> <<>>]
  /\ then = [t \in Threads |-> "idle"]
  /\ candidates = [t \in Threads |-> {}]
  /\ held = [t \in Threads |-> {}]

Elements(s) == {s[i] : i \in 1..Len(s)}
Cached == Elements(items)

\* The elements of s that are in A, in their order: a set with one member.
Part(s, A) ==
  LET I == {i \in 1..Len(s) : s[i] \in A}
      n == Cardinality(I)
      InOrder == {p \in [1..n -> I] : \A i, j \in 1..n : i < j => p[i] < p[j]}
  IN  {[i \in 1..n |-> s[p[i]]] : p \in InOrder}

\* The mapping still holds this very adapter for its key.
Current(a) == a \in Cached

Used ==
  Cached \cup UNION {{mine[t]} \cup Elements(todo[t]) \cup
                     candidates[t] \cup held[t] : t \in Threads}

\* The new adapter of a key: a set with one member.
Fresh(k) ==
  {a \in Adapters \ Used :
     Key(a) = k /\ \A b \in Adapters \ Used : Key(b) = k => a[2] <= b[2]}

Goto(t, step) == pc' = [pc EXCEPT ![t] = step]

\* The lease is over: the adapter's lock, then the inference lock are free.
EndLease(t) ==
  /\ Goto(t, "idle")
  /\ mine' = [mine EXCEPT ![t] = NoAdapter]
  /\ want' = [want EXCEPT ![t] = 0]
  /\ inference' = IF Serialised THEN Nobody ELSE inference

-----------------------------------------------------------------------------
(* Retiring adapters: evicted, invalidated or unloaded ones leave the      *)
(* mapping at once and are unloaded when their lock is free.               *)

\* _pop_evictions_locked: the oldest adapters beyond the bound.
EvictedBy(seq) == SubSeq(seq, 1, Len(seq) - MaxSize)

Retire(t, victims, next) ==
  /\ retiring' = retiring \cup {Key(victims[i]) : i \in 1..Len(victims)}
  /\ todo' = [todo EXCEPT ![t] = victims]
  /\ then' = [then EXCEPT ![t] = next]
  /\ Goto(t, "dispose")

\* The adapter is unloaded under its prediction lock, which a failed lease
\* holds itself.
Dispose(t) ==
  /\ pc[t] = "dispose"
  /\ owner[Head(todo[t])] \in {Nobody, t}
  /\ loaded' = loaded \ {Head(todo[t])}
  /\ Goto(t, "disposed")
  /\ UNCHANGED <<items, owner, retiring, inference, lease, todo, then,
                 probe>>

\* The finally block: the key may be loaded again.
Disposed(t) ==
  /\ pc[t] = "disposed"
  /\ retiring' = retiring \ {Key(Head(todo[t]))}
  /\ todo' = [todo EXCEPT ![t] = Tail(@)]
  /\ Goto(t, IF Len(todo[t]) = 1 THEN then[t] ELSE "dispose")
  /\ UNCHANGED <<items, loaded, owner, inference, lease, then, probe>>

-----------------------------------------------------------------------------
(* lease, with get_or_load.                                                *)

\* deterministic_inference surrounds the lease.
Lease(t, k) ==
  /\ "lease" \in Calls
  /\ pc[t] = "idle"
  /\ IF Serialised THEN inference = Nobody /\ inference' = t
                   ELSE UNCHANGED inference
  /\ want' = [want EXCEPT ![t] = k]
  /\ Goto(t, "load")
  /\ UNCHANGED <<adapters, mine, todo, then, probe>>

Hit(t) ==
  /\ pc[t] = "load"
  /\ want[t] \notin retiring
  /\ \E a \in Cached :
       /\ Key(a) = want[t]
       /\ \E others \in Part(items, Cached \ {a}) : items' = Append(others, a)
       /\ mine' = [mine EXCEPT ![t] = a]
  /\ Goto(t, "look")
  /\ UNCHANGED <<loaded, owner, retiring, inference, want, todo, then,
                 probe>>

Missing(t) == pc[t] = "load" /\ \A a \in Cached : Key(a) # want[t]

\* Faulty variant: a key may be loaded while its old adapter retires.
Load_NoWait(t) ==
  /\ Missing(t)
  /\ \E new \in Fresh(want[t]) :
       LET all == Append(items, new)
           victims == EvictedBy(all)
       IN  /\ loaded' = loaded \cup {new}
           /\ mine' = [mine EXCEPT ![t] = new]
           /\ items' = SubSeq(all, Len(victims) + 1, Len(all))
           /\ IF victims = <<>>
              THEN Goto(t, "look") /\ UNCHANGED <<retiring, todo, then>>
              ELSE Retire(t, victims, "look")
  /\ UNCHANGED <<owner, inference, want, probe>>

\* Otherwise the adapter is loaded, and the oldest ones beyond the bound are
\* evicted, in the same critical section.
Load(t) ==
  /\ Missing(t)
  /\ want[t] \notin retiring
  /\ \E new \in Fresh(want[t]) :
       LET all == Append(items, new)
           victims == EvictedBy(all)
       IN  /\ loaded' = loaded \cup {new}
           /\ mine' = [mine EXCEPT ![t] = new]
           /\ items' = SubSeq(all, Len(victims) + 1, Len(all))
           /\ IF victims = <<>>
              THEN Goto(t, "look") /\ UNCHANGED <<retiring, todo, then>>
              ELSE Retire(t, victims, "look")
  /\ UNCHANGED <<owner, inference, want, probe>>

\* The factory or the load raises: nothing is cached, the call raises.
LoadRaises(t) ==
  /\ LoadFails
  /\ Missing(t)
  /\ want[t] \notin retiring
  /\ EndLease(t)
  /\ UNCHANGED <<adapters, todo, then, probe>>

\* Faulty variant: an adapter that has left is not asked for again.
LookUp_Waits(t) ==
  /\ pc[t] = "look"
  /\ IF Current(mine[t]) THEN Goto(t, "acquire") ELSE UNCHANGED pc
  /\ UNCHANGED <<adapters, inference, lease, todo, then, probe>>

\* The prediction lock is looked up; an adapter that has left meanwhile is
\* asked for again.
LookUp(t) ==
  /\ pc[t] = "look"
  /\ IF Current(mine[t])
     THEN Goto(t, "acquire") /\ UNCHANGED mine
     ELSE Goto(t, "load") /\ mine' = [mine EXCEPT ![t] = NoAdapter]
  /\ UNCHANGED <<adapters, inference, want, todo, then, probe>>

Acquire(t) ==
  /\ pc[t] = "acquire"
  /\ owner[mine[t]] = Nobody
  /\ owner' = [owner EXCEPT ![mine[t]] = t]
  /\ Goto(t, "recheck")
  /\ UNCHANGED <<items, loaded, retiring, inference, lease, todo, then,
                 probe>>

\* Faulty variant: the mapping is not looked at again under the lock.
Recheck_Trusting(t) ==
  /\ pc[t] = "recheck"
  /\ Goto(t, "use")
  /\ UNCHANGED <<adapters, inference, lease, todo, then, probe>>

\* An adapter that was retired while the thread waited is given back.
Recheck(t) ==
  /\ pc[t] = "recheck"
  /\ IF Current(mine[t])
     THEN Goto(t, "use") /\ UNCHANGED <<owner, mine>>
     ELSE /\ Goto(t, "load")
          /\ owner' = [owner EXCEPT ![mine[t]] = Nobody]
          /\ mine' = [mine EXCEPT ![t] = NoAdapter]
  /\ UNCHANGED <<items, loaded, retiring, inference, want, todo, then,
                 probe>>

\* The prediction succeeds, or raises when the adapter has been retired already;
\* a failed lease has disposed of its adapter.
Release(t) ==
  /\ pc[t] \in {"use", "release"}
  /\ owner' = [owner EXCEPT ![mine[t]] = Nobody]
  /\ EndLease(t)
  /\ UNCHANGED <<items, loaded, retiring, todo, then, probe>>

\* Faulty variant: the failed adapter stays in the cache although it is unloaded.
UseRaises_StaysCached(t) ==
  /\ pc[t] = "use"
  /\ Current(mine[t])
  /\ UNCHANGED items
  /\ Retire(t, <<mine[t]>>, "release")
  /\ UNCHANGED <<loaded, owner, inference, lease, probe>>

\* The prediction raises: the adapter leaves the mapping and is unloaded.
UseRaises(t) ==
  /\ pc[t] = "use"
  /\ Current(mine[t])
  /\ items' \in Part(items, Cached \ {mine[t]})
  /\ Retire(t, <<mine[t]>>, "release")
  /\ UNCHANGED <<loaded, owner, inference, lease, probe>>

-----------------------------------------------------------------------------
(* health_snapshot.                                                        *)

Probe(t) ==
  /\ "probe" \in Calls
  /\ pc[t] = "idle"
  /\ items # <<>>
  /\ candidates' = [candidates EXCEPT ![t] = Cached]
  /\ Goto(t, "probe")
  /\ UNCHANGED <<adapters, inference, lease, todo, then, held>>

\* The candidates are taken in the order of their keys.
ProbeAcquire(t) ==
  /\ pc[t] = "probe"
  /\ \E a \in candidates[t] :
       /\ \A b \in candidates[t] : Key(a) <= Key(b)
       /\ owner[a] = Nobody
       /\ owner' = [owner EXCEPT ![a] = t]
       /\ mine' = [mine EXCEPT ![t] = a]
  /\ Goto(t, "probecheck")
  /\ UNCHANGED <<items, loaded, retiring, inference, want, todo, then, probe>>

\* A retired adapter is given back and left out.
ProbeCheck(t) ==
  /\ pc[t] = "probecheck"
  /\ IF Current(mine[t]) /\ Key(mine[t]) \notin retiring
     THEN held' = [held EXCEPT ![t] = @ \cup {mine[t]}] /\ UNCHANGED owner
     ELSE owner' = [owner EXCEPT ![mine[t]] = Nobody] /\ UNCHANGED held
  /\ candidates' = [candidates EXCEPT ![t] = @ \ {mine[t]}]
  /\ mine' = [mine EXCEPT ![t] = NoAdapter]
  /\ Goto(t, "probe")
  /\ UNCHANGED <<items, loaded, retiring, inference, want, todo, then>>

\* The adapters have answered; all locks are released.
ProbeEnds(t) ==
  /\ pc[t] = "probe"
  /\ candidates[t] = {}
  /\ owner' = [a \in Adapters |-> IF a \in held[t] THEN Nobody ELSE owner[a]]
  /\ held' = [held EXCEPT ![t] = {}]
  /\ Goto(t, "idle")
  /\ UNCHANGED <<items, loaded, retiring, inference, lease, todo, then,
                 candidates>>

-----------------------------------------------------------------------------
(* unload and clear.                                                       *)

RetireCached(t, chosen) ==
  /\ pc[t] = "idle"
  /\ chosen # {}
  /\ items' \in Part(items, Cached \ chosen)
  /\ \E victims \in Part(items, chosen) : Retire(t, victims, "idle")
  /\ UNCHANGED <<loaded, owner, inference, lease, probe>>

\* A model may be cached under several keys, for its devices and fingerprints.
Unload(t, keys) ==
  /\ "unload" \in Calls
  /\ RetireCached(t, {a \in Cached : Key(a) \in keys})

Clear(t) ==
  /\ "clear" \in Calls
  /\ RetireCached(t, Cached)

-----------------------------------------------------------------------------
Begin(t) ==
  \/ \E k \in Keys : Lease(t, k)
  \/ Probe(t)
  \/ \E keys \in SUBSET Keys : Unload(t, keys)
  \/ Clear(t)

\* The steps of a call that are never refused for good.
Progress(t) ==
  \/ Hit(t)
  \/ Load(t)
  \/ LookUp(t)
  \/ Recheck(t)
  \/ Release(t)
  \/ ProbeCheck(t)
  \/ ProbeEnds(t)
  \/ Disposed(t)

\* The steps that wait for the lock of an adapter.
Locking(t) == Acquire(t) \/ ProbeAcquire(t) \/ Dispose(t)

Fault(t) == LoadRaises(t) \/ UseRaises(t)

Next ==
  \E t \in Threads : Begin(t) \/ Progress(t) \/ Locking(t) \/ Fault(t)

Spec == Init /\ [][Next]_vars

\* Threads go on, and a lock that is released again and again is not refused to
\* the same thread forever.  Nobody has to begin a call.
Fairness ==
  \A t \in Threads : WF_vars(Progress(t)) /\ SF_vars(Locking(t))

FairSpec == Spec /\ Fairness
-----------------------------------------------------------------------------
(* Properties.                                                             *)

Steps ==
  {"idle", "load", "look", "acquire", "recheck", "use", "release", "dispose",
   "disposed", "probe", "probecheck"}

\* Type correctness of the whole state.
TypeOK ==
  /\ items \in Seq(Adapters) /\ Len(items) <= MaxSize
  /\ loaded \in SUBSET Adapters
  /\ owner \in [Adapters -> Threads \cup {Nobody}]
  /\ retiring \in SUBSET Keys
  /\ inference \in Threads \cup {Nobody}
  /\ pc \in [Threads -> Steps]
  /\ want \in [Threads -> Keys \cup {0}]
  /\ mine \in [Threads -> Adapters \cup {NoAdapter}]
  /\ todo \in [Threads -> Seq(Adapters)]
  /\ then \in [Threads -> {"idle", "look", "release"}]
  /\ candidates \in [Threads -> SUBSET Adapters]
  /\ held \in [Threads -> SUBSET Adapters]

\* Whoever predicts with an adapter or asks for its health has a loaded adapter
\* to himself, whatever is evicted, unloaded or invalidated meanwhile.
UsedIsLoaded ==
  \A t \in Threads :
    /\ pc[t] = "use" =>
         mine[t] \in loaded /\ owner[mine[t]] = t /\ Key(mine[t]) = want[t]
    /\ \A a \in held[t] : a \in loaded /\ owner[a] = t

\* There are never two loaded adapters for one key: the memory of a model is
\* not occupied twice, even while an old adapter waits to be unloaded.
OneAdapterPerKey ==
  \A a, b \in loaded : Key(a) = Key(b) => a = b

\* A loaded adapter is cached, or some thread is about to unload it; a key is
\* kept from loading exactly as long as some thread will release it.
NothingLeaks ==
  /\ Cached \subseteq loaded
  /\ loaded \ Cached \subseteq UNION {Elements(todo[t]) : t \in Threads}
  /\ retiring = {Key(a) : a \in UNION {Elements(todo[t]) : t \in Threads}}

\* No call waits forever: not a lease for a retiring key, not an eviction for a
\* lease, not a probe that holds some adapters for the next one.  Only a lease
\* whose adapter is unloaded again and again may be kept from it.
Unloading == \E t \in Threads : Clear(t) \/ \E keys \in SUBSET Keys : Unload(t, keys)

CallsEnd ==
  <>[][~Unloading]_vars => \A t \in Threads : pc[t] # "idle" ~> pc[t] = "idle"
=============================================================================
