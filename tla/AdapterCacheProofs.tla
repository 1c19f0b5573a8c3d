------------------------- MODULE AdapterCacheProofs -------------------------
(***************************************************************************)
(* Theorems about AdapterCache, for every finite set of keys and threads,  *)
(* every bound of the cache and every kind of call, with and without the   *)
(* inference lock.                                                         *)
(***************************************************************************)
EXTENDS AdapterCache, FiniteSetTheorems, SequenceTheorems, TLAPS

-----------------------------------------------------------------------------
(* The inductive invariant.                                                *)

Disposing == {"dispose", "disposed"}

\* The adapters that some thread has still to unload.
Retired == UNION {Elements(todo[t]) : t \in Threads}

\* No key occurs twice in a sequence of adapters, or in both of two.
Unique(s) == \A i, j \in 1..Len(s) : Key(s[i]) = Key(s[j]) => i = j
Apart(A, B) == \A a \in A, b \in B : Key(a) # Key(b)

\* The cached adapters and those to be unloaded are all that is loaded, and no
\* key occurs twice among them.
StoreTypeOK ==
  /\ items \in Seq(Adapters) /\ Len(items) <= MaxSize
  /\ loaded \in SUBSET Adapters
  /\ retiring \in SUBSET Keys
  /\ todo \in [Threads -> Seq(Adapters)]

StoreInv ==
  /\ StoreTypeOK
  /\ NothingLeaks
  /\ Unique(items)
  /\ \A t \in Threads : Unique(todo[t])
  /\ \A t, u \in Threads : t # u => Apart(Elements(todo[t]), Elements(todo[u]))
  /\ Apart(Cached, Retired)

\* The steps at which a lease has been given an adapter, and those at which it
\* holds the adapter's lock.
Given(t) ==
  \/ pc[t] \in {"look", "acquire", "recheck", "use", "release"}
  \/ pc[t] \in Disposing /\ then[t] \in {"look", "release"}
Locked(t) ==
  \/ pc[t] \in {"recheck", "use", "release"}
  \/ pc[t] \in Disposing /\ then[t] = "release"

\* A thread has adapters to unload as long as it disposes of them, and the first
\* one stays in its list after it was unloaded.  Its locks are those of the
\* adapter it uses or looks at and of the adapters its probe holds.
ThreadInv(t) ==
  /\ pc[t] \in Disposing <=> todo[t] # <<>>
  /\ pc[t] = "disposed" => Head(todo[t]) \notin loaded
  /\ Given(t) => mine[t] \in Adapters /\ Key(mine[t]) = want[t]
  /\ Locked(t) => owner[mine[t]] = t
  /\ pc[t] = "use" => mine[t] \in loaded
  /\ held[t] # {} => pc[t] \in {"probe", "probecheck"}
  /\ \A a \in held[t] : a \in loaded /\ owner[a] = t
  /\ pc[t] = "probecheck" =>
       mine[t] \in Adapters /\ owner[mine[t]] = t /\ mine[t] \notin held[t]

CacheInv ==
  /\ TypeOK
  /\ StoreInv
  /\ \A t \in Threads : ThreadInv(t)
-----------------------------------------------------------------------------
(* Parts of sequences.                                                     *)

\* A part of a sequence has the elements that were asked for, each at a place of
\* its own.
LEMMA PartProperties ==
  ASSUME NEW S, NEW s \in Seq(S), NEW A, NEW v \in Part(s, A)
  PROVE  /\ v \in Seq(S)
         /\ Elements(v) = Elements(s) \cap A
         /\ Len(v) <= Len(s)
         /\ ~ (Elements(s) \subseteq A) => Len(v) < Len(s)
         /\ Unique(s) => Unique(v)
<1> DEFINE I == {i \in 1..Len(s) : s[i] \in A}
           n == Cardinality(I)
<1>1. PICK p \in [1..n -> I] :
        /\ \A i, j \in 1..n : i < j => p[i] < p[j]
        /\ v = [i \in 1..n |-> s[p[i]]]
  BY Zenon DEF Part
<1>2. /\ I \in SUBSET (1..Len(s)) /\ IsFiniteSet(1..Len(s))
      /\ Cardinality(1..Len(s)) = Len(s) /\ Len(s) \in Nat
  <2>1. Len(s) \in Nat /\ Len(s) \in Int /\ 1 \in Int
    BY LenProperties
  <2>2. /\ IsFiniteSet(1..Len(s))
        /\ Cardinality(1..Len(s)) = IF 1 > Len(s) THEN 0 ELSE Len(s) - 1 + 1
    BY <2>1, FS_Interval, Zenon
  <2> QED
    BY <2>1, <2>2
<1>3. IsFiniteSet(I) /\ n \in Nat /\ n <= Len(s) /\ (n = Len(s) => I = 1..Len(s))
  <2>1. /\ IsFiniteSet(I) /\ n <= Cardinality(1..Len(s))
        /\ Cardinality(1..Len(s)) = n => 1..Len(s) = I
    BY <1>2, FS_Subset, Zenon
  <2>2. n \in Nat
    BY <2>1, FS_CardinalityType, Zenon
  <2> QED
    BY <1>2, <2>1, <2>2
<1> HIDE DEF n
<1>4. v \in Seq(S) /\ Len(v) = n /\ \A i \in 1..n : v[i] = s[p[i]]
  <2>1. \A i \in 1..n : s[p[i]] \in S
    BY <1>1
  <2> QED
    BY <1>1, <1>3, <2>1
<1>5. \A i, j \in 1..n : p[i] = p[j] => i = j
  <2>1. \A i, j \in 1..n : p[i] \in Nat /\ p[j] \in Nat /\ (i # j => i < j \/ j < i)
    BY <1>1, <1>2, <1>3
  <2> QED
    BY <1>1, <2>1
<1>6. \A k \in I : \E i \in 1..n : p[i] = k
  <2>1. p \in Injection(1..n, I)
    BY <1>1, <1>5 DEF Injection, IsInjective
  <2>2. Cardinality(1..n) = n
    BY <1>3, FS_Interval
  <2>3. p \in Surjection(1..n, I)
    BY <1>3, <2>1, <2>2, FS_Injection DEF n
  <2> QED
    BY <2>3 DEF Surjection
<1>7. Elements(v) = Elements(s) \cap A
  <2>1. \A a : a \in Elements(v) <=> \E i \in 1..n : a = s[p[i]]
    BY <1>4 DEF Elements
  <2>2. \A a : a \in Elements(s) \cap A <=> \E k \in I : a = s[k]
    BY DEF Elements
  <2>3. \A i \in 1..n : p[i] \in I
    BY <1>1
  <2> HIDE DEF I
  <2> QED
    BY <1>6, <2>1, <2>2, <2>3
<1>8. Unique(s) => Unique(v)
  <2>1. \A i \in 1..n : p[i] \in 1..Len(s)
    BY <1>1
  <2> QED
    BY <1>4, <1>5, <2>1 DEF Unique
<1>9. ~ (Elements(s) \subseteq A) => Len(v) < Len(s)
  BY SMTT(20), <1>2, <1>3, <1>4 DEF Elements
<1> QED
  BY <1>3, <1>4, <1>7, <1>8, <1>9

\* The adapters that remain after the first one are the others.
LEMMA TailProperties ==
  ASSUME NEW s \in Seq(Adapters), s # <<>>, Unique(s)
  PROVE  /\ Tail(s) \in Seq(Adapters) /\ Head(s) \in Adapters
         /\ Len(s) = 1 <=> Tail(s) = <<>>
         /\ Elements(s) = Elements(Tail(s)) \cup {Head(s)}
         /\ \A a \in Elements(Tail(s)) : Key(a) # Key(Head(s))
         /\ Unique(Tail(s))
<1>1. /\ Len(s) \in Nat \ {0} /\ Head(s) = s[1]
      /\ Head(s) \in Adapters /\ Tail(s) \in Seq(Adapters)
      /\ Len(Tail(s)) = Len(s) - 1
      /\ \A i \in 1..Len(Tail(s)) : Tail(s)[i] = s[i + 1]
  BY HeadTailProperties, EmptySeq
<1>2. Len(s) = 1 <=> Tail(s) = <<>>
  BY <1>1, EmptySeq
<1>3. Elements(s) = Elements(Tail(s)) \cup {Head(s)}
  <2>1. \A a : a \in Elements(s) <=> \E i \in 1..Len(s) : a = s[i]
    BY DEF Elements
  <2>2. \A a : a \in Elements(Tail(s)) <=>
               \E i \in 1..(Len(s) - 1) : a = Tail(s)[i]
    BY <1>1 DEF Elements
  <2>3. \A i \in 1..(Len(s) - 1) : i + 1 \in 1..Len(s) /\ Tail(s)[i] = s[i + 1]
    BY <1>1
  <2>4. \A i \in 1..Len(s) :
          i = 1 \/ (i - 1 \in 1..(Len(s) - 1) /\ s[i] = Tail(s)[i - 1])
    BY <1>1
  <2>5. 1 \in 1..Len(s)
    BY <1>1
  <2>6. \A a \in Elements(s) : a \in Elements(Tail(s)) \cup {Head(s)}
    BY <1>1, <2>1, <2>2, <2>4
  <2>7. \A a \in Elements(Tail(s)) \cup {Head(s)} : a \in Elements(s)
    BY <1>1, <2>1, <2>2, <2>3, <2>5
  <2> QED
    BY <2>6, <2>7
<1>4. \A a \in Elements(Tail(s)) : Key(a) # Key(Head(s))
  BY <1>1 DEF Elements, Unique
<1>5. Unique(Tail(s))
  BY <1>1 DEF Unique
<1> QED
  BY <1>1, <1>2, <1>3, <1>4, <1>5

\* The empty sequence and the one with a single adapter.
LEMMA ShortProperties ==
  /\ Elements(<<>>) = {} /\ Unique(<<>>)
  /\ \A a : Elements(<<a>>) = {a} /\ Unique(<<a>>)
BY DEF Elements, Unique

\* A sequence without repetitions that is cut in two.
LEMMA CutInTwo ==
  ASSUME NEW all, NEW v, NEW w, Unique(all),
         Len(v) \in Nat, Len(w) \in Nat, Len(all) = Len(v) + Len(w),
         \A i \in 1..Len(v) : v[i] = all[i],
         \A i \in 1..Len(w) : w[i] = all[Len(v) + i]
  PROVE  /\ Elements(v) \cup Elements(w) = Elements(all)
         /\ Apart(Elements(w), Elements(v))
         /\ Unique(v) /\ Unique(w)
<1> PICK n \in Nat, r \in Nat : Len(v) = n /\ Len(w) = r
  OBVIOUS
<1>1. /\ \A a : a \in Elements(all) <=> \E i \in 1..(n + r) : a = all[i]
      /\ \A a : a \in Elements(v) <=> \E i \in 1..n : a = v[i]
      /\ \A a : a \in Elements(w) <=> \E i \in 1..r : a = w[i]
  BY DEF Elements
<1>2. /\ \A i \in 1..n : i \in 1..(n + r)
      /\ \A i \in 1..r : n + i \in 1..(n + r)
      /\ \A i \in 1..(n + r) : i \in 1..n \/ (i - n \in 1..r /\ n + (i - n) = i)
  OBVIOUS
<1>3. Elements(v) \cup Elements(w) = Elements(all)
  <2>1. ASSUME NEW a \in Elements(all)
        PROVE  a \in Elements(v) \cup Elements(w)
    <3>1. PICK i \in 1..(n + r) : a = all[i]
      BY <1>1
    <3>2. CASE i \in 1..n
      BY <1>1, <3>1, <3>2
    <3>3. CASE i - n \in 1..r /\ n + (i - n) = i
      <4>1. a = w[i - n]
        BY <3>1, <3>3
      <4> QED
        BY <1>1, <3>3, <4>1
    <3> QED
      BY <1>2, <3>2, <3>3
  <2>2. ASSUME NEW a \in Elements(v) \cup Elements(w)
        PROVE  a \in Elements(all)
    BY <1>1, <1>2
  <2> QED
    BY <2>1, <2>2
<1>4. Apart(Elements(w), Elements(v))
  <2> SUFFICES ASSUME NEW a \in Elements(w), NEW b \in Elements(v)
               PROVE  Key(a) # Key(b)
    BY DEF Apart
  <2>1. PICK i \in 1..r : a = w[i]
    BY <1>1
  <2>2. PICK j \in 1..n : b = v[j]
    BY <1>1
  <2>3. a = all[n + i] /\ b = all[j] /\ n + i # j
    BY <2>1, <2>2
  <2>4. n + i \in 1..(n + r) /\ j \in 1..(n + r)
    BY <1>2
  <2> QED
    BY <2>3, <2>4 DEF Unique
<1>5. Unique(v)
  BY <1>2 DEF Unique
<1>6. Unique(w)
  <2> SUFFICES ASSUME NEW i \in 1..r, NEW j \in 1..r, Key(w[i]) = Key(w[j])
               PROVE  i = j
    BY DEF Unique
  <2>1. /\ n + i \in 1..(n + r) /\ n + j \in 1..(n + r)
        /\ w[i] = all[n + i] /\ w[j] = all[n + j]
    BY <1>2
  <2>2. n + i = n + j
    BY <2>1 DEF Unique
  <2> QED
    BY <2>2
<1> QED
  BY <1>3, <1>4, <1>5, <1>6

\* The oldest adapters beyond the bound are cut off.
LEMMA EvictedProperties ==
  ASSUME NEW all \in Seq(Adapters), NEW v, v = EvictedBy(all),
         NEW w, w = SubSeq(all, Len(v) + 1, Len(all))
  PROVE  /\ v \in Seq(Adapters) /\ w \in Seq(Adapters)
         /\ Len(v) \in Nat /\ Len(w) \in Nat /\ Len(all) = Len(v) + Len(w)
         /\ Len(w) <= MaxSize
         /\ \A i \in 1..Len(v) : v[i] = all[i]
         /\ \A i \in 1..Len(w) : w[i] = all[Len(v) + i]
<1>1. MaxSize \in Nat \ {0} /\ Len(all) \in Nat
  BY CacheAssumptions, LenProperties
<1>2. \A i \in 1..Len(all) : all[i] \in Adapters
  BY ElementOfSeq
<1> DEFINE k == Len(all) - MaxSize
<1>3. k \in Int /\ k <= Len(all) /\ Len(all) - k = MaxSize
  BY <1>1
<1>4. v = SubSeq(all, 1, k) /\ \A i \in 1..k : all[i] \in Adapters
  BY <1>1, <1>2 DEF EvictedBy
<1> HIDE DEF k
<1>5. /\ v \in Seq(Adapters)
      /\ Len(v) = IF 1 <= k THEN k - 1 + 1 ELSE 0
      /\ \A i \in 1..(k - 1 + 1) : v[i] = all[1 + i - 1]
  BY <1>3, <1>4, SubSeqProperties
<1>6. /\ Len(v) \in 0..Len(all) /\ Len(all) - Len(v) <= MaxSize
      /\ \A i \in 1..Len(v) : i \in 1..(k - 1 + 1) /\ 1 + i - 1 = i
  BY <1>1, <1>3, <1>5
<1>7. \A i \in 1..Len(v) : v[i] = all[i]
  BY <1>5, <1>6
<1> DEFINE m == Len(v) + 1
<1>8. /\ m \in 1..(Len(all) + 1) /\ w = SubSeq(all, m, Len(all))
      /\ \A i \in m..Len(all) : all[i] \in Adapters
  BY <1>1, <1>2, <1>6
<1>9. Len(v) = m - 1
  BY <1>6
<1> HIDE DEF m
<1>10. /\ w \in Seq(Adapters)
       /\ Len(w) = IF m <= Len(all) THEN Len(all) - m + 1 ELSE 0
       /\ \A i \in 1..(Len(all) - m + 1) : w[i] = all[m + i - 1]
  <2>1. PICK lo \in Int : lo = m
    BY <1>8
  <2>2. PICK hi \in Int : hi = Len(all)
    BY <1>1
  <2>3. \A i \in lo..hi : all[i] \in Adapters
    BY <1>1, <1>8, <2>1, <2>2
  <2>4. /\ SubSeq(all, lo, hi) \in Seq(Adapters)
        /\ Len(SubSeq(all, lo, hi)) = IF lo <= hi THEN hi - lo + 1 ELSE 0
        /\ \A i \in 1..(hi - lo + 1) : SubSeq(all, lo, hi)[i] = all[lo + i - 1]
    BY ONLY <2>3, lo \in Int, hi \in Int, SubSeqProperties
  <2> QED
    BY <1>8, <2>1, <2>2, <2>4
<1>11. /\ Len(w) = Len(all) - m + 1
       /\ \A i \in 1..Len(w) : m + i - 1 = Len(v) + i
  BY <1>1, <1>8, <1>9, <1>10
<1>12. \A i \in 1..Len(w) : w[i] = all[Len(v) + i]
  BY <1>10, <1>11
<1>13. Len(v) \in Nat /\ Len(w) \in Nat /\ Len(all) = Len(v) + Len(w)
  BY <1>1, <1>6, <1>8, <1>9, <1>11
<1>14. Len(w) <= MaxSize
  BY <1>1, <1>6, <1>13
<1> QED
  BY <1>5, <1>7, <1>10, <1>12, <1>13, <1>14, Zenon

\* An adapter with a new key is appended.
LEMMA AppendedProperties ==
  ASSUME NEW s \in Seq(Adapters), Unique(s),
         NEW new \in Adapters, Apart(Elements(s), {new}),
         NEW all, all = Append(s, new)
  PROVE  /\ all \in Seq(Adapters) /\ Len(all) = Len(s) + 1
         /\ Elements(all) = Elements(s) \cup {new}
         /\ Unique(all)
<1>1. /\ all \in Seq(Adapters) /\ Len(s) \in Nat /\ Len(all) = Len(s) + 1
      /\ \A i \in 1..Len(s) : all[i] = s[i]
      /\ all[Len(s) + 1] = new
  BY AppendProperties, LenProperties
<1>2. Unique(all)
  BY <1>1 DEF Unique, Apart, Elements
<1>3. Elements(all) = Elements(s) \cup {new}
  <2>1. /\ \A a : a \in Elements(s) <=> \E i \in 1..Len(s) : a = all[i]
        /\ \A a : a \in Elements(all) <=> \E i \in 1..(Len(s) + 1) : a = all[i]
    BY <1>1 DEF Elements
  <2>2. /\ \A i \in 1..(Len(s) + 1) : i \in 1..Len(s) \/ i = Len(s) + 1
        /\ \A i \in 1..Len(s) : i \in 1..(Len(s) + 1)
        /\ Len(s) + 1 \in 1..(Len(s) + 1)
    BY <1>1
  <2>3. \A a \in Elements(all) : a \in Elements(s) \cup {new}
    BY <1>1, <2>1, <2>2, ZenonT(30)
  <2>4. \A a \in Elements(s) \cup {new} : a \in Elements(all)
    BY <1>1, <2>1, <2>2, ZenonT(30)
  <2> QED
    BY <2>3, <2>4, Zenon
<1> QED
  BY <1>1, <1>2, <1>3, Zenon

\* What remains when the oldest adapters beyond the bound are cut off.
Kept(all) == SubSeq(all, Len(EvictedBy(all)) + 1, Len(all))

LEMMA CutProperties ==
  ASSUME NEW s \in Seq(Adapters), Unique(s),
         NEW new \in Adapters, Apart(Elements(s), {new}),
         NEW all, all = Append(s, new)
  PROVE  /\ EvictedBy(all) \in Seq(Adapters) /\ Kept(all) \in Seq(Adapters)
         /\ Len(Kept(all)) <= MaxSize
         /\ Elements(EvictedBy(all)) \cup Elements(Kept(all)) = Elements(s) \cup {new}
         /\ Apart(Elements(Kept(all)), Elements(EvictedBy(all)))
         /\ Unique(EvictedBy(all)) /\ Unique(Kept(all))
<1>1. all \in Seq(Adapters) /\ Unique(all) /\ Elements(all) = Elements(s) \cup {new}
  BY AppendedProperties
<1>2. PICK v : v = EvictedBy(all)
  OBVIOUS
<1>3. PICK w : w = SubSeq(all, Len(v) + 1, Len(all))
  OBVIOUS
<1>4. w = Kept(all)
  BY <1>2, <1>3 DEF Kept
<1>5. /\ v \in Seq(Adapters) /\ w \in Seq(Adapters)
      /\ Len(v) \in Nat /\ Len(w) \in Nat /\ Len(all) = Len(v) + Len(w)
      /\ Len(w) <= MaxSize
      /\ \A i \in 1..Len(v) : v[i] = all[i]
      /\ \A i \in 1..Len(w) : w[i] = all[Len(v) + i]
  BY ONLY SMTT(20), <1>1, <1>2, <1>3, EvictedProperties
<1>6. /\ Elements(v) \cup Elements(w) = Elements(all)
      /\ Apart(Elements(w), Elements(v))
      /\ Unique(v) /\ Unique(w)
  BY ONLY <1>1, <1>5, CutInTwo
<1>7. /\ v \in Seq(Adapters) /\ w \in Seq(Adapters) /\ Len(w) <= MaxSize
      /\ Elements(v) \cup Elements(w) = Elements(s) \cup {new}
      /\ Apart(Elements(w), Elements(v))
      /\ Unique(v) /\ Unique(w)
  BY ONLY <1>1, <1>5, <1>6
<1> QED
  BY ONLY <1>2, <1>4, <1>7

-----------------------------------------------------------------------------
(* Which adapters are cached, loaded and to be unloaded.                   *)

\* Adapters N are loaded, v leave the mapping and thread t has to unload them.
Moved(t, N, v) ==
  /\ items' \in Seq(Adapters) /\ Len(items') <= MaxSize /\ Unique(items')
  /\ v \in Seq(Adapters) /\ Unique(v)
  /\ Elements(items') \cup Elements(v) = Cached \cup N
  /\ Apart(Elements(items'), Elements(v))
  /\ loaded' = loaded \cup N
  /\ retiring' = retiring \cup {Key(a) : a \in Elements(v)}
  /\ todo' = [todo EXCEPT ![t] = v]

\* An adapter is a key and a number.
LEMMA AdapterKey ==
  /\ \A a \in Adapters : Key(a) \in Keys
  /\ \A s \in Seq(Adapters) : Elements(s) \subseteq Adapters
<1>1. \A a \in Adapters : Key(a) \in Keys
  BY DEF Adapters, Key
<1>2. ASSUME NEW s \in Seq(Adapters)
      PROVE  Elements(s) \subseteq Adapters
  BY ElementOfSeq DEF Elements
<1> QED
  BY <1>1, <1>2

LEMMA MoveKeeps ==
  ASSUME StoreInv, NEW t \in Threads, todo[t] = <<>>,
         NEW N \in SUBSET Adapters, \A a \in N : Key(a) \notin retiring,
         NEW v, Moved(t, N, v)
  PROVE  StoreInv'
<1>1. StoreTypeOK'
  <2>1. \A a \in Elements(v) : Key(a) \in Keys
    BY AdapterKey DEF Moved
  <2> QED
    BY <2>1 DEF StoreInv, StoreTypeOK, Moved
<1>2. \A u \in Threads : todo'[u] = IF u = t THEN v ELSE todo[u]
  BY DEF StoreInv, StoreTypeOK, Moved
<1>3. Retired' = Retired \cup Elements(v)
  <2>1. Elements(todo[t]) = {}
    BY ShortProperties
  <2>2. \A a : a \in Retired <=> \E u \in Threads : a \in Elements(todo[u])
    BY DEF Retired
  <2>3. \A a : a \in Retired' <=> \E u \in Threads : a \in Elements(todo'[u])
    BY DEF Retired, Elements
  <2>4. \A a \in Retired' : a \in Retired \cup Elements(v)
    BY <1>2, <2>2, <2>3
  <2>5. \A a \in Retired \cup Elements(v) : a \in Retired'
    BY <1>2, <2>1, <2>2, <2>3
  <2> QED
    BY <2>4, <2>5
<1>4. /\ Cached' = Elements(items') /\ Cached \subseteq loaded
      /\ loaded \ Cached \subseteq Retired
      /\ retiring = {Key(a) : a \in Retired}
  BY DEF StoreInv, NothingLeaks, Retired, Cached, Elements
<1>5. Apart(Cached \cup N, Retired)
  BY <1>4 DEF StoreInv, Apart
<1>6. NothingLeaks'
  <2>1. Cached' \subseteq loaded'
    BY <1>4 DEF Moved
  <2>2. loaded' \ Cached' \subseteq Retired'
    BY <1>3, <1>4 DEF Moved
  <2>3. retiring' = {Key(a) : a \in Retired'}
    BY <1>3, <1>4 DEF Moved
  <2> QED
    BY <2>1, <2>2, <2>3 DEF NothingLeaks, Retired
<1>7. Unique(items') /\ \A u \in Threads : Unique(todo'[u])
  BY <1>2 DEF StoreInv, Moved
<1>8. Apart(Cached', Retired')
  BY <1>3, <1>4, <1>5 DEF Apart, Moved
<1>9. ASSUME NEW u \in Threads, NEW w \in Threads, u # w
      PROVE  Apart(Elements(todo'[u]), Elements(todo'[w]))
  <2>1. \A x \in Threads : Elements(todo[x]) \subseteq Retired
    BY DEF Retired
  <2>2. \A x \in Threads : Apart(Elements(v), Elements(todo[x]))
    BY <1>5, <2>1 DEF Apart, Moved
  <2>3. Apart(Elements(todo[u]), Elements(todo[w]))
    BY <1>9 DEF StoreInv
  <2> QED
    BY <1>2, <1>9, <2>2, <2>3 DEF Apart
<1> QED
  BY <1>1, <1>6, <1>7, <1>8, <1>9 DEF StoreInv, Unique, Apart, Elements

\* An adapter that is to be unloaded is unloaded.
LEMMA DisposeKeeps ==
  ASSUME StoreInv, NEW t \in Threads, todo[t] # <<>>,
         loaded' = loaded \ {Head(todo[t])}, UNCHANGED <<items, retiring, todo>>
  PROVE  StoreInv'
<1>1. todo[t] \in Seq(Adapters) /\ Unique(todo[t])
  BY DEF StoreInv, StoreTypeOK
<1>2. Head(todo[t]) \in Elements(todo[t])
  BY <1>1, TailProperties
<1>3. Head(todo[t]) \notin Cached
  BY <1>2 DEF StoreInv, Apart, Retired
<1>4. StoreTypeOK'
  BY DEF StoreInv, StoreTypeOK
<1>5. NothingLeaks'
  BY <1>3 DEF StoreInv, NothingLeaks, Cached, Elements
<1> QED
  BY SMTT(20), <1>4, <1>5 DEF StoreInv, Unique, Apart, Cached, Retired, Elements

\* An adapter that has been unloaded leaves the list, and its key is free.
LEMMA DisposedKeeps ==
  ASSUME StoreInv, NEW t \in Threads, todo[t] # <<>>, Head(todo[t]) \notin loaded,
         retiring' = retiring \ {Key(Head(todo[t]))},
         todo' = [todo EXCEPT ![t] = Tail(@)], UNCHANGED <<items, loaded>>
  PROVE  StoreInv'
<1> DEFINE h == Head(todo[t])
           rest == Tail(todo[t])
<1>1. todo[t] \in Seq(Adapters) /\ Unique(todo[t])
  BY DEF StoreInv, StoreTypeOK
<1>2. /\ rest \in Seq(Adapters)
      /\ Elements(todo[t]) = Elements(rest) \cup {h}
      /\ \A a \in Elements(rest) : Key(a) # Key(h)
      /\ Unique(rest)
  BY <1>1, TailProperties
<1>3. \A u \in Threads : todo'[u] = IF u = t THEN rest ELSE todo[u]
  BY DEF StoreInv, StoreTypeOK
<1>4. StoreTypeOK'
  BY <1>2 DEF StoreInv, StoreTypeOK
<1> HIDE DEF h, rest
<1>5. \A u \in Threads : u # t => \A a \in Elements(todo[u]) : Key(a) # Key(h)
  BY <1>2 DEF StoreInv, Apart
<1>6. /\ \A a : a \in Retired <=> \E u \in Threads : a \in Elements(todo[u])
      /\ \A a : a \in Retired' <=> \E u \in Threads : a \in Elements(todo'[u])
  BY DEF Retired, Elements
<1>7. \A a : a \in Retired' <=> a \in Retired /\ a # h
  <2>1. \A a \in Retired' : a \in Retired /\ a # h
    BY <1>2, <1>3, <1>5, <1>6
  <2>2. \A a \in Retired : a # h => a \in Retired'
    BY <1>2, <1>3, <1>6
  <2> QED
    BY <2>1, <2>2
<1>8. \A a \in Retired' : Key(a) # Key(h)
  BY <1>2, <1>3, <1>5, <1>6
<1>9. NothingLeaks'
  <2>1. /\ Cached' = Cached /\ Cached \subseteq loaded
        /\ loaded \ Cached \subseteq Retired
        /\ retiring = {Key(a) : a \in Retired}
    BY DEF StoreInv, NothingLeaks, Retired, Cached, Elements
  <2>2. loaded \ Cached \subseteq Retired'
    BY <1>7, <2>1 DEF h
  <2>3. retiring' = {Key(a) : a \in Retired'}
    BY <1>7, <1>8, <2>1 DEF h
  <2> QED
    BY <2>1, <2>2, <2>3 DEF NothingLeaks, Retired
<1>10. \A u \in Threads : Unique(todo'[u])
  BY <1>2, <1>3 DEF StoreInv
<1>11. \A u, w \in Threads : u # w => Apart(Elements(todo'[u]), Elements(todo'[w]))
  BY <1>2, <1>3 DEF StoreInv, Apart
<1>12. Apart(Cached', Retired')
  BY <1>7 DEF StoreInv, Apart, Cached, Elements
<1> QED
  BY <1>4, <1>9, <1>10, <1>11, <1>12 DEF StoreInv, Unique, Apart, Elements

LEMMA StoreSame ==
  ASSUME StoreInv, UNCHANGED <<items, loaded, retiring, todo>>
  PROVE  StoreInv'
<1>1. StoreTypeOK'
  BY DEF StoreInv, StoreTypeOK
<1>2. Cached' = Cached /\ Retired' = Retired
  BY DEF Cached, Retired, Elements
<1>3. NothingLeaks'
  BY <1>2 DEF StoreInv, NothingLeaks, Elements
<1>4. Unique(items)' /\ \A t \in Threads : Unique(todo[t])'
  BY DEF StoreInv, Unique
<1>5. \A t, u \in Threads : t # u => Apart(Elements(todo[t]), Elements(todo[u]))'
  BY DEF StoreInv, Apart, Elements
<1>6. Apart(Cached, Retired)'
  BY <1>2 DEF StoreInv, Apart
<1> QED
  BY <1>1, <1>3, <1>4, <1>5, <1>6 DEF StoreInv

LEMMA RetiredKeys ==
  ASSUME NEW victims
  PROVE  {Key(victims[i]) : i \in 1..Len(victims)} = {Key(a) : a \in Elements(victims)}
BY DEF Elements

\* Retiring adapters that are cached.
LEMMA RetireMoves ==
  ASSUME StoreInv, NEW t \in Threads, NEW A, NEW victims, NEW next,
         items' \in Part(items, Cached \ A),
         victims \in Seq(Adapters), Unique(victims), Elements(victims) = Cached \cap A,
         Retire(t, victims, next), UNCHANGED loaded
  PROVE  Moved(t, {}, victims)
<1>1. items \in Seq(Adapters) /\ Len(items) <= MaxSize /\ Unique(items)
  BY DEF StoreInv, StoreTypeOK
<1>2. /\ items' \in Seq(Adapters) /\ Len(items') <= Len(items) /\ Unique(items')
      /\ Elements(items') = Cached \ A
  <2>1. /\ items' \in Seq(Adapters) /\ Len(items') <= Len(items) /\ Unique(items')
        /\ Elements(items') = Elements(items) \cap (Cached \ A)
    BY <1>1, PartProperties
  <2> QED
    BY <2>1 DEF Cached
<1>3. Len(items') <= MaxSize
  <2>1. Len(items) \in Nat /\ Len(items') \in Nat /\ MaxSize \in Nat
    BY <1>1, <1>2, LenProperties, CacheAssumptions
  <2> QED
    BY <1>1, <1>2, <2>1
<1>4. Apart(Elements(items'), Elements(victims))
  <2> SUFFICES ASSUME NEW a \in Cached, NEW b \in Cached, Key(a) = Key(b)
               PROVE  a = b
    BY <1>2 DEF Apart
  <2> QED
    BY <1>1 DEF Cached, Elements, Unique
<1>5. /\ retiring' = retiring \cup {Key(a) : a \in Elements(victims)}
      /\ todo' = [todo EXCEPT ![t] = victims]
  BY RetiredKeys DEF Retire
<1> QED
  BY <1>2, <1>3, <1>4, <1>5 DEF Moved

LEMMA HitMoves ==
  ASSUME StoreInv, NEW t \in Threads, todo[t] = <<>>, Hit(t)
  PROVE  Moved(t, {}, <<>>)
<1>1. items \in Seq(Adapters) /\ Len(items) <= MaxSize /\ Unique(items)
  BY DEF StoreInv, StoreTypeOK
<1>2. PICK a \in Cached : \E others \in Part(items, Cached \ {a}) : items' = Append(others, a)
  BY DEF Hit
<1>3. PICK others \in Part(items, Cached \ {a}) : items' = Append(others, a)
  BY <1>2
<1>4. /\ others \in Seq(Adapters) /\ Unique(others)
      /\ Elements(others) = Cached \ {a}
      /\ Len(others) < Len(items)
      /\ a \in Adapters
  <2>1. /\ others \in Seq(Adapters) /\ Unique(others)
        /\ Elements(others) = Elements(items) \cap (Cached \ {a})
        /\ ~ (Elements(items) \subseteq Cached \ {a}) => Len(others) < Len(items)
    BY <1>1, PartProperties
  <2>2. a \in Adapters
    BY <1>1, AdapterKey DEF Cached
  <2> QED
    BY <2>1, <2>2 DEF Cached
<1>5. Apart(Elements(others), {a})
  <2> SUFFICES ASSUME NEW b \in Cached, Key(b) = Key(a)
               PROVE  b = a
    BY <1>4 DEF Apart
  <2> QED
    BY <1>1 DEF Cached, Elements, Unique
<1>6. /\ items' \in Seq(Adapters) /\ Len(items') = Len(others) + 1
      /\ Elements(items') = Elements(others) \cup {a}
      /\ Unique(items')
  BY <1>3, <1>4, <1>5, AppendedProperties
<1>7. Len(items') <= MaxSize
  <2>1. Len(items) \in Nat /\ Len(others) \in Nat /\ MaxSize \in Nat
    BY <1>1, <1>4, LenProperties, CacheAssumptions
  <2> QED
    BY <1>1, <1>4, <1>6, <2>1
<1>8. loaded' = loaded /\ retiring' = retiring /\ todo' = [todo EXCEPT ![t] = <<>>]
  BY DEF Hit, StoreInv, StoreTypeOK
<1>9. <<>> \in Seq(Adapters) /\ Elements(<<>>) = {} /\ Unique(<<>>)
  BY ShortProperties
<1> QED
  BY <1>4, <1>6, <1>7, <1>8, <1>9 DEF Moved, Apart

LEMMA LoadMoves ==
  ASSUME StoreInv, NEW t \in Threads, todo[t] = <<>>, Load(t)
  PROVE  \E new \in Adapters : \E v \in Seq(Adapters) :
           /\ new \notin Retired /\ Key(new) \notin retiring
           /\ Moved(t, {new}, v)
           /\ mine' = [mine EXCEPT ![t] = new] /\ Key(new) = want[t]
           /\ \/ v = <<>> /\ pc' = [pc EXCEPT ![t] = "look"] /\ UNCHANGED then
              \/ /\ v # <<>> /\ pc' = [pc EXCEPT ![t] = "dispose"]
                 /\ then' = [then EXCEPT ![t] = "look"]
<1>1. items \in Seq(Adapters) /\ Unique(items)
  BY DEF StoreInv, StoreTypeOK
<1>2. PICK new \in Fresh(want[t]) :
        LET all == Append(items, new)
            victims == EvictedBy(all)
        IN  /\ loaded' = loaded \cup {new}
            /\ mine' = [mine EXCEPT ![t] = new]
            /\ items' = SubSeq(all, Len(victims) + 1, Len(all))
            /\ IF victims = <<>>
               THEN Goto(t, "look") /\ UNCHANGED <<retiring, todo, then>>
               ELSE Retire(t, victims, "look")
  BY DEF Load
<1>3. /\ new \in Adapters /\ Key(new) = want[t] /\ new \notin Retired
      /\ Key(new) \notin retiring
      /\ \A a \in Cached : Key(a) # Key(new)
  BY DEF Fresh, Used, Retired, Load, Missing
<1>4. Apart(Elements(items), {new})
  BY <1>3 DEF Apart, Cached
<1> DEFINE all == Append(items, new)
           v == EvictedBy(all)
<1>5. items' = Kept(all)
  BY <1>2 DEF Kept
<1>6. loaded' = loaded \cup {new} /\ mine' = [mine EXCEPT ![t] = new]
  BY <1>2
<1>7. IF v = <<>> THEN Goto(t, "look") /\ UNCHANGED <<retiring, todo, then>>
      ELSE Retire(t, v, "look")
  BY <1>2
<1>8. /\ v \in Seq(Adapters) /\ items' \in Seq(Adapters) /\ Len(items') <= MaxSize
      /\ Elements(v) \cup Elements(items') = Elements(items) \cup {new}
      /\ Apart(Elements(items'), Elements(v))
      /\ Unique(v) /\ Unique(items')
  <2>1. /\ v \in Seq(Adapters) /\ Kept(all) \in Seq(Adapters)
        /\ Len(Kept(all)) <= MaxSize
        /\ Elements(v) \cup Elements(Kept(all)) = Elements(items) \cup {new}
        /\ Apart(Elements(Kept(all)), Elements(v))
        /\ Unique(v) /\ Unique(Kept(all))
    BY ONLY <1>1, <1>3, <1>4, CutProperties
  <2> QED
    BY ONLY <1>5, <2>1
<1> HIDE DEF v, all
<1>9. /\ retiring' = retiring \cup {Key(a) : a \in Elements(v)}
      /\ todo' = [todo EXCEPT ![t] = v]
  <2>1. CASE v = <<>>
    BY <1>7, <2>1, ShortProperties DEF StoreInv, StoreTypeOK
  <2>2. CASE v # <<>>
    BY <1>7, <2>2, RetiredKeys DEF Retire
  <2> QED
    BY <2>1, <2>2
<1>10. Moved(t, {new}, v)
  BY <1>6, <1>8, <1>9 DEF Moved, Cached
<1>11. \/ v = <<>> /\ pc' = [pc EXCEPT ![t] = "look"] /\ UNCHANGED then
       \/ /\ v # <<>> /\ pc' = [pc EXCEPT ![t] = "dispose"]
          /\ then' = [then EXCEPT ![t] = "look"]
  BY <1>7 DEF Goto, Retire
<1> new \in Adapters /\ v \in Seq(Adapters)
  BY <1>3, <1>8
<1> WITNESS new \in Adapters
<1> WITNESS v \in Seq(Adapters)
<1> QED
  BY <1>3, <1>6, <1>10, <1>11

LEMMA UseRaisesMoves ==
  ASSUME StoreInv, NEW t \in Threads, UseRaises(t)
  PROVE  Moved(t, {}, <<mine[t]>>)
<1>1. mine[t] \in Cached /\ Cached \subseteq Adapters
  BY AdapterKey DEF UseRaises, Current, Cached, StoreInv, StoreTypeOK
<1>2. /\ <<mine[t]>> \in Seq(Adapters) /\ Unique(<<mine[t]>>)
      /\ Elements(<<mine[t]>>) = Cached \cap {mine[t]}
  BY <1>1, ShortProperties
<1>3. /\ items' \in Part(items, Cached \ {mine[t]}) /\ UNCHANGED loaded
      /\ Retire(t, <<mine[t]>>, "release")
  BY DEF UseRaises
<1> QED
  BY ONLY StoreInv, <1>2, <1>3, RetireMoves

LEMMA RetireCachedMoves ==
  ASSUME StoreInv, NEW t \in Threads, NEW chosen, RetireCached(t, chosen)
  PROVE  \E v \in Seq(Adapters) :
           Moved(t, {}, v) /\ Elements(v) = Cached \cap chosen /\ Retire(t, v, "idle")
<1>1. PICK v \in Part(items, chosen) : Retire(t, v, "idle")
  BY DEF RetireCached
<1>2. items \in Seq(Adapters) /\ Unique(items)
  BY DEF StoreInv, StoreTypeOK
<1>3. v \in Seq(Adapters) /\ Unique(v) /\ Elements(v) = Cached \cap chosen
  BY ONLY <1>1, <1>2, PartProperties DEF Cached
<1>4. items' \in Part(items, Cached \ chosen) /\ UNCHANGED loaded
  BY DEF RetireCached
<1>5. Moved(t, {}, v)
  BY ONLY StoreInv, <1>1, <1>3, <1>4, RetireMoves
<1> QED
  BY <1>1, <1>3, <1>5

\* Every step keeps the adapters in order.
LEMMA StoreStep ==
  ASSUME CacheInv, NEW t \in Threads,
         Begin(t) \/ Progress(t) \/ Locking(t) \/ Fault(t)
  PROVE  StoreInv'
<1>1. StoreInv /\ (pc[t] \in Disposing <=> todo[t] # <<>>)
      /\ (pc[t] = "disposed" => Head(todo[t]) \notin loaded)
  BY DEF CacheInv, ThreadInv
<1>2. CASE Hit(t)
  <2>1. todo[t] = <<>>
    BY <1>1, <1>2 DEF Hit, Disposing
  <2> QED
    BY <1>1, <1>2, <2>1, HitMoves, MoveKeeps
<1>3. CASE Load(t)
  <2>1. todo[t] = <<>>
    BY <1>1, <1>3 DEF Load, Missing, Disposing
  <2>2. PICK new \in Adapters, v \in Seq(Adapters) :
          Key(new) \notin retiring /\ Moved(t, {new}, v)
    BY ONLY <1>1, <1>3, <2>1, LoadMoves
  <2> QED
    BY <1>1, <2>1, <2>2, MoveKeeps
<1>4. CASE UseRaises(t)
  <2>1. todo[t] = <<>>
    BY <1>1, <1>4 DEF UseRaises, Disposing
  <2> QED
    BY <1>1, <1>4, <2>1, UseRaisesMoves, MoveKeeps
<1>5. ASSUME NEW chosen, RetireCached(t, chosen)
      PROVE  StoreInv'
  <2>1. todo[t] = <<>>
    BY <1>1, <1>5 DEF RetireCached, Disposing
  <2>2. PICK v \in Seq(Adapters) : Moved(t, {}, v)
    BY ONLY <1>1, <1>5, RetireCachedMoves
  <2> QED
    BY <1>1, <2>1, <2>2, MoveKeeps
<1>6. CASE Dispose(t)
  <2>1. todo[t] # <<>>
    BY <1>1, <1>6 DEF Dispose, Disposing
  <2> QED
    BY <1>1, <1>6, <2>1, DisposeKeeps DEF Dispose
<1>7. CASE Disposed(t)
  <2>1. todo[t] # <<>>
    BY <1>1, <1>7 DEF Disposed, Disposing
  <2> QED
    BY <1>1, <1>7, <2>1, DisposedKeeps DEF Disposed
<1>8. CASE UNCHANGED <<items, loaded, retiring, todo>>
  BY <1>1, <1>8, StoreSame
<1>9. CASE \E k \in Keys : Lease(t, k)
  BY <1>8, <1>9 DEF Lease, adapters
<1>10. CASE Probe(t) \/ LookUp(t) \/ LoadRaises(t)
  BY <1>8, <1>10 DEF Probe, LookUp, LoadRaises, adapters
<1>11. CASE Acquire(t) \/ Recheck(t) \/ Release(t)
  BY <1>8, <1>11 DEF Acquire, Recheck, Release
<1>12. CASE ProbeAcquire(t) \/ ProbeCheck(t) \/ ProbeEnds(t)
  BY <1>8, <1>12 DEF ProbeAcquire, ProbeCheck, ProbeEnds
<1> QED
  BY <1>2, <1>3, <1>4, <1>5, <1>6, <1>7, <1>9, <1>10, <1>11, <1>12
     DEF Begin, Progress, Locking, Fault, Unload, Clear
-----------------------------------------------------------------------------
(* What the other threads have is left alone.                              *)

\* Thread t changes its own variables, frees or takes only locks of its own or
\* free ones, unloads only adapters whose lock is its own or free, and loads
\* only adapters nobody has to unload.
Undisturbed(t) ==
  /\ \A u \in Threads \ {t} :
       /\ pc'[u] = pc[u] /\ want'[u] = want[u] /\ mine'[u] = mine[u]
       /\ todo'[u] = todo[u] /\ then'[u] = then[u] /\ held'[u] = held[u]
  /\ \A a \in Adapters : owner[a] \notin {Nobody, t} => owner'[a] = owner[a]
  /\ \A a \in loaded : owner[a] \notin {Nobody, t} => a \in loaded'
  /\ \A a \in loaded' : a \in loaded \/ a \notin Retired

LEMMA OthersKeep ==
  ASSUME CacheInv, NEW t \in Threads, Undisturbed(t), NEW u \in Threads \ {t}
  PROVE  ThreadInv(u)'
<1>1. /\ pc'[u] = pc[u] /\ want'[u] = want[u] /\ mine'[u] = mine[u]
      /\ todo'[u] = todo[u] /\ then'[u] = then[u] /\ held'[u] = held[u]
  BY DEF Undisturbed
<1>2. ThreadInv(u) /\ Nobody \notin Threads /\ todo[u] \in Seq(Adapters)
      /\ held[u] \subseteq Adapters /\ loaded \subseteq Adapters
  BY CacheAssumptions DEF CacheInv, TypeOK
<1>3. pc[u] = "disposed" => Head(todo[u]) \notin loaded'
  <2>1. SUFFICES ASSUME pc[u] = "disposed"
                 PROVE  Head(todo[u]) \notin loaded'
    OBVIOUS
  <2>2. todo[u] # <<>> /\ Head(todo[u]) \notin loaded
    BY <1>2, <2>1 DEF ThreadInv, Disposing
  <2>3. Unique(todo[u])
    BY DEF CacheInv, StoreInv
  <2>4. Head(todo[u]) \in Elements(todo[u])
    BY <1>2, <2>2, <2>3, TailProperties
  <2> QED
    BY <2>2, <2>4 DEF Undisturbed, Retired
<1>4. \A a \in Adapters : owner[a] = u => owner'[a] = u /\ (a \in loaded => a \in loaded')
  BY <1>2 DEF Undisturbed
<1>5. Given(u)' <=> Given(u)
  BY <1>1 DEF Given
<1>6. Locked(u)' <=> Locked(u)
  BY <1>1 DEF Locked
<1>7. /\ Locked(u) => Given(u)
      /\ pc[u] = "use" => Locked(u)
  BY DEF Locked, Given
<1>8. Locked(u) => owner'[mine[u]] = u
  BY <1>2, <1>4, <1>7 DEF ThreadInv
<1>9. pc[u] = "use" => mine[u] \in loaded'
  BY <1>2, <1>4, <1>7 DEF ThreadInv
<1>10. \A a \in held[u] : a \in loaded' /\ owner'[a] = u
  BY <1>2, <1>4 DEF ThreadInv
<1>11. pc[u] = "probecheck" =>
         mine[u] \in Adapters /\ owner'[mine[u]] = u /\ mine[u] \notin held[u]
  BY <1>2, <1>4 DEF ThreadInv
<1> QED
  BY <1>1, <1>2, <1>3, <1>5, <1>6, <1>8, <1>9, <1>10, <1>11 DEF ThreadInv

\* A thread that keeps everybody's locks and adapters.
LEMMA NothingTaken ==
  ASSUME NEW t, UNCHANGED <<owner, loaded>>,
         \A u \in Threads \ {t} :
           /\ pc'[u] = pc[u] /\ want'[u] = want[u] /\ mine'[u] = mine[u]
           /\ todo'[u] = todo[u] /\ then'[u] = then[u] /\ held'[u] = held[u]
  PROVE  Undisturbed(t)
BY DEF Undisturbed

\* No step disturbs the other threads.
LEMMA UndisturbedStep ==
  ASSUME CacheInv, NEW t \in Threads,
         Begin(t) \/ Progress(t) \/ Locking(t) \/ Fault(t)
  PROVE  Undisturbed(t)
<1>1. ThreadInv(t) /\ TypeOK /\ Nobody \notin Threads
  BY CacheAssumptions DEF CacheInv
<1> DEFINE Mine(u) ==
      /\ pc'[u] = pc[u] /\ want'[u] = want[u] /\ mine'[u] = mine[u]
      /\ todo'[u] = todo[u] /\ then'[u] = then[u] /\ held'[u] = held[u]
<1>2. CASE \E k \in Keys : Lease(t, k)
  <2>1. UNCHANGED <<owner, loaded>> /\ \A u \in Threads \ {t} : Mine(u)
    BY <1>1, <1>2 DEF Lease, Goto, adapters, probe, TypeOK
  <2> QED
    BY <2>1, NothingTaken
<1>3. CASE Probe(t)
  <2>1. UNCHANGED <<owner, loaded>> /\ \A u \in Threads \ {t} : Mine(u)
    BY <1>1, <1>3 DEF Probe, Goto, adapters, lease, TypeOK
  <2> QED
    BY <2>1, NothingTaken
<1>4. ASSUME NEW chosen, RetireCached(t, chosen)
      PROVE  Undisturbed(t)
  <2>1. PICK v \in Part(items, chosen) : Retire(t, v, "idle")
    BY <1>4 DEF RetireCached
  <2>2. UNCHANGED <<owner, loaded>> /\ \A u \in Threads \ {t} : Mine(u)
    BY <1>1, <1>4, <2>1 DEF RetireCached, Retire, Goto, lease, probe, TypeOK
  <2> QED
    BY <2>2, NothingTaken
<1>5. CASE Hit(t)
  <2>1. UNCHANGED <<owner, loaded>> /\ \A u \in Threads \ {t} : Mine(u)
    BY <1>1, <1>5 DEF Hit, Goto, probe, TypeOK
  <2> QED
    BY <2>1, NothingTaken
<1>6. CASE Load(t)
  <2>1. todo[t] = <<>>
    BY <1>1, <1>6 DEF Load, Missing, ThreadInv, Disposing
  <2>2. StoreInv
    BY DEF CacheInv
  <2>3. PICK new \in Adapters, v \in Seq(Adapters) :
          /\ new \notin Retired /\ Moved(t, {new}, v)
          /\ mine' = [mine EXCEPT ![t] = new]
          /\ \/ pc' = [pc EXCEPT ![t] = "look"] /\ UNCHANGED then
             \/ /\ pc' = [pc EXCEPT ![t] = "dispose"]
                /\ then' = [then EXCEPT ![t] = "look"]
    BY ONLY <1>6, <2>1, <2>2, LoadMoves
  <2>4. UNCHANGED <<owner, want, held>> /\ loaded' = loaded \cup {new}
        /\ todo' = [todo EXCEPT ![t] = v]
    BY <1>6, <2>3 DEF Load, Moved, probe
  <2>5. \A u \in Threads \ {t} : Mine(u)
    BY <1>1, <2>3, <2>4 DEF TypeOK
  <2> QED
    BY <2>3, <2>4, <2>5 DEF Undisturbed
<1>7. CASE LookUp(t)
  <2>1. UNCHANGED <<owner, loaded>> /\ \A u \in Threads \ {t} : Mine(u)
    BY <1>1, <1>7 DEF LookUp, Goto, adapters, probe, TypeOK
  <2> QED
    BY <2>1, NothingTaken
<1>8. CASE Recheck(t)
  <2>1. UNCHANGED loaded /\ \A u \in Threads \ {t} : Mine(u)
    BY <1>1, <1>8 DEF Recheck, Goto, probe, TypeOK
  <2>2. owner[mine[t]] = t
    BY <1>1, <1>8 DEF Recheck, ThreadInv, Locked
  <2>3. \A a \in Adapters : owner[a] # t => owner'[a] = owner[a]
    BY <1>1, <1>8, <2>2 DEF Recheck, TypeOK
  <2> QED
    BY <2>1, <2>3 DEF Undisturbed
<1>9. CASE Release(t)
  <2>1. UNCHANGED loaded /\ \A u \in Threads \ {t} : Mine(u)
    BY <1>1, <1>9 DEF Release, EndLease, Goto, probe, TypeOK
  <2>2. owner[mine[t]] = t
    BY <1>1, <1>9 DEF Release, ThreadInv, Locked
  <2>3. \A a \in Adapters : owner[a] # t => owner'[a] = owner[a]
    BY <1>1, <1>9, <2>2 DEF Release, TypeOK
  <2> QED
    BY <2>1, <2>3 DEF Undisturbed
<1>10. CASE ProbeCheck(t)
  <2>1. UNCHANGED loaded /\ \A u \in Threads \ {t} : Mine(u)
    BY <1>1, <1>10 DEF ProbeCheck, Goto, TypeOK
  <2>2. owner[mine[t]] = t
    BY <1>1, <1>10 DEF ProbeCheck, ThreadInv
  <2>3. \A a \in Adapters : owner[a] # t => owner'[a] = owner[a]
    BY <1>1, <1>10, <2>2 DEF ProbeCheck, TypeOK
  <2> QED
    BY <2>1, <2>3 DEF Undisturbed
<1>11. CASE ProbeEnds(t)
  <2>1. UNCHANGED loaded /\ \A u \in Threads \ {t} : Mine(u)
    BY <1>1, <1>11 DEF ProbeEnds, Goto, lease, TypeOK
  <2>2. \A a \in held[t] : owner[a] = t
    BY <1>1 DEF ThreadInv
  <2>3. \A a \in Adapters : owner[a] # t => owner'[a] = owner[a]
    BY <1>11, <2>2 DEF ProbeEnds
  <2> QED
    BY <2>1, <2>3 DEF Undisturbed
<1>12. CASE Disposed(t)
  <2>1. UNCHANGED <<owner, loaded>> /\ \A u \in Threads \ {t} : Mine(u)
    BY <1>1, <1>12 DEF Disposed, Goto, lease, probe, TypeOK
  <2> QED
    BY <2>1, NothingTaken
<1>13. CASE Acquire(t)
  <2>1. UNCHANGED loaded /\ \A u \in Threads \ {t} : Mine(u)
    BY <1>1, <1>13 DEF Acquire, Goto, lease, probe, TypeOK
  <2>2. \A a \in Adapters : owner[a] # Nobody => owner'[a] = owner[a]
    BY <1>1, <1>13 DEF Acquire, TypeOK
  <2> QED
    BY <2>1, <2>2 DEF Undisturbed
<1>14. CASE ProbeAcquire(t)
  <2>1. UNCHANGED loaded /\ \A u \in Threads \ {t} : Mine(u)
    BY <1>1, <1>14 DEF ProbeAcquire, Goto, probe, TypeOK
  <2>2. \A a \in Adapters : owner[a] # Nobody => owner'[a] = owner[a]
    BY <1>1, <1>14 DEF ProbeAcquire, TypeOK
  <2> QED
    BY <2>1, <2>2 DEF Undisturbed
<1>15. CASE Dispose(t)
  <2>1. UNCHANGED owner /\ \A u \in Threads \ {t} : Mine(u)
    BY <1>1, <1>15 DEF Dispose, Goto, lease, probe, TypeOK
  <2>2. owner[Head(todo[t])] \in {Nobody, t} /\ loaded' = loaded \ {Head(todo[t])}
    BY <1>15 DEF Dispose
  <2> QED
    BY <2>1, <2>2 DEF Undisturbed
<1>16. CASE LoadRaises(t)
  <2>1. UNCHANGED <<owner, loaded>> /\ \A u \in Threads \ {t} : Mine(u)
    BY <1>1, <1>16 DEF LoadRaises, EndLease, Goto, adapters, probe, TypeOK
  <2> QED
    BY <2>1, NothingTaken
<1>17. CASE UseRaises(t)
  <2>1. UNCHANGED <<owner, loaded>> /\ \A u \in Threads \ {t} : Mine(u)
    BY <1>1, <1>17 DEF UseRaises, Retire, Goto, lease, probe, TypeOK
  <2> QED
    BY <2>1, NothingTaken
<1> QED
  BY <1>2, <1>3, <1>4, <1>5, <1>6, <1>7, <1>8, <1>9, <1>10, <1>11, <1>12, <1>13,
     <1>14, <1>15, <1>16, <1>17
     DEF Begin, Progress, Locking, Fault, Unload, Clear

-----------------------------------------------------------------------------
(* The thread itself.                                                      *)

LEMMA DisposedOwn ==
  ASSUME CacheInv, NEW t \in Threads, Disposed(t)
  PROVE  ThreadInv(t)'
<1>1. ThreadInv(t) /\ TypeOK /\ Unique(todo[t]) /\ todo[t] \in Seq(Adapters)
  BY DEF CacheInv, StoreInv, TypeOK
<1>2. todo[t] # <<>>
  BY <1>1 DEF Disposed, ThreadInv, Disposing
<1>3. Len(todo[t]) = 1 <=> Tail(todo[t]) = <<>>
  BY <1>1, <1>2, TailProperties
<1>4. /\ todo'[t] = Tail(todo[t])
      /\ pc'[t] = IF Len(todo[t]) = 1 THEN then[t] ELSE "dispose"
      /\ then[t] \in {"idle", "look", "release"} /\ pc[t] = "disposed"
      /\ UNCHANGED <<items, loaded, owner, want, mine, then, held>>
  BY <1>1 DEF TypeOK, Disposed, Goto, lease, probe
<1>5. held[t] = {}
  BY <1>1, <1>4 DEF ThreadInv
<1>6. /\ pc'[t] \in Disposing <=> todo'[t] # <<>>
      /\ pc'[t] \notin {"disposed", "use", "probecheck"}
  BY <1>3, <1>4 DEF Disposing
<1>7. Given(t)' => Given(t)
  BY <1>4 DEF Given, Disposing
<1>8. Locked(t)' => Locked(t)
  BY <1>4 DEF Locked, Disposing
<1> QED
  BY <1>1, <1>4, <1>5, <1>6, <1>7, <1>8 DEF ThreadInv

\* A thread that retires adapters has some to unload.
LEMMA RetireOwn ==
  ASSUME CacheInv, NEW t \in Threads, NEW v, NEW next, Retire(t, v, next),
         v # <<>>, UNCHANGED <<loaded, owner, want, mine, held>>,
         \/ pc[t] = "idle" /\ next = "idle"
         \/ pc[t] = "use" /\ next = "release"
  PROVE  ThreadInv(t)'
<1>1. ThreadInv(t) /\ TypeOK
  BY DEF CacheInv
<1>2. pc'[t] = "dispose" /\ todo'[t] = v /\ then'[t] = next
  BY <1>1 DEF TypeOK, Retire, Goto
<1>3. held[t] = {} /\ held' = held /\ UNCHANGED <<loaded, owner, want, mine>>
  BY <1>1 DEF ThreadInv
<1>4. Given(t)' => Given(t)
  BY <1>2 DEF Given, Disposing
<1>5. Locked(t)' => Locked(t)
  BY <1>2 DEF Locked, Disposing
<1>6. pc'[t] \in Disposing /\ todo'[t] # <<>>
  BY <1>2 DEF Disposing
<1> QED
  BY <1>1, <1>2, <1>3, <1>4, <1>5, <1>6 DEF ThreadInv

LEMMA RetireCachedOwn ==
  ASSUME CacheInv, NEW t \in Threads, NEW chosen \in SUBSET Cached,
         RetireCached(t, chosen)
  PROVE  ThreadInv(t)'
<1>1. PICK v \in Seq(Adapters) : Elements(v) = chosen /\ Retire(t, v, "idle")
  BY RetireCachedMoves DEF CacheInv
<1>2. v # <<>>
  BY <1>1, ShortProperties DEF RetireCached
<1> QED
  BY <1>1, <1>2, RetireOwn DEF RetireCached, lease, probe

LEMMA LoadOwn ==
  ASSUME CacheInv, NEW t \in Threads, Load(t)
  PROVE  ThreadInv(t)'
<1>1. ThreadInv(t) /\ TypeOK /\ StoreInv /\ pc[t] = "load"
  BY DEF CacheInv, Load, Missing
<1>2. todo[t] = <<>> /\ held[t] = {}
  BY <1>1 DEF ThreadInv, Disposing
<1>3. PICK new \in Adapters, v \in Seq(Adapters) :
        /\ Moved(t, {new}, v)
        /\ mine' = [mine EXCEPT ![t] = new] /\ Key(new) = want[t]
        /\ \/ v = <<>> /\ pc' = [pc EXCEPT ![t] = "look"] /\ UNCHANGED then
           \/ /\ v # <<>> /\ pc' = [pc EXCEPT ![t] = "dispose"]
              /\ then' = [then EXCEPT ![t] = "look"]
  BY ONLY <1>1, <1>2, Load(t), LoadMoves
<1>4. todo'[t] = v /\ mine'[t] = new /\ want' = want /\ held' = held
  BY <1>1, <1>3 DEF TypeOK, Moved, Load, probe
<1>5. \/ pc'[t] = "look" /\ v = <<>>
      \/ pc'[t] = "dispose" /\ then'[t] = "look" /\ v # <<>>
  BY <1>1, <1>3 DEF TypeOK
<1>6. ~ Locked(t)' /\ (pc'[t] \in Disposing <=> v # <<>>)
  BY <1>5 DEF Locked, Disposing
<1> QED
  BY <1>2, <1>3, <1>4, <1>5, <1>6 DEF ThreadInv

LEMMA OwnStep ==
  ASSUME CacheInv, NEW t \in Threads,
         Begin(t) \/ Progress(t) \/ Locking(t) \/ Fault(t)
  PROVE  ThreadInv(t)'
<1>1. ThreadInv(t) /\ TypeOK /\ Cached \subseteq loaded /\ Cached \subseteq Adapters
  BY AdapterKey DEF CacheInv, StoreInv, NothingLeaks, TypeOK, Cached
<1>2. CASE \E k \in Keys : Lease(t, k)
  <2>1. pc[t] = "idle" /\ pc'[t] = "load" /\ UNCHANGED <<todo, held>>
    BY <1>1, <1>2 DEF Lease, Goto, probe, TypeOK
  <2> QED
    BY <1>1, <2>1 DEF ThreadInv, Given, Locked, Disposing
<1>3. CASE Probe(t)
  <2>1. pc[t] = "idle" /\ pc'[t] = "probe" /\ UNCHANGED <<todo, held>>
    BY <1>1, <1>3 DEF Probe, Goto, TypeOK
  <2> QED
    BY <1>1, <2>1 DEF ThreadInv, Given, Locked, Disposing
<1>4. CASE \E keys \in SUBSET Keys : Unload(t, keys)
  <2>1. PICK keys \in SUBSET Keys : RetireCached(t, {a \in Cached : Key(a) \in keys})
    BY <1>4 DEF Unload
  <2>2. {a \in Cached : Key(a) \in keys} \in SUBSET Cached
    OBVIOUS
  <2> QED
    BY <2>1, <2>2, RetireCachedOwn
<1>5. CASE Clear(t)
  BY <1>5, RetireCachedOwn DEF Clear
<1>6. CASE Hit(t)
  <2>1. PICK a \in Cached : Key(a) = want[t] /\ mine' = [mine EXCEPT ![t] = a]
    BY <1>6 DEF Hit
  <2>2. /\ pc[t] = "load" /\ pc'[t] = "look" /\ mine'[t] = a
        /\ UNCHANGED <<todo, held, want>>
    BY <1>1, <1>6, <2>1 DEF Hit, Goto, probe, TypeOK
  <2> QED
    BY <1>1, <2>1, <2>2 DEF ThreadInv, Given, Locked, Disposing
<1>7. CASE LookUp(t)
  <2>1. /\ pc[t] = "look" /\ UNCHANGED <<todo, held, want, loaded, owner>>
        /\ \/ pc'[t] = "acquire" /\ mine' = mine
           \/ pc'[t] = "load"
    BY <1>1, <1>7 DEF LookUp, Goto, adapters, probe, TypeOK
  <2> QED
    BY <1>1, <2>1 DEF ThreadInv, Given, Locked, Disposing
<1>8. CASE Recheck(t)
  <2>1. /\ pc[t] = "recheck" /\ UNCHANGED <<todo, held, want, loaded>>
        /\ \/ /\ pc'[t] = "use" /\ mine[t] \in loaded
              /\ UNCHANGED <<mine, owner>>
           \/ pc'[t] = "load"
    BY <1>1, <1>8 DEF Recheck, Goto, probe, TypeOK, Current
  <2> QED
    BY <1>1, <2>1 DEF ThreadInv, Given, Locked, Disposing
<1>9. CASE Release(t) \/ LoadRaises(t)
  <2>1. /\ pc[t] \in {"use", "release", "load"} /\ pc'[t] = "idle"
        /\ UNCHANGED <<todo, held>>
    BY <1>1, <1>9 DEF Release, LoadRaises, Missing, EndLease, Goto, probe, TypeOK
  <2> QED
    BY <1>1, <2>1 DEF ThreadInv, Given, Locked, Disposing
<1>10. CASE ProbeCheck(t)
  <2>1. /\ pc[t] = "probecheck" /\ pc'[t] = "probe" /\ UNCHANGED <<todo, loaded>>
        /\ mine[t] \in Adapters /\ owner[mine[t]] = t /\ mine[t] \notin held[t]
    BY <1>1, <1>10 DEF ProbeCheck, Goto, TypeOK, ThreadInv
  <2>2. \/ /\ held'[t] = held[t] \cup {mine[t]} /\ owner' = owner
           /\ mine[t] \in loaded
        \/ /\ held'[t] = held[t]
           /\ owner' = [owner EXCEPT ![mine[t]] = Nobody]
    BY <1>1, <1>10 DEF ProbeCheck, TypeOK, Current
  <2>3. /\ \A a \in held[t] : a \in loaded /\ owner[a] = t /\ a \in Adapters
        /\ todo[t] = <<>>
    BY <1>1, <2>1 DEF ThreadInv, TypeOK, Disposing
  <2>4. \A a \in held'[t] : a \in loaded /\ owner'[a] = t
    BY <1>1, <2>1, <2>2, <2>3 DEF TypeOK
  <2> QED
    BY <2>1, <2>3, <2>4 DEF ThreadInv, Given, Locked, Disposing
<1>11. CASE ProbeEnds(t)
  <2>1. /\ pc[t] = "probe" /\ pc'[t] = "idle" /\ UNCHANGED todo
        /\ held'[t] = {}
    BY <1>1, <1>11 DEF ProbeEnds, Goto, TypeOK
  <2> QED
    BY <1>1, <2>1 DEF ThreadInv, Given, Locked, Disposing
<1>12. CASE Disposed(t)
  BY <1>12, DisposedOwn
<1>13. CASE Acquire(t)
  <2>1. /\ pc[t] = "acquire" /\ pc'[t] = "recheck"
        /\ UNCHANGED <<todo, held, want, mine, loaded>>
    BY <1>1, <1>13 DEF Acquire, Goto, lease, probe, TypeOK
  <2>2. mine[t] \in Adapters /\ Key(mine[t]) = want[t] /\ held[t] = {} /\ todo[t] = <<>>
    BY <1>1, <2>1 DEF ThreadInv, Given, Disposing
  <2>3. owner'[mine[t]] = t
    BY <1>1, <1>13, <2>2 DEF Acquire, TypeOK
  <2> QED
    BY <2>1, <2>2, <2>3 DEF ThreadInv, Given, Locked, Disposing
<1>14. CASE ProbeAcquire(t)
  <2>1. PICK a \in candidates[t] :
          /\ owner[a] = Nobody
          /\ owner' = [owner EXCEPT ![a] = t]
          /\ mine' = [mine EXCEPT ![t] = a]
    BY <1>14 DEF ProbeAcquire
  <2>2. /\ pc[t] = "probe" /\ pc'[t] = "probecheck" /\ UNCHANGED <<todo, loaded, held>>
        /\ mine'[t] = a /\ a \in Adapters
    BY <1>1, <1>14, <2>1 DEF ProbeAcquire, Goto, probe, TypeOK
  <2>3. /\ \A b \in held[t] : b \in loaded /\ owner[b] = t /\ b \in Adapters
        /\ todo[t] = <<>> /\ t # Nobody
    BY <1>1, <2>2, CacheAssumptions DEF ThreadInv, TypeOK, Disposing
  <2>4. owner'[a] = t /\ a \notin held[t] /\ \A b \in held[t] : owner'[b] = t
    BY <1>1, <2>1, <2>2, <2>3 DEF TypeOK
  <2> QED
    BY <2>2, <2>3, <2>4 DEF ThreadInv, Given, Locked, Disposing
<1>15. CASE Dispose(t)
  <2>1. /\ pc[t] = "dispose" /\ pc'[t] = "disposed"
        /\ Head(todo[t]) \notin loaded'
        /\ UNCHANGED <<todo, held, want, mine, owner, then>>
    BY <1>1, <1>15 DEF Dispose, Goto, lease, probe, TypeOK
  <2>2. held[t] = {} /\ todo[t] # <<>>
    BY <1>1, <2>1 DEF ThreadInv, Disposing
  <2> QED
    BY <1>1, <2>1, <2>2 DEF ThreadInv, Given, Locked, Disposing
<1>16. CASE UseRaises(t)
  <2>1. /\ Retire(t, <<mine[t]>>, "release") /\ <<mine[t]>> # <<>>
        /\ UNCHANGED <<loaded, owner, want, mine, held>>
        /\ pc[t] = "use"
    BY <1>16 DEF UseRaises, lease, probe
  <2> QED
    BY <2>1, RetireOwn
<1> QED
  BY <1>2, <1>3, <1>4, <1>5, <1>6, <1>7, <1>8, <1>9, <1>10, <1>11, <1>12, <1>13,
     <1>14, <1>15, <1>16, LoadOwn
     DEF Begin, Progress, Locking, Fault

-----------------------------------------------------------------------------
(* The theorems.                                                           *)

\* The variables that StoreInv does not speak of.
ControlTypeOK ==
  /\ owner \in [Adapters -> Threads \cup {Nobody}]
  /\ inference \in Threads \cup {Nobody}
  /\ pc \in [Threads -> Steps]
  /\ want \in [Threads -> Keys \cup {0}]
  /\ mine \in [Threads -> Adapters \cup {NoAdapter}]
  /\ then \in [Threads -> {"idle", "look", "release"}]
  /\ candidates \in [Threads -> SUBSET Adapters]
  /\ held \in [Threads -> SUBSET Adapters]

LEMMA TypeParts == TypeOK <=> StoreTypeOK /\ ControlTypeOK
BY DEF TypeOK, StoreTypeOK, ControlTypeOK

LEMMA TypeStep ==
  ASSUME CacheInv, NEW t \in Threads,
         Begin(t) \/ Progress(t) \/ Locking(t) \/ Fault(t)
  PROVE  ControlTypeOK'
<1>1. ControlTypeOK /\ ThreadInv(t) /\ Cached \subseteq Adapters
  BY TypeParts, AdapterKey DEF CacheInv, StoreInv, StoreTypeOK, Cached
<1>2. CASE \E k \in Keys : Lease(t, k)
  BY <1>1, <1>2 DEF Lease, Goto, adapters, probe, ControlTypeOK, Steps
<1>3. CASE Probe(t)
  BY <1>1, <1>3 DEF Probe, Goto, adapters, lease, ControlTypeOK, Steps
<1>4. ASSUME NEW chosen, RetireCached(t, chosen)
      PROVE  ControlTypeOK'
  <2>1. PICK v \in Part(items, chosen) : Retire(t, v, "idle")
    BY <1>4 DEF RetireCached
  <2> QED
    BY <1>1, <1>4, <2>1
       DEF RetireCached, Retire, Goto, lease, probe, ControlTypeOK, Steps
<1>5. CASE Hit(t)
  <2>1. PICK a \in Cached : mine' = [mine EXCEPT ![t] = a]
    BY <1>5 DEF Hit
  <2> QED
    BY <1>1, <1>5, <2>1 DEF Hit, Goto, probe, ControlTypeOK, Steps
<1>6. CASE Load(t)
  <2>1. todo[t] = <<>>
    BY <1>1, <1>6 DEF Load, Missing, ThreadInv, Disposing
  <2>2. StoreInv
    BY DEF CacheInv
  <2>3. PICK new \in Adapters, v \in Seq(Adapters) :
          /\ mine' = [mine EXCEPT ![t] = new]
          /\ \/ pc' = [pc EXCEPT ![t] = "look"] /\ UNCHANGED then
             \/ /\ pc' = [pc EXCEPT ![t] = "dispose"]
                /\ then' = [then EXCEPT ![t] = "look"]
    BY ONLY <1>6, <2>1, <2>2, LoadMoves
  <2>4. UNCHANGED <<owner, inference, want, candidates, held>>
    BY <1>6 DEF Load, probe
  <2> QED
    BY <1>1, <2>3, <2>4 DEF ControlTypeOK, Steps
<1>7. CASE LookUp(t)
  BY <1>1, <1>7 DEF LookUp, Goto, adapters, probe, ControlTypeOK, Steps
<1>8. CASE Recheck(t)
  BY <1>1, <1>8 DEF Recheck, Goto, probe, ControlTypeOK, Steps
<1>9. CASE Release(t)
  BY <1>1, <1>9 DEF Release, EndLease, Goto, probe, ControlTypeOK, Steps
<1>10. CASE ProbeCheck(t)
  <2>1. mine[t] \in Adapters
    BY <1>1, <1>10 DEF ProbeCheck, ThreadInv
  <2> QED
    BY <1>1, <1>10, <2>1 DEF ProbeCheck, Goto, ControlTypeOK, Steps
<1>11. CASE ProbeEnds(t)
  BY <1>1, <1>11 DEF ProbeEnds, Goto, lease, ControlTypeOK, Steps
<1>12. CASE Disposed(t)
  BY <1>1, <1>12 DEF Disposed, Goto, lease, probe, ControlTypeOK, Steps
<1>13. CASE Acquire(t)
  BY <1>1, <1>13 DEF Acquire, Goto, lease, probe, ControlTypeOK, Steps
<1>14. CASE ProbeAcquire(t)
  BY <1>1, <1>14 DEF ProbeAcquire, Goto, probe, ControlTypeOK, Steps
<1>15. CASE Dispose(t)
  BY <1>1, <1>15 DEF Dispose, Goto, lease, probe, ControlTypeOK, Steps
<1>16. CASE LoadRaises(t)
  BY <1>1, <1>16 DEF LoadRaises, EndLease, Goto, adapters, probe, ControlTypeOK, Steps
<1>17. CASE UseRaises(t)
  BY <1>1, <1>17 DEF UseRaises, Retire, Goto, lease, probe, ControlTypeOK, Steps
<1> QED
  BY <1>2, <1>3, <1>4, <1>5, <1>6, <1>7, <1>8, <1>9, <1>10, <1>11, <1>12, <1>13,
     <1>14, <1>15, <1>16, <1>17
     DEF Begin, Progress, Locking, Fault, Unload, Clear

LEMMA CacheInit == Init => CacheInv
<1> SUFFICES ASSUME Init PROVE CacheInv
  OBVIOUS
<1>1. TypeOK
  <2>1. Len(<<>>) = 0 /\ <<>> \in Seq(Adapters) /\ MaxSize \in Nat \ {0}
    BY CacheAssumptions
  <2> QED
    BY <2>1 DEF Init, TypeOK, Steps
<1>2. Retired = {} /\ Cached = {}
  BY ShortProperties DEF Init, Retired, Cached
<1>3. StoreInv
  <2>1. NothingLeaks
    BY <1>2 DEF Init, NothingLeaks, Retired
  <2>2. Unique(items) /\ \A t \in Threads : Unique(todo[t])
    BY ShortProperties DEF Init
  <2>3. \A t, u \in Threads : Apart(Elements(todo[t]), Elements(todo[u]))
    BY ShortProperties DEF Init, Apart
  <2> QED
    BY <1>1, <1>2, <2>1, <2>2, <2>3 DEF StoreInv, StoreTypeOK, TypeOK, Apart
<1>4. \A t \in Threads : ThreadInv(t)
  BY DEF Init, ThreadInv, Given, Locked, Disposing
<1> QED
  BY <1>1, <1>3, <1>4 DEF CacheInv

\* Every step of a thread keeps the invariant.
LEMMA CacheStep == CacheInv /\ [Next]_vars => CacheInv'
<1> SUFFICES ASSUME CacheInv, [Next]_vars PROVE CacheInv'
  OBVIOUS
<1>1. ASSUME NEW t \in Threads, Begin(t) \/ Progress(t) \/ Locking(t) \/ Fault(t)
      PROVE  CacheInv'
  <2>1. StoreInv' /\ ControlTypeOK'
    BY <1>1, StoreStep, TypeStep
  <2>2. TypeOK'
    BY <2>1, TypeParts DEF StoreInv, TypeOK, StoreTypeOK, ControlTypeOK
  <2>3. Undisturbed(t) /\ ThreadInv(t)'
    BY <1>1, UndisturbedStep, OwnStep
  <2>4. \A u \in Threads \ {t} : ThreadInv(u)'
    BY <2>3, OthersKeep
  <2>5. \A u \in Threads : ThreadInv(u)'
    BY <2>3, <2>4
  <2> QED
    BY <2>1, <2>2, <2>5 DEF CacheInv
<1>2. CASE UNCHANGED vars
  <2>1. StoreInv'
    BY <1>2, StoreSame DEF CacheInv, vars, adapters
  <2>2. TypeOK'
    BY <1>2 DEF CacheInv, TypeOK, vars, adapters, lease, probe
  <2>3. \A t \in Threads : ThreadInv(t)'
    BY <1>2 DEF CacheInv, ThreadInv, Given, Locked, vars, adapters, lease, probe
  <2> QED
    BY <2>1, <2>2, <2>3 DEF CacheInv
<1> QED
  BY <1>1, <1>2 DEF Next

\* The bookkeeping of the cache is right in every reachable state: types, keys,
\* lists of retired adapters and locks.
THEOREM CacheCorrect == Spec => []CacheInv
<1>1. Init => CacheInv
  BY CacheInit
<1>2. CacheInv /\ [Next]_vars => CacheInv'
  BY CacheStep
<1> QED
  BY <1>1, <1>2, PTL DEF Spec

\* Whoever predicts with an adapter or asks for its health has a loaded adapter
\* to himself.
THEOREM UsedTheorem == Spec => []UsedIsLoaded
<1>1. CacheInv => UsedIsLoaded
  BY DEF CacheInv, ThreadInv, Given, Locked, UsedIsLoaded
<1> QED
  BY <1>1, CacheCorrect, PTL

\* No two adapters of one key are loaded.
THEOREM OneTheorem == Spec => []OneAdapterPerKey
<1>1. CacheInv => OneAdapterPerKey
  <2> SUFFICES ASSUME CacheInv, NEW a \in loaded, NEW b \in loaded, Key(a) = Key(b)
               PROVE  a = b
    BY DEF OneAdapterPerKey
  <2>1. StoreInv /\ loaded \subseteq Cached \cup Retired
    BY DEF CacheInv, StoreInv, NothingLeaks, Retired
  <2>2. CASE a \in Cached /\ b \in Cached
    BY <2>1, <2>2 DEF StoreInv, Unique, Cached, Elements
  <2>3. CASE a \in Retired /\ b \in Retired
    <3>1. PICK t \in Threads : a \in Elements(todo[t])
      BY <2>3 DEF Retired
    <3>2. PICK u \in Threads : b \in Elements(todo[u])
      BY <2>3 DEF Retired
    <3>3. t = u
      BY <2>1, <3>1, <3>2 DEF StoreInv, Apart
    <3>4. Unique(todo[t])
      BY <2>1 DEF StoreInv
    <3> QED
      BY <3>1, <3>2, <3>3, <3>4 DEF Unique, Elements
  <2>4. ~ (a \in Cached /\ b \in Retired) /\ ~ (a \in Retired /\ b \in Cached)
    BY <2>1 DEF StoreInv, Apart
  <2> QED
    BY <2>1, <2>2, <2>3, <2>4
<1> QED
  BY <1>1, CacheCorrect, PTL

\* A loaded adapter is cached or about to be unloaded, and only the keys of
\* adapters about to be unloaded are kept from loading.
THEOREM LeaksTheorem == Spec => []NothingLeaks
<1>1. CacheInv => NothingLeaks
  BY DEF CacheInv, StoreInv
<1> QED
  BY <1>1, CacheCorrect, PTL
=============================================================================
