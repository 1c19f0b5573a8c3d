---------------------------- MODULE TokenBuckets ----------------------------
(***************************************************************************)
(* The bounded table of token buckets that limits the rate of requests of  *)
(* a peer before authentication and of a principal after it                *)
(* (app/core/rate_limit.py, BoundedKeyedTokenBucketLimiter).               *)
(*                                                                         *)
(* A caller reads the clock first and takes the lock of the table after,   *)
(* so the readings may reach the table in another order than that of the   *)
(* clock.  Time passes in ticks; a token is counted in Cost units, so that *)
(* a tick refills Capacity units and nothing is rounded here: the code has *)
(* floats, and a tolerance of 1e-12 against their error, instead.          *)
(***************************************************************************)
EXTENDS Integers, Sequences, SequencesExt

CONSTANTS
  Keys,           \* peers or principals
  Threads,        \* threads that call consume
  Capacity,       \* tokens of a full bucket
  Window,         \* seconds in which an empty bucket fills up
  TicksPerSecond, \* resolution of the clock
  MaxBuckets,     \* bound of the table
  MaxTicks,        \* bound: ticks of the clock
  MaxDecisions     \* bound: calls of consume

ASSUME BucketAssumptions ==
  /\ {Capacity, Window, TicksPerSecond, MaxBuckets} \subseteq Nat \ {0}
  /\ {MaxTicks, MaxDecisions} \subseteq Nat

VARIABLES
  monotonic,  \* time.monotonic, in ticks
  calling,    \* the call each thread is making: its key and reading, or none
  order,      \* the keys of the table, least recently used first
  tokens,     \* units in the bucket of each key
  updatedAt,  \* the latest reading that refilled it
  decisions   \* history: the decisions, in the order of the lock

bucketVars == <<monotonic, calling, order, tokens, updatedAt, decisions>>

NoCall == [key |-> "none", now |-> 0]
Cost == Window * TicksPerSecond
Full == Capacity * Cost

Larger(a, b) == IF a > b THEN a ELSE b
Smaller(a, b) == IF a < b THEN a ELSE b

-----------------------------------------------------------------------------
BucketInit ==
  /\ monotonic = 0
  /\ calling = [t \in Threads |-> NoCall]
  /\ order = <<>>
  /\ tokens = [k \in Keys |-> Full]
  /\ updatedAt = [k \in Keys |-> 0]
  /\ decisions = <<>>

PassTime ==
  /\ monotonic < MaxTicks
  /\ monotonic' = monotonic + 1
  /\ UNCHANGED <<calling, order, tokens, updatedAt, decisions>>

Busy == {t \in Threads : calling[t] # NoCall}

\* consume, up to the lock: only the clock is read.
ReadClock(t, k) ==
  /\ calling[t] = NoCall
  /\ Len(decisions) + Cardinality(Busy) < MaxDecisions
  /\ calling' = [calling EXCEPT ![t] = [key |-> k, now |-> monotonic]]
  /\ UNCHANGED <<monotonic, order, tokens, updatedAt, decisions>>

Known(k) == Contains(order, k)

\* Faulty variant: a known key keeps its place, the oldest is evicted.
Touched_KeepsPlace(k) ==
  IF Known(k) THEN order
  ELSE Append(IF Len(order) >= MaxBuckets THEN Tail(order) ELSE order, k)

\* The order once k has been used: a known key moves to the end, a new one
\* takes the place of the least recently used when the table is full.
Touched(k) ==
  Append(CASE Known(k) -> RemoveAt(order, CHOOSE i \in DOMAIN order : order[i] = k)
           [] ~Known(k) /\ Len(order) >= MaxBuckets -> Tail(order)
           [] OTHER -> order, k)

\* The units of k's bucket for a caller who read the clock at now.
Refilled(k, now) ==
  IF Known(k)
    THEN Smaller(Full, tokens[k] + Capacity * Larger(0, now - updatedAt[k]))
    ELSE Full

RefilledAt(k, now) == IF Known(k) THEN Larger(updatedAt[k], now) ELSE now

Allowed(units) == units >= Cost

\* Faulty variant: the seconds are rounded down.
RetryAfter_RoundsDown(units) ==
  Larger(1, (Cost - units) \div (Capacity * TicksPerSecond))

\* Seconds until the bucket holds a token, rounded up.
RetryAfter(units) ==
  LET perSecond == Capacity * TicksPerSecond
  IN  Larger(1, (Cost - units + perSecond - 1) \div perSecond)

\* consume, under the lock.
Decide(t) ==
  LET k == calling[t].key
      now == calling[t].now
      units == Refilled(k, now)
  IN  /\ calling[t] # NoCall
      /\ calling' = [calling EXCEPT ![t] = NoCall]
      /\ order' = Touched(k)
      /\ updatedAt' = [updatedAt EXCEPT ![k] = RefilledAt(k, now)]
      /\ tokens' = [tokens EXCEPT ![k] = IF Allowed(units) THEN units - Cost ELSE units]
      /\ decisions' = Append(decisions, [key |-> k, now |-> now, at |-> monotonic, allowed |-> Allowed(units),
                             retry |-> IF Allowed(units) THEN 0 ELSE RetryAfter(units)])
      /\ UNCHANGED monotonic

BucketNext ==
  \/ PassTime
  \/ \E t \in Threads : (\E k \in Keys : ReadClock(t, k)) \/ Decide(t)

BucketSpec == BucketInit /\ [][BucketNext]_bucketVars

-----------------------------------------------------------------------------
Decisions == 1..Len(decisions)
Of(k, from, to) == {i \in from..to : decisions[i].key = k}
Grants(k, from, to) == Cardinality({i \in Of(k, from, to) : decisions[i].allowed})
LastReading(k, to) == Max({decisions[i].now : i \in Of(k, 1, to)})

\* Between two uses of k in a row fewer than MaxBuckets other keys are used:
\* the least recently used key is another one whenever a bucket is dropped.
InUse(k, from, to) ==
  \A i, j \in Of(k, from, to) :
    (i < j /\ Of(k, i + 1, j - 1) = {}) =>
       Cardinality({decisions[n].key : n \in (i + 1)..(j - 1)}) < MaxBuckets

\* A key that stays in use gets, between any two of its requests, at most a
\* full bucket and what has been refilled in the meantime - whatever other keys
\* come and go, and in whatever order the readings of the clock reach the table.
RateHolds ==
  \A j \in Decisions : \A i \in Of(decisions[j].key, 1, j) :
    LET k == decisions[j].key
        latest == Max({decisions[n].now : n \in Of(k, i, j)})
    IN  InUse(k, i, j) =>
          Cost * (Grants(k, i, j) - Capacity) <= Capacity * (latest - decisions[i].now)

\* A request is refused only because of what its own key has been granted: from
\* some request of it on, one more would exceed the bucket and its refill.  The
\* traffic of other keys, or an old reading, never costs a token.
RefusedOnlyIfSpent ==
  \A j \in Decisions : ~decisions[j].allowed =>
    LET k == decisions[j].key
    IN  \E i \in Of(k, 1, j - 1) :
          Cost * (Grants(k, i, j - 1) + 1 - Capacity)
            > Capacity * (LastReading(k, j) - LastReading(k, i))

\* The limit is exact: a key in use gets no more than its rate, and is refused
\* nothing that its rate allows, on account of other keys, of evictions or of the
\* order in which readings of the clock reach the table.
RateIsExact == RateHolds /\ RefusedOnlyIfSpent

\* Retry-After: a client that waits that long after its refusal, and whose key
\* is not used by another in between, is served; in a key that stays in use one
\* that comes more than a second earlier is not, so the answer is not padded.
RetryIsHonest ==
  \A i, j \in Decisions :
    LET k == decisions[i].key
        wait == decisions[i].retry * TicksPerSecond
    IN  (i < j /\ decisions[j].key = k /\ ~decisions[i].allowed /\ Of(k, i + 1, j - 1) = {}) =>
          /\ decisions[j].now >= decisions[i].at + wait => decisions[j].allowed
          /\ (InUse(k, i, j) /\ decisions[j].now <= decisions[i].now + wait - TicksPerSecond)
               => ~decisions[j].allowed

=============================================================================
