------------------------- MODULE RateLimiterThreads -------------------------
(***************************************************************************)
(* RateLimiter.is_allowed (smtp/main.py) for one customer, run by the      *)
(* event loops of the two SMTP controllers.  aiosmtpd's Controller runs    *)
(* each server in a thread of its own, and the module-level _rate_limiter  *)
(* is one object for both.  The GIL makes one dict or deque operation      *)
(* atomic and no more, so each such operation is a step.                   *)
(***************************************************************************)
EXTENDS Integers, Sequences, FiniteSets

CONSTANTS Loops,      \* threads that call is_allowed
          NoBucket,
          MaxCount, Window,
          Horizon,    \* bound: the last clock reading
          MaxCalls    \* bound: calls per thread

ASSUME LoopsAssumption == /\ NoBucket \notin Loops
                          /\ MaxCount \in Nat /\ Window \in Nat
                          /\ Horizon \in Nat /\ MaxCalls \in Nat

VARIABLES clock,     \* time.monotonic()
          at,        \* at[l]: the operation of is_allowed thread l is at
          now,       \* now[l]: its local now
          bucket,    \* bucket[l]: its local reference to a deque
          calls,     \* calls[l]: calls it has begun
          buckets,   \* self._buckets[customer_id]: a deque or NoBucket
          deque,     \* deque[b]: the deque that thread b created
          log        \* the timestamps of all admitted calls, in order

vars == <<clock, at, now, bucket, calls, buckets, deque, log>>

Init == /\ clock = 0
        /\ at = [l \in Loops |-> "idle"]
        /\ now = [l \in Loops |-> 0]
        /\ bucket = [l \in Loops |-> NoBucket]
        /\ calls = [l \in Loops |-> 0]
        /\ buckets = NoBucket
        /\ deque = [l \in Loops |-> <<>>]
        /\ log = <<>>

GoOn(l, s) == at' = [at EXCEPT ![l] = s]

\* now = time.monotonic()
Enter(l) == /\ at[l] = "idle"
            /\ calls[l] < MaxCalls
            /\ calls' = [calls EXCEPT ![l] = @ + 1]
            /\ now' = [now EXCEPT ![l] = clock]
            /\ GoOn(l, "lookup")
            /\ UNCHANGED <<clock, bucket, buckets, deque, log>>

\* if customer_id not in self._buckets
LookUp(l) == /\ at[l] = "lookup"
             /\ GoOn(l, IF buckets = NoBucket THEN "create" ELSE "bind")
             /\ UNCHANGED <<clock, now, bucket, calls, buckets, deque, log>>

\* self._buckets[customer_id] = collections.deque()
Create(l) == /\ at[l] = "create"
             /\ buckets' = l
             /\ deque' = [deque EXCEPT ![l] = <<>>]
             /\ GoOn(l, "bind")
             /\ UNCHANGED <<clock, now, bucket, calls, log>>

\* bucket = self._buckets[customer_id]
Bind(l) == /\ at[l] = "bind"
           /\ bucket' = [bucket EXCEPT ![l] = buckets]
           /\ GoOn(l, "evict")
           /\ UNCHANGED <<clock, now, calls, buckets, deque, log>>

Mine(l) == deque[bucket[l]]

\* while bucket and bucket[0] < cutoff
TestOldest(l) == /\ at[l] = "evict"
                 /\ GoOn(l, IF Mine(l) # <<>> /\ Head(Mine(l)) < now[l] - Window
                            THEN "pop" ELSE "count")
                 /\ UNCHANGED <<clock, now, bucket, calls, buckets, deque, log>>

\* bucket.popleft(), an IndexError if the other thread has emptied the deque
PopOldest(l) == /\ at[l] = "pop"
                /\ IF Mine(l) = <<>>
                   THEN GoOn(l, "raised") /\ UNCHANGED deque
                   ELSE /\ deque' = [deque EXCEPT ![bucket[l]] = Tail(@)]
                        /\ GoOn(l, "evict")
                /\ UNCHANGED <<clock, now, bucket, calls, buckets, log>>

\* Mutants: the cap is off by one; a refused call is recorded as well.
CountMutant(l) == /\ at[l] = "count"
                  /\ GoOn(l, IF Len(Mine(l)) > MaxCount THEN "idle" ELSE "append")
                  /\ UNCHANGED <<clock, now, bucket, calls, buckets, deque, log>>
CountAndRecord(l) == /\ at[l] = "count"
                     /\ deque' = [deque EXCEPT ![bucket[l]] = Append(@, now[l])]
                     /\ GoOn(l, IF Len(Mine(l)) >= MaxCount THEN "idle" ELSE "append")
                     /\ UNCHANGED <<clock, now, bucket, calls, buckets, log>>

\* if len(bucket) >= self.max_count: return False
Count(l) == /\ at[l] = "count"
            /\ GoOn(l, IF Len(Mine(l)) >= MaxCount THEN "idle" ELSE "append")
            /\ UNCHANGED <<clock, now, bucket, calls, buckets, deque, log>>

\* bucket.append(now); return True
Record(l) == /\ at[l] = "append"
             /\ deque' = [deque EXCEPT ![bucket[l]] = Append(@, now[l])]
             /\ log' = Append(log, now[l])
             /\ GoOn(l, "idle")
             /\ UNCHANGED <<clock, now, bucket, calls, buckets>>

Tick == /\ clock < Horizon
        /\ clock' = clock + 1
        /\ UNCHANGED <<at, now, bucket, calls, buckets, deque, log>>

Step(l) == \/ Enter(l) \/ LookUp(l) \/ Create(l) \/ Bind(l) \/ TestOldest(l)
           \/ PopOldest(l) \/ Count(l) \/ Record(l)

Next == Tick \/ \E l \in Loops : Step(l)

Spec == Init /\ [][Next]_vars
-----------------------------------------------------------------------------
\* No window holds more than MaxCount admissions ("max emails per customer per
\* window"), whatever the order they were recorded in.
CapHolds ==
    \A i \in DOMAIN log :
        Cardinality({j \in DOMAIN log : log[i] - Window <= log[j] /\ log[j] <= log[i]})
            <= MaxCount

\* The limiter refuses only a customer that has used up the cap of the window
\* that ends now.
RefusesOnlyAtCap ==
    [][\A l \in Loops :
          at[l] = "count" /\ at'[l] = "idle" =>
              Cardinality({j \in DOMAIN log : now[l] - Window <= log[j]}) >= MaxCount]_vars

\* With one thread, is_allowed is the sliding window of module SlidingWindow.
One == CHOOSE l \in Loops : TRUE

Ideal == INSTANCE SlidingWindow WITH
             now <- now[One], evicted <- Len(log) - Len(deque[One]),
             LogBound <- MaxCalls * Cardinality(Loops)

ImplementsWindow == Ideal!WindowSpec
=============================================================================
