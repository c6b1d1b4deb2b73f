--------------------------- MODULE SlidingWindow ----------------------------
(***************************************************************************)
(* One customer's bucket of the gateway's RateLimiter (smtp/main.py), as   *)
(* its docstring describes it: is_allowed called from a single event loop, *)
(* so that no two calls overlap.  The bucket is a deque of timestamps;     *)
(* here it is the part of log, all the timestamps ever appended, that has  *)
(* not been evicted.                                                       *)
(***************************************************************************)
EXTENDS Integers, Sequences

CONSTANTS MaxCount,   \* RATE_LIMIT_MAX
          Window,     \* RATE_LIMIT_WINDOW
          Horizon,    \* bound: the last clock reading
          LogBound    \* bound: calls admitted

WindowAssumption == /\ MaxCount \in Nat /\ Window \in Nat
                    /\ Horizon \in Nat /\ LogBound \in Nat

VARIABLES now,       \* the call's reading of time.monotonic()
          log,       \* timestamps appended to the bucket so far
          evicted    \* how many of them have been popped from its left

windowVars == <<now, log, evicted>>

WindowInit == now = 0 /\ log = <<>> /\ evicted = 0

\* A call begins by reading the clock, which never goes back.
ReadClock(t) == /\ now <= t
                /\ now' = t
                /\ UNCHANGED <<log, evicted>>

Stale == evicted < Len(log) /\ log[evicted + 1] < now - Window

\* while bucket and bucket[0] < cutoff: bucket.popleft()
Evict == /\ Stale
         /\ evicted' = evicted + 1
         /\ UNCHANGED <<now, log>>

\* if len(bucket) < max_count: bucket.append(now).  A refusal changes nothing.
Admit == /\ ~Stale
         /\ Len(log) - evicted < MaxCount
         /\ Len(log) < LogBound
         /\ log' = Append(log, now)
         /\ UNCHANGED <<now, evicted>>

WindowNext == (\E t \in 0..Horizon : ReadClock(t)) \/ Evict \/ Admit

WindowSpec == WindowInit /\ [][WindowNext]_windowVars
-----------------------------------------------------------------------------
WindowTypeOK == /\ now \in Nat
                /\ log \in Seq(Nat)
                /\ evicted \in 0..Len(log)

\* MaxCount + 1 admissions never fit in one window of Window seconds, whenever
\* that window starts.
WindowCap == \A i \in 1..(Len(log) - MaxCount) : log[i + MaxCount] > log[i] + Window

\* What makes it inductive: timestamps are in order, none is in the future, and
\* those evicted had expired.
Ordered      == \A i, j \in 1..Len(log) : i <= j => log[i] <= log[j]
NotInFuture  == \A i \in 1..Len(log) : log[i] <= now
EvictedStale == \A i \in 1..evicted : log[i] < now - Window

\* "Max emails per customer per window" (RateLimiter's docstring), and why:
\* eviction forgets only timestamps that no window ending now can contain.
WindowInv == WindowTypeOK /\ Ordered /\ NotInFuture /\ EvictedStale /\ WindowCap
=============================================================================
