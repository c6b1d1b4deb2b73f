--------------------- MODULE RateLimiterThreads_proofs ----------------------
(***************************************************************************)
(* Proof that is_allowed, called by one event loop, implements the sliding *)
(* window: each of its dict and deque operations is a step of module       *)
(* SlidingWindow or leaves the window alone, for every cap, window length  *)
(* and number of calls.                                                    *)
(***************************************************************************)
EXTENDS RateLimiterThreads, FiniteSetTheorems, WellFoundedInduction, TLAPS

Spots == {"idle", "lookup", "create", "bind", "evict", "pop", "count", "append"}

\* The hypothesis of this module: one event loop.
Alone == \E l \in Loops : Loops = {l}

Queue == deque[One]

LoopTypeOK ==
    /\ clock \in 0..Horizon
    /\ at \in [Loops -> Spots]
    /\ now \in [Loops -> 0..clock]
    /\ bucket \in [Loops -> Loops \cup {NoBucket}]
    /\ calls \in [Loops -> 0..MaxCalls]
    /\ buckets \in Loops \cup {NoBucket}
    /\ deque \in [Loops -> Seq(Nat)]
    /\ log \in Seq(Nat)

\* The deque is the part of the log that has not been evicted.
SuffixOk ==
    /\ Len(Queue) <= Len(log)
    /\ \A i \in 1..Len(Queue) : Queue[i] = log[Len(log) - Len(Queue) + i]

\* The loop's own references are to the one deque there is.
BoundOk ==
    /\ buckets = NoBucket => Queue = <<>> /\ at[One] \in {"idle", "lookup", "create"}
    /\ at[One] = "create" => buckets = NoBucket
    /\ at[One] \in {"evict", "pop", "count", "append"} => bucket[One] = One

\* What the loop has tested still holds when it acts on it.
TestedOk ==
    /\ at[One] = "pop" => Queue # <<>> /\ Queue[1] < now[One] - Window
    /\ at[One] \in {"count", "append"} => Queue = <<>> \/ ~(Queue[1] < now[One] - Window)
    /\ at[One] = "append" => Len(Queue) < MaxCount

\* Each call admits at most one message.
CallsOk ==
    /\ Len(log) <= calls[One]
    /\ at[One] # "idle" => Len(log) < calls[One]

LoopInv == LoopTypeOK /\ SuffixOk /\ BoundOk /\ TestedOk /\ CallsOk
-----------------------------------------------------------------------------
LEMMA AloneFacts ==
    ASSUME Alone
    PROVE  /\ Loops = {One} /\ One # NoBucket /\ Cardinality(Loops) = 1
           /\ MaxCount \in Nat /\ Window \in Nat /\ Horizon \in Nat /\ MaxCalls \in Nat
<1>1. PICK l \in Loops : Loops = {l}
      BY DEF Alone
<1>2. One = l
      BY <1>1 DEF One
<1>3. Cardinality({l}) = 1
      BY FS_Singleton
<1> QED BY <1>1, <1>2, <1>3, LoopsAssumption DEF LoopsAssumption

LEMMA LoopInitially == ASSUME Alone, Init PROVE LoopInv /\ Ideal!WindowInit
<1>1. LoopTypeOK
      BY AloneFacts DEF Init, LoopTypeOK, Spots
<1>2. Queue = <<>> /\ at[One] = "idle" /\ log = <<>> /\ calls[One] = 0 /\ now[One] = 0
      BY AloneFacts DEF Init, Queue
<1>3. SuffixOk /\ BoundOk /\ TestedOk /\ CallsOk
      BY <1>2 DEF SuffixOk, BoundOk, TestedOk, CallsOk
<1>4. Ideal!WindowInit
      BY <1>2 DEF Ideal!WindowInit, Queue
<1> QED BY <1>1, <1>3, <1>4 DEF LoopInv

\* The operations that touch neither the deque nor the log nor the local now.
Quiet == \/ Tick \/ LookUp(One) \/ Create(One) \/ Bind(One)
         \/ TestOldest(One) \/ Count(One)

LEMMA QuietKeeps ==
    ASSUME Alone, LoopInv, Quiet
    PROVE  LoopInv' /\ UNCHANGED <<now[One], log, Queue>>
<1> USE AloneFacts
<1>1. UNCHANGED <<now, log, calls>>
      BY DEF Quiet, Tick, LookUp, Create, Bind, TestOldest, Count
<1>2. deque' = deque
  <2>1. CASE Create(One)
    <3>1. deque[One] = <<>>
          BY <2>1 DEF LoopInv, BoundOk, Create, Queue
    <3> QED BY <2>1, <3>1 DEF Create, LoopInv, LoopTypeOK
  <2> QED BY <2>1 DEF Quiet, Tick, LookUp, Bind, TestOldest, Count
<1>3. Queue' = Queue
      BY <1>2 DEF Queue
<1>4. LoopTypeOK'
      BY <1>1, <1>2 DEF LoopInv, LoopTypeOK, Spots, Quiet, Tick, LookUp, Create, Bind,
                        TestOldest, Count, GoOn
<1>5. SuffixOk'
      BY <1>1, <1>3 DEF LoopInv, SuffixOk
<1>6. BoundOk'
      BY <1>1, <1>3 DEF LoopInv, LoopTypeOK, BoundOk, Quiet, Tick, LookUp, Create, Bind,
                        TestOldest, Count, GoOn
<1>7. TestedOk'
  <2>1. CASE TestOldest(One)
    <3>1. Mine(One) = Queue /\ Queue \in Seq(Nat)
          BY <2>1 DEF Mine, Queue, LoopInv, LoopTypeOK, BoundOk, TestOldest
    <3>2. Queue # <<>> => Head(Queue) = Queue[1]
          BY <3>1
    <3> QED BY <1>1, <1>3, <2>1, <3>1, <3>2 DEF TestOldest, GoOn, LoopInv, LoopTypeOK, TestedOk
  <2>2. CASE Count(One)
    <3>1. Mine(One) = Queue /\ Len(Queue) \in Nat
          BY <2>2 DEF Mine, Queue, LoopInv, LoopTypeOK, BoundOk, Count
    <3> QED BY <1>1, <1>3, <2>2, <3>1 DEF Count, GoOn, LoopInv, LoopTypeOK, TestedOk
  <2>3. CASE Tick \/ LookUp(One) \/ Create(One) \/ Bind(One)
    <3>1. at' = at \/ at'[One] \in {"create", "bind", "evict"}
          BY <2>3 DEF Tick, LookUp, Create, Bind, GoOn, LoopInv, LoopTypeOK
    <3> QED BY <1>1, <1>3, <3>1 DEF LoopInv, TestedOk
  <2> QED BY <2>1, <2>2, <2>3 DEF Quiet
<1>8. CallsOk'
      BY <1>1 DEF LoopInv, LoopTypeOK, CallsOk, Quiet, Tick, LookUp, Create, Bind,
                  TestOldest, Count, GoOn
<1> QED BY <1>1, <1>3, <1>4, <1>5, <1>6, <1>7, <1>8 DEF LoopInv

\* A call begins: it reads the clock.
LEMMA EnterKeeps ==
    ASSUME Alone, LoopInv, Enter(One)
    PROVE  /\ LoopInv' /\ UNCHANGED <<log, Queue>>
           /\ now'[One] = clock /\ now[One] <= clock /\ clock \in 0..Horizon
<1> USE AloneFacts
<1>1. /\ UNCHANGED <<clock, bucket, buckets, deque, log>> /\ Queue' = Queue
      /\ at'[One] = "lookup" /\ at[One] = "idle" /\ now'[One] = clock
      /\ calls'[One] = calls[One] + 1 /\ calls[One] < MaxCalls
      BY DEF Enter, GoOn, Queue, LoopInv, LoopTypeOK
<1>2. LoopTypeOK'
      BY DEF LoopInv, LoopTypeOK, Enter, GoOn, Spots
<1>3. SuffixOk' /\ BoundOk' /\ TestedOk'
      BY <1>1 DEF LoopInv, SuffixOk, BoundOk, TestedOk
<1>4. CallsOk'
      BY <1>1 DEF LoopInv, CallsOk, LoopTypeOK
<1> QED BY <1>1, <1>2, <1>3, <1>4 DEF LoopInv, LoopTypeOK

\* popleft: one more timestamp is evicted, and it was stale.
LEMMA PopKeeps ==
    ASSUME Alone, LoopInv, PopOldest(One)
    PROVE  /\ LoopInv' /\ UNCHANGED <<now, log>>
           /\ Len(Queue) \in 1..Len(log) /\ Len(Queue') = Len(Queue) - 1
           /\ log[Len(log) - Len(Queue) + 1] < now[One] - Window
<1> USE AloneFacts
<1>1. Queue \in Seq(Nat) /\ Queue # <<>> /\ Mine(One) = Queue /\ Len(Queue) \in Nat \ {0}
  <2>1. Queue \in Seq(Nat) /\ Queue # <<>> /\ Mine(One) = Queue
        BY DEF Mine, Queue, LoopInv, LoopTypeOK, BoundOk, TestedOk, PopOldest
  <2> QED BY <2>1
<1>2. /\ UNCHANGED <<clock, now, bucket, calls, buckets, log>>
      /\ Queue' = Tail(Queue) /\ at'[One] = "evict" /\ at[One] = "pop"
      BY <1>1 DEF PopOldest, GoOn, Queue, LoopInv, LoopTypeOK, BoundOk
<1>3. /\ Tail(Queue) \in Seq(Nat) /\ Len(Tail(Queue)) = Len(Queue) - 1
      /\ \A i \in 1..(Len(Queue) - 1) : Tail(Queue)[i] = Queue[i + 1]
      BY <1>1
<1>4. LoopTypeOK'
  <2>1. deque' = [deque EXCEPT ![One] = Tail(Queue)]
        BY <1>1 DEF PopOldest, LoopInv, BoundOk, Queue
  <2> QED BY <1>2, <1>3, <2>1, <1>1 DEF LoopInv, LoopTypeOK, PopOldest, GoOn, Spots
<1>5. Len(log) \in Nat /\ Len(Queue) <= Len(log)
      BY DEF LoopInv, LoopTypeOK, SuffixOk
<1>6. \A i \in 1..(Len(Queue) - 1) : Queue[i + 1] = log[Len(log) - Len(Queue) + (i + 1)]
      BY <1>1, <1>5 DEF LoopInv, SuffixOk
<1>7. SuffixOk'
  <2> SUFFICES ASSUME NEW i \in 1..(Len(Queue) - 1)
               PROVE  Tail(Queue)[i] = log[Len(log) - (Len(Queue) - 1) + i]
      BY <1>1, <1>2, <1>3, <1>5 DEF SuffixOk
  <2>1. Len(log) - Len(Queue) + (i + 1) = Len(log) - (Len(Queue) - 1) + i
        BY <1>1, <1>5
  <2> QED BY <1>3, <1>6, <2>1
<1>8. BoundOk' /\ TestedOk' /\ CallsOk'
      BY <1>1, <1>2 DEF LoopInv, BoundOk, TestedOk, CallsOk
<1>9. log[Len(log) - Len(Queue) + 1] < now[One] - Window
  <2>1. 1 \in 1..Len(Queue)
        BY <1>1
  <2>2. Queue[1] = log[Len(log) - Len(Queue) + 1]
        BY <2>1 DEF LoopInv, SuffixOk
  <2> QED BY <1>2, <2>2 DEF LoopInv, TestedOk
<1> QED BY <1>1, <1>2, <1>3, <1>4, <1>5, <1>7, <1>8, <1>9 DEF LoopInv

\* append: the call is admitted, below the cap and with nothing stale left.
LEMMA RecordKeeps ==
    ASSUME Alone, LoopInv, Record(One)
    PROVE  /\ LoopInv' /\ UNCHANGED now
           /\ log' = Append(log, now[One]) /\ Len(Queue') = Len(Queue) + 1
           /\ Len(Queue) \in 0..Len(log) /\ Len(Queue) < MaxCount
           /\ Len(log) < MaxCalls
           /\ Len(Queue) > 0 => ~(log[Len(log) - Len(Queue) + 1] < now[One] - Window)
<1> USE AloneFacts
<1>1. /\ Queue \in Seq(Nat) /\ log \in Seq(Nat) /\ Mine(One) = Queue
      /\ now[One] \in Nat /\ bucket[One] = One
      BY DEF Mine, Queue, LoopInv, LoopTypeOK, BoundOk, Record
<1>2. /\ UNCHANGED <<clock, now, bucket, calls, buckets>>
      /\ log' = Append(log, now[One]) /\ Queue' = Append(Queue, now[One])
      /\ at'[One] = "idle" /\ at[One] = "append"
      BY <1>1 DEF Record, GoOn, Queue, LoopInv, LoopTypeOK
<1>3. /\ Len(Queue') = Len(Queue) + 1 /\ Len(log') = Len(log) + 1
      /\ Queue'[Len(Queue) + 1] = now[One] /\ log'[Len(log) + 1] = now[One]
      /\ \A i \in 1..Len(Queue) : Queue'[i] = Queue[i]
      /\ \A i \in 1..Len(log) : log'[i] = log[i]
      /\ Len(Queue) \in Nat /\ Len(log) \in Nat
      BY <1>1, <1>2
<1>4. LoopTypeOK'
  <2>1. /\ deque' = [deque EXCEPT ![One] = Append(Queue, now[One])]
        /\ Append(Queue, now[One]) \in Seq(Nat) /\ Append(log, now[One]) \in Seq(Nat)
        BY <1>1 DEF Record, Queue
  <2>2. deque' \in [Loops -> Seq(Nat)] /\ log' \in Seq(Nat)
        BY <1>2, <2>1 DEF LoopInv, LoopTypeOK
  <2>3. at' \in [Loops -> Spots]
        BY DEF Record, GoOn, LoopInv, LoopTypeOK, Spots
  <2> QED BY <1>2, <2>2, <2>3 DEF LoopInv, LoopTypeOK
<1>5. Len(Queue) <= Len(log)
      BY DEF LoopInv, SuffixOk
<1>6. SuffixOk'
  <2> SUFFICES \A i \in 1..(Len(Queue) + 1) : Queue'[i] = log'[Len(log) - Len(Queue) + i]
    <3>1. Len(Queue') <= Len(log') /\ Len(log') - Len(Queue') = Len(log) - Len(Queue)
          BY <1>3, <1>5
    <3> QED BY <1>3, <3>1 DEF SuffixOk
  <2> TAKE i \in 1..(Len(Queue) + 1)
  <2>1. CASE i = Len(Queue) + 1
    <3>1. Len(log) - Len(Queue) + i = Len(log) + 1
          BY <1>3, <2>1
    <3> QED BY <1>3, <2>1, <3>1
  <2>2. CASE i \in 1..Len(Queue)
    <3>1. Len(log) - Len(Queue) + i \in 1..Len(log)
          BY <1>3, <1>5, <2>2
    <3> QED BY <1>3, <2>2, <3>1 DEF LoopInv, SuffixOk
  <2> QED BY <1>3, <2>1, <2>2
<1>7. BoundOk' /\ TestedOk'
      BY <1>2 DEF LoopInv, BoundOk, TestedOk
<1>8. CallsOk'
      BY <1>2, <1>3 DEF LoopInv, LoopTypeOK, CallsOk
<1>9. Len(log) < MaxCalls
      BY <1>2, <1>3 DEF LoopInv, LoopTypeOK, CallsOk
<1>10. Len(Queue) > 0 => ~(log[Len(log) - Len(Queue) + 1] < now[One] - Window)
  <2> HAVE Len(Queue) > 0
  <2>1. Queue # <<>> /\ Queue[1] = log[Len(log) - Len(Queue) + 1]
        BY <1>1, <1>3 DEF LoopInv, SuffixOk
  <2> QED BY <1>2, <2>1 DEF LoopInv, TestedOk
<1> QED BY <1>2, <1>3, <1>4, <1>5, <1>6, <1>7, <1>8, <1>9, <1>10 DEF LoopInv, TestedOk
-----------------------------------------------------------------------------
\* One step of the loop is a step of the window or none.
LEMMA StepMaps ==
    ASSUME Alone, LoopInv, [Next]_vars
    PROVE  LoopInv' /\ [Ideal!WindowNext]_(Ideal!windowVars)
<1> USE AloneFacts
<1>1. CASE Quiet
      BY <1>1, QuietKeeps DEF Ideal!windowVars, Queue
<1>2. CASE Enter(One)
  <2>1. Ideal!ReadClock(clock)
        BY <1>2, EnterKeeps DEF Ideal!ReadClock, Queue
  <2> QED BY <1>2, <2>1, EnterKeeps DEF Ideal!WindowNext
<1>3. CASE PopOldest(One)
  <2>1. /\ LoopInv' /\ now' = now /\ log' = log
        /\ Len(Queue) \in 1..Len(log) /\ Len(Queue') = Len(Queue) - 1
        /\ log[Len(log) - Len(Queue) + 1] < now[One] - Window
        BY <1>3, PopKeeps
  <2>2. Len(log) \in Nat /\ Len(Queue) \in Nat \ {0}
    <3>1. log \in Seq(Nat)
          BY DEF LoopInv, LoopTypeOK
    <3>2. Len(log) \in Nat
          BY <3>1
    <3> QED BY <2>1, <3>2
  <2>3. Len(log) - Len(Queue) < Len(log) /\ Len(log) - Len(Queue') = Len(log) - Len(Queue) + 1
        BY <2>1, <2>2
  <2>4. Ideal!Evict
        BY <2>1, <2>3 DEF Ideal!Stale, Ideal!Evict, Queue
  <2> QED BY <2>1, <2>4 DEF Ideal!WindowNext
<1>4. CASE Record(One)
  <2>1. /\ LoopInv' /\ now' = now
        /\ log' = Append(log, now[One]) /\ Len(Queue') = Len(Queue) + 1
        /\ Len(Queue) \in 0..Len(log) /\ Len(Queue) < MaxCount
        /\ Len(log) < MaxCalls
        /\ Len(Queue) > 0 => ~(log[Len(log) - Len(Queue) + 1] < now[One] - Window)
        BY <1>4, RecordKeeps
  <2>2. log \in Seq(Nat) /\ Len(log) \in Nat /\ Len(Queue) \in Nat
        BY <2>1 DEF LoopInv, LoopTypeOK
  <2>3. Len(log') = Len(log) + 1
        BY <2>1, <2>2
  <2>4. /\ Len(log') - Len(Queue') = Len(log) - Len(Queue)
        /\ Len(log) - (Len(log) - Len(Queue)) < MaxCount
        /\ Len(log) < MaxCalls * Cardinality(Loops)
        /\ Len(log) - Len(Queue) < Len(log) => Len(Queue) > 0
        BY <2>1, <2>2, <2>3
  <2>5. ~Ideal!Stale
        BY <2>1, <2>4 DEF Ideal!Stale, Queue
  <2>6. Ideal!Admit
        BY <2>1, <2>4, <2>5 DEF Ideal!Admit, Queue
  <2> QED BY <2>1, <2>6 DEF Ideal!WindowNext
<1>5. CASE UNCHANGED vars
      BY <1>5 DEF vars, LoopInv, LoopTypeOK, SuffixOk, BoundOk, TestedOk, CallsOk, Queue,
                  Ideal!windowVars
<1>6. Next => Quiet \/ Enter(One) \/ PopOldest(One) \/ Record(One)
      BY DEF Next, Step, Quiet
<1> QED BY <1>1, <1>2, <1>3, <1>4, <1>5, <1>6

\* Called from a single event loop, as its docstring has it, is_allowed is the
\* sliding window, which keeps the cap (WindowHolds).
THEOREM OneLoopImplements == ASSUME Alone PROVE Spec => ImplementsWindow
<1>1. Init => LoopInv /\ Ideal!WindowInit
      BY LoopInitially
<1>2. LoopInv /\ [Next]_vars => LoopInv' /\ [Ideal!WindowNext]_(Ideal!windowVars)
      BY StepMaps
<1> QED BY <1>1, <1>2, PTL DEF Spec, ImplementsWindow, Ideal!WindowSpec
-----------------------------------------------------------------------------
(***************************************************************************)
(* The window keeps its cap, whatever implements it: the proof uses its    *)
(* own actions only, at the values the loop gives its variables.           *)
(***************************************************************************)
Now == now[One]
Evicted == Len(log) - Len(deque[One])

LEMMA WindowInitially ==
    ASSUME Ideal!WindowAssumption, Ideal!WindowInit
    PROVE  Ideal!WindowInv
BY DEF Ideal!WindowAssumption, Ideal!WindowInit, Ideal!WindowInv, Ideal!WindowTypeOK,
       Ideal!Ordered, Ideal!NotInFuture, Ideal!EvictedStale, Ideal!WindowCap

\* An admission: the timestamp MaxCount places before it has been evicted.
LEMMA AdmitKeepsInv ==
    ASSUME Ideal!WindowAssumption, Ideal!WindowInv, Ideal!Admit
    PROVE  Ideal!WindowInv'
<1> DEFINE n == Len(log)
<1>1. /\ Now \in Nat /\ log \in Seq(Nat) /\ Evicted \in 0..n /\ n \in Nat
      /\ MaxCount \in Nat /\ Window \in Nat
      BY DEF Ideal!WindowAssumption, Ideal!WindowInv, Ideal!WindowTypeOK, Now, Evicted
<1>2. Now' = Now /\ Evicted' = Evicted /\ log' = Append(log, Now) /\ n - Evicted < MaxCount
      BY DEF Ideal!Admit, Now, Evicted
<1>3. /\ Len(log') = n + 1 /\ log'[n + 1] = Now
      /\ \A i \in 1..n : log'[i] = log[i]
      BY <1>1, <1>2
<1>4. Ideal!WindowTypeOK'
  <2>1. Now' \in Nat /\ log' \in Seq(Nat) /\ Evicted' \in 0..Len(log')
        BY <1>1, <1>2, <1>3
  <2> QED BY <2>1 DEF Ideal!WindowTypeOK, Now, Evicted
<1>5. \A i \in 1..n : log[i] \in Nat /\ log[i] <= Now
      BY <1>1 DEF Ideal!WindowInv, Ideal!NotInFuture, Now
<1>6. Ideal!NotInFuture'
      BY <1>1, <1>2, <1>3, <1>5 DEF Ideal!NotInFuture, Now
<1>7. Ideal!Ordered'
  <2>1. \A i, j \in 1..n : i <= j => log[i] <= log[j]
        BY DEF Ideal!Ordered, Ideal!WindowInv
  <2>2. \A i, j \in 1..(n + 1) : i <= j => log'[i] <= log'[j]
        BY <1>1, <1>3, <1>5, <2>1
  <2> QED BY <1>3, <2>2 DEF Ideal!Ordered
<1>8. Ideal!EvictedStale'
  <2>1. \A i \in 1..Evicted : log[i] < Now - Window
        BY DEF Ideal!EvictedStale, Ideal!WindowInv, Now, Evicted
  <2>2. \A i \in 1..Evicted' : log'[i] < Now' - Window
        BY <1>1, <1>2, <1>3, <2>1
  <2> QED BY <2>2 DEF Ideal!EvictedStale, Now, Evicted
<1>9. Ideal!WindowCap'
  <2> SUFFICES ASSUME NEW i \in 1..(Len(log') - MaxCount)
               PROVE  log'[i + MaxCount] > log'[i] + Window
      BY Zenon DEF Ideal!WindowCap
  <2>0. i \in 1..(n + 1 - MaxCount)
    <3>1. Len(log') - MaxCount = n + 1 - MaxCount
          BY <1>1, <1>3
    <3> QED BY <3>1
  <2>1. CASE i + MaxCount = n + 1
    <3>1. i \in 1..Evicted /\ i \in 1..n
          BY <1>1, <1>2, <2>0, <2>1
    <3>2. log[i] < Now - Window
          BY <3>1 DEF Ideal!WindowInv, Ideal!EvictedStale, Now, Evicted
    <3> QED BY <1>1, <1>3, <1>5, <2>1, <3>1, <3>2
  <2>2. CASE i + MaxCount # n + 1
    <3>1. i \in 1..(n - MaxCount) /\ i \in 1..n /\ i + MaxCount \in 1..n
          BY <1>1, <2>0, <2>2
    <3> QED BY <1>3, <3>1 DEF Ideal!WindowInv, Ideal!WindowCap
  <2> QED BY <2>1, <2>2
<1> QED BY <1>4, <1>6, <1>7, <1>8, <1>9 DEF Ideal!WindowInv

\* The clock and the evictions leave the log alone.
LEMMA OtherStepsKeepInv ==
    ASSUME Ideal!WindowAssumption, Ideal!WindowInv,
           (\E t \in 0..Horizon : Ideal!ReadClock(t)) \/ Ideal!Evict \/ UNCHANGED Ideal!windowVars
    PROVE  Ideal!WindowInv'
<1>1. /\ Now \in Nat /\ log \in Seq(Nat) /\ Evicted \in 0..Len(log)
      /\ Window \in Nat /\ Horizon \in Nat
      BY DEF Ideal!WindowAssumption, Ideal!WindowInv, Ideal!WindowTypeOK, Now, Evicted
<1>2. /\ log' = log /\ Now' \in Nat /\ Now <= Now'
      /\ \/ Evicted' = Evicted
         \/ /\ Evicted' = Evicted + 1 /\ Evicted < Len(log)
            /\ log[Evicted + 1] < Now - Window /\ Now' = Now
  <2>1. CASE \E t \in 0..Horizon : Ideal!ReadClock(t)
    <3>1. PICK t \in 0..Horizon :
            Now <= t /\ Now' = t /\ log' = log /\ Evicted' = Evicted
          BY <2>1 DEF Ideal!ReadClock, Now, Evicted
    <3> QED BY <1>1, <3>1
  <2>2. CASE Ideal!Evict
    <3>1. /\ Now' = Now /\ log' = log /\ Evicted' = Evicted + 1
          /\ Evicted < Len(log) /\ log[Evicted + 1] < Now - Window
          BY <2>2 DEF Ideal!Evict, Ideal!Stale, Now, Evicted
    <3> QED BY <1>1, <3>1
  <2>3. CASE UNCHANGED Ideal!windowVars
    <3>1. Now' = Now /\ log' = log /\ Evicted' = Evicted
          BY <2>3 DEF Ideal!windowVars, Now, Evicted
    <3> QED BY <1>1, <3>1
  <2> QED BY <2>1, <2>2, <2>3
<1>3. Ideal!WindowTypeOK'
  <2>1. Now' \in Nat /\ log' \in Seq(Nat) /\ Evicted' \in 0..Len(log')
        BY <1>1, <1>2
  <2> QED BY <2>1 DEF Ideal!WindowTypeOK, Now, Evicted
<1>4. Ideal!Ordered' /\ Ideal!WindowCap'
      BY <1>2 DEF Ideal!WindowInv, Ideal!Ordered, Ideal!WindowCap
<1>5. \A i \in 1..Len(log) : log[i] \in Nat
      BY <1>1
<1>6. Ideal!NotInFuture'
      BY <1>1, <1>2, <1>5 DEF Ideal!WindowInv, Ideal!NotInFuture, Now
<1>7. Ideal!EvictedStale'
  <2>1. \A i \in 1..Evicted : log[i] < Now - Window
        BY DEF Ideal!EvictedStale, Ideal!WindowInv, Now, Evicted
  <2>2. \A i \in 1..Evicted' : log'[i] < Now' - Window
        BY <1>1, <1>2, <1>5, <2>1
  <2> QED BY <2>2 DEF Ideal!EvictedStale, Now, Evicted
<1> QED BY <1>3, <1>4, <1>6, <1>7 DEF Ideal!WindowInv

\* Whenever the calls come, no window of Window seconds holds more than
\* MaxCount admissions.
THEOREM WindowHolds ==
    ASSUME Ideal!WindowAssumption
    PROVE  Ideal!WindowSpec => []Ideal!WindowInv
<1>0. Ideal!WindowInit => Ideal!WindowInv
      BY WindowInitially
<1>1. Ideal!WindowInv /\ [Ideal!WindowNext]_(Ideal!windowVars) => Ideal!WindowInv'
      BY AdmitKeepsInv, OtherStepsKeepInv DEF Ideal!WindowNext
<1> QED BY <1>0, <1>1, PTL DEF Ideal!WindowSpec

LEMMA WindowOfLoop == ASSUME Alone PROVE Spec => []Ideal!WindowInv
<1>1. Ideal!WindowAssumption
  <2>1. MaxCalls * Cardinality(Loops) \in Nat
        BY AloneFacts
  <2> QED BY <2>1, AloneFacts DEF Ideal!WindowAssumption
<1>2. Ideal!WindowSpec => []Ideal!WindowInv
      BY <1>1, WindowHolds
<1> QED BY <1>2, OneLoopImplements, PTL DEF ImplementsWindow

LEMMA LoopHolds == ASSUME Alone PROVE Spec => []LoopInv
<1>1. Init => LoopInv
      BY LoopInitially
<1>2. LoopInv /\ [Next]_vars => LoopInv'
      BY StepMaps
<1> QED BY <1>1, <1>2, PTL DEF Spec

LEMMA Least == ASSUME NEW T \in SUBSET Nat, T # {} PROVE \E m \in T : \A n \in T : m <= n
<1>1. \E m \in T : \A n \in T : ~(<<n, m>> \in OpToRel(<, Nat))
      BY NatLessThanWellFounded, WFMin
<1>2. PICK m \in T : \A n \in T : ~(<<n, m>> \in OpToRel(<, Nat))
      BY <1>1
<1>3. \A n \in T : ~(n < m)
      BY <1>2 DEF OpToRel
<1> QED BY <1>3

\* The timestamps of one window lie within MaxCount places of the first of them.
LEMMA CapOfWindow == ASSUME Alone, Ideal!WindowInv PROVE CapHolds
<1>0. MaxCount \in Nat /\ Window \in Nat
      BY AloneFacts
<1>1. log \in Seq(Nat) /\ Len(log) \in Nat /\ DOMAIN log = 1..Len(log)
  <2>1. log \in Seq(Nat)
        BY DEF Ideal!WindowInv, Ideal!WindowTypeOK
  <2> QED BY <2>1
<1>2. \A i \in 1..Len(log) : log[i] \in Nat
      BY <1>1
<1> SUFFICES ASSUME NEW i \in DOMAIN log
             PROVE  Cardinality({j \in DOMAIN log : log[i] - Window <= log[j] /\ log[j] <= log[i]})
                      <= MaxCount
    BY DEF CapHolds
<1> DEFINE S == {j \in DOMAIN log : log[i] - Window <= log[j] /\ log[j] <= log[i]}
<1>3. S \in SUBSET Nat /\ S # {}
  <2>1. i \in S
        BY <1>0, <1>1, <1>2
  <2> QED BY <1>1, <2>1
<1> HIDE DEF S
<1>4. PICK m \in S : \A j \in S : m <= j
      BY <1>3, Least
<1>5. m \in 1..Len(log) /\ log[i] - Window <= log[m]
      BY <1>1, <1>4 DEF S
<1>6. S \subseteq m..(m + MaxCount - 1)
  <2> SUFFICES ASSUME NEW j \in S, j > m + MaxCount - 1 PROVE FALSE
      BY <1>0, <1>1, <1>3, <1>4, <1>5
  <2>1. j \in 1..Len(log) /\ log[j] <= log[i]
        BY <1>1 DEF S
  <2>2. m + MaxCount \in 1..Len(log) /\ m + MaxCount <= j /\ m \in 1..(Len(log) - MaxCount)
        BY <1>0, <1>1, <1>5, <2>1
  <2>3. log[m + MaxCount] > log[m] + Window
        BY <2>2 DEF Ideal!WindowInv, Ideal!WindowCap
  <2>4. log[m + MaxCount] <= log[j]
        BY <2>1, <2>2 DEF Ideal!WindowInv, Ideal!Ordered
  <2>5. log[i] \in Nat /\ log[j] \in Nat /\ log[m] \in Nat /\ log[m + MaxCount] \in Nat
        BY <1>1, <1>2, <1>5, <2>1, <2>2
  <2> QED BY <1>0, <1>2, <1>5, <2>1, <2>3, <2>4, <2>5
<1>7. /\ IsFiniteSet(m..(m + MaxCount - 1))
      /\ Cardinality(m..(m + MaxCount - 1)) = MaxCount
  <2>1. m \in Int /\ m + MaxCount - 1 \in Int
        BY <1>0, <1>5
  <2>2. /\ IsFiniteSet(m..(m + MaxCount - 1))
        /\ Cardinality(m..(m + MaxCount - 1)) =
             IF m > m + MaxCount - 1 THEN 0 ELSE (m + MaxCount - 1) - m + 1
        BY <2>1, FS_Interval
  <2>3. (IF m > m + MaxCount - 1 THEN 0 ELSE (m + MaxCount - 1) - m + 1) = MaxCount
        BY <1>0, <1>5
  <2> QED BY <2>2, <2>3
<1>8. Cardinality(S) <= MaxCount
  <2>1. S \in SUBSET (m..(m + MaxCount - 1))
        BY <1>6
  <2>2. Cardinality(S) <= Cardinality(m..(m + MaxCount - 1))
        BY <1>7, <2>1, FS_Subset
  <2> QED BY <1>7, <2>2
<1> QED BY <1>8 DEF S

\* From a single event loop, is_allowed admits at most MaxCount messages in any
\* window, whichever admission the window ends with.
THEOREM LoopKeepsCap == ASSUME Alone PROVE Spec => []CapHolds
<1>1. Ideal!WindowInv => CapHolds
      BY CapOfWindow
<1> QED BY <1>1, WindowOfLoop, PTL

\* A refusal: the deque is full of timestamps of the window that ends now.
LEMMA RefusalAtCap ==
    ASSUME Alone, LoopInv, Ideal!WindowInv, [Next]_vars,
           NEW l \in Loops, at[l] = "count", at'[l] = "idle"
    PROVE  Cardinality({j \in DOMAIN log : now[l] - Window <= log[j]}) >= MaxCount
<1>0. Loops = {One} /\ MaxCount \in Nat /\ Window \in Nat
      BY AloneFacts
<1>1. l = One
      BY <1>0
<1>2. Count(One)
  <2>1. at'[One] # at[One]
        BY <1>1
  <2>2. CASE Next
    <3>1. Step(One)
          BY <1>0, <2>1, <2>2 DEF Next, Tick
    <3>2. ~(Enter(One) \/ LookUp(One) \/ Create(One) \/ Bind(One) \/ TestOldest(One)
             \/ PopOldest(One) \/ Record(One))
          BY <1>0, <1>1 DEF LoopInv, LoopTypeOK, GoOn, Enter, LookUp, Create, Bind, TestOldest, PopOldest, Record
    <3> QED BY <3>1, <3>2 DEF Step
  <2> QED BY <2>1, <2>2 DEF vars
<1>3. Mine(One) = Queue /\ Queue \in Seq(Nat) /\ log \in Seq(Nat) /\ now[One] \in Nat
      BY <1>0, <1>1 DEF Mine, Queue, LoopInv, LoopTypeOK, BoundOk
<1>4. Len(Queue) >= MaxCount
      BY <1>0, <1>1, <1>2, <1>3 DEF Count, GoOn, LoopInv, LoopTypeOK
<1>5. Len(Queue) \in Nat /\ Len(log) \in Nat /\ Len(Queue) <= Len(log) /\ DOMAIN log = 1..Len(log)
      BY <1>3 DEF LoopInv, SuffixOk
<1>6. \A i \in 1..Len(log) : log[i] \in Nat
      BY <1>3
<1> DEFINE first == Len(log) - Len(Queue) + 1
           S == {j \in DOMAIN log : now[l] - Window <= log[j]}
<1>7. first..Len(log) \subseteq S
  <2> SUFFICES ASSUME NEW j \in first..Len(log) PROVE now[One] - Window <= log[j]
      BY <1>1, <1>5
  <2>1. 1 \in 1..Len(Queue) /\ j \in 1..Len(log) /\ first \in 1..Len(log) /\ first <= j
        BY <1>5
  <2>2. Queue[1] = log[first] /\ Queue # <<>>
        BY <1>3, <2>1 DEF LoopInv, SuffixOk
  <2>3. ~(log[first] < now[One] - Window)
        BY <1>1, <2>2 DEF LoopInv, TestedOk
  <2>4. log[first] <= log[j]
        BY <2>1 DEF Ideal!WindowInv, Ideal!Ordered
  <2>5. log[first] \in Nat /\ log[j] \in Nat
        BY <1>6, <2>1
  <2>6. now[One] - Window \in Int
        BY <1>0, <1>3
  <2> HIDE DEF first
  <2> QED BY <2>3, <2>4, <2>5, <2>6
<1>8. IsFiniteSet(S)
  <2>1. IsFiniteSet(1..Len(log))
        BY <1>5, FS_Interval
  <2> QED BY <1>5, <2>1, FS_Subset
<1>9. Cardinality(first..Len(log)) = Len(Queue)
  <2>0. first \in Int /\ Len(log) \in Int
        BY <1>5
  <2>1. Cardinality(first..Len(log)) = IF first > Len(log) THEN 0 ELSE Len(log) - first + 1
    <3> HIDE DEF first
    <3> QED BY <2>0, FS_Interval
  <2> QED BY <1>5, <2>1
<1>10. Cardinality(S) \in Nat /\ Cardinality(first..Len(log)) <= Cardinality(S)
  <2> HIDE DEF S
  <2> QED BY <1>7, <1>8, FS_Subset, FS_CardinalityType
<1> QED BY <1>0, <1>4, <1>5, <1>9, <1>10

\* From a single event loop, is_allowed refuses only a customer that has used up
\* the cap of the window that ends now.
THEOREM LoopRefusesAtCap == ASSUME Alone PROVE Spec => RefusesOnlyAtCap
<1>1. LoopInv /\ Ideal!WindowInv /\ [Next]_vars =>
        [\A l \in Loops :
            at[l] = "count" /\ at'[l] = "idle" =>
              Cardinality({j \in DOMAIN log : now[l] - Window <= log[j]}) >= MaxCount]_vars
      BY RefusalAtCap
<1> QED BY <1>1, LoopHolds, WindowOfLoop, PTL DEF Spec, RefusesOnlyAtCap
=============================================================================
