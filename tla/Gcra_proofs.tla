----------------------------- MODULE Gcra_proofs -----------------------------
(***************************************************************************)
(* GcraInv, and with it the cap of one bucket, the honesty of the time it  *)
(* names in a refusal and the bound on an outage, for every rate, burst    *)
(* and bound.                                                              *)
(***************************************************************************)
EXTENDS Gcra, TLAPS

\* The entry a lookup finds is the stored one, or the stored one is not ahead.
LEMMA HeldIsStored ==
    ASSUME GcraInv, NEW s \in Stores
    PROVE  Held(s) = tat[s] \/ (Held(s) = 0 /\ tat[s] <= clock)
<1>0. tat[s] \in Nat /\ clock \in Nat /\ log[s] \in Seq(Nat) /\ BoundedEntry(s)
    BY DEF GcraInv, TypeOK
<1>1. CASE s = "redis" /\ clock >= expires
    <2>1. CASE log[s] = <<>>
        BY <1>0, <1>1, <2>1 DEF Held, BoundedEntry
    <2>2. CASE log[s] # <<>>
        <3>1. log[s][Len(log[s])] \in Nat
            BY <1>0, <2>2
        <3>2. /\ tat[s] <= log[s][Len(log[s])] + Burst
              /\ expires = log[s][Len(log[s])] + Ttl
            BY <1>0, <1>1, <2>2 DEF BoundedEntry
        <3> QED BY <1>0, <1>1, <3>1, <3>2, GcraAssumption DEF Held
    <2> QED BY <2>1, <2>2
<1>2. CASE ~(s = "redis" /\ clock >= expires)
    BY <1>2 DEF Held
<1> QED BY <1>1, <1>2

\* A new arrival time is one interval past the clock and past the stored one.
LEMMA BaseBounds ==
    ASSUME GcraInv, NEW s \in Stores
    PROVE  /\ Base(s) \in Nat
           /\ Base(s) >= clock /\ Base(s) >= tat[s]
           /\ Base(s) = clock \/ Base(s) = tat[s]
<1>1. clock \in Nat /\ tat[s] \in Nat
    BY DEF GcraInv, TypeOK
<1> QED BY <1>1, HeldIsStored DEF Base

LEMMA AppendFacts ==
    ASSUME NEW q \in Seq(Nat), NEW x \in Nat
    PROVE  /\ Append(q, x) \in Seq(Nat)
           /\ Len(Append(q, x)) = Len(q) + 1
           /\ DOMAIN Append(q, x) = 1..(Len(q) + 1)
           /\ Append(q, x)[Len(q) + 1] = x
           /\ \A i \in 1..Len(q) : Append(q, x)[i] = q[i]
    OBVIOUS

LEMMA OneMore == ASSUME NEW n \in Nat, NEW e \in Nat
                 PROVE  (n + 1) * e = n * e + e /\ n * e \in Nat
    OBVIOUS

\* The heart of the proof: an admission keeps the cap and stays charged for.
LEMMA AdmitKeeps ==
    ASSUME GcraInv, NEW s \in Stores, Admit(s), UNCHANGED clock
    PROVE  /\ tat' \in [Stores -> Nat] /\ log' \in [Stores -> Seq(Nat)]
           /\ retry' \in [Stores -> Int] /\ expires' \in Nat
           /\ BucketCap'
           /\ \A r \in Stores : Charged(r)' /\ BoundedEntry(r)'
           /\ RetryBound'
<1> DEFINE q == log[s]
           n == Len(log[s])
           new == Base(s) + Emission
<1>1. /\ q \in Seq(Nat) /\ clock \in Nat /\ clock' = clock /\ tat[s] \in Nat
      /\ n \in Nat /\ expires \in Nat
      /\ tat \in [Stores -> Nat] /\ log \in [Stores -> Seq(Nat)]
      /\ retry \in [Stores -> Int]
    BY DEF GcraInv, TypeOK
<1>2. /\ Base(s) \in Nat /\ Base(s) >= clock
      /\ Base(s) >= tat[s]
    BY BaseBounds
<1>3. /\ tat' = [tat EXCEPT ![s] = new]
      /\ log' = [log EXCEPT ![s] = Append(q, clock)]
      /\ retry' = [retry EXCEPT ![s] = 0]
      /\ expires' = IF s = "redis" THEN clock + Ttl ELSE expires
    BY DEF Admit
<1>4. new \in Nat /\ new >= clock + Emission /\ new <= clock + Burst
    BY <1>1, <1>2, GcraAssumption DEF Admit, AllowAt
<1>5. /\ tat'[s] = new /\ log'[s] = Append(q, clock) /\ retry'[s] = 0
      /\ \A r \in Stores \ {s} :
            tat'[r] = tat[r] /\ log'[r] = log[r] /\ retry'[r] = retry[r]
    BY <1>1, <1>3
<1>6. /\ Append(q, clock) \in Seq(Nat)
      /\ Len(log'[s]) = n + 1 /\ DOMAIN log'[s] = 1..(n + 1)
      /\ log'[s][n + 1] = clock
      /\ \A i \in 1..n : log'[s][i] = q[i]
    BY <1>1, <1>5, AppendFacts
<1>7. /\ tat' \in [Stores -> Nat] /\ log' \in [Stores -> Seq(Nat)]
      /\ retry' \in [Stores -> Int] /\ expires' \in Nat
    BY <1>1, <1>3, <1>4, <1>6, GcraAssumption
<1>8. \A i \in 1..n : q[i] \in Nat /\ tat[s] >= q[i] + (n - i + 1) * Emission
    <2>1. \A i \in DOMAIN q : tat[s] >= q[i] + (n - i + 1) * Emission
        BY DEF GcraInv, Charged
    <2>2. DOMAIN q = 1..n /\ \A i \in DOMAIN q : q[i] \in Nat
        BY <1>1
    <2> HIDE DEF q, n
    <2> QED BY <2>1, <2>2
<1>9. \A i \in 1..(n + 1) : new >= log'[s][i] + (n + 1 - i + 1) * Emission
    <2> TAKE i \in 1..(n + 1)
    <2>1. CASE i = n + 1
        <3>1. (n + 1 - i + 1) * Emission = Emission
            BY <2>1, <1>1, GcraAssumption
        <3> QED BY <3>1, <2>1, <1>1, <1>4, <1>6, GcraAssumption
    <2>2. CASE i # n + 1
        <3>1. i \in 1..n /\ n - i + 1 \in Nat /\ n + 1 - i + 1 = (n - i + 1) + 1
            BY <2>2, <1>1
        <3>2. /\ (n + 1 - i + 1) * Emission = (n - i + 1) * Emission + Emission
              /\ (n - i + 1) * Emission \in Nat
            BY <3>1, OneMore, GcraAssumption
        <3>3. tat[s] >= q[i] + (n - i + 1) * Emission /\ q[i] \in Nat
            BY <1>8, <3>1
        <3>4. new >= tat[s] + Emission
            BY <3>1, <1>1, <1>2, GcraAssumption
        <3>5. log'[s][i] = q[i]
            BY <1>6, <3>1
        <3> HIDE DEF new, n, q
        <3> QED BY <3>2, <3>3, <3>4, <3>5, <1>1, <1>4, GcraAssumption
    <2> QED BY <2>1, <2>2
<1>10. Charged(s)'
    BY <1>5, <1>6, <1>9 DEF Charged
<1>11. BoundedEntry(s)'
    <2>1. log'[s] # <<>>
        <3>1. n + 1 # 0 /\ Len(log'[s]) = n + 1
            BY <1>1, <1>6
        <3> HIDE DEF n
        <3> QED BY <3>1
    <2>4. log'[s][Len(log'[s])] = clock
        BY <1>6
    <2>2. s = "redis" => expires' = clock + Ttl
        BY <1>3
    <2>3. tat'[s] <= clock + Burst /\ clock <= clock'
        BY <1>1, <1>4, <1>5
    <2> QED BY <2>1, <2>2, <2>3, <2>4 DEF BoundedEntry
<1>12. \A r \in Stores \ {s} : Charged(r)' /\ BoundedEntry(r)'
    <2> TAKE r \in Stores \ {s}
    <2>1. Charged(r) /\ BoundedEntry(r)
        BY DEF GcraInv
    <2>2. Charged(r)'
        BY <2>1, <1>5 DEF Charged
    <2>3. r = "redis" => expires' = expires
        BY <1>3
    <2> QED BY <2>1, <2>2, <2>3, <1>1, <1>5 DEF BoundedEntry
<1>13. BucketCap'
    <2> SUFFICES ASSUME NEW r \in Stores, NEW i \in DOMAIN log'[r],
                        NEW j \in DOMAIN log'[r], i <= j
                 PROVE  (j - i + 1) * Emission <= log'[r][j] - log'[r][i] + Burst
        BY DEF BucketCap
    <2>1. CASE r # s
        BY <2>1, <1>5 DEF GcraInv, BucketCap
    <2>2. CASE r = s /\ j = n + 1
        <3>1. new >= log'[s][i] + (n + 1 - i + 1) * Emission /\ log'[s][j] = clock
            BY <2>2, <1>6, <1>9
        <3>2. log'[s][i] \in Nat /\ j - i + 1 \in Nat
            BY <2>2, <1>1, <1>6, <1>7
        <3>3. (j - i + 1) * Emission \in Nat
            BY <3>2, OneMore, GcraAssumption
        <3>4. n + 1 - i + 1 = j - i + 1
            <4>1. n \in Int /\ i \in Int
                BY <2>2, <1>1, <1>6
            <4> HIDE DEF n
            <4> QED BY <4>1, <2>2
        <3>5. PICK p \in Nat : p = (j - i + 1) * Emission
            BY <3>3
        <3> HIDE DEF new, n
        <3>6. new >= log'[s][i] + p
            BY <3>1, <3>4, <3>5
        <3>7. new \in Int /\ new <= clock + Burst /\ clock \in Nat /\ Burst \in Nat
            BY <1>1, <1>4, GcraAssumption
        <3>8. p <= clock - log'[s][i] + Burst
            BY <3>2, <3>6, <3>7
        <3> QED BY <3>1, <3>5, <3>8, <2>2
    <2>3. CASE r = s /\ j # n + 1
        <3>1. i \in 1..n /\ j \in 1..n /\ DOMAIN q = 1..n
            BY <2>3, <1>1, <1>6
        <3>2. log'[s][i] = q[i] /\ log'[s][j] = q[j]
            BY <3>1, <1>6
        <3> QED BY <2>3, <3>1, <3>2 DEF GcraInv, BucketCap
    <2> QED BY <2>1, <2>2, <2>3
<1>14. RetryBound'
    BY <1>5 DEF GcraInv, RetryBound
<1> QED BY <1>7, <1>10, <1>11, <1>12, <1>13, <1>14

LEMMA RefuseKeeps ==
    ASSUME GcraInv, NEW s \in Stores, Refuse(s), UNCHANGED clock
    PROVE  /\ tat' = tat /\ log' = log /\ expires' = expires
           /\ retry' \in [Stores -> Int]
           /\ RetryBound'
<1>1. /\ clock \in Nat /\ tat \in [Stores -> Nat] /\ retry \in [Stores -> Int]
      /\ tat' = tat /\ log' = log /\ expires' = expires
      /\ retry' = [retry EXCEPT ![s] = AllowAt(s)]
    BY DEF GcraInv, TypeOK, Refuse
<1>2. Base(s) \in Nat /\ AllowAt(s) = Base(s) + Emission - Burst
    BY BaseBounds DEF AllowAt
<1>3. retry' \in [Stores -> Int]
    BY <1>1, <1>2, GcraAssumption
<1>4. Base(s) >= tat[s] /\ tat[s] \in Nat
    BY <1>1, BaseBounds
<1>5. RetryBound'
    <2> SUFFICES ASSUME NEW r \in Stores, retry'[r] # 0
                 PROVE  retry'[r] >= tat[r] + Emission - Burst
        BY <1>1 DEF RetryBound
    <2>1. CASE r = s
        BY <2>1, <1>1, <1>2, <1>4, GcraAssumption
    <2>2. CASE r # s
        BY <2>2, <1>1 DEF GcraInv, RetryBound
    <2> QED BY <2>1, <2>2
<1> QED BY <1>1, <1>3, <1>5

LEMMA Initially == Init => GcraInv
<1> SUFFICES ASSUME Init PROVE GcraInv
    OBVIOUS
<1>1. TypeOK
    BY DEF Init, TypeOK
<1>2. \A s \in Stores : log[s] = <<>> /\ tat[s] = 0 /\ retry[s] = 0 /\ DOMAIN log[s] = {}
    BY DEF Init
<1>3. BucketCap /\ RetryBound /\ \A s \in Stores : Charged(s) /\ BoundedEntry(s)
    BY <1>2 DEF BucketCap, RetryBound, Charged, BoundedEntry
<1> QED BY <1>1, <1>3 DEF GcraInv

LEMMA TellKeepsType ==
    ASSUME GcraInv, Tell \/ UNCHANGED allowed PROVE allowed' \in Seq(Nat)
<1>1. allowed \in Seq(Nat) /\ clock \in Nat
    BY DEF GcraInv, TypeOK
<1> QED BY <1>1, AppendFacts DEF Tell

\* What a call does to a bucket keeps the invariant, whatever its caller is told.
LEMMA CallKeeps ==
    ASSUME GcraInv, NEW s \in Stores, Admit(s) \/ Refuse(s) \/ UnchangedBuckets,
           Tell \/ UNCHANGED allowed, lost' \in Nat, UNCHANGED <<clock, resets>>
    PROVE  GcraInv'
<1>1. clock' = clock /\ resets' = resets /\ allowed' \in Seq(Nat)
      /\ clock \in Nat /\ resets \in Nat
    BY TellKeepsType DEF GcraInv, TypeOK
<1>2. CASE Admit(s)
    BY <1>1, <1>2, AdmitKeeps DEF GcraInv, TypeOK
<1>3. CASE Refuse(s)
    <2>1. /\ tat' = tat /\ log' = log /\ expires' = expires
          /\ retry' \in [Stores -> Int] /\ RetryBound'
        BY <1>1, <1>3, RefuseKeeps
    <2> QED BY <1>1, <2>1 DEF GcraInv, TypeOK, BucketCap, Charged, BoundedEntry
<1>4. CASE UnchangedBuckets
    BY <1>1, <1>4 DEF UnchangedBuckets, GcraInv, TypeOK, BucketCap, Charged,
                      BoundedEntry, RetryBound
<1> QED BY <1>2, <1>3, <1>4

LEMMA ForgetKeeps == ASSUME GcraInv, NEW s \in Stores, Forget(s) PROVE GcraInv'
<1>1. /\ tat' = [tat EXCEPT ![s] = 0] /\ log' = [log EXCEPT ![s] = <<>>]
      /\ resets' = resets + 1
      /\ clock' = clock /\ expires' = expires /\ retry' = retry /\ lost' = lost
      /\ allowed' = allowed
    BY DEF Forget
<1>2. TypeOK'
    BY <1>1 DEF GcraInv, TypeOK
<1>3. /\ tat'[s] = 0 /\ log'[s] = <<>> /\ DOMAIN log'[s] = {}
      /\ \A r \in Stores \ {s} : tat'[r] = tat[r] /\ log'[r] = log[r]
    BY <1>1 DEF GcraInv, TypeOK
<1>4. BucketCap'
    BY <1>3 DEF GcraInv, BucketCap
<1>5. \A r \in Stores : Charged(r)' /\ BoundedEntry(r)'
    <2> TAKE r \in Stores
    <2>1. CASE r = s
        BY <2>1, <1>3 DEF Charged, BoundedEntry
    <2>2. CASE r # s
        BY <2>2, <1>1, <1>3 DEF GcraInv, Charged, BoundedEntry
    <2> QED BY <2>1, <2>2
<1>6. RetryBound'
    <2> SUFFICES ASSUME NEW r \in Stores, retry[r] # 0
                 PROVE  retry[r] >= tat'[r] + Emission - Burst
        BY <1>1 DEF RetryBound
    <2>1. retry[r] >= tat[r] + Emission - Burst /\ retry[r] \in Int /\ tat[r] \in Nat
        BY DEF GcraInv, RetryBound, TypeOK
    <2>2. tat'[r] = tat[r] \/ tat'[r] = 0
        BY <1>3
    <2> QED BY <2>1, <2>2, GcraAssumption
<1> QED BY <1>2, <1>4, <1>5, <1>6 DEF GcraInv

LEMMA TickKeeps == ASSUME GcraInv, Tick PROVE GcraInv'
<1>1. clock' = clock + 1 /\ clock \in Nat
    BY DEF Tick, GcraInv, TypeOK
<1>2. /\ tat' = tat /\ log' = log /\ retry' = retry /\ expires' = expires
      /\ lost' = lost /\ allowed' = allowed /\ resets' = resets
    BY DEF Tick, UnchangedBuckets
<1>3. TypeOK' /\ BucketCap' /\ RetryBound' /\ \A s \in Stores : Charged(s)'
    BY <1>1, <1>2 DEF GcraInv, TypeOK, BucketCap, RetryBound, Charged
<1>4. \A s \in Stores : BoundedEntry(s)'
    <2> TAKE s \in Stores
    <2>1. log[s] \in Seq(Nat) /\ BoundedEntry(s)
        BY DEF GcraInv, TypeOK
    <2>2. log[s] # <<>> => log[s][Len(log[s])] \in Nat
        BY <2>1
    <2> QED BY <1>1, <1>2, <2>1, <2>2 DEF BoundedEntry
<1> QED BY <1>3, <1>4 DEF GcraInv

\* The invariant of the bucket, for every rate, burst, policy and bound.
THEOREM GcraHolds == Spec => []GcraInv
<1>1. GcraInv /\ [Next]_vars => GcraInv'
    <2> SUFFICES ASSUME GcraInv, [Next]_vars PROVE GcraInv'
        OBVIOUS
    <2>0. lost \in Nat /\ "redis" \in Stores /\ "local" \in Stores
        BY DEF GcraInv, TypeOK, Stores
    <2>1. CASE RedisCall
        BY <2>0, <2>1, CallKeeps DEF RedisCall
    <2>2. CASE RedisFails
        BY <2>0, <2>2, CallKeeps DEF RedisFails
    <2>3. CASE FallBack
        BY <2>0, <2>3, CallKeeps DEF FallBack
    <2>4. CASE \E s \in Stores : Forget(s)
        BY <2>4, ForgetKeeps
    <2>5. CASE Tick
        BY <2>5, TickKeeps
    <2>6. CASE UNCHANGED vars
        BY <2>6 DEF vars, GcraInv, TypeOK, BucketCap, RetryBound, Charged, BoundedEntry
    <2> QED BY <2>1, <2>2, <2>3, <2>4, <2>5, <2>6 DEF Next
<1> QED BY Initially, <1>1, PTL DEF Spec

\* A bucket whose tolerance is at least one interval never turns away a caller
\* that waited as long as it was told to.
THEOREM RetryHolds == ASSUME Burst >= Emission PROVE Spec => []RetryHonest
<1>1. GcraInv => RetryHonest
    <2> SUFFICES ASSUME GcraInv, NEW s \in Stores, retry[s] # 0, clock >= retry[s]
                 PROVE  clock >= AllowAt(s)
        BY DEF RetryHonest
    <2>1. /\ clock \in Nat /\ tat[s] \in Nat /\ retry[s] \in Int
          /\ retry[s] >= tat[s] + Emission - Burst
        BY DEF GcraInv, TypeOK, RetryBound
    <2>2. Base(s) = clock \/ Base(s) = tat[s]
        BY BaseBounds
    <2> QED BY <2>1, <2>2, GcraAssumption DEF AllowAt
<1> QED BY <1>1, GcraHolds, PTL
-----------------------------------------------------------------------------
(***************************************************************************)
(* An outage.  Every yes is charged to the entry that gave it, so the       *)
(* calls from the i-th yes on fit in what both entries are ahead of it,    *)
(* and in one more such allowance for each entry that was lost.            *)
(***************************************************************************)
Ahead(s, a) == IF tat[s] > a THEN tat[s] - a ELSE 0
Allowance(a) == clock - a + Burst
Room(a) == Ahead("redis", a) + Ahead("local", a) + resets * Allowance(a)

OutageInv ==
    /\ OutageBound
    /\ \A i, j \in DOMAIN allowed : i <= j => allowed[i] <= allowed[j]
    /\ \A i \in DOMAIN allowed :
          /\ allowed[i] <= clock
          /\ (Len(allowed) - i + 1) * Emission <= Room(allowed[i])

LEMMA TimesGrows ==
    ASSUME NEW r \in Nat, NEW q \in Nat, NEW x \in Nat, NEW y \in Nat, r <= q, x <= y
    PROVE  r * x \in Nat /\ q * y \in Nat /\ r * x <= q * y
<1>1. PICK d \in Nat : y = x + d
    <2>1. y - x \in Nat /\ y = x + (y - x)
        OBVIOUS
    <2> QED BY <2>1
<1>2. PICK e \in Nat : q = r + e
    <2>1. q - r \in Nat /\ q = r + (q - r)
        OBVIOUS
    <2> QED BY <2>1
<1>3. r * x \in Nat /\ r * d \in Nat /\ e * y \in Nat
    OBVIOUS
<1>4. q * y = r * y + e * y
    BY <1>2
<1>5. r * y = r * x + r * d
    BY <1>1
<1> QED BY <1>3, <1>4, <1>5

LEMMA AheadBounds ==
    ASSUME GcraInv, NEW s \in Stores, NEW a \in Nat, a <= clock
    PROVE  /\ Ahead(s, a) \in Nat /\ Ahead(s, a) <= Allowance(a)
           /\ Allowance(a) \in Nat
<1>1. /\ clock \in Nat /\ tat[s] \in Nat /\ log[s] \in Seq(Nat) /\ BoundedEntry(s)
      /\ Burst \in Nat
    BY GcraAssumption DEF GcraInv, TypeOK
<1>2. tat[s] <= clock + Burst
    <2>1. CASE log[s] = <<>>
        BY <1>1, <2>1 DEF BoundedEntry
    <2>2. CASE log[s] # <<>>
        <3>1. log[s][Len(log[s])] \in Nat
            BY <1>1, <2>2
        <3>2. tat[s] <= log[s][Len(log[s])] + Burst /\ log[s][Len(log[s])] <= clock
            BY <1>1, <2>2 DEF BoundedEntry
        <3> QED BY <1>1, <3>1, <3>2
    <2> QED BY <2>1, <2>2
<1> QED BY <1>1, <1>2 DEF Ahead, Allowance

LEMMA RoomBounds ==
    ASSUME GcraInv, NEW a \in Nat, a <= clock
    PROVE  Room(a) \in Nat /\ Room(a) <= (2 + resets) * Allowance(a)
<1>1. resets \in Nat /\ "redis" \in Stores /\ "local" \in Stores
    BY DEF GcraInv, TypeOK, Stores
<1>2. PICK x \in Nat, y \in Nat, z \in Nat :
          x = Ahead("redis", a) /\ y = Ahead("local", a) /\ z = Allowance(a)
    BY <1>1, AheadBounds
<1>3. x <= z /\ y <= z
    BY <1>1, <1>2, AheadBounds
<1>4. resets * z \in Nat /\ (2 + resets) * z = z + z + resets * z
    BY <1>1
<1>5. Room(a) = x + y + resets * z
    BY <1>2 DEF Room
<1> QED BY <1>2, <1>3, <1>4, <1>5

RoomIsBounded ==
    \A a \in Nat : a <= clock => Room(a) \in Nat /\ Room(a) <= (2 + resets) * Allowance(a)

LEMMA BoundedThen == GcraInv => RoomIsBounded
BY RoomBounds DEF RoomIsBounded

LEMMA BoundedNext == GcraInv' => RoomIsBounded'
BY BoundedThen, PTL

\* The pairs within what was told before stay bounded.
LEMMA OldPairs ==
    ASSUME GcraInv, OutageInv, NEW q \in Nat, q >= resets,
           NEW i \in DOMAIN allowed, NEW j \in DOMAIN allowed, i <= j
    PROVE  (j - i + 1) * Emission <= (2 + q) * (allowed[j] - allowed[i] + Burst)
<1>1. /\ allowed \in Seq(Nat) /\ allowed[i] \in Nat /\ allowed[j] \in Nat
      /\ resets \in Nat /\ Emission \in Nat /\ Burst \in Nat
    BY GcraAssumption DEF GcraInv, TypeOK
<1>2. PICK z \in Nat : z = allowed[j] - allowed[i] + Burst
    <2>1. allowed[i] <= allowed[j]
        BY DEF OutageInv
    <2>2. allowed[j] - allowed[i] + Burst \in Nat
        BY <1>1, <2>1
    <2> QED BY <2>2
<1>3. (j - i + 1) * Emission <= (2 + resets) * z
    BY <1>2 DEF OutageInv, OutageBound
<1>4. (2 + resets) * z <= (2 + q) * z /\ (2 + resets) * z \in Nat /\ (2 + q) * z \in Nat
    <2>1. 2 + resets \in Nat /\ 2 + q \in Nat /\ 2 + resets <= 2 + q /\ z <= z
        BY <1>1, <1>2
    <2> QED BY <1>2, <2>1, TimesGrows
<1>5. (j - i + 1) * Emission \in Int
    <2>1. i \in Int /\ j \in Int
        BY <1>1
    <2> QED BY <1>1, <2>1
<1> QED BY <1>2, <1>3, <1>4, <1>5

\* A step that tells nobody yes and leaves as much room keeps the bound.
LEMMA QuietKeeps ==
    ASSUME GcraInv, OutageInv, GcraInv', UNCHANGED allowed,
           clock' >= clock, resets' >= resets,
           \A a \in Nat : a <= clock => Room(a)' >= Room(a)
    PROVE  OutageInv'
<1>1. /\ allowed \in Seq(Nat) /\ clock \in Nat /\ clock' \in Nat
      /\ resets \in Nat /\ resets' \in Nat /\ Emission \in Nat /\ allowed' = allowed
    BY GcraAssumption DEF GcraInv, TypeOK
<1>2. OutageBound'
    BY <1>1, OldPairs DEF OutageBound
<1>3. ASSUME NEW i \in DOMAIN allowed
      PROVE  allowed[i] <= clock' /\ (Len(allowed) - i + 1) * Emission <= Room(allowed[i])'
    <2>1. PICK a \in Nat : a = allowed[i]
        BY <1>1
    <2>2. a <= clock /\ (Len(allowed) - i + 1) * Emission <= Room(a)
        BY <2>1 DEF OutageInv
    <2>3. a <= clock'
        BY <1>1, <2>1, <2>2
    <2>4. Room(a) \in Nat /\ Room(a)' \in Nat
        BY <2>1, <2>2, <2>3, BoundedThen, BoundedNext DEF RoomIsBounded
    <2>5. (Len(allowed) - i + 1) * Emission \in Int
        <3>1. Len(allowed) \in Nat /\ i \in Nat
            BY <1>1
        <3> QED BY <1>1, <3>1
    <2>6. Room(a)' >= Room(a)
        BY <2>2
    <2>7. (Len(allowed) - i + 1) * Emission <= Room(a)'
        BY <2>2, <2>4, <2>5, <2>6
    <2> QED BY <1>1, <2>1, <2>3, <2>7
<1> QED BY <1>1, <1>2, <1>3 DEF OutageInv

\* A yes that is charged keeps the bound.
LEMMA YesKeeps ==
    ASSUME GcraInv, OutageInv, GcraInv', Tell, UNCHANGED <<clock, resets>>,
           \A a \in Nat : a <= clock => Room(a)' >= Room(a) + Emission
    PROVE  OutageInv'
<1> DEFINE n == Len(allowed)
<1>1. /\ allowed \in Seq(Nat) /\ clock \in Nat /\ clock' = clock /\ n \in Nat
      /\ resets \in Nat /\ resets' = resets /\ Emission \in Nat /\ Burst \in Nat
      /\ DOMAIN allowed = 1..n
    BY GcraAssumption DEF GcraInv, TypeOK
<1>2. /\ Len(allowed') = n + 1 /\ DOMAIN allowed' = 1..(n + 1)
      /\ allowed'[n + 1] = clock /\ allowed' \in Seq(Nat)
      /\ \A i \in 1..n : allowed'[i] = allowed[i]
    BY <1>1, AppendFacts DEF Tell
<1> HIDE DEF n
<1>3. ASSUME NEW i \in 1..(n + 1)
      PROVE  /\ allowed'[i] \in Nat /\ allowed'[i] <= clock
             /\ (n + 1 - i + 1) * Emission \in Nat
             /\ (n + 1 - i + 1) * Emission <= Room(allowed[i])'
    <2>1. PICK a \in Nat : a = allowed'[i]
        BY <1>2
    <2>2. a <= clock
        <3>1. CASE i = n + 1
            BY <1>1, <1>2, <2>1, <3>1
        <3>2. CASE i # n + 1
            <4>1. i \in 1..n
                BY <1>1, <3>2
            <4> QED BY <1>1, <1>2, <2>1, <4>1 DEF OutageInv
        <3> QED BY <3>1, <3>2
    <2>3. Room(a) \in Nat /\ Room(a)' \in Nat /\ Room(a)' >= Room(a) + Emission
        BY <1>1, <2>1, <2>2, BoundedThen, BoundedNext DEF RoomIsBounded
    <2>4. (n + 1 - i + 1) * Emission \in Nat /\ (n + 1 - i + 1) * Emission <= Room(a)'
        <3>1. CASE i = n + 1
            <4>1. n + 1 - i + 1 = 1
                BY <1>1, <3>1
            <4>2. (n + 1 - i + 1) * Emission = Emission
                BY <1>1, <4>1
            <4> QED BY <1>1, <2>3, <4>2
        <3>2. CASE i # n + 1
            <4>1. i \in 1..n /\ n - i + 1 \in Nat /\ n + 1 - i + 1 = (n - i + 1) + 1
                BY <1>1, <3>2
            <4>2. (n + 1 - i + 1) * Emission = (n - i + 1) * Emission + Emission
                  /\ (n - i + 1) * Emission \in Nat
                BY <1>1, <4>1, OneMore
            <4>3. (n - i + 1) * Emission <= Room(a)
                BY <1>1, <1>2, <2>1, <4>1 DEF OutageInv, n
            <4> QED BY <1>1, <2>3, <4>2, <4>3
        <3> QED BY <3>1, <3>2
    <2> QED BY <2>1, <2>2, <2>4
<1>4. ASSUME NEW i \in 1..(n + 1), NEW j \in 1..(n + 1), i <= j
      PROVE  /\ allowed'[i] <= allowed'[j]
             /\ (j - i + 1) * Emission
                   <= (2 + resets') * (allowed'[j] - allowed'[i] + Burst)
    <2>1. CASE j = n + 1
        <3>1. PICK a \in Nat : a = allowed'[i]
            BY <1>2
        <3>2. a <= clock /\ (n + 1 - i + 1) * Emission <= Room(a)'
              /\ (n + 1 - i + 1) * Emission \in Nat
            BY <1>3, <3>1
        <3>3. Room(a)' \in Nat /\ Room(a)' <= (2 + resets') * Allowance(a)'
            BY <1>1, <3>1, <3>2, BoundedNext DEF RoomIsBounded
        <3>4. Allowance(a)' = clock - a + Burst
            BY <1>1 DEF Allowance
        <3>5. clock - a + Burst \in Nat /\ 2 + resets \in Nat
            BY <1>1, <3>1, <3>2
        <3>6. (2 + resets) * (clock - a + Burst) \in Nat
            BY <3>5, TimesGrows
        <3>7. j - i + 1 = n + 1 - i + 1
            BY <1>1, <2>1
        <3> QED BY <1>1, <1>2, <2>1, <3>1, <3>2, <3>3, <3>4, <3>6, <3>7
    <2>2. CASE j # n + 1
        <3>1. i \in 1..n /\ j \in 1..n
            BY <1>1, <1>4, <2>2
        <3>2. allowed'[i] = allowed[i] /\ allowed'[j] = allowed[j]
            BY <1>2, <3>1
        <3>3. allowed[i] <= allowed[j]
            BY <1>1, <1>4, <3>1 DEF OutageInv
        <3>4. (j - i + 1) * Emission <= (2 + resets) * (allowed[j] - allowed[i] + Burst)
            BY <1>1, <1>4, <3>1 DEF OutageInv, OutageBound
        <3> QED BY <1>1, <3>2, <3>3, <3>4
    <2> QED BY <2>1, <2>2
<1>5. \A i \in DOMAIN allowed' : /\ allowed'[i] <= clock'
                                /\ (Len(allowed') - i + 1) * Emission <= Room(allowed[i])'
    <2> SUFFICES ASSUME NEW i \in DOMAIN allowed'
                 PROVE  /\ allowed'[i] <= clock'
                        /\ (Len(allowed') - i + 1) * Emission <= Room(allowed[i])'
        OBVIOUS
    <2>1. i \in 1..(n + 1)
        BY <1>2
    <2>2. allowed'[i] <= clock' /\ (n + 1 - i + 1) * Emission <= Room(allowed[i])'
        BY <1>1, <1>3, <2>1
    <2>3. Len(allowed') - i + 1 = n + 1 - i + 1
        BY <1>1, <1>2, <2>1
    <2>4. allowed'[i] <= clock'
        BY <2>2
    <2>5. (Len(allowed') - i + 1) * Emission <= Room(allowed[i])'
        BY <2>2, <2>3, Zenon
    <2> QED BY <2>4, <2>5
<1> QED BY <1>2, <1>4, <1>5 DEF OutageInv, OutageBound

\* What a bucket admits is charged.
LEMMA AdmitCharges ==
    ASSUME GcraInv, NEW s \in Stores, Admit(s), UNCHANGED <<clock, resets>>,
           NEW a \in Nat, a <= clock
    PROVE  Room(a)' >= Room(a) + Emission
<1>1. /\ clock \in Nat /\ tat \in [Stores -> Nat] /\ resets \in Nat /\ Emission \in Nat
      /\ Burst \in Nat /\ clock' = clock /\ resets' = resets
      /\ "redis" \in Stores /\ "local" \in Stores
    BY GcraAssumption DEF GcraInv, TypeOK, Stores
<1>2. Base(s) \in Nat /\ Base(s) >= clock /\ Base(s) >= tat[s]
    BY BaseBounds
<1>3. tat' = [tat EXCEPT ![s] = Base(s) + Emission]
    BY DEF Admit
<1>4. Ahead(s, a)' >= Ahead(s, a) + Emission
    BY <1>1, <1>2, <1>3 DEF Ahead
<1>5. \A r \in Stores \ {s} : Ahead(r, a)' = Ahead(r, a)
    BY <1>1, <1>3 DEF Ahead
<1>6. \A r \in Stores : Ahead(r, a) \in Nat /\ Ahead(r, a)' \in Int
    BY <1>1, <1>2, <1>3 DEF Ahead
<1>7. PICK w \in Nat : w = resets * Allowance(a) /\ w = (resets * Allowance(a))'
    <2>1. Allowance(a) \in Nat /\ Allowance(a)' = Allowance(a)
        BY <1>1 DEF Allowance
    <2>2. resets * Allowance(a) \in Nat
        BY <1>1, <2>1, TimesGrows
    <2> QED BY <1>1, <2>1, <2>2
<1>8. Room(a) = Ahead("redis", a) + Ahead("local", a) + w
      /\ Room(a)' = Ahead("redis", a)' + Ahead("local", a)' + w
    BY <1>7 DEF Room
<1> HIDE DEF Ahead
<1>9. CASE s = "redis"
    BY <1>1, <1>4, <1>5, <1>6, <1>7, <1>8, <1>9
<1>10. CASE s = "local"
    BY <1>1, <1>4, <1>5, <1>6, <1>7, <1>8, <1>10
<1> QED BY <1>9, <1>10 DEF Stores

LEMMA SameRoom ==
    ASSUME GcraInv, UNCHANGED <<tat, clock, resets>>, NEW a \in Nat, a <= clock
    PROVE  Room(a)' >= Room(a)
<1>1. Room(a)' = Room(a)
    BY DEF Room, Ahead, Allowance
<1>2. Room(a) \in Nat
    BY RoomBounds
<1> QED BY <1>1, <1>2

\* A lost entry forgives no more than the allowance it brings.
LEMMA ForgetPays ==
    ASSUME GcraInv, NEW s \in Stores, Forget(s), NEW a \in Nat, a <= clock
    PROVE  Room(a)' >= Room(a)
<1>1. /\ clock \in Nat /\ tat \in [Stores -> Nat] /\ resets \in Nat /\ Burst \in Nat
      /\ clock' = clock /\ resets' = resets + 1 /\ tat' = [tat EXCEPT ![s] = 0]
      /\ "redis" \in Stores /\ "local" \in Stores
    BY GcraAssumption DEF GcraInv, TypeOK, Stores, Forget
<1>2. Ahead(s, a)' = 0
    BY <1>1 DEF Ahead
<1>3. \A r \in Stores \ {s} : Ahead(r, a)' = Ahead(r, a)
    BY <1>1 DEF Ahead
<1>4. \A r \in Stores : Ahead(r, a) \in Nat /\ Ahead(r, a) <= Allowance(a)
    BY AheadBounds
<1>5. Allowance(a) \in Nat /\ Allowance(a)' = Allowance(a)
    BY <1>1, AheadBounds DEF Allowance
<1>6. PICK w \in Nat : w = resets * Allowance(a)
    BY <1>1, <1>5, TimesGrows
<1>7. (resets * Allowance(a))' = w + Allowance(a)
    <2>1. (resets * Allowance(a))' = (resets + 1) * Allowance(a)
        BY <1>1, <1>5
    <2>2. (resets + 1) * Allowance(a) = w + Allowance(a)
        BY <1>1, <1>5, <1>6, OneMore
    <2> QED BY <2>1, <2>2
<1>8. Room(a) = Ahead("redis", a) + Ahead("local", a) + w
      /\ Room(a)' = Ahead("redis", a)' + Ahead("local", a)' + (w + Allowance(a))
    BY <1>6, <1>7 DEF Room
<1>9. CASE s = "redis"
    BY <1>1, <1>2, <1>3, <1>4, <1>5, <1>6, <1>8, <1>9
<1>10. CASE s = "local"
    BY <1>1, <1>2, <1>3, <1>4, <1>5, <1>6, <1>8, <1>10
<1> QED BY <1>9, <1>10 DEF Stores

\* Time makes room.
LEMMA TickMakesRoom ==
    ASSUME GcraInv, Tick, NEW a \in Nat, a <= clock PROVE Room(a)' >= Room(a)
<1>1. /\ clock \in Nat /\ resets \in Nat /\ Burst \in Nat
      /\ clock' = clock + 1 /\ resets' = resets /\ tat' = tat
      /\ "redis" \in Stores /\ "local" \in Stores
    BY GcraAssumption DEF GcraInv, TypeOK, Stores, Tick, UnchangedBuckets
<1>2. \A r \in Stores : Ahead(r, a) \in Nat /\ Ahead(r, a)' = Ahead(r, a)
    BY <1>1, AheadBounds DEF Ahead
<1>3. Allowance(a) \in Nat /\ Allowance(a)' = Allowance(a) + 1
    BY <1>1 DEF Allowance
<1>4. PICK w \in Nat, v \in Nat :
          w = resets * Allowance(a) /\ v = (resets * Allowance(a))' /\ w <= v
    <2>1. resets <= resets /\ Allowance(a) <= Allowance(a) + 1 /\ Allowance(a) + 1 \in Nat
        BY <1>1, <1>3
    <2> QED BY <1>1, <1>3, <2>1, TimesGrows
<1>5. Room(a) = Ahead("redis", a) + Ahead("local", a) + w
      /\ Room(a)' = Ahead("redis", a)' + Ahead("local", a)' + v
    BY <1>4 DEF Room
<1> QED BY <1>1, <1>2, <1>4, <1>5

\* Calls keep the bound: a yes comes with an admission, for the policy "open"
\* alone answers without one.
LEMMA CallKeepsOutage ==
    ASSUME GcraInv, OutageInv, GcraInv', NEW s \in Stores, UNCHANGED <<clock, resets>>,
           \/ Admit(s) /\ Tell
           \/ Admit(s) /\ UNCHANGED allowed
           \/ Refuse(s) /\ UNCHANGED allowed
           \/ UnchangedBuckets /\ UNCHANGED allowed
    PROVE  OutageInv'
<1>0. clock \in Nat /\ resets \in Nat /\ Emission \in Nat /\ clock' = clock /\ resets' = resets
    BY GcraAssumption DEF GcraInv, TypeOK
<1>1. CASE Admit(s) /\ Tell
    BY <1>0, <1>1, AdmitCharges, YesKeeps
<1>2. CASE Admit(s) /\ UNCHANGED allowed
    <2>1. \A a \in Nat : a <= clock => Room(a)' >= Room(a)
        <3> SUFFICES ASSUME NEW a \in Nat, a <= clock PROVE Room(a)' >= Room(a)
            OBVIOUS
        <3>1. Room(a)' >= Room(a) + Emission
            BY <1>0, <1>2, AdmitCharges
        <3>2. Room(a) \in Nat /\ Room(a)' \in Nat
            BY <1>0, BoundedThen, BoundedNext DEF RoomIsBounded
        <3> QED BY <1>0, <3>1, <3>2
    <2> QED BY <1>0, <1>2, <2>1, QuietKeeps
<1>3. CASE (Refuse(s) \/ UnchangedBuckets) /\ UNCHANGED allowed
    <2>1. tat' = tat
        BY <1>3 DEF Refuse, UnchangedBuckets
    <2>2. \A a \in Nat : a <= clock => Room(a)' >= Room(a)
        BY <1>0, <2>1, SameRoom
    <2> QED BY <1>0, <1>3, <2>2, QuietKeeps
<1> QED BY <1>1, <1>2, <1>3

\* The login limiter through an outage (check_limit with fail_to_local, or
\* refusing): callers are told yes at most twice as often as one bucket
\* allows, and once more for each entry lost.
THEOREM OutageHolds == ASSUME Policy # "open" PROVE Spec => []OutageBound
<1>1. Init => OutageInv
    <2> SUFFICES ASSUME Init PROVE OutageInv
        OBVIOUS
    <2>1. DOMAIN allowed = {}
        BY DEF Init
    <2> QED BY <2>1 DEF OutageInv, OutageBound
<1>2. GcraInv /\ GcraInv' /\ OutageInv /\ [Next]_vars => OutageInv'
    <2> SUFFICES ASSUME GcraInv, GcraInv', OutageInv, [Next]_vars PROVE OutageInv'
        OBVIOUS
    <2>0. /\ "redis" \in Stores /\ "local" \in Stores
          /\ clock \in Nat /\ resets \in Nat
        BY DEF Stores, GcraInv, TypeOK
    <2>1. CASE RedisCall
        BY <2>0, <2>1, CallKeepsOutage DEF RedisCall
    <2>2. CASE RedisFails
        BY <2>0, <2>2, CallKeepsOutage DEF RedisFails
    <2>3. CASE FallBack
        BY <2>0, <2>3, CallKeepsOutage DEF FallBack
    <2>4. CASE \E s \in Stores : Forget(s)
        <3>1. PICK s \in Stores : Forget(s)
            BY <2>4
        <3>2. \A a \in Nat : a <= clock => Room(a)' >= Room(a)
            BY <3>1, ForgetPays
        <3>3. allowed' = allowed /\ clock' = clock /\ resets' = resets + 1
            BY <3>1 DEF Forget
        <3> QED BY <2>0, <3>2, <3>3, QuietKeeps
    <2>5. CASE Tick
        <3>1. \A a \in Nat : a <= clock => Room(a)' >= Room(a)
            BY <2>5, TickMakesRoom
        <3>2. allowed' = allowed /\ clock' = clock + 1 /\ resets' = resets
            BY <2>5 DEF Tick
        <3> QED BY <2>0, <3>1, <3>2, QuietKeeps
    <2>6. CASE UNCHANGED vars
        <3>1. UNCHANGED <<tat, clock, resets, allowed>>
            BY <2>6 DEF vars
        <3>2. \A a \in Nat : a <= clock => Room(a)' >= Room(a)
            BY <3>1, SameRoom
        <3> QED BY <2>0, <3>1, <3>2, QuietKeeps
    <2> QED BY <2>1, <2>2, <2>3, <2>4, <2>5, <2>6 DEF Next
<1>3. OutageInv => OutageBound
    BY DEF OutageInv
<1> QED BY <1>1, <1>2, <1>3, GcraHolds, PTL DEF Spec
=============================================================================
