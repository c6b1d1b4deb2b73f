-------------------------------- MODULE Gcra ---------------------------------
(***************************************************************************)
(* One bucket of the API rate limiter, security/rate_limit.py: the GCRA    *)
(* script that Redis runs atomically (_GCRA_LUA), the same algorithm in    *)
(* the backend process under a lock (_local_check), and check_limit, which *)
(* asks Redis first and treats a call that fails by Policy: let it through *)
(* (customers' reads and writes), ask the local bucket (logins by IP), or  *)
(* refuse it (fail_open=False, which no caller asks for).                  *)
(*                                                                         *)
(* A call may fail before Redis ran the script or after it, its reply      *)
(* lost.  Redis keeps nothing on disk, evicts keys under memory pressure   *)
(* and expires idle ones; the local table is lost with the process.        *)
(* The clock counts in the unit of Emission and Burst (ms in the script).  *)
(***************************************************************************)
EXTENDS Integers, Sequences

CONSTANTS
    Emission,   \* LimitConfig.emission_ms: the interval of the steady rate
    Burst,      \* LimitConfig.burst_ms: the tolerance
    Ttl,        \* _KEY_TTL_SECONDS: when Redis expires a key nobody wrote
    Policy,     \* what check_limit does when Redis does not answer
    MaxClock, MaxCalls, MaxLost, MaxResets  \* bounds of the model

\* _burst_ratio is at most 5, so a burst is at most five minutes, which is Ttl.
ASSUME GcraAssumption ==
    /\ Emission \in Nat /\ Burst \in Nat
    /\ Ttl \in Nat /\ Burst <= Ttl
    /\ Policy \in {"open", "local", "closed"}
    /\ MaxClock \in Nat /\ MaxCalls \in Nat /\ MaxLost \in Nat /\ MaxResets \in Nat

Stores == {"redis", "local"}

VARIABLES
    clock,
    tat,      \* tat[s]: the theoretical arrival time s holds, 0 for no entry
    expires,  \* when Redis drops its key
    log,      \* log[s]: when s admitted a call, since s last lost its entry
    retry,    \* retry[s]: the allow_at s last named, 0 if it admitted a call since
    lost,     \* calls whose round trip to Redis failed, not yet answered
    allowed,  \* when a caller was told that its call may go on
    resets    \* how often an entry was lost

vars == <<clock, tat, expires, log, retry, lost, allowed, resets>>

Init ==
    /\ clock = 1 /\ expires = 0 /\ lost = 0 /\ resets = 0
    /\ tat = [s \in Stores |-> 0]
    /\ log = [s \in Stores |-> <<>>]
    /\ retry = [s \in Stores |-> 0]
    /\ allowed = <<>>
-----------------------------------------------------------------------------
\* The entry a lookup finds.
Held(s) == IF s = "redis" /\ clock >= expires THEN 0 ELSE tat[s]

\* max(stored_tat or now, now)
BaseMutant(s) == IF Held(s) = 0 THEN clock ELSE Held(s)
Base(s) == IF Held(s) < clock THEN clock ELSE Held(s)

AllowAt(s) == Base(s) + Emission - Burst

\* The bucket admits the call: it stores the new arrival time.
Admit(s) ==
    /\ clock >= AllowAt(s)
    /\ tat' = [tat EXCEPT ![s] = Base(s) + Emission]
    /\ expires' = IF s = "redis" THEN clock + Ttl ELSE expires
    /\ log' = [log EXCEPT ![s] = Append(@, clock)]
    /\ retry' = [retry EXCEPT ![s] = 0]

\* A refusal that is charged as well.
RefuseMutant(s) ==
    /\ clock < AllowAt(s)
    /\ retry' = [retry EXCEPT ![s] = AllowAt(s)]
    /\ tat' = [tat EXCEPT ![s] = Base(s) + Emission]
    /\ UNCHANGED <<expires, log>>

\* The bucket refuses the call: nothing is stored, the caller may return at AllowAt.
Refuse(s) ==
    /\ clock < AllowAt(s)
    /\ retry' = [retry EXCEPT ![s] = AllowAt(s)]
    /\ UNCHANGED <<tat, expires, log>>

UnchangedBuckets == UNCHANGED <<tat, expires, log, retry>>

Tell == allowed' = Append(allowed, clock)

\* A call that Redis answers.
RedisCall ==
    /\ Len(allowed) < MaxCalls
    /\ \/ Admit("redis") /\ Tell
       \/ Refuse("redis") /\ UNCHANGED allowed
    /\ UNCHANGED <<clock, lost, resets>>

\* A call whose round trip fails, after the script ran or before.
RedisFails ==
    /\ lost < MaxLost /\ Len(allowed) < MaxCalls
    /\ lost' = lost + 1
    /\ Admit("redis") \/ Refuse("redis") \/ UnchangedBuckets
    /\ UNCHANGED <<clock, allowed, resets>>

\* The except branch that lets every call through.
FallBackMutant ==
    /\ lost > 0 /\ Len(allowed) < MaxCalls
    /\ lost' = lost - 1
    /\ Tell /\ UnchangedBuckets
    /\ UNCHANGED <<clock, resets>>

\* check_limit's answer to a call that Redis did not answer.
FallBack ==
    /\ lost > 0 /\ Len(allowed) < MaxCalls
    /\ lost' = lost - 1
    /\ \/ Policy = "local" /\ Admit("local") /\ Tell
       \/ Policy = "local" /\ Refuse("local") /\ UNCHANGED allowed
       \/ Policy = "open" /\ Tell /\ UnchangedBuckets
       \/ Policy = "closed" /\ UNCHANGED allowed /\ UnchangedBuckets
    /\ UNCHANGED <<clock, resets>>

\* An entry is lost: Redis restarts or evicts the key, the backend restarts or
\* its LRU bound drops the key.
Forget(s) ==
    /\ resets < MaxResets
    /\ resets' = resets + 1
    /\ tat' = [tat EXCEPT ![s] = 0]
    /\ log' = [log EXCEPT ![s] = <<>>]
    /\ UNCHANGED <<clock, expires, retry, lost, allowed>>

Tick ==
    /\ clock < MaxClock
    /\ clock' = clock + 1
    /\ UnchangedBuckets
    /\ UNCHANGED <<lost, allowed, resets>>

Next == RedisCall \/ RedisFails \/ FallBack \/ (\E s \in Stores : Forget(s)) \/ Tick

Spec == Init /\ [][Next]_vars
-----------------------------------------------------------------------------
TypeOK ==
    /\ clock \in Nat /\ expires \in Nat /\ lost \in Nat /\ resets \in Nat
    /\ tat \in [Stores -> Nat]
    /\ log \in [Stores -> Seq(Nat)]
    /\ retry \in [Stores -> Int]
    /\ allowed \in Seq(Nat)

\* What the bucket promises: of the calls it admitted, those from the i-th to
\* the j-th fit in the time between them and one burst, whatever was refused,
\* expired or left idle in between.
BucketCap ==
    \A s \in Stores : \A i, j \in DOMAIN log[s] :
        i <= j => (j - i + 1) * Emission <= log[s][j] - log[s][i] + Burst

\* The login limiter through an outage: however calls are split between Redis
\* and the local bucket, and however replies are lost, callers are told yes at
\* most twice as often as one bucket allows, and once more for each entry lost
\* ("a tight bound beats unlimited").
OutageBound ==
    \A i, j \in DOMAIN allowed :
        i <= j => (j - i + 1) * Emission
                    <= (2 + resets) * (allowed[j] - allowed[i] + Burst)

\* A caller that returns at the time its refusal named is admitted ("earliest
\* the request is allowed"), if the bucket admitted nobody else in between,
\* however often it was asked meanwhile.
RetryHonest ==
    \A s \in Stores : retry[s] # 0 /\ clock >= retry[s] => clock >= AllowAt(s)

\* The inductive form of BucketCap: each admitted call, and every one after
\* it, has been charged to the entry; an entry is never further ahead of its
\* last admission than one burst; and Redis keeps it no shorter than that.
Charged(s) ==
    \A i \in DOMAIN log[s] :
        tat[s] >= log[s][i] + (Len(log[s]) - i + 1) * Emission
BoundedEntry(s) ==
    IF log[s] = <<>> THEN tat[s] = 0
    ELSE LET at == log[s][Len(log[s])]
         IN  /\ tat[s] <= at + Burst
             /\ s = "redis" => expires = at + Ttl
             /\ at <= clock

\* A refusal named a time at which the entry it found no longer refuses.
RetryBound == \A s \in Stores : retry[s] # 0 => retry[s] >= tat[s] + Emission - Burst

GcraInv == /\ TypeOK
           /\ BucketCap
           /\ \A s \in Stores : Charged(s) /\ BoundedEntry(s)
           /\ RetryBound
=============================================================================
