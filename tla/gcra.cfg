\* The login limiter: Redis, the local bucket, lost replies, lost entries.
SPECIFICATION Spec
CONSTANTS
    Emission = 2
    Burst = 4
    Ttl = 4
    Policy = "local"
    MaxClock = 6
    MaxCalls = 5
    MaxLost = 2
    MaxResets = 1
INVARIANTS
    GcraInv
    OutageBound
    RetryHonest
CHECK_DEADLOCK FALSE
