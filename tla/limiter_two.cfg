\* is_allowed called from the event loops of both ports.
SPECIFICATION Spec
CONSTANTS
    loop25 = loop25
    loop587 = loop587
    Loops <- TwoLoops
    NoBucket = NoBucket
    MaxCount = 2
    Window = 2
    Horizon = 3
    MaxCalls = 3
INVARIANT CapHolds
CHECK_DEADLOCK FALSE
