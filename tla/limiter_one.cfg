\* is_allowed called from one event loop.
SPECIFICATION Spec
CONSTANTS
    loop25 = loop25
    loop587 = loop587
    Loops <- OneLoop
    NoBucket = NoBucket
    MaxCount = 2
    Window = 2
    Horizon = 7
    MaxCalls = 7
INVARIANT CapHolds
PROPERTIES
    RefusesOnlyAtCap
    ImplementsWindow
CHECK_DEADLOCK FALSE
