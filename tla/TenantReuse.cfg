\* Violation: a late invalidation replaces a session that works.
SPECIFICATION Spec
CONSTANTS
    i1 = i1
    i2 = i2
    r1 = r1
    r2 = r2
    r3 = r3
    Instance = {i1, i2}
    Request = {r1, r2, r3}
    Home <- Homes
    NoInstance = NoInstance
    Rotates = TRUE
    MaxRetries = 1
    MaxLooks = 1
    MaxCalls = 4
    Event = {"session"}
    MaxEvents = 1
PROPERTIES
    NewerSessionIsReused
\* The calls are bounded: when all are answered nothing is left to do.
CHECK_DEADLOCK FALSE
