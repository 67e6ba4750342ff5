\* Two calls and two events of any kind, with fairness.
SPECIFICATION FairSpec
CONSTANTS
    i1 = i1
    i2 = i2
    r1 = r1
    r2 = r2
    r3 = r3
    Instance = {i1, i2}
    Request = {r1, r2, r3}
    Home <- Homes
    NoInstance = NoInstance
    Rotates = TRUE
    MaxRetries = 1
    MaxLooks = 1
    MaxCalls = 2
    Event = {"age", "session", "revoke", "reset", "authorize", "handshake", "error", "lost", "expiry", "crash"}
    MaxEvents = 2
INVARIANTS
    IInv
    StoredTokenWorks
    DisconnectedIsClean
PROPERTIES
    EveryRequestEnds
    OnlyDeadTokensAreRejected
    NoHastyRejection
\* The calls are bounded: when all are answered nothing is left to do.
CHECK_DEADLOCK FALSE
