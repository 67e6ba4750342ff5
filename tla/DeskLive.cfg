\* One save fails or one lock expires: requests end, and leave no twins.
SPECIFICATION FairSpec
CONSTANTS
    Vehicle = {v1}
    Slot <- OverlappingSlots
    Rep = {p1}
    NoRep = NoRep
    BookingId = {b1, b2, b3}
    NoBooking = NoBooking
    Request = {r1, r2}
    NoRequest = NoRequest
    Notice = 1
    Cutoff = 1
    CheckInOpens = 1
    RepCap = 2
    MaxTime = 2
    MaxCalls = 3
    Fault = {"write", "expiry"}
    MaxFaults = 1
INVARIANTS
    NoTwinBookings
PROPERTIES
    EveryCallEnds
\* The calls are bounded: when all are answered the desk is idle.
CHECK_DEADLOCK FALSE
