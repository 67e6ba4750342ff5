\* Violation: two reschedules of one booking both leave a replacement.
SPECIFICATION Spec
CONSTANTS
    Vehicle = {v1}
    Slot <- SplitSlots
    Rep = {p1}
    NoRep = NoRep
    BookingId = {b1, b2, b3}
    NoBooking = NoBooking
    Request = {r1, r2}
    NoRequest = NoRequest
    Notice = 1
    Cutoff = 1
    CheckInOpens = 1
    RepCap = 2
    MaxTime = 2
    MaxCalls = 4
    Fault = {}
    MaxFaults = 0
SYMMETRY Symmetry
INVARIANTS
    OneReplacement
\* The calls are bounded: when all are answered the desk is idle.
CHECK_DEADLOCK FALSE
