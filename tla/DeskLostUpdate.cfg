\* Violation: a stale whole-record save revives a cancelled booking.
SPECIFICATION Spec
CONSTANTS
    Vehicle = {v1}
    Slot <- OverlappingSlots
    Rep = {p1}
    NoRep = NoRep
    BookingId = {b1, b2, b3}
    NoBooking = NoBooking
    Request = {r1, r2}
    NoRequest = NoRequest
    Notice = 1
    Cutoff = 1
    CheckInOpens = 1
    RepCap = 2
    MaxTime = 2
    MaxCalls = 5
    Fault = {}
    MaxFaults = 0
SYMMETRY Symmetry
INVARIANTS
    NeverDoubleBooked
\* The calls are bounded: when all are answered the desk is idle.
CHECK_DEADLOCK FALSE
