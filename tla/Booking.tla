------------------------------- MODULE Booking -------------------------------
(***************************************************************************)
(* The Booking entity: the test-drive record, its status lifecycle and the *)
(* guards of every transition (packages/domain/src/entities/booking.ts).   *)
(*                                                                         *)
(* A transition X is two operators: CanX, the conditions under which the   *)
(* method does not throw, and X, the entity it leaves behind.  Names,      *)
(* notes, addresses and odometer readings are abstracted away; time is in  *)
(* abstract units, and a slot is the half-open interval [start, end).      *)
(***************************************************************************)
EXTENDS Integers

CONSTANTS
    Vehicle,      \* vehicles that can be test-driven
    Slot,         \* the slots the dealership's schedule offers
    Rep,          \* sales representatives
    NoRep,        \* a booking nobody is assigned to
    BookingId,    \* ids the provider can assign
    NoBooking     \* the id of a record that does not exist

ASSUME SlotAssumption == Slot \subseteq [start : Int, end : Int]
ASSUME NullAssumption == NoRep \notin Rep /\ NoBooking \notin BookingId

Status == {"Requested", "Confirmed", "Waitlisted", "InProgress",
           "Completed", "Cancelled", "NoShow"}

\* Statuses that occupy the vehicle's slot.
Occupying == {"Requested", "Confirmed", "InProgress"}

\* Statuses in which a booking can no longer be cancelled or moved.
Inactive == {"Completed", "Cancelled", "NoShow", "InProgress"}

\* waitlistPosition is 0 when the source's field is undefined.
BookingRecord ==
    [vehicle : Vehicle, slot : Slot, status : Status, rep : Rep \cup {NoRep},
     checkedIn : BOOLEAN, waitlistPosition : Nat,
     rescheduledFrom : BookingId \cup {NoBooking}]

ASSUME NoRecordAssumption == NoBooking \notin BookingRecord

Overlaps(s, t) == s.start < t.end /\ t.start < s.end

-----------------------------------------------------------------------------

\* Booking.request: a new booking, before any repository has seen it.
Requested(v, s) ==
    [vehicle |-> v, slot |-> s, status |-> "Requested", rep |-> NoRep,
     checkedIn |-> FALSE, waitlistPosition |-> 0, rescheduledFrom |-> NoBooking]

\* confirm() also takes the booking off the waitlist.
CanConfirm(b) == b.status \in {"Requested", "Waitlisted"}
Confirm(b) == [b EXCEPT !.status = "Confirmed", !.waitlistPosition = 0]

CanWaitlist(b) == b.status = "Requested"
Waitlist(b, position) ==
    [b EXCEPT !.status = "Waitlisted", !.waitlistPosition = position]

\* assignRep() has no guard: any booking, even a cancelled one, can change hands.
AssignRep(b, rep) == [b EXCEPT !.rep = rep]

\* assertActive and assertWithinCancellationWindow, which cancel and
\* reschedule both start with.
CanChange(b, cutoff, asOf) ==
    /\ b.status \notin Inactive
    /\ b.slot.start - asOf >= cutoff

Cancel(b) == [b EXCEPT !.status = "Cancelled"]

\* The booking that reschedule() returns for booking b with the id `from`;
\* b itself becomes Cancel(b).  The rep is carried over, the check-in is not.
Replacement(b, from, newSlot) ==
    [b EXCEPT !.slot = newSlot, !.status = "Requested", !.checkedIn = FALSE,
              !.waitlistPosition = 0, !.rescheduledFrom = from]

CanCheckIn(b, opens, asOf) ==
    /\ b.status = "Confirmed"
    /\ ~b.checkedIn
    /\ b.slot.start - opens <= asOf
    /\ asOf < b.slot.end
CheckIn(b) == [b EXCEPT !.checkedIn = TRUE]

CanStart(b) == b.status = "Confirmed" /\ b.checkedIn
Start(b) == [b EXCEPT !.status = "InProgress"]

CanComplete(b) == b.status = "InProgress"
Complete(b) == [b EXCEPT !.status = "Completed"]

CanMarkNoShow(b) == b.status = "Confirmed" /\ ~b.checkedIn
MarkNoShow(b) == [b EXCEPT !.status = "NoShow"]
=============================================================================
