---------------------------- MODULE MCBookingDesk ----------------------------
(* Model-checking instances of BookingDesk.                                *)
EXTENDS BookingDesk, TLC

\* Two slots that overlap by one unit, as after a change of the schedule.
OverlappingSlots == {[start |-> 1, end |-> 3], [start |-> 2, end |-> 4]}

\* Two consecutive slots of a schedule, and the slot that spanned both
\* before the schedule changed.
SplitSlots == {[start |-> 1, end |-> 2], [start |-> 2, end |-> 3], [start |-> 1, end |-> 3]}

Symmetry == Permutations(BookingId) \cup Permutations(Request)
=============================================================================
