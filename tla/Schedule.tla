------------------------------- MODULE Schedule -------------------------------
(***************************************************************************)
(* When test drives can be booked: the slots of a day, from opening hours, *)
(* breaks and closures on the dealership's clock; the instants they        *)
(* happen, in a zone that may change its clocks; what of them a customer   *)
(* or staff is offered, and what the server then takes; and the layers of  *)
(* settings that a schedule comes from, with the form that edits one.      *)
(*                                                                         *)
(* These are functions without state: a case of their inputs is drawn, and *)
(* each is compared with what it should compute.  Time is counted in       *)
(* units; a wall-clock reading and an instant are both counted from one    *)
(* origin, date d's midnight being d * DayLength on the wall.              *)
(*                                                                         *)
(* Sources: packages/domain/src/entities/booking-schedule,                 *)
(* packages/types/src/zoned-time, apps/api/src (config/booking-schedule    *)
(* .service, admin/admin-booking-schedule.service), apps/web/src           *)
(* (use-slot-picker, TimeSlotSelect, BookingScheduleCard, ClosuresEditor,  *)
(* DurationField).                                                         *)
(***************************************************************************)
EXTENDS Integers, Sequences, FiniteSets

CONSTANTS
    DayLength,      \* units in a day
    Week,           \* days after which opening hours repeat
    HoursOption,    \* opening hours of a day: [start, end], or closed
    BreaksOption,   \* sets of daily breaks
    ClosuresOption, \* sets of closures: [date, allDay, start, end]
    SlotLength,     \* lengths of a slot
    Notice,         \* minimum notices
    Zone,           \* zones: [before, after, at]
    Now,            \* instants of the request
    Taken,          \* sets of slots the vehicle is booked for
    Field,          \* the fields of a layer, closures apart
    Setting,        \* what a field may be set to
    LayerClosure    \* closures a layer may name

\* Hours, breaks and closures lie within a day; no zone is a day ahead or behind;
\* the origin of time is before any request.
Window == [start : 0..DayLength, end : 0..DayLength]

ASSUME ScheduleAssumption ==
    /\ DayLength \in Nat \ {0} /\ Week \in Nat \ {0}
    /\ HoursOption \subseteq Window /\ BreaksOption \subseteq SUBSET Window
    /\ \A closures \in ClosuresOption :
        /\ IsFiniteSet(closures)
        /\ closures \subseteq [date : Int, allDay : BOOLEAN, start : 0..DayLength, end : 0..DayLength]
    /\ SlotLength \subseteq Nat \ {0} /\ Notice \subseteq Nat
    /\ Zone \subseteq [before : -DayLength..DayLength, after : -DayLength..DayLength, at : Int]
    /\ Now \subseteq {i \in Nat : i >= DayLength}

VARIABLE plan       \* the case under consideration

Least(S) == CHOOSE i \in S : \A j \in S : i <= j

-----------------------------------------------------------------------------
(* Clocks                                                                  *)

OffsetAt(zone, i) == IF i < zone.at THEN zone.before ELSE zone.after
WallAt(zone, i) == i + OffsetAt(zone, i)
DateAt(zone, i) == WallAt(zone, i) \div DayLength

\* resolveWallTime: the offsets a day either side bracket any change.
Readings(zone, wall) ==
    {i \in {wall - OffsetAt(zone, wall - DayLength), wall - OffsetAt(zone, wall + DayLength)} : WallAt(zone, i) = wall}
Happens(zone, wall) == Readings(zone, wall) # {}
Instant(zone, wall) ==
    IF Happens(zone, wall) THEN Least(Readings(zone, wall)) ELSE wall - OffsetAt(zone, wall - DayLength)

-----------------------------------------------------------------------------
(* The slots of a day                                                      *)

Closed == [start |-> 0, end |-> 0]
HoursOn(schedule, date) == schedule.hours[date % Week]
ClosuresOn(schedule, date) == {c \in schedule.closures : c.date = date}

\* Windows meet when each starts before the other ends.
TouchesOrMeets(v, w) == v.start <= w.end /\ w.start <= v.end
Meets(v, w) == v.start < w.end /\ w.start < v.end

\* A part-day closure is that day's extra break.
BreaksOn(schedule, date) == schedule.breaks \cup {[start |-> c.start, end |-> c.end] : c \in ClosuresOn(schedule, date)}

\* slotTimesFor: back to back from opening; one that meets a break starts
\* again when the break ends.
SlotAt(schedule, s) == [start |-> s, end |-> s + schedule.slot]
Clashes(schedule, date, s) == {b \in BreaksOn(schedule, date) : Meets(SlotAt(schedule, s), b)}
SlotsFrom(schedule, date) ==
    LET from[s \in 0..DayLength] ==
            IF s + schedule.slot > HoursOn(schedule, date).end THEN {}
            ELSE IF Clashes(schedule, date, s) # {} THEN from[(CHOOSE b \in Clashes(schedule, date, s) : TRUE).end]
            ELSE {SlotAt(schedule, s)} \cup from[s + schedule.slot]
    IN  from
SlotTimes(schedule, date) ==
    LET open == HoursOn(schedule, date)
    IN  IF open = Closed \/ \E c \in ClosuresOn(schedule, date) : c.allDay THEN {}
        ELSE SlotsFrom(schedule, date)[open.start]

\* slotsOn: a time that a change of clocks skips never happens.
SlotsOn(schedule, zone, date) ==
    {LET start == Instant(zone, date * DayLength + t.start)
     IN  [start |-> start, end |-> start + schedule.slot] :
        t \in {u \in SlotTimes(schedule, date) : Happens(zone, date * DayLength + u.start)}}

-----------------------------------------------------------------------------
(* What is offered, and what is taken                                      *)

BookableFrom(schedule, audience, now) == IF audience = "customer" THEN now + schedule.notice ELSE now

\* vehicleDay; a day's first free slot is what the picker starts on.
Offers(schedule, zone, date, audience, now, taken) ==
    {[slot |-> s, available |-> ~\E b \in taken : Meets(s, b)] :
        s \in {u \in SlotsOn(schedule, zone, date) : u.start >= BookableFrom(schedule, audience, now)}}
FreeSlots(offers) == {o.slot : o \in {p \in offers : p.available}}
Picked(offers, current) ==
    IF current \in FreeSlots(offers) THEN current
    ELSE CHOOSE s \in FreeSlots(offers) : \A u \in FreeSlots(offers) : s.start <= u.start

\* assertBookable
Bookable(schedule, zone, slot, audience, now) ==
    /\ slot \in SlotsOn(schedule, zone, DateAt(zone, slot.start))
    /\ slot.start >= now
    /\ slot.start >= BookableFrom(schedule, audience, now)

\* earliestDate looks a week past the last closure.
None == -1
LastDateShort(schedule, first) == first + Week
LastDate(schedule, first) ==
    LET closed == {c.date : c \in schedule.closures} \cup {first}
    IN  (CHOOSE d \in closed : \A e \in closed : e <= d) + Week
EarliestDate(schedule, zone, from) ==
    LET first == DateAt(zone, from)
        dates == {d \in first..LastDate(schedule, first) : \E s \in SlotsOn(schedule, zone, d) : s.start >= from}
    IN  IF dates = {} THEN None ELSE Least(dates)

-----------------------------------------------------------------------------
(* Layers, and the form that edits one                                     *)

Unset == "unset"
ASSUME UnsetAssumption == Unset \notin Setting
Layer == [field : [Field -> Setting \cup {Unset}], closures : SUBSET LayerClosure]
NoLayer == [field |-> [f \in Field |-> Unset], closures |-> {}]

\* resolveBookingSchedule: the narrowest layer that sets a field decides it;
\* closures add up.
Resolve(own, company, default, holidays) ==
    [field |-> [f \in Field |-> IF own.field[f] # Unset THEN own.field[f]
                                ELSE IF company.field[f] # Unset THEN company.field[f] ELSE default],
     closures |-> own.closures \cup company.closures \cup holidays]

\* The form shows a field's own value or, switched off, the one beneath it.
ToForm(own, beneath) ==
    [on |-> {f \in Field : own.field[f] # Unset},
     shown |-> [f \in Field |-> IF own.field[f] # Unset THEN own.field[f] ELSE beneath.field[f]],
     closures |-> own.closures]
ToLayer(form) ==
    [field |-> [f \in Field |-> IF f \in form.on THEN form.shown[f] ELSE Unset], closures |-> form.closures]
Switched(form, f) == [form EXCEPT !.on = @ \cup {f}]

-----------------------------------------------------------------------------
(* The cases                                                               *)

NoPlan == [kind |-> "none"]

Plans ==
    [kind : {"day"}, hours : [0..Week - 1 -> HoursOption], breaks : BreaksOption, closures : ClosuresOption,
     slot : SlotLength, notice : Notice, zone : Zone, now : Now, audience : {"customer", "staff"}, taken : Taken]

ScheduleInit == plan = NoPlan
DrawDay == plan = NoPlan /\ plan' \in Plans
DrawLayers ==
    /\ plan = NoPlan
    /\ \E own, company \in Layer, holidays \in SUBSET LayerClosure, default \in Setting :
            plan' = [kind |-> "layers", own |-> own, company |-> company, default |-> default, holidays |-> holidays]
ScheduleNext == DrawDay \/ DrawLayers

ScheduleSpec == ScheduleInit /\ [][ScheduleNext]_plan

-----------------------------------------------------------------------------
(* What the functions should compute                                       *)

\* The dates around the request that a case looks at
Today == DateAt(plan.zone, plan.now)
Days == Today - 1..Today + 2

\* A wall-clock time is the first instant that reads so, or, skipped, the one
\* that the clock before the change would call so.
ClocksAgree ==
    \A wall \in (Today - 1) * DayLength..(Today + 2) * DayLength :
        LET readings == {i \in wall - DayLength..wall + DayLength : WallAt(plan.zone, i) = wall}
        IN  Instant(plan.zone, wall) = IF readings # {} THEN Least(readings) ELSE wall - plan.zone.before

\* Slots lie in the opening hours, meet no break, no closure and no other
\* slot, and leave no room for one more.
SlotsFillTheDay ==
    \A d \in Days :
        LET slots == SlotTimes(plan, d)
            open == HoursOn(plan, d)
            shut == \E c \in plan.closures : c.date = d /\ c.allDay
            Fits(w) == open.start <= w.start /\ w.end <= open.end /\ ~shut /\ \A b \in BreaksOn(plan, d) : ~Meets(w, b)
        IN  /\ \A s \in slots : Fits(s) /\ s.end = s.start + plan.slot
            /\ \A s, t \in slots : s # t => ~Meets(s, t)
            /\ \A i \in 0..DayLength - plan.slot :
                LET w == [start |-> i, end |-> i + plan.slot] IN Fits(w) => \E s \in slots : Meets(s, w)

\* A change of clocks makes no two slots overlap, unless it puts them forward
\* in the middle of one.
SlotsStayApart ==
    \A d, e \in Days : \A s \in SlotsOn(plan, plan.zone, d), t \in SlotsOn(plan, plan.zone, e) :
        s # t /\ Meets(s, t) =>
            /\ plan.zone.before < plan.zone.after
            /\ \E x \in {s, t} : x.start < plan.zone.at /\ plan.zone.at < x.end

\* What is offered as free is taken when it is asked for, and the picker
\* holds a free slot whenever there is one.
OfferedIsTaken ==
    \A d \in Days :
        LET offers == Offers(plan, plan.zone, d, plan.audience, plan.now, plan.taken)
        IN  /\ \A s \in FreeSlots(offers) : Bookable(plan, plan.zone, s, plan.audience, plan.now) /\ \A b \in plan.taken : ~Meets(s, b)
            /\ FreeSlots(offers) # {} => Picked(offers, Closed) \in FreeSlots(offers)

\* The earliest date is the first with a slot left, and none is given only
\* when no later date will ever have one, a date of changing clocks apart.
EarliestIsFirst ==
    LET from == BookableFrom(plan, plan.audience, plan.now)
        first == DateAt(plan.zone, from)
        HasSlot(d) == \E s \in SlotsOn(plan, plan.zone, d) : s.start >= from
        found == EarliestDate(plan, plan.zone, from)
        beyond == LastDate(plan, first) + 1..LastDate(plan, first) + Week
    IN  IF found # None THEN HasSlot(found) /\ \A d \in first..found - 1 : ~HasSlot(d)
        ELSE plan.zone.before = plan.zone.after => \A d \in beyond : ~HasSlot(d)

\* A form saved as it was opened saves the layer it was opened on; a section
\* switched on and left alone changes nothing of what the scope uses; and a
\* closure of any layer stays one of the dealership.
EditorKeepsLayers ==
    LET beneath == Resolve(NoLayer, plan.company, plan.default, plan.holidays)
        form == ToForm(plan.own, beneath)
        effective == Resolve(plan.own, plan.company, plan.default, plan.holidays)
    IN  /\ ToLayer(form) = plan.own
        /\ \A f \in Field : Resolve(ToLayer(Switched(form, f)), plan.company, plan.default, plan.holidays) = effective
        /\ plan.own.closures \cup plan.company.closures \cup plan.holidays \subseteq effective.closures

\* The schedule computes what it should: for every opening hours, breaks,
\* closures, notice and change of clocks, the slots fill the day and do not
\* overlap, what is offered is taken, the earliest date is the first, and an
\* edit of one layer changes only what was edited
\* (booking-schedule.service.ts:36 "so availability and booking validation
\* can't drift apart").
ScheduleIsSound ==
    /\ plan.kind = "day" => ClocksAgree /\ SlotsFillTheDay /\ SlotsStayApart /\ OfferedIsTaken /\ EarliestIsFirst
    /\ plan.kind = "layers" => EditorKeepsLayers
=============================================================================
