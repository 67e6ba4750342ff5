----------------------------- MODULE BookingDesk -----------------------------
(***************************************************************************)
(* The booking desk: concurrent API requests that create, cancel, move and *)
(* serve the bookings of a set of vehicles.                                *)
(*                                                                         *)
(* Bookings live in Salesforce (`store`).  A request reads a booking,      *)
(* mutates the entity in memory and writes the WHOLE record back           *)
(* (booking.repository.ts save), with awaits in between, so every read and *)
(* every write is a step of its own and other requests run in between.     *)
(* Creating, moving and promoting check the vehicle's bookings for a       *)
(* conflict and write under the vehicle's exclusive lock; cancelling and   *)
(* all staff operations write without any lock.                            *)
(*                                                                         *)
(* Sources: apps/api/src/bookings/bookings.service.ts,                     *)
(* apps/api/src/bookings/booking-mutation.service.ts,                      *)
(* apps/api/src/admin/admin-bookings.service.ts,                           *)
(* packages/domain/src/services/booking-domain-service.ts,                 *)
(* integrations/salesforce/src/repositories/booking.repository.ts and      *)
(* integrations/postgres/src/repositories/exclusive-lock.ts.               *)
(***************************************************************************)
EXTENDS Booking, FiniteSets

CONSTANTS
    Request,        \* requests the API serves at a time
    NoRequest,      \* the holder of a free lock
    Notice,         \* minNoticeMinutes: how far ahead a customer must book
    Cutoff,         \* cancellationCutoffMinutes, for customers
    CheckInOpens,   \* checkInOpensMinutes
    RepCap,         \* maxDailyBookings of every rep
    MaxTime,        \* bound on the clock
    MaxCalls,       \* bound on the number of API calls
    Fault,          \* kinds of fault that may happen: subset of FaultKind
    MaxFaults       \* bound on the number of faults

FaultKind == {"write",     \* a save is refused by the provider
              "expiry",    \* a lock is held past MAX_HOLD_MS and taken away
              "abandon"}   \* a request dies between two steps

ASSUME DeskAssumption ==
    /\ NoRequest \notin Request
    /\ Notice \in Nat /\ Cutoff \in Nat /\ CheckInOpens \in Nat
    /\ RepCap \in Nat /\ MaxTime \in Nat /\ MaxCalls \in Nat /\ MaxFaults \in Nat
    /\ Fault \subseteq FaultKind

VARIABLES
    store,      \* the Booking__c records, by id
    lock,       \* the holder of each vehicle's advisory lock
    job,        \* what each request is doing
    now,        \* the clock
    calls,      \* how many API calls have been made
    clobbered,  \* history: bookings written by a request that had not seen
                \*   their current record (a lost update)
    overrun,    \* history: bookings written after the writer's lock expired
    faults      \* how many faults have happened

vars == <<store, lock, job, now, calls, clobbered, overrun, faults>>

-----------------------------------------------------------------------------
(* Requests.  A job is at one of these points; the ones in Waiting need    *)
(* the vehicle's lock, the ones in Critical were let in by it.             *)

Waiting  == {"reserve", "move", "promote"}
Critical == {"insert", "moveInsert", "confirm"}
Point    == {"idle", "save", "cancel", "retire", "withdraw"} \cup Waiting \cup Critical

MaybeBooking == BookingRecord \cup {NoBooking}

\* id: the booking being written; seen: its record as this request read it;
\* draft: the entity in memory; moved: the id of a reschedule's replacement;
\* late: the request's lock has expired under it.
Job == [at : Point, id : BookingId \cup {NoBooking}, seen : MaybeBooking,
        draft : MaybeBooking, moved : BookingId \cup {NoBooking}, late : BOOLEAN]

Idle == [at |-> "idle", id |-> NoBooking, seen |-> NoBooking,
         draft |-> NoBooking, moved |-> NoBooking, late |-> FALSE]

\* A follow-up promotion remembers only which vehicle a slot was freed on.
Promotion(b) == [Idle EXCEPT !.at = "promote", !.draft = b]

Existing == {b \in BookingId : store[b] # NoBooking}
Unused   == BookingId \ Existing

-----------------------------------------------------------------------------
(* Queries                                                                 *)

\* findActiveByVehicle
ActiveOf(v) == {b \in Existing : store[b].vehicle = v /\ store[b].status \in Occupying}

\* findWaitlistedForVehicle
WaitlistOf(v) == {b \in Existing : store[b].vehicle = v /\ store[b].status = "Waitlisted"}

\* A conflict check that forgets drives that are under way.
ConfirmedConflict(v, s, ignore) ==
    \E b \in ActiveOf(v) \ {ignore} :
        store[b].status = "Confirmed" /\ Overlaps(store[b].slot, s)

\* BookingConflictChecker.assertNoConflict throws
Conflict(v, s, ignore) ==
    \E b \in ActiveOf(v) \ {ignore} : Overlaps(store[b].slot, s)

\* The position after the last one, off by one; and without the floor of 0,
\* where -1 stands for Math.max() of nothing.
HighestPosition(v) ==
    {p \in {1} \cup {store[b].waitlistPosition : b \in WaitlistOf(v)} :
        \A b \in WaitlistOf(v) : store[b].waitlistPosition <= p}
UnflooredPosition(v) ==
    IF WaitlistOf(v) = {} THEN {-1} ELSE HighestPosition(v)

\* reserveBooking: highest position + 1 of the waitlist, not a count.  A set
\* of one position.
NextPosition(v) ==
    {p \in {1} \cup {store[b].waitlistPosition + 1 : b \in WaitlistOf(v)} :
        \A b \in WaitlistOf(v) : store[b].waitlistPosition < p}

\* findLeastLoadedForBranch over the branch's reps: {NoRep} when all are at their cap
Load(rep) == Cardinality({b \in Existing : store[b].rep = rep /\ store[b].status \in Occupying})
LeastLoaded ==
    LET free == {rep \in Rep : Load(rep) < RepCap}
    IN  IF free = {} THEN {NoRep}
        ELSE {rep \in free : \A other \in free : Load(rep) <= Load(other)}

\* promoteNextFor: whose slot is ahead and clear, and who of them comes first.
\* Anyone: the whole waitlist, clear or not.
Anyone(v) == {w \in WaitlistOf(v) : store[w].slot.start > now}
Eligible(v) ==
    {w \in WaitlistOf(v) : store[w].slot.start > now /\ ~Conflict(v, store[w].slot, w)}

LastInLine(v) ==
    {w \in Eligible(v) : \A x \in Eligible(v) : store[w].waitlistPosition >= store[x].waitlistPosition}
FirstInLine(v) ==
    {w \in Eligible(v) : \A x \in Eligible(v) : store[w].waitlistPosition <= store[x].waitlistPosition}

\* assertBookable and cancellationCutoffMinutes, for either audience
Audience == {"customer", "staff"}
NoticeFor(a) == IF a = "customer" THEN Notice ELSE 0
CutoffFor(a) == IF a = "customer" THEN Cutoff ELSE 0
Bookable(s, a) == s.start >= now + NoticeFor(a)

-----------------------------------------------------------------------------
(* Building blocks of the steps                                            *)

\* pg_advisory_xact_lock: free locks are granted, held ones block.  The
\* "Unlocked" form is the code without runExclusive.
UnlockedCanEnter(v) == TRUE
CanEnter(v) == lock[v] = NoRequest

\* The locks once request r has left its critical section on v, if it still
\* holds it: the transaction has committed, failed or died.
KeepLock(r, v) == lock
Release(r, v) == [lock EXCEPT ![v] = IF lock[v] = r THEN NoRequest ELSE lock[v]]

\* Request r writes record rec over booking b, which it last read as seen.
Write(b, seen, rec) ==
    /\ store' = [store EXCEPT ![b] = rec]
    /\ clobbered' = IF store[b] = seen THEN clobbered ELSE clobbered \cup {b}

\* ... after its lock has expired, or within it.
NoteOverrun(r, b) == overrun' = IF job[r].late THEN overrun \cup {b} ELSE overrun

Become(r, j) == job' = [job EXCEPT ![r] = j]

\* An idle request takes up a call.
Call(r, j) ==
    /\ job[r] = Idle
    /\ calls < MaxCalls
    /\ calls' = calls + 1
    /\ Become(r, j)

\* Request r reads booking b and goes to point `at` with the mutated entity.
Read(r, b, at, draft) ==
    /\ Call(r, [Idle EXCEPT !.at = at, !.id = b, !.seen = store[b], !.draft = draft])
    /\ UNCHANGED <<store, lock, now, clobbered, overrun, faults>>

-----------------------------------------------------------------------------
(* Creating a booking: resolveBookingBranch, then reserveBooking under the *)
(* vehicle's lock.                                                         *)

Create(r, v, s) ==
    /\ Bookable(s, "customer")
    /\ Call(r, [Idle EXCEPT !.at = "reserve", !.draft = Requested(v, s)])
    /\ UNCHANGED <<store, lock, now, clobbered, overrun, faults>>

\* Takes the lock, checks for a conflict and decides: confirmed and given to
\* a rep, or waitlisted, or - joinWaitlistIfUnavailable not set - refused.
Reserve(r) ==
    LET b == job[r].draft
        v == b.vehicle
        Insert(draft) == /\ Become(r, [job[r] EXCEPT !.at = "insert", !.draft = draft])
                         /\ lock' = [lock EXCEPT ![v] = r]
    IN  /\ job[r].at = "reserve"
        /\ CanEnter(v)
        /\ \/ /\ ~Conflict(v, b.slot, NoBooking)
              /\ CanConfirm(b)
              /\ \E rep \in LeastLoaded : Insert(AssignRep(Confirm(b), rep))
           \/ /\ Conflict(v, b.slot, NoBooking)
              /\ CanWaitlist(b)
              /\ \E p \in NextPosition(v) : Insert(Waitlist(b, p))
           \/ /\ Conflict(v, b.slot, NoBooking)
              /\ Become(r, Idle)
              /\ UNCHANGED lock
        /\ UNCHANGED <<store, now, calls, clobbered, overrun, faults>>

\* save() of a booking without an id creates the record.
InsertBooking(r) ==
    LET b == job[r].draft IN
    /\ job[r].at = "insert"
    /\ \E new \in Unused :
          /\ store' = [store EXCEPT ![new] = b]
          /\ NoteOverrun(r, new)
    /\ lock' = Release(r, b.vehicle)
    /\ Become(r, Idle)
    /\ UNCHANGED <<now, calls, clobbered, faults>>

-----------------------------------------------------------------------------
(* Waitlist promotion, the follow-up of a cancel or a reschedule that      *)
(* freed a slot.                                                           *)

\* cancelBooking and rescheduleBooking decide whether to promote from the
\* status they read at the start.
FreesSlot(seen) == seen.status \in Occupying

NoFollowUp(b) == Idle
FollowUp(b) == IF FreesSlot(b) THEN Promotion(b) ELSE Idle

Promote(r) ==
    LET v == job[r].draft.vehicle IN
    /\ job[r].at = "promote"
    /\ CanEnter(v)
    /\ \/ /\ Eligible(v) = {}
          /\ Become(r, Idle)
          /\ UNCHANGED lock
       \/ \E w \in FirstInLine(v) :
          /\ Become(r, [Idle EXCEPT !.at = "confirm", !.id = w, !.seen = store[w],
                                    !.draft = Confirm(store[w])])
          /\ lock' = [lock EXCEPT ![v] = r]
    /\ UNCHANGED <<store, now, calls, clobbered, overrun, faults>>

ConfirmPromotion(r) ==
    LET j == job[r] IN
    /\ j.at = "confirm"
    /\ Write(j.id, j.seen, j.draft)
    /\ NoteOverrun(r, j.id)
    /\ lock' = Release(r, j.draft.vehicle)
    /\ Become(r, Idle)
    /\ UNCHANGED <<now, calls, faults>>

-----------------------------------------------------------------------------
(* Cancelling: cancelBooking, for the customer (cancel) and staff.         *)

CancelBooking(r, b, a) ==
    /\ CanChange(store[b], CutoffFor(a), now)
    /\ Read(r, b, "cancel", Cancel(store[b]))

SaveCancel(r) ==
    LET j == job[r] IN
    /\ j.at = "cancel"
    /\ Write(j.id, j.seen, j.draft)
    /\ Become(r, FollowUp(j.seen))
    /\ UNCHANGED <<lock, now, calls, overrun, faults>>

-----------------------------------------------------------------------------
(* Rescheduling: rescheduleBooking.  The replacement is saved first, under *)
(* the lock; then the original is saved as cancelled, without it.          *)

RescheduleBooking(r, b, s, a) ==
    /\ CanChange(store[b], CutoffFor(a), now)
    /\ Bookable(s, a)
    /\ Read(r, b, "move", Confirm(Replacement(store[b], b, s)))

Move(r) ==
    LET j == job[r]
        v == j.draft.vehicle
    IN  /\ j.at = "move"
        /\ CanEnter(v)
        /\ \/ /\ Conflict(v, j.draft.slot, j.id)
              /\ Become(r, Idle)
              /\ UNCHANGED lock
           \/ /\ ~Conflict(v, j.draft.slot, j.id)
              /\ Become(r, [j EXCEPT !.at = "moveInsert"])
              /\ lock' = [lock EXCEPT ![v] = r]
        /\ UNCHANGED <<store, now, calls, clobbered, overrun, faults>>

\* When the lock has expired the transaction cannot commit: runExclusive
\* rejects, although the replacement is saved.
InsertReplacement(r) ==
    LET j == job[r]
        v == j.draft.vehicle
    IN  /\ j.at = "moveInsert"
        /\ \E new \in Unused :
              /\ store' = [store EXCEPT ![new] = j.draft]
              /\ NoteOverrun(r, new)
              /\ Become(r, IF j.late THEN Idle ELSE [j EXCEPT !.at = "retire", !.moved = new])
        /\ lock' = Release(r, v)
        /\ UNCHANGED <<now, calls, clobbered, faults>>

Original(b) == Cancel(b)

RetireOriginal(r) ==
    LET j == job[r] IN
    /\ j.at = "retire"
    /\ Write(j.id, j.seen, Original(j.seen))
    /\ Become(r, FollowUp(j.seen))
    /\ UNCHANGED <<lock, now, calls, overrun, faults>>

\* The original could not be saved: withdraw the replacement, if cancel()
\* does not throw because its slot has begun.
Withdraw(r) ==
    LET j == job[r] IN
    /\ j.at = "withdraw"
    /\ IF CanChange(j.draft, 0, now)
         THEN Write(j.moved, j.draft, Cancel(j.draft))
         ELSE UNCHANGED <<store, clobbered>>
    /\ Become(r, Idle)
    /\ UNCHANGED <<lock, now, calls, overrun, faults>>

-----------------------------------------------------------------------------
(* Staff operations: read, mutate, save the whole record.                  *)

\* assignSalesRep and handoff
ReassignRep(r, b) == \E rep \in Rep : Read(r, b, "save", AssignRep(store[b], rep))

SetNotes(r, b) == Read(r, b, "save", store[b])

CheckInBooking(r, b) ==
    CanCheckIn(store[b], CheckInOpens, now) /\ Read(r, b, "save", CheckIn(store[b]))

\* Whether the compliance record is complete is an input here.
StartDrive(r, b)    == CanStart(store[b]) /\ Read(r, b, "save", Start(store[b]))
CompleteDrive(r, b) == CanComplete(store[b]) /\ Read(r, b, "save", Complete(store[b]))
RecordNoShow(r, b)  == CanMarkNoShow(store[b]) /\ Read(r, b, "save", MarkNoShow(store[b]))

SaveBooking(r) ==
    LET j == job[r] IN
    /\ j.at = "save"
    /\ Write(j.id, j.seen, j.draft)
    /\ Become(r, Idle)
    /\ UNCHANGED <<lock, now, calls, overrun, faults>>

-----------------------------------------------------------------------------
(* The environment: time and faults                                        *)

Tick ==
    /\ now < MaxTime
    /\ now' = now + 1
    /\ UNCHANGED <<store, lock, job, calls, clobbered, overrun, faults>>

Strike(kind) ==
    /\ kind \in Fault
    /\ faults < MaxFaults
    /\ faults' = faults + 1

\* The vehicle whose lock request r may hold.
Releasing(r) == IF job[r].at \in Critical THEN Release(r, job[r].draft.vehicle) ELSE lock

\* A save that the provider refuses ends the request, except that a
\* reschedule whose original cannot be saved goes on to withdraw.
NoWithdrawal(j) == Idle
OnSaveFailure(j) == IF j.at = "retire" THEN [j EXCEPT !.at = "withdraw"] ELSE Idle

SaveFails(r) ==
    /\ Strike("write")
    /\ job[r].at \in {"save", "cancel", "retire", "withdraw"} \cup Critical
    /\ Become(r, OnSaveFailure(job[r]))
    /\ lock' = Releasing(r)
    /\ UNCHANGED <<store, now, calls, clobbered, overrun>>

\* Prisma aborts the transaction: the lock is free, the holder runs on.
LockExpires(v) ==
    /\ Strike("expiry")
    /\ lock[v] # NoRequest
    /\ lock' = [lock EXCEPT ![v] = NoRequest]
    /\ job' = [job EXCEPT ![lock[v]].late = TRUE]
    /\ UNCHANGED <<store, now, calls, clobbered, overrun>>

\* The process is killed, the wait for the lock times out, or the audit
\* entry after a cancel cannot be appended: the rest is never done.
Abandon(r) ==
    /\ Strike("abandon")
    /\ job[r].at # "idle"
    /\ Become(r, Idle)
    /\ lock' = Releasing(r)
    /\ UNCHANGED <<store, now, calls, clobbered, overrun>>

-----------------------------------------------------------------------------

Init ==
    /\ store = [b \in BookingId |-> NoBooking]
    /\ lock = [v \in Vehicle |-> NoRequest]
    /\ job = [r \in Request |-> Idle]
    /\ now = 0
    /\ calls = 0
    /\ clobbered = {}
    /\ overrun = {}
    /\ faults = 0

CustomerCall(r) ==
    \/ \E v \in Vehicle, s \in Slot : Create(r, v, s)
    \/ \E b \in Existing, a \in Audience : CancelBooking(r, b, a)
    \/ \E b \in Existing, s \in Slot, a \in Audience : RescheduleBooking(r, b, s, a)

StaffCall(r) ==
    \E b \in Existing :
        \/ ReassignRep(r, b)
        \/ SetNotes(r, b)
        \/ CheckInBooking(r, b)
        \/ StartDrive(r, b)
        \/ CompleteDrive(r, b)
        \/ RecordNoShow(r, b)

\* The next step of a request that is being served.
Proceed(r) ==
    \/ Reserve(r) \/ InsertBooking(r)
    \/ Promote(r) \/ ConfirmPromotion(r)
    \/ SaveCancel(r)
    \/ Move(r) \/ InsertReplacement(r) \/ RetireOriginal(r) \/ Withdraw(r)
    \/ SaveBooking(r)

Next ==
    \/ \E r \in Request :
          \/ CustomerCall(r) \/ StaffCall(r) \/ Proceed(r)
          \/ SaveFails(r) \/ Abandon(r)
    \/ \E v \in Vehicle : LockExpires(v)
    \/ Tick

Spec == Init /\ [][Next]_vars

\* A request that is being served goes on (Proceed); the lock queue of
\* Postgres is first come, first served, so a request that can get the lock
\* again and again does get it.  Nobody has to call, and time and faults
\* need not happen.
Fairness ==
    \A r \in Request : WF_vars(Proceed(r)) /\ SF_vars(Reserve(r) \/ Move(r) \/ Promote(r))

FairSpec == Spec /\ Fairness

-----------------------------------------------------------------------------
(* Properties                                                              *)

\* Every variable has its type; a job carries what its point needs.
TypeOK ==
    /\ store \in [BookingId -> MaybeBooking]
    /\ lock \in [Vehicle -> Request \cup {NoRequest}]
    /\ job \in [Request -> Job]
    /\ now \in 0..MaxTime
    /\ calls \in 0..MaxCalls
    /\ clobbered \subseteq BookingId
    /\ overrun \subseteq BookingId
    /\ faults \in 0..MaxFaults

Holds(b) == store[b] # NoBooking /\ store[b].status \in Occupying

Collide(a, b) ==
    /\ a # b
    /\ Holds(a) /\ Holds(b)
    /\ store[a].vehicle = store[b].vehicle
    /\ Overlaps(store[a].slot, store[b].slot)

\* A booking and the replacement a reschedule made for it.
Related(a, b) == store[a].rescheduledFrom = b \/ store[b].rescheduledFrom = a

Quiet == \A r \in Request : job[r] = Idle

Tainted == clobbered \cup overrun

\* The conflict check and the lock do their work: two bookings that occupy
\* one vehicle at one time are a booking and its own replacement (the check
\* ignores the booking being moved), or one of them was written by a request
\* that had lost sight of the record or lost its lock.  Nothing else - no
\* order of creates, moves, promotions, cancels and staff operations, no
\* failing save and no crash - double-books (bookings.service.ts:264).
NoDoubleBooking ==
    \A a, b \in BookingId :
        Collide(a, b) => Related(a, b) \/ a \in Tainted \/ b \in Tainted

\* The same without the exception for lost updates.  The code breaks it: a
\* staff save of a record read before a cancel revives the booking after its
\* slot was given to somebody else (docs/05-domain-model.md:53).
NeverDoubleBooked ==
    \A a, b \in BookingId : Collide(a, b) => Related(a, b)

\* A customer is never left holding a booking and its replacement
\* (booking-mutation.service.ts:122): when both are active, the reschedule is
\* still at work, or a lost update or an expired lock touched one of them, or
\* the replacement's slot began before it could be withdrawn.  One failing
\* save does not change that; a request that dies half-way does.
NoTwinBookings ==
    \A a, b \in Existing :
        store[b].rescheduledFrom = a /\ Holds(a) /\ Holds(b) =>
            \/ \E r \in Request : job[r].at \in {"retire", "withdraw"} /\ job[r].moved = b
            \/ a \in Tainted \/ b \in Tainted
            \/ store[b].slot.start < now

\* Two replacements of one booking are never both left active.  The code breaks
\* it: two reschedules that both read the booking before either saved.
OneReplacement ==
    Quiet => \A a, b \in Existing :
        a # b /\ Holds(a) /\ Holds(b) /\ store[a].rescheduledFrom # NoBooking =>
            store[a].rescheduledFrom # store[b].rescheduledFrom

\* No two bookings wait for a vehicle at one position (bookings.service.ts:321),
\* lost updates and expired locks apart.
DistinctPositions ==
    \A v \in Vehicle : \A a, b \in WaitlistOf(v) \ Tainted :
        a # b => store[a].waitlistPosition # store[b].waitlistPosition

\* Nobody is promoted past a booking that waits for the same slot at an
\* earlier position (docs/05-domain-model.md:55), lost updates apart.
NoOvertaking ==
    [][\A v \in Vehicle : \A w, x \in WaitlistOf(v) \ Tainted' :
          /\ store'[w].status = "Confirmed"
          /\ store[x].slot = store[w].slot
          /\ store[x].waitlistPosition < store[w].waitlistPosition
          => store'[x].status # "Waitlisted"]_vars

\* When nothing is in progress, nobody waits for a slot that is ahead and
\* clear: whoever freed it promoted them (booking-mutation.service.ts:68) -
\* unless something failed, or a drive of that vehicle completed or its customer
\* did not show up, after which the code promotes nobody: whoever waits for
\* that slot may then be promoted in the place of those who wait for another.
FreedSlotIsOffered ==
    Quiet /\ faults = 0 /\ clobbered = {} =>
        \A v \in Vehicle : Eligible(v) # {} =>
            \E b \in Existing : store[b].vehicle = v /\ store[b].status \in {"Completed", "NoShow"}

\* Every request comes to an end: no lock is left behind by a refusal, a
\* failure or an expiry, and no request waits forever.
EveryCallEnds == \A r \in Request : job[r].at # "idle" ~> job[r].at = "idle"

-----------------------------------------------------------------------------
(* The inductive invariant behind NoDoubleBooking                          *)

\* A job carries what its point needs, and a plain save changes neither the
\* slot nor the vehicle and never makes a booking occupy its slot.
JobOK(r) ==
    LET j == job[r] IN
    /\ j.at # "idle" => j.draft \in BookingRecord
    /\ j.at \in {"save", "cancel", "move", "moveInsert", "retire", "withdraw", "confirm"} =>
          j.id \in BookingId /\ j.seen \in BookingRecord
    /\ j.at = "save" =>
          /\ j.draft.vehicle = j.seen.vehicle
          /\ j.draft.slot = j.seen.slot
          /\ j.draft.rescheduledFrom = j.seen.rescheduledFrom
          /\ j.draft.status \in Occupying => j.seen.status \in Occupying
    /\ j.at = "cancel" => j.draft.status = "Cancelled"
    /\ j.at \in {"move", "moveInsert"} => j.draft.rescheduledFrom = j.id
    /\ j.at \in {"retire", "withdraw"} => j.moved \in BookingId
    /\ j.at \in {"reserve", "insert"} => j.id = NoBooking

\* A request in its critical section holds the vehicle's lock until it expires.
InLock(r) == job[r].at \in Critical /\ ~job[r].late
LockOK(r) == InLock(r) => lock[job[r].draft.vehicle] = r

\* What the conflict check saw is still true when the write comes: nothing
\* stands in the way of the booking about to occupy its slot.
StillClear(r) ==
    InLock(r) /\ job[r].draft.status \in Occupying =>
        \A a \in BookingId \ {job[r].id} :
            /\ Holds(a)
            /\ store[a].vehicle = job[r].draft.vehicle
            /\ Overlaps(store[a].slot, job[r].draft.slot)
            => a \in Tainted

\* Holds in every reachable state and is kept by every step.
IInv ==
    /\ TypeOK
    /\ \A r \in Request : JobOK(r) /\ LockOK(r) /\ StillClear(r)
    /\ NoDoubleBooking
=============================================================================
