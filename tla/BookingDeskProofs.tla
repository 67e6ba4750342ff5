-------------------------- MODULE BookingDeskProofs --------------------------
(***************************************************************************)
(* The booking desk never double-books a vehicle, for any number of        *)
(* vehicles, slots, bookings and requests and any number of faults, except *)
(* through a lost update or an expired lock.                               *)
(*                                                                         *)
(* The inductive invariant IInv adds to NoDoubleBooking what each request  *)
(* in flight still knows: the shape of its draft (JobOK), that it holds    *)
(* its vehicle's lock (LockOK) and that what its conflict check saw is     *)
(* still true (StillClear).                                                *)
(***************************************************************************)
EXTENDS BookingDesk, TLAPS

\* Overlapping is symmetric, which makes a collision a matter of two bookings
\* and not of their order.
LEMMA CollideSymmetric ==
    ASSUME NEW a \in BookingId, NEW b \in BookingId, Collide(a, b)
    PROVE  Collide(b, a)
  BY DEF Collide, Overlaps, Holds

\* The entity's methods return booking records (booking.ts).
LEMMA EntityTypes ==
    ASSUME NEW b \in BookingRecord, NEW id \in BookingId, NEW s \in Slot,
           NEW rep \in Rep \cup {NoRep}, NEW p \in Nat
    PROVE  /\ Confirm(b) \in BookingRecord
           /\ Waitlist(b, p) \in BookingRecord
           /\ AssignRep(b, rep) \in BookingRecord
           /\ Cancel(b) \in BookingRecord
           /\ Replacement(b, id, s) \in BookingRecord
           /\ CheckIn(b) \in BookingRecord
           /\ Start(b) \in BookingRecord
           /\ Complete(b) \in BookingRecord
           /\ MarkNoShow(b) \in BookingRecord
  BY DEF Confirm, Waitlist, AssignRep, Cancel, Replacement, CheckIn, Start,
         Complete, MarkNoShow, BookingRecord, Status

\* A new booking is a booking record.
LEMMA RequestedType ==
    ASSUME NEW v \in Vehicle, NEW s \in Slot
    PROVE  Requested(v, s) \in BookingRecord
  BY DEF Requested, BookingRecord, Status

\* A fresh desk satisfies the invariant.
LEMMA InitIInv == Init => IInv
  <1> SUFFICES ASSUME Init PROVE IInv
      OBVIOUS
  <1>1. TypeOK
      BY DeskAssumption DEF Init, TypeOK, MaybeBooking, Job, Idle, Point
  <1>2. \A r \in Request : JobOK(r) /\ LockOK(r) /\ StillClear(r)
      BY DEF Init, JobOK, LockOK, StillClear, InLock, Idle, Critical
  <1>3. NoDoubleBooking
      BY DEF Init, NoDoubleBooking, Collide, Holds
  <1>4. QED
      BY <1>1, <1>2, <1>3 DEF IInv

-----------------------------------------------------------------------------
(* What every step of a request shares                                     *)

\* A step that lets no booking occupy a slot it did not occupy before,
\* except bookings that the step marks as tainted.
Harmless ==
    /\ Tainted \subseteq Tainted'
    /\ \A a \in BookingId :
          Holds(a)' => \/ a \in Tainted'
                      \/ /\ Holds(a)
                         /\ store'[a].vehicle = store[a].vehicle
                         /\ store'[a].slot = store[a].slot
                         /\ store'[a].rescheduledFrom = store[a].rescheduledFrom

\* Become replaces one request's job and no other's.
LEMMA BecomeEffect ==
    ASSUME TypeOK, NEW r \in Request, NEW j, Become(r, j)
    PROVE  /\ job'[r] = j
           /\ \A q \in Request \ {r} : job'[q] = job[q]
           /\ j \in Job => job' \in [Request -> Job]
  BY DEF TypeOK, Become

\* A harmless step creates no collision.
LEMMA HarmlessNoDouble ==
    ASSUME NoDoubleBooking, Harmless
    PROVE  NoDoubleBooking'
  BY DEF NoDoubleBooking, Harmless, Collide, Related, Tainted

\* A request that does not move keeps what it knows through a harmless step
\* that leaves it its locks.
LEMMA OthersKeep ==
    ASSUME Harmless, NEW q \in Request, JobOK(q), LockOK(q), StillClear(q),
           job'[q] = job[q],
           \A v \in Vehicle : lock[v] = q => lock'[v] = q
    PROVE  JobOK(q)' /\ LockOK(q)' /\ StillClear(q)'
  <1>1. JobOK(q)'
      BY DEF JobOK
  <1>2. InLock(q)' <=> InLock(q)
      BY DEF InLock
  <1>3. LockOK(q)'
      <2> SUFFICES ASSUME InLock(q) PROVE lock'[job[q].draft.vehicle] = q
          BY <1>2 DEF LockOK
      <2>1. job[q].draft \in BookingRecord
          BY DEF JobOK, InLock, Critical
      <2> QED
          BY <2>1 DEF LockOK, BookingRecord
  <1>4. StillClear(q)'
      BY <1>2 DEF StillClear, Harmless, Tainted
  <1> QED
      BY <1>1, <1>3, <1>4

\* The locks after Release: the others keep theirs.
LEMMA ReleaseEffect ==
    ASSUME TypeOK, NEW r \in Request, NEW v \in Vehicle, lock' = Release(r, v)
    PROVE  /\ lock' \in [Vehicle -> Request \cup {NoRequest}]
           /\ \A q \in Request \ {r} : \A u \in Vehicle : lock[u] = q => lock'[u] = q
  BY DEF TypeOK, Release

\* A job outside the critical section has no lock to lose.
LEMMA NotCritical ==
    ASSUME NEW q \in Request, job'[q].at \notin Critical
    PROVE  LockOK(q)' /\ StillClear(q)'
  BY DEF LockOK, StillClear, InLock

\* Idle is a job.
LEMMA IdleInJob == Idle \in Job
  BY DEF Idle, Job, Point, MaybeBooking

\* An idle job is well formed.
LEMMA IdleOK ==
    ASSUME NEW q \in Request, job'[q] = Idle
    PROVE  JobOK(q)' /\ LockOK(q)' /\ StillClear(q)'
  <1>1. job'[q].at \notin Critical
      BY DEF Idle, Critical
  <1>2. JobOK(q)'
      BY DEF JobOK, Idle
  <1> QED
      BY <1>1, <1>2, NotCritical

\* What is left to show of a harmless step of request r: the types, and what
\* r itself knows.
LEMMA HarmlessStep ==
    ASSUME IInv, TypeOK', Harmless, NEW r \in Request,
           \A q \in Request \ {r} : job'[q] = job[q],
           \A q \in Request \ {r} : \A u \in Vehicle : lock[u] = q => lock'[u] = q,
           JobOK(r)', LockOK(r)', StillClear(r)'
    PROVE  IInv'
  <1>1. NoDoubleBooking'
      BY HarmlessNoDouble DEF IInv
  <1>2. ASSUME NEW q \in Request \ {r} PROVE JobOK(q)' /\ LockOK(q)' /\ StillClear(q)'
      BY OthersKeep DEF IInv
  <1> QED
      BY <1>1, <1>2 DEF IInv

\* A step that writes no booking is harmless.
LEMMA NothingWritten ==
    ASSUME UNCHANGED <<store, clobbered>>, UNCHANGED overrun
    PROVE  Harmless
  BY DEF Harmless, Tainted, Holds

\* A whole-record save is harmless when the draft occupies the slot only if
\* the record it was made from did: either that record is still there, or the
\* save clobbers another one.
LEMMA WriteHarmless ==
    ASSUME TypeOK, NEW b \in BookingId, NEW seen \in BookingRecord,
           NEW rec \in BookingRecord, Write(b, seen, rec),
           overrun \subseteq overrun',
           rec.status \in Occupying =>
               /\ seen.status \in Occupying
               /\ rec.vehicle = seen.vehicle
               /\ rec.slot = seen.slot
               /\ rec.rescheduledFrom = seen.rescheduledFrom
    PROVE  /\ Harmless
           /\ store' \in [BookingId -> MaybeBooking]
           /\ clobbered' \subseteq BookingId
  <1>1. /\ store' \in [BookingId -> MaybeBooking]
        /\ clobbered' \subseteq BookingId
        /\ clobbered \subseteq clobbered'
      BY DEF Write, TypeOK, MaybeBooking
  <1>2. Tainted \subseteq Tainted'
      BY <1>1 DEF Tainted
  <1>3. ASSUME NEW a \in BookingId, Holds(a)', a \notin Tainted'
        PROVE  /\ Holds(a)
               /\ store'[a].vehicle = store[a].vehicle
               /\ store'[a].slot = store[a].slot
               /\ store'[a].rescheduledFrom = store[a].rescheduledFrom
    <2>1. CASE a # b
        BY <1>3, <2>1 DEF Write, TypeOK, Holds
    <2>2. CASE a = b
      <3>1. store'[a] = rec /\ store[a] = seen
          BY <1>3, <2>2 DEF Write, TypeOK, Tainted
      <3> QED
          BY <1>3, <3>1, NoRecordAssumption DEF Holds
    <2> QED
        BY <2>1, <2>2
  <1> QED
      BY <1>1, <1>2, <1>3 DEF Harmless

-----------------------------------------------------------------------------
(* One lemma per action, or per kind of action                             *)

\* A call that only reads: Read and what its draft must look like.
LEMMA ReadStep ==
    ASSUME IInv, NEW r \in Request, NEW b \in Existing, NEW draft \in BookingRecord,
           NEW at \in {"save", "cancel", "move"},
           Read(r, b, at, draft),
           at = "save" =>
               /\ draft.vehicle = store[b].vehicle
               /\ draft.slot = store[b].slot
               /\ draft.rescheduledFrom = store[b].rescheduledFrom
               /\ draft.status \in Occupying => store[b].status \in Occupying,
           at = "cancel" => draft.status = "Cancelled",
           at = "move" => draft.rescheduledFrom = b
    PROVE  IInv'
  <1> DEFINE j == [Idle EXCEPT !.at = at, !.id = b, !.seen = store[b], !.draft = draft]
  <1>1. TypeOK /\ b \in BookingId /\ store[b] \in BookingRecord
      BY DEF IInv, TypeOK, Existing, MaybeBooking
  <1>2. j.at = at /\ j.id = b /\ j.seen = store[b] /\ j.draft = draft
      BY DEF Idle
  <1>3. j \in Job
    <2>1. at \in Point
        BY DEF Point, Waiting
    <2>2. store[b] \in MaybeBooking /\ draft \in MaybeBooking
        BY <1>1 DEF MaybeBooking
    <2> QED
        BY <1>1, <2>1, <2>2, IdleInJob DEF Job
  <1>4. /\ job'[r] = j
        /\ \A q \in Request \ {r} : job'[q] = job[q]
        /\ job' \in [Request -> Job]
      BY <1>1, <1>3, BecomeEffect DEF Read, Call
  <1>5. TypeOK'
      BY <1>1, <1>4, DeskAssumption DEF Read, Call, TypeOK
  <1>6. Harmless
      BY NothingWritten DEF Read
  <1>7. JobOK(r)'
      BY <1>1, <1>2, <1>4 DEF JobOK
  <1>8. job'[r].at \notin Critical
      BY <1>2, <1>4 DEF Critical
  <1>9. lock' = lock
      BY DEF Read
  <1> HIDE DEF j
  <1> QED
      BY <1>4, <1>5, <1>6, <1>7, <1>8, <1>9, NotCritical, HarmlessStep

\* Cancelling begins with a read.
LEMMA CancelStep ==
    ASSUME IInv, NEW r \in Request, NEW b \in Existing, NEW a \in Audience,
           CancelBooking(r, b, a)
    PROVE  IInv'
  <1>1. store[b] \in BookingRecord
      BY DEF IInv, TypeOK, Existing, MaybeBooking
  <1>2. Cancel(store[b]) \in BookingRecord /\ Cancel(store[b]).status = "Cancelled"
      BY <1>1 DEF Cancel, BookingRecord, Status
  <1> QED
      BY <1>2, ReadStep DEF CancelBooking

\* Rescheduling begins with a read.
LEMMA RescheduleStep ==
    ASSUME IInv, NEW r \in Request, NEW b \in Existing, NEW s \in Slot,
           NEW a \in Audience, RescheduleBooking(r, b, s, a)
    PROVE  IInv'
  <1> DEFINE new == Confirm(Replacement(store[b], b, s))
  <1>1. store[b] \in BookingRecord /\ b \in BookingId
      BY DEF IInv, TypeOK, Existing, MaybeBooking
  <1>2. new \in BookingRecord /\ new.rescheduledFrom = b
      BY <1>1 DEF Confirm, Replacement, BookingRecord, Status
  <1> HIDE DEF new
  <1>3. Read(r, b, "move", new)
      BY DEF RescheduleBooking, new
  <1> QED
      BY <1>2, <1>3, ReadStep

\* A staff operation begins with a read, and its draft occupies the slot only
\* if the booking it read did.
LEMMA StaffStep ==
    ASSUME IInv, NEW r \in Request, StaffCall(r)
    PROVE  IInv'
  <1> DEFINE Plain(b, draft) ==
               /\ draft \in BookingRecord
               /\ draft.vehicle = store[b].vehicle
               /\ draft.slot = store[b].slot
               /\ draft.rescheduledFrom = store[b].rescheduledFrom
               /\ draft.status \in Occupying => store[b].status \in Occupying
  <1>1. PICK b \in Existing :
            \/ ReassignRep(r, b) \/ SetNotes(r, b) \/ CheckInBooking(r, b)
            \/ StartDrive(r, b) \/ CompleteDrive(r, b) \/ RecordNoShow(r, b)
      BY DEF StaffCall
  <1>2. store[b] \in BookingRecord
      BY DEF IInv, TypeOK, Existing, MaybeBooking
  <1>3. ASSUME NEW draft, Plain(b, draft), Read(r, b, "save", draft)
        PROVE  IInv'
      BY <1>3, ReadStep
  <1>4. CASE ReassignRep(r, b)
    <2>1. PICK rep \in Rep : Read(r, b, "save", AssignRep(store[b], rep))
        BY <1>4 DEF ReassignRep
    <2>2. Plain(b, AssignRep(store[b], rep))
        BY <1>2 DEF AssignRep, BookingRecord
    <2> QED
        BY <1>3, <2>1, <2>2
  <1>5. CASE SetNotes(r, b)
      BY <1>2, <1>3, <1>5 DEF SetNotes
  <1>6. CASE CheckInBooking(r, b)
    <2>1. Plain(b, CheckIn(store[b]))
        BY <1>2 DEF CheckIn, BookingRecord
    <2> QED
        BY <1>3, <1>6, <2>1 DEF CheckInBooking
  <1>7. CASE StartDrive(r, b)
    <2>1. Plain(b, Start(store[b]))
        BY <1>2, <1>7 DEF StartDrive, CanStart, Start, BookingRecord, Status, Occupying
    <2> QED
        BY <1>3, <1>7, <2>1 DEF StartDrive
  <1>8. CASE CompleteDrive(r, b)
    <2>1. Plain(b, Complete(store[b]))
        BY <1>2 DEF Complete, BookingRecord, Status, Occupying
    <2> QED
        BY <1>3, <1>8, <2>1 DEF CompleteDrive
  <1>9. CASE RecordNoShow(r, b)
    <2>1. Plain(b, MarkNoShow(store[b]))
        BY <1>2 DEF MarkNoShow, BookingRecord, Status, Occupying
    <2> QED
        BY <1>3, <1>9, <2>1 DEF RecordNoShow
  <1> QED
      BY <1>1, <1>4, <1>5, <1>6, <1>7, <1>8, <1>9

\* A create begins with nothing but a draft.
LEMMA CreateStep ==
    ASSUME IInv, NEW r \in Request, NEW v \in Vehicle, NEW s \in Slot, Create(r, v, s)
    PROVE  IInv'
  <1> DEFINE j == [Idle EXCEPT !.at = "reserve", !.draft = Requested(v, s)]
  <1>1. TypeOK /\ Requested(v, s) \in BookingRecord
      BY RequestedType DEF IInv
  <1>2. j.at = "reserve" /\ j.id = NoBooking /\ j.draft = Requested(v, s)
      BY DEF Idle
  <1>3. j \in Job
      BY <1>1, IdleInJob DEF Job, Point, Waiting, MaybeBooking
  <1>4. /\ job'[r] = j
        /\ \A q \in Request \ {r} : job'[q] = job[q]
        /\ job' \in [Request -> Job]
      BY <1>1, <1>3, BecomeEffect DEF Create, Call
  <1>5. TypeOK'
      BY <1>1, <1>4, DeskAssumption DEF Create, Call, TypeOK
  <1>6. Harmless /\ lock' = lock
      BY NothingWritten DEF Create
  <1>7. JobOK(r)'
      BY <1>1, <1>2, <1>4 DEF JobOK
  <1>8. job'[r].at \notin Critical
      BY <1>2, <1>4 DEF Critical
  <1> HIDE DEF j
  <1> QED
      BY <1>4, <1>5, <1>6, <1>7, <1>8, NotCritical, HarmlessStep

\* After a save comes nothing, or the promotion of whoever waits for the slot.
LEMMA FollowUpOK ==
    ASSUME NEW q \in Request, NEW b \in BookingRecord, job'[q] = FollowUp(b)
    PROVE  JobOK(q)' /\ LockOK(q)' /\ StillClear(q)' /\ FollowUp(b) \in Job
  <1>1. CASE FollowUp(b) = Idle
      BY <1>1, IdleOK, IdleInJob
  <1>2. CASE FollowUp(b) = Promotion(b)
    <2>1. Promotion(b).at = "promote" /\ Promotion(b).draft = b
        BY DEF Promotion, Idle
    <2>2. "promote" \in Point /\ b \in MaybeBooking
        BY DEF Point, Waiting, MaybeBooking
    <2>3. Promotion(b) \in Job
        BY <2>2, IdleInJob DEF Promotion, Job
    <2>4. JobOK(q)'
        BY <1>2, <2>1 DEF JobOK
    <2>5. job'[q].at \notin Critical
        BY <1>2, <2>1 DEF Critical
    <2> QED
        BY <1>2, <2>3, <2>4, <2>5, NotCritical
  <1> QED
      BY <1>1, <1>2 DEF FollowUp

\* A staff operation's save.
LEMMA SaveBookingStep ==
    ASSUME IInv, NEW r \in Request, SaveBooking(r)
    PROVE  IInv'
  <1>1. TypeOK /\ JobOK(r) /\ job[r].at = "save"
      BY DEF IInv, SaveBooking
  <1>2. /\ job[r].id \in BookingId
        /\ job[r].seen \in BookingRecord
        /\ job[r].draft \in BookingRecord
      BY <1>1 DEF JobOK
  <1>3. /\ Harmless
        /\ store' \in [BookingId -> MaybeBooking]
        /\ clobbered' \subseteq BookingId
      BY <1>1, <1>2, WriteHarmless DEF SaveBooking, JobOK
  <1>4. /\ job'[r] = Idle
        /\ \A q \in Request \ {r} : job'[q] = job[q]
        /\ job' \in [Request -> Job]
      BY <1>1, IdleInJob, BecomeEffect DEF SaveBooking
  <1>5. TypeOK' /\ lock' = lock
      BY <1>1, <1>3, <1>4 DEF SaveBooking, TypeOK
  <1> QED
      BY <1>3, <1>4, <1>5, IdleOK, HarmlessStep

\* The save of a cancelled booking, then the follow-up.
LEMMA SaveCancelStep ==
    ASSUME IInv, NEW r \in Request, SaveCancel(r)
    PROVE  IInv'
  <1>1. TypeOK /\ JobOK(r) /\ job[r].at = "cancel"
      BY DEF IInv, SaveCancel
  <1>2. /\ job[r].id \in BookingId
        /\ job[r].seen \in BookingRecord
        /\ job[r].draft \in BookingRecord
        /\ job[r].draft.status \notin Occupying
      BY <1>1 DEF JobOK, Occupying
  <1>3. /\ Harmless
        /\ store' \in [BookingId -> MaybeBooking]
        /\ clobbered' \subseteq BookingId
      BY <1>1, <1>2, WriteHarmless DEF SaveCancel
  <1>4. /\ job'[r] = FollowUp(job[r].seen)
        /\ \A q \in Request \ {r} : job'[q] = job[q]
        /\ FollowUp(job[r].seen) \in Job => job' \in [Request -> Job]
      BY <1>1, BecomeEffect DEF SaveCancel
  <1>5. /\ JobOK(r)' /\ LockOK(r)' /\ StillClear(r)'
        /\ job' \in [Request -> Job]
      BY <1>2, <1>4, FollowUpOK
  <1>6. TypeOK' /\ lock' = lock
      BY <1>1, <1>3, <1>5 DEF SaveCancel, TypeOK
  <1> QED
      BY <1>3, <1>4, <1>5, <1>6, HarmlessStep

\* The save of a reschedule's cancelled original, then the follow-up.
LEMMA RetireStep ==
    ASSUME IInv, NEW r \in Request, RetireOriginal(r)
    PROVE  IInv'
  <1>1. TypeOK /\ JobOK(r) /\ job[r].at = "retire"
      BY DEF IInv, RetireOriginal
  <1>2. job[r].id \in BookingId /\ job[r].seen \in BookingRecord
      BY <1>1 DEF JobOK
  <1>3. Original(job[r].seen) \in BookingRecord /\ Original(job[r].seen).status \notin Occupying
      BY <1>2 DEF Original, Cancel, BookingRecord, Status, Occupying
  <1>4. /\ Harmless
        /\ store' \in [BookingId -> MaybeBooking]
        /\ clobbered' \subseteq BookingId
      BY <1>1, <1>2, <1>3, WriteHarmless DEF RetireOriginal
  <1>5. /\ job'[r] = FollowUp(job[r].seen)
        /\ \A q \in Request \ {r} : job'[q] = job[q]
        /\ FollowUp(job[r].seen) \in Job => job' \in [Request -> Job]
      BY <1>1, BecomeEffect DEF RetireOriginal
  <1>6. /\ JobOK(r)' /\ LockOK(r)' /\ StillClear(r)'
        /\ job' \in [Request -> Job]
      BY <1>2, <1>5, FollowUpOK
  <1>7. TypeOK' /\ lock' = lock
      BY <1>1, <1>4, <1>6 DEF RetireOriginal, TypeOK
  <1> QED
      BY <1>4, <1>5, <1>6, <1>7, HarmlessStep

\* The withdrawal of a replacement.
LEMMA WithdrawStep ==
    ASSUME IInv, NEW r \in Request, Withdraw(r)
    PROVE  IInv'
  <1>1. TypeOK /\ JobOK(r) /\ job[r].at = "withdraw"
      BY DEF IInv, Withdraw
  <1>2. job[r].moved \in BookingId /\ job[r].draft \in BookingRecord
      BY <1>1 DEF JobOK
  <1>3. /\ Harmless
        /\ store' \in [BookingId -> MaybeBooking]
        /\ clobbered' \subseteq BookingId
    <2>1. CASE CanChange(job[r].draft, 0, now)
      <3>1. Cancel(job[r].draft) \in BookingRecord /\ Cancel(job[r].draft).status \notin Occupying
          BY <1>2 DEF Cancel, BookingRecord, Status, Occupying
      <3> QED
          BY <1>1, <1>2, <2>1, <3>1, WriteHarmless DEF Withdraw
    <2>2. CASE ~CanChange(job[r].draft, 0, now)
        BY <1>1, <2>2, NothingWritten DEF Withdraw, TypeOK
    <2> QED
        BY <2>1, <2>2
  <1>4. /\ job'[r] = Idle
        /\ \A q \in Request \ {r} : job'[q] = job[q]
        /\ job' \in [Request -> Job]
      BY <1>1, IdleInJob, BecomeEffect DEF Withdraw
  <1>5. TypeOK' /\ lock' = lock
      BY <1>1, <1>3, <1>4 DEF Withdraw, TypeOK
  <1> QED
      BY <1>3, <1>4, <1>5, IdleOK, HarmlessStep

\* What a request leaves of the locks when it gives up.
LEMMA ReleasingEffect ==
    ASSUME TypeOK, NEW r \in Request, JobOK(r), lock' = Releasing(r)
    PROVE  /\ lock' \in [Vehicle -> Request \cup {NoRequest}]
           /\ \A q \in Request \ {r} : \A u \in Vehicle : lock[u] = q => lock'[u] = q
  <1>1. CASE job[r].at \in Critical
    <2>1. job[r].draft \in BookingRecord
        BY <1>1 DEF JobOK, Critical
    <2>2. job[r].draft.vehicle \in Vehicle
        BY <2>1 DEF BookingRecord
    <2>3. lock' = Release(r, job[r].draft.vehicle)
        BY <1>1 DEF Releasing
    <2> QED
        BY <2>2, <2>3, ReleaseEffect
  <1>2. CASE job[r].at \notin Critical
      BY <1>2 DEF Releasing, TypeOK
  <1> QED
      BY <1>1, <1>2

\* A save that fails, or a request that dies, writes nothing.
LEMMA GiveUpStep ==
    ASSUME IInv, NEW r \in Request, SaveFails(r) \/ Abandon(r)
    PROVE  IInv'
  <1> DEFINE j == job'[r]
  <1>1. TypeOK /\ JobOK(r) /\ job[r] \in Job
      BY DEF IInv, TypeOK
  <1>2. /\ Harmless
        /\ lock' \in [Vehicle -> Request \cup {NoRequest}]
        /\ \A q \in Request \ {r} : \A u \in Vehicle : lock[u] = q => lock'[u] = q
      BY <1>1, NothingWritten, ReleasingEffect DEF SaveFails, Abandon
  <1>3. CASE job'[r] = Idle /\ Become(r, Idle)
    <2>1. /\ \A q \in Request \ {r} : job'[q] = job[q]
          /\ job' \in [Request -> Job]
        BY <1>1, <1>3, IdleInJob, BecomeEffect
    <2>2. TypeOK'
        BY <1>1, <1>2, <2>1, DeskAssumption DEF SaveFails, Abandon, Strike, TypeOK
    <2> QED
        BY <1>2, <1>3, <2>1, <2>2, IdleOK, HarmlessStep
  <1>4. CASE SaveFails(r) /\ job[r].at = "retire"
    <2> DEFINE w == [job[r] EXCEPT !.at = "withdraw"]
    <2>1. w \in Job
        BY <1>1 DEF Job, Point
    <2>2. /\ job'[r] = w
          /\ \A q \in Request \ {r} : job'[q] = job[q]
          /\ job' \in [Request -> Job]
        BY <1>1, <1>4, <2>1, BecomeEffect DEF SaveFails, OnSaveFailure
    <2>3. /\ w.at = "withdraw" /\ w.id = job[r].id /\ w.seen = job[r].seen
          /\ w.draft = job[r].draft /\ w.moved = job[r].moved
        BY <1>1 DEF Job
    <2>4. JobOK(r)'
        BY <1>1, <1>4, <2>2, <2>3 DEF JobOK
    <2>5. job'[r].at \notin Critical
        BY <2>2, <2>3 DEF Critical
    <2>6. TypeOK'
        BY <1>1, <1>2, <2>2, <1>4, DeskAssumption DEF SaveFails, Strike, TypeOK
    <2> HIDE DEF w
    <2> QED
        BY <1>2, <2>2, <2>4, <2>5, <2>6, NotCritical, HarmlessStep
  <1> QED
    <2>1. CASE Abandon(r)
      <3>1. Become(r, Idle)
          BY <2>1 DEF Abandon
      <3> QED
          BY <1>1, <1>3, <3>1, BecomeEffect
    <2>2. CASE SaveFails(r) /\ job[r].at # "retire"
      <3>1. Become(r, Idle)
          BY <2>2 DEF SaveFails, OnSaveFailure
      <3> QED
          BY <1>1, <1>3, <3>1, BecomeEffect
    <2> QED
        BY <1>4, <2>1, <2>2

\* A lock that expires leaves its holder outside the critical section.
LEMMA ExpiryStep ==
    ASSUME IInv, NEW v \in Vehicle, LockExpires(v)
    PROVE  IInv'
  <1>0. PICK r \in Request : r = lock[v]
      BY DEF IInv, TypeOK, LockExpires
  <1> DEFINE j == [job[r] EXCEPT !.late = TRUE]
  <1>1. TypeOK
      BY DEF IInv
  <1>2. JobOK(r) /\ job[r] \in Job
      BY <1>1 DEF IInv, TypeOK
  <1>3. /\ j \in Job /\ j.at = job[r].at /\ j.id = job[r].id /\ j.seen = job[r].seen
        /\ j.draft = job[r].draft /\ j.moved = job[r].moved /\ j.late = TRUE
      BY <1>2 DEF Job
  <1>4. /\ job'[r] = j
        /\ \A q \in Request \ {r} : job'[q] = job[q]
        /\ job' \in [Request -> Job]
      BY <1>0, <1>1, <1>3, BecomeEffect DEF LockExpires, Become
  <1>5. /\ lock' \in [Vehicle -> Request \cup {NoRequest}]
        /\ \A q \in Request \ {r} : \A u \in Vehicle : lock[u] = q => lock'[u] = q
      BY <1>0, <1>1 DEF LockExpires, TypeOK
  <1>6. Harmless
      BY NothingWritten DEF LockExpires
  <1>7. TypeOK'
      BY <1>1, <1>4, <1>5, DeskAssumption DEF LockExpires, Strike, TypeOK
  <1>8. JobOK(r)'
    <2> HIDE DEF j
    <2> QED
        BY <1>2, <1>3, <1>4 DEF JobOK
  <1>9. LockOK(r)' /\ StillClear(r)'
    <2> HIDE DEF j
    <2> QED
        BY <1>3, <1>4 DEF LockOK, StillClear, InLock
  <1> HIDE DEF j
  <1> QED
      BY <1>1, <1>4, <1>5, <1>6, <1>7, <1>8, <1>9, HarmlessStep

\* Time passes, or nothing happens.
LEMMA QuietStep ==
    ASSUME IInv, Tick \/ UNCHANGED vars
    PROVE  IInv'
  <1>1. UNCHANGED <<store, lock, job, calls, clobbered, overrun, faults>>
      BY DEF Tick, vars
  <1>2. TypeOK'
      BY <1>1, DeskAssumption DEF IInv, TypeOK, Tick, vars
  <1>3. \A q \in Request : JobOK(q)' /\ LockOK(q)' /\ StillClear(q)'
      BY <1>1 DEF IInv, JobOK, LockOK, StillClear, InLock, Holds, Tainted
  <1>4. NoDoubleBooking'
      BY <1>1 DEF IInv, NoDoubleBooking, Collide, Holds, Related, Tainted
  <1> QED
      BY <1>2, <1>3, <1>4 DEF IInv

-----------------------------------------------------------------------------
(* The critical section                                                    *)

\* A request that was in the critical section and is turned away, or had
\* nothing to do, changes nothing but itself.
LEMMA LeaveStep ==
    ASSUME IInv, NEW r \in Request, Become(r, Idle),
           UNCHANGED <<store, lock, now, calls, clobbered, overrun, faults>>
    PROVE  IInv'
  <1>1. TypeOK
      BY DEF IInv
  <1>2. /\ job'[r] = Idle
        /\ \A q \in Request \ {r} : job'[q] = job[q]
        /\ job' \in [Request -> Job]
      BY <1>1, IdleInJob, BecomeEffect
  <1>3. TypeOK' /\ Harmless
      BY <1>1, <1>2, NothingWritten DEF TypeOK
  <1> QED
      BY <1>2, <1>3, IdleOK, HarmlessStep

\* A request enters the critical section of v: the lock was free, and what it
\* knows when it enters is that nothing stands in the way of its draft.
LEMMA EnterStep ==
    ASSUME IInv, NEW r \in Request, NEW v \in Vehicle, NEW j \in Job,
           CanEnter(v), Become(r, j), lock' = [lock EXCEPT ![v] = r],
           UNCHANGED <<store, now, calls, clobbered, overrun, faults>>,
           j.at \in Critical, j.draft.vehicle = v, JobOK(r)',
           j.draft.status \in Occupying => ~Conflict(v, j.draft.slot, j.id)
    PROVE  IInv'
  <1>1. TypeOK
      BY DEF IInv
  <1>2. /\ job'[r] = j
        /\ \A q \in Request \ {r} : job'[q] = job[q]
        /\ job' \in [Request -> Job]
      BY <1>1, BecomeEffect
  <1>3. /\ lock' \in [Vehicle -> Request \cup {NoRequest}]
        /\ lock'[v] = r
        /\ \A q \in Request \ {r} : \A u \in Vehicle : lock[u] = q => lock'[u] = q
      BY <1>1, DeskAssumption DEF CanEnter, TypeOK
  <1>4. TypeOK' /\ Harmless
      BY <1>1, <1>2, <1>3, NothingWritten DEF TypeOK
  <1>5. LockOK(r)'
      BY <1>2, <1>3 DEF LockOK
  <1>6. StillClear(r)'
    <2> SUFFICES ASSUME j.draft.status \in Occupying,
                        NEW a \in BookingId \ {j.id}, Holds(a),
                        store[a].vehicle = v, Overlaps(store[a].slot, j.draft.slot)
                 PROVE  FALSE
        BY <1>2 DEF StillClear, Holds, Tainted
    <2>1. a \in ActiveOf(v)
        BY DEF ActiveOf, Existing, Holds
    <2> QED
        BY <2>1 DEF Conflict
  <1> QED
      BY <1>2, <1>3, <1>4, <1>5, <1>6, HarmlessStep

\* The write at the end of the critical section.  Within the lock, StillClear
\* says that the booking written collides with no other; nobody else is in the
\* vehicle's critical section, so nobody else's StillClear is disturbed.  After
\* the lock has expired, the booking is marked as overrun.
LEMMA CriticalWrite ==
    ASSUME IInv, NEW r \in Request, job[r].at \in Critical, NEW b \in BookingId,
           store' = [store EXCEPT ![b] = job[r].draft],
           NoteOverrun(r, b), clobbered \subseteq clobbered',
           \A a \in BookingId \ {b} :
               a = job[r].id => job[r].draft.rescheduledFrom = a,
           \A q \in Request \ {r} : job'[q] = job[q],
           \A q \in Request \ {r} : \A u \in Vehicle : lock[u] = q => lock'[u] = q,
           JobOK(r)', job'[r].at \notin Critical, TypeOK'
    PROVE  IInv'
  <1> DEFINE d == job[r].draft
  <1>1. TypeOK /\ JobOK(r) /\ LockOK(r) /\ StillClear(r) /\ NoDoubleBooking
      BY DEF IInv
  <1>2. d \in BookingRecord /\ d.vehicle \in Vehicle
      BY <1>1 DEF JobOK, Critical, BookingRecord
  <1>3. store'[b] = d /\ \A a \in BookingId \ {b} : store'[a] = store[a]
      BY <1>1 DEF TypeOK
  <1>4. LockOK(r)' /\ StillClear(r)'
      BY NotCritical
  <1>5. CASE job[r].late
    <2>1. Tainted \subseteq Tainted' /\ b \in Tainted'
        BY <1>5 DEF NoteOverrun, Tainted
    <2>2. Harmless
        BY <1>3, <2>1 DEF Harmless, Holds
    <2> QED
        BY <1>4, <2>2, HarmlessStep
  <1>6. CASE ~job[r].late
    <2>1. lock[d.vehicle] = r /\ InLock(r)
        BY <1>1, <1>6 DEF InLock, LockOK
    <2>2. Tainted \subseteq Tainted'
        BY <1>6 DEF NoteOverrun, Tainted
    <2>3. ASSUME NEW a \in BookingId \ {b}, Collide(a, b)'
          PROVE  Related(a, b)' \/ a \in Tainted'
      <3>1. /\ d.status \in Occupying
            /\ Holds(a)
            /\ store[a].vehicle = d.vehicle
            /\ Overlaps(store[a].slot, d.slot)
          BY <1>3, <2>3 DEF Collide, Holds
      <3>2. CASE a = job[r].id
          BY <1>3, <3>2 DEF Related
      <3>3. CASE a # job[r].id
          BY <1>1, <2>1, <2>2, <3>1, <3>3 DEF StillClear
      <3> QED
          BY <3>2, <3>3
    <2>4. NoDoubleBooking'
      <3> SUFFICES ASSUME NEW a \in BookingId, NEW c \in BookingId, Collide(a, c)'
                   PROVE  Related(a, c)' \/ a \in Tainted' \/ c \in Tainted'
          BY DEF NoDoubleBooking
      <3>1. CASE a # b /\ c # b
          BY <1>1, <1>3, <2>2, <3>1 DEF NoDoubleBooking, Collide, Holds, Related
      <3>2. CASE c = b
          BY <2>3, <3>2 DEF Collide
      <3>3. CASE a = b
        <4>1. Collide(c, a)' /\ c # b
            BY <3>3 DEF Collide, Overlaps, Holds
        <4> QED
            BY <2>3, <3>3, <4>1 DEF Related
      <3> QED
          BY <3>1, <3>2, <3>3
    <2>5. ASSUME NEW q \in Request \ {r}
          PROVE  JobOK(q)' /\ LockOK(q)' /\ StillClear(q)'
      <3>1. JobOK(q) /\ LockOK(q) /\ StillClear(q)
          BY DEF IInv
      <3>2. JobOK(q)'
          BY <3>1 DEF JobOK
      <3>3. InLock(q)' <=> InLock(q)
          BY DEF InLock
      <3>4. InLock(q) => job[q].draft.vehicle \in Vehicle
        <4>1. InLock(q) => job[q].draft \in BookingRecord
            BY <3>1 DEF JobOK, InLock, Critical
        <4> QED
            BY <4>1 DEF BookingRecord
      <3>5. LockOK(q)'
          BY <3>1, <3>3, <3>4 DEF LockOK
      <3>6. InLock(q) => job[q].draft.vehicle # d.vehicle
          BY <2>1, <3>1 DEF LockOK
      <3>7. StillClear(q)'
        <4> SUFFICES ASSUME InLock(q), job[q].draft.status \in Occupying,
                            NEW a \in BookingId \ {job[q].id}, Holds(a)',
                            store'[a].vehicle = job[q].draft.vehicle,
                            Overlaps(store'[a].slot, job[q].draft.slot)
                     PROVE  a \in Tainted'
            BY <3>3 DEF StillClear
        <4>1. a # b
            BY SMTT(60), <1>3, <3>6
        <4> QED
            BY <1>3, <2>2, <3>1, <4>1 DEF StillClear, Holds
      <3> QED
          BY <3>2, <3>5, <3>7
    <2> QED
        BY <1>1, <1>4, <2>4, <2>5 DEF IInv
  <1> QED
      BY <1>5, <1>6

\* A create enters, or is refused.
LEMMA ReserveStep ==
    ASSUME IInv, NEW r \in Request, Reserve(r)
    PROVE  IInv'
  <1> DEFINE b == job[r].draft
             v == b.vehicle
             Insert(draft) == [job[r] EXCEPT !.at = "insert", !.draft = draft]
  <1>1. TypeOK /\ JobOK(r) /\ job[r] \in Job /\ job[r].at = "reserve"
      BY DEF IInv, TypeOK, Reserve
  <1>2. b \in BookingRecord /\ v \in Vehicle /\ job[r].id = NoBooking
      BY <1>1 DEF JobOK, BookingRecord
  <1>3. ASSUME NEW draft \in BookingRecord, Become(r, Insert(draft)),
               lock' = [lock EXCEPT ![v] = r], CanEnter(v),
               UNCHANGED <<store, now, calls, clobbered, overrun, faults>>,
               draft.vehicle = v,
               draft.status \in Occupying => ~Conflict(v, draft.slot, NoBooking)
        PROVE  IInv'
    <2> DEFINE j == Insert(draft)
    <2>1. "insert" \in Point /\ draft \in MaybeBooking
        BY DEF Point, Critical, MaybeBooking
    <2>2. j \in Job /\ j.at = "insert" /\ j.draft = draft /\ j.id = NoBooking
        BY <1>1, <1>2, <2>1 DEF Job
    <2>3. job'[r] = j
        BY <1>1, <1>3, BecomeEffect
    <2> HIDE DEF j
    <2>4. JobOK(r)'
        BY <2>2, <2>3 DEF JobOK
    <2>5. j.at \in Critical /\ Become(r, j)
        BY <1>3, <2>2 DEF Critical, j
    <2> QED
        BY <1>2, <1>3, <2>2, <2>4, <2>5, EnterStep
  <1>4. CASE /\ ~Conflict(v, b.slot, NoBooking)
             /\ \E rep \in LeastLoaded : Become(r, Insert(AssignRep(Confirm(b), rep)))
             /\ lock' = [lock EXCEPT ![v] = r]
    <2>1. PICK rep \in LeastLoaded : Become(r, Insert(AssignRep(Confirm(b), rep)))
        BY <1>4
    <2>2. rep \in Rep \cup {NoRep}
        BY DEF LeastLoaded
    <2> DEFINE draft == AssignRep(Confirm(b), rep)
    <2>3. draft \in BookingRecord /\ draft.vehicle = v /\ draft.slot = b.slot
        BY <1>2, <2>2 DEF AssignRep, Confirm, BookingRecord, Status
    <2>4. Become(r, Insert(draft))
        BY <2>1
    <2> HIDE DEF draft
    <2>5. /\ CanEnter(v)
          /\ UNCHANGED <<store, now, calls, clobbered, overrun, faults>>
        BY DEF Reserve
    <2> QED
        BY <1>3, <1>4, <2>3, <2>4, <2>5
  <1>5. CASE /\ \E p \in NextPosition(v) : Become(r, Insert(Waitlist(b, p)))
             /\ lock' = [lock EXCEPT ![v] = r]
    <2>1. PICK p \in NextPosition(v) : Become(r, Insert(Waitlist(b, p)))
        BY <1>5
    <2>2. p \in Nat
        BY <1>1 DEF NextPosition, WaitlistOf, Existing, TypeOK, MaybeBooking, BookingRecord
    <2> DEFINE draft == Waitlist(b, p)
    <2>3. draft \in BookingRecord /\ draft.vehicle = v /\ draft.status \notin Occupying
        BY ZenonT(60), <1>2, <2>2 DEF Waitlist, BookingRecord, Status, Occupying
    <2>4. Become(r, Insert(draft))
        BY <2>1
    <2> HIDE DEF draft
    <2>5. /\ CanEnter(v)
          /\ UNCHANGED <<store, now, calls, clobbered, overrun, faults>>
        BY DEF Reserve
    <2> QED
        BY <1>3, <1>5, <2>3, <2>4, <2>5
  <1>6. CASE Become(r, Idle) /\ UNCHANGED lock
      BY <1>6, LeaveStep DEF Reserve
  <1> HIDE DEF Insert
  <1> QED
      BY <1>4, <1>5, <1>6 DEF Reserve, Insert

\* The new booking is saved.
LEMMA InsertStep ==
    ASSUME IInv, NEW r \in Request, InsertBooking(r)
    PROVE  IInv'
  <1>1. TypeOK /\ JobOK(r) /\ job[r].at = "insert"
      BY DEF IInv, InsertBooking
  <1>2. /\ job[r].id = NoBooking
        /\ job[r].draft \in BookingRecord /\ job[r].draft.vehicle \in Vehicle
      BY <1>1 DEF JobOK, BookingRecord
  <1>3. PICK new \in Unused :
            store' = [store EXCEPT ![new] = job[r].draft] /\ NoteOverrun(r, new)
      BY DEF InsertBooking
  <1>4. new \in BookingId
      BY DEF Unused
  <1>5. /\ job'[r] = Idle
        /\ \A q \in Request \ {r} : job'[q] = job[q]
        /\ job' \in [Request -> Job]
      BY <1>1, IdleInJob, BecomeEffect DEF InsertBooking
  <1>6. /\ lock' \in [Vehicle -> Request \cup {NoRequest}]
        /\ \A q \in Request \ {r} : \A u \in Vehicle : lock[u] = q => lock'[u] = q
      BY <1>1, <1>2, ReleaseEffect DEF InsertBooking
  <1>7. TypeOK'
      BY <1>1, <1>2, <1>3, <1>4, <1>5, <1>6
      DEF InsertBooking, NoteOverrun, TypeOK, MaybeBooking
  <1>8. JobOK(r)' /\ job'[r].at \notin Critical /\ clobbered \subseteq clobbered'
      BY <1>5, IdleOK DEF InsertBooking, Idle, Critical
  <1>9. job[r].at \in Critical /\ \A a \in BookingId \ {new} : a # job[r].id
      BY <1>1, <1>2, NullAssumption DEF Critical
  <1> QED
      BY <1>3, <1>4, <1>5, <1>6, <1>7, <1>8, <1>9, CriticalWrite

\* A promotion enters with the first booking in line, or finds nobody.
LEMMA PromoteStep ==
    ASSUME IInv, NEW r \in Request, Promote(r)
    PROVE  IInv'
  <1> DEFINE v == job[r].draft.vehicle
             Entered(w) == [Idle EXCEPT !.at = "confirm", !.id = w, !.seen = store[w],
                                        !.draft = Confirm(store[w])]
  <1>1. TypeOK /\ JobOK(r) /\ job[r].at = "promote"
      BY DEF IInv, Promote
  <1>2. job[r].draft \in BookingRecord /\ v \in Vehicle
      BY SMTT(60), <1>1 DEF JobOK, BookingRecord
  <1>3. CASE Become(r, Idle) /\ UNCHANGED lock
      BY <1>3, LeaveStep DEF Promote
  <1>4. ASSUME NEW w \in FirstInLine(v), Become(r, Entered(w)),
               lock' = [lock EXCEPT ![v] = r]
        PROVE  IInv'
    <2> DEFINE j == Entered(w)
    <2>1. /\ w \in BookingId /\ store[w] \in BookingRecord
          /\ store[w].vehicle = v /\ ~Conflict(v, store[w].slot, w)
        BY <1>1 DEF FirstInLine, Eligible, WaitlistOf, Existing, TypeOK, MaybeBooking
    <2>2. /\ Confirm(store[w]) \in BookingRecord
          /\ Confirm(store[w]).vehicle = v
          /\ Confirm(store[w]).slot = store[w].slot
        BY <2>1 DEF Confirm, BookingRecord, Status
    <2>3. /\ "confirm" \in Point
          /\ store[w] \in MaybeBooking /\ Confirm(store[w]) \in MaybeBooking
        BY <2>1, <2>2 DEF Point, Critical, MaybeBooking
    <2>4. j \in Job
        BY <2>1, <2>3, IdleInJob DEF Job
    <2>5. /\ j.at = "confirm" /\ j.id = w /\ j.seen = store[w]
          /\ j.draft = Confirm(store[w])
        BY DEF Idle
    <2>6. job'[r] = j
        BY <1>1, <1>4, BecomeEffect
    <2>7. Become(r, j)
        BY <1>4
    <2> HIDE DEF j
    <2>8. JobOK(r)'
        BY <2>1, <2>2, <2>5, <2>6 DEF JobOK
    <2>9. j.at \in Critical
        BY <2>5 DEF Critical
    <2>10. /\ CanEnter(v)
           /\ UNCHANGED <<store, now, calls, clobbered, overrun, faults>>
        BY DEF Promote
    <2> QED
        BY <1>2, <1>4, <2>1, <2>2, <2>4, <2>5, <2>7, <2>8, <2>9, <2>10, EnterStep
  <1> HIDE DEF Entered
  <1> QED
      BY <1>3, <1>4 DEF Promote, Entered

\* The promoted booking is saved.
LEMMA ConfirmStep ==
    ASSUME IInv, NEW r \in Request, ConfirmPromotion(r)
    PROVE  IInv'
  <1>1. TypeOK /\ JobOK(r) /\ job[r].at = "confirm"
      BY DEF IInv, ConfirmPromotion
  <1>2. /\ job[r].id \in BookingId
        /\ job[r].draft \in BookingRecord /\ job[r].draft.vehicle \in Vehicle
      BY <1>1 DEF JobOK, BookingRecord
  <1>3. /\ store' = [store EXCEPT ![job[r].id] = job[r].draft]
        /\ clobbered \subseteq clobbered' /\ clobbered' \subseteq BookingId
        /\ NoteOverrun(r, job[r].id)
      BY <1>1, <1>2 DEF ConfirmPromotion, Write, TypeOK
  <1>4. /\ job'[r] = Idle
        /\ \A q \in Request \ {r} : job'[q] = job[q]
        /\ job' \in [Request -> Job]
      BY <1>1, IdleInJob, BecomeEffect DEF ConfirmPromotion
  <1>5. /\ lock' \in [Vehicle -> Request \cup {NoRequest}]
        /\ \A q \in Request \ {r} : \A u \in Vehicle : lock[u] = q => lock'[u] = q
      BY <1>1, <1>2, ReleaseEffect DEF ConfirmPromotion
  <1>6. TypeOK'
      BY <1>1, <1>2, <1>3, <1>4, <1>5
      DEF ConfirmPromotion, NoteOverrun, TypeOK, MaybeBooking
  <1>7. JobOK(r)' /\ job'[r].at \notin Critical /\ job[r].at \in Critical
      BY <1>1, <1>4, IdleOK DEF Idle, Critical
  <1> QED
      BY <1>2, <1>3, <1>4, <1>5, <1>6, <1>7, CriticalWrite

\* A move enters, or its new slot is taken.
LEMMA MoveStep ==
    ASSUME IInv, NEW r \in Request, Move(r)
    PROVE  IInv'
  <1> DEFINE v == job[r].draft.vehicle
             j == [job[r] EXCEPT !.at = "moveInsert"]
  <1>1. TypeOK /\ JobOK(r) /\ job[r] \in Job /\ job[r].at = "move"
      BY DEF IInv, TypeOK, Move
  <1>2. job[r].draft \in BookingRecord /\ v \in Vehicle
      BY <1>1 DEF JobOK, BookingRecord
  <1>3. CASE Become(r, Idle) /\ UNCHANGED lock
      BY <1>3, LeaveStep DEF Move
  <1>4. CASE /\ ~Conflict(v, job[r].draft.slot, job[r].id)
             /\ Become(r, j)
             /\ lock' = [lock EXCEPT ![v] = r]
    <2>1. "moveInsert" \in Point
        BY DEF Point, Critical
    <2>2. /\ j \in Job /\ j.at = "moveInsert" /\ j.id = job[r].id
          /\ j.seen = job[r].seen /\ j.draft = job[r].draft
        BY <1>1, <2>1 DEF Job
    <2>3. job'[r] = j
        BY <1>1, <1>4, BecomeEffect
    <2>4. Become(r, j)
        BY <1>4
    <2> HIDE DEF j
    <2>5. JobOK(r)'
        BY <1>1, <2>2, <2>3 DEF JobOK
    <2>6. j.at \in Critical
        BY <2>2 DEF Critical
    <2>7. /\ CanEnter(v)
          /\ UNCHANGED <<store, now, calls, clobbered, overrun, faults>>
        BY DEF Move
    <2> QED
        BY <1>2, <1>4, <2>2, <2>4, <2>5, <2>6, <2>7, EnterStep
  <1> QED
      BY <1>3, <1>4 DEF Move

\* The replacement is saved; it may overlap its original, to which it is
\* related.
LEMMA InsertReplacementStep ==
    ASSUME IInv, NEW r \in Request, InsertReplacement(r)
    PROVE  IInv'
  <1>1. TypeOK /\ JobOK(r) /\ job[r] \in Job /\ job[r].at = "moveInsert"
      BY DEF IInv, TypeOK, InsertReplacement
  <1>2. /\ job[r].draft \in BookingRecord /\ job[r].draft.vehicle \in Vehicle
        /\ job[r].draft.rescheduledFrom = job[r].id
        /\ job[r].id \in BookingId /\ job[r].seen \in BookingRecord
      BY <1>1 DEF JobOK, BookingRecord
  <1>3. PICK new \in Unused :
            /\ store' = [store EXCEPT ![new] = job[r].draft]
            /\ NoteOverrun(r, new)
            /\ Become(r, IF job[r].late THEN Idle
                         ELSE [job[r] EXCEPT !.at = "retire", !.moved = new])
      BY DEF InsertReplacement
  <1>4. new \in BookingId
      BY DEF Unused
  <1>5. /\ JobOK(r)' /\ job'[r].at \notin Critical
        /\ \A q \in Request \ {r} : job'[q] = job[q]
        /\ job' \in [Request -> Job]
    <2>1. CASE job[r].late
      <3>1. Become(r, Idle)
          BY <1>3, <2>1
      <3>2. /\ job'[r] = Idle
            /\ \A q \in Request \ {r} : job'[q] = job[q]
            /\ job' \in [Request -> Job]
          BY <1>1, <3>1, IdleInJob, BecomeEffect
      <3>3. job'[r].at \notin Critical
          BY <3>2 DEF Idle, Critical
      <3> QED
          BY <3>2, <3>3, IdleOK
    <2>2. CASE ~job[r].late
      <3> DEFINE j == [job[r] EXCEPT !.at = "retire", !.moved = new]
      <3>1. "retire" \in Point
          BY DEF Point
      <3>2. /\ j \in Job /\ j.at = "retire" /\ j.id = job[r].id /\ j.seen = job[r].seen
            /\ j.draft = job[r].draft /\ j.moved = new
          BY <1>1, <1>4, <3>1 DEF Job
      <3>3. Become(r, j)
          BY <1>3, <2>2
      <3> HIDE DEF j
      <3>4. /\ job'[r] = j
            /\ \A q \in Request \ {r} : job'[q] = job[q]
            /\ job' \in [Request -> Job]
          BY <1>1, <3>2, <3>3, BecomeEffect
      <3>5. JobOK(r)' /\ job'[r].at \notin Critical
          BY <1>2, <1>4, <3>2, <3>4 DEF JobOK, Critical
      <3> QED
          BY <3>4, <3>5
    <2> QED
        BY <2>1, <2>2
  <1>6. /\ lock' \in [Vehicle -> Request \cup {NoRequest}]
        /\ \A q \in Request \ {r} : \A u \in Vehicle : lock[u] = q => lock'[u] = q
      BY <1>1, <1>2, ReleaseEffect DEF InsertReplacement
  <1>7. TypeOK'
      BY <1>1, <1>2, <1>3, <1>4, <1>5, <1>6
      DEF InsertReplacement, NoteOverrun, TypeOK, MaybeBooking
  <1>8. job[r].at \in Critical /\ clobbered \subseteq clobbered'
      BY <1>1 DEF InsertReplacement, Critical
  <1> QED
      BY <1>2, <1>3, <1>4, <1>5, <1>6, <1>7, <1>8, CriticalWrite

-----------------------------------------------------------------------------
(* The theorems                                                            *)

\* Every step keeps the invariant: one case per action of Next.
LEMMA NextKeepsIInv == IInv /\ [Next]_vars => IInv'
  <1> SUFFICES ASSUME IInv, [Next]_vars PROVE IInv'
      OBVIOUS
  <1>1. ASSUME NEW r \in Request, CustomerCall(r) PROVE IInv'
    <2>1. ASSUME NEW v \in Vehicle, NEW s \in Slot, Create(r, v, s) PROVE IInv'
        BY <2>1, CreateStep
    <2>2. ASSUME NEW b \in Existing, NEW a \in Audience, CancelBooking(r, b, a)
          PROVE  IInv'
        BY <2>2, CancelStep
    <2>3. ASSUME NEW b \in Existing, NEW s \in Slot, NEW a \in Audience,
                 RescheduleBooking(r, b, s, a)
          PROVE  IInv'
        BY <2>3, RescheduleStep
    <2> QED
        BY <1>1, <2>1, <2>2, <2>3 DEF CustomerCall
  <1>2. ASSUME NEW r \in Request, StaffCall(r) PROVE IInv'
      BY <1>2, StaffStep
  <1>3. ASSUME NEW r \in Request, Proceed(r) PROVE IInv'
    <2>1. CASE Reserve(r)
        BY <2>1, ReserveStep
    <2>2. CASE InsertBooking(r)
        BY <2>2, InsertStep
    <2>3. CASE Promote(r)
        BY <2>3, PromoteStep
    <2>4. CASE ConfirmPromotion(r)
        BY <2>4, ConfirmStep
    <2>5. CASE SaveCancel(r)
        BY <2>5, SaveCancelStep
    <2>6. CASE Move(r)
        BY <2>6, MoveStep
    <2>7. CASE InsertReplacement(r)
        BY <2>7, InsertReplacementStep
    <2>8. CASE RetireOriginal(r)
        BY <2>8, RetireStep
    <2>9. CASE Withdraw(r)
        BY <2>9, WithdrawStep
    <2>10. CASE SaveBooking(r)
        BY <2>10, SaveBookingStep
    <2> QED
        BY <1>3, <2>1, <2>2, <2>3, <2>4, <2>5, <2>6, <2>7, <2>8, <2>9, <2>10 DEF Proceed
  <1>4. ASSUME NEW r \in Request, SaveFails(r) \/ Abandon(r) PROVE IInv'
      BY <1>4, GiveUpStep
  <1>5. ASSUME NEW v \in Vehicle, LockExpires(v) PROVE IInv'
      BY <1>5, ExpiryStep
  <1>6. CASE Tick \/ UNCHANGED vars
      BY <1>6, QuietStep
  <1> QED
      BY <1>1, <1>2, <1>3, <1>4, <1>5, <1>6 DEF Next

\* IInv holds in every reachable state, whatever the constants and however
\* many saves fail, locks expire and requests die.
THEOREM DeskInvariant == Spec => []IInv
  BY InitIInv, NextKeepsIInv, PTL DEF Spec

\* Type correctness.
THEOREM DeskTypes == Spec => []TypeOK
  <1>1. IInv => TypeOK
      BY DEF IInv
  <1> QED
      BY <1>1, DeskInvariant, PTL

\* Two bookings that occupy a vehicle at one time are a booking and its
\* replacement, or one of them went through a lost update or an expired lock.
THEOREM NoDoubleBookingTheorem == Spec => []NoDoubleBooking
  <1>1. IInv => NoDoubleBooking
      BY DEF IInv
  <1> QED
      BY <1>1, DeskInvariant, PTL
=============================================================================
