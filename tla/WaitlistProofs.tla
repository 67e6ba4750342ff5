---------------------------- MODULE WaitlistProofs ----------------------------
(***************************************************************************)
(* Proofs about the waitlist and about reschedules at the booking desk,    *)
(* for any number of vehicles, slots, bookings and requests.               *)
(*                                                                         *)
(* Built on IInv (BookingDeskProofs).  KnowInv says what a request knows   *)
(* of the bookings it works on, from the entity's guards; StoreStep then   *)
(* says what any step does to a booking.  On these rest QueueInv (who is   *)
(* next in line), TwinInv (a booking and its replacement) and OfferInv     *)
(* (freed slots and the promotions under way).                             *)
(***************************************************************************)
EXTENDS BookingDeskProofs, FiniteSetTheorems

\* What a booking keeps for its lifetime.
SameTrip(b, c) == b.vehicle = c.vehicle /\ b.slot = c.slot /\ b.rescheduledFrom = c.rescheduledFrom

\* The status changes of a staff operation, and of any save.
StaffEdit == {<<"Confirmed", "InProgress">>, <<"InProgress", "Completed">>, <<"Confirmed", "NoShow">>}
Lifecycle ==
    {<<s, s>> : s \in Status} \cup StaffEdit
    \cup {<<s, "Cancelled">> : s \in Status \ Inactive} \cup {<<"Waitlisted", "Confirmed">>}

\* The record request r read still has the trip that it had then, and what the
\* entity's guards said of it goes for the draft.
Knows(r) ==
    LET j == job[r] IN
    /\ j.id # NoBooking =>
          /\ j.id \in Existing /\ SameTrip(j.seen, store[j.id])
          /\ j.seen.status = "Waitlisted" => j.seen.rescheduledFrom = NoBooking
    /\ j.at = "save" =>
          /\ j.draft.waitlistPosition = j.seen.waitlistPosition
          /\ j.draft.status = j.seen.status \/ <<j.seen.status, j.draft.status>> \in StaffEdit
    /\ j.at \in {"cancel", "move", "moveInsert", "retire", "withdraw"} => j.seen.status \notin Inactive
    /\ j.at \in {"cancel", "confirm"} => SameTrip(j.draft, j.seen)
    /\ j.at = "confirm" => j.seen.status = "Waitlisted"
    /\ j.at \in {"confirm", "move", "moveInsert", "retire", "withdraw"} => j.draft.status = "Confirmed"
    /\ j.at \in {"retire", "withdraw"} =>
          /\ j.moved \in Existing /\ SameTrip(j.draft, store[j.moved])
          /\ j.draft.rescheduledFrom = j.id
    /\ j.at \in {"save", "cancel", "move", "moveInsert", "retire", "withdraw", "confirm"} => j.id # NoBooking
    /\ j.at \in {"reserve", "insert"} => j.draft.rescheduledFrom = NoBooking
    /\ j.at = "insert" => j.draft.status \in {"Confirmed", "Waitlisted"}

\* A replacement was made for a booking that exists, and never waits.
RecordOK(b) ==
    store[b].rescheduledFrom # NoBooking =>
        store[b].rescheduledFrom \in Existing /\ store[b].status # "Waitlisted"

KnowInv == (\A r \in Request : Knows(r)) /\ \A b \in Existing : RecordOK(b)

DeskInv == IInv /\ KnowInv

-----------------------------------------------------------------------------
(* What a step does to the store                                           *)

\* Request r saves a new record.
Inserts(r, new) ==
    /\ new \in Unused
    /\ job[r].at \in {"insert", "moveInsert"}
    /\ store' = [store EXCEPT ![new] = job[r].draft]
    /\ clobbered' = clobbered
    /\ NoteOverrun(r, new)

\* A save of rec over booking b, of which seen was read.
Overwrites(b, seen, rec) ==
    /\ b \in Existing /\ seen \in BookingRecord /\ rec \in BookingRecord
    /\ Write(b, seen, rec)
    /\ overrun \subseteq overrun'
    /\ SameTrip(rec, seen) /\ SameTrip(seen, store[b])
    /\ <<seen.status, rec.status>> \in Lifecycle
    /\ rec.status = "Waitlisted" =>
          rec.waitlistPosition = seen.waitlistPosition /\ rec.rescheduledFrom = NoBooking

\* Bookings keep their trips, and unless they are tainted go through their
\* lifecycle and wait where they waited.
StoreStep ==
    /\ Tainted \subseteq Tainted'
    /\ \A b \in Existing :
          /\ b \in Existing' /\ SameTrip(store'[b], store[b])
          /\ b \notin Tainted' =>
                /\ <<store[b].status, store'[b].status>> \in Lifecycle
                /\ store'[b].status = "Waitlisted" => store'[b].waitlistPosition = store[b].waitlistPosition
    /\ \A b \in Existing' : RecordOK(b)'

\* The facts of types that every proof here starts from.
LEMMA Typed ==
    ASSUME IInv
    PROVE  /\ TypeOK
           /\ \A b \in Existing : b \in BookingId /\ store[b] \in BookingRecord
           /\ \A r \in Request : job[r] \in Job /\ JobOK(r)
           /\ NoBooking \notin BookingId /\ NoBooking \notin BookingRecord
  BY NullAssumption, NoRecordAssumption DEF IInv, TypeOK, Existing, MaybeBooking

LEMMA OverwriteIsStoreStep ==
    ASSUME DeskInv, NEW b, NEW seen, NEW rec, Overwrites(b, seen, rec)
    PROVE  StoreStep
  <1>1. /\ TypeOK /\ b \in BookingId /\ \A a \in Existing : a \in BookingId /\ store[a] \in BookingRecord
        /\ NoBooking \notin BookingRecord
    BY Typed DEF DeskInv, Overwrites
  <1>2. /\ store' = [store EXCEPT ![b] = rec]
        /\ store'[b] = rec /\ \A a \in BookingId \ {b} : store'[a] = store[a]
        /\ clobbered \subseteq clobbered' /\ (store[b] # seen => b \in clobbered')
    BY <1>1 DEF Overwrites, Write, TypeOK
  <1>3. Existing' = Existing
    BY <1>1, <1>2 DEF Existing, Overwrites
  <1>4. Tainted \subseteq Tainted'
    BY <1>2 DEF Tainted, Overwrites
  <1>5. ASSUME NEW a \in Existing
        PROVE  /\ SameTrip(store'[a], store[a])
               /\ a \notin Tainted' =>
                     /\ <<store[a].status, store'[a].status>> \in Lifecycle
                     /\ store'[a].status = "Waitlisted" => store'[a].waitlistPosition = store[a].waitlistPosition
               /\ RecordOK(a)'
    <2>1. RecordOK(a) /\ a \in BookingId /\ store[a].status \in Status
      BY <1>1 DEF DeskInv, KnowInv, BookingRecord
    <2>2. CASE a = b
      <3>1. SameTrip(store'[a], store[a])
        BY <1>2, <2>2 DEF Overwrites, SameTrip
      <3>2. a \notin Tainted' => seen = store[a]
        BY <1>2, <2>2 DEF Tainted
      <3>3. RecordOK(a)'
        BY <1>2, <1>3, <2>1, <2>2, <3>1 DEF RecordOK, Overwrites, SameTrip
      <3> QED
        BY <1>2, <2>2, <3>1, <3>2, <3>3 DEF Overwrites
    <2>3. CASE a # b
      <3>1. store'[a] = store[a]
        BY <1>2, <2>1, <2>3
      <3>2. <<store[a].status, store[a].status>> \in Lifecycle
        BY <2>1 DEF Lifecycle
      <3> QED
        BY <1>3, <2>1, <3>1, <3>2 DEF SameTrip, RecordOK
    <2> QED
      BY <2>2, <2>3
  <1> QED
    BY <1>3, <1>4, <1>5 DEF StoreStep

LEMMA InsertIsStoreStep ==
    ASSUME DeskInv, NEW r \in Request, NEW new, Inserts(r, new)
    PROVE  /\ StoreStep
           /\ new \in BookingId \ Existing
           /\ Existing' = Existing \cup {new}
           /\ store'[new] = job[r].draft
           /\ \A a \in Existing : store'[a] = store[a]
           /\ new \notin Tainted' => ~job[r].late
  <1>1. /\ TypeOK /\ \A a \in Existing : a \in BookingId /\ store[a] \in BookingRecord
        /\ NoBooking \notin BookingRecord /\ NoBooking \notin BookingId
        /\ job[r].draft \in BookingRecord
    BY Typed DEF DeskInv, Inserts, JobOK
  <1>2. new \in BookingId \ Existing
    BY DEF Inserts, Unused
  <1>3. store'[new] = job[r].draft /\ \A a \in BookingId \ {new} : store'[a] = store[a]
    BY <1>1, <1>2 DEF Inserts, TypeOK
  <1>4. Existing' = Existing \cup {new} /\ \A a \in Existing : store'[a] = store[a]
    BY <1>1, <1>2, <1>3 DEF Existing
  <1>5. Tainted \subseteq Tainted' /\ (new \notin Tainted' => ~job[r].late)
    BY DEF Inserts, NoteOverrun, Tainted
  <1>6. ASSUME NEW a \in Existing
        PROVE  /\ SameTrip(store'[a], store[a])
               /\ <<store[a].status, store'[a].status>> \in Lifecycle
               /\ RecordOK(a)'
    <2>1. store'[a] = store[a] /\ RecordOK(a) /\ store[a].status \in Status
      BY <1>1, <1>4 DEF DeskInv, KnowInv, BookingRecord
    <2>2. <<store[a].status, store[a].status>> \in Lifecycle
      BY <2>1 DEF Lifecycle
    <2> QED
      BY <1>4, <2>1, <2>2 DEF SameTrip, RecordOK
  <1>7. RecordOK(new)'
    <2>1. Knows(r) /\ JobOK(r)
      BY DEF DeskInv, KnowInv, IInv
    <2>2. job[r].at = "insert" => job[r].draft.rescheduledFrom = NoBooking
      BY <2>1 DEF Knows
    <2>3. job[r].at = "moveInsert" =>
            /\ job[r].draft.rescheduledFrom \in Existing
            /\ job[r].draft.status # "Waitlisted"
      BY <2>1 DEF Knows, JobOK
    <2> QED
      BY <1>3, <1>4, <2>2, <2>3 DEF RecordOK, Inserts
  <1> QED
    BY <1>2, <1>3, <1>4, <1>5, <1>6, <1>7 DEF StoreStep

LEMMA NoWriteIsStoreStep ==
    ASSUME DeskInv, UNCHANGED <<store, clobbered, overrun>>
    PROVE  StoreStep
  <1>1. \A a \in Existing : RecordOK(a) /\ store[a].status \in Status
    BY Typed DEF DeskInv, KnowInv, BookingRecord
  <1>2. \A a \in Existing : <<store[a].status, store[a].status>> \in Lifecycle
    BY <1>1 DEF Lifecycle
  <1> QED
    BY <1>1, <1>2 DEF StoreStep, Existing, Tainted, SameTrip, RecordOK

-----------------------------------------------------------------------------
(* Every step is a StoreStep, and requests go on knowing what they knew    *)

LEMMA OthersKnow ==
    ASSUME DeskInv, StoreStep, NEW q \in Request,
           job'[q] \in {job[q], [job[q] EXCEPT !.late = TRUE]}
    PROVE  Knows(q)'
  <1>1. /\ job[q] \in Job /\ Knows(q)
        /\ job[q].id # NoBooking => job[q].id \in Existing
      BY Typed DEF DeskInv, KnowInv, Knows
  <1>2. /\ job'[q].at = job[q].at /\ job'[q].id = job[q].id /\ job'[q].seen = job[q].seen
        /\ job'[q].draft = job[q].draft /\ job'[q].moved = job[q].moved
      BY <1>1 DEF Job
  <1>3. ASSUME NEW b \in Existing, NEW c, SameTrip(c, store[b])
        PROVE  b \in Existing' /\ SameTrip(c, store'[b])
      BY <1>3 DEF StoreStep, SameTrip
  <1>4. job[q].id # NoBooking =>
            job'[q].id \in Existing' /\ SameTrip(job'[q].seen, store'[job'[q].id])
      BY <1>1, <1>2, <1>3 DEF Knows
  <1>5. job[q].at \in {"retire", "withdraw"} =>
            job'[q].moved \in Existing' /\ SameTrip(job'[q].draft, store'[job'[q].moved])
      BY <1>1, <1>2, <1>3 DEF Knows
  <1> QED
      BY <1>1, <1>2, <1>4, <1>5 DEF Knows

\* What is left to show of a step of request r.
LEMMA RequestStep ==
    ASSUME DeskInv, IInv', StoreStep, NEW r \in Request, Knows(r)',
           \A q \in Request \ {r} : job'[q] = job[q]
    PROVE  DeskInv'
  <1>1. \A q \in Request : Knows(q)'
      BY OthersKnow
  <1> QED
      BY <1>1 DEF DeskInv, KnowInv, StoreStep

\* A request that is done, or is about to promote, claims no knowledge.
LEMMA NothingKnown ==
    ASSUME NEW r \in Request, job'[r] = Idle \/ \E b : job'[r] = FollowUp(b)
    PROVE  Knows(r)'
  <1>1. \A b : FollowUp(b) \in {Idle, Promotion(b)}
      BY DEF FollowUp
  <1>2. /\ Idle.id = NoBooking /\ Idle.at = "idle"
        /\ \A b : Promotion(b).id = NoBooking /\ Promotion(b).at = "promote"
      BY DEF Promotion, Idle
  <1>3. job'[r].id = NoBooking /\ job'[r].at \in {"idle", "promote"}
      BY <1>1, <1>2
  <1> QED
      BY <1>3 DEF Knows

\* Calls that begin with a read.
LEMMA ReadKnows ==
    ASSUME DeskInv, IInv', NEW r \in Request, NEW b \in Existing, NEW draft,
           NEW at \in {"save", "cancel", "move"}, Read(r, b, at, draft),
           at = "save" =>
               /\ draft.waitlistPosition = store[b].waitlistPosition
               /\ draft.status = store[b].status \/ <<store[b].status, draft.status>> \in StaffEdit,
           at \in {"cancel", "move"} => store[b].status \notin Inactive,
           at = "cancel" => SameTrip(draft, store[b]),
           at = "move" => draft.status = "Confirmed"
    PROVE  StoreStep /\ DeskInv'
  <1> DEFINE j == [Idle EXCEPT !.at = at, !.id = b, !.seen = store[b], !.draft = draft]
  <1>1. /\ TypeOK /\ b \in BookingId /\ b # NoBooking /\ store[b] \in BookingRecord /\ RecordOK(b)
      BY Typed DEF DeskInv, KnowInv
  <1>2. j.at = at /\ j.id = b /\ j.seen = store[b] /\ j.draft = draft
      BY DEF Idle
  <1>3. job'[r] = j /\ \A q \in Request \ {r} : job'[q] = job[q]
      BY <1>1, BecomeEffect DEF Read, Call
  <1>4. store' = store /\ StoreStep
      BY NoWriteIsStoreStep DEF Read
  <1>5. b \in Existing' /\ SameTrip(j.seen, store'[b])
      BY <1>2, <1>4 DEF Existing, SameTrip
  <1> HIDE DEF j
  <1>6. Knows(r)'
      BY <1>1, <1>2, <1>3, <1>5 DEF Knows, RecordOK
  <1> QED
      BY <1>3, <1>4, <1>6, RequestStep

LEMMA CustomerCallKnows ==
    ASSUME DeskInv, IInv', NEW r \in Request, CustomerCall(r)
    PROVE  StoreStep /\ DeskInv'
  <1>1. ASSUME NEW v \in Vehicle, NEW s \in Slot, Create(r, v, s) PROVE StoreStep /\ DeskInv'
    <2> DEFINE j == [Idle EXCEPT !.at = "reserve", !.draft = Requested(v, s)]
    <2>1. job'[r] = j /\ \A q \in Request \ {r} : job'[q] = job[q]
        BY <1>1, Typed, BecomeEffect DEF DeskInv, Create, Call
    <2>2. j.at = "reserve" /\ j.id = NoBooking /\ j.draft.rescheduledFrom = NoBooking
        BY DEF Idle, Requested
    <2> HIDE DEF j
    <2>3. Knows(r)'
        BY <2>1, <2>2 DEF Knows
    <2>4. StoreStep
        BY <1>1, NoWriteIsStoreStep DEF Create
    <2> QED
        BY <2>1, <2>3, <2>4, RequestStep
  <1>2. ASSUME NEW b \in Existing, NEW a \in Audience, CancelBooking(r, b, a) PROVE StoreStep /\ DeskInv'
    <2>1. SameTrip(Cancel(store[b]), store[b]) /\ store[b].status \notin Inactive
        BY <1>2, Typed DEF DeskInv, Cancel, SameTrip, BookingRecord, CancelBooking, CanChange
    <2> QED
        BY <1>2, <2>1, ReadKnows DEF CancelBooking
  <1>3. ASSUME NEW b \in Existing, NEW s \in Slot, NEW a \in Audience, RescheduleBooking(r, b, s, a)
        PROVE  StoreStep /\ DeskInv'
    <2>1. Confirm(Replacement(store[b], b, s)).status = "Confirmed" /\ store[b].status \notin Inactive
        BY <1>3, Typed DEF DeskInv, Confirm, Replacement, BookingRecord, RescheduleBooking, CanChange
    <2> QED
        BY <1>3, <2>1, ReadKnows DEF RescheduleBooking
  <1> QED
      BY <1>1, <1>2, <1>3 DEF CustomerCall, DeskInv

LEMMA StaffCallKnows ==
    ASSUME DeskInv, IInv', NEW r \in Request, StaffCall(r)
    PROVE  StoreStep /\ DeskInv'
  <1>1. PICK b \in Existing :
            \/ ReassignRep(r, b) \/ SetNotes(r, b) \/ CheckInBooking(r, b)
            \/ StartDrive(r, b) \/ CompleteDrive(r, b) \/ RecordNoShow(r, b)
      BY DEF StaffCall
  <1>2. PICK draft :
               /\ Read(r, b, "save", draft)
               /\ draft.waitlistPosition = store[b].waitlistPosition
               /\ draft.status = store[b].status \/ <<store[b].status, draft.status>> \in StaffEdit
    <2>1. store[b] \in BookingRecord
        BY Typed DEF DeskInv
    <2>2. CASE ReassignRep(r, b)
      <3>1. PICK rep \in Rep : Read(r, b, "save", AssignRep(store[b], rep))
          BY <2>2 DEF ReassignRep
      <3> QED
          BY <2>1, <3>1 DEF AssignRep, BookingRecord
    <2>3. CASE SetNotes(r, b)
        BY <2>1, <2>3 DEF SetNotes
    <2>4. CASE CheckInBooking(r, b)
        BY <2>1, <2>4 DEF CheckInBooking, CheckIn, BookingRecord
    <2>5. CASE StartDrive(r, b)
        BY <2>1, <2>5 DEF StartDrive, Start, CanStart, BookingRecord, StaffEdit
    <2>6. CASE CompleteDrive(r, b)
        BY <2>1, <2>6 DEF CompleteDrive, Complete, CanComplete, BookingRecord, StaffEdit
    <2>7. CASE RecordNoShow(r, b)
        BY <2>1, <2>7 DEF RecordNoShow, MarkNoShow, CanMarkNoShow, BookingRecord, StaffEdit
    <2> QED
        BY <1>1, <2>2, <2>3, <2>4, <2>5, <2>6, <2>7
  <1> QED
      BY <1>2, ReadKnows

\* Steps that end a request, or its way to the lock, without writing.
LEMMA LeaveKnows ==
    ASSUME DeskInv, IInv', NEW r \in Request, Become(r, Idle),
           UNCHANGED <<store, clobbered, overrun>>
    PROVE  StoreStep /\ DeskInv'
  <1>1. job'[r] = Idle /\ \A q \in Request \ {r} : job'[q] = job[q]
      BY Typed, BecomeEffect DEF DeskInv
  <1> QED
      BY <1>1, NoWriteIsStoreStep, NothingKnown, RequestStep

\* What the saves overwrite, and with what.
LEMMA SaveOverwrites ==
    ASSUME DeskInv, NEW r \in Request
    PROVE  /\ SaveBooking(r) => Overwrites(job[r].id, job[r].seen, job[r].draft)
           /\ SaveCancel(r) => Overwrites(job[r].id, job[r].seen, job[r].draft)
           /\ ConfirmPromotion(r) => Overwrites(job[r].id, job[r].seen, job[r].draft)
           /\ RetireOriginal(r) => Overwrites(job[r].id, job[r].seen, Cancel(job[r].seen))
           /\ Withdraw(r) /\ CanChange(job[r].draft, 0, now) =>
                 Overwrites(job[r].moved, job[r].draft, Cancel(job[r].draft))
  <1>1. /\ Knows(r) /\ JobOK(r)
        /\ \A b \in BookingRecord :
              /\ Cancel(b) \in BookingRecord /\ SameTrip(Cancel(b), b) /\ Cancel(b).status = "Cancelled"
              /\ b.status \in Status
              /\ b.status \notin Inactive => <<b.status, "Cancelled">> \in Lifecycle
      BY Typed DEF DeskInv, KnowInv, Cancel, SameTrip, BookingRecord, Lifecycle, Status
  <1>2. ASSUME SaveBooking(r)
        PROVE  Overwrites(job[r].id, job[r].seen, job[r].draft)
    <2>1. /\ job[r].at = "save" /\ job[r].id # NoBooking
          /\ job[r].seen \in BookingRecord /\ job[r].draft \in BookingRecord
          /\ SameTrip(job[r].draft, job[r].seen)
        BY <1>1, <1>2 DEF SaveBooking, JobOK, Knows, SameTrip
    <2>2. <<job[r].seen.status, job[r].draft.status>> \in Lifecycle
        BY <1>1, <2>1 DEF Knows, Lifecycle
    <2>3. job[r].draft.status = "Waitlisted" => job[r].seen.status = "Waitlisted"
        BY <1>1, <2>1 DEF Knows, StaffEdit
    <2> QED
        BY <1>1, <1>2, <2>1, <2>2, <2>3 DEF SaveBooking, Overwrites, Knows, SameTrip
  <1>3. ASSUME SaveCancel(r)
        PROVE  Overwrites(job[r].id, job[r].seen, job[r].draft)
    <2>1. /\ job[r].at = "cancel" /\ job[r].id # NoBooking /\ job[r].draft.status = "Cancelled"
          /\ job[r].seen \in BookingRecord /\ job[r].draft \in BookingRecord
          /\ SameTrip(job[r].draft, job[r].seen) /\ job[r].seen.status \notin Inactive
        BY <1>1, <1>3 DEF SaveCancel, JobOK, Knows
    <2> QED
        BY <1>1, <1>3, <2>1 DEF SaveCancel, Overwrites, Knows
  <1>4. ASSUME ConfirmPromotion(r)
        PROVE  Overwrites(job[r].id, job[r].seen, job[r].draft)
    <2>1. /\ job[r].at = "confirm" /\ job[r].id # NoBooking
          /\ job[r].draft.status = "Confirmed" /\ job[r].seen.status = "Waitlisted"
          /\ job[r].seen \in BookingRecord /\ job[r].draft \in BookingRecord
          /\ SameTrip(job[r].draft, job[r].seen)
        BY <1>1, <1>4 DEF ConfirmPromotion, JobOK, Knows
    <2>2. <<"Waitlisted", "Confirmed">> \in Lifecycle
        BY DEF Lifecycle
    <2> QED
        BY <1>1, <1>4, <2>1, <2>2 DEF ConfirmPromotion, NoteOverrun, Overwrites, Knows
  <1>5. ASSUME RetireOriginal(r)
        PROVE  Overwrites(job[r].id, job[r].seen, Cancel(job[r].seen))
    <2>1. /\ job[r].at = "retire" /\ job[r].id # NoBooking
          /\ job[r].seen \in BookingRecord /\ job[r].seen.status \notin Inactive
        BY <1>1, <1>5 DEF RetireOriginal, JobOK, Knows
    <2> QED
        BY <1>1, <1>5, <2>1 DEF RetireOriginal, Original, Overwrites, Knows
  <1>6. ASSUME Withdraw(r) /\ CanChange(job[r].draft, 0, now)
        PROVE  Overwrites(job[r].moved, job[r].draft, Cancel(job[r].draft))
    <2>1. /\ job[r].at = "withdraw" /\ job[r].moved \in Existing
          /\ job[r].draft \in BookingRecord /\ job[r].draft.status \notin Inactive
        BY <1>1, <1>6 DEF Withdraw, JobOK, Knows, CanChange
    <2> QED
        BY <1>1, <1>6, <2>1 DEF Withdraw, Overwrites, Knows
  <1> QED
      BY <1>2, <1>3, <1>4, <1>5, <1>6

LEMMA SavesKnow ==
    ASSUME DeskInv, IInv', NEW r \in Request,
           SaveBooking(r) \/ SaveCancel(r) \/ ConfirmPromotion(r) \/ RetireOriginal(r) \/ Withdraw(r)
    PROVE  StoreStep /\ DeskInv'
  <1>1. StoreStep
    <2>1. CASE Withdraw(r) /\ ~CanChange(job[r].draft, 0, now)
        BY <2>1, NoWriteIsStoreStep DEF Withdraw
    <2>2. CASE ~(Withdraw(r) /\ ~CanChange(job[r].draft, 0, now))
        BY <2>2, SaveOverwrites, OverwriteIsStoreStep
    <2> QED
        BY <2>1, <2>2
  <1>2. PICK j : Become(r, j) /\ (j = Idle \/ \E b : j = FollowUp(b))
      BY DEF SaveBooking, SaveCancel, ConfirmPromotion, RetireOriginal, Withdraw
  <1>3. job'[r] = j /\ \A q \in Request \ {r} : job'[q] = job[q]
      BY SMTT(60), <1>2, Typed, BecomeEffect DEF DeskInv
  <1> QED
      BY <1>1, <1>2, <1>3, NothingKnown, RequestStep

LEMMA ReserveKnows ==
    ASSUME DeskInv, IInv', NEW r \in Request, Reserve(r)
    PROVE  StoreStep /\ DeskInv'
  <1> DEFINE Insert(draft) == [job[r] EXCEPT !.at = "insert", !.draft = draft]
  <1>1. /\ TypeOK /\ job[r] \in Job /\ job[r].id = NoBooking /\ job[r].draft \in BookingRecord
        /\ job[r].draft.rescheduledFrom = NoBooking
      BY ZenonT(60), Typed DEF DeskInv, KnowInv, Knows, JobOK, Reserve
  <1>2. ASSUME NEW draft, Become(r, Insert(draft)), draft.rescheduledFrom = NoBooking,
               draft.status \in {"Confirmed", "Waitlisted"}
        PROVE  StoreStep /\ DeskInv'
    <2> DEFINE j == Insert(draft)
    <2>1. j.at = "insert" /\ j.id = NoBooking /\ j.draft = draft
        BY <1>1 DEF Job
    <2>2. job'[r] = j /\ \A q \in Request \ {r} : job'[q] = job[q]
        BY <1>1, <1>2, BecomeEffect
    <2> HIDE DEF j
    <2>3. Knows(r)'
        BY <1>2, <2>1, <2>2 DEF Knows
    <2> QED
        BY <2>2, <2>3, NoWriteIsStoreStep, RequestStep DEF Reserve
  <1>3. \A rep : LET d == AssignRep(Confirm(job[r].draft), rep)
                 IN  d.rescheduledFrom = NoBooking /\ d.status = "Confirmed"
      BY <1>1 DEF AssignRep, Confirm, BookingRecord
  <1>4. \A p : LET d == Waitlist(job[r].draft, p)
               IN  d.rescheduledFrom = NoBooking /\ d.status = "Waitlisted"
      BY SMTT(60), <1>1 DEF Waitlist, BookingRecord
  <1>5. \/ \E rep : Become(r, Insert(AssignRep(Confirm(job[r].draft), rep)))
        \/ \E p : Become(r, Insert(Waitlist(job[r].draft, p)))
        \/ Become(r, Idle)
      BY ZenonT(60) DEF Reserve
  <1> HIDE DEF Insert
  <1> QED
      BY ZenonT(60), <1>2, <1>3, <1>4, <1>5, LeaveKnows DEF Reserve

LEMMA PromoteKnows ==
    ASSUME DeskInv, IInv', NEW r \in Request, Promote(r)
    PROVE  StoreStep /\ DeskInv'
  <1> DEFINE Entered(w) == [Idle EXCEPT !.at = "confirm", !.id = w, !.seen = store[w],
                                        !.draft = Confirm(store[w])]
  <1>1. CASE Become(r, Idle)
      BY <1>1, LeaveKnows DEF Promote
  <1>2. ASSUME NEW w \in FirstInLine(job[r].draft.vehicle), Become(r, Entered(w))
        PROVE  StoreStep /\ DeskInv'
    <2> DEFINE j == Entered(w)
    <2>1. /\ w \in Existing /\ w # NoBooking /\ store[w] \in BookingRecord
          /\ store[w].status = "Waitlisted" /\ RecordOK(w)
        BY Typed DEF DeskInv, KnowInv, FirstInLine, Eligible, WaitlistOf
    <2>2. /\ SameTrip(Confirm(store[w]), store[w]) /\ Confirm(store[w]).status = "Confirmed"
          /\ SameTrip(store[w], store[w])
        BY <2>1 DEF Confirm, SameTrip, BookingRecord
    <2>3. j.at = "confirm" /\ j.id = w /\ j.seen = store[w] /\ j.draft = Confirm(store[w])
        BY DEF Idle
    <2>4. job'[r] = j /\ \A q \in Request \ {r} : job'[q] = job[q]
        BY SMTT(60), <1>2, Typed, BecomeEffect DEF DeskInv
    <2>5. store' = store /\ w \in Existing'
        BY <2>1 DEF Promote, Existing
    <2> HIDE DEF j
    <2>6. Knows(r)'
        BY <2>1, <2>2, <2>3, <2>4, <2>5 DEF Knows, RecordOK
    <2> QED
        BY <2>4, <2>6, NoWriteIsStoreStep, RequestStep DEF Promote
  <1> HIDE DEF Entered
  <1> QED
      BY <1>1, <1>2 DEF Promote, Entered

LEMMA MoveKnows ==
    ASSUME DeskInv, IInv', NEW r \in Request, Move(r)
    PROVE  StoreStep /\ DeskInv'
  <1> DEFINE j == [job[r] EXCEPT !.at = "moveInsert"]
  <1>1. CASE Become(r, Idle)
      BY <1>1, LeaveKnows DEF Move
  <1>2. CASE Become(r, j)
    <2>1. job[r] \in Job /\ Knows(r) /\ job[r].at = "move"
        BY Typed DEF DeskInv, KnowInv, Move
    <2>2. j.at = "moveInsert" /\ j.id = job[r].id /\ j.seen = job[r].seen /\ j.draft = job[r].draft
        BY <2>1 DEF Job
    <2>3. job'[r] = j /\ \A q \in Request \ {r} : job'[q] = job[q]
        BY <1>2, Typed, BecomeEffect DEF DeskInv
    <2>4. store' = store /\ Existing' = Existing
        BY DEF Move, Existing
    <2> HIDE DEF j
    <2>5. Knows(r)'
        BY <2>1, <2>2, <2>3, <2>4 DEF Knows
    <2> QED
        BY <2>3, <2>5, NoWriteIsStoreStep, RequestStep DEF Move
  <1> QED
      BY <1>1, <1>2 DEF Move

LEMMA InsertKnows ==
    ASSUME DeskInv, IInv', NEW r \in Request, InsertBooking(r)
    PROVE  StoreStep /\ DeskInv'
  <1>1. PICK new \in Unused : Inserts(r, new)
      BY DEF InsertBooking, Inserts
  <1>2. job'[r] = Idle /\ \A q \in Request \ {r} : job'[q] = job[q]
      BY Typed, BecomeEffect DEF DeskInv, InsertBooking
  <1> QED
      BY <1>1, <1>2, InsertIsStoreStep, NothingKnown, RequestStep

LEMMA InsertReplacementKnows ==
    ASSUME DeskInv, IInv', NEW r \in Request, InsertReplacement(r)
    PROVE  StoreStep /\ DeskInv'
  <1>1. PICK new \in Unused :
            /\ Inserts(r, new)
            /\ Become(r, IF job[r].late THEN Idle
                         ELSE [job[r] EXCEPT !.at = "retire", !.moved = new])
      BY DEF InsertReplacement, Inserts
  <1>2. StoreStep /\ new \in Existing' /\ store'[new] = job[r].draft
      BY <1>1, InsertIsStoreStep
  <1>3. CASE job[r].late
    <2>1. job'[r] = Idle /\ \A q \in Request \ {r} : job'[q] = job[q]
        BY <1>1, <1>3, Typed, BecomeEffect DEF DeskInv
    <2> QED
        BY <1>2, <2>1, NothingKnown, RequestStep
  <1>4. CASE ~job[r].late
    <2> DEFINE j == [job[r] EXCEPT !.at = "retire", !.moved = new]
    <2>1. job[r] \in Job /\ Knows(r) /\ JobOK(r) /\ job[r].at = "moveInsert"
        BY Typed DEF DeskInv, KnowInv, InsertReplacement
    <2>2. /\ j.at = "retire" /\ j.id = job[r].id /\ j.seen = job[r].seen /\ j.draft = job[r].draft
          /\ j.moved = new
        BY <2>1 DEF Job
    <2>3. job'[r] = j /\ \A q \in Request \ {r} : job'[q] = job[q]
        BY <1>1, <1>4, Typed, BecomeEffect DEF DeskInv
    <2>4. job[r].id \in Existing' /\ SameTrip(job[r].seen, store'[job[r].id])
        BY <1>2, <2>1 DEF StoreStep, SameTrip, Knows
    <2>5. SameTrip(job[r].draft, job[r].draft)
        BY DEF SameTrip
    <2> HIDE DEF j
    <2>6. Knows(r)'
        BY <1>2, <2>1, <2>2, <2>3, <2>4, <2>5 DEF Knows, JobOK
    <2> QED
        BY <1>2, <2>3, <2>6, RequestStep
  <1> QED
      BY <1>3, <1>4

LEMMA GiveUpKnows ==
    ASSUME DeskInv, IInv', NEW r \in Request, SaveFails(r) \/ Abandon(r)
    PROVE  StoreStep /\ DeskInv'
  <1> DEFINE w == [job[r] EXCEPT !.at = "withdraw"]
  <1>1. UNCHANGED <<store, clobbered, overrun>> /\ (Become(r, Idle) \/ (job[r].at = "retire" /\ Become(r, w)))
      BY DEF SaveFails, Abandon, OnSaveFailure
  <1>2. CASE Become(r, Idle)
      BY <1>1, <1>2, LeaveKnows
  <1>3. CASE job[r].at = "retire" /\ Become(r, w)
    <2>1. job[r] \in Job /\ Knows(r)
        BY Typed DEF DeskInv, KnowInv
    <2>2. /\ w.at = "withdraw" /\ w.id = job[r].id /\ w.seen = job[r].seen
          /\ w.draft = job[r].draft /\ w.moved = job[r].moved
        BY <2>1 DEF Job
    <2>3. job'[r] = w /\ \A q \in Request \ {r} : job'[q] = job[q]
        BY <1>3, Typed, BecomeEffect DEF DeskInv
    <2>4. store' = store /\ Existing' = Existing
        BY <1>1 DEF Existing
    <2> HIDE DEF w
    <2>5. Knows(r)'
        BY <1>3, <2>1, <2>2, <2>3, <2>4 DEF Knows
    <2> QED
        BY <1>1, <2>3, <2>5, NoWriteIsStoreStep, RequestStep
  <1> QED
      BY <1>1, <1>2, <1>3

\* Steps of the environment: no job moves.
LEMMA EnvironmentKnows ==
    ASSUME DeskInv, IInv', (\E v \in Vehicle : LockExpires(v)) \/ Tick \/ UNCHANGED vars
    PROVE  StoreStep /\ DeskInv'
  <1>1. StoreStep
      BY NoWriteIsStoreStep DEF LockExpires, Tick, vars
  <1>2. ASSUME NEW q \in Request PROVE job'[q] \in {job[q], [job[q] EXCEPT !.late = TRUE]}
      BY Typed DEF DeskInv, TypeOK, LockExpires, Tick, vars
  <1>3. \A q \in Request : Knows(q)'
      BY <1>1, <1>2, OthersKnow
  <1> QED
      BY <1>1, <1>3 DEF DeskInv, KnowInv, StoreStep

LEMMA DeskInit == Init => DeskInv
  <1> SUFFICES ASSUME Init PROVE DeskInv
      OBVIOUS
  <1>1. \A r \in Request : job[r].id = NoBooking /\ job[r].at = "idle"
      BY DEF Init, Idle
  <1>2. Existing = {}
      BY DEF Init, Existing
  <1> QED
      BY <1>1, <1>2, InitIInv DEF DeskInv, KnowInv, Knows

LEMMA DeskStep == DeskInv /\ [Next]_vars => StoreStep /\ DeskInv'
  <1> SUFFICES ASSUME DeskInv, [Next]_vars PROVE StoreStep /\ DeskInv'
      OBVIOUS
  <1>1. IInv'
      BY NextKeepsIInv DEF DeskInv
  <1>2. ASSUME NEW r \in Request, Proceed(r) PROVE StoreStep /\ DeskInv'
      BY <1>1, <1>2, SavesKnow, ReserveKnows, PromoteKnows, MoveKnows, InsertKnows, InsertReplacementKnows
      DEF Proceed
  <1> QED
      BY <1>1, <1>2, CustomerCallKnows, StaffCallKnows, GiveUpKnows, EnvironmentKnows DEF Next

-----------------------------------------------------------------------------
(* Who moves, and where to                                                 *)

\* A step is one request's, or leaves every job at its point.
LEMMA WhoMoves ==
    ASSUME DeskInv, [Next]_vars
    PROVE  \/ \E r \in Request :
                 /\ CustomerCall(r) \/ StaffCall(r) \/ Proceed(r) \/ SaveFails(r) \/ Abandon(r)
                 /\ \A q \in Request \ {r} : job'[q] = job[q]
           \/ /\ (\E v \in Vehicle : LockExpires(v)) \/ Tick \/ UNCHANGED vars
              /\ \A q \in Request : job'[q] \in {job[q], [job[q] EXCEPT !.late = TRUE]}
  <1>1. TypeOK
      BY Typed DEF DeskInv
  <1>2. ASSUME NEW r \in Request, NEW j, Become(r, j) PROVE \A q \in Request \ {r} : job'[q] = job[q]
      BY <1>1, <1>2, BecomeEffect
  <1>3. ASSUME NEW r \in Request,
               CustomerCall(r) \/ StaffCall(r) \/ Proceed(r) \/ SaveFails(r) \/ Abandon(r)
        PROVE  \E j : Become(r, j)
    <2>1. CASE CustomerCall(r)
        BY <2>1 DEF CustomerCall, Create, CancelBooking, RescheduleBooking, Read, Call
    <2>2. CASE StaffCall(r)
        BY ZenonT(60), <2>2 DEF StaffCall, ReassignRep, SetNotes, CheckInBooking, StartDrive, CompleteDrive,
                    RecordNoShow, Read, Call
    <2>3. CASE Proceed(r)
        BY <2>3 DEF Proceed, Reserve, InsertBooking, Promote, ConfirmPromotion, SaveCancel, Move,
                    InsertReplacement, RetireOriginal, Withdraw, SaveBooking
    <2>4. CASE SaveFails(r) \/ Abandon(r)
        BY <2>4 DEF SaveFails, Abandon
    <2> QED
        BY <1>3, <2>1, <2>2, <2>3, <2>4
  <1>4. ASSUME (\E v \in Vehicle : LockExpires(v)) \/ Tick \/ UNCHANGED vars
        PROVE  \A q \in Request : job'[q] \in {job[q], [job[q] EXCEPT !.late = TRUE]}
      BY <1>1, <1>4 DEF TypeOK, LockExpires, Tick, vars
  <1> QED
      BY <1>2, <1>3, <1>4 DEF Next

\* The points a step of request r leads to.
LEMMA LeadsTo ==
    ASSUME DeskInv, NEW r \in Request
    PROVE  /\ CustomerCall(r) => job'[r].at \in {"reserve", "cancel", "move"}
           /\ StaffCall(r) => job'[r].at = "save"
           /\ Reserve(r) => job'[r].at \in {"insert", "idle"}
           /\ Promote(r) => job'[r].at \in {"confirm", "idle"}
           /\ Move(r) => job'[r].at \in {"moveInsert", "idle"}
           /\ InsertReplacement(r) => job'[r].at \in {"retire", "idle"}
           /\ SaveCancel(r) \/ RetireOriginal(r) => job'[r].at \in {"promote", "idle"}
           /\ InsertBooking(r) \/ ConfirmPromotion(r) \/ Withdraw(r) \/ SaveBooking(r) \/ Abandon(r) =>
                 job'[r].at = "idle"
           /\ SaveFails(r) => job'[r].at \in {"withdraw", "idle"}
  <1>1. TypeOK /\ job[r] \in Job
      BY Typed DEF DeskInv
  <1>2. \A j : Become(r, j) => job'[r] = j
      BY <1>1, BecomeEffect
  <1>3. Idle.at = "idle" /\ \A b : FollowUp(b).at \in {"promote", "idle"}
    <2>1. \A b : FollowUp(b) \in {Idle, Promotion(b)}
        BY DEF FollowUp
    <2>2. Idle.at = "idle" /\ \A b : Promotion(b).at = "promote"
        BY DEF Promotion, Idle
    <2> QED
        BY <2>1, <2>2
  <1>4. ASSUME NEW b, NEW at, NEW draft, Read(r, b, at, draft) PROVE job'[r].at = at
    <2>1. job'[r] = [Idle EXCEPT !.at = at, !.id = b, !.seen = store[b], !.draft = draft]
        BY <1>2, <1>4 DEF Read, Call
    <2> QED
        BY <2>1 DEF Idle
  <1>5. ASSUME NEW v, NEW s, Create(r, v, s) PROVE job'[r].at = "reserve"
    <2>1. job'[r] = [Idle EXCEPT !.at = "reserve", !.draft = Requested(v, s)]
        BY <1>2, <1>5 DEF Create, Call
    <2> QED
        BY <2>1 DEF Idle
  <1>6. ASSUME NEW j, NEW at, job'[r] = j, \/ \E d : j = [job[r] EXCEPT !.at = at, !.draft = d]
                                           \/ \E d : j = [job[r] EXCEPT !.at = at, !.moved = d]
                                           \/ j = [job[r] EXCEPT !.at = at]
        PROVE  job'[r].at = at
      BY <1>1, <1>6 DEF Job
  <1>7. CustomerCall(r) => job'[r].at \in {"reserve", "cancel", "move"}
      BY <1>4, <1>5 DEF CustomerCall, CancelBooking, RescheduleBooking
  <1>8. StaffCall(r) => job'[r].at = "save"
      BY <1>4 DEF StaffCall, ReassignRep, SetNotes, CheckInBooking, StartDrive, CompleteDrive, RecordNoShow
  <1>9. /\ Reserve(r) => job'[r].at \in {"insert", "idle"}
        /\ Promote(r) => job'[r].at \in {"confirm", "idle"}
        /\ Move(r) => job'[r].at \in {"moveInsert", "idle"}
    <2>1. ASSUME Reserve(r) PROVE job'[r] = Idle \/ \E d : job'[r] = [job[r] EXCEPT !.at = "insert", !.draft = d]
        BY <1>2, <2>1 DEF Reserve
    <2>2. ASSUME Promote(r)
          PROVE  \/ job'[r] = Idle
                 \/ \E w : job'[r] = [Idle EXCEPT !.at = "confirm", !.id = w, !.seen = store[w], !.draft = Confirm(store[w])]
        BY <1>2, <2>2 DEF Promote
    <2>3. \A w : [Idle EXCEPT !.at = "confirm", !.id = w, !.seen = store[w], !.draft = Confirm(store[w])].at = "confirm"
        BY DEF Idle
    <2>4. ASSUME Promote(r) PROVE job'[r].at \in {"confirm", "idle"}
        BY <1>3, <2>2, <2>3, <2>4
    <2>5. ASSUME Move(r) PROVE job'[r] = Idle \/ job'[r] = [job[r] EXCEPT !.at = "moveInsert"]
        BY <1>2, <2>5 DEF Move
    <2> QED
        BY ZenonT(60), <1>3, <1>6, <2>1, <2>4, <2>5
  <1>10. /\ InsertReplacement(r) => job'[r].at \in {"retire", "idle"}
         /\ SaveCancel(r) \/ RetireOriginal(r) => job'[r].at \in {"promote", "idle"}
    <2>1. ASSUME InsertReplacement(r)
          PROVE  job'[r] = Idle \/ \E new : job'[r] = [job[r] EXCEPT !.at = "retire", !.moved = new]
        BY <1>2, <2>1 DEF InsertReplacement
    <2>2. ASSUME SaveCancel(r) \/ RetireOriginal(r) PROVE \E b : job'[r] = FollowUp(b)
        BY <1>2, <2>2 DEF SaveCancel, RetireOriginal
    <2> QED
        BY <1>3, <1>6, <2>1, <2>2
  <1>11. InsertBooking(r) \/ ConfirmPromotion(r) \/ Withdraw(r) \/ SaveBooking(r) \/ Abandon(r) =>
                 job'[r].at = "idle"
      BY <1>2, <1>3 DEF InsertBooking, ConfirmPromotion, Withdraw, SaveBooking, Abandon
  <1>12. SaveFails(r) => job'[r].at \in {"withdraw", "idle"}
      BY <1>1, <1>2, <1>3 DEF SaveFails, OnSaveFailure, Job
  <1> QED
      BY <1>7, <1>8, <1>9, <1>10, <1>11, <1>12

\* A new record was inserted, by a request that then leaves the lock.
LEMMA NewRecords ==
    ASSUME DeskInv, [Next]_vars, NEW a \in Existing' \ Existing
    PROVE  \E r \in Request :
               /\ InsertBooking(r) \/ InsertReplacement(r)
               /\ Inserts(r, a)
               /\ job'[r].at \notin Critical
               /\ \A q \in Request \ {r} : job'[q] = job[q]
  <1>1. \A b, seen, rec : Overwrites(b, seen, rec) => Existing' = Existing
    <2> SUFFICES ASSUME NEW b, NEW seen, NEW rec, Overwrites(b, seen, rec) PROVE Existing' = Existing
        OBVIOUS
    <2>1. store' = [store EXCEPT ![b] = rec] /\ rec # NoBooking /\ b \in Existing /\ TypeOK
        BY Typed DEF DeskInv, Overwrites, Write
    <2> QED
        BY <2>1 DEF TypeOK, Existing
  <1>2. store' = store => Existing' = Existing
      BY DEF Existing
  <1>3. PICK r \in Request :
            /\ CustomerCall(r) \/ StaffCall(r) \/ Proceed(r) \/ SaveFails(r) \/ Abandon(r)
            /\ \A q \in Request \ {r} : job'[q] = job[q]
      BY <1>2, WhoMoves DEF LockExpires, Tick, vars
  <1>4. InsertBooking(r) \/ InsertReplacement(r)
    <2>1. CustomerCall(r) \/ StaffCall(r) \/ SaveFails(r) \/ Abandon(r) => store' = store
        BY ZenonT(60) DEF CustomerCall, Create, CancelBooking, RescheduleBooking, StaffCall, ReassignRep, SetNotes,
               CheckInBooking, StartDrive, CompleteDrive, RecordNoShow, Read, SaveFails, Abandon
    <2>2. Reserve(r) \/ Promote(r) \/ Move(r) => store' = store
        BY DEF Reserve, Promote, Move
    <2>3. ~(SaveBooking(r) \/ SaveCancel(r) \/ ConfirmPromotion(r) \/ RetireOriginal(r))
        BY <1>1, SaveOverwrites
    <2>4. ~Withdraw(r)
        BY <1>1, <1>2, SaveOverwrites DEF Withdraw
    <2> QED
        BY <1>2, <1>3, <2>1, <2>2, <2>3, <2>4 DEF Proceed
  <1>5. PICK new \in Unused : Inserts(r, new)
      BY <1>4 DEF InsertBooking, InsertReplacement, Inserts
  <1>6. new = a
      BY <1>5, InsertIsStoreStep
  <1>7. job'[r].at \notin Critical
      BY <1>4, LeadsTo DEF Critical
  <1> QED
      BY <1>3, <1>4, <1>5, <1>6, <1>7

-----------------------------------------------------------------------------
(* Positions on the waitlist, and who is promoted                          *)

\* Under the vehicle's lock, a booking about to join the waitlist comes after
\* everyone on it, and one about to be promoted before everyone on it who
\* waits for the same slot.
InLine(r) ==
    InLock(r) => \A a \in WaitlistOf(job[r].draft.vehicle) \ Tainted :
        /\ job[r].at = "insert" /\ job[r].draft.status = "Waitlisted" =>
              store[a].waitlistPosition < job[r].draft.waitlistPosition
        /\ job[r].at = "confirm" /\ store[a].slot = job[r].draft.slot =>
              store[a].waitlistPosition >= job[r].seen.waitlistPosition

QueueInv == DistinctPositions /\ \A r \in Request : InLine(r)

\* Who waits after a step, and is not new, waited before it, at the same
\* position.
LEMMA StillWaits ==
    ASSUME DeskInv, StoreStep, NEW v, NEW a \in WaitlistOf(v)' \ Tainted', a \in Existing
    PROVE  /\ a \in WaitlistOf(v) \ Tainted
           /\ store'[a].waitlistPosition = store[a].waitlistPosition
           /\ store'[a].slot = store[a].slot
  <1>1. store'[a].vehicle = v /\ store'[a].status = "Waitlisted" /\ a \notin Tainted
      BY DEF WaitlistOf, StoreStep
  <1>2. \A s : <<s, "Waitlisted">> \in Lifecycle => s = "Waitlisted"
      BY DEF Lifecycle, StaffEdit
  <1> QED
      BY <1>1, <1>2 DEF StoreStep, SameTrip, WaitlistOf

LEMMA PositionsAreNumbers ==
    ASSUME DeskInv
    PROVE  /\ \A a \in Existing : store[a].waitlistPosition \in Nat
           /\ \A r \in Request : job[r].at # "idle" => job[r].draft.waitlistPosition \in Nat
  <1>1. \A b \in BookingRecord : b.waitlistPosition \in Nat
      BY DEF BookingRecord
  <1> QED
      BY <1>1, Typed DEF DeskInv, JobOK

\* No position is given twice: a new booking comes after everyone.
LEMMA PositionsStayDistinct ==
    ASSUME DeskInv, QueueInv, [Next]_vars
    PROVE  DistinctPositions'
  <1>1. DeskInv' /\ StoreStep
      BY DeskStep
  <1>2. ASSUME NEW v \in Vehicle, NEW a \in WaitlistOf(v)' \ Tainted', NEW b \in WaitlistOf(v)' \ Tainted',
               a \notin Existing, b # a
        PROVE  store'[b].waitlistPosition < store'[a].waitlistPosition
    <2>1. PICK r \in Request : Inserts(r, a)
        BY <1>2, NewRecords DEF WaitlistOf
    <2>2. /\ store'[a] = job[r].draft /\ ~job[r].late /\ b \in Existing
        BY <1>2, <2>1, InsertIsStoreStep DEF WaitlistOf
    <2>3. job[r].draft.vehicle = v /\ job[r].draft.status = "Waitlisted" /\ Knows(r)
        BY <1>2, <2>2 DEF WaitlistOf, DeskInv, KnowInv
    <2>4. job[r].at = "insert"
        BY <2>1, <2>3 DEF Inserts, Knows
    <2>5. InLock(r) /\ InLine(r)
        BY <2>2, <2>4 DEF InLock, Critical, QueueInv
    <2>6. b \in WaitlistOf(v) \ Tainted /\ store'[b].waitlistPosition = store[b].waitlistPosition
        BY <1>1, <1>2, <2>2, StillWaits
    <2> QED
        BY <2>2, <2>3, <2>4, <2>5, <2>6 DEF InLine
  <1> SUFFICES ASSUME NEW v \in Vehicle, NEW a \in WaitlistOf(v)' \ Tainted', NEW b \in WaitlistOf(v)' \ Tainted',
                      a # b
               PROVE  store'[a].waitlistPosition # store'[b].waitlistPosition
      BY DEF DistinctPositions
  <1>3. store'[a].waitlistPosition \in Nat /\ store'[b].waitlistPosition \in Nat
    <2>1. store' \in [BookingId -> MaybeBooking]
        BY <1>1 DEF DeskInv, IInv, TypeOK
    <2>2. \A c \in Existing' : store'[c] \in BookingRecord
        BY <2>1 DEF Existing, MaybeBooking
    <2> QED
        BY <2>2 DEF WaitlistOf, BookingRecord
  <1>4. CASE a \in Existing /\ b \in Existing
      BY <1>1, <1>4, StillWaits DEF QueueInv, DistinctPositions
  <1>5. CASE ~(a \in Existing /\ b \in Existing)
      BY SMTT(60), <1>2, <1>3, <1>5
  <1> QED
      BY <1>4, <1>5

\* Whoever has just entered with a new waiting booking gave it the next
\* position.
LEMMA ReserveInLine ==
    ASSUME DeskInv, NEW r \in Request, Reserve(r), UNCHANGED Tainted
    PROVE  InLine(r)'
  <1> DEFINE d == job[r].draft
             v == d.vehicle
             Insert(draft) == [job[r] EXCEPT !.at = "insert", !.draft = draft]
  <1>1. TypeOK /\ job[r] \in Job /\ d \in BookingRecord /\ store' = store
        /\ \A u : WaitlistOf(u)' = WaitlistOf(u)
      BY Typed DEF DeskInv, JobOK, Reserve, WaitlistOf, Existing
  <1>2. job'[r] = Idle => InLine(r)'
      BY DEF InLine, InLock, Idle, Critical
  <1>3. ASSUME NEW rep, job'[r] = Insert(AssignRep(Confirm(d), rep)) PROVE InLine(r)'
    <2>1. AssignRep(Confirm(d), rep).status = "Confirmed"
        BY <1>1 DEF AssignRep, Confirm, BookingRecord
    <2>2. job'[r].at = "insert" /\ job'[r].draft.status # "Waitlisted"
        BY <1>1, <1>3, <2>1 DEF Job
    <2> QED
        BY <2>2 DEF InLine
  <1>4. ASSUME NEW p \in NextPosition(v), job'[r] = Insert(Waitlist(d, p)) PROVE InLine(r)'
    <2>1. job'[r].at = "insert" /\ job'[r].draft.vehicle = v /\ job'[r].draft.waitlistPosition = p
      <3>1. job'[r].at = "insert" /\ job'[r].draft = Waitlist(d, p)
          BY <1>1, <1>4 DEF Job
      <3>2. Waitlist(d, p).vehicle = v /\ Waitlist(d, p).waitlistPosition = p
          BY <1>1 DEF Waitlist, BookingRecord
      <3> QED
          BY <3>1, <3>2
    <2>2. \A a \in WaitlistOf(v) : store[a].waitlistPosition < p
        BY SMTT(60) DEF NextPosition
    <2> QED
        BY <1>1, <2>1, <2>2 DEF InLine
  <1>5. \/ job'[r] = Idle
        \/ \E rep : job'[r] = Insert(AssignRep(Confirm(d), rep))
        \/ \E p \in NextPosition(v) : job'[r] = Insert(Waitlist(d, p))
      BY <1>1, BecomeEffect DEF Reserve
  <1> QED
      BY ZenonT(60), <1>2, <1>3, <1>4, <1>5

\* Whoever is promoted comes first of those that wait for the slot: they are
\* as eligible as the one promoted.
LEMMA PromoteInLine ==
    ASSUME DeskInv, NEW r \in Request, Promote(r)
    PROVE  InLine(r)'
  <1> DEFINE v == job[r].draft.vehicle
             Entered(w) == [Idle EXCEPT !.at = "confirm", !.id = w, !.seen = store[w],
                                        !.draft = Confirm(store[w])]
  <1>1. TypeOK /\ store' = store /\ \A u : WaitlistOf(u)' = WaitlistOf(u)
      BY Typed DEF DeskInv, Promote, WaitlistOf, Existing
  <1>2. job'[r] = Idle => InLine(r)'
      BY DEF InLine, InLock, Idle, Critical
  <1>3. ASSUME NEW w \in FirstInLine(v), job'[r] = Entered(w) PROVE InLine(r)'
    <2>1. w \in Eligible(v) /\ store[w] \in BookingRecord /\ store[w].vehicle = v /\ w \in WaitlistOf(v)
        BY Typed DEF DeskInv, FirstInLine, Eligible, WaitlistOf
    <2>2. /\ job'[r].at = "confirm" /\ job'[r].seen = store[w]
          /\ job'[r].draft.vehicle = v /\ job'[r].draft.slot = store[w].slot
        BY ZenonT(60), <1>3, <2>1 DEF Idle, Confirm, BookingRecord
    <2>3. ASSUME NEW a \in WaitlistOf(v), store[a].slot = store[w].slot
          PROVE  store[a].waitlistPosition >= store[w].waitlistPosition
      <3>1. a \notin ActiveOf(v) /\ w \notin ActiveOf(v)
          BY <2>1 DEF ActiveOf, WaitlistOf, Occupying
      <3>2. Conflict(v, store[a].slot, a) <=> Conflict(v, store[w].slot, w)
          BY <2>3, <3>1 DEF Conflict
      <3>3. a \in Eligible(v)
          BY <2>1, <2>3, <3>2 DEF Eligible
      <3>4. store[w].waitlistPosition <= store[a].waitlistPosition
          BY <3>3 DEF FirstInLine
      <3>5. store[w].waitlistPosition \in Nat /\ store[a].waitlistPosition \in Nat
          BY SMTT(60), <2>1, <2>3, PositionsAreNumbers DEF WaitlistOf
      <3> QED
          BY <3>4, <3>5
    <2> QED
        BY <1>1, <2>2, <2>3 DEF InLine
  <1>4. job'[r] = Idle \/ \E w \in FirstInLine(v) : job'[r] = Entered(w)
      BY <1>1, BecomeEffect DEF Promote
  <1> QED
      BY <1>2, <1>3, <1>4

\* A request in its critical section stays in line: nobody else joins the
\* waitlist of the vehicle that it has locked.
LEMMA OthersInLine ==
    ASSUME DeskInv, QueueInv, [Next]_vars, NEW q \in Request, InLock(q), job'[q] = job[q]
    PROVE  InLine(q)'
  <1> DEFINE v == job[q].draft.vehicle
  <1>1. StoreStep /\ InLine(q) /\ LockOK(q)
      BY DeskStep DEF QueueInv, DeskInv, IInv
  <1>2. ASSUME NEW a \in WaitlistOf(v)' \ Tainted' PROVE a \in Existing
    <2> SUFFICES ASSUME a \notin Existing PROVE FALSE
        OBVIOUS
    <2>1. PICK r \in Request : Inserts(r, a) /\ job'[r].at \notin Critical
        BY NewRecords DEF WaitlistOf
    <2>2. store'[a] = job[r].draft /\ ~job[r].late
        BY <2>1, InsertIsStoreStep
    <2>3. job[r].draft.vehicle = v
        BY <2>2 DEF WaitlistOf
    <2>4. InLock(r) /\ LockOK(r)
        BY <2>1, <2>2 DEF InLock, Critical, Inserts, DeskInv, IInv
    <2>5. r = q
        BY <1>1, <2>3, <2>4 DEF LockOK
    <2> QED
        BY <2>1, <2>5 DEF InLock
  <1>3. ASSUME NEW a \in WaitlistOf(v)' \ Tainted'
        PROVE  /\ a \in WaitlistOf(v) \ Tainted
               /\ store'[a].waitlistPosition = store[a].waitlistPosition
               /\ store'[a].slot = store[a].slot
      BY <1>1, <1>2, StillWaits
  <1> QED
      BY <1>1, <1>3 DEF InLine, InLock

LEMMA QueueStep == DeskInv /\ QueueInv /\ [Next]_vars => QueueInv'
  <1> SUFFICES ASSUME DeskInv, QueueInv, [Next]_vars PROVE QueueInv'
      OBVIOUS
  <1>1. ASSUME NEW q \in Request PROVE InLine(q)'
    <2>1. CASE Reserve(q)
        BY <2>1, ReserveInLine DEF Reserve, Tainted
    <2>2. CASE Promote(q)
        BY <2>2, PromoteInLine
    <2>3. CASE job'[q] = job[q]
        BY <2>3, OthersInLine DEF InLine, InLock
    <2>4. CASE job'[q] = [job[q] EXCEPT !.late = TRUE]
        BY <2>4, Typed DEF DeskInv, InLine, InLock, Job
    <2>5. CASE /\ CustomerCall(q) \/ StaffCall(q) \/ Proceed(q) \/ SaveFails(q) \/ Abandon(q)
               /\ ~Reserve(q) /\ ~Promote(q)
      <3>1. job'[q].at \notin {"insert", "confirm"}
          BY <2>5, LeadsTo DEF Proceed
      <3> QED
          BY <3>1 DEF InLine
    <2> QED
        BY <2>1, <2>2, <2>3, <2>4, <2>5, WhoMoves
  <1> QED
      BY <1>1, PositionsStayDistinct DEF QueueInv

LEMMA QueueInit == Init => QueueInv
  <1> SUFFICES ASSUME Init PROVE QueueInv
      OBVIOUS
  <1>1. \A v : WaitlistOf(v) = {}
      BY DEF Init, WaitlistOf, Existing
  <1> QED
      BY <1>1 DEF QueueInv, DistinctPositions, InLine

\* Who wrote a booking that is not tainted: a request that had read the record
\* it overwrote.
LEMMA WhoWrites ==
    ASSUME DeskInv, [Next]_vars, NEW a \in Existing, a \notin Tainted', store'[a] # store[a]
    PROVE  \E r \in Request :
               /\ \A q \in Request \ {r} : job'[q] = job[q]
               /\ \/ /\ SaveBooking(r) \/ SaveCancel(r) \/ ConfirmPromotion(r)
                     /\ job[r].id = a /\ job[r].seen = store[a] /\ store'[a] = job[r].draft
                  \/ /\ RetireOriginal(r)
                     /\ job[r].id = a /\ job[r].seen = store[a] /\ store'[a] = Cancel(store[a])
                  \/ /\ Withdraw(r)
                     /\ job[r].moved = a /\ job[r].draft = store[a] /\ store'[a] = Cancel(store[a])
  <1>1. ASSUME NEW b, NEW seen, NEW rec, Overwrites(b, seen, rec)
        PROVE  b = a /\ store[a] = seen /\ store'[a] = rec
    <2>1. store' = [store EXCEPT ![b] = rec] /\ TypeOK /\ a \in BookingId /\ b \in BookingId
        BY <1>1, Typed DEF DeskInv, Overwrites, Write
    <2>2. b = a
        BY <2>1 DEF TypeOK
    <2> QED
        BY <1>1, <2>1, <2>2 DEF TypeOK, Overwrites, Write, Tainted
  <1>2. PICK r \in Request :
            /\ CustomerCall(r) \/ StaffCall(r) \/ Proceed(r) \/ SaveFails(r) \/ Abandon(r)
            /\ \A q \in Request \ {r} : job'[q] = job[q]
      BY WhoMoves DEF LockExpires, Tick, vars
  <1>3. CustomerCall(r) \/ StaffCall(r) \/ SaveFails(r) \/ Abandon(r) => store' = store
      BY ZenonT(60) DEF CustomerCall, Create, CancelBooking, RescheduleBooking, StaffCall, ReassignRep, SetNotes,
             CheckInBooking, StartDrive, CompleteDrive, RecordNoShow, Read, SaveFails, Abandon
  <1>4. Reserve(r) \/ Promote(r) \/ Move(r) => store' = store
      BY DEF Reserve, Promote, Move
  <1>5. ~(InsertBooking(r) \/ InsertReplacement(r))
    <2> SUFFICES ASSUME InsertBooking(r) \/ InsertReplacement(r) PROVE FALSE
        OBVIOUS
    <2>1. PICK new \in Unused : Inserts(r, new)
        BY DEF InsertBooking, InsertReplacement, Inserts
    <2> QED
        BY <2>1, InsertIsStoreStep
  <1>6. Withdraw(r) => CanChange(job[r].draft, 0, now)
      BY DEF Withdraw
  <1> QED
      BY <1>1, <1>2, <1>3, <1>4, <1>5, <1>6, SaveOverwrites DEF Proceed

\* Who is confirmed from the waitlist was promoted, under the vehicle's lock.
LEMMA WhoIsPromoted ==
    ASSUME DeskInv, [Next]_vars, NEW w \in Existing, w \notin Tainted',
           store[w].status = "Waitlisted", store'[w].status = "Confirmed"
    PROVE  \E r \in Request :
               ConfirmPromotion(r) /\ job[r].id = w /\ job[r].seen = store[w] /\ InLock(r)
  <1>1. PICK r \in Request :
            \/ /\ SaveBooking(r) \/ SaveCancel(r) \/ ConfirmPromotion(r)
               /\ job[r].id = w /\ job[r].seen = store[w] /\ store'[w] = job[r].draft
            \/ store'[w] = Cancel(store[w])
      BY WhoWrites
  <1>2. store[w] \in BookingRecord /\ Knows(r) /\ JobOK(r)
      BY Typed DEF DeskInv, KnowInv
  <1>3. store'[w] # Cancel(store[w])
      BY <1>2 DEF Cancel, BookingRecord
  <1>4. ~SaveBooking(r)
      BY <1>1, <1>2, <1>3 DEF SaveBooking, Knows, StaffEdit
  <1>5. ~SaveCancel(r)
      BY <1>1, <1>2, <1>3 DEF SaveCancel, JobOK
  <1>6. ConfirmPromotion(r) => InLock(r)
      BY <1>1, <1>3, <1>4, <1>5 DEF ConfirmPromotion, NoteOverrun, Tainted, InLock, Critical
  <1> QED
      BY <1>1, <1>3, <1>4, <1>5, <1>6

\* No step promotes anyone past a booking that comes first.
LEMMA NobodyIsOvertaken ==
    ASSUME DeskInv, QueueInv, [Next]_vars, NEW v \in Vehicle,
           NEW w \in WaitlistOf(v) \ Tainted', NEW x \in WaitlistOf(v) \ Tainted',
           store'[w].status = "Confirmed", store[x].slot = store[w].slot
    PROVE  ~(store[x].waitlistPosition < store[w].waitlistPosition)
  <1>1. PICK r \in Request :
            ConfirmPromotion(r) /\ job[r].id = w /\ job[r].seen = store[w] /\ InLock(r)
      BY WhoIsPromoted DEF WaitlistOf
  <1>2. job[r].at = "confirm" /\ SameTrip(job[r].draft, store[w])
      BY <1>1 DEF ConfirmPromotion, DeskInv, KnowInv, Knows
  <1>3. job[r].draft.vehicle = v /\ job[r].draft.slot = store[x].slot
      BY <1>2 DEF SameTrip, WaitlistOf
  <1>4. x \in WaitlistOf(v) \ Tainted
      BY DeskStep DEF StoreStep
  <1>5. store[x].waitlistPosition >= store[w].waitlistPosition
      BY <1>1, <1>2, <1>3, <1>4 DEF QueueInv, InLine
  <1>6. store[x].waitlistPosition \in Nat /\ store[w].waitlistPosition \in Nat
      BY PositionsAreNumbers DEF WaitlistOf
  <1> QED
      BY <1>5, <1>6

\* In every reachable state requests know their bookings, and whoever holds a
\* vehicle's lock knows who is next in line.
THEOREM QueueInvariant == Spec => [](DeskInv /\ QueueInv)
  <1>1. Init => DeskInv /\ QueueInv
      BY DeskInit, QueueInit
  <1>2. (DeskInv /\ QueueInv) /\ [Next]_vars => (DeskInv /\ QueueInv)'
      BY DeskStep, QueueStep
  <1> QED
      BY <1>1, <1>2, PTL DEF Spec

\* No two bookings wait for a vehicle at one position, for any number of
\* requests in any order and whatever fails, lost updates and expired locks
\* apart (reserveBooking, bookings.service.ts:321).
THEOREM DistinctPositionsTheorem == Spec => []DistinctPositions
  <1>1. DeskInv /\ QueueInv => DistinctPositions
      BY DEF QueueInv
  <1> QED
      BY <1>1, QueueInvariant, PTL

\* Nobody is promoted past a booking that waits for the same slot at an earlier
\* position (promoteNextFor, booking-mutation.service.ts).
THEOREM NoOvertakingTheorem == Spec => NoOvertaking
  <1> DEFINE Kept == \A v \in Vehicle : \A w, x \in WaitlistOf(v) \ Tainted' :
                        /\ store'[w].status = "Confirmed"
                        /\ store[x].slot = store[w].slot
                        /\ store[x].waitlistPosition < store[w].waitlistPosition
                        => store'[x].status # "Waitlisted"
  <1>1. (DeskInv /\ QueueInv) /\ [Next]_vars => Kept
      BY NobodyIsOvertaken
  <1>2. (DeskInv /\ QueueInv) /\ [Next]_vars => [Kept]_vars
      BY <1>1
  <1>3. Spec => [][Kept]_vars
      BY <1>2, QueueInvariant, PTL DEF Spec
  <1> QED
      BY <1>3 DEF NoOvertaking

-----------------------------------------------------------------------------
(* Desks where nothing has failed                                          *)

\* The clock and the count of faults only go up, by one.
LEMMA ClockAndFaults ==
    ASSUME [Next]_vars
    PROVE  now' \in {now, now + 1} /\ faults' \in {faults, faults + 1}
  <1>1. ASSUME NEW r \in Request, CustomerCall(r) \/ StaffCall(r)
        PROVE  now' = now /\ faults' = faults
      BY ZenonT(60), <1>1 DEF CustomerCall, Create, CancelBooking, RescheduleBooking, StaffCall, ReassignRep, SetNotes,
                  CheckInBooking, StartDrive, CompleteDrive, RecordNoShow, Read
  <1>2. ASSUME NEW r \in Request, Proceed(r) PROVE now' = now /\ faults' = faults
      BY <1>2 DEF Proceed, Reserve, InsertBooking, Promote, ConfirmPromotion, SaveCancel, Move,
                  InsertReplacement, RetireOriginal, Withdraw, SaveBooking
  <1>3. ASSUME NEW r \in Request, SaveFails(r) \/ Abandon(r) PROVE now' = now /\ faults' = faults + 1
      BY <1>3 DEF SaveFails, Abandon, Strike
  <1>4. (\E v \in Vehicle : LockExpires(v)) => now' = now /\ faults' = faults + 1
      BY DEF LockExpires, Strike
  <1>5. Tick => now' = now + 1 /\ faults' = faults
      BY DEF Tick
  <1> QED
      BY SMTT(60), <1>1, <1>2, <1>3, <1>4, <1>5 DEF Next, vars

\* Without a fault no lock has expired and no replacement is withdrawn.
Calm ==
    faults = 0 => overrun = {} /\ \A r \in Request : ~job[r].late /\ job[r].at # "withdraw"

\* Only an expiry makes a request late.
LEMMA LateOnlyByExpiry ==
    ASSUME DeskInv, NEW r \in Request, ~job[r].late, CustomerCall(r) \/ StaffCall(r) \/ Proceed(r)
    PROVE  ~job'[r].late
  <1>1. TypeOK /\ job[r] \in Job
      BY Typed DEF DeskInv
  <1>2. \A j : Become(r, j) => job'[r] = j
      BY <1>1, BecomeEffect
  <1>3. /\ ~Idle.late
        /\ \A b : ~FollowUp(b).late
        /\ \A at, id, seen, draft : ~[Idle EXCEPT !.at = at, !.id = id, !.seen = seen, !.draft = draft].late
    <2>1. \A b : FollowUp(b) \in {Idle, Promotion(b)}
        BY DEF FollowUp
    <2>2. ~Idle.late /\ \A b : ~Promotion(b).late
        BY DEF Promotion, Idle
    <2> QED
        BY <2>1, <2>2 DEF Idle
  <1>4. \A at, draft, moved : /\ ~[job[r] EXCEPT !.at = at, !.draft = draft].late
                              /\ ~[job[r] EXCEPT !.at = at, !.moved = moved].late
                              /\ ~[job[r] EXCEPT !.at = at].late
      BY <1>1 DEF Job
  <1>5. ASSUME NEW b, NEW at, NEW draft, Read(r, b, at, draft) PROVE ~job'[r].late
    <2>1. job'[r] = [Idle EXCEPT !.at = at, !.id = b, !.seen = store[b], !.draft = draft]
        BY <1>2, <1>5 DEF Read, Call
    <2> QED
        BY <1>3, <2>1
  <1>6. CASE CustomerCall(r) \/ StaffCall(r)
    <2>1. ASSUME NEW v, NEW s, Create(r, v, s) PROVE ~job'[r].late
      <3>1. job'[r] = [Idle EXCEPT !.at = "reserve", !.draft = Requested(v, s)]
          BY <1>2, <2>1 DEF Create, Call
      <3> QED
          BY <3>1 DEF Idle
    <2> QED
        BY <1>5, <1>6, <2>1 DEF CustomerCall, CancelBooking, RescheduleBooking, StaffCall, ReassignRep, SetNotes,
                                CheckInBooking, StartDrive, CompleteDrive, RecordNoShow
  <1>7. CASE Reserve(r)
    <2>1. job'[r] = Idle \/ \E d : job'[r] = [job[r] EXCEPT !.at = "insert", !.draft = d]
        BY <1>2, <1>7 DEF Reserve
    <2> QED
        BY ZenonT(60), <1>3, <1>4, <2>1
  <1>8. CASE Promote(r)
    <2>1. \/ job'[r] = Idle
          \/ \E w : job'[r] = [Idle EXCEPT !.at = "confirm", !.id = w, !.seen = store[w], !.draft = Confirm(store[w])]
        BY <1>2, <1>8 DEF Promote
    <2> QED
        BY ZenonT(60), <1>3, <2>1
  <1>9. CASE Move(r) \/ InsertReplacement(r)
    <2>1. \/ job'[r] = Idle
          \/ job'[r] = [job[r] EXCEPT !.at = "moveInsert"]
          \/ \E new : job'[r] = [job[r] EXCEPT !.at = "retire", !.moved = new]
      <3>1. CASE Move(r)
          BY <1>2, <3>1 DEF Move
      <3>2. CASE InsertReplacement(r)
          BY <1>2, <3>2 DEF InsertReplacement
      <3> QED
          BY <1>9, <3>1, <3>2
    <2> QED
        BY <1>3, <1>4, <2>1
  <1>10. CASE InsertBooking(r) \/ ConfirmPromotion(r) \/ Withdraw(r) \/ SaveBooking(r)
      BY <1>2, <1>3, <1>10 DEF InsertBooking, ConfirmPromotion, Withdraw, SaveBooking
  <1>11. CASE SaveCancel(r) \/ RetireOriginal(r)
      BY <1>2, <1>3, <1>11 DEF SaveCancel, RetireOriginal
  <1> QED
      BY <1>6, <1>7, <1>8, <1>9, <1>10, <1>11 DEF Proceed

\* Who moves in a step without a fault.
LEMMA WithoutFault ==
    ASSUME DeskInv, [Next]_vars, faults' = 0
    PROVE  /\ faults = 0
           /\ \/ \E r \in Request :
                    /\ CustomerCall(r) \/ StaffCall(r) \/ Proceed(r)
                    /\ \A q \in Request \ {r} : job'[q] = job[q]
              \/ UNCHANGED <<store, lock, job, clobbered, overrun>>
  <1>1. faults \in Nat
      BY Typed, DeskAssumption DEF DeskInv, TypeOK
  <1>2. faults = 0
      BY <1>1, ClockAndFaults
  <1>3. \A r \in Request : ~SaveFails(r) /\ ~Abandon(r)
      BY <1>2 DEF SaveFails, Abandon, Strike
  <1>4. \A v \in Vehicle : ~LockExpires(v)
      BY <1>2 DEF LockExpires, Strike
  <1> QED
      BY <1>2, <1>3, <1>4, WhoMoves DEF Tick, vars

LEMMA CalmInit == Init => Calm
  BY DEF Init, Calm, Idle

LEMMA CalmStep == DeskInv /\ Calm /\ [Next]_vars => Calm'
  <1> SUFFICES ASSUME DeskInv, Calm, [Next]_vars, faults' = 0
               PROVE  overrun' = {} /\ \A q \in Request : ~job'[q].late /\ job'[q].at # "withdraw"
      BY DEF Calm
  <1>1. faults = 0 /\ overrun = {} /\ \A q \in Request : ~job[q].late /\ job[q].at # "withdraw"
      BY WithoutFault DEF Calm
  <1>2. CASE UNCHANGED <<store, lock, job, clobbered, overrun>>
      BY <1>1, <1>2
  <1>3. ASSUME NEW r \in Request, CustomerCall(r) \/ StaffCall(r) \/ Proceed(r),
               \A q \in Request \ {r} : job'[q] = job[q]
        PROVE  overrun' = {} /\ \A q \in Request : ~job'[q].late /\ job'[q].at # "withdraw"
    <2>1. ~job'[r].late
        BY <1>1, <1>3, LateOnlyByExpiry
    <2>2. job'[r].at # "withdraw"
        BY <1>3, LeadsTo DEF Proceed
    <2>3. overrun' = overrun
      <3>1. CASE CustomerCall(r) \/ StaffCall(r)
          BY ZenonT(60), <3>1 DEF CustomerCall, Create, CancelBooking, RescheduleBooking, StaffCall, ReassignRep, SetNotes,
                      CheckInBooking, StartDrive, CompleteDrive, RecordNoShow, Read
      <3>2. CASE Proceed(r)
          BY <1>1, <3>2 DEF Proceed, Reserve, InsertBooking, Promote, ConfirmPromotion, SaveCancel, Move,
                            InsertReplacement, RetireOriginal, Withdraw, SaveBooking, NoteOverrun
      <3> QED
          BY SMTT(60), <1>3, <3>1, <3>2
    <2> QED
        BY <1>1, <1>3, <2>1, <2>2, <2>3
  <1> QED
      BY <1>2, <1>3, WithoutFault

-----------------------------------------------------------------------------
(* A booking and its replacement                                           *)

\* The reschedule that made replacement b is still at work; booking a is over.
InFlight(b) == \E r \in Request : job[r].at \in {"retire", "withdraw"} /\ job[r].moved = b
OverFor(a) == store[a].status \in {"Completed", "Cancelled", "NoShow"}

\* When a replacement occupies its slot, its original is over, or the
\* exceptions of NoTwinBookings hold.
TwinInv ==
    \A a, b \in Existing :
        store[b].rescheduledFrom = a /\ Holds(b) =>
            InFlight(b) \/ OverFor(a) \/ a \in Tainted \/ b \in Tainted \/ store[b].slot.start < now

\* A fresh replacement is in flight.
LEMMA NewReplacement ==
    ASSUME DeskInv, [Next]_vars, NEW b \in Existing' \ Existing, b \notin Tainted',
           store'[b].rescheduledFrom # NoBooking
    PROVE  InFlight(b)'
  <1>1. PICK r \in Request : (InsertBooking(r) \/ InsertReplacement(r)) /\ Inserts(r, b)
      BY NewRecords
  <1>2. store'[b] = job[r].draft /\ ~job[r].late /\ Existing' = Existing \cup {b}
      BY <1>1, InsertIsStoreStep
  <1>3. InsertReplacement(r)
      BY <1>1, <1>2 DEF InsertBooking, DeskInv, KnowInv, Knows
  <1>4. PICK new \in Unused :
            /\ Inserts(r, new)
            /\ Become(r, [job[r] EXCEPT !.at = "retire", !.moved = new])
      BY <1>2, <1>3 DEF InsertReplacement, Inserts
  <1>5. new = b
      BY <1>2, <1>4, InsertIsStoreStep
  <1>6. job'[r] = [job[r] EXCEPT !.at = "retire", !.moved = b] /\ job[r] \in Job
      BY <1>4, <1>5, Typed, BecomeEffect DEF DeskInv
  <1>7. job'[r].at = "retire" /\ job'[r].moved = b
      BY <1>6 DEF Job
  <1> QED
      BY <1>7 DEF InFlight

\* A reschedule in flight ends with the original or the replacement cancelled,
\* or too late to withdraw the replacement - unless it dies, or its second save
\* fails as well.
LEMMA FlightEnds ==
    ASSUME DeskInv, Calm, MaxFaults <= 1, "abandon" \notin Fault, [Next]_vars,
           NEW b \in Existing, b \notin Tainted', InFlight(b), Holds(b)',
           NEW a \in Existing, a = store[b].rescheduledFrom, a \notin Tainted'
    PROVE  InFlight(b)' \/ OverFor(a)' \/ store[b].slot.start < now
  <1>1. PICK r \in Request : job[r].at \in {"retire", "withdraw"} /\ job[r].moved = b
      BY DEF InFlight
  <1>2. /\ TypeOK /\ job[r] \in Job /\ Knows(r) /\ JobOK(r) /\ store[b] \in BookingRecord
        /\ store[a] \in BookingRecord /\ a \in BookingId /\ b \in BookingId
      BY Typed DEF DeskInv, KnowInv
  <1>3. job[r].id = a /\ job[r].draft.slot = store[b].slot /\ job[r].draft.status = "Confirmed"
      BY <1>1, <1>2 DEF Knows, SameTrip
  <1>4. CASE job'[r] \in {job[r], [job[r] EXCEPT !.late = TRUE]}
    <2>1. job'[r].at = job[r].at /\ job'[r].moved = job[r].moved
        BY <1>2, <1>4 DEF Job
    <2> QED
        BY <1>1, <2>1 DEF InFlight
  <1>5. CASE RetireOriginal(r)
    <2>1. store'[a] = Cancel(job[r].seen) /\ job[r].seen \in BookingRecord
        BY <1>1, <1>2, <1>3, <1>5 DEF RetireOriginal, Write, Original, TypeOK, JobOK
    <2> QED
        BY <2>1 DEF OverFor, Cancel, BookingRecord
  <1>6. CASE Withdraw(r)
    <2>1. CASE CanChange(job[r].draft, 0, now)
      <3>1. store'[b] = Cancel(job[r].draft) /\ job[r].draft \in BookingRecord
          BY <1>1, <1>2, <1>6, <2>1 DEF Withdraw, Write, TypeOK, JobOK
      <3> QED
          BY <3>1 DEF Holds, Cancel, BookingRecord, Occupying
    <2>2. CASE ~CanChange(job[r].draft, 0, now)
      <3>1. store[b].slot.start \in Int /\ now \in Int
          BY <1>2, SlotAssumption DEF BookingRecord, TypeOK
      <3> QED
          BY <1>3, <2>2, <3>1 DEF CanChange, Inactive
    <2> QED
        BY <2>1, <2>2
  <1>7. CASE SaveFails(r)
    <2>1. faults < MaxFaults /\ faults \in Nat /\ MaxFaults \in Nat
        BY <1>2, <1>7, DeskAssumption DEF SaveFails, Strike, TypeOK
    <2>2. job[r].at = "retire"
        BY <1>1, <2>1 DEF Calm
    <2>3. job'[r] = [job[r] EXCEPT !.at = "withdraw"]
        BY <1>2, <1>7, <2>2, BecomeEffect DEF SaveFails, OnSaveFailure
    <2>4. job'[r].at = "withdraw" /\ job'[r].moved = b
        BY <1>1, <1>2, <2>3 DEF Job
    <2> QED
        BY <2>4 DEF InFlight
  <1>8. ~Abandon(r)
      BY DEF Abandon, Strike
  <1>9. ~(CustomerCall(r) \/ StaffCall(r))
    <2>1. job[r] # Idle
        BY SMTT(60), <1>1 DEF Idle
    <2>2. ~CustomerCall(r)
        BY ZenonT(60), <2>1 DEF CustomerCall, Create, CancelBooking, RescheduleBooking, Read, Call
    <2>3. ~StaffCall(r)
        BY ZenonT(60), <2>1 DEF StaffCall, ReassignRep, SetNotes, CheckInBooking, StartDrive, CompleteDrive,
                    RecordNoShow, Read, Call
    <2> QED
        BY <2>2, <2>3
  <1>10. Proceed(r) => RetireOriginal(r) \/ Withdraw(r)
      BY <1>1 DEF Proceed, Reserve, InsertBooking, Promote, ConfirmPromotion, SaveCancel, Move,
                  InsertReplacement, SaveBooking
  <1> QED
      BY <1>4, <1>5, <1>6, <1>7, <1>8, <1>9, <1>10, WhoMoves

\* Every step keeps TwinInv.
LEMMA TwinStep ==
    ASSUME MaxFaults <= 1, "abandon" \notin Fault
    PROVE  DeskInv /\ Calm /\ TwinInv /\ [Next]_vars => TwinInv'
  <1> SUFFICES ASSUME DeskInv, Calm, TwinInv, [Next]_vars PROVE TwinInv'
      OBVIOUS
  <1>1. StoreStep /\ DeskInv'
      BY DeskStep
  <1>2. now \in Int /\ now' \in Int /\ now <= now'
    <2>1. TypeOK /\ TypeOK'
        BY <1>1 DEF DeskInv, IInv
    <2>2. now' \in {now, now + 1}
        BY ClockAndFaults
    <2> QED
        BY <2>1, <2>2, DeskAssumption DEF TypeOK
  <1>3. ASSUME NEW a \in Existing', NEW b \in Existing', store'[b].rescheduledFrom = a, Holds(b)',
               a \notin Tainted', b \notin Tainted'
        PROVE  InFlight(b)' \/ OverFor(a)' \/ store'[b].slot.start < now'
    <2>1. CASE b \notin Existing
      <3>1. a # NoBooking
          BY NullAssumption DEF Existing
      <3> QED
          BY <1>3, <2>1, <3>1, NewReplacement
    <2>2. CASE b \in Existing
      <3>1. /\ store[b].rescheduledFrom = a /\ store'[b].slot = store[b].slot
            /\ <<store[b].status, store'[b].status>> \in Lifecycle
          BY <1>1, <1>3, <2>2 DEF StoreStep, SameTrip
      <3>2. a # NoBooking /\ a \in Existing /\ store[b].status # "Waitlisted" /\ store[b] # NoBooking
          BY <1>3, <2>2, <3>1, NullAssumption DEF Existing, DeskInv, KnowInv, RecordOK
      <3>3. Holds(b)
          BY <1>3, <3>1, <3>2 DEF Holds, Lifecycle, StaffEdit, Occupying, Status, Inactive
      <3>4. InFlight(b) \/ OverFor(a) \/ store[b].slot.start < now
          BY <1>1, <1>3, <2>2, <3>1, <3>2, <3>3 DEF TwinInv, StoreStep
      <3>5. CASE InFlight(b) \/ store[b].slot.start < now
        <4>1. store[b].slot.start \in Int
            BY <2>2, Typed, SlotAssumption DEF DeskInv, BookingRecord
        <4>2. CASE InFlight(b)
          <5>1. InFlight(b)' \/ OverFor(a)' \/ store[b].slot.start < now
              BY <1>3, <2>2, <3>1, <3>2, <4>2, FlightEnds
          <5> QED
              BY <1>2, <3>1, <4>1, <5>1
        <4> QED
            BY <1>2, <3>1, <3>5, <4>1, <4>2
      <3>6. CASE OverFor(a)
        <4>1. <<store[a].status, store'[a].status>> \in Lifecycle
            BY <1>1, <1>3, <3>2 DEF StoreStep
        <4> QED
            BY <3>6, <4>1 DEF OverFor, Lifecycle, StaffEdit, Inactive
      <3> QED
          BY <3>4, <3>5, <3>6
    <2> QED
        BY <2>1, <2>2
  <1> QED
      BY <1>3 DEF TwinInv

\* A customer is never left holding a booking and its replacement, unless a
\* second save fails, a request dies half-way, or the exceptions of the property
\* hold (rescheduleBooking, booking-mutation.service.ts:122): whatever the
\* number of bookings and requests and whichever locks expire.
THEOREM NoTwinBookingsTheorem ==
    ASSUME MaxFaults <= 1, "abandon" \notin Fault
    PROVE  Spec => []NoTwinBookings
  <1>1. Init => DeskInv /\ Calm /\ TwinInv
    <2>1. Init => Existing = {}
        BY DEF Init, Existing
    <2> QED
        BY <2>1, DeskInit, CalmInit DEF TwinInv
  <1>2. (DeskInv /\ Calm /\ TwinInv) /\ [Next]_vars => (DeskInv /\ Calm /\ TwinInv)'
      BY DeskStep, CalmStep, TwinStep
  <1>3. DeskInv /\ TwinInv => NoTwinBookings
      BY DEF TwinInv, NoTwinBookings, OverFor, Holds, InFlight, Occupying
  <1> QED
      BY <1>1, <1>2, <1>3, PTL DEF Spec

-----------------------------------------------------------------------------
(* Freed slots and the promotions under way                                *)

\* The hypothesis of this part: the slots that are offered line up, so that two
\* of them overlap only if they are one.
SlotsLineUp == \A s, t \in Slot : Overlaps(s, t) <=> s = t

\* The slots of vehicle v that bookings occupy, that somebody waits for or is
\* about to, and that somebody is about to be promoted to.
Taken(v) == {store[a].slot : a \in ActiveOf(v)}
Joining(v) ==
    {r \in Request : job[r].at = "insert" /\ job[r].draft.status = "Waitlisted" /\ job[r].draft.vehicle = v}
Wanted(v) == {store[w].slot : w \in WaitlistOf(v)} \cup {job[r].draft.slot : r \in Joining(v)}
Confirming(v) == {r \in Request : job[r].at = "confirm" /\ job[r].draft.vehicle = v}
Given(v) == {job[r].draft.slot : r \in Confirming(v)}

\* The slots that a promotion would find somebody for; the promotions to come.
Open(v) == {s \in Wanted(v) : s.start > now} \ (Taken(v) \cup Given(v))
Promoting(v) == {r \in Request : job[r].at = "promote" /\ job[r].draft.vehicle = v}

\* A drive of v completed or its customer did not show up: see FreedSlotIsOffered.
Served(v) == \E b \in Existing : store[b].vehicle = v /\ store[b].status \in {"Completed", "NoShow"}

\* There are as many promotions to come as slots to give away.
Offered(v) == Served(v) \/ Cardinality(Open(v)) <= Cardinality(Promoting(v))
OfferInv == faults = 0 /\ clobbered = {} => \A v \in Vehicle : Offered(v)

\* What a step does to that balance: it takes slots away, frees one and brings
\* the promotion for it, or carries a promotion out.
Balanced(v) ==
    \/ Open(v)' \subseteq Open(v) /\ Promoting(v) \subseteq Promoting(v)'
    \/ \E s, r : /\ Open(v)' \subseteq Open(v) \cup {s}
                 /\ r \notin Promoting(v) /\ Promoting(v) \cup {r} \subseteq Promoting(v)'
    \/ \E s \in Open(v) : \E r : Open(v)' \subseteq Open(v) \ {s} /\ Promoting(v) \ {r} \subseteq Promoting(v)'
    \/ Open(v)' = {}
    \/ Served(v)'

\* The counting behind Balanced.
LEMMA Counting ==
    ASSUME NEW A, NEW B, NEW P, NEW Q, IsFiniteSet(A), IsFiniteSet(P), IsFiniteSet(Q),
           Cardinality(A) <= Cardinality(P),
           \/ B \subseteq A /\ P \subseteq Q
           \/ \E s, r : B \subseteq A \cup {s} /\ r \notin P /\ P \cup {r} \subseteq Q
           \/ \E s \in A : \E r : B \subseteq A \ {s} /\ P \ {r} \subseteq Q
           \/ B = {}
    PROVE  Cardinality(B) <= Cardinality(Q)
  <1>1. Cardinality(A) \in Nat /\ Cardinality(P) \in Nat /\ Cardinality(Q) \in Nat
      BY FS_CardinalityType
  <1>2. ASSUME NEW S, NEW T, IsFiniteSet(S), T \subseteq S
        PROVE  IsFiniteSet(T) /\ Cardinality(T) \in Nat /\ Cardinality(S) \in Nat /\ Cardinality(T) <= Cardinality(S)
      BY <1>2, FS_Subset, FS_CardinalityType
  <1>3. CASE B \subseteq A /\ P \subseteq Q
    <2>1. Cardinality(B) <= Cardinality(A) /\ Cardinality(P) <= Cardinality(Q) /\ Cardinality(B) \in Nat
        BY <1>2, <1>3
    <2> QED
        BY <1>1, <2>1
  <1>4. ASSUME NEW s, NEW r, B \subseteq A \cup {s}, r \notin P, P \cup {r} \subseteq Q
        PROVE  Cardinality(B) <= Cardinality(Q)
    <2>1. IsFiniteSet(A \cup {s}) /\ Cardinality(A \cup {s}) <= Cardinality(A) + 1
      <3>1. /\ IsFiniteSet(A \cup {s})
            /\ Cardinality(A \cup {s}) = IF s \in A THEN Cardinality(A) ELSE Cardinality(A) + 1
          BY FS_AddElement
      <3> QED
          BY <1>1, <3>1
    <2>2. Cardinality(P \cup {r}) = Cardinality(P) + 1
        BY <1>4, FS_AddElement
    <2>3. Cardinality(B) <= Cardinality(A \cup {s}) /\ Cardinality(B) \in Nat /\ Cardinality(A \cup {s}) \in Nat
        BY <1>2, <1>4, <2>1
    <2>4. Cardinality(P \cup {r}) <= Cardinality(Q)
        BY <1>2, <1>4
    <2> QED
        BY <1>1, <2>1, <2>2, <2>3, <2>4
  <1>5. ASSUME NEW s \in A, NEW r, B \subseteq A \ {s}, P \ {r} \subseteq Q
        PROVE  Cardinality(B) <= Cardinality(Q)
    <2>1. IsFiniteSet(A \ {s}) /\ Cardinality(A \ {s}) = Cardinality(A) - 1
        BY FS_RemoveElement
    <2>2. Cardinality(P \ {r}) >= Cardinality(P) - 1
      <3>1. Cardinality(P \ {r}) = IF r \in P THEN Cardinality(P) - 1 ELSE Cardinality(P)
          BY FS_RemoveElement
      <3> QED
          BY <1>1, <3>1
    <2>3. Cardinality(B) <= Cardinality(A \ {s}) /\ Cardinality(B) \in Nat
        BY <1>2, <1>5, <2>1
    <2>4. Cardinality(P \ {r}) <= Cardinality(Q) /\ Cardinality(P \ {r}) \in Nat
        BY <1>2, <1>5
    <2> QED
        BY <1>1, <2>1, <2>2, <2>3, <2>4
  <1>6. CASE B = {}
      BY <1>1, <1>6, FS_EmptySet
  <1> QED
      BY <1>3, <1>4, <1>5, <1>6

\* There are finitely many open slots.
LEMMA FinitelyManyOpen ==
    ASSUME IsFiniteSet(BookingId), IsFiniteSet(Request), NEW v
    PROVE  IsFiniteSet(Open(v)) /\ IsFiniteSet(Promoting(v)) /\ IsFiniteSet(Promoting(v)')
  <1>1. /\ WaitlistOf(v) \in SUBSET BookingId /\ Joining(v) \in SUBSET Request
        /\ Promoting(v) \in SUBSET Request /\ Promoting(v)' \in SUBSET Request
      BY DEF WaitlistOf, Existing, Joining, Promoting
  <1>2. /\ IsFiniteSet(WaitlistOf(v)) /\ IsFiniteSet(Joining(v))
        /\ IsFiniteSet(Promoting(v)) /\ IsFiniteSet(Promoting(v)')
      BY <1>1, FS_Subset
  <1>3. IsFiniteSet({store[w].slot : w \in WaitlistOf(v)})
    <2> DEFINE S == {store[w].slot : w \in WaitlistOf(v)}
               f == [w \in WaitlistOf(v) |-> store[w].slot]
    <2>1. f \in Surjection(WaitlistOf(v), S)
        BY DEF Surjection
    <2> HIDE DEF f
    <2> QED
        BY <1>2, <2>1, FS_Surjection
  <1>4. IsFiniteSet({job[r].draft.slot : r \in Joining(v)})
    <2> DEFINE S == {job[r].draft.slot : r \in Joining(v)}
               f == [r \in Joining(v) |-> job[r].draft.slot]
    <2>1. f \in Surjection(Joining(v), S)
        BY DEF Surjection
    <2> HIDE DEF f
    <2> QED
        BY <1>2, <2>1, FS_Surjection
  <1>5. IsFiniteSet(Wanted(v))
      BY <1>3, <1>4, FS_Union DEF Wanted
  <1>6. Open(v) \in SUBSET Wanted(v)
      BY DEF Open
  <1> QED
      BY <1>2, <1>5, <1>6, FS_Subset

\* A slot conflicts when a booking occupies it.
LEMMA TakenConflicts ==
    ASSUME DeskInv, SlotsLineUp, NEW v, NEW s \in Slot, NEW x, x \notin ActiveOf(v)
    PROVE  Conflict(v, s, x) <=> s \in Taken(v)
  <1>1. \A a \in ActiveOf(v) : a # x /\ store[a].slot \in Slot
      BY Typed DEF DeskInv, ActiveOf, BookingRecord
  <1> QED
      BY <1>1 DEF Conflict, Taken, SlotsLineUp

\* What the jobs of the other requests contribute stays.
LEMMA OthersContribute ==
    ASSUME NEW r \in Request, \A q \in Request \ {r} : job'[q] = job[q], NEW v
    PROVE  /\ {job'[q].draft.slot : q \in Joining(v)' \ {r}} \subseteq Wanted(v)
           /\ Given(v) \subseteq Given(v)' \cup {job[r].draft.slot}
           /\ r \notin Confirming(v) => Given(v) \subseteq Given(v)'
           /\ Promoting(v) \ {r} \subseteq Promoting(v)'
           /\ r \notin Promoting(v) => Promoting(v) \subseteq Promoting(v)'
  BY DEF Joining, Wanted, Given, Confirming, Promoting

\* The slots that are open after a step were open, or are among those it frees.
LEMMA OpenSlots ==
    ASSUME DeskInv, [Next]_vars, NEW v, NEW X,
           Wanted(v)' \subseteq Wanted(v) \cup Taken(v)' \cup X,
           Taken(v) \subseteq Taken(v)' \cup X,
           Given(v) \subseteq Given(v)' \cup Taken(v)'
    PROVE  Open(v)' \subseteq Open(v) \cup X
  <1>1. now \in Int /\ now' \in {now, now + 1}
      BY Typed, ClockAndFaults DEF DeskInv, TypeOK
  <1>2. \A s \in Wanted(v) : s.start \in Int
    <2>1. \A w \in WaitlistOf(v) : store[w].slot \in Slot
        BY Typed DEF DeskInv, WaitlistOf, BookingRecord
    <2>2. \A r \in Joining(v) : job[r].draft.slot \in Slot
        BY Typed DEF DeskInv, JobOK, Joining, BookingRecord
    <2> QED
        BY <2>1, <2>2, SlotAssumption DEF Wanted
  <1>3. ASSUME NEW s \in Open(v)', s \notin X PROVE s \in Open(v)
    <2>1. s \in Wanted(v) /\ s.start > now' /\ s \notin Taken(v)' /\ s \notin Given(v)'
        BY <1>3 DEF Open
    <2>2. s.start > now
        BY <1>1, <1>2, <2>1
    <2> QED
        BY <1>3, <2>1, <2>2 DEF Open
  <1> QED
      BY <1>3

\* Steps that write no booking, and neither promote on v nor save a promotion.
LEMMA NoWriteBalanced ==
    ASSUME DeskInv, [Next]_vars, NEW v, NEW r \in Request, \A q \in Request \ {r} : job'[q] = job[q],
           store' = store, r \notin Promoting(v), r \notin Confirming(v),
           r \in Joining(v)' => job'[r].draft.slot \in Taken(v)
    PROVE  Balanced(v)
  <1>1. Taken(v)' = Taken(v) /\ WaitlistOf(v)' = WaitlistOf(v)
      BY DEF Taken, ActiveOf, WaitlistOf, Existing
  <1>2. Wanted(v)' \subseteq Wanted(v) \cup Taken(v)'
    <2>1. {store'[w].slot : w \in WaitlistOf(v)'} \subseteq Wanted(v)
        BY <1>1 DEF Wanted
    <2>2. \A q \in Joining(v)' : job'[q].draft.slot \in Wanted(v) \cup Taken(v)'
        BY <1>1, OthersContribute
    <2> QED
        BY <2>1, <2>2 DEF Wanted
  <1>3. Given(v) \subseteq Given(v)' /\ Promoting(v) \subseteq Promoting(v)'
      BY OthersContribute
  <1>4. Open(v)' \subseteq Open(v) \cup {}
      BY <1>1, <1>2, <1>3, OpenSlots
  <1> QED
      BY <1>3, <1>4 DEF Balanced

\* Calls, and a move or a create that enters: whoever joins the waitlist does
\* so because the slot is taken.
LEMMA EnterBalanced ==
    ASSUME DeskInv, SlotsLineUp, [Next]_vars, NEW v, NEW r \in Request,
           \A q \in Request \ {r} : job'[q] = job[q],
           CustomerCall(r) \/ StaffCall(r) \/ Move(r) \/ Reserve(r)
    PROVE  Balanced(v)
  <1>1. store' = store
      BY ZenonT(60) DEF CustomerCall, Create, CancelBooking, RescheduleBooking, StaffCall, ReassignRep, SetNotes,
             CheckInBooking, StartDrive, CompleteDrive, RecordNoShow, Read, Reserve, Move
  <1>2. job[r].at \notin {"promote", "confirm"}
    <2>1. CustomerCall(r) \/ StaffCall(r) => job[r] = Idle
        BY DEF CustomerCall, Create, CancelBooking, RescheduleBooking, StaffCall, ReassignRep, SetNotes,
               CheckInBooking, StartDrive, CompleteDrive, RecordNoShow, Read, Call
    <2>2. Idle.at = "idle"
        BY DEF Idle
    <2> QED
        BY ZenonT(60), <2>1, <2>2 DEF Move, Reserve
  <1>3. ASSUME r \in Joining(v)' PROVE job'[r].draft.slot \in Taken(v)
    <2> DEFINE d == job[r].draft
    <2>1. Reserve(r)
        BY SMTT(60), <1>3, LeadsTo DEF Joining
    <2>2. /\ TypeOK /\ job[r] \in Job /\ d \in BookingRecord /\ d.slot \in Slot /\ NoBooking \notin ActiveOf(v)
        BY <2>1, Typed DEF DeskInv, JobOK, Reserve, BookingRecord, ActiveOf
    <2>3. \A rep : AssignRep(Confirm(d), rep).status = "Confirmed"
        BY <2>2 DEF AssignRep, Confirm, BookingRecord
    <2>4. \A p : Waitlist(d, p).slot = d.slot /\ Waitlist(d, p).vehicle = d.vehicle
        BY SMTT(60), <2>2 DEF Waitlist, BookingRecord
    <2>5. \/ job'[r] = Idle
          \/ \E rep : job'[r] = [job[r] EXCEPT !.at = "insert", !.draft = AssignRep(Confirm(d), rep)]
          \/ /\ Conflict(d.vehicle, d.slot, NoBooking)
             /\ \E p : job'[r] = [job[r] EXCEPT !.at = "insert", !.draft = Waitlist(d, p)]
        BY <2>1, <2>2, BecomeEffect DEF Reserve
    <2>6. Conflict(d.vehicle, d.slot, NoBooking) /\ \E p : job'[r].draft = Waitlist(d, p)
      <3>1. job'[r].at = "insert" /\ job'[r].draft.status = "Waitlisted"
          BY <1>3 DEF Joining
      <3>2. job'[r] # Idle
          BY <3>1 DEF Idle
      <3>3. \A x : [job[r] EXCEPT !.at = "insert", !.draft = x].draft = x
          BY <2>2 DEF Job
      <3>4. ~\E rep : job'[r] = [job[r] EXCEPT !.at = "insert", !.draft = AssignRep(Confirm(d), rep)]
        <4> SUFFICES ASSUME NEW rep, job'[r] = [job[r] EXCEPT !.at = "insert", !.draft = AssignRep(Confirm(d), rep)]
                     PROVE  FALSE
            OBVIOUS
        <4>1. job'[r].draft = AssignRep(Confirm(d), rep)
            BY <2>2 DEF Job
        <4> QED
            BY <2>3, <3>1, <4>1
      <3> QED
          BY <2>5, <3>2, <3>3, <3>4
    <2>7. Conflict(v, d.slot, NoBooking)
        BY <1>3, <2>4, <2>6 DEF Joining
    <2> QED
        BY <2>2, <2>4, <2>6, <2>7, TakenConflicts
  <1> QED
      BY SMTT(60), <1>1, <1>2, <1>3, NoWriteBalanced DEF Promoting, Confirming

\* A new booking takes its slot or waits for the one it was about to wait for.
LEMMA InsertBalanced ==
    ASSUME DeskInv, [Next]_vars, NEW v, NEW r \in Request, \A q \in Request \ {r} : job'[q] = job[q],
           InsertBooking(r) \/ InsertReplacement(r)
    PROVE  Balanced(v)
  <1>1. PICK new \in Unused : Inserts(r, new)
      BY DEF InsertBooking, InsertReplacement, Inserts
  <1>2. /\ new \notin Existing /\ Existing' = Existing \cup {new} /\ store'[new] = job[r].draft
        /\ \A a \in Existing : store'[a] = store[a]
      BY <1>1, InsertIsStoreStep
  <1>3. Taken(v) \subseteq Taken(v)'
      BY SMTT(60), <1>2 DEF Taken, ActiveOf
  <1>4. job[r].at \in {"insert", "moveInsert"} /\ job'[r].at \notin {"insert", "confirm"}
      BY LeadsTo DEF InsertBooking, InsertReplacement
  <1>5. ASSUME NEW w \in WaitlistOf(v)' PROVE store'[w].slot \in Wanted(v)
    <2>1. CASE w = new
      <3>1. job[r].draft.status = "Waitlisted" /\ job[r].draft.vehicle = v /\ Knows(r)
          BY <1>2, <1>5, <2>1 DEF WaitlistOf, DeskInv, KnowInv
      <3>2. r \in Joining(v)
          BY <1>4, <3>1 DEF Joining, Knows
      <3> QED
          BY <1>2, <2>1, <3>2 DEF Wanted
    <2>2. CASE w \in Existing
        BY <1>2, <1>5, <2>2 DEF Wanted, WaitlistOf
    <2> QED
        BY <1>2, <1>5, <2>1, <2>2 DEF WaitlistOf
  <1>6. Wanted(v)' \subseteq Wanted(v)
    <2>1. \A q \in Joining(v)' : job'[q].draft.slot \in Wanted(v)
        BY <1>4, OthersContribute DEF Joining
    <2> QED
        BY <1>5, <2>1 DEF Wanted
  <1>7. Given(v) \subseteq Given(v)' /\ Promoting(v) \subseteq Promoting(v)'
      BY <1>4, OthersContribute DEF Confirming, Promoting
  <1>8. Open(v)' \subseteq Open(v) \cup {}
      BY <1>3, <1>6, <1>7, OpenSlots
  <1> QED
      BY <1>7, <1>8 DEF Balanced

\* A save over the record that was read: who waits had waited, and only the
\* slot of a booking that no longer occupies it is given up.
LEMMA OverwriteSlots ==
    ASSUME DeskInv, NEW b, NEW rec, Overwrites(b, store[b], rec), NEW v
    PROVE  /\ {store'[w].slot : w \in WaitlistOf(v)'} \subseteq {store[w].slot : w \in WaitlistOf(v)}
           /\ Taken(v) \subseteq Taken(v)' \cup {store[b].slot}
           /\ store[b].vehicle # v \/ (store[b].status \in Occupying => rec.status \in Occupying) =>
                 Taken(v) \subseteq Taken(v)'
           /\ store[b].vehicle = v /\ rec.status \in Occupying => store[b].slot \in Taken(v)'
  <1>1. /\ TypeOK /\ b \in BookingId /\ b \in Existing /\ NoBooking \notin BookingRecord /\ rec \in BookingRecord
        /\ store' = [store EXCEPT ![b] = rec] /\ SameTrip(rec, store[b])
      BY Typed DEF DeskInv, Overwrites, Write
  <1>2. store'[b] = rec /\ \A a \in BookingId \ {b} : store'[a] = store[a]
      BY <1>1 DEF TypeOK
  <1>3. Existing' = Existing
      BY <1>1, <1>2 DEF Existing
  <1>4. \A a \in Existing : store'[a].slot = store[a].slot /\ store'[a].vehicle = store[a].vehicle
      BY <1>1, <1>2 DEF SameTrip, Existing
  <1>5. rec.status = "Waitlisted" => store[b].status = "Waitlisted"
      BY DEF Overwrites, Lifecycle, StaffEdit
  <1>6. WaitlistOf(v)' \subseteq WaitlistOf(v)
      BY <1>2, <1>3, <1>4, <1>5 DEF WaitlistOf, Existing
  <1>7. \A a \in ActiveOf(v) : a \in ActiveOf(v)' \/ (a = b /\ rec.status \notin Occupying)
      BY <1>2, <1>3, <1>4 DEF ActiveOf, Existing
  <1>8. \A a \in ActiveOf(v)' : store'[a].slot = store[a].slot
      BY <1>3, <1>4 DEF ActiveOf
  <1>9. {store'[w].slot : w \in WaitlistOf(v)'} \subseteq {store[w].slot : w \in WaitlistOf(v)}
      BY <1>3, <1>4, <1>6 DEF WaitlistOf
  <1>10. \A a \in ActiveOf(v) : store[a].slot \in Taken(v)' \/ (a = b /\ rec.status \notin Occupying)
      BY <1>7, <1>8 DEF Taken
  <1>11. b \in ActiveOf(v) => store[b].vehicle = v /\ store[b].status \in Occupying
      BY DEF ActiveOf
  <1>12. store[b].vehicle = v /\ rec.status \in Occupying => b \in ActiveOf(v)'
      BY <1>1, <1>2, <1>3, <1>4 DEF ActiveOf
  <1> QED
      BY <1>8, <1>9, <1>10, <1>11, <1>12 DEF Taken

\* Cancelling, and retiring an original, frees a slot and brings a promotion, or
\* takes somebody off the waitlist.
LEMMA FreeBalanced ==
    ASSUME DeskInv, [Next]_vars, clobbered' = {}, NEW v, NEW r \in Request,
           \A q \in Request \ {r} : job'[q] = job[q],
           SaveCancel(r) \/ RetireOriginal(r)
    PROVE  Balanced(v)
  <1> DEFINE b == job[r].id
             X == IF store[b].vehicle = v /\ store[b].status \in Occupying THEN {store[b].slot} ELSE {}
  <1>1. PICK rec : Overwrites(b, job[r].seen, rec)
      BY SaveOverwrites
  <1>2. job[r].seen = store[b] /\ Overwrites(b, store[b], rec) /\ store[b] \in BookingRecord
      BY <1>1, Typed DEF DeskInv, Overwrites, Write
  <1>3. job'[r] = FollowUp(store[b]) /\ job[r].at \in {"cancel", "retire"}
      BY <1>2, Typed, BecomeEffect DEF DeskInv, SaveCancel, RetireOriginal
  <1>4. job'[r].at \notin {"insert", "confirm"}
      BY LeadsTo
  <1>5. Wanted(v)' \subseteq Wanted(v)
    <2>1. \A q \in Joining(v)' : job'[q].draft.slot \in Wanted(v)
        BY <1>4, OthersContribute DEF Joining
    <2>2. {store'[w].slot : w \in WaitlistOf(v)'} \subseteq {store[w].slot : w \in WaitlistOf(v)}
        BY <1>2, OverwriteSlots
    <2> QED
        BY <2>1, <2>2 DEF Wanted
  <1>6. Given(v) \subseteq Given(v)' /\ Promoting(v) \subseteq Promoting(v)' /\ r \notin Promoting(v)
      BY <1>3, OthersContribute DEF Confirming, Promoting
  <1>7. CASE store[b].vehicle = v /\ store[b].status \in Occupying
    <2>1. job'[r] = Promotion(store[b])
        BY <1>3, <1>7 DEF FollowUp, FreesSlot
    <2>2. job'[r].at = "promote" /\ job'[r].draft = store[b]
        BY <2>1 DEF Promotion, Idle
    <2>3. r \in Promoting(v)'
        BY <1>7, <2>2 DEF Promoting
    <2>4. Taken(v) \subseteq Taken(v)' \cup {store[b].slot}
        BY <1>2, OverwriteSlots
    <2>5. Open(v)' \subseteq Open(v) \cup {store[b].slot}
        BY <1>5, <1>6, <2>4, OpenSlots
    <2>6. r \notin Promoting(v) /\ Promoting(v) \cup {r} \subseteq Promoting(v)'
        BY <1>6, <2>3
    <2> QED
        BY <2>5, <2>6 DEF Balanced
  <1>8. CASE ~(store[b].vehicle = v /\ store[b].status \in Occupying)
    <2>1. Taken(v) \subseteq Taken(v)'
        BY <1>2, <1>8, OverwriteSlots
    <2>2. Open(v)' \subseteq Open(v) \cup {}
        BY <1>5, <1>6, <2>1, OpenSlots
    <2> QED
        BY <1>6, <2>2 DEF Balanced
  <1> QED
      BY <1>7, <1>8

\* A staff operation takes nothing from the slots unless it ends a drive.
LEMMA SaveBalanced ==
    ASSUME DeskInv, [Next]_vars, clobbered' = {}, NEW v, NEW r \in Request,
           \A q \in Request \ {r} : job'[q] = job[q], SaveBooking(r)
    PROVE  Balanced(v)
  <1> DEFINE b == job[r].id
             rec == job[r].draft
  <1>1. Overwrites(b, job[r].seen, rec)
      BY SaveOverwrites
  <1>2. job[r].seen = store[b] /\ Overwrites(b, store[b], rec)
      BY <1>1 DEF Overwrites, Write
  <1>3. job[r].at = "save" /\ job'[r].at = "idle"
      BY LeadsTo DEF SaveBooking
  <1>4. Given(v) \subseteq Given(v)' /\ Promoting(v) \subseteq Promoting(v)'
      BY <1>3, OthersContribute DEF Confirming, Promoting
  <1>5. Wanted(v)' \subseteq Wanted(v)
    <2>1. \A q \in Joining(v)' : job'[q].draft.slot \in Wanted(v)
        BY <1>3, OthersContribute DEF Joining
    <2>2. {store'[w].slot : w \in WaitlistOf(v)'} \subseteq {store[w].slot : w \in WaitlistOf(v)}
        BY <1>2, OverwriteSlots
    <2> QED
        BY <2>1, <2>2 DEF Wanted
  <1>6. CASE store[b].vehicle = v /\ store[b].status \in Occupying /\ rec.status \notin Occupying
    <2>1. rec.status \in {"Completed", "NoShow"}
        BY <1>2, <1>3, <1>6 DEF DeskInv, KnowInv, Knows, StaffEdit, Occupying
    <2>2. store'[b] = rec /\ b \in Existing' /\ rec.vehicle = v
      <3>1. TypeOK /\ b \in BookingId /\ rec \in BookingRecord /\ NoBooking \notin BookingRecord
          BY <1>2, Typed DEF DeskInv, Overwrites
      <3>2. store'[b] = rec
          BY <1>2, <3>1 DEF Overwrites, Write, TypeOK
      <3> QED
          BY <1>2, <1>6, <3>1, <3>2 DEF Existing, Overwrites, SameTrip
    <2> QED
        BY <2>1, <2>2 DEF Balanced, Served
  <1>7. CASE ~(store[b].vehicle = v /\ store[b].status \in Occupying /\ rec.status \notin Occupying)
    <2>1. Taken(v) \subseteq Taken(v)'
        BY <1>2, <1>7, OverwriteSlots
    <2>2. Open(v)' \subseteq Open(v) \cup {}
        BY <1>4, <1>5, <2>1, OpenSlots
    <2> QED
        BY <1>4, <2>2 DEF Balanced
  <1> QED
      BY <1>6, <1>7

\* A promotion that is saved takes the slot that it was given.
LEMMA ConfirmBalanced ==
    ASSUME DeskInv, [Next]_vars, clobbered' = {}, NEW v, NEW r \in Request,
           \A q \in Request \ {r} : job'[q] = job[q], ConfirmPromotion(r)
    PROVE  Balanced(v)
  <1> DEFINE b == job[r].id
             rec == job[r].draft
  <1>1. Overwrites(b, job[r].seen, rec)
      BY SaveOverwrites
  <1>2. job[r].seen = store[b] /\ Overwrites(b, store[b], rec)
      BY <1>1 DEF Overwrites, Write
  <1>3. job[r].at = "confirm" /\ job'[r].at = "idle" /\ rec.status = "Confirmed" /\ rec.slot = store[b].slot
        /\ rec.vehicle = store[b].vehicle
      BY <1>2, LeadsTo DEF ConfirmPromotion, DeskInv, KnowInv, Knows, Overwrites, SameTrip
  <1>4. Taken(v) \subseteq Taken(v)' /\ (rec.vehicle = v => rec.slot \in Taken(v)')
    <2>1. rec.status \in Occupying
        BY <1>3 DEF Occupying
    <2> HIDE DEF b, rec
    <2> QED
        BY <1>2, <1>3, <2>1, OverwriteSlots
  <1>5. Given(v) \subseteq Given(v)' \cup Taken(v)'
      BY <1>4, OthersContribute DEF Confirming
  <1>6. Promoting(v) \subseteq Promoting(v)'
      BY <1>3, OthersContribute DEF Promoting
  <1>7. Wanted(v)' \subseteq Wanted(v)
    <2>1. \A q \in Joining(v)' : job'[q].draft.slot \in Wanted(v)
        BY <1>3, OthersContribute DEF Joining
    <2>2. {store'[w].slot : w \in WaitlistOf(v)'} \subseteq {store[w].slot : w \in WaitlistOf(v)}
        BY <1>2, OverwriteSlots
    <2> QED
        BY <2>1, <2>2 DEF Wanted
  <1>8. Open(v)' \subseteq Open(v) \cup {}
      BY <1>4, <1>5, <1>7, OpenSlots
  <1> QED
      BY <1>6, <1>8 DEF Balanced

\* A promotion gives one open slot away, or finds none: nobody else is in the
\* critical section.
LEMMA PromoteBalanced ==
    ASSUME DeskInv, Calm, faults = 0, SlotsLineUp, [Next]_vars, NEW v, NEW r \in Request,
           \A q \in Request \ {r} : job'[q] = job[q], Promote(r)
    PROVE  Balanced(v)
  <1> DEFINE Entered(w) == [Idle EXCEPT !.at = "confirm", !.id = w, !.seen = store[w],
                                        !.draft = Confirm(store[w])]
  <1>1. TypeOK /\ store' = store /\ job[r].at = "promote" /\ job'[r].at \in {"confirm", "idle"}
      BY Typed, LeadsTo DEF DeskInv, Promote
  <1>2. CASE job[r].draft.vehicle # v
      BY <1>1, <1>2, NoWriteBalanced DEF Promoting, Confirming, Joining
  <1>3. CASE job[r].draft.vehicle = v
    <2>1. Joining(v) = {} /\ Confirming(v) = {}
      <3>1. lock[v] = NoRequest
          BY <1>3 DEF Promote, CanEnter
      <3>2. \A q \in Request : job[q].at \in {"insert", "confirm"} => lock[job[q].draft.vehicle] = q
          BY DEF DeskInv, IInv, LockOK, InLock, Critical, Calm
      <3> QED
          BY <3>1, <3>2, DeskAssumption DEF Joining, Confirming
    <2>2. ASSUME NEW w \in WaitlistOf(v) PROVE w \in Eligible(v) <=> store[w].slot \in Open(v)
      <3>1. store[w].slot \in Slot /\ w \notin ActiveOf(v)
          BY Typed DEF DeskInv, WaitlistOf, BookingRecord, ActiveOf, Occupying
      <3>2. Conflict(v, store[w].slot, w) <=> store[w].slot \in Taken(v)
          BY <3>1, TakenConflicts
      <3> QED
          BY <2>1, <3>2 DEF Eligible, Open, Wanted, Given
    <2>3. Open(v)' \subseteq Open(v)
      <3>1. Taken(v)' = Taken(v) /\ WaitlistOf(v)' = WaitlistOf(v)
          BY <1>1 DEF Taken, ActiveOf, WaitlistOf, Existing
      <3>2. r \notin Joining(v)'
          BY <1>1 DEF Joining
      <3>3. Wanted(v)' \subseteq Wanted(v)
        <4>1. \A q \in Joining(v)' : job'[q].draft.slot \in Wanted(v)
            BY <3>2, OthersContribute
        <4> QED
            BY <1>1, <3>1, <4>1 DEF Wanted
      <3>4. Given(v) = {}
          BY <2>1 DEF Given
      <3>5. Open(v)' \subseteq Open(v) \cup {}
          BY <3>1, <3>3, <3>4, OpenSlots
      <3> QED
          BY <3>5
    <2>4. CASE Eligible(v) = {}
      <3>1. Open(v) = {}
          BY <2>1, <2>2, <2>4 DEF Open, Wanted
      <3> QED
          BY <2>3, <3>1 DEF Balanced
    <2>5. ASSUME NEW w \in FirstInLine(v), job'[r] = Entered(w) PROVE Balanced(v)
      <3>1. w \in Eligible(v) /\ w \in WaitlistOf(v) /\ store[w] \in BookingRecord /\ store[w].vehicle = v
          BY Typed DEF DeskInv, FirstInLine, Eligible, WaitlistOf
      <3>2. store[w].slot \in Open(v)
          BY <2>2, <3>1
      <3>3. job'[r].at = "confirm" /\ job'[r].draft.vehicle = v /\ job'[r].draft.slot = store[w].slot
          BY ZenonT(60), <2>5, <3>1 DEF Idle, Confirm, BookingRecord
      <3>4. store[w].slot \in Given(v)'
          BY <3>3 DEF Given, Confirming
      <3>5. Open(v)' \subseteq Open(v) \ {store[w].slot}
          BY <2>3, <3>4 DEF Open
      <3>6. Promoting(v) \ {r} \subseteq Promoting(v)'
          BY OthersContribute
      <3> QED
          BY <3>2, <3>5, <3>6 DEF Balanced
    <2> HIDE DEF Entered
    <2>6. Eligible(v) = {} \/ \E w \in FirstInLine(v) : job'[r] = Entered(w)
        BY <1>1, <1>3, BecomeEffect DEF Promote, Entered
    <2> QED
        BY <2>4, <2>5, <2>6
  <1> QED
      BY SMTT(60), <1>2, <1>3

\* A drive that was served stays served, and every step without a fault or a
\* lost update keeps the balance.
LEMMA OfferStep ==
    ASSUME SlotsLineUp, IsFiniteSet(BookingId), IsFiniteSet(Request)
    PROVE  DeskInv /\ Calm /\ OfferInv /\ [Next]_vars => OfferInv'
  <1> SUFFICES ASSUME DeskInv, Calm, OfferInv, [Next]_vars, faults' = 0, clobbered' = {}, NEW v \in Vehicle
               PROVE  Offered(v)'
      BY DEF OfferInv
  <1>1. StoreStep /\ Calm'
      BY DeskStep, CalmStep
  <1>2. faults = 0 /\ Tainted' = {} /\ clobbered = {}
      BY <1>1, WithoutFault DEF Calm, StoreStep, Tainted
  <1>3. Offered(v)
      BY <1>2 DEF OfferInv
  <1>4. Balanced(v)
    <2>1. ASSUME NEW r \in Request, \A q \in Request \ {r} : job'[q] = job[q],
                 CustomerCall(r) \/ StaffCall(r) \/ Proceed(r)
          PROVE  Balanced(v)
      <3>1. ~Withdraw(r)
          BY <1>2 DEF Withdraw, Calm
      <3> QED
          BY <1>2, <2>1, <3>1, EnterBalanced, InsertBalanced, FreeBalanced, SaveBalanced, ConfirmBalanced,
             PromoteBalanced DEF Proceed
    <2>2. CASE UNCHANGED <<store, lock, job, clobbered, overrun>>
      <3>1. Taken(v)' = Taken(v) /\ Wanted(v)' = Wanted(v) /\ Given(v)' = Given(v) /\ Promoting(v)' = Promoting(v)
          BY <2>2 DEF Taken, ActiveOf, Wanted, WaitlistOf, Existing, Joining, Given, Confirming, Promoting
      <3>2. Open(v)' \subseteq Open(v) \cup {}
          BY <3>1, OpenSlots
      <3> QED
          BY <3>1, <3>2 DEF Balanced
    <2> QED
        BY <2>1, <2>2, WithoutFault
  <1>5. ASSUME Served(v) PROVE Served(v)'
    <2>1. PICK b \in Existing : store[b].vehicle = v /\ store[b].status \in {"Completed", "NoShow"}
        BY <1>5 DEF Served
    <2>2. /\ b \in Existing' /\ store'[b].vehicle = v
          /\ <<store[b].status, store'[b].status>> \in Lifecycle
        BY <1>1, <1>2, <2>1 DEF StoreStep, SameTrip
    <2>3. store'[b].status \in {"Completed", "NoShow"}
        BY <2>1, <2>2 DEF Lifecycle, StaffEdit, Inactive
    <2> QED
        BY <2>2, <2>3 DEF Served
  <1>6. ASSUME ~Served(v)' PROVE Cardinality(Open(v)') <= Cardinality(Promoting(v)')
    <2>1. Cardinality(Open(v)) <= Cardinality(Promoting(v))
        BY <1>3, <1>5, <1>6 DEF Offered
    <2>2. IsFiniteSet(Open(v)) /\ IsFiniteSet(Promoting(v)) /\ IsFiniteSet(Promoting(v)')
        BY FinitelyManyOpen
    <2> DEFINE A == Open(v)
               B == Open(v)'
               P == Promoting(v)
               Q == Promoting(v)'
    <2>3. \/ B \subseteq A /\ P \subseteq Q
          \/ \E s, r : B \subseteq A \cup {s} /\ r \notin P /\ P \cup {r} \subseteq Q
          \/ \E s \in A : \E r : B \subseteq A \ {s} /\ P \ {r} \subseteq Q
          \/ B = {}
        BY <1>4, <1>6 DEF Balanced
    <2>4. IsFiniteSet(A) /\ IsFiniteSet(P) /\ IsFiniteSet(Q) /\ Cardinality(A) <= Cardinality(P)
        BY <2>1, <2>2
    <2> HIDE DEF A, B, P, Q
    <2>5. Cardinality(B) <= Cardinality(Q)
        BY <2>3, <2>4, Counting
    <2> QED
        BY <2>5 DEF B, Q
  <1> QED
      BY <1>6 DEF Offered

\* When nothing is in progress, nobody waits for a slot that is ahead and clear,
\* unless something failed or a drive of that vehicle ended: whoever freed the
\* slot promoted them, in whatever order the requests ran (promoteNextFor,
\* booking-mutation.service.ts:68).  The slots line up and there are finitely
\* many bookings and requests.
THEOREM FreedSlotTheorem ==
    ASSUME SlotsLineUp, IsFiniteSet(BookingId), IsFiniteSet(Request)
    PROVE  Spec => []FreedSlotIsOffered
  <1>1. Init => DeskInv /\ Calm /\ OfferInv
    <2> SUFFICES ASSUME Init, NEW v \in Vehicle PROVE Cardinality(Open(v)) <= Cardinality(Promoting(v))
        BY DeskInit, CalmInit DEF OfferInv, Offered
    <2>1. Open(v) = {} /\ Promoting(v) = {}
        BY DEF Init, Idle, Open, Wanted, WaitlistOf, Existing, Joining, Promoting
    <2> QED
        BY <2>1, FS_EmptySet
  <1>2. (DeskInv /\ Calm /\ OfferInv) /\ [Next]_vars => (DeskInv /\ Calm /\ OfferInv)'
      BY DeskStep, CalmStep, OfferStep
  <1>3. DeskInv /\ OfferInv => FreedSlotIsOffered
    <2> SUFFICES ASSUME DeskInv, Quiet, NEW v \in Vehicle, Offered(v), ~Served(v) PROVE Eligible(v) = {}
        BY DEF OfferInv, FreedSlotIsOffered, Served
    <2>1. \A r \in Request : job[r].at = "idle"
        BY DEF Quiet, Idle
    <2>2. Promoting(v) = {} /\ Confirming(v) = {}
        BY <2>1 DEF Promoting, Confirming
    <2>3. IsFiniteSet(Open(v)) /\ Cardinality(Open(v)) \in Nat /\ Cardinality(Promoting(v)) = 0
        BY <2>2, FinitelyManyOpen, FS_CardinalityType, FS_EmptySet
    <2>4. Open(v) = {}
        BY <2>3, FS_EmptySet DEF Offered
    <2>5. ASSUME NEW w \in Eligible(v) PROVE FALSE
      <3>1. store[w].slot \in Slot /\ w \notin ActiveOf(v) /\ w \in WaitlistOf(v)
          BY Typed DEF DeskInv, Eligible, WaitlistOf, BookingRecord, ActiveOf, Occupying
      <3>2. store[w].slot \notin Taken(v) /\ store[w].slot.start > now
          BY <3>1, TakenConflicts DEF Eligible
      <3>3. store[w].slot \in Open(v)
          BY <2>2, <3>1, <3>2 DEF Open, Wanted, Given
      <3> QED
          BY <2>4, <3>3
    <2> QED
        BY <2>5
  <1> QED
      BY <1>1, <1>2, <1>3, PTL DEF Spec
=============================================================================
