-------------------------- MODULE OperationsProofs --------------------------
(***************************************************************************)
(* Proofs about the staff console and the jobs behind it, for any number   *)
(* of members, vehicles, drives, bookings, customers and requests of them. *)
(* The components share no state: each has its own invariant and section.  *)
(*                                                                         *)
(* Fleet: until a request writes the vehicle, it stands where it was sent, *)
(* and one request at most is about to write it, unless two overlapped.    *)
(*                                                                         *)
(* Sharing: a user none of whose syncs have overlapped has one that runs   *)
(* at most, and the last to be queued writes what the user lacks; what a   *)
(* drive lacks, a recalculation that has its object left brings.           *)
(*                                                                         *)
(* StaffAccess: an instance acknowledges an edit after it has dropped what *)
(* it cached, and stores nothing that it began to load before, but late.   *)
(*                                                                         *)
(* Accounts: one request gives an account its first password and code; who *)
(* decides about a magic link has read an account that is its owner's; the *)
(* guesses at a code are those counted and those that read a lower count.  *)
(*                                                                         *)
(* Reminders: whoever is about to send or give back a reminder has its     *)
(* row, alone; one whose row is gone has not been sent, unless unheard; a  *)
(* run has served what it is past, but the bookings that failed meanwhile. *)
(***************************************************************************)
EXTENDS Fleet, Sharing, StaffAccess, Accounts, Reminders,
        SequenceTheorems, FiniteSetTheorems, TLAPS

-----------------------------------------------------------------------------
(***************************************************************************)
(* Vehicles and transfers (Fleet)                                          *)
(***************************************************************************)

TransferRecord == [from : Lot, to : Lot, status : {"Requested", "In_Transit", "Completed", "Cancelled"}]

\* A vehicle, and a save of one, that the org accepts
Stands(v) ==
    /\ v \in [branch : Lot, dealership : {DealershipOf[b] : b \in Lot}, status : VehicleStatus]
    /\ v.dealership = DealershipOf[v.branch]

\* What a request that will write has with it
Updating(q) == q.doing = "update" /\ q.sent \in BOOLEAN /\ Stands(q.vehicle)
Delivering(q) == q.doing = "deliver" /\ q.transfer \in TransferRecord
Moving(q) == q.doing = "move" /\ q.to \in Lot /\ (q.read => Stands(q.vehicle) /\ q.vehicle.branch = q.to)
Carries(q) ==
    /\ WritesVehicle(q) => Updating(q) \/ Delivering(q) \/ Moving(q)
    /\ q.doing \in {"request", "advance"} => q.transfer \in TransferRecord

\* Until it writes, the vehicle stands where it was sent.
InPlace(q) ==
    /\ q.doing \in {"update", "deliver"} => vehicle.branch = sentTo
    /\ q.doing = "update" /\ ~q.sent => q.vehicle.branch = sentTo
    /\ q.doing = "move" => q.to = sentTo

FleetTypes ==
    /\ vehicle = Gone \/ Stands(vehicle)
    /\ sentTo \in Lot
    /\ transfers \in [Transfer -> TransferRecord \cup {NoTransfer}]
    /\ served = [r \in FleetRequest |-> served[r]]
    /\ \A r \in FleetRequest : Carries(served[r])

OneWriter == \A r, q \in FleetRequest : WritesVehicle(served[r]) /\ WritesVehicle(served[q]) => r = q

FleetIInv ==
    /\ FleetTypes
    /\ VehicleIsWhereSent
    /\ ~disturbed => OneWriter /\ (vehicle # Gone => \A r \in FleetRequest : InPlace(served[r]))

-----------------------------------------------------------------------------
(* Requests                                                                *)

\* Somebody reads: what is not a write of the vehicle is of no consequence to it.
LEMMA ReadKeeps ==
    ASSUME FleetIInv, NEW r \in FleetRequest, NEW request, Read(r, request), Carries(request),
           vehicle # Gone /\ WritesVehicle(request) /\ vehicle.branch = sentTo => InPlace(request)
    PROVE  FleetIInv'
  <1>1. /\ vehicle' = vehicle /\ sentTo' = sentTo /\ transfers' = transfers
        /\ \A q \in FleetRequest : served'[q] = IF q = r THEN request ELSE served[q]
        /\ served' = [q \in FleetRequest |-> served'[q]]
        /\ served[r] = Waiting
    BY DEF Read, FleetIInv, FleetTypes
  <1>2. FleetTypes'
    BY <1>1 DEF FleetIInv, FleetTypes, Carries, Updating, Delivering, Moving, WritesVehicle, Stands
  <1>3. ASSUME ~disturbed', WritesVehicle(request)
        PROVE  /\ ~disturbed /\ \A q \in FleetRequest : ~WritesVehicle(served[q])
               /\ vehicle # Gone => vehicle.branch = sentTo
    BY <1>3 DEF Read, FleetIInv, VehicleIsWhereSent
  <1>4. ~disturbed' => ~disturbed
    BY DEF Read
  <1>5. ~disturbed' => OneWriter'
    BY <1>1, <1>3, <1>4 DEF FleetIInv, OneWriter, WritesVehicle
  <1>6. ASSUME ~disturbed', vehicle # Gone, NEW q \in FleetRequest
        PROVE  InPlace(served[q])'
    <2>1. CASE q # r
      BY <1>1, <1>4, <1>6, <2>1 DEF FleetIInv, InPlace
    <2>2. CASE q = r /\ WritesVehicle(request)
      BY <1>1, <1>3, <1>6, <2>2 DEF InPlace
    <2>3. CASE q = r /\ ~WritesVehicle(request)
      BY <1>1, <2>3 DEF InPlace, WritesVehicle
    <2> QED
      BY <2>1, <2>2, <2>3
  <1>7. VehicleIsWhereSent'
    <2>1. ~WritesVehicle(Waiting)
      BY DEF WritesVehicle, Waiting
    <2>2. ASSUME \A q \in FleetRequest : ~WritesVehicle(served'[q])
          PROVE  \A q \in FleetRequest : ~WritesVehicle(served[q])
      BY <1>1, <2>1, <2>2
    <2> QED
      BY <1>1, <1>4, <2>2 DEF FleetIInv, VehicleIsWhereSent, WritesVehicle
  <1> QED
    BY <1>1, <1>2, <1>5, <1>6, <1>7 DEF FleetIInv

LEMMA UpdateKeeps ==
    ASSUME FleetIInv, NEW r \in FleetRequest, Update(r)
    PROVE  FleetIInv'
  <1>1. PICK form \in Forms : vehicle # Gone /\ Read(r, [doing |-> "update", sent |-> form[1] # vehicle.branch, vehicle |-> Patched(form)])
    BY DEF Update
  <1>2. Stands(vehicle) /\ form[1] \in Lot /\ form[2] \in VehicleStatus
    BY <1>1 DEF FleetIInv, FleetTypes, Forms
  <1>3. Stands(Patched(form)) /\ Patched(form).branch = form[1]
    <2> DEFINE patched == [vehicle EXCEPT !.status = form[2]]
    <2>1. Stands(patched) /\ patched.branch = vehicle.branch
      BY <1>2 DEF Stands
    <2> HIDE DEF patched
    <2>2. Stands(MovedTo(patched, form[1])) /\ MovedTo(patched, form[1]).branch = form[1]
      BY <1>2, <2>1 DEF Stands, MovedTo
    <2> QED
      BY <2>1, <2>2 DEF Patched, patched
  <1> DEFINE request == [doing |-> "update", sent |-> form[1] # vehicle.branch, vehicle |-> Patched(form)]
  <1>4. Carries(request)
    BY <1>3 DEF Carries, Updating
  <1>5. vehicle.branch = sentTo => InPlace(request)
    BY <1>3 DEF InPlace
  <1> QED
    BY <1>1, <1>4, <1>5, ReadKeeps

\* Who reads in order to write something else
LEMMA HarmlessReadKeeps ==
    ASSUME FleetIInv, NEW r \in FleetRequest,
           \/ Delete(r) \/ RequestTransfer(r) \/ Book(r) \/ EditLot(r)
    PROVE  FleetIInv'
  <1>1. CASE Delete(r)
    <2>1. Carries([doing |-> "delete"]) /\ ~WritesVehicle([doing |-> "delete"])
      BY DEF Carries, WritesVehicle
    <2> QED
      BY <1>1, <2>1, ReadKeeps DEF Delete
  <1>2. CASE RequestTransfer(r)
    <2>1. PICK t \in Transfer \ Made, b \in Lot :
             /\ vehicle # Gone
             /\ Read(r, [doing |-> "request", id |-> t,
                         transfer |-> [from |-> vehicle.branch, to |-> b, status |-> "Requested"]])
      BY <1>2 DEF RequestTransfer
    <2> DEFINE request == [doing |-> "request", id |-> t,
                           transfer |-> [from |-> vehicle.branch, to |-> b, status |-> "Requested"]]
    <2>2. Carries(request) /\ ~WritesVehicle(request)
      BY <2>1 DEF Carries, WritesVehicle, TransferRecord, FleetIInv, FleetTypes, Stands
    <2> HIDE DEF request
    <2> QED
      BY <2>1, <2>2, ReadKeeps DEF request
  <1>3. CASE Book(r)
    <2> DEFINE request == [doing |-> "book", branch |-> vehicle.branch]
    <2>1. Carries(request) /\ ~WritesVehicle(request)
      BY DEF Carries, WritesVehicle
    <2> QED
      BY <1>3, <2>1, ReadKeeps DEF Book
  <1>4. CASE EditLot(r)
    <2>1. PICK b \in Lot, active \in BOOLEAN : Read(r, [doing |-> "lot", branch |-> b, active |-> active])
      BY <1>4 DEF EditLot
    <2> DEFINE request == [doing |-> "lot", branch |-> b, active |-> active]
    <2>2. Carries(request) /\ ~WritesVehicle(request)
      BY DEF Carries, WritesVehicle
    <2> QED
      BY <2>1, <2>2, ReadKeeps
  <1> QED
    BY <1>1, <1>2, <1>3, <1>4

LEMMA AdvanceKeeps ==
    ASSUME FleetIInv, NEW r \in FleetRequest, AdvanceTransfer(r)
    PROVE  FleetIInv'
  <1>1. PICK t \in Made, to \in Offered["Requested"] :
           Read(r, [doing |-> IF to = "Completed" THEN "deliver" ELSE "advance", id |-> t,
                    transfer |-> [transfers[t] EXCEPT !.status = to]])
    BY DEF AdvanceTransfer
  <1> DEFINE transfer == [transfers[t] EXCEPT !.status = to]
  <1> DEFINE doing == IF to = "Completed" THEN "deliver" ELSE "advance"
  <1> DEFINE request == [doing |-> doing, id |-> t, transfer |-> transfer]
  <1>2. transfer \in TransferRecord
    <2>1. transfers[t] \in TransferRecord
      BY DEF Made, FleetIInv, FleetTypes
    <2>2. to \in {"In_Transit", "Completed", "Cancelled"}
      BY DEF Offered
    <2> QED
      BY <2>1, <2>2 DEF TransferRecord
  <1> HIDE DEF transfer
  <1>3. Carries(request)
    BY <1>2 DEF Carries, WritesVehicle, Delivering
  <1>4. vehicle.branch = sentTo => InPlace(request)
    BY DEF InPlace
  <1> QED
    BY <1>1, <1>3, <1>4, ReadKeeps DEF transfer

\* One request goes a step further.  If it is a writer, the others are not, and
\* it answers for where the vehicle is; if it is not, it moves no vehicle.
LEMMA StepKeeps ==
    ASSUME FleetIInv, NEW r \in FleetRequest, NEW next, served' = [served EXCEPT ![r] = next], Carries(next),
           vehicle' = Gone \/ Stands(vehicle'), vehicle = Gone => vehicle' = Gone,
           sentTo' \in Lot, transfers' \in [Transfer -> TransferRecord \cup {NoTransfer}],
           disturbed => disturbed', WritesVehicle(next) => WritesVehicle(served[r]),
           ~WritesVehicle(served[r]) => sentTo' = sentTo /\ (vehicle' = vehicle \/ vehicle' = Gone),
           ~disturbed' /\ vehicle' # Gone /\ WritesVehicle(served[r]) =>
               IF WritesVehicle(next) THEN next.doing = "move" /\ next.to = sentTo' ELSE vehicle'.branch = sentTo'
    PROVE  FleetIInv'
  <1>1. \A q \in FleetRequest : served'[q] = IF q = r THEN next ELSE served[q]
    BY DEF FleetIInv, FleetTypes
  <1>2. served' = [q \in FleetRequest |-> served'[q]]
    BY DEF FleetIInv, FleetTypes
  <1>3. FleetTypes'
    <2>1. \A q \in FleetRequest : Carries(served'[q])
      BY <1>1 DEF FleetIInv, FleetTypes
    <2>2. Stands(vehicle') => Stands(vehicle)'
      BY DEF Stands
    <2>3. (\A q \in FleetRequest : Carries(served[q]))'
      BY <2>1 DEF Carries, Updating, Delivering, Moving, WritesVehicle, Stands
    <2> QED
      BY <1>2, <2>2, <2>3 DEF FleetTypes
  <1>4. ~disturbed' => OneWriter'
    BY <1>1 DEF FleetIInv, OneWriter, WritesVehicle
  <1>5. ASSUME ~disturbed', vehicle' # Gone, NEW q \in FleetRequest
        PROVE  InPlace(served[q])'
    <2>1. /\ OneWriter /\ InPlace(served[q])
      BY <1>5 DEF FleetIInv
    <2>2. CASE q = r
      <3>1. CASE WritesVehicle(next)
        BY <1>1, <1>5, <2>2, <3>1 DEF InPlace
      <3>2. CASE ~WritesVehicle(next)
        BY <1>1, <2>2, <3>2 DEF InPlace, WritesVehicle
      <3> QED
        BY <3>1, <3>2
    <2>3. CASE q # r /\ WritesVehicle(served[r])
      <3>1. ~WritesVehicle(served[q])
        BY <2>1, <2>3 DEF OneWriter
      <3> QED
        BY <1>1, <2>3, <3>1 DEF InPlace, WritesVehicle
    <2>4. CASE q # r /\ ~WritesVehicle(served[r])
      BY <1>1, <1>5, <2>1, <2>4 DEF InPlace
    <2> QED
      BY <2>2, <2>3, <2>4
  <1>6. VehicleIsWhereSent'
    <2> SUFFICES ASSUME vehicle' # Gone, ~disturbed', \A q \in FleetRequest : ~WritesVehicle(served'[q])
                 PROVE  vehicle'.branch = sentTo'
      BY DEF VehicleIsWhereSent, WritesVehicle
    <2>1. ~WritesVehicle(next)
      BY <1>1
    <2>2. CASE WritesVehicle(served[r])
      BY <2>1, <2>2
    <2>3. CASE ~WritesVehicle(served[r])
      <3>1. \A q \in FleetRequest : ~WritesVehicle(served[q])
        BY <1>1, <2>3
      <3> QED
        BY <2>3, <3>1 DEF FleetIInv, VehicleIsWhereSent
    <2> QED
      BY <2>2, <2>3
  <1> QED
    BY <1>3, <1>4, <1>5, <1>6 DEF FleetIInv

\* What a writer relies on
LEMMA WriterKnows ==
    ASSUME FleetIInv, NEW r \in FleetRequest
    PROVE  /\ Carries(served[r]) /\ Carries(Waiting) /\ ~WritesVehicle(Waiting)
           /\ ~disturbed /\ vehicle # Gone => InPlace(served[r])
           /\ vehicle # Gone => Stands(vehicle)
           /\ sentTo \in Lot /\ transfers \in [Transfer -> TransferRecord \cup {NoTransfer}]
  BY DEF FleetIInv, FleetTypes, Carries, WritesVehicle, Waiting

LEMMA WriteUpdateKeeps ==
    ASSUME FleetIInv, NEW r \in FleetRequest, WriteUpdate(r)
    PROVE  FleetIInv'
  <1> DEFINE mine == served[r].vehicle
  <1>1. WritesVehicle(served[r]) /\ served[r].doing = "update" /\ served[r].sent \in BOOLEAN /\ Stands(mine)
    BY WriterKnows DEF WriteUpdate, WritesVehicle, Carries, Updating, Delivering, Moving
  <1>2. vehicle' = IF vehicle # Gone THEN mine ELSE vehicle
    BY <1>1 DEF WriteUpdate, SavesVehicle, Stands
  <1>3. mine.branch \in Lot
    BY <1>1 DEF Stands
  <1>4. ~disturbed' /\ vehicle' # Gone => vehicle'.branch = sentTo'
    BY <1>1, <1>2, WriterKnows DEF WriteUpdate, InPlace
  <1>5. sentTo' \in Lot
    BY <1>3, WriterKnows DEF WriteUpdate
  <1> QED
    BY <1>1, <1>2, <1>4, <1>5, WriterKnows, StepKeeps DEF WriteUpdate, Answered

LEMMA WriteMovedKeeps ==
    ASSUME FleetIInv, NEW r \in FleetRequest, WriteMoved(r)
    PROVE  FleetIInv'
  <1> DEFINE mine == served[r].vehicle
  <1>1. WritesVehicle(served[r]) /\ served[r].doing = "move" /\ Stands(mine) /\ mine.branch = served[r].to
    BY WriterKnows DEF WriteMoved, WritesVehicle, Carries, Updating, Delivering, Moving
  <1>2. vehicle' = IF vehicle # Gone THEN mine ELSE vehicle
    BY <1>1 DEF WriteMoved, SavesVehicle, Stands
  <1>3. ~disturbed' /\ vehicle' # Gone => vehicle'.branch = sentTo'
    BY <1>1, <1>2, WriterKnows DEF WriteMoved, InPlace
  <1> QED
    BY <1>1, <1>2, <1>3, WriterKnows, StepKeeps DEF WriteMoved, Answered

LEMMA ReadToMoveKeeps ==
    ASSUME FleetIInv, NEW r \in FleetRequest, ReadToMove(r)
    PROVE  FleetIInv'
  <1> DEFINE moved == MovedTo(vehicle, served[r].to)
  <1> DEFINE next == [doing |-> "move", read |-> TRUE, to |-> served[r].to, vehicle |-> moved]
  <1>1. WritesVehicle(served[r]) /\ served[r].doing = "move" /\ served[r].to \in Lot
    BY WriterKnows DEF ReadToMove, WritesVehicle, Carries, Updating, Delivering, Moving
  <1>2. CASE vehicle # Gone
    <2>1. Stands(moved) /\ moved.branch = served[r].to
      BY <1>1, <1>2, WriterKnows DEF Stands, MovedTo
    <2> HIDE DEF moved
    <2>2. Carries(next) /\ WritesVehicle(next)
      BY <1>1, <2>1 DEF Carries, WritesVehicle, Moving
    <2>3. next.doing = "move" /\ (~disturbed => next.to = sentTo)
      BY <1>1, <1>2, WriterKnows DEF ReadToMove, InPlace
    <2>4. served' = [served EXCEPT ![r] = next]
      BY <1>2 DEF ReadToMove, moved
    <2> HIDE DEF next
    <2> QED
      BY <1>1, <1>2, <2>2, <2>3, <2>4, WriterKnows, StepKeeps DEF ReadToMove
  <1>3. CASE vehicle = Gone
    BY <1>1, <1>3, WriterKnows, StepKeeps DEF ReadToMove, Answered
  <1> QED
    BY <1>2, <1>3

LEMMA WriteCompletedKeeps ==
    ASSUME FleetIInv, NEW r \in FleetRequest, WriteCompleted(r)
    PROVE  FleetIInv'
  <1> DEFINE to == served[r].transfer.to
  <1> DEFINE next == [doing |-> "move", read |-> FALSE, to |-> to]
  <1>1. WritesVehicle(served[r]) /\ served[r].doing = "deliver" /\ served[r].transfer \in TransferRecord
    BY WriterKnows DEF WriteCompleted, WritesVehicle, Carries, Updating, Delivering, Moving
  <1>2. CASE served[r].id \in Made
    <2>1. Carries(next) /\ WritesVehicle(next) /\ to \in Lot
      BY <1>1 DEF Carries, WritesVehicle, Moving, TransferRecord
    <2>2. served' = [served EXCEPT ![r] = next] /\ sentTo' = to /\ vehicle' = vehicle /\ disturbed' = disturbed
      BY <1>2 DEF WriteCompleted
    <2>3. next.doing = "move" /\ next.to = sentTo'
      BY <2>2
    <2>4. transfers' \in [Transfer -> TransferRecord \cup {NoTransfer}]
      BY <1>1, <1>2, WriterKnows DEF WriteCompleted, Saves
    <2> HIDE DEF next, to
    <2> QED
      BY <1>1, <2>1, <2>2, <2>3, <2>4, WriterKnows, StepKeeps
  <1>3. CASE served[r].id \notin Made
    <2>1. ~disturbed /\ vehicle # Gone => vehicle.branch = sentTo
      BY <1>1, WriterKnows DEF InPlace
    <2> QED
      BY <1>1, <1>3, <2>1, WriterKnows, StepKeeps DEF WriteCompleted, Answered
  <1> QED
    BY <1>2, <1>3

LEMMA OtherWritesKeep ==
    ASSUME FleetIInv, NEW r \in FleetRequest,
           WriteDelete(r) \/ WriteTransfer(r) \/ WriteBooking(r) \/ WriteLot(r)
    PROVE  FleetIInv'
  <1>1. ~WritesVehicle(served[r]) /\ Answered(r) /\ sentTo' = sentTo /\ disturbed' = disturbed
    BY DEF WriteDelete, WriteTransfer, WriteBooking, WriteLot, WritesVehicle
  <1>2. vehicle' = vehicle \/ vehicle' = Gone
    BY DEF WriteDelete, WriteTransfer, WriteBooking, WriteLot
  <1>3. transfers' \in [Transfer -> TransferRecord \cup {NoTransfer}]
    <2>1. CASE WriteTransfer(r)
      BY <2>1, WriterKnows DEF WriteTransfer, Saves, Carries
    <2>2. CASE ~WriteTransfer(r)
      BY <2>2, WriterKnows DEF WriteDelete, WriteBooking, WriteLot
    <2> QED
      BY <2>1, <2>2
  <1> QED
    BY <1>1, <1>2, <1>3, WriterKnows, StepKeeps DEF Answered

LEMMA FailsKeeps ==
    ASSUME FleetIInv, NEW r \in FleetRequest, Fails(r)
    PROVE  FleetIInv'
  <1>1. ~disturbed' /\ vehicle # Gone /\ WritesVehicle(served[r]) => vehicle.branch = sentTo
    BY WriterKnows DEF Fails, WritesVehicle, InPlace
  <1>2. Answered(r) /\ UNCHANGED <<vehicle, transfers, sentTo>> /\ (disturbed => disturbed')
    BY DEF Fails
  <1> QED
    BY <1>1, <1>2, WriterKnows, StepKeeps DEF Answered

-----------------------------------------------------------------------------
(* The invariant                                                           *)

LEMMA FleetInitKeeps == FleetInit => FleetIInv
  <1> SUFFICES ASSUME FleetInit
               PROVE  FleetIInv
    OBVIOUS
  <1>1. PICK b \in Lot : /\ vehicle = [branch |-> b, dealership |-> DealershipOf[b], status |-> "Available"]
                         /\ sentTo = b
    BY DEF FleetInit
  <1>2. Stands(vehicle)
    BY <1>1 DEF Stands, VehicleStatus
  <1>3. served = [r \in FleetRequest |-> Waiting] /\ transfers = [t \in Transfer |-> NoTransfer]
    BY DEF FleetInit
  <1>4. ~WritesVehicle(Waiting) /\ Carries(Waiting) /\ InPlace(Waiting)
    BY DEF WritesVehicle, Waiting, Carries, InPlace
  <1> QED
    BY <1>1, <1>2, <1>3, <1>4 DEF FleetIInv, FleetTypes, VehicleIsWhereSent, OneWriter

LEMMA FleetNextKeeps == FleetIInv /\ [FleetNext]_fleetVars => FleetIInv'
  <1> SUFFICES ASSUME FleetIInv, [FleetNext]_fleetVars
               PROVE  FleetIInv'
    OBVIOUS
  <1>1. CASE UNCHANGED fleetVars
    BY <1>1 DEF fleetVars, FleetIInv, FleetTypes, VehicleIsWhereSent, OneWriter, InPlace, Carries, Updating, Delivering,
                Moving, WritesVehicle, Stands
  <1>2. CASE FleetNext
    BY <1>2, UpdateKeeps, HarmlessReadKeeps, AdvanceKeeps, WriteUpdateKeeps, WriteMovedKeeps, ReadToMoveKeeps,
       WriteCompletedKeeps, OtherWritesKeep, FailsKeeps DEF FleetNext
  <1> QED
    BY <1>1, <1>2

\* However edits, transfers, bookings and failures interleave, a vehicle nobody is
\* moving stands where it was last sent, unless two saves of it overlapped or a
\* completed transfer failed before its second write.
THEOREM VehicleTheorem == FleetSpec => []VehicleIsWhereSent
  <1>1. FleetIInv => VehicleIsWhereSent
    BY DEF FleetIInv
  <1> QED
    BY <1>1, FleetInitKeeps, FleetNextKeeps, PTL DEF FleetSpec

-----------------------------------------------------------------------------
(***************************************************************************)
(* Groups and shares (Sharing)                                             *)
(***************************************************************************)

\* Groups, and owners of the drive
Anyone == Group \cup {<<u>> : u \in SfStaff \cup {NoDealer}}

SharingJob == [kind : {"none", "setup", "sync", "recalc"}, at : {"queued", "picked", "read", "compared"},
               dealers : SUBSET Dealer, user : SfStaff \cup {NoDealer},
               new : SUBSET Anyone, stale : SUBSET Anyone, left : SUBSET Object]
Posts == [Dealer -> DOMAIN TierOf \cup {"none"}]

SharingTypes ==
    /\ dealers \subseteq Dealer
    /\ post \in [SfStaff -> Posts]
    /\ members \in [SfStaff -> SUBSET Anyone]
    /\ shares \in [Object -> SUBSET Anyone]
    /\ drive \in [dealer : Dealer \cup {NoDealer}, owner : SfStaff \cup {NoDealer}, reviewed : BOOLEAN]
    /\ jobs \in [Job -> SharingJob]
    /\ \A j \in Job : jobs[j].kind = "sync" => jobs[j].user \in SfStaff

\* Of a user whose syncs have not overlapped, one sync runs at most, and writes
\* what it should: what the last to be queued reads is what the user has.
InSync(u) ==
    u \notin raced =>
        /\ \A j, k \in Syncing(u) : jobs[j].at = "read" /\ jobs[k].at = "read" => j = k
        /\ \A j \in Syncing(u) : jobs[j].at = "read" => jobs[j].new \cap members[u] = {} /\ jobs[j].stale \subseteq members[u]
        /\ (\A j \in Syncing(u) : jobs[j].at = "read") =>
              /\ Syncing(u) = {} => members[u] = Wanted(post[u])
              /\ \A j \in Syncing(u) :
                    jobs[j].new = Wanted(post[u]) \ members[u] /\ jobs[j].stale = members[u] \ Wanted(post[u])

\* A batch that has not been overtaken has read who the record is due to be
\* shared to, and leaves the record shared to them if nobody else has.
Due(object) == Reshared(object, drive)
BatchIs(j) ==
    /\ jobs[j].kind = "recalc" => jobs[j].left # {}
    /\ j \in outdated => jobs[j].kind = "recalc" /\ jobs[j].at \in {"read", "compared"}
    /\ jobs[j].kind = "recalc" /\ jobs[j].at = "read" /\ j \notin outdated => jobs[j].new = Due(Current(jobs[j]))
    /\ jobs[j].kind = "recalc" /\ jobs[j].at = "compared" /\ j \notin outdated =>
          /\ jobs[j].new \subseteq Due(Current(jobs[j])) /\ jobs[j].stale \cap Due(Current(jobs[j])) = {}
          /\ \/ shares[Current(jobs[j])] = Due(Current(jobs[j]))
             \/ /\ jobs[j].stale \subseteq shares[Current(jobs[j])]
                /\ (shares[Current(jobs[j])] \ jobs[j].stale) \cup jobs[j].new = Due(Current(jobs[j]))

\* What a drive and its record lack, a batch brings: one that will pick the
\* record, or has picked it and has not been overtaken since it read it.
Brings(j, object) ==
    /\ jobs[j].kind = "recalc" /\ object \in jobs[j].left
    /\ \/ (Current(jobs[j]) # object \/ jobs[j].at = "queued") /\ drive.dealer \in jobs[j].dealers
       \/ Current(jobs[j]) = object /\ jobs[j].at = "picked"
       \/ Current(jobs[j]) = object /\ jobs[j].at \in {"read", "compared"} /\ j \notin outdated
Shared(object) ==
    object \notin misshared =>
        /\ shares[object] \subseteq Due(object)
        /\ shares[object] = Due(object) \/ \E j \in Job : Brings(j, object)

SharingIInv ==
    /\ SharingTypes
    /\ \A u \in SfStaff : InSync(u)
    /\ \A object \in Object : Shared(object)
    /\ \A j \in Job : BatchIs(j)

-----------------------------------------------------------------------------
(* Posts, groups and jobs                                                  *)

LEMMA NoJobIsAJob ==
    /\ NoJob \in SharingJob /\ NoJob.kind = "none"
    /\ \A S \in SUBSET Dealer :
          [NoJob EXCEPT !.kind = "setup", !.dealers = S] \in SharingJob
    /\ \A S \in SUBSET Dealer :
          /\ Recalculation(S) \in SharingJob /\ Recalculation(S).kind # "sync"
          /\ S # {} => Recalculation(S).kind = "recalc" /\ Recalculation(S).dealers = S /\ Recalculation(S).left = Object /\ Recalculation(S).at = "queued"
  <1>1. NoJob \in SharingJob /\ NoJob.kind = "none" /\ NoJob.at = "queued"
    BY DEF NoJob, SharingJob
  <1>2. ASSUME NEW S \in SUBSET Dealer
        PROVE  [NoJob EXCEPT !.kind = "setup", !.dealers = S] \in SharingJob
    BY <1>1 DEF SharingJob
  <1>3. ASSUME NEW S \in SUBSET Dealer
        PROVE  /\ Recalculation(S) \in SharingJob /\ Recalculation(S).kind # "sync"
               /\ S # {} => Recalculation(S).kind = "recalc" /\ Recalculation(S).dealers = S /\ Recalculation(S).left = Object /\ Recalculation(S).at = "queued"
    <2> DEFINE r == [NoJob EXCEPT !.kind = "recalc", !.dealers = S, !.left = Object]
    <2>1. r \in SharingJob /\ r.kind = "recalc" /\ r.dealers = S /\ r.left = Object /\ r.at = "queued"
      BY <1>1 DEF SharingJob
    <2> HIDE DEF r
    <2> QED
      BY <1>1, <2>1 DEF Recalculation, r
  <1> QED
    BY <1>1, <1>2, <1>3

\* The groups of a user's roles
LEMMA WantedIs ==
    ASSUME NEW posts \in Posts
    PROVE  /\ Wanted(posts) \in SUBSET Group
           /\ Wanted(posts) = {g \in Group : posts[g[1]] \in DOMAIN TierOf /\ g[2] = TierOf[posts[g[1]]]}
  <1>1. DOMAIN TierOf = {"Sales_Rep", "Manager", "Dealer_Admin"}
    BY DEF TierOf
  <1>2. "none" \notin DOMAIN TierOf /\ \A r \in DOMAIN TierOf : TierOf[r] \in {"STAFF", "MANAGERS", "ADMINS"}
    BY DEF TierOf
  <1>3. \A d \in Dealer : posts[d] # "none" => posts[d] \in DOMAIN TierOf
    BY DEF Posts
  <1>4. Wanted(posts) = {<<d, TierOf[posts[d]]>> : d \in {d \in Dealer : posts[d] # "none"}}
    BY DEF Wanted
  <1>5. ASSUME NEW g \in Wanted(posts)
        PROVE  g \in Group /\ posts[g[1]] \in DOMAIN TierOf /\ g[2] = TierOf[posts[g[1]]]
    <2>1. PICK d \in Dealer : posts[d] # "none" /\ g = <<d, TierOf[posts[d]]>>
      BY <1>4
    <2> QED
      BY <1>2, <1>3, <2>1 DEF Group
  <1>6. ASSUME NEW g \in Group, posts[g[1]] \in DOMAIN TierOf, g[2] = TierOf[posts[g[1]]]
        PROVE  g \in Wanted(posts)
    <2>1. g[1] \in Dealer /\ g = <<g[1], g[2]>>
      BY DEF Group
    <2>2. posts[g[1]] # "none"
      BY <1>2, <1>6
    <2> QED
      BY <1>4, <1>6, <2>1, <2>2
  <1> QED
    BY <1>5, <1>6

\* A job that is no sync takes the place of one that is none.
LEMMA OtherJobsKeepInSync ==
    ASSUME SharingIInv, NEW j \in Job, NEW job \in SharingJob, jobs' = [jobs EXCEPT ![j] = job],
           jobs[j].kind # "sync", job.kind # "sync", UNCHANGED <<post, members, raced>>
    PROVE  /\ \A u \in SfStaff : InSync(u)'
           /\ jobs' \in [Job -> SharingJob] /\ \A k \in Job : jobs'[k].kind = "sync" => jobs'[k].user \in SfStaff
  <1>1. \A k \in Job : jobs'[k] = IF k = j THEN job ELSE jobs[k]
    BY DEF SharingIInv, SharingTypes
  <1>2. jobs' \in [Job -> SharingJob]
    BY DEF SharingIInv, SharingTypes
  <1>3. ASSUME NEW u \in SfStaff
        PROVE  InSync(u)'
    <2>1. Syncing(u)' = Syncing(u) /\ \A k \in Syncing(u) : jobs'[k] = jobs[k]
      BY <1>1 DEF Syncing
    <2>2. InSync(u)
      BY DEF SharingIInv
    <2> QED
      BY <2>1, <2>2 DEF InSync, Wanted
  <1> QED
    BY <1>1, <1>2, <1>3 DEF SharingIInv, SharingTypes

\* A step of one job leaves alone what the others have read, and bring.
LEMMA OneJobKeepsShared ==
    ASSUME SharingIInv, NEW j \in Job, NEW job, jobs' = [jobs EXCEPT ![j] = job], BatchIs(j)',
           \A object \in Object : Shared(object) /\ Brings(j, object) =>
                object \in misshared \/ shares[object] = Due(object) \/ Brings(j, object)',
           UNCHANGED <<shares, drive, groups, outdated, misshared>>
    PROVE  (\A object \in Object : Shared(object)') /\ \A k \in Job : BatchIs(k)'
  <1>1. \A k \in Job : k # j => jobs'[k] = jobs[k]
    BY DEF SharingIInv, SharingTypes
  <1>2. \A object : Due(object)' = Due(object)
    BY DEF Due, Reshared, Desired
  <1>3. ASSUME NEW k \in Job
        PROVE  BatchIs(k)'
    <2>1. CASE k = j
      BY <2>1
    <2>2. CASE k # j
      BY <1>1, <1>2, <2>2 DEF SharingIInv, BatchIs, Current
    <2> QED
      BY <2>1, <2>2
  <1>4. ASSUME NEW object \in Object
        PROVE  Shared(object)'
    <2>1. Shared(object)
      BY DEF SharingIInv
    <2>2. \A k \in Job : k # j /\ Brings(k, object) => Brings(k, object)'
      BY <1>1 DEF Brings, Current
    <2> QED
      BY <1>2, <2>1, <2>2 DEF Shared
  <1> QED
    BY <1>3, <1>4

\* A job that shares nothing takes the place of another.
LEMMA OtherJobsKeepShared ==
    ASSUME SharingIInv, NEW j \in Job, NEW job, jobs' = [jobs EXCEPT ![j] = job],
           jobs[j].kind # "recalc", job.kind # "recalc", UNCHANGED <<shares, drive, groups, outdated, misshared>>
    PROVE  (\A object \in Object : Shared(object)') /\ \A k \in Job : BatchIs(k)'
  <1>1. jobs'[j] = job
    BY DEF SharingIInv, SharingTypes
  <1>2. BatchIs(j)'
    BY <1>1 DEF SharingIInv, BatchIs
  <1>3. \A object \in Object : ~Brings(j, object)
    BY DEF Brings
  <1> QED
    BY <1>2, <1>3, OneJobKeepsShared

LEMMA JobOf ==
    ASSUME SharingIInv, NEW j \in Job
    PROVE  jobs[j] \in SharingJob /\ (jobs[j].kind = "sync" => jobs[j].user \in SfStaff)
  BY DEF SharingIInv, SharingTypes

-----------------------------------------------------------------------------
(* What people do                                                          *)

LEMMA OpenKeeps ==
    ASSUME SharingIInv, NEW d \in Dealer, OpenDealership(d)
    PROVE  SharingIInv'
  <1> DEFINE job == [NoJob EXCEPT !.kind = "setup", !.dealers = {d}]
  <1>1. PICK j \in Job : jobs[j] = NoJob /\ jobs' = [jobs EXCEPT ![j] = job]
    BY DEF OpenDealership, Enqueue
  <1>2. job \in SharingJob /\ job.kind = "setup"
    BY ZenonT(60), NoJobIsAJob DEF SharingJob
  <1> HIDE DEF job
  <1>3. jobs[j].kind = "none"
    BY <1>1, NoJobIsAJob
  <1>4. (\A u \in SfStaff : InSync(u)') /\ jobs' \in [Job -> SharingJob]
        /\ \A k \in Job : jobs'[k].kind = "sync" => jobs'[k].user \in SfStaff
    BY <1>1, <1>2, <1>3, OtherJobsKeepInSync DEF OpenDealership
  <1>5. (\A object \in Object : Shared(object)') /\ \A k \in Job : BatchIs(k)'
    BY <1>1, <1>2, <1>3, OtherJobsKeepShared DEF OpenDealership
  <1>6. SharingTypes'
    BY <1>4 DEF OpenDealership, SharingIInv, SharingTypes
  <1> QED
    BY <1>4, <1>5, <1>6 DEF SharingIInv

LEMMA AssignKeeps ==
    ASSUME SharingIInv, NEW u \in SfStaff, NEW d \in Dealer, NEW role \in DOMAIN TierOf \cup {"none"}, Assign(u, d, role)
    PROVE  SharingIInv'
  <1> DEFINE job == [NoJob EXCEPT !.kind = "sync", !.user = u]
  <1>1. PICK j \in Job : jobs[j] = NoJob /\ jobs' = [jobs EXCEPT ![j] = job]
    BY DEF Assign, Enqueue
  <1>2. job \in SharingJob /\ job.kind = "sync" /\ job.user = u /\ job.at = "queued"
    BY DEF NoJob, SharingJob
  <1> HIDE DEF job
  <1>3. jobs[j].kind = "none"
    BY <1>1, NoJobIsAJob
  <1>4. /\ \A k \in Job : jobs'[k] = IF k = j THEN job ELSE jobs[k]
        /\ jobs' \in [Job -> SharingJob]
    BY <1>1, <1>2 DEF SharingIInv, SharingTypes
  <1>5. post' \in [SfStaff -> Posts] /\ \A w \in SfStaff : w # u => post'[w] = post[w]
    BY DEF Assign, SharingIInv, SharingTypes, Posts
  <1>6. SharingTypes'
    BY <1>2, <1>4, <1>5 DEF Assign, SharingIInv, SharingTypes
  <1>7. ASSUME NEW w \in SfStaff
        PROVE  InSync(w)'
    <2>0. InSync(w) /\ members' = members /\ raced' = raced
      BY DEF SharingIInv, Assign
    <2>1. CASE w = u
      <3>1. Syncing(w)' = Syncing(w) \cup {j} /\ j \notin Syncing(w)
        BY <1>2, <1>3, <1>4, <2>1 DEF Syncing
      <3>2. \A k \in Syncing(w) : jobs'[k] = jobs[k]
        BY <1>4, <3>1 DEF Syncing
      <3>3. jobs'[j].at # "read"
        BY <1>2, <1>4
      <3> QED
        BY <2>0, <3>1, <3>2, <3>3 DEF InSync
    <2>2. CASE w # u
      <3>1. Syncing(w)' = Syncing(w) /\ \A k \in Syncing(w) : jobs'[k] = jobs[k]
        BY <1>2, <1>3, <1>4, <2>2 DEF Syncing
      <3> QED
        BY <1>5, <2>0, <2>2, <3>1 DEF InSync, Wanted
    <2> QED
      BY <2>1, <2>2
  <1>8. (\A object \in Object : Shared(object)') /\ \A k \in Job : BatchIs(k)'
    BY <1>1, <1>2, <1>3, OtherJobsKeepShared DEF Assign
  <1> QED
    BY <1>6, <1>7, <1>8 DEF SharingIInv

\* Neither the drive's owner nor its record matters to who shares the drive.
LEMMA OwnerOfNoMatter ==
    ASSUME NEW new, NEW old, new.dealer = old.dealer
    PROVE  Reshared("Booking__c", new) = Reshared("Booking__c", old)
  BY DEF Reshared, Desired, SharedToOwner

\* Who a record may be shared to
LEMMA ResharedIs ==
    ASSUME NEW object \in Object, NEW new, new.owner \in SfStaff \cup {NoDealer}
    PROVE  Reshared(object, new) \in SUBSET Anyone
  <1>1. Desired(object, new.dealer, new.owner) \subseteq Anyone
    BY DEF Desired, Anyone, Group
  <1> QED
    BY <1>1 DEF Reshared

\* A save shares some objects anew; the others are due to the same as before.
LEMMA RewrittenKeeps ==
    ASSUME SharingIInv, NEW objects \in SUBSET Object, Rewritten(objects), UNCHANGED <<groups, jobs>>,
           \A object \in objects : shares'[object] = Due(object)',
           \A object \in Object \ objects :
                shares'[object] = shares[object] /\ Due(object)' = Due(object) /\ drive'.dealer = drive.dealer
    PROVE  (\A object \in Object : Shared(object)') /\ \A j \in Job : BatchIs(j)'
  <1>1. /\ \A j \in Job : j \in outdated' <=>
              j \in outdated \/ (jobs[j].kind = "recalc" /\ jobs[j].at \in {"read", "compared"} /\ Current(jobs[j]) \in objects)
        /\ misshared' = misshared \ objects
    BY DEF Rewritten, Overtake, Batches
  <1>2. \A j \in Job : Current(jobs[j]) \in Object
    BY DEF Current, Object
  <1>3. ASSUME NEW j \in Job
        PROVE  BatchIs(j)'
    <2>1. BatchIs(j)
      BY DEF SharingIInv
    <2>2. Current(jobs[j])' = Current(jobs[j])
      BY DEF Current
    <2>3. CASE j \in outdated'
      BY <1>1, <2>1, <2>3 DEF BatchIs
    <2>4. CASE j \notin outdated'
      <3>1. j \notin outdated
        BY <1>1, <2>4
      <3>2. CASE jobs[j].kind = "recalc" /\ jobs[j].at \in {"read", "compared"}
        <4>1. Current(jobs[j]) \in Object \ objects
          BY <1>1, <1>2, <2>4, <3>2
        <4>2. shares'[Current(jobs[j])] = shares[Current(jobs[j])] /\ Due(Current(jobs[j]))' = Due(Current(jobs[j]))
          BY <4>1, <2>2
        <4> QED
          BY <2>1, <2>2, <2>4, <3>1, <4>2 DEF BatchIs
      <3>3. CASE ~(jobs[j].kind = "recalc" /\ jobs[j].at \in {"read", "compared"})
        BY <2>1, <2>4, <3>3 DEF BatchIs
      <3> QED
        BY <3>2, <3>3
    <2> QED
      BY <2>3, <2>4
  <1>4. ASSUME NEW object \in Object
        PROVE  Shared(object)'
    <2>1. CASE object \in objects
      BY <2>1 DEF Shared
    <2>2. CASE object \notin objects
      <3>1. \A j \in Job : Brings(j, object) => Brings(j, object)'
        BY <1>1, <2>2 DEF Brings, Current
      <3>2. Shared(object) /\ (object \in misshared' <=> object \in misshared)
        BY <1>1, <2>2 DEF SharingIInv
      <3> QED
        BY <2>2, <3>1, <3>2 DEF Shared
    <2> QED
      BY <2>1, <2>2
  <1> QED
    BY <1>3, <1>4

LEMMA SaveDriveKeeps ==
    ASSUME SharingIInv, NEW d \in Dealer, NEW u \in SfStaff, SaveDrive(d, u)
    PROVE  SharingIInv'
  <1> DEFINE new == [drive EXCEPT !.dealer = d, !.owner = u]
  <1> DEFINE objects == {object \in Object : Follows(object, new)}
  <1>1. /\ UNCHANGED <<dealers, post, groups, members, jobs, raced>> /\ Rewritten(objects)
        /\ drive' = new
        /\ shares' = [object \in Object |->
                        IF Follows(object, new) THEN Reshared(object, new) ELSE shares[object]]
    BY DEF SaveDrive
  <1>2. new \in [dealer : Dealer \cup {NoDealer}, owner : SfStaff \cup {NoDealer}, reviewed : BOOLEAN]
    BY DEF SharingIInv, SharingTypes
  <1>3. \A object \in Object : Due(object)' = Reshared(object, new)
    BY <1>1 DEF Due, Reshared, Desired
  <1> HIDE DEF new
  <1>4. SharingTypes'
    <2>1. new.owner \in SfStaff \cup {NoDealer}
      BY <1>2
    <2>2. \A object \in Object : Reshared(object, new) \in SUBSET Anyone
      BY <2>1, ResharedIs
    <2>3. \A object \in Object : shares'[object] \in SUBSET Anyone
      BY <1>1, <2>2 DEF SharingIInv, SharingTypes
    <2>4. shares' \in [Object -> SUBSET Anyone]
      BY <1>1, <2>3
    <2> QED
      BY <1>1, <1>2, <2>4 DEF SharingIInv, SharingTypes
  <1>5. \A w \in SfStaff : InSync(w)'
    BY <1>1 DEF SharingIInv, InSync, Syncing, Wanted
  <1>6. ASSUME NEW object \in Object \ objects
        PROVE  shares'[object] = shares[object] /\ Due(object)' = Due(object) /\ drive'.dealer = drive.dealer
    <2>1. ~Follows(object, new)
      OBVIOUS
    <2>2. object = "Booking__c" /\ new.dealer = drive.dealer
      BY <2>1 DEF Follows
    <2>3. Reshared(object, new) = Reshared(object, drive)
      BY <2>2, OwnerOfNoMatter
    <2> QED
      BY <1>1, <1>3, <2>1, <2>2, <2>3 DEF Due
  <1>7. \A object \in objects : shares'[object] = Due(object)'
    BY <1>1, <1>3
  <1>8. (\A object \in Object : Shared(object)') /\ \A j \in Job : BatchIs(j)'
    <2> HIDE DEF objects
    <2>1. objects \in SUBSET Object
      BY DEF objects
    <2> QED
      BY <1>1, <1>6, <1>7, <2>1, RewrittenKeeps
  <1> QED
    BY <1>4, <1>5, <1>8 DEF SharingIInv

LEMMA SaveReviewKeeps ==
    ASSUME SharingIInv, SaveReview
    PROVE  SharingIInv'
  <1> DEFINE new == [drive EXCEPT !.reviewed = TRUE]
  <1>1. /\ UNCHANGED <<dealers, post, groups, members, jobs, raced>> /\ Rewritten({"Compliance_Record__c"})
        /\ drive' = new /\ "Compliance_Record__c" \in Object
        /\ shares' = [shares EXCEPT !["Compliance_Record__c"] = Reshared("Compliance_Record__c", new)]
    BY DEF SaveReview, Object
  <1>2. /\ new \in [dealer : Dealer \cup {NoDealer}, owner : SfStaff \cup {NoDealer}, reviewed : BOOLEAN]
        /\ new.dealer = drive.dealer
    BY DEF SharingIInv, SharingTypes
  <1>3. \A object \in Object : Due(object)' = Reshared(object, new)
    BY <1>1 DEF Due, Reshared, Desired
  <1> HIDE DEF new
  <1>4. Reshared("Compliance_Record__c", new) \in SUBSET Anyone
    BY <1>1, <1>2, ResharedIs
  <1>5. SharingTypes'
    BY <1>1, <1>2, <1>4 DEF SharingIInv, SharingTypes
  <1>6. \A w \in SfStaff : InSync(w)'
    BY <1>1 DEF SharingIInv, InSync, Syncing, Wanted
  <1>7. \A object \in {"Compliance_Record__c"} : shares'[object] = Due(object)'
    BY <1>1, <1>3 DEF SharingIInv, SharingTypes
  <1>8. ASSUME NEW object \in Object \ {"Compliance_Record__c"}
        PROVE  shares'[object] = shares[object] /\ Due(object)' = Due(object) /\ drive'.dealer = drive.dealer
    <2>1. object = "Booking__c"
      BY DEF Object
    <2>2. Reshared(object, new) = Reshared(object, drive)
      BY <1>2, <2>1, OwnerOfNoMatter
    <2> QED
      BY <1>1, <1>2, <1>3, <2>2 DEF SharingIInv, SharingTypes, Due
  <1>9. (\A object \in Object : Shared(object)') /\ \A j \in Job : BatchIs(j)'
    <2>1. {"Compliance_Record__c"} \in SUBSET Object
      BY <1>1
    <2> QED
      BY <1>1, <1>7, <1>8, <2>1, RewrittenKeeps
  <1> QED
    BY <1>5, <1>6, <1>9 DEF SharingIInv

-----------------------------------------------------------------------------
(* What jobs do                                                            *)

LEMMA ReadGroupsKeeps ==
    ASSUME SharingIInv, NEW j \in Job, ReadGroups(j)
    PROVE  SharingIInv'
  <1> DEFINE job == [jobs[j] EXCEPT !.at = "read", !.dealers = @ \ groups]
  <1>1. jobs' = [jobs EXCEPT ![j] = job] /\ jobs[j].kind = "setup" /\ jobs[j] \in SharingJob
    BY JobOf DEF ReadGroups, Becomes
  <1>2. job \in SharingJob /\ job.kind = "setup"
    BY <1>1 DEF SharingJob
  <1> HIDE DEF job
  <1>3. /\ \A u \in SfStaff : InSync(u)'
        /\ jobs' \in [Job -> SharingJob] /\ \A k \in Job : jobs'[k].kind = "sync" => jobs'[k].user \in SfStaff
    BY <1>1, <1>2, OtherJobsKeepInSync DEF ReadGroups
  <1>4. (\A object \in Object : Shared(object)') /\ \A k \in Job : BatchIs(k)'
    BY <1>1, <1>2, OtherJobsKeepShared DEF ReadGroups
  <1>5. SharingTypes'
    BY <1>3 DEF ReadGroups, SharingIInv, SharingTypes
  <1> QED
    BY <1>3, <1>4, <1>5 DEF SharingIInv

\* New groups: what they lack is brought by the recalculation that follows.
LEMMA NewGroupsAreShared ==
    ASSUME SharingIInv, NEW j \in Job, NEW S \in SUBSET Dealer, groups' = groups \cup S, GroupsOf(S),
           jobs' = [jobs EXCEPT ![j] = Recalculation(S)], jobs[j].kind # "recalc",
           UNCHANGED <<shares, drive, misshared>>
    PROVE  (\A object \in Object : Shared(object)') /\ \A k \in Job : BatchIs(k)'
  <1>1. /\ \A k \in Job : jobs'[k] = IF k = j THEN Recalculation(S) ELSE jobs[k]
        /\ \A k \in Job : BatchIs(k)
    BY DEF SharingIInv, SharingTypes
  <1>2. \A k \in Job : k \in outdated' <=>
            k \in outdated \/ (/\ jobs[k].kind = "recalc" /\ jobs[k].at \in {"read", "compared"}
                          /\ Current(jobs[k]) \in Object /\ drive.dealer \in S)
    BY DEF GroupsOf, Overtake, Batches
  <1>3. \A k \in Job : Current(jobs[k]) \in Object
    BY DEF Current, Object
  <1>4. j \notin outdated /\ j \notin outdated'
    BY <1>1, <1>2 DEF BatchIs
  <1>5. Recalculation(S).kind = "recalc" => Recalculation(S).left # {} /\ Recalculation(S).at = "queued"
    <2>1. S = {} => Recalculation(S) = NoJob
      BY DEF Recalculation
    <2> QED
      BY <2>1, NoJobIsAJob DEF Object
  <1>6. BatchIs(j)'
    BY <1>1, <1>4, <1>5 DEF BatchIs
  <1>7. CASE drive.dealer \in S
    <2>1. ASSUME NEW object \in Object
          PROVE  Shared(object)'
      <3>1. Shared(object)
        BY DEF SharingIInv
      <3>2. Due(object) \subseteq Due(object)'
        BY DEF Due, Reshared, Desired
      <3>3. /\ Recalculation(S).kind = "recalc" /\ Recalculation(S).dealers = S
            /\ Recalculation(S).left = Object /\ Recalculation(S).at = "queued"
        BY <1>7, NoJobIsAJob
      <3>4. Brings(j, object)'
        BY <1>1, <1>7, <3>3 DEF Brings
      <3> QED
        BY <3>1, <3>2, <3>4 DEF Shared
    <2>2. ASSUME NEW k \in Job, k # j
          PROVE  BatchIs(k)'
      BY <1>1, <1>2, <1>3, <1>7, <2>2 DEF BatchIs
    <2> QED
      BY <1>6, <2>1, <2>2
  <1>8. CASE drive.dealer \notin S
    <2>1. \A object : Due(object)' = Due(object)
      BY <1>8 DEF Due, Reshared, Desired
    <2>2. \A k \in Job : k \in outdated' <=> k \in outdated
      BY <1>2, <1>8
    <2>3. ASSUME NEW k \in Job, k # j
          PROVE  BatchIs(k)' /\ \A object \in Object : Brings(k, object) => Brings(k, object)'
      BY <1>1, <2>1, <2>2, <2>3 DEF BatchIs, Brings, Current
    <2>4. ASSUME NEW object \in Object
          PROVE  Shared(object)'
      <3>1. Shared(object) /\ ~Brings(j, object)
        BY DEF SharingIInv, Brings
      <3> QED
        BY <2>1, <2>3, <3>1 DEF Shared
    <2> QED
      BY <1>6, <2>3, <2>4
  <1> QED
    BY <1>7, <1>8

LEMMA CreateGroupsKeeps ==
    ASSUME SharingIInv, NEW j \in Job, CreateGroups(j)
    PROVE  SharingIInv'
  <1> DEFINE S == jobs[j].dealers
  <1>1. /\ jobs' = [jobs EXCEPT ![j] = Recalculation(S)] /\ groups' = groups \cup S
        /\ jobs[j].kind = "setup" /\ S \in SUBSET Dealer
    BY JobOf DEF CreateGroups, Becomes, SharingJob
  <1> HIDE DEF S
  <1>2. /\ \A u \in SfStaff : InSync(u)'
        /\ jobs' \in [Job -> SharingJob] /\ \A k \in Job : jobs'[k].kind = "sync" => jobs'[k].user \in SfStaff
    BY <1>1, NoJobIsAJob, OtherJobsKeepInSync DEF CreateGroups
  <1>3. (\A object \in Object : Shared(object)') /\ \A k \in Job : BatchIs(k)'
    <2>1. GroupsOf(S)
      BY DEF CreateGroups, S
    <2> QED
      BY <1>1, <2>1, NewGroupsAreShared DEF CreateGroups
  <1>4. SharingTypes'
    BY <1>2 DEF CreateGroups, SharingIInv, SharingTypes
  <1> QED
    BY <1>2, <1>3, <1>4 DEF SharingIInv

LEMMA ReadPostsKeeps ==
    ASSUME SharingIInv, NEW j \in Job, ReadPosts(j)
    PROVE  SharingIInv'
  <1> DEFINE u == jobs[j].user
  <1> DEFINE wanted == Wanted(post[u])
  <1> DEFINE missing == {d \in dealers : post[u][d] # "none"} \ groups
  <1> DEFINE job == [jobs[j] EXCEPT !.at = "read", !.new = wanted \ members[u], !.stale = members[u] \ wanted,
                                    !.dealers = missing]
  <1>1. /\ jobs[j] \in SharingJob /\ u \in SfStaff /\ jobs[j].kind = "sync" /\ jobs[j].at # "read"
        /\ jobs' = [jobs EXCEPT ![j] = job]
        /\ raced' = IF \E k \in Syncing(u) : jobs[k].at = "read" THEN raced \cup {u} ELSE raced \ {u}
        /\ UNCHANGED <<dealers, post, groups, members, drive, shares, outdated, misshared, changes>>
    BY JobOf DEF ReadPosts, Becomes
  <1>2. wanted \in SUBSET Anyone /\ members[u] \in SUBSET Anyone /\ missing \in SUBSET Dealer
    BY <1>1, WantedIs DEF SharingIInv, SharingTypes, Anyone
  <1> HIDE DEF wanted, missing
  <1>3. /\ job \in SharingJob /\ job.kind = "sync" /\ job.user = u /\ job.at = "read"
        /\ job.new = wanted \ members[u] /\ job.stale = members[u] \ wanted
    BY <1>1, <1>2 DEF SharingJob
  <1> HIDE DEF job
  <1>4. /\ \A k \in Job : jobs'[k] = IF k = j THEN job ELSE jobs[k]
        /\ jobs' \in [Job -> SharingJob]
    BY <1>1, <1>3 DEF SharingIInv, SharingTypes
  <1>5. \A w \in SfStaff : Syncing(w)' = Syncing(w)
    BY <1>1, <1>3, <1>4 DEF Syncing
  <1>6. SharingTypes'
    BY <1>1, <1>3, <1>4 DEF SharingIInv, SharingTypes
  <1>7. ASSUME NEW w \in SfStaff
        PROVE  InSync(w)'
    <2>0. InSync(w)
      BY DEF SharingIInv
    <2>1. CASE w = u
      <3>1. j \in Syncing(w)
        BY <1>1, <2>1 DEF Syncing
      <3>2. w \notin raced' => \A k \in Syncing(w) : jobs[k].at # "read"
        BY <1>1, <2>1
      <3>3. w \notin raced' => \A k \in Syncing(w) : jobs'[k].at = "read" => k = j
        BY <1>4, <3>2 DEF Syncing
      <3>4. jobs'[j].new = Wanted(post[w]) \ members[w] /\ jobs'[j].stale = members[w] \ Wanted(post[w])
        BY <1>3, <1>4, <2>1 DEF wanted
      <3>5. (Wanted(post[w]))' = Wanted(post[w]) /\ members' = members
        BY <1>1 DEF Wanted
      <3> QED
        BY <1>5, <3>1, <3>3, <3>4, <3>5 DEF InSync
    <2>2. CASE w # u
      <3>1. \A k \in Syncing(w) : jobs'[k] = jobs[k]
        BY <1>4, <2>2 DEF Syncing
      <3>2. w \in raced' <=> w \in raced
        BY <1>1, <2>2
      <3>3. (Wanted(post[w]))' = Wanted(post[w]) /\ members' = members
        BY <1>1 DEF Wanted
      <3> QED
        BY <1>5, <2>0, <3>1, <3>2, <3>3 DEF InSync
    <2> QED
      BY <2>1, <2>2
  <1>8. (\A object \in Object : Shared(object)') /\ \A k \in Job : BatchIs(k)'
    BY <1>1, <1>3, OtherJobsKeepShared
  <1> QED
    BY <1>6, <1>7, <1>8 DEF SharingIInv

LEMMA WriteMembersKeeps ==
    ASSUME SharingIInv, NEW j \in Job, WriteMembers(j)
    PROVE  SharingIInv'
  <1> DEFINE u == jobs[j].user
  <1>1. /\ jobs[j] \in SharingJob /\ u \in SfStaff /\ jobs[j].kind = "sync" /\ jobs[j].at = "read"
        /\ UNCHANGED <<dealers, post, drive, shares, raced, misshared, changes>>
    BY JobOf DEF WriteMembers
  <1>2. j \in Syncing(u)
    BY <1>1 DEF Syncing
  <1>3. CASE jobs[j].new \cap members[u] # {} \/ ~(jobs[j].stale \subseteq members[u])
    <2>1. jobs' = [jobs EXCEPT ![j] = NoJob] /\ UNCHANGED <<members, groups, outdated>>
      BY <1>3 DEF WriteMembers, Becomes
    <2>2. \A k \in Job : jobs'[k] = IF k = j THEN NoJob ELSE jobs[k]
      BY <2>1 DEF SharingIInv, SharingTypes
    <2>3. SharingTypes'
      BY ZenonT(60), <1>1, <2>1, <2>2, NoJobIsAJob DEF SharingIInv, SharingTypes
    <2>4. u \in raced
      BY <1>1, <1>2, <1>3 DEF SharingIInv, InSync
    <2>5. ASSUME NEW w \in SfStaff
          PROVE  InSync(w)'
      <3>1. CASE w = u
        BY <1>1, <2>4, <3>1 DEF InSync
      <3>2. CASE w # u
        <4>1. Syncing(w)' = Syncing(w) /\ \A k \in Syncing(w) : jobs'[k] = jobs[k]
          <5>1. jobs[j].user # w /\ jobs'[j] = NoJob /\ NoJob.kind # "sync"
            BY <2>2, <3>2, NoJobIsAJob
          <5>2. j \notin Syncing(w) /\ j \notin Syncing(w)'
            BY <5>1 DEF Syncing
          <5>3. \A k \in Job \ {j} : jobs'[k] = jobs[k]
            BY <2>2
          <5>4. \A k \in Job \ {j} : k \in Syncing(w)' <=> k \in Syncing(w)
            BY <5>3 DEF Syncing
          <5>5. Syncing(w) \subseteq Job /\ Syncing(w)' \subseteq Job
            BY DEF Syncing
          <5> QED
            BY <5>2, <5>3, <5>4, <5>5
        <4>2. InSync(w)
          BY DEF SharingIInv
        <4> QED
          BY <1>1, <2>1, <4>1, <4>2 DEF InSync, Wanted
      <3> QED
        BY <3>1, <3>2
    <2>6. (\A object \in Object : Shared(object)') /\ \A k \in Job : BatchIs(k)'
      BY <1>1, <2>1, NoJobIsAJob, OtherJobsKeepShared
    <2> QED
      BY <2>3, <2>5, <2>6 DEF SharingIInv
  <1>4. CASE jobs[j].new \cap members[u] = {} /\ jobs[j].stale \subseteq members[u]
    <2> DEFINE next == Recalculation(jobs[j].dealers)
    <2> DEFINE now == (members[u] \ jobs[j].stale) \cup jobs[j].new
    <2>1. /\ jobs' = [jobs EXCEPT ![j] = next] /\ groups' = groups \cup jobs[j].dealers
          /\ members' = [members EXCEPT ![u] = now] /\ GroupsOf(jobs[j].dealers)
      BY <1>4 DEF WriteMembers, Becomes
    <2>2. /\ next \in SharingJob /\ next.kind # "sync" /\ jobs[j].dealers \in SUBSET Dealer /\ now \in SUBSET Anyone
      <3>1. jobs[j].dealers \in SUBSET Dealer /\ jobs[j].new \in SUBSET Anyone /\ members[u] \in SUBSET Anyone
        BY <1>1 DEF SharingIInv, SharingTypes, SharingJob
      <3> QED
        BY <3>1, NoJobIsAJob
    <2>3. (\A object \in Object : Shared(object)') /\ \A k \in Job : BatchIs(k)'
      BY <1>1, <2>1, <2>2, NewGroupsAreShared
    <2> HIDE DEF next
    <2>4. /\ \A k \in Job : jobs'[k] = IF k = j THEN next ELSE jobs[k]
          /\ jobs' \in [Job -> SharingJob]
      BY <2>1, <2>2 DEF SharingIInv, SharingTypes
    <2>5. /\ members' \in [SfStaff -> SUBSET Anyone]
          /\ members'[u] = now /\ \A w \in SfStaff : w # u => members'[w] = members[w]
      BY <1>1, <2>1, <2>2 DEF SharingIInv, SharingTypes
    <2>6. SharingTypes'
      BY <1>1, <2>2, <2>4, <2>5 DEF SharingIInv, SharingTypes
    <2>7. ASSUME NEW w \in SfStaff
          PROVE  InSync(w)'
      <3>0. InSync(w) /\ raced' = raced /\ (Wanted(post[w]))' = Wanted(post[w])
        BY <1>1 DEF SharingIInv, Wanted
      <3>1. CASE w = u /\ w \notin raced
        <4>1. Syncing(w)' = Syncing(w) \ {j} /\ \A k \in Syncing(w) \ {j} : jobs'[k] = jobs[k]
          BY <2>2, <2>4 DEF Syncing
        <4>2. \A k \in Syncing(w) : jobs[k].at = "read" => k = j
          BY <1>1, <1>2, <3>0, <3>1 DEF InSync
        <4>3. \A k \in Syncing(w)' : jobs'[k].at # "read"
          BY <4>1, <4>2
        <4>4. ASSUME Syncing(w)' = {}
              PROVE  members'[w] = Wanted(post[w])
          <5>1. \A k \in Syncing(w) : jobs[k].at = "read"
            BY <1>1, <4>1, <4>4
          <5>2. jobs[j].new = Wanted(post[w]) \ members[w] /\ jobs[j].stale = members[w] \ Wanted(post[w])
            BY <1>2, <3>0, <3>1, <5>1 DEF InSync
          <5> QED
            BY <2>5, <3>1, <5>2
        <4> QED
          BY <3>0, <4>3, <4>4 DEF InSync
      <3>2. CASE w = u /\ w \in raced
        BY <3>0, <3>2 DEF InSync
      <3>3. CASE w # u
        <4>1. Syncing(w)' = Syncing(w) /\ \A k \in Syncing(w) : jobs'[k] = jobs[k]
          BY <2>2, <2>4, <3>3 DEF Syncing
        <4> QED
          BY <2>5, <3>0, <3>3, <4>1 DEF InSync
      <3> QED
        BY <3>1, <3>2, <3>3
    <2> QED
      BY <2>3, <2>6, <2>7 DEF SharingIInv
  <1> QED
    BY <1>3, <1>4

\* What a batch goes on with
LEMMA FinishedIs ==
    ASSUME SharingIInv, NEW j \in Job, jobs[j].kind = "recalc"
    PROVE  /\ Current(jobs[j]) \in jobs[j].left /\ jobs[j].left \subseteq Object
           /\ Finished(jobs[j]) \in SharingJob /\ Finished(jobs[j]).kind \in {"none", "recalc"}
           /\ Finished(jobs[j]).kind = "recalc" => Finished(jobs[j]).left # {} /\ Finished(jobs[j]).at = "queued"
           /\ \A object \in jobs[j].left \ {Current(jobs[j])} :
                 /\ Finished(jobs[j]).kind = "recalc" /\ object \in Finished(jobs[j]).left
                 /\ Finished(jobs[j]).at = "queued" /\ Finished(jobs[j]).dealers = jobs[j].dealers
  <1>1. jobs[j] \in SharingJob /\ jobs[j].left # {} /\ jobs[j].left \subseteq Object
    BY JobOf DEF SharingIInv, BatchIs, SharingJob
  <1>2. Current(jobs[j]) \in jobs[j].left
    BY <1>1 DEF Current, Object
  <1>3. CASE jobs[j].left = {Current(jobs[j])}
    BY <1>1, <1>2, <1>3, NoJobIsAJob DEF Finished
  <1>4. CASE jobs[j].left # {Current(jobs[j])}
    <2> DEFINE h == Current(jobs[j])
    <2> DEFINE next == [jobs[j] EXCEPT !.at = "queued", !.new = {}, !.stale = {}, !.left = @ \ {h}]
    <2>1. h \in jobs[j].left /\ jobs[j].left # {h} /\ Finished(jobs[j]) = next
      BY <1>2, <1>4 DEF Finished
    <2> HIDE DEF h
    <2>2. /\ next \in SharingJob /\ next.kind = "recalc" /\ next.at = "queued"
          /\ next.left = jobs[j].left \ {h} /\ next.dealers = jobs[j].dealers
      BY <1>1 DEF SharingJob
    <2> HIDE DEF next
    <2>3. next.left # {}
      BY <2>1, <2>2
    <2> QED
      BY <1>1, <1>2, <2>1, <2>2, <2>3 DEF h
  <1> QED
    BY <1>3, <1>4

\* A batch that moves on and writes nothing
LEMMA BatchKeeps ==
    ASSUME SharingIInv, NEW j \in Job, NEW job \in SharingJob, jobs' = [jobs EXCEPT ![j] = job],
           jobs[j].kind = "recalc", job.kind \in {"none", "recalc"}, BatchIs(j)',
           \A object \in Object : Shared(object) /\ Brings(j, object) =>
                object \in misshared \/ shares[object] = Due(object) \/ Brings(j, object)',
           UNCHANGED <<dealers, post, groups, members, drive, shares, raced, outdated, misshared>>
    PROVE  SharingIInv'
  <1>1. /\ \A w \in SfStaff : InSync(w)'
        /\ jobs' \in [Job -> SharingJob] /\ \A k \in Job : jobs'[k].kind = "sync" => jobs'[k].user \in SfStaff
    BY OtherJobsKeepInSync
  <1>2. SharingTypes'
    BY <1>1 DEF SharingIInv, SharingTypes
  <1>3. (\A object \in Object : Shared(object)') /\ \A k \in Job : BatchIs(k)'
    BY OneJobKeepsShared
  <1> QED
    BY <1>1, <1>2, <1>3 DEF SharingIInv

LEMMA PickRecordsKeeps ==
    ASSUME SharingIInv, NEW j \in Job, PickRecords(j)
    PROVE  SharingIInv'
  <1> DEFINE h == Current(jobs[j])
  <1>1. /\ jobs[j] \in SharingJob /\ jobs[j].kind = "recalc" /\ jobs[j].at = "queued"
        /\ jobs' = [jobs EXCEPT ![j] = IF InScope(jobs[j], h) THEN [jobs[j] EXCEPT !.at = "picked"] ELSE Finished(jobs[j])]
        /\ UNCHANGED <<dealers, post, groups, members, drive, shares, raced, outdated, misshared>>
    BY JobOf DEF PickRecords, Becomes
  <1>2. jobs \in [Job -> SharingJob] /\ j \notin outdated /\ j \notin outdated'
    BY <1>1 DEF SharingIInv, SharingTypes, BatchIs
  <1>3. CASE InScope(jobs[j], h)
    <2> DEFINE job == [jobs[j] EXCEPT !.at = "picked"]
    <2>1. jobs' = [jobs EXCEPT ![j] = job]
      BY <1>1, <1>3
    <2>2. /\ job \in SharingJob /\ job.kind = "recalc" /\ job.at = "picked"
          /\ job.left = jobs[j].left /\ job.dealers = jobs[j].dealers
      BY <1>1 DEF SharingJob
    <2> HIDE DEF job
    <2>3. jobs'[j] = job /\ Current(job) = h
      BY <1>2, <2>1, <2>2 DEF Current
    <2>4. BatchIs(j)'
      BY <1>1, <1>2, <2>2, <2>3 DEF SharingIInv, BatchIs
    <2>5. \A object \in Object : Brings(j, object) => Brings(j, object)'
      BY <1>1, <2>2, <2>3 DEF Brings
    <2> QED
      BY <1>1, <2>1, <2>2, <2>4, <2>5, BatchKeeps
  <1>4. CASE ~InScope(jobs[j], h)
    <2> DEFINE job == Finished(jobs[j])
    <2>1. jobs' = [jobs EXCEPT ![j] = job]
      BY <1>1, <1>4
    <2>2. /\ job \in SharingJob /\ job.kind \in {"none", "recalc"}
          /\ job.kind = "recalc" => job.left # {} /\ job.at = "queued"
          /\ \A object \in jobs[j].left \ {h} :
                job.kind = "recalc" /\ object \in job.left /\ job.at = "queued" /\ job.dealers = jobs[j].dealers
      BY <1>1, FinishedIs
    <2> HIDE DEF job
    <2>3. jobs'[j] = job
      BY <1>2, <2>1
    <2>4. BatchIs(j)'
      BY <1>2, <2>2, <2>3 DEF BatchIs
    <2>5. ASSUME NEW object \in Object, Shared(object), Brings(j, object)
          PROVE  object \in misshared \/ shares[object] = Due(object) \/ Brings(j, object)'
      <3>1. CASE object = h
        <4>1. drive.dealer \in jobs[j].dealers
          BY <1>1, <2>5, <3>1 DEF Brings
        <4>2. object = "Compliance_Record__c" /\ ~drive.reviewed
          BY <1>4, <3>1, <4>1 DEF InScope
        <4>3. Due(object) = {}
          BY <4>2 DEF Due, Reshared
        <4> QED
          BY <2>5, <4>3 DEF Shared
      <3>2. CASE object # h
        BY <1>1, <2>2, <2>3, <2>5, <3>2 DEF Brings
      <3> QED
        BY <3>1, <3>2
    <2> QED
      BY <1>1, <2>1, <2>2, <2>4, <2>5, BatchKeeps
  <1> QED
    BY <1>3, <1>4

LEMMA ReadRecordsKeeps ==
    ASSUME SharingIInv, NEW j \in Job, ReadRecords(j)
    PROVE  SharingIInv'
  <1> DEFINE h == Current(jobs[j])
  <1> DEFINE due == Reshared(h, drive)
  <1> DEFINE job == [jobs[j] EXCEPT !.at = "read", !.new = due]
  <1>1. /\ jobs[j] \in SharingJob /\ jobs[j].kind = "recalc" /\ jobs[j].at = "picked"
        /\ jobs' = [jobs EXCEPT ![j] = job]
        /\ UNCHANGED <<dealers, post, groups, members, drive, shares, raced, outdated, misshared>>
    BY JobOf DEF ReadRecords, Becomes
  <1>2. due \in SUBSET Anyone
    BY ResharedIs DEF SharingIInv, SharingTypes, Current, Object
  <1> HIDE DEF due
  <1>3. /\ job \in SharingJob /\ job.kind = "recalc" /\ job.at = "read" /\ job.new = due
        /\ job.left = jobs[j].left /\ job.dealers = jobs[j].dealers
    BY <1>1, <1>2 DEF SharingJob
  <1> HIDE DEF job
  <1>4. jobs'[j] = job /\ Current(job) = h /\ j \notin outdated' /\ jobs[j].left # {}
    BY <1>1, <1>3 DEF SharingIInv, SharingTypes, BatchIs, Current
  <1>5. \A object : Due(object)' = Due(object)
    BY <1>1 DEF Due, Reshared, Desired
  <1>6. BatchIs(j)'
    <2>1. jobs'[j].new = Due(Current(jobs'[j]))
      BY <1>3, <1>4 DEF Due, due
    <2> QED
      BY <1>3, <1>4, <1>5, <2>1 DEF BatchIs, Current
  <1>7. \A object \in Object : Brings(j, object) => Brings(j, object)'
    BY <1>1, <1>3, <1>4 DEF Brings
  <1> QED
    BY <1>1, <1>3, <1>6, <1>7, BatchKeeps

LEMMA CompareSharesKeeps ==
    ASSUME SharingIInv, NEW j \in Job, CompareShares(j)
    PROVE  SharingIInv'
  <1> DEFINE h == Current(jobs[j])
  <1> DEFINE new == jobs[j].new \ shares[h]
  <1> DEFINE stale == shares[h] \ jobs[j].new
  <1> DEFINE job == [jobs[j] EXCEPT !.at = "compared", !.new = new, !.stale = stale]
  <1>1. /\ jobs[j] \in SharingJob /\ jobs[j].kind = "recalc" /\ jobs[j].at = "read"
        /\ jobs' = [jobs EXCEPT ![j] = job]
        /\ UNCHANGED <<dealers, post, groups, members, drive, shares, raced, outdated, misshared>>
    BY JobOf DEF CompareShares, Becomes
  <1>2. new \in SUBSET Anyone /\ stale \in SUBSET Anyone
    BY <1>1 DEF SharingIInv, SharingTypes, SharingJob, Current, Object
  <1> HIDE DEF new, stale
  <1>3. /\ job \in SharingJob /\ job.kind = "recalc" /\ job.at = "compared"
        /\ job.new = new /\ job.stale = stale
        /\ job.left = jobs[j].left /\ job.dealers = jobs[j].dealers
    BY <1>1, <1>2 DEF SharingJob
  <1> HIDE DEF job
  <1>4. jobs'[j] = job /\ Current(jobs'[j]) = h /\ jobs[j].left # {}
    BY <1>1, <1>3 DEF SharingIInv, SharingTypes, BatchIs, Current
  <1>5. /\ \A object : Due(object)' = Due(object)
        /\ j \notin outdated => jobs[j].new = Due(h)
    <2>1. \A object : Due(object)' = Due(object)
      BY <1>1 DEF Due, Reshared, Desired
    <2>2. j \notin outdated => jobs[j].new = Due(h)
      BY <1>1 DEF SharingIInv, BatchIs
    <2> QED
      BY <2>1, <2>2
  <1>6. BatchIs(j)'
    <2>1. j \notin outdated => /\ new \subseteq Due(h) /\ stale \cap Due(h) = {} /\ stale \subseteq shares[h]
                              /\ (shares[h] \ stale) \cup new = Due(h)
      BY <1>5 DEF new, stale
    <2>2. j \notin outdated =>
            /\ jobs'[j].new \subseteq Due(Current(jobs'[j])) /\ jobs'[j].stale \cap Due(Current(jobs'[j])) = {}
            /\ jobs'[j].stale \subseteq shares[Current(jobs'[j])]
            /\ (shares[Current(jobs'[j])] \ jobs'[j].stale) \cup jobs'[j].new = Due(Current(jobs'[j]))
      BY <1>3, <1>4, <2>1
    <2> QED
      BY <1>1, <1>3, <1>4, <1>5, <2>2 DEF BatchIs, Current
  <1>7. \A object \in Object : Brings(j, object) => Brings(j, object)'
    BY <1>1, <1>3, <1>4 DEF Brings
  <1> QED
    BY <1>1, <1>3, <1>6, <1>7, BatchKeeps

LEMMA WriteSharesKeeps ==
    ASSUME SharingIInv, NEW j \in Job, WriteShares(j)
    PROVE  SharingIInv'
  <1> DEFINE h == Current(jobs[j])
  <1> DEFINE job == Finished(jobs[j])
  <1>1. /\ jobs[j] \in SharingJob /\ jobs[j].kind = "recalc" /\ jobs[j].at = "compared" /\ BatchIs(j)
        /\ jobs' = [jobs EXCEPT ![j] = job]
        /\ UNCHANGED <<dealers, post, groups, members, drive, raced>>
    BY JobOf DEF SharingIInv, WriteShares, Becomes
  <1>2. /\ job \in SharingJob /\ job.kind \in {"none", "recalc"}
        /\ job.kind = "recalc" => job.left # {} /\ job.at = "queued"
        /\ \A object \in jobs[j].left \ {h} :
              job.kind = "recalc" /\ object \in job.left /\ job.at = "queued" /\ job.dealers = jobs[j].dealers
        /\ h \in Object
    BY <1>1, FinishedIs
  <1> HIDE DEF job
  <1>3. \A k \in Job : jobs'[k] = IF k = j THEN job ELSE jobs[k]
    BY <1>1 DEF SharingIInv, SharingTypes
  <1>4. /\ \A w \in SfStaff : InSync(w)'
        /\ jobs' \in [Job -> SharingJob] /\ \A k \in Job : jobs'[k].kind = "sync" => jobs'[k].user \in SfStaff
    BY <1>1, <1>2, OtherJobsKeepInSync
  <1>5. \A object : Due(object)' = Due(object)
    BY <1>1 DEF Due, Reshared, Desired
  <1>6. j \notin outdated' => BatchIs(j)'
    BY <1>2, <1>3 DEF BatchIs
  <1>7. \A object \in Object \ {h} : Brings(j, object) => Brings(j, object)'
    BY <1>1, <1>2, <1>3 DEF Brings
  <1>8. CASE ~(jobs[j].stale \subseteq shares[h])
    <2>1. outdated' = outdated \ {j} /\ UNCHANGED <<shares, misshared>>
      BY <1>8 DEF WriteShares
    <2>2. SharingTypes'
      BY <1>1, <1>4, <2>1 DEF SharingIInv, SharingTypes
    <2>3. ASSUME NEW k \in Job
          PROVE  BatchIs(k)'
      <3>1. CASE k = j
        BY <1>6, <2>1, <3>1
      <3>2. CASE k # j
        BY <1>3, <1>5, <2>1, <3>2 DEF SharingIInv, BatchIs, Current
      <3> QED
        BY <3>1, <3>2
    <2>4. ASSUME NEW object \in Object
          PROVE  Shared(object)'
      <3>1. Shared(object)
        BY DEF SharingIInv
      <3>2. \A k \in Job : k # j /\ Brings(k, object) => Brings(k, object)'
        BY <1>1, <1>3, <2>1 DEF Brings, Current
      <3>3. object = h /\ Brings(j, object) => shares[object] = Due(object)
        BY <1>1, <1>8 DEF Brings, BatchIs
      <3> QED
        BY <1>5, <1>7, <2>1, <3>1, <3>2, <3>3 DEF Shared
    <2> QED
      BY <1>4, <2>2, <2>3, <2>4 DEF SharingIInv
  <1>9. CASE jobs[j].stale \subseteq shares[h]
    <2> DEFINE now == (shares[h] \ jobs[j].stale) \cup jobs[j].new
    <2>1. /\ shares' = [shares EXCEPT ![h] = now]
          /\ misshared' = IF j \in outdated THEN misshared \cup {h} ELSE misshared \ {h}
          /\ outdated' = (IF j \in outdated THEN outdated \cup Batches({"compared"}, {h}) ELSE outdated) \ {j}
      BY <1>9 DEF WriteShares
    <2>2. now \in SUBSET Anyone
      BY <1>1, <1>2 DEF SharingIInv, SharingTypes, SharingJob
    <2>3. j \notin outdated => now = Due(h)
      BY <1>1 DEF BatchIs
    <2> HIDE DEF now
    <2>4. shares' \in [Object -> SUBSET Anyone] /\ \A object \in Object : shares'[object] = IF object = h THEN now ELSE shares[object]
      BY <1>2, <2>1, <2>2 DEF SharingIInv, SharingTypes
    <2>5. SharingTypes'
      BY <1>1, <1>4, <2>4 DEF SharingIInv, SharingTypes
    <2>6. \A k \in Job : Current(jobs[k]) \in Object
      BY DEF Current, Object
    <2>7. ASSUME NEW k \in Job
          PROVE  BatchIs(k)'
      <3>1. CASE k = j
        BY <1>6, <2>1, <3>1
      <3>2. CASE k # j
        <4> DEFINE o == Current(jobs[k])
        <4>1. BatchIs(k) /\ jobs'[k] = jobs[k] /\ Current(jobs'[k]) = o /\ o \in Object
          BY <1>3, <2>6, <3>2 DEF SharingIInv
        <4>2. CASE k \in outdated'
          <5>1. jobs[k].kind = "recalc" /\ jobs[k].at \in {"read", "compared"}
            BY <2>1, <4>1, <4>2 DEF BatchIs, Batches
          <5> QED
            BY <4>1, <4>2, <5>1 DEF BatchIs
        <4>3. CASE k \notin outdated'
          <5>1. k \notin outdated
            BY <2>1, <3>2, <4>3
          <5>2. CASE o # h \/ jobs[k].at # "compared" \/ jobs[k].kind # "recalc"
            BY <1>5, <2>4, <4>1, <4>3, <5>1, <5>2 DEF BatchIs
          <5>3. CASE o = h /\ jobs[k].at = "compared" /\ jobs[k].kind = "recalc"
            <6>1. j \notin outdated
              BY <2>1, <3>2, <4>3, <5>3 DEF Batches
            <6>2. shares'[h] = Due(h)
              BY <1>2, <2>3, <2>4, <6>1
            <6> QED
              BY <1>5, <4>1, <4>3, <5>1, <5>3, <6>2 DEF BatchIs
          <5> QED
            BY <5>2, <5>3
        <4> QED
          BY <4>2, <4>3
      <3> QED
        BY <3>1, <3>2
    <2>8. ASSUME NEW object \in Object
          PROVE  Shared(object)'
      <3>1. CASE object = h /\ j \in outdated
        BY <2>1, <3>1 DEF Shared
      <3>2. CASE object = h /\ j \notin outdated
        BY <1>5, <2>3, <2>4, <3>2 DEF Shared
      <3>3. CASE object # h
        <4>1. \A k \in Job : k # j /\ Brings(k, object) => Brings(k, object)'
          BY <1>1, <1>3, <2>1, <3>3 DEF Brings, Current, Batches
        <4>2. Shared(object) /\ (object \in misshared' <=> object \in misshared)
          BY <2>1, <3>3 DEF SharingIInv
        <4> QED
          BY <1>5, <1>7, <2>4, <3>3, <4>1, <4>2 DEF Shared
      <3> QED
        BY <3>1, <3>2, <3>3
    <2> QED
      BY <1>4, <2>5, <2>7, <2>8 DEF SharingIInv
  <1> QED
    BY <1>8, <1>9

-----------------------------------------------------------------------------
(* The invariant                                                           *)

LEMMA SharingInitKeeps == SharingInit => SharingIInv
  <1> SUFFICES ASSUME SharingInit
               PROVE  SharingIInv
    OBVIOUS
  <1>1. SharingTypes
    BY NoJobIsAJob DEF SharingInit, SharingTypes, Posts, NoDrive
  <1>2. \A u \in SfStaff : Syncing(u) = {} /\ members[u] = {} /\ Wanted(post[u]) = {}
    BY NoJobIsAJob DEF SharingInit, Syncing, Wanted
  <1>3. \A object \in Object : shares[object] = {} /\ Due(object) = {}
    BY DEF SharingInit, Due, Reshared, NoDrive
  <1>4. \A j \in Job : BatchIs(j)
    BY NoJobIsAJob DEF SharingInit, BatchIs
  <1> QED
    BY <1>1, <1>2, <1>3, <1>4 DEF SharingIInv, InSync, Shared

LEMMA SharingNextKeeps == SharingIInv /\ [SharingNext]_sharingVars => SharingIInv'
  <1> SUFFICES ASSUME SharingIInv, [SharingNext]_sharingVars
               PROVE  SharingIInv'
    OBVIOUS
  <1>1. CASE UNCHANGED sharingVars
    <2>1. SharingTypes' /\ \A u \in SfStaff : InSync(u)'
      BY <1>1 DEF sharingVars, SharingIInv, SharingTypes, InSync, Syncing, Wanted
    <2>2. \A object : Due(object)' = Due(object)
      BY <1>1 DEF sharingVars, Due, Reshared, Desired
    <2>3. \A object \in Object, j \in Job : Brings(j, object)' <=> Brings(j, object)
      BY <1>1 DEF sharingVars, Brings, Current
    <2>4. \A object \in Object : Shared(object)'
      BY <1>1, <2>2, <2>3 DEF sharingVars, SharingIInv, Shared
    <2>5. \A j \in Job : BatchIs(j)'
      BY <1>1, <2>2 DEF sharingVars, SharingIInv, BatchIs, Current
    <2> QED
      BY <2>1, <2>4, <2>5 DEF SharingIInv
  <1>2. CASE SharingNext
    BY <1>2, OpenKeeps, AssignKeeps, SaveDriveKeeps, SaveReviewKeeps, ReadGroupsKeeps, CreateGroupsKeeps,
       ReadPostsKeeps, WriteMembersKeeps, PickRecordsKeeps, ReadRecordsKeeps, CompareSharesKeeps, WriteSharesKeeps
       DEF SharingNext
  <1> QED
    BY <1>1, <1>2

\* Whatever number of syncs and setups run, in whatever order: a user none of whose
\* syncs is queued or running is in the groups of their roles, unless two overlapped.
THEOREM MembersTheorem == SharingSpec => []MembersFollowAssignments
  <1>1. SharingIInv => MembersFollowAssignments
    <2> SUFFICES ASSUME SharingIInv, NEW u \in SfStaff, Syncing(u) = {}, u \notin raced
                 PROVE  members[u] = {g \in Group : post[u][g[1]] \in DOMAIN TierOf /\ g[2] = TierOf[post[u][g[1]]]}
      BY DEF MembersFollowAssignments
    <2>1. members[u] = Wanted(post[u])
      BY DEF SharingIInv, InSync
    <2>2. post[u] \in Posts
      BY DEF SharingIInv, SharingTypes
    <2> QED
      BY <2>1, <2>2, WantedIs
  <1> QED
    BY <1>1, SharingInitKeeps, SharingNextKeeps, PTL DEF SharingSpec

\* However saves, set-ups and batches interleave: a drive and its record are shared
\* to nobody else than its owner and the groups of its dealership, and to all of them
\* once no recalculation is left, unless a batch that was overtaken wrote last.
THEOREM SharesTheorem == SharingSpec => []SharesFollowDrive
  <1>1. SharingIInv => SharesFollowDrive
    BY DEF SharingIInv, SharesFollowDrive, Shared, Due, Brings
  <1> QED
    BY <1>1, SharingInitKeeps, SharingNextKeeps, PTL DEF SharingSpec

-----------------------------------------------------------------------------
(***************************************************************************)
(* Staff assignments and their cache (StaffAccess)                         *)
(***************************************************************************)

\* What is known of the assignments a request has loaded, and where it may be
Served(job) ==
    /\ job.at # "idle" => job.server \in Server
    /\ job.at \in {"load", "store"} => job.by \in Member
    /\ job.at \in {"check", "save", "ack"} => job.new \in Assignment
    /\ job.at \in {"check", "save"} => job.id \in AssignmentId

Loaded(job) ==
    /\ job.at = "store" =>
          /\ job.version <= version[job.by]
          /\ ~job.late => job.version >= acked[job.server][job.by]
    /\ job.at = "ack" => job.version <= version[job.new.user]

AccessIInv ==
    /\ StaffTypeOK
    /\ \A r \in ConsoleRequest : Served(desk[r]) /\ Loaded(desk[r])
    /\ \A i \in Server, m \in Member : acked[i][m] <= version[m]
    /\ InvalidationHolds

\* A save that takes an admin away has counted on another.
CountsOnAnother(r) ==
    LET job == desk[r] IN
    job.at = "save" /\ NeedsCheck(job.was, job.new) => job.others # {} /\ job.id \notin job.others

LastAdminIInv == \A r \in ConsoleRequest : CountsOnAnother(r)

RequestState ==
    [at : {"idle", "load", "store", "ready", "check", "save", "ack"}, by : Member \cup {Nobody},
     server : Server \cup {Nobody}, posts : SUBSET Post, version : 0 .. MaxEdits, late : BOOLEAN,
     id : AssignmentId \cup {Nobody}, was : Assignment \cup {Nobody}, new : Assignment \cup {Nobody},
     others : SUBSET AssignmentId]

USE StaffAssumption

\* A request that has gone, or goes on with what it was let through for.
LEMMA Resting ==
    /\ NoRequest \in RequestState
    /\ \A i \in Server \cup {Nobody}, posts \in SUBSET Post :
          [NoRequest EXCEPT !.at = "ready", !.server = i, !.posts = posts] \in RequestState
  <1>1. NoRequest \in RequestState
    BY DEF NoRequest, RequestState
  <1>2. ASSUME NEW i \in Server \cup {Nobody}, NEW posts \in SUBSET Post
        PROVE  [NoRequest EXCEPT !.at = "ready", !.server = i, !.posts = posts] \in RequestState
    BY <1>1, <1>2 DEF RequestState
  <1> QED
    BY <1>1, <1>2

LEMMA Types ==
    ASSUME AccessIInv
    PROVE  /\ desk \in [ConsoleRequest -> RequestState]
           /\ \A m \in Member : PostsOf(m) \in SUBSET Post
           /\ \A r \in ConsoleRequest : desk[r] \in RequestState
  <1>1. desk \in [ConsoleRequest -> RequestState]
    BY DEF AccessIInv, StaffTypeOK, RequestState
  <1>2. ASSUME NEW m \in Member
        PROVE  PostsOf(m) \in SUBSET Post
    BY DEF AccessIInv, StaffTypeOK, PostsOf, Assignment
  <1> QED
    BY <1>1, <1>2

\* A request moves on, and nothing else changes.
LEMMA TurnKeeps ==
    ASSUME AccessIInv, NEW r \in ConsoleRequest, NEW next \in RequestState, Turns(r, next),
           Served(next), Loaded(next), UNCHANGED <<assigned, version, access, acked>>
    PROVE  AccessIInv'
  <1>1. desk' \in [ConsoleRequest -> RequestState] /\ \A q \in ConsoleRequest : desk'[q] = IF q = r THEN next ELSE desk[q]
    BY Types DEF Turns
  <1>2. StaffTypeOK'
    BY <1>1 DEF AccessIInv, StaffTypeOK, RequestState
  <1>3. ASSUME NEW q \in ConsoleRequest
        PROVE  Served(desk[q])' /\ Loaded(desk[q])'
    BY <1>1 DEF AccessIInv, Served, Loaded
  <1>4. (\A i \in Server, m \in Member : acked[i][m] <= version[m])' /\ InvalidationHolds'
    BY DEF AccessIInv, InvalidationHolds
  <1> QED
    BY <1>2, <1>3, <1>4 DEF AccessIInv

LEMMA NoRequestIsServed == Served(NoRequest) /\ Loaded(NoRequest)
  BY DEF Served, Loaded, NoRequest

\* Who is admitted holds posts, and has loaded nothing.
LEMMA AdmittedIsServed ==
    ASSUME NEW i \in Server, NEW posts \in SUBSET Post
    PROVE  Admitted(i, posts) \in RequestState /\ Served(Admitted(i, posts)) /\ Loaded(Admitted(i, posts))
  <1> DEFINE ready == [NoRequest EXCEPT !.at = "ready", !.server = i, !.posts = posts]
  <1>1. ready \in RequestState /\ ready.at = "ready" /\ ready.server = i
    BY Resting DEF NoRequest
  <1>2. Served(ready) /\ Loaded(ready)
    BY <1>1 DEF Served, Loaded
  <1> QED
    BY <1>1, <1>2, NoRequestIsServed, Resting DEF Admitted

LEMMA ArrivesKeeps ==
    ASSUME AccessIInv, NEW r \in ConsoleRequest, NEW m \in Member, NEW i \in Server, Arrives(r, m, i)
    PROVE  AccessIInv'
  <1> DEFINE load == [NoRequest EXCEPT !.at = "load", !.by = m, !.server = i]
  <1>1. CASE access[i][m] = Nobody
    <2>1. load \in RequestState /\ load.at = "load" /\ load.by = m /\ load.server = i
      BY ZenonT(60), Resting DEF NoRequest, RequestState
    <2>2. Served(load) /\ Loaded(load)
      BY <2>1 DEF Served, Loaded
    <2>3. Turns(r, load)
      BY <1>1 DEF Arrives
    <2> HIDE DEF load
    <2> QED
      BY <2>1, <2>2, <2>3, TurnKeeps DEF Arrives
  <1>2. CASE access[i][m] # Nobody
    <2>1. access[i][m].posts \in SUBSET Post
      BY <1>2 DEF AccessIInv, StaffTypeOK, CacheEntry
    <2>2. Turns(r, Admitted(i, access[i][m].posts))
      BY <1>2 DEF Arrives
    <2> QED
      BY <2>1, <2>2, AdmittedIsServed, TurnKeeps DEF Arrives
  <1> QED
    BY <1>1, <1>2

LEMMA LoadKeeps ==
    ASSUME AccessIInv, NEW r \in ConsoleRequest, LoadAccess(r)
    PROVE  AccessIInv'
  <1> DEFINE job == desk[r]
  <1> DEFINE next == [job EXCEPT !.at = "store", !.posts = PostsOf(job.by), !.version = version[job.by]]
  <1>1. job \in RequestState /\ job.at = "load" /\ job.by \in Member /\ job.server \in Server
    BY Types DEF LoadAccess, AccessIInv, Served
  <1>2. PostsOf(job.by) \in SUBSET Post /\ version[job.by] \in 0 .. MaxEdits /\ acked[job.server][job.by] <= version[job.by]
    BY <1>1, Types DEF AccessIInv, StaffTypeOK
  <1>3. /\ next \in RequestState
        /\ next.at = "store" /\ next.by = job.by /\ next.server = job.server /\ next.version = version[job.by]
    BY <1>1, <1>2 DEF RequestState
  <1>4. Served(next) /\ Loaded(next)
    BY <1>1, <1>2, <1>3 DEF Served, Loaded
  <1>5. Turns(r, next)
    BY DEF LoadAccess
  <1> HIDE DEF next
  <1> QED
    BY <1>3, <1>4, <1>5, TurnKeeps DEF LoadAccess

LEMMA StoreKeeps ==
    ASSUME AccessIInv, NEW r \in ConsoleRequest, StoreAccess(r)
    PROVE  AccessIInv'
  <1> DEFINE job == desk[r]
  <1> DEFINE entry == [posts |-> job.posts, version |-> job.version, late |-> job.late]
  <1> DEFINE next == Admitted(job.server, job.posts)
  <1>1. /\ job \in RequestState /\ job.by \in Member /\ job.server \in Server
        /\ job.late \/ job.version >= acked[job.server][job.by]
    BY Types DEF StoreAccess, AccessIInv, Served, Loaded, RequestState
  <1>2. entry \in CacheEntry
    BY <1>1 DEF RequestState, CacheEntry
  <1>3. next \in RequestState /\ Served(next) /\ Loaded(next)
    BY <1>1, AdmittedIsServed DEF RequestState
  <1>4. \A i \in Server, m \in Member : access'[i][m] = IF i = job.server /\ m = job.by THEN entry ELSE access[i][m]
    BY <1>1 DEF StoreAccess, AccessIInv, StaffTypeOK
  <1>5. access' \in [Server -> [Member -> CacheEntry \cup {Nobody}]]
    BY <1>1, <1>2 DEF StoreAccess, AccessIInv, StaffTypeOK
  <1>6. desk' \in [ConsoleRequest -> RequestState] /\ \A q \in ConsoleRequest : desk'[q] = IF q = r THEN next ELSE desk[q]
    BY <1>3, Types DEF StoreAccess, Turns
  <1>7. version' = version /\ acked' = acked /\ assigned' = assigned
    BY DEF StoreAccess
  <1>8. InvalidationHolds'
    <2> SUFFICES ASSUME NEW i \in Server, NEW m \in Member, access'[i][m] # Nobody, ~access'[i][m].late
                 PROVE  access'[i][m].version >= acked[i][m]
      BY <1>7 DEF InvalidationHolds
    <2>1. CASE i = job.server /\ m = job.by
      BY <2>1, <1>1, <1>4
    <2>2. CASE ~(i = job.server /\ m = job.by)
      BY <2>2, <1>4 DEF AccessIInv, InvalidationHolds
    <2> QED
      BY <2>1, <2>2
  <1>9. ASSUME NEW q \in ConsoleRequest
        PROVE  Served(desk[q])' /\ Loaded(desk[q])'
    BY <1>3, <1>6, <1>7 DEF AccessIInv, Served, Loaded
  <1>10. StaffTypeOK'
    BY <1>5, <1>6, <1>7 DEF AccessIInv, StaffTypeOK, RequestState
  <1> QED
    BY <1>7, <1>8, <1>9, <1>10 DEF AccessIInv

LEMMA ForgetKeeps ==
    ASSUME AccessIInv, NEW i \in Server, NEW m \in Member, Forget(i, m)
    PROVE  AccessIInv'
  <1>1. \A j \in Server, w \in Member : access'[j][w] = IF j = i /\ w = m THEN Nobody ELSE access[j][w]
    BY DEF Forget, AccessIInv, StaffTypeOK
  <1>2. access' \in [Server -> [Member -> CacheEntry \cup {Nobody}]]
    BY DEF Forget, AccessIInv, StaffTypeOK
  <1>3. StaffTypeOK'
    BY <1>2 DEF Forget, AccessIInv, StaffTypeOK
  <1>4. InvalidationHolds'
    BY <1>1 DEF Forget, AccessIInv, InvalidationHolds
  <1> QED
    BY <1>3, <1>4 DEF Forget, AccessIInv, Served, Loaded

LEMMA GrantKeeps ==
    ASSUME AccessIInv, NEW r \in ConsoleRequest, NEW m \in Member, NEW asked \in Asked, Grant(r, m, asked)
    PROVE  AccessIInv'
  <1>1. PICK id \in AssignmentId : Turns(r, [Edits(r, "save") EXCEPT !.id = id,
                                                !.new = [user |-> m, post |-> asked, active |-> TRUE]])
    BY DEF Grant
  <1> DEFINE new == [user |-> m, post |-> asked, active |-> TRUE]
  <1> DEFINE next == [Edits(r, "save") EXCEPT !.id = id, !.new = new]
  <1>2. new \in Assignment
    BY DEF Assignment, Asked
  <1>3. desk[r] \in RequestState /\ desk[r].server \in Server
    BY Types DEF Grant, AccessIInv, Served
  <1> HIDE DEF new
  <1>4. next \in RequestState /\ next.at = "save" /\ next.server \in Server /\ next.id \in AssignmentId /\ next.new \in Assignment
    BY ZenonT(60), <1>2, <1>3, Resting DEF Edits, NoRequest, RequestState
  <1>5. Served(next) /\ Loaded(next)
    BY <1>4 DEF Served, Loaded
  <1>6. Turns(r, next)
    BY <1>1 DEF new
  <1> HIDE DEF next
  <1> QED
    BY <1>4, <1>5, <1>6, TurnKeeps DEF Grant

LEMMA ChangeKeeps ==
    ASSUME AccessIInv, NEW r \in ConsoleRequest, NEW id \in AssignmentId, NEW asked \in Asked, NEW active \in BOOLEAN,
           Change(r, id, asked, active)
    PROVE  AccessIInv'
  <1> DEFINE was == assigned[id]
  <1> DEFINE new == [was EXCEPT !.post = asked, !.active = active]
  <1> DEFINE at == IF NeedsCheck(was, new) THEN "check" ELSE "save"
  <1> DEFINE next == [Edits(r, at) EXCEPT !.id = id, !.was = was, !.new = new]
  <1>1. was \in Assignment
    BY DEF Change, AccessIInv, StaffTypeOK
  <1>2. new \in Assignment
    BY <1>1 DEF Assignment, Asked
  <1>3. desk[r] \in RequestState /\ desk[r].server \in Server
    BY Types DEF Change, AccessIInv, Served
  <1>4. Turns(r, next)
    BY DEF Change
  <1>5. at \in {"check", "save"}
    OBVIOUS
  <1> HIDE DEF new, was, at
  <1>6. /\ next \in RequestState /\ next.at = at
        /\ next.server \in Server /\ next.id \in AssignmentId /\ next.new \in Assignment
    BY ZenonT(60), <1>1, <1>2, <1>3, <1>5, Resting DEF Edits, NoRequest, RequestState
  <1>7. Served(next) /\ Loaded(next)
    BY <1>5, <1>6 DEF Served, Loaded
  <1> HIDE DEF next
  <1> QED
    BY <1>4, <1>6, <1>7, TurnKeeps DEF Change

LEMMA CheckKeeps ==
    ASSUME AccessIInv, NEW r \in ConsoleRequest, CheckOthers(r)
    PROVE  AccessIInv'
  <1> DEFINE others == CompanyAdmins \ {desk[r].id}
  <1> DEFINE next == [desk[r] EXCEPT !.at = "save", !.others = others]
  <1>1. desk[r] \in RequestState /\ desk[r].at = "check" /\ Served(desk[r])
    BY Types DEF CheckOthers, AccessIInv
  <1>2. others \in SUBSET AssignmentId
    BY DEF CompanyAdmins
  <1>3. Turns(r, NoRequest) \/ Turns(r, next)
    BY DEF CheckOthers
  <1> HIDE DEF others
  <1>4. /\ next \in RequestState /\ next.at = "save"
        /\ next.server = desk[r].server /\ next.id = desk[r].id /\ next.new = desk[r].new
    BY <1>1, <1>2 DEF RequestState
  <1>5. Served(next) /\ Loaded(next)
    BY <1>1, <1>4 DEF Served, Loaded
  <1> HIDE DEF next
  <1> QED
    BY <1>3, <1>4, <1>5, TurnKeeps, NoRequestIsServed, Resting DEF CheckOthers

\* The assignments of a member change, and with them their version.
LEMMA VersionKeeps ==
    ASSUME AccessIInv, NEW m \in Member, version[m] < MaxEdits, version' = [version EXCEPT ![m] = @ + 1],
           UNCHANGED <<access, acked>>, NEW r, desk' = desk \/ r \in ConsoleRequest,
           assigned' \in [AssignmentId -> Assignment \cup {Nobody}],
           desk' \in [ConsoleRequest -> RequestState],
           \A q \in ConsoleRequest : q = r \/ desk'[q] = desk[q],
           desk' = desk \/ (Served(desk'[r]) /\ desk'[r].at = "ack" /\ desk'[r].new.user = m /\ desk'[r].version = version[m] + 1)
    PROVE  AccessIInv'
  <1>1. version' \in [Member -> 0 .. MaxEdits] /\ version'[m] = version[m] + 1 /\ \A w \in Member : version[w] <= version'[w]
    BY DEF AccessIInv, StaffTypeOK
  <1>2. StaffTypeOK'
    BY <1>1 DEF AccessIInv, StaffTypeOK, RequestState
  <1>3. InvalidationHolds'
    BY DEF AccessIInv, InvalidationHolds
  <1>4. (\A i \in Server, w \in Member : acked[i][w] <= version[w])'
    BY <1>1 DEF AccessIInv, StaffTypeOK
  <1>5. ASSUME NEW q \in ConsoleRequest
        PROVE  Served(desk[q])' /\ Loaded(desk[q])'
    <2>1. CASE desk'[q] = desk[q]
      <3>1. desk[q] \in RequestState /\ Served(desk[q]) /\ Loaded(desk[q])
        BY Types DEF AccessIInv
      <3>2. desk[q].version \in Int /\ (desk[q].at = "ack" => desk[q].new.user \in Member)
        BY <3>1 DEF RequestState, Served, Assignment
      <3>3. \A w \in Member : version[w] \in Int /\ version'[w] \in Int
        BY <1>1 DEF AccessIInv, StaffTypeOK
      <3> QED
        BY <2>1, <3>1, <3>2, <3>3, <1>1 DEF Served, Loaded
    <2>2. CASE desk'[q] # desk[q]
      BY <2>2, <1>1 DEF Served, Loaded, AccessIInv, StaffTypeOK
    <2> QED
      BY <2>1, <2>2
  <1> QED
    BY <1>2, <1>3, <1>4, <1>5 DEF AccessIInv

LEMMA SaveKeeps ==
    ASSUME AccessIInv, NEW r \in ConsoleRequest, SaveAssignment(r)
    PROVE  AccessIInv'
  <1> DEFINE job == desk[r]
  <1> DEFINE m == job.new.user
  <1>1. job \in RequestState /\ job.at = "save" /\ job.server \in Server /\ job.id \in AssignmentId /\ job.new \in Assignment
    BY Types DEF SaveAssignment, AccessIInv, Served
  <1>2. CASE Taken(job.id, job.new.user, job.new.post.place)
    <2>1. Turns(r, NoRequest) /\ UNCHANGED <<assigned, version, access, acked>>
      BY <1>2 DEF SaveAssignment
    <2> QED
      BY <2>1, TurnKeeps, NoRequestIsServed, Resting
  <1>3. CASE ~Taken(job.id, job.new.user, job.new.post.place)
    <2> DEFINE next == [Edits(r, "ack") EXCEPT !.new = job.new, !.version = version[m] + 1]
    <2>1. m \in Member /\ version[m] < MaxEdits /\ version[m] + 1 \in 0 .. MaxEdits
      BY <1>1, <1>3 DEF SaveAssignment, Assignment, AccessIInv, StaffTypeOK
    <2>2. /\ version' = [version EXCEPT ![m] = @ + 1]
          /\ assigned' = [assigned EXCEPT ![job.id] = job.new]
          /\ Turns(r, next) /\ UNCHANGED <<access, acked>>
      BY <1>3 DEF SaveAssignment
    <2>3. assigned' \in [AssignmentId -> Assignment \cup {Nobody}]
      BY SMTT(60), <1>1, <2>2 DEF AccessIInv, StaffTypeOK
    <2>4. /\ next \in RequestState
          /\ next.at = "ack" /\ next.server = job.server /\ next.new = job.new /\ next.version = version[m] + 1
      BY ZenonT(60), <1>1, <2>1, Resting DEF Edits, NoRequest, RequestState
    <2>5. Served(next)
      BY <1>1, <2>4 DEF Served
    <2> HIDE DEF next
    <2>6. desk' \in [ConsoleRequest -> RequestState] /\ desk'[r] = next /\ \A q \in ConsoleRequest : q = r \/ desk'[q] = desk[q]
      BY <2>2, <2>4, Types DEF Turns
    <2> HIDE DEF m
    <2> QED
      BY ZenonT(60), <2>1, <2>2, <2>3, <2>4, <2>5, <2>6, VersionKeeps DEF m
  <1> QED
    BY <1>2, <1>3

LEMMA EditKeeps ==
    ASSUME AccessIInv, NEW id \in AssignmentId, EditInSalesforce(id)
    PROVE  AccessIInv'
  <1>1. assigned[id] \in Assignment
    BY DEF EditInSalesforce, AccessIInv, StaffTypeOK
  <1>2. assigned[id].user \in Member /\ [assigned[id] EXCEPT !.active = ~@] \in Assignment
    BY <1>1 DEF Assignment
  <1>3. assigned' = [assigned EXCEPT ![id] = [assigned[id] EXCEPT !.active = ~@]]
    BY DEF EditInSalesforce
  <1>4. assigned' \in [AssignmentId -> Assignment \cup {Nobody}]
    BY <1>2, <1>3 DEF AccessIInv, StaffTypeOK
  <1>5. desk' = desk /\ desk' \in [ConsoleRequest -> RequestState]
    BY Types DEF EditInSalesforce
  <1> QED
    BY <1>2, <1>4, <1>5, VersionKeeps DEF EditInSalesforce

LEMMA AcknowledgeKeeps ==
    ASSUME AccessIInv, NEW r \in ConsoleRequest, Acknowledge(r)
    PROVE  AccessIInv'
  <1> DEFINE job == desk[r]
  <1> DEFINE m == job.new.user
  <1> DEFINE s == job.server
  <1>1. job \in RequestState /\ job.at = "ack" /\ s \in Server /\ m \in Member /\ job.version \in 0 .. MaxEdits /\ job.version <= version[m]
    BY Types DEF Acknowledge, AccessIInv, Served, Loaded, Assignment, RequestState
  <1>2. /\ access' = [access EXCEPT ![s][m] = Nobody]
        /\ acked' = [acked EXCEPT ![s][m] = IF job.version > @ THEN job.version ELSE @]
        /\ version' = version /\ assigned' = assigned
    BY DEF Acknowledge, DropsMember
  <1>3. /\ access' \in [Server -> [Member -> CacheEntry \cup {Nobody}]]
        /\ \A i \in Server, w \in Member : access'[i][w] = IF i = s /\ w = m THEN Nobody ELSE access[i][w]
    BY <1>1, <1>2 DEF AccessIInv, StaffTypeOK
  <1>4. /\ acked' \in [Server -> [Member -> 0 .. MaxEdits]]
        /\ \A i \in Server, w \in Member : (i = s /\ w = m) \/ acked'[i][w] = acked[i][w]
        /\ acked'[s][m] <= version[m]
    <2>1. acked \in [Server -> [Member -> 0 .. MaxEdits]] /\ acked[s][m] <= version[m]
      BY <1>1 DEF AccessIInv, StaffTypeOK
    <2> HIDE DEF s, m
    <2>2. \A i \in Server, w \in Member : (i = s /\ w = m) \/ acked'[i][w] = acked[i][w]
      BY <1>1, <1>2, <2>1
    <2>3. acked'[s][m] = IF job.version > acked[s][m] THEN job.version ELSE acked[s][m]
      BY <1>1, <1>2, <2>1
    <2>4. acked'[s][m] \in 0 .. MaxEdits
      BY <1>1, <2>1, <2>3
    <2>5. acked' \in [Server -> [Member -> 0 .. MaxEdits]]
      BY <1>1, <1>2, <2>1
    <2> QED
      BY <1>1, <2>1, <2>2, <2>3, <2>5
  <1>5. ASSUME NEW q \in ConsoleRequest
        PROVE  /\ desk'[q] \in RequestState
               /\ Served(desk'[q])
               /\ desk'[q].at = "store" =>
                     /\ desk'[q].version <= version[desk'[q].by]
                     /\ ~desk'[q].late => desk'[q].version >= acked'[desk'[q].server][desk'[q].by]
               /\ desk'[q].at = "ack" => desk'[q].version <= version[desk'[q].new.user]
    <2>1. CASE q = r
      <3>1. desk'[q] = NoRequest
        BY <2>1 DEF Acknowledge
      <3>2. NoRequest.at = "idle"
        BY DEF NoRequest
      <3> QED
        BY <3>1, <3>2, NoRequestIsServed, Resting
    <2>2. CASE q # r /\ desk[q].at = "store" /\ desk[q].server = s /\ desk[q].by = m
      <3>1. desk'[q] = [desk[q] EXCEPT !.late = TRUE]
        BY <2>2 DEF Acknowledge
      <3>2. desk[q] \in RequestState /\ Served(desk[q]) /\ Loaded(desk[q])
        BY Types DEF AccessIInv
      <3>3. /\ desk'[q] \in RequestState /\ desk'[q].version = desk[q].version /\ desk'[q].late
            /\ desk'[q].at = "store" /\ desk'[q].by = desk[q].by /\ desk'[q].server = desk[q].server
        BY <2>2, <3>1, <3>2 DEF RequestState
      <3> QED
        BY <2>2, <3>2, <3>3 DEF Served, Loaded
    <2>3. CASE q # r /\ ~(desk[q].at = "store" /\ desk[q].server = s /\ desk[q].by = m)
      <3>1. desk'[q] = desk[q]
        BY SMTT(60), <2>3 DEF Acknowledge
      <3>2. desk[q] \in RequestState /\ Served(desk[q]) /\ Loaded(desk[q])
        BY Types DEF AccessIInv
      <3> QED
        BY <2>3, <3>1, <3>2, <1>4 DEF Served, Loaded
    <2> QED
      BY <2>1, <2>2, <2>3
  <1>6. desk' \in [ConsoleRequest -> RequestState]
    BY ZenonT(60), <1>5, Resting DEF Acknowledge
  <1>7. StaffTypeOK'
    BY <1>2, <1>3, <1>4, <1>6 DEF AccessIInv, StaffTypeOK, RequestState
  <1>8. InvalidationHolds'
    BY SMTT(60), <1>3, <1>4 DEF AccessIInv, InvalidationHolds
  <1>9. (\A i \in Server, w \in Member : acked[i][w] <= version[w])'
    BY SMTT(60), <1>2, <1>4 DEF AccessIInv
  <1>10. \A q \in ConsoleRequest : Served(desk[q])' /\ Loaded(desk[q])'
    BY <1>2, <1>5 DEF Served, Loaded
  <1> QED
    BY <1>7, <1>8, <1>9, <1>10 DEF AccessIInv

LEMMA AccessInit == StaffInit => AccessIInv
  <1> SUFFICES ASSUME StaffInit
               PROVE  AccessIInv
    OBVIOUS
  <1>1. StaffTypeOK
    <2>1. \A id \in FirstAdmins : [user |-> AdminOf[id], active |-> TRUE,
                                   post |-> [role |-> "Company_Admin", place |-> Company]] \in Assignment
      BY DEF Assignment, Post
    <2>2. assigned \in [AssignmentId -> Assignment \cup {Nobody}]
      BY <2>1 DEF StaffInit
    <2>3. desk \in [ConsoleRequest -> RequestState]
      BY Resting DEF StaffInit
    <2> QED
      BY <2>2, <2>3 DEF StaffInit, StaffTypeOK, RequestState
  <1>2. \A r \in ConsoleRequest : Served(desk[r]) /\ Loaded(desk[r])
    BY NoRequestIsServed DEF StaffInit
  <1>3. InvalidationHolds /\ \A i \in Server, m \in Member : acked[i][m] <= version[m]
    BY DEF StaffInit, InvalidationHolds
  <1> QED
    BY <1>1, <1>2, <1>3 DEF AccessIInv

LEMMA AccessNext == AccessIInv /\ [StaffNext]_staffVars => AccessIInv'
  <1> SUFFICES ASSUME AccessIInv, [StaffNext]_staffVars
               PROVE  AccessIInv'
    OBVIOUS
  <1>1. CASE UNCHANGED staffVars
    BY <1>1 DEF staffVars, AccessIInv, StaffTypeOK, Served, Loaded, InvalidationHolds, RequestState
  <1>2. CASE \E r \in ConsoleRequest : \E m \in Member, i \in Server : Arrives(r, m, i)
    BY <1>2, ArrivesKeeps
  <1>3. CASE \E r \in ConsoleRequest : LoadAccess(r) \/ StoreAccess(r) \/ CheckOthers(r) \/ SaveAssignment(r) \/ Acknowledge(r)
    BY <1>3, LoadKeeps, StoreKeeps, CheckKeeps, SaveKeeps, AcknowledgeKeeps
  <1>4. CASE \E r \in ConsoleRequest : \E m \in Member, asked \in Asked : Grant(r, m, asked)
    BY <1>4, GrantKeeps
  <1>5. CASE \E r \in ConsoleRequest : \E id \in AssignmentId, asked \in Asked, active \in BOOLEAN : Change(r, id, asked, active)
    BY <1>5, ChangeKeeps
  <1>6. CASE \E i \in Server, m \in Member : Forget(i, m)
    BY <1>6, ForgetKeeps
  <1>7. CASE \E id \in AssignmentId : EditInSalesforce(id)
    BY <1>7, EditKeeps
  <1> QED
    BY <1>1, <1>2, <1>3, <1>4, <1>5, <1>6, <1>7 DEF StaffNext

\* Whatever requests load, store, forget and edit at once: what an instance has
\* cached of a member is no older than the last edit it acknowledged, unless that
\* came from a load under way at the time (staff-access.service.ts:21).
THEOREM InvalidationTheorem == StaffSpec => []InvalidationHolds
  <1>1. AccessIInv => InvalidationHolds
    BY DEF AccessIInv
  <1> QED
    BY <1>1, AccessInit, AccessNext, PTL DEF StaffSpec

LEMMA CountingNext == AccessIInv /\ LastAdminIInv /\ [StaffNext]_staffVars => LastAdminIInv'
  <1> SUFFICES ASSUME AccessIInv, LastAdminIInv, [StaffNext]_staffVars, NEW q \in ConsoleRequest,
                      desk'[q].at = "save", NeedsCheck(desk'[q].was, desk'[q].new)
               PROVE  desk'[q].others # {} /\ desk'[q].id \notin desk'[q].others
    BY DEF LastAdminIInv, CountsOnAnother, NeedsCheck, Admins
  <1>0. /\ desk \in [ConsoleRequest -> RequestState]
        /\ desk'[q] = desk[q] => desk'[q].others # {} /\ desk'[q].id \notin desk'[q].others
    BY Types DEF LastAdminIInv, CountsOnAnother
  <1>1. CASE UNCHANGED staffVars
    BY <1>0, <1>1 DEF staffVars
  <1>2. ASSUME NEW r \in ConsoleRequest, NEW m \in Member, NEW i \in Server, Arrives(r, m, i)
        PROVE  desk'[q] = desk[q]
    BY <1>0, <1>2 DEF Arrives, Turns, Admitted, NoRequest
  <1>3. ASSUME NEW r \in ConsoleRequest, LoadAccess(r) \/ StoreAccess(r)
        PROVE  desk'[q] = desk[q]
    <2>1. CASE q # r
      BY <1>0, <1>3, <2>1 DEF LoadAccess, StoreAccess, Turns
    <2>2. CASE q = r /\ LoadAccess(r)
      <3>1. desk'[q] = [desk[q] EXCEPT !.at = "store", !.posts = PostsOf(desk[q].by), !.version = version[desk[q].by]]
        BY <1>0, <2>2 DEF LoadAccess, Turns
      <3>2. desk'[q].at = "store"
        BY <1>0, <3>1 DEF RequestState
      <3> QED
        BY <3>2
    <2>3. CASE q = r /\ StoreAccess(r)
      <3>1. desk'[q] = Admitted(desk[q].server, desk[q].posts)
        BY <1>0, <2>3 DEF StoreAccess, Turns
      <3>2. desk'[q].at # "save"
        BY <3>1 DEF Admitted, NoRequest
      <3> QED
        BY <3>2
    <2> QED
      BY <1>3, <2>1, <2>2, <2>3
  <1>4. ASSUME NEW r \in ConsoleRequest, CheckOthers(r)
        PROVE  desk'[q].others # {} /\ desk'[q].id \notin desk'[q].others
    <2> DEFINE others == CompanyAdmins \ {desk[r].id}
    <2>1. CASE others = {}
      BY <1>0, <1>4, <2>1 DEF CheckOthers, Turns, NoRequest
    <2>2. CASE others # {} /\ q = r
      <3>1. desk'[q] = [desk[r] EXCEPT !.at = "save", !.others = others]
        BY <1>0, <1>4, <2>2 DEF CheckOthers, Turns
      <3>2. desk'[q].others = others /\ desk'[q].id = desk[r].id
        BY <1>0, <3>1 DEF RequestState
      <3> QED
        BY <2>2, <3>2
    <2>3. CASE others # {} /\ q # r
      BY <1>0, <1>4, <2>3 DEF CheckOthers, Turns
    <2> QED
      BY <2>1, <2>2, <2>3
  <1>5. ASSUME NEW r \in ConsoleRequest, SaveAssignment(r)
        PROVE  desk'[q] = desk[q]
    <2>1. CASE q # r
      BY <1>0, <1>5, <2>1 DEF SaveAssignment, Turns
    <2>2. CASE q = r
      <3>1. \/ desk'[q] = NoRequest
            \/ desk'[q] = [Edits(r, "ack") EXCEPT !.new = desk[r].new, !.version = version[desk[r].new.user] + 1]
        BY <1>0, <1>5, <2>2 DEF SaveAssignment, Turns
      <3>2. ASSUME NEW new, NEW n
            PROVE  [Edits(r, "ack") EXCEPT !.new = new, !.version = n].at = "ack"
        BY DEF Edits, NoRequest
      <3>3. NoRequest.at = "idle"
        BY DEF NoRequest
      <3>4. CASE desk'[q] = NoRequest
        BY <3>3, <3>4
      <3>5. CASE desk'[q] = [Edits(r, "ack") EXCEPT !.new = desk[r].new, !.version = version[desk[r].new.user] + 1]
        <4>1. [Edits(r, "ack") EXCEPT !.new = desk[r].new, !.version = version[desk[r].new.user] + 1].at = "ack"
          BY <3>2
        <4> QED
          BY <3>5, <4>1
      <3> QED
        BY <3>1, <3>4, <3>5
    <2> QED
      BY <2>1, <2>2
  <1>6. ASSUME NEW r \in ConsoleRequest, Acknowledge(r)
        PROVE  desk'[q] = desk[q]
    <2>1. CASE q = r
      BY <2>1, <1>6 DEF Acknowledge, NoRequest
    <2>2. CASE q # r /\ desk[q].at = "store"
      <3>1. desk'[q] = desk[q] \/ desk'[q] = [desk[q] EXCEPT !.late = TRUE]
        BY <2>2, <1>6 DEF Acknowledge
      <3> QED
        BY <2>2, <3>1, <1>0 DEF RequestState
    <2>3. CASE q # r /\ desk[q].at # "store"
      BY <2>3, <1>6 DEF Acknowledge
    <2> QED
      BY <2>1, <2>2, <2>3
  <1>7. ASSUME NEW r \in ConsoleRequest, NEW m \in Member, NEW asked \in Asked, Grant(r, m, asked)
        PROVE  desk'[q] = desk[q]
    <2>1. PICK id \in AssignmentId : Turns(r, [Edits(r, "save") EXCEPT !.id = id,
                                                  !.new = [user |-> m, post |-> asked, active |-> TRUE]])
      BY <1>7 DEF Grant
    <2>2. CASE q = r
      <3>1. desk'[q].was = Nobody
        BY <1>0, <2>1, <2>2 DEF Turns, Edits, NoRequest
      <3> QED
        BY <3>1 DEF NeedsCheck, Admins
    <2> QED
      BY <1>0, <2>1, <2>2 DEF Turns
  <1>8. ASSUME NEW r \in ConsoleRequest, NEW id \in AssignmentId, NEW asked \in Asked, NEW active \in BOOLEAN,
               Change(r, id, asked, active)
        PROVE  desk'[q] = desk[q]
    <2> DEFINE was == assigned[id]
    <2> DEFINE new == [was EXCEPT !.post = asked, !.active = active]
    <2> DEFINE at == IF NeedsCheck(was, new) THEN "check" ELSE "save"
    <2>1. Turns(r, [Edits(r, at) EXCEPT !.id = id, !.was = was, !.new = new])
      BY <1>8 DEF Change
    <2> HIDE DEF was, new
    <2>2. CASE q = r
      <3>1. desk'[q].at = at /\ desk'[q].was = was /\ desk'[q].new = new
        BY <1>0, <2>1, <2>2 DEF Turns, Edits, NoRequest
      <3> QED
        BY <3>1
    <2> QED
      BY <1>0, <2>1, <2>2 DEF Turns
  <1>9. CASE (\E i \in Server, m \in Member : Forget(i, m)) \/ (\E id \in AssignmentId : EditInSalesforce(id))
    BY <1>0, <1>9 DEF Forget, EditInSalesforce
  <1> QED
    BY <1>0, <1>1, <1>2, <1>3, <1>4, <1>5, <1>6, <1>7, <1>8, <1>9 DEF StaffNext

LEMMA LastAdminStep ==
    ASSUME AccessIInv, LastAdminIInv, [StaffNext]_staffVars, NEW r \in ConsoleRequest,
           desk[r].at = "save", desk'[r].at = "ack", CompanyAdmins # {}, CompanyAdmins' = {}
    PROVE  \/ desk[r].was # assigned[desk[r].id]
           \/ desk[r].others # {} /\ desk[r].others \cap CompanyAdmins = {}
  <1> DEFINE job == desk[r]
  <1>0. job \in RequestState /\ Served(job) /\ CountsOnAnother(r)
    BY SMTT(60), Types DEF AccessIInv, LastAdminIInv
  <1>1. SaveAssignment(r)
    <2>1. \A q \in ConsoleRequest : \A next : Turns(q, next) /\ q # r => desk'[r] = desk[r]
      BY Types DEF Turns
    <2>2. desk' # desk
      OBVIOUS
    <2>3. \E q \in ConsoleRequest :
             \/ \E m \in Member, i \in Server : Arrives(q, m, i)
             \/ LoadAccess(q) \/ StoreAccess(q) \/ CheckOthers(q) \/ SaveAssignment(q) \/ Acknowledge(q)
             \/ \E m \in Member, asked \in Asked : Grant(q, m, asked)
             \/ \E id \in AssignmentId, asked \in Asked, active \in BOOLEAN : Change(q, id, asked, active)
      BY <2>2 DEF StaffNext, staffVars, Forget, EditInSalesforce
    <2>4. PICK q \in ConsoleRequest :
             \/ \E m \in Member, i \in Server : Arrives(q, m, i)
             \/ LoadAccess(q) \/ StoreAccess(q) \/ CheckOthers(q) \/ SaveAssignment(q) \/ Acknowledge(q)
             \/ \E m \in Member, asked \in Asked : Grant(q, m, asked)
             \/ \E id \in AssignmentId, asked \in Asked, active \in BOOLEAN : Change(q, id, asked, active)
      BY <2>3
    <2>5. q = r
      <3>1. ASSUME q # r, Acknowledge(q)
            PROVE  desk'[r] = desk[r]
        BY SMTT(60), <3>1 DEF Acknowledge
      <3>2. ASSUME q # r, ~Acknowledge(q)
            PROVE  desk'[r] = desk[r]
        BY <2>1, <2>4, <3>2 DEF Arrives, LoadAccess, StoreAccess, CheckOthers, SaveAssignment, Grant, Change
      <3> QED
        BY <3>1, <3>2
    <2> QED
      BY <2>4, <2>5 DEF Arrives, LoadAccess, StoreAccess, CheckOthers, Grant, Change, Acknowledge
  <1>2. assigned' = [assigned EXCEPT ![job.id] = job.new] /\ job.id \in AssignmentId
    <2>1. desk'[r] # NoRequest
      BY DEF NoRequest
    <2> QED
      BY <1>0, <1>1, <2>1, Types DEF SaveAssignment, Turns, Served
  <1>3. ~Admins(job.new)
    BY <1>2 DEF CompanyAdmins, Admins, AccessIInv, StaffTypeOK
  <1>4. \A id \in AssignmentId \ {job.id} : id \notin CompanyAdmins
    BY <1>2 DEF CompanyAdmins, AccessIInv, StaffTypeOK
  <1>5. CASE job.was = assigned[job.id]
    <2>1. Admins(job.was)
      BY <1>2, <1>4, <1>5 DEF CompanyAdmins, Admins
    <2>2. job.others # {} /\ job.id \notin job.others /\ job.others \subseteq AssignmentId
      BY <1>0, <1>3, <2>1 DEF CountsOnAnother, NeedsCheck, RequestState
    <2> QED
      BY <1>4, <2>2
  <1> QED
    BY <1>5

\* However many edits overlap, the last active Company Admin goes only by a save that
\* overwrites a record changed since, or that counted on an admin who has gone since.
THEOREM LastAdminTheorem == StaffSpec => LastAdminStays
  <1>1. StaffInit => LastAdminIInv
    BY DEF StaffInit, LastAdminIInv, CountsOnAnother, NoRequest
  <1>2. AccessIInv /\ LastAdminIInv /\ [StaffNext]_staffVars =>
           [\A r \in ConsoleRequest :
              desk[r].at = "save" /\ desk'[r].at = "ack" /\ CompanyAdmins # {} /\ CompanyAdmins' = {} =>
                  \/ desk[r].was # assigned[desk[r].id]
                  \/ desk[r].others # {} /\ desk[r].others \cap CompanyAdmins = {}]_staffVars
    BY LastAdminStep
  <1> QED
    BY <1>1, <1>2, AccessInit, AccessNext, CountingNext, PTL DEF StaffSpec, LastAdminStays

HIDE StaffAssumption

-----------------------------------------------------------------------------
(***************************************************************************)
(* Customer accounts (Accounts)                                            *)
(***************************************************************************)

\* Every guess that was refused was counted.
Contact == {a \in [verified : BOOLEAN, password : {"none", "random", "registered", "chosen"},
                   code : {"none", "sent", "used"}, wrong : Nat, refused : Nat, links : SUBSET {"setup", "magic"}] :
               a.refused = a.wrong}

Beginning == {"nothing", "register", "autoRegister"}
OnAccount == {"password", "randomPassword", "code", "claim", "count", "verify", "bookNew", "bookKnown",
              "decide", "setup", "magic", "reset"}
Visit == [doing : Beginning \cup OnAccount, account : Nat, verified : BOOLEAN]

AccountTypes ==
    /\ accounts \in Seq(Contact)
    /\ visits \in [Visitor -> Visit]
    /\ \A v \in Visitor : visits[v].doing \in OnAccount => visits[v].account \in 1..Len(accounts)

\* An account is created by one request, and by that one gets its first password
\* and its code.
Registering(visit) == visit.doing \in {"password", "randomPassword", "code"}
OneRegistrant ==
    \A v, w \in Visitor :
        Registering(visits[v]) /\ Registering(visits[w]) /\ visits[v].account = visits[w].account => v = w

\* What a visit may rely on, of an account a; late: its owner's password was replaced
Mine(a, late) == a.password = "chosen" \/ late
HasOwnPassword(a, late) == a.password \in {"registered", "chosen"} \/ late
Relied(visit, a, late) ==
    /\ visit.doing \in {"password", "randomPassword"} => a.password \in {"none", "chosen"}
    /\ visit.doing = "password" /\ a.verified => Mine(a, late)
    /\ visit.doing \in {"password", "code"} => a.code = "none"
    /\ visit.doing = "claim" => a.code # "none"
    /\ visit.doing = "verify" => a.code = "used" \/ Mine(a, late)
    /\ visit.doing = "decide" => visit.verified
    /\ visit.doing \in {"bookKnown", "decide"} /\ visit.verified => a.verified
    /\ visit.doing = "magic" => a.verified /\ HasOwnPassword(a, late)

Proved(a, late) ==
    /\ "magic" \in a.links => a.verified /\ HasOwnPassword(a, late)
    /\ a.verified /\ a.password = "registered" => a.code = "used" \/ late

ProofIInv ==
    /\ AccountTypes
    /\ OneRegistrant
    /\ \A v \in Visitor :
          visits[v].doing \in OnAccount => Relied(visits[v], accounts[visits[v].account], visits[v].account \in overtaken)
    /\ \A k \in 1..Len(accounts) : Proved(accounts[k], k \in overtaken)

USE AccountsAssumption

-----------------------------------------------------------------------------
(* Requests                                                                *)

\* How a visit goes on, ends, and begins
LEMMA Visits ==
    ASSUME ProofIInv, NEW v \in Visitor
    PROVE  /\ \A doing \in OnAccount : GoesOn(v, doing) =>
                 /\ visits' \in [Visitor -> Visit] /\ \A u \in Visitor \ {v} : visits'[u] = visits[u]
                 /\ visits'[v].doing = doing /\ visits'[v].account = visits[v].account
                 /\ visits'[v].verified = visits[v].verified
           /\ Leaves(v) =>
                 /\ visits' \in [Visitor -> Visit] /\ \A u \in Visitor \ {v} : visits'[u] = visits[u]
                 /\ visits'[v].doing = "nothing"
           /\ \A doing \in Beginning \cup OnAccount, k \in 0..Len(accounts) : Begins(v, doing, k) =>
                 /\ visits' \in [Visitor -> Visit] /\ \A u \in Visitor \ {v} : visits'[u] = visits[u]
                 /\ visits'[v].doing = doing /\ visits'[v].account = k
                 /\ visits'[v].verified = (k # 0 /\ accounts[k].verified)
                 /\ visits[v] = NoVisit
  <1>1. visits \in [Visitor -> Visit] /\ accounts \in Seq(Contact)
    BY DEF ProofIInv, AccountTypes
  <1>2. ASSUME NEW doing \in OnAccount, GoesOn(v, doing)
        PROVE  /\ visits' \in [Visitor -> Visit] /\ \A u \in Visitor \ {v} : visits'[u] = visits[u]
               /\ visits'[v].doing = doing /\ visits'[v].account = visits[v].account
               /\ visits'[v].verified = visits[v].verified
    BY <1>1, <1>2 DEF GoesOn, Visit
  <1>3. ASSUME Leaves(v)
        PROVE  /\ visits' \in [Visitor -> Visit] /\ \A u \in Visitor \ {v} : visits'[u] = visits[u]
               /\ visits'[v].doing = "nothing"
    BY <1>1, <1>3 DEF Leaves, NoVisit, Visit, Beginning
  <1>4. ASSUME NEW doing \in Beginning \cup OnAccount, NEW k \in 0..Len(accounts), Begins(v, doing, k)
        PROVE  /\ visits' \in [Visitor -> Visit] /\ \A u \in Visitor \ {v} : visits'[u] = visits[u]
               /\ visits'[v].doing = doing /\ visits'[v].account = k
               /\ visits'[v].verified = (k # 0 /\ accounts[k].verified)
               /\ visits[v] = NoVisit
    <2> DEFINE visit == [doing |-> doing, account |-> k, verified |-> k # 0 /\ accounts[k].verified]
    <2>1. visit \in Visit
      BY <1>1 DEF Visit
    <2>2. visits' = [visits EXCEPT ![v] = visit] /\ visits[v] = NoVisit
      BY <1>4 DEF Begins
    <2> QED
      BY <1>1, <2>1, <2>2
  <1> QED
    BY <1>2, <1>3, <1>4

\* A visit v changes the account k to a.
LEMMA SetKeeps ==
    ASSUME ProofIInv, NEW v \in Visitor, NEW k \in 1..Len(accounts), NEW a \in Contact,
           accounts' = [accounts EXCEPT ![k] = a],
           overtaken' = overtaken \/ overtaken' = overtaken \cup {k},
           visits' \in [Visitor -> Visit], \A u \in Visitor \ {v} : visits'[u] = visits[u],
           visits'[v].doing \in OnAccount => visits'[v].account = k,
           Registering(visits'[v]) => Registering(visits[v]) /\ visits[v].account = k,
           Proved(a, k \in overtaken'),
           visits'[v].doing \in OnAccount => Relied(visits'[v], a, k \in overtaken'),
           \A u \in Visitor \ {v} :
              visits[u].doing \in OnAccount /\ visits[u].account = k => Relied(visits[u], a, k \in overtaken')
    PROVE  ProofIInv'
  <1>1. accounts \in Seq(Contact)
    BY DEF ProofIInv, AccountTypes
  <1>2. /\ accounts' \in Seq(Contact) /\ Len(accounts') = Len(accounts)
        /\ \A j \in 1..Len(accounts) : accounts'[j] = IF j = k THEN a ELSE accounts[j]
    BY <1>1, ExceptSeq
  <1>3. \A j \in 1..Len(accounts) : j # k => (j \in overtaken' <=> j \in overtaken)
    OBVIOUS
  <1>4. AccountTypes'
    BY <1>2 DEF ProofIInv, AccountTypes
  <1>5. OneRegistrant'
    <2>1. Registering(visits'[v]) => visits'[v].account = k /\ visits[v].account = k /\ Registering(visits[v])
      BY DEF Registering, OnAccount
    <2>2. ASSUME NEW u \in Visitor, NEW w \in Visitor, Registering(visits'[u]), Registering(visits'[w]),
                 visits'[u].account = visits'[w].account
          PROVE  u = w
      <3>1. \A q \in {u, w} : Registering(visits[q]) /\ visits[q].account = visits'[q].account
        BY <2>1, <2>2
      <3> QED
        BY <2>2, <3>1 DEF ProofIInv, OneRegistrant
    <2> QED
      BY <2>2 DEF OneRegistrant, Registering
  <1>6. ASSUME NEW u \in Visitor, visits'[u].doing \in OnAccount
        PROVE  Relied(visits'[u], accounts'[visits'[u].account], visits'[u].account \in overtaken')
    <2>1. CASE u = v
      BY <1>2, <1>6, <2>1
    <2>2. CASE u # v /\ visits[u].account = k
      BY <1>2, <1>6, <2>2
    <2>3. CASE u # v /\ visits[u].account # k
      <3>1. visits[u].account \in 1..Len(accounts)
        BY <1>6, <2>3 DEF ProofIInv, AccountTypes
      <3> QED
        BY <1>2, <1>3, <1>6, <2>3, <3>1 DEF ProofIInv
    <2> QED
      BY <2>1, <2>2, <2>3
  <1>7. ASSUME NEW j \in 1..Len(accounts)
        PROVE  Proved(accounts'[j], j \in overtaken')
    BY <1>2, <1>3 DEF ProofIInv
  <1>8. (\A u \in Visitor :
          visits[u].doing \in OnAccount => Relied(visits[u], accounts[visits[u].account], visits[u].account \in overtaken))'
    BY <1>6 DEF Relied, Mine, HasOwnPassword
  <1>9. (\A j \in 1..Len(accounts) : Proved(accounts[j], j \in overtaken))'
    BY <1>2, <1>7 DEF Proved, HasOwnPassword
  <1> QED
    BY <1>4, <1>5, <1>8, <1>9 DEF ProofIInv

\* A visit goes on, and every account stays as it is.
LEMMA VisitKeeps ==
    ASSUME ProofIInv, NEW v \in Visitor, UNCHANGED <<accounts, overtaken>>,
           visits' \in [Visitor -> Visit], \A u \in Visitor \ {v} : visits'[u] = visits[u],
           ~Registering(visits'[v]),
           visits'[v].doing \in OnAccount =>
              /\ visits'[v].account \in 1..Len(accounts)
              /\ Relied(visits'[v], accounts[visits'[v].account], visits'[v].account \in overtaken)
    PROVE  ProofIInv'
  <1>1. AccountTypes' /\ OneRegistrant'
    BY DEF ProofIInv, AccountTypes, OneRegistrant, Registering
  <1>2. ASSUME NEW u \in Visitor, visits'[u].doing \in OnAccount
        PROVE  Relied(visits'[u], accounts[visits'[u].account], visits'[u].account \in overtaken)
    BY <1>2 DEF ProofIInv
  <1>3. (\A u \in Visitor :
          visits[u].doing \in OnAccount => Relied(visits[u], accounts[visits[u].account], visits[u].account \in overtaken))'
    BY <1>2 DEF Relied, Mine, HasOwnPassword
  <1>4. (\A j \in 1..Len(accounts) : Proved(accounts[j], j \in overtaken))'
    BY DEF ProofIInv, Proved, HasOwnPassword
  <1> QED
    BY <1>1, <1>3, <1>4 DEF ProofIInv

\* What is known of a visit of an account
LEMMA Knows ==
    ASSUME ProofIInv, NEW v \in Visitor, visits[v].doing \in OnAccount
    PROVE  /\ visits[v].account \in 1..Len(accounts) /\ Of(v) \in Contact /\ DOMAIN accounts = 1..Len(accounts)
           /\ Relied(visits[v], Of(v), visits[v].account \in overtaken)
           /\ Proved(Of(v), visits[v].account \in overtaken)
           /\ \A u \in Visitor : visits[u].doing \in OnAccount /\ visits[u].account = visits[v].account =>
                 Relied(visits[u], Of(v), visits[v].account \in overtaken)
           /\ \A u \in Visitor \ {v} : Registering(visits[v]) /\ visits[u].account = visits[v].account => ~Registering(visits[u])
  <1>1. accounts \in Seq(Contact) /\ visits[v].account \in 1..Len(accounts)
    BY DEF ProofIInv, AccountTypes
  <1> QED
    BY <1>1, ElementOfSeq, LenProperties DEF ProofIInv, OneRegistrant, Of

-----------------------------------------------------------------------------
(* The steps                                                               *)

LEMMA BeginKeeps ==
    ASSUME ProofIInv, NEW v \in Visitor, Register(v) \/ BookPublicly(v) \/ ForgotPassword(v)
    PROVE  ProofIInv'
  <1>1. accounts \in Seq(Contact) /\ DOMAIN accounts = 1..Len(accounts)
    BY LenProperties DEF ProofIInv, AccountTypes
  <1>2. UNCHANGED <<accounts, overtaken>>
    BY DEF Register, BookPublicly, ForgotPassword
  <1>3. CASE Begins(v, "register", 0) \/ Begins(v, "autoRegister", 0)
    <2>1. 0 \in 0..Len(accounts)
      BY <1>1, LenProperties
    <2> QED
      BY <1>2, <1>3, <2>1, Visits, VisitKeeps DEF Beginning, OnAccount, Registering
  <1>4. ASSUME NEW k \in DOMAIN accounts, Begins(v, "bookKnown", k) \/ Begins(v, "setup", k)
        PROVE  ProofIInv'
    <2>1. k \in 1..Len(accounts) /\ k \in 0..Len(accounts) /\ k # 0
      BY <1>1
    <2>2. PICK doing \in {"bookKnown", "setup"} : Begins(v, doing, k)
      BY <1>4
    <2>3. doing \in Beginning \cup OnAccount
      BY DEF OnAccount
    <2>4. /\ visits' \in [Visitor -> Visit] /\ \A u \in Visitor \ {v} : visits'[u] = visits[u]
          /\ visits'[v].doing = doing /\ visits'[v].account = k
          /\ visits'[v].verified => accounts[k].verified
      BY <2>1, <2>2, <2>3, Visits
    <2>5. ~Registering(visits'[v]) /\ Relied(visits'[v], accounts[k], k \in overtaken)
      BY <2>4 DEF Registering, Relied
    <2> QED
      BY <1>2, <2>1, <2>4, <2>5, VisitKeeps
  <1> QED
    BY <1>3, <1>4 DEF Register, BookPublicly, ForgotPassword

LEMMA SaveContactKeeps ==
    ASSUME ProofIInv, NEW v \in Visitor, SaveContact(v)
    PROVE  ProofIInv'
  <1> DEFINE k == Len(accounts) + 1
  <1> DEFINE a == NewContact(visits[v].doing = "autoRegister")
  <1> DEFINE doing == IF visits[v].doing = "register" THEN "password" ELSE "randomPassword"
  <1>1. accounts \in Seq(Contact) /\ visits \in [Visitor -> Visit] /\ Len(accounts) \in Nat
    BY LenProperties DEF ProofIInv, AccountTypes
  <1>2. a \in Contact
    BY DEF NewContact, Contact
  <1>3. /\ accounts' \in Seq(Contact) /\ Len(accounts') = k
        /\ \A j \in 1..Len(accounts) : accounts'[j] = accounts[j]
        /\ accounts'[k] = a
    <2>1. accounts' = Append(accounts, a)
      BY DEF SaveContact
    <2> HIDE DEF a
    <2> QED
      BY <1>1, <1>2, <2>1, AppendProperties
  <1>4. /\ visits' \in [Visitor -> Visit] /\ \A u \in Visitor \ {v} : visits'[u] = visits[u]
        /\ visits'[v].doing = doing /\ visits'[v].account = k
    BY <1>1 DEF SaveContact, Visit, OnAccount
  <1>5. overtaken' = overtaken
    BY DEF SaveContact
  <1>6. \A u \in Visitor \ {v} : visits[u].doing \in OnAccount => visits[u].account \in 1..Len(accounts) /\ visits[u].account # k
    BY <1>1 DEF ProofIInv, AccountTypes
  <1>7. Relied(visits'[v], a, k \in overtaken) /\ Proved(a, k \in overtaken)
    <2>1. a.verified = (visits[v].doing = "autoRegister") /\ a.password = "none" /\ a.code = "none" /\ a.links = {}
      BY DEF NewContact
    <2> HIDE DEF a
    <2>2. doing = "password" => visits[v].doing = "register"
      OBVIOUS
    <2> QED
      BY <1>4, <2>1, <2>2 DEF Relied, Proved, HasOwnPassword
  <1> HIDE DEF a, doing
  <1>8. AccountTypes'
    BY <1>1, <1>3, <1>4, <1>6 DEF AccountTypes
  <1>9. OneRegistrant'
    BY <1>4, <1>6 DEF ProofIInv, OneRegistrant, Registering, OnAccount
  <1>10. ASSUME NEW u \in Visitor, visits'[u].doing \in OnAccount
         PROVE  Relied(visits'[u], accounts'[visits'[u].account], visits'[u].account \in overtaken')
    <2>1. CASE u = v
      BY <1>3, <1>4, <1>5, <1>7, <2>1
    <2>2. CASE u # v
      BY <1>3, <1>4, <1>5, <1>6, <1>10, <2>2 DEF ProofIInv
    <2> QED
      BY <2>1, <2>2
  <1>11. ASSUME NEW j \in 1..k
         PROVE  Proved(accounts'[j], j \in overtaken')
    <2>1. CASE j = k
      BY <1>3, <1>5, <1>7, <2>1
    <2>2. CASE j # k
      <3>1. j \in 1..Len(accounts)
        BY <1>1, <2>2
      <3> QED
        BY <1>3, <1>5, <3>1 DEF ProofIInv
    <2> QED
      BY <2>1, <2>2
  <1>12. (\A u \in Visitor :
          visits[u].doing \in OnAccount => Relied(visits[u], accounts[visits[u].account], visits[u].account \in overtaken))'
    BY <1>10 DEF Relied, Mine, HasOwnPassword
  <1>13. (\A j \in 1..Len(accounts) : Proved(accounts[j], j \in overtaken))'
    BY <1>3, <1>11 DEF Proved, HasOwnPassword
  <1> QED
    BY <1>8, <1>9, <1>12, <1>13 DEF ProofIInv

LEMMA SaveCredentialsKeeps ==
    ASSUME ProofIInv, NEW v \in Visitor, SaveCredentials(v)
    PROVE  ProofIInv'
  <1> DEFINE k == visits[v].account
  <1> DEFINE mine == visits[v].doing = "password"
  <1> DEFINE a == [Of(v) EXCEPT !.password = IF mine THEN "registered" ELSE "random"]
  <1>1. visits[v].doing \in {"password", "randomPassword"} /\ visits[v].doing \in OnAccount
    BY DEF SaveCredentials, OnAccount
  <1>2. /\ a \in Contact
        /\ a.password = (IF mine THEN "registered" ELSE "random")
        /\ a.verified = Of(v).verified /\ a.code = Of(v).code /\ a.links = Of(v).links
    BY <1>1, Knows DEF Contact
  <1>3. accounts' = [accounts EXCEPT ![k] = a]
    BY DEF SaveCredentials, Sets
  <1>4. /\ visits' \in [Visitor -> Visit] /\ \A u \in Visitor \ {v} : visits'[u] = visits[u]
        /\ visits'[v].doing = (IF mine THEN "code" ELSE "bookNew") /\ visits'[v].account = k
    <2>1. (IF mine THEN "code" ELSE "bookNew") \in OnAccount
      BY DEF OnAccount
    <2> QED
      BY <2>1, Visits DEF SaveCredentials
  <1>5. /\ overtaken' = overtaken \/ overtaken' = overtaken \cup {k}
        /\ k \in overtaken' <=> k \in overtaken \/ Of(v).password = "chosen"
    BY DEF SaveCredentials
  <1> HIDE DEF a
  <1>6. Of(v).password \in {"none", "chosen"} /\ (mine /\ Of(v).verified => k \in overtaken') /\ (mine => Of(v).code = "none")
    BY <1>1, <1>5, Knows DEF Relied, Mine
  <1>7. Proved(a, k \in overtaken')
    BY <1>1, <1>2, <1>5, <1>6, Knows DEF Proved, HasOwnPassword
  <1>8. Relied(visits'[v], a, k \in overtaken')
    BY <1>2, <1>4, <1>6 DEF Relied
  <1>9. ASSUME NEW u \in Visitor \ {v}, visits[u].doing \in OnAccount, visits[u].account = k
        PROVE  Relied(visits[u], a, k \in overtaken')
    <2>1. ~Registering(visits[u]) /\ Relied(visits[u], Of(v), k \in overtaken)
      BY <1>1, <1>9, Knows DEF Registering
    <2> QED
      BY <1>2, <1>5, <1>6, <2>1 DEF Relied, Registering, Mine, HasOwnPassword
  <1>10. Registering(visits[v]) /\ k \in 1..Len(accounts)
    BY <1>1, Knows DEF Registering
  <1> QED
    BY <1>2, <1>3, <1>4, <1>5, <1>7, <1>8, <1>9, <1>10, SetKeeps

LEMMA IssueOtpKeeps ==
    ASSUME ProofIInv, NEW v \in Visitor, IssueOtp(v)
    PROVE  ProofIInv'
  <1> DEFINE k == visits[v].account
  <1> DEFINE a == [Of(v) EXCEPT !.code = "sent"]
  <1>1. visits[v].doing = "code" /\ visits[v].doing \in OnAccount
    BY DEF IssueOtp, OnAccount
  <1>2. /\ a \in Contact /\ a.code = "sent"
        /\ a.verified = Of(v).verified /\ a.password = Of(v).password /\ a.links = Of(v).links
    BY <1>1, Knows DEF Contact
  <1>3. accounts' = [accounts EXCEPT ![k] = a] /\ overtaken' = overtaken
    BY DEF IssueOtp, Sets
  <1>4. /\ visits' \in [Visitor -> Visit] /\ \A u \in Visitor \ {v} : visits'[u] = visits[u]
        /\ visits'[v].doing = "nothing"
    BY Visits DEF IssueOtp
  <1> HIDE DEF a
  <1>5. Of(v).code = "none"
    BY <1>1, Knows DEF Relied
  <1>6. Proved(a, k \in overtaken)
    BY <1>1, <1>2, <1>5, Knows DEF Proved, HasOwnPassword
  <1>7. ASSUME NEW u \in Visitor \ {v}, visits[u].doing \in OnAccount, visits[u].account = k
        PROVE  Relied(visits[u], a, k \in overtaken)
    <2>1. ~Registering(visits[u]) /\ Relied(visits[u], Of(v), k \in overtaken)
      BY <1>1, <1>7, Knows DEF Registering
    <2> QED
      BY <1>2, <1>5, <2>1 DEF Relied, Registering, Mine, HasOwnPassword
  <1>8. k \in 1..Len(accounts) /\ visits'[v].doing \notin OnAccount /\ ~Registering(visits'[v])
    BY <1>1, <1>4, Knows DEF Registering, OnAccount
  <1> QED
    BY <1>2, <1>3, <1>4, <1>6, <1>7, <1>8, SetKeeps

\* Steps that change an account for the better: what others rely on stays so.
Improves(a, b) ==
    /\ a.verified => b.verified
    /\ b.password = a.password \/ b.password = "chosen"
    /\ b.code = a.code \/ (b.code = "used" /\ a.code # "none")

LEMMA ImprovedIsRelied ==
    ASSUME NEW a, NEW b, Improves(a, b), NEW late, NEW visit, Relied(visit, a, late), visit.doing = "password" => b.verified = a.verified \/ Mine(b, late)
    PROVE  Relied(visit, b, late)
  BY DEF Relied, Improves, Mine, HasOwnPassword

\* Counting a guess leaves the rest of the account as it was.
LEMMA GuessIsCounted ==
    ASSUME NEW a \in Contact, NEW b, b = [Attempted(a) EXCEPT !.refused = @ + 1]
    PROVE  /\ b \in Contact /\ b.wrong = a.wrong + 1
           /\ b.verified = a.verified /\ b.password = a.password /\ b.code = a.code /\ b.links = a.links
  <1> DEFINE c == Attempted(a)
  <1>1. c = [verified |-> a.verified, password |-> a.password, code |-> a.code,
             wrong |-> a.wrong + 1, refused |-> a.refused, links |-> a.links]
    BY DEF Attempted, Contact
  <1>2. b = [c EXCEPT !.refused = @ + 1]
    OBVIOUS
  <1> HIDE DEF c
  <1>3. b = [verified |-> a.verified, password |-> a.password, code |-> a.code,
             wrong |-> a.wrong + 1, refused |-> a.refused + 1, links |-> a.links]
    BY <1>1, <1>2
  <1>4. /\ a.verified \in BOOLEAN /\ a.password \in {"none", "random", "registered", "chosen"}
        /\ a.code \in {"none", "sent", "used"} /\ a.wrong \in Nat /\ a.refused = a.wrong
        /\ a.links \in SUBSET {"setup", "magic"}
    BY DEF Contact
  <1>5. b \in Contact
    <2> DEFINE d == [verified |-> a.verified, password |-> a.password, code |-> a.code,
                     wrong |-> a.wrong + 1, refused |-> a.refused + 1, links |-> a.links]
    <2>1. d \in Contact
      BY <1>4 DEF Contact
    <2>2. b = d
      BY <1>3
    <2> QED
      BY <2>1, <2>2
  <1> QED
    BY <1>3, <1>5

\* Using up a link leaves the rest of the account as it was.
LEMMA UsedLinkOnly ==
    ASSUME NEW a \in Contact, NEW x
    PROVE  [a EXCEPT !.links = @ \ {x}] \in Contact /\ [a EXCEPT !.links = @ \ {x}].wrong = a.wrong
  <1> DEFINE b == [a EXCEPT !.links = @ \ {x}]
             d == [verified |-> a.verified, password |-> a.password, code |-> a.code,
                   wrong |-> a.wrong, refused |-> a.refused, links |-> a.links \ {x}]
  <1>1. /\ a.verified \in BOOLEAN /\ a.password \in {"none", "random", "registered", "chosen"}
        /\ a.code \in {"none", "sent", "used"} /\ a.wrong \in Nat /\ a.refused = a.wrong
        /\ a.links \in SUBSET {"setup", "magic"}
    BY DEF Contact
  <1>2. a.links \ {x} \in SUBSET {"setup", "magic"}
    BY <1>1
  <1>3. d \in Contact
    BY <1>1, <1>2 DEF Contact
  <1>4. b = d
    BY DEF Contact
  <1> QED
    BY <1>3, <1>4

LEMMA CodeKeeps ==
    ASSUME ProofIInv, NEW v \in Visitor, ClaimCode(v) \/ CountGuess(v)
    PROVE  ProofIInv'
  <1> DEFINE k == visits[v].account
  <1>1. visits[v].doing \in {"claim", "count"} /\ visits[v].doing \in OnAccount
    BY DEF ClaimCode, CountGuess, OnAccount
  <1>2. PICK a : /\ accounts' = [accounts EXCEPT ![k] = a]
                 /\ \/ ClaimCode(v) /\ a = [Of(v) EXCEPT !.code = "used"]
                    \/ CountGuess(v) /\ a = [Attempted(Of(v)) EXCEPT !.refused = @ + 1]
    <2>1. CASE ClaimCode(v)
      <3> DEFINE b == [Of(v) EXCEPT !.code = "used"]
      <3>1. accounts' = [accounts EXCEPT ![k] = b]
        BY <2>1 DEF ClaimCode, Sets
      <3>2. b = [Of(v) EXCEPT !.code = "used"]
        OBVIOUS
      <3> HIDE DEF b
      <3> QED
        BY <2>1, <3>1, <3>2
    <2>2. CASE CountGuess(v)
      <3> DEFINE b == [Attempted(Of(v)) EXCEPT !.refused = @ + 1]
      <3>1. accounts' = [accounts EXCEPT ![k] = b]
        BY <2>2 DEF CountGuess, Sets
      <3>2. b = [Attempted(Of(v)) EXCEPT !.refused = @ + 1]
        OBVIOUS
      <3> HIDE DEF b
      <3> QED
        BY <2>2, <3>1, <3>2
    <2> QED
      BY <2>1, <2>2
  <1>3. /\ a \in Contact /\ a.verified = Of(v).verified /\ a.password = Of(v).password /\ a.links = Of(v).links
        /\ \/ ClaimCode(v) /\ a.code = "used"
           \/ CountGuess(v) /\ a.code = Of(v).code
    <2>1. CASE ClaimCode(v) /\ a = [Of(v) EXCEPT !.code = "used"]
      BY <1>1, <2>1, Knows DEF Contact
    <2>2. CASE CountGuess(v) /\ a = [Attempted(Of(v)) EXCEPT !.refused = @ + 1]
      BY <1>1, <2>2, Knows, GuessIsCounted
    <2> QED
      BY <1>2, <2>1, <2>2
  <1>4. overtaken' = overtaken /\ k \in 1..Len(accounts)
    BY <1>1, Knows DEF ClaimCode, CountGuess
  <1>5. /\ visits' \in [Visitor -> Visit] /\ \A u \in Visitor \ {v} : visits'[u] = visits[u]
        /\ visits'[v].doing = "nothing" \/ (visits'[v].doing = "verify" /\ visits'[v].account = k /\ ClaimCode(v))
    BY Visits DEF ClaimCode, CountGuess, OnAccount
  <1>6. Improves(Of(v), a)
    <2>1. ClaimCode(v) => Of(v).code # "none"
      BY <1>1, Knows DEF ClaimCode, Relied
    <2> QED
      BY <1>3, <2>1 DEF Improves
  <1>7. Proved(a, k \in overtaken)
    BY <1>1, <1>3, Knows DEF Proved, HasOwnPassword
  <1>8. visits'[v].doing \in OnAccount => Relied(visits'[v], a, k \in overtaken) /\ visits'[v].account = k
    <2>1. ASSUME visits'[v].doing = "verify", a.code = "used"
          PROVE  Relied(visits'[v], a, k \in overtaken)
      BY <2>1 DEF Relied
    <2>2. visits'[v].doing = "verify" => a.code = "used"
      BY <1>1, <1>3, <1>5 DEF ClaimCode, CountGuess
    <2> QED
      BY <1>5, <2>1, <2>2 DEF OnAccount
  <1>9. ASSUME NEW u \in Visitor \ {v}, visits[u].doing \in OnAccount, visits[u].account = k
        PROVE  Relied(visits[u], a, k \in overtaken)
    BY <1>1, <1>3, <1>6, <1>9, Knows, ImprovedIsRelied
  <1>10. ~Registering(visits'[v])
    BY <1>5 DEF Registering
  <1> QED
    BY <1>2, <1>3, <1>4, <1>5, <1>7, <1>8, <1>9, <1>10, SetKeeps

LEMMA EnterCodeKeeps ==
    ASSUME ProofIInv, NEW v \in Visitor, NEW k \in DOMAIN accounts, NEW right \in BOOLEAN, EnterCode(v, k, right)
    PROVE  ProofIInv'
  <1>1. k \in 1..Len(accounts) /\ k \in 0..Len(accounts)
    BY LenProperties DEF ProofIInv, AccountTypes
  <1>2. /\ visits' \in [Visitor -> Visit] /\ \A u \in Visitor \ {v} : visits'[u] = visits[u]
        /\ visits'[v].doing \in {"claim", "count"} /\ visits'[v].account = k
    <2>1. (IF right THEN "claim" ELSE "count") \in OnAccount
      BY DEF OnAccount
    <2> QED
      BY <1>1, <2>1, Visits DEF EnterCode
  <1>3. ~Registering(visits'[v]) /\ Relied(visits'[v], accounts[k], k \in overtaken)
    BY <1>2 DEF Registering, Relied, EnterCode, Candidate
  <1> QED
    BY <1>1, <1>2, <1>3, VisitKeeps DEF EnterCode

LEMMA BookedKeeps ==
    ASSUME ProofIInv, NEW v \in Visitor, Booked(v) \/ Decide(v) \/ Abandon(v)
    PROVE  ProofIInv'
  <1> DEFINE k == visits[v].account
  <1>0. UNCHANGED <<accounts, overtaken>>
    BY DEF Booked, Decide, Abandon
  <1>1. CASE Abandon(v)
    <2>1. /\ visits' \in [Visitor -> Visit] /\ \A u \in Visitor \ {v} : visits'[u] = visits[u]
          /\ visits'[v].doing = "nothing"
      BY <1>1, Visits DEF Abandon
    <2> QED
      BY <1>0, <2>1, VisitKeeps DEF Registering, OnAccount
  <1>2. CASE Booked(v) \/ Decide(v)
    <2>1. PICK doing \in {"setup", "decide", "magic"} :
             /\ GoesOn(v, doing)
             /\ doing = "decide" => visits[v].doing = "bookKnown" /\ visits[v].verified
             /\ doing = "magic" => visits[v].doing = "decide" /\ ~NeedsPasswordSetup(Of(v))
      <3>1. CASE Booked(v)
        BY <3>1, Knows DEF Booked, AfterBooking
      <3>2. CASE Decide(v)
        BY <3>2 DEF Decide
      <3> QED
        BY <1>2, <3>1, <3>2
    <2>2. visits[v].doing \in OnAccount /\ doing \in OnAccount
      BY <1>2 DEF Booked, Decide, OnAccount
    <2>3. /\ visits' \in [Visitor -> Visit] /\ \A u \in Visitor \ {v} : visits'[u] = visits[u]
          /\ visits'[v].doing = doing /\ visits'[v].account = k /\ visits'[v].verified = visits[v].verified
      BY <2>1, <2>2, Visits
    <2>4. Of(v) \in Contact /\ Relied(visits[v], Of(v), k \in overtaken) /\ k \in 1..Len(accounts)
      BY <2>2, Knows
    <2>5. Relied(visits'[v], Of(v), k \in overtaken)
      BY <2>1, <2>3, <2>4 DEF Relied, NeedsPasswordSetup, HasOwnPassword, Contact
    <2>6. ~Registering(visits'[v])
      BY <2>3 DEF Registering
    <2> QED
      BY <1>0, <2>3, <2>4, <2>5, <2>6, VisitKeeps DEF Of
  <1> QED
    BY <1>1, <1>2

LEMMA ResetKeeps ==
    ASSUME ProofIInv, NEW v \in Visitor, NEW k \in DOMAIN accounts, ResetPassword(v, k)
    PROVE  ProofIInv'
  <1> DEFINE a == [accounts[k] EXCEPT !.links = @ \ {"setup"}]
  <1>1. k \in 1..Len(accounts) /\ k \in 0..Len(accounts) /\ accounts[k] \in Contact
    BY LenProperties, ElementOfSeq DEF ProofIInv, AccountTypes
  <1>2. /\ a \in Contact /\ a.verified = accounts[k].verified /\ a.password = accounts[k].password
        /\ a.code = accounts[k].code /\ a.links \subseteq accounts[k].links
    BY <1>1 DEF Contact
  <1>3. accounts' = [accounts EXCEPT ![k] = a] /\ overtaken' = overtaken
    BY DEF ResetPassword
  <1>4. /\ visits' \in [Visitor -> Visit] /\ \A u \in Visitor \ {v} : visits'[u] = visits[u]
        /\ visits'[v].doing = "reset" /\ visits'[v].account = k
    BY ZenonT(60), <1>1, Visits DEF ResetPassword, OnAccount
  <1> HIDE DEF a
  <1>5. Proved(accounts[k], k \in overtaken)
    BY <1>1 DEF ProofIInv
  <1>6. Proved(a, k \in overtaken)
    BY <1>2, <1>5 DEF Proved, HasOwnPassword
  <1>7. ASSUME NEW u \in Visitor \ {v}, visits[u].doing \in OnAccount, visits[u].account = k
        PROVE  Relied(visits[u], a, k \in overtaken)
    <2>1. Relied(visits[u], accounts[k], k \in overtaken)
      BY <1>7 DEF ProofIInv
    <2> QED
      BY <1>2, <2>1, ImprovedIsRelied DEF Improves
  <1>8. Relied(visits'[v], a, k \in overtaken) /\ ~Registering(visits'[v])
    BY <1>4 DEF Relied, Registering
  <1> QED
    BY <1>1, <1>2, <1>3, <1>4, <1>6, <1>7, <1>8, SetKeeps

LEMMA MailKeeps ==
    ASSUME ProofIInv, NEW v \in Visitor, MailLinkTo(v) \/ SaveChosen(v) \/ Verify(v)
    PROVE  ProofIInv'
  <1> DEFINE k == visits[v].account
  <1>1. visits[v].doing \in {"setup", "magic", "reset", "verify"} /\ visits[v].doing \in OnAccount
    BY DEF MailLinkTo, SaveChosen, Verify, OnAccount
  <1>2. PICK a :
           /\ accounts' = [accounts EXCEPT ![k] = a]
           /\ \/ MailLinkTo(v) /\ a = [Of(v) EXCEPT !.links = @ \cup {visits[v].doing}]
              \/ SaveChosen(v) /\ a = [Of(v) EXCEPT !.password = "chosen"]
              \/ Verify(v) /\ a = [Of(v) EXCEPT !.verified = TRUE]
    BY DEF MailLinkTo, SaveChosen, Verify, Sets
  <1>3. Of(v) \in Contact /\ k \in 1..Len(accounts) /\ Relied(visits[v], Of(v), k \in overtaken) /\ Proved(Of(v), k \in overtaken)
    BY <1>1, Knows
  <1>4. /\ a \in Contact /\ a.code = Of(v).code
        /\ \/ /\ MailLinkTo(v) /\ a.verified = Of(v).verified /\ a.password = Of(v).password
              /\ a.links = Of(v).links \cup {visits[v].doing}
           \/ /\ SaveChosen(v) /\ a.verified = Of(v).verified /\ a.password = "chosen" /\ a.links = Of(v).links
           \/ /\ Verify(v) /\ a.verified /\ a.password = Of(v).password /\ a.links = Of(v).links
    <2>1. CASE MailLinkTo(v) /\ a = [Of(v) EXCEPT !.links = @ \cup {visits[v].doing}]
      <3>1. visits[v].doing \in {"setup", "magic"}
        BY <2>1 DEF MailLinkTo
      <3> QED
        BY <1>3, <2>1, <3>1 DEF Contact
    <2>2. CASE SaveChosen(v) /\ a = [Of(v) EXCEPT !.password = "chosen"]
      BY <1>3, <2>2 DEF Contact
    <2>3. CASE Verify(v) /\ a = [Of(v) EXCEPT !.verified = TRUE]
      BY <1>3, <2>3 DEF Contact
    <2> QED
      BY <1>2, <2>1, <2>2, <2>3
  <1>5. overtaken' = overtaken
    BY DEF MailLinkTo, SaveChosen, Verify
  <1>6. /\ visits' \in [Visitor -> Visit] /\ \A u \in Visitor \ {v} : visits'[u] = visits[u]
        /\ visits'[v].doing = "nothing" \/ (visits'[v].doing = "verify" /\ visits'[v].account = k /\ SaveChosen(v))
    BY Visits DEF MailLinkTo, SaveChosen, Verify, OnAccount
  <1>7. MailLinkTo(v) => ~SaveChosen(v) /\ ~Verify(v)
    BY DEF MailLinkTo, SaveChosen, Verify
  <1>8. SaveChosen(v) => ~Verify(v) /\ visits[v].doing = "reset"
    BY DEF SaveChosen, Verify
  <1>9. Verify(v) => Of(v).code = "used" \/ Mine(Of(v), k \in overtaken)
    BY <1>3 DEF Verify, Relied
  <1>10. MailLinkTo(v) /\ "magic" \in a.links => a.verified /\ HasOwnPassword(a, k \in overtaken)
    <2>1. MailLinkTo(v) /\ visits[v].doing = "magic" => Of(v).verified /\ HasOwnPassword(Of(v), k \in overtaken)
      BY <1>3 DEF Relied
    <2> QED
      BY <1>3, <1>4, <1>7, <2>1 DEF Proved, HasOwnPassword
  <1>11. Improves(Of(v), a)
    BY <1>4 DEF Improves
  <1>12. Proved(a, k \in overtaken)
    BY <1>3, <1>4, <1>9, <1>10 DEF Proved, HasOwnPassword, Mine
  <1>13. visits'[v].doing \in OnAccount => Relied(visits'[v], a, k \in overtaken) /\ visits'[v].account = k
    <2>1. ASSUME visits'[v].doing = "verify", Mine(a, k \in overtaken)
          PROVE  Relied(visits'[v], a, k \in overtaken)
      BY <2>1 DEF Relied
    <2>2. visits'[v].doing = "verify" => Mine(a, k \in overtaken)
      BY <1>4, <1>6, <1>7, <1>8 DEF Mine
    <2> QED
      BY <1>6, <2>1, <2>2 DEF OnAccount
  <1>14. ASSUME NEW u \in Visitor \ {v}, visits[u].doing \in OnAccount, visits[u].account = k
         PROVE  Relied(visits[u], a, k \in overtaken)
    <2>1. Relied(visits[u], Of(v), k \in overtaken)
      BY <1>1, <1>14, Knows
    <2>2. visits[u].doing = "password" => a.verified = Of(v).verified \/ Mine(a, k \in overtaken)
      BY <1>4, <1>9, <2>1 DEF Relied, Mine
    <2> QED
      BY <1>11, <2>1, <2>2, ImprovedIsRelied
  <1>15. ~Registering(visits'[v])
    BY <1>6 DEF Registering
  <1> QED
    BY <1>2, <1>3, <1>4, <1>5, <1>6, <1>12, <1>13, <1>14, <1>15, SetKeeps

LEMMA FollowKeeps ==
    ASSUME ProofIInv, NEW k \in DOMAIN accounts, FollowMagicLink(k)
    PROVE  ProofIInv'
  <1> DEFINE a == [accounts[k] EXCEPT !.links = @ \ {"magic"}]
  <1>1. accounts \in Seq(Contact) /\ k \in 1..Len(accounts) /\ accounts[k] \in Contact
    BY LenProperties, ElementOfSeq DEF ProofIInv, AccountTypes
  <1>2. /\ a \in Contact /\ a.verified = accounts[k].verified /\ a.password = accounts[k].password
        /\ a.code = accounts[k].code /\ a.links \subseteq accounts[k].links
    BY <1>1 DEF Contact
  <1>3. accounts' = [accounts EXCEPT ![k] = a] /\ overtaken' = overtaken /\ visits' = visits
    BY DEF FollowMagicLink
  <1> HIDE DEF a
  <1>4. /\ accounts' \in Seq(Contact) /\ Len(accounts') = Len(accounts)
        /\ \A j \in 1..Len(accounts) : accounts'[j] = IF j = k THEN a ELSE accounts[j]
    BY <1>1, <1>2, <1>3, ExceptSeq
  <1>5. AccountTypes' /\ OneRegistrant'
    BY <1>3, <1>4 DEF ProofIInv, AccountTypes, OneRegistrant, Registering
  <1>6. ASSUME NEW u \in Visitor, visits[u].doing \in OnAccount
        PROVE  Relied(visits[u], accounts'[visits[u].account], visits[u].account \in overtaken)
    <2>1. Relied(visits[u], accounts[visits[u].account], visits[u].account \in overtaken) /\ visits[u].account \in 1..Len(accounts)
      BY <1>6 DEF ProofIInv, AccountTypes
    <2>2. CASE visits[u].account = k
      BY <1>2, <1>4, <2>1, <2>2, ImprovedIsRelied DEF Improves
    <2> QED
      BY <1>4, <2>1, <2>2
  <1>7. ASSUME NEW j \in 1..Len(accounts)
        PROVE  Proved(accounts'[j], j \in overtaken)
    BY <1>2, <1>4 DEF ProofIInv, Proved, HasOwnPassword
  <1>8. (\A u \in Visitor :
          visits[u].doing \in OnAccount => Relied(visits[u], accounts[visits[u].account], visits[u].account \in overtaken))'
    BY <1>3, <1>6 DEF Relied, Mine, HasOwnPassword
  <1>9. (\A j \in 1..Len(accounts) : Proved(accounts[j], j \in overtaken))'
    BY <1>3, <1>4, <1>7 DEF Proved, HasOwnPassword
  <1> QED
    BY <1>5, <1>8, <1>9 DEF ProofIInv

LEMMA ProofInit == AccountsInit => ProofIInv
  <1> SUFFICES ASSUME AccountsInit
               PROVE  ProofIInv
    OBVIOUS
  <1>1. accounts \in Seq(Contact) /\ Len(accounts) = 0
    BY EmptySeq DEF AccountsInit
  <1>2. NoVisit \in Visit /\ NoVisit.doing = "nothing"
    BY DEF NoVisit, Visit, Beginning
  <1>3. visits \in [Visitor -> Visit] /\ \A v \in Visitor : visits[v].doing = "nothing"
    BY <1>2 DEF AccountsInit
  <1> QED
    BY <1>1, <1>3 DEF AccountsInit, ProofIInv, AccountTypes, OneRegistrant, Registering, OnAccount

LEMMA ProofNext == ProofIInv /\ [AccountsNext]_accountVars => ProofIInv'
  <1> SUFFICES ASSUME ProofIInv, [AccountsNext]_accountVars
               PROVE  ProofIInv'
    OBVIOUS
  <1>1. CASE UNCHANGED accountVars
    BY <1>1 DEF accountVars, ProofIInv, AccountTypes, OneRegistrant, Registering, Relied, Proved, Mine, HasOwnPassword
  <1>2. CASE AccountsNext
    BY <1>2, BeginKeeps, SaveContactKeeps, SaveCredentialsKeeps, IssueOtpKeeps, CodeKeeps, EnterCodeKeeps, BookedKeeps,
       ResetKeeps, MailKeeps, FollowKeeps DEF AccountsNext
  <1> QED
    BY <1>1, <1>2

-----------------------------------------------------------------------------
(* Guesses                                                                 *)

Guessing(k) == {v \in Visitor : visits[v].doing = "count" /\ visits[v].account = k}

GuessIInv ==
    \A k \in 1..Len(accounts) : accounts[k].wrong + Cardinality(Guessing(k)) < MaxAttempts + Cardinality(Visitor)

\* A set of guesses under way
LEMMA GuessingIsFinite ==
    ASSUME IsFiniteSet(Visitor), NEW S \in SUBSET Visitor
    PROVE  IsFiniteSet(S) /\ Cardinality(S) \in Nat /\ Cardinality(S) <= Cardinality(Visitor) /\ Cardinality(Visitor) \in Nat
  BY FS_Subset, FS_CardinalityType

LEMMA FewerGuessing ==
    ASSUME IsFiniteSet(Visitor), NEW S \in SUBSET Visitor, NEW T \in SUBSET S
    PROVE  Cardinality(T) <= Cardinality(S)
  BY GuessingIsFinite, FS_Subset

\* The guesses under way, and those counted, of an account
LEMMA GuessKeeps ==
    ASSUME IsFiniteSet(Visitor), ProofIInv, GuessIInv, NEW n \in Nat, NEW k, NEW S \in SUBSET Visitor,
           \/ /\ k \in 1..Len(accounts) /\ n = accounts[k].wrong /\ S \subseteq Guessing(k)
           \/ /\ k \in 1..Len(accounts) /\ n = accounts[k].wrong + 1
              /\ \E v \in Guessing(k) : S \subseteq Guessing(k) \ {v}
           \/ n < MaxAttempts
    PROVE  n + Cardinality(S) < MaxAttempts + Cardinality(Visitor)
  <1>1. /\ Guessing(k) \in SUBSET Visitor
        /\ Cardinality(S) \in Nat /\ Cardinality(Visitor) \in Nat /\ Cardinality(S) <= Cardinality(Visitor)
        /\ IsFiniteSet(Guessing(k)) /\ Cardinality(Guessing(k)) \in Nat
    BY GuessingIsFinite DEF Guessing
  <1>2. CASE k \in 1..Len(accounts) /\ n = accounts[k].wrong /\ S \subseteq Guessing(k)
    <2>1. Cardinality(S) <= Cardinality(Guessing(k))
      BY <1>1, <1>2, FewerGuessing
    <2>2. n + Cardinality(Guessing(k)) < MaxAttempts + Cardinality(Visitor)
      BY <1>2 DEF GuessIInv
    <2> QED
      BY <1>1, <2>1, <2>2
  <1>3. CASE k \in 1..Len(accounts) /\ n = accounts[k].wrong + 1 /\ \E v \in Guessing(k) : S \subseteq Guessing(k) \ {v}
    <2>1. PICK v \in Guessing(k) : S \subseteq Guessing(k) \ {v}
      BY <1>3
    <2>2. Cardinality(Guessing(k) \ {v}) = Cardinality(Guessing(k)) - 1
      BY <1>1, FS_RemoveElement
    <2>3. Cardinality(S) <= Cardinality(Guessing(k) \ {v})
      BY <1>1, <2>1, FewerGuessing
    <2>4. accounts \in Seq(Contact)
      BY DEF ProofIInv, AccountTypes
    <2>5. accounts[k] \in Contact
      BY <1>3, <2>4, ElementOfSeq
    <2>6. accounts[k].wrong \in Nat
      BY <2>5 DEF Contact
    <2>7. accounts[k].wrong + Cardinality(Guessing(k)) < MaxAttempts + Cardinality(Visitor)
      BY <1>3 DEF GuessIInv
    <2> QED
      BY SMTT(60), <1>1, <1>3, <2>2, <2>3, <2>6, <2>7
  <1>4. CASE n < MaxAttempts
    BY <1>1, <1>4
  <1> QED
    BY <1>2, <1>3, <1>4

\* Only a wrong code begins a guess.
LEMMA OnlyGuessesBegin ==
    ASSUME ProofIInv, [AccountsNext]_accountVars, NEW u \in Visitor, visits'[u].doing = "count", visits'[u] # visits[u]
    PROVE  \E k \in DOMAIN accounts : EnterCode(u, k, FALSE)
  <1> DEFINE Others(v) == u # v
  <1>0. visits' # visits
    OBVIOUS
  <1>1. PICK v \in Visitor :
           \/ Register(v) \/ BookPublicly(v) \/ ForgotPassword(v)
           \/ SaveContact(v) \/ SaveCredentials(v) \/ IssueOtp(v)
           \/ ClaimCode(v) \/ CountGuess(v) \/ Verify(v)
           \/ Booked(v) \/ Decide(v) \/ MailLinkTo(v) \/ SaveChosen(v) \/ Abandon(v)
           \/ \E k \in DOMAIN accounts : ResetPassword(v, k) \/ \E right \in BOOLEAN : EnterCode(v, k, right)
    BY <1>0 DEF AccountsNext, accountVars, FollowMagicLink
  <1>2. visits \in [Visitor -> Visit]
    BY DEF ProofIInv, AccountTypes
  <1>3. u = v
    BY <1>1, <1>2 DEF Register, BookPublicly, ForgotPassword, SaveContact, SaveCredentials, IssueOtp, ClaimCode,
       CountGuess, Verify, Booked, Decide, MailLinkTo, SaveChosen, Abandon, ResetPassword, EnterCode, Begins, GoesOn, Leaves
  <1>4. ASSUME NEW doing, GoesOn(v, doing)
        PROVE  visits'[v].doing = doing
    BY <1>2, <1>4 DEF GoesOn, Visit
  <1>5. ASSUME NEW doing, NEW k, Begins(v, doing, k)
        PROVE  visits'[v].doing = doing
    BY <1>2, <1>5 DEF Begins
  <1>6. Leaves(v) => visits'[v].doing = "nothing"
    BY <1>2 DEF Leaves, NoVisit
  <1>7. CASE Register(v) \/ BookPublicly(v) \/ ForgotPassword(v) \/ \E k \in DOMAIN accounts : ResetPassword(v, k)
    BY <1>3, <1>5, <1>7 DEF Register, BookPublicly, ForgotPassword, ResetPassword
  <1>8. CASE SaveContact(v)
    BY <1>2, <1>3, <1>8 DEF SaveContact, Visit
  <1>9. CASE SaveCredentials(v) \/ IssueOtp(v) \/ ClaimCode(v) \/ CountGuess(v) \/ Verify(v) \/ SaveChosen(v)
             \/ MailLinkTo(v) \/ Abandon(v) \/ Decide(v)
    BY <1>3, <1>4, <1>6, <1>9 DEF SaveCredentials, IssueOtp, ClaimCode, CountGuess, Verify, SaveChosen, MailLinkTo, Abandon, Decide
  <1>10. CASE Booked(v)
    BY <1>3, <1>4, <1>10 DEF Booked, AfterBooking
  <1>11. ASSUME NEW k \in DOMAIN accounts, NEW right \in BOOLEAN, EnterCode(v, k, right)
         PROVE  EnterCode(u, k, FALSE)
    <2>1. ~right
      BY <1>3, <1>5, <1>11 DEF EnterCode
    <2> QED
      BY <1>3, <1>11, <2>1
  <1> QED
    BY <1>1, <1>7, <1>8, <1>9, <1>10, <1>11

\* Only a guess that was under way is counted.
LEMMA OnlyGuessesCount ==
    ASSUME ProofIInv, [AccountsNext]_accountVars, NEW k \in 1..Len(accounts')
    PROVE  /\ accounts'[k].wrong \in Nat
           /\ \/ k \in 1..Len(accounts) /\ accounts'[k].wrong = accounts[k].wrong
              \/ /\ k \in 1..Len(accounts) /\ accounts'[k].wrong = accounts[k].wrong + 1
                 /\ \E v \in Guessing(k) : visits'[v].doing # "count"
              \/ accounts'[k].wrong = 0
  <1>1. /\ accounts \in Seq(Contact) /\ DOMAIN accounts = 1..Len(accounts) /\ Len(accounts) \in Nat
        /\ \A j \in 1..Len(accounts) : accounts[j] \in Contact /\ accounts[j].wrong \in Nat
    <2>1. accounts \in Seq(Contact)
      BY DEF ProofIInv, AccountTypes
    <2>2. DOMAIN accounts = 1..Len(accounts) /\ Len(accounts) \in Nat
      BY <2>1, LenProperties
    <2>3. \A j \in 1..Len(accounts) : accounts[j] \in Contact
      BY <2>1, ElementOfSeq
    <2> QED
      BY <2>1, <2>2, <2>3 DEF Contact
  <1>2. CASE accounts' = accounts
    BY <1>1, <1>2
  <1>3. ASSUME NEW v \in Visitor, SaveContact(v)
        PROVE  \/ k \in 1..Len(accounts) /\ accounts'[k] = accounts[k]
               \/ accounts'[k].wrong = 0
    <2> DEFINE a == NewContact(visits[v].doing = "autoRegister")
    <2>1. a \in Contact /\ a.wrong = 0 /\ accounts' = Append(accounts, a)
      BY <1>3 DEF NewContact, Contact, SaveContact
    <2> HIDE DEF a
    <2>2. /\ Len(accounts') = Len(accounts) + 1 /\ accounts'[Len(accounts) + 1] = a
          /\ \A j \in 1..Len(accounts) : accounts'[j] = accounts[j]
      BY <1>1, <2>1, AppendProperties
    <2>3. k = Len(accounts) + 1 \/ k \in 1..Len(accounts)
      BY <1>1, <2>2
    <2> QED
      BY <2>1, <2>2, <2>3
  <1>4. ASSUME NEW j \in 1..Len(accounts), NEW a \in Contact, accounts' = [accounts EXCEPT ![j] = a]
        PROVE  /\ k \in 1..Len(accounts) /\ (k = j => accounts'[k] = a)
               /\ k # j => accounts'[k] = accounts[k]
    BY <1>1, <1>4, ExceptSeq
  <1>5. ASSUME NEW v \in Visitor, CountGuess(v)
        PROVE  /\ k \in 1..Len(accounts)
               /\ \/ accounts'[k].wrong = accounts[k].wrong
                  \/ accounts'[k].wrong = accounts[k].wrong + 1 /\ v \in Guessing(k) /\ visits'[v].doing # "count"
    <2> DEFINE a == [Attempted(Of(v)) EXCEPT !.refused = @ + 1]
    <2>1. visits[v].doing = "count" /\ visits[v].doing \in OnAccount
      BY <1>5 DEF CountGuess, OnAccount
    <2>2. Of(v) \in Contact /\ visits[v].account \in 1..Len(accounts) /\ visits'[v].doing # "count"
      BY <1>5, <2>1, Knows, Visits DEF CountGuess
    <2>3. a \in Contact /\ a.wrong = Of(v).wrong + 1
      BY <2>2, GuessIsCounted
    <2>4. accounts' = [accounts EXCEPT ![visits[v].account] = a]
      BY <1>5 DEF CountGuess, Sets
    <2> HIDE DEF a
    <2> QED
      BY <1>4, <2>1, <2>2, <2>3, <2>4 DEF Of, Guessing
  <1>6. ASSUME NEW v \in Visitor,
               SaveCredentials(v) \/ IssueOtp(v) \/ ClaimCode(v) \/ MailLinkTo(v) \/ SaveChosen(v) \/ Verify(v)
        PROVE  k \in 1..Len(accounts) /\ accounts'[k].wrong = accounts[k].wrong
    <2>1. visits[v].doing \in OnAccount
      BY <1>6 DEF SaveCredentials, IssueOtp, ClaimCode, MailLinkTo, SaveChosen, Verify, OnAccount
    <2>2. Of(v) \in Contact /\ visits[v].account \in 1..Len(accounts)
      BY <2>1, Knows
    <2>3. ASSUME NEW a, Sets(v, a), a \in Contact, a.wrong = Of(v).wrong
          PROVE  k \in 1..Len(accounts) /\ accounts'[k].wrong = accounts[k].wrong
      BY <1>4, <2>2, <2>3 DEF Sets, Of
    <2>4. \A x \in {"registered", "random", "chosen"} :
             [Of(v) EXCEPT !.password = x] \in Contact /\ [Of(v) EXCEPT !.password = x].wrong = Of(v).wrong
      BY <2>2 DEF Contact
    <2>5. \A x \in {"sent", "used"} :
             [Of(v) EXCEPT !.code = x] \in Contact /\ [Of(v) EXCEPT !.code = x].wrong = Of(v).wrong
      BY <2>2 DEF Contact
    <2>6. \A x \in {"setup", "magic"} :
             [Of(v) EXCEPT !.links = @ \cup {x}] \in Contact /\ [Of(v) EXCEPT !.links = @ \cup {x}].wrong = Of(v).wrong
      BY <2>2 DEF Contact
    <2>7. [Of(v) EXCEPT !.verified = TRUE] \in Contact /\ [Of(v) EXCEPT !.verified = TRUE].wrong = Of(v).wrong
      BY <2>2 DEF Contact
    <2>8. CASE SaveCredentials(v)
      BY <2>3, <2>4, <2>8 DEF SaveCredentials
    <2>9. CASE IssueOtp(v) \/ ClaimCode(v)
      BY <2>3, <2>5, <2>9 DEF IssueOtp, ClaimCode
    <2>10. CASE MailLinkTo(v)
      BY <2>3, <2>6, <2>10 DEF MailLinkTo
    <2>11. CASE SaveChosen(v) \/ Verify(v)
      BY <2>3, <2>4, <2>7, <2>11 DEF SaveChosen, Verify
    <2> QED
      BY <1>6, <2>8, <2>9, <2>10, <2>11
  <1>7. ASSUME NEW j \in DOMAIN accounts, (\E v \in Visitor : ResetPassword(v, j)) \/ FollowMagicLink(j)
        PROVE  k \in 1..Len(accounts) /\ accounts'[k].wrong = accounts[k].wrong
    <2>1. PICK x \in {"setup", "magic"} : accounts' = [accounts EXCEPT ![j] = [accounts[j] EXCEPT !.links = @ \ {x}]]
      BY <1>7 DEF ResetPassword, FollowMagicLink
    <2> DEFINE a == [accounts[j] EXCEPT !.links = @ \ {x}]
    <2>2. a \in Contact /\ a.wrong = accounts[j].wrong
      BY <1>1, UsedLinkOnly
    <2>3. accounts' = [accounts EXCEPT ![j] = a]
      BY <2>1
    <2> HIDE DEF a
    <2> QED
      BY <1>1, <1>4, <2>2, <2>3
  <1>8. \/ accounts' = accounts
        \/ \E v \in Visitor : SaveContact(v) \/ CountGuess(v)
        \/ \E v \in Visitor :
              SaveCredentials(v) \/ IssueOtp(v) \/ ClaimCode(v) \/ MailLinkTo(v) \/ SaveChosen(v) \/ Verify(v)
        \/ \E j \in DOMAIN accounts : (\E v \in Visitor : ResetPassword(v, j)) \/ FollowMagicLink(j)
    BY DEF AccountsNext, accountVars, Register, BookPublicly, ForgotPassword, Booked, Decide, Abandon, EnterCode
  <1> QED
    BY <1>1, <1>2, <1>3, <1>5, <1>6, <1>7, <1>8

LEMMA GuessNext ==
    ASSUME IsFiniteSet(Visitor), ProofIInv, GuessIInv, [AccountsNext]_accountVars
    PROVE  GuessIInv'
  <1> SUFFICES ASSUME NEW k \in 1..Len(accounts')
               PROVE  accounts'[k].wrong + Cardinality(Guessing(k)') < MaxAttempts + Cardinality(Visitor)
    BY DEF GuessIInv
  <1>1. Guessing(k)' = {v \in Visitor : visits'[v].doing = "count" /\ visits'[v].account = k}
    BY DEF Guessing
  <1>2. Guessing(k)' \in SUBSET Visitor
    BY <1>1
  <1>3. CASE accounts'[k].wrong < MaxAttempts
    BY <1>2, <1>3, OnlyGuessesCount, GuessKeeps
  <1>4. CASE ~(accounts'[k].wrong < MaxAttempts)
    <2>1. k \in 1..Len(accounts)
      BY <1>4, OnlyGuessesCount
    <2>2. ASSUME NEW v \in Guessing(k)'
          PROVE  v \in Guessing(k)
      <3>1. CASE visits'[v] = visits[v]
        BY <1>1, <2>2, <3>1 DEF Guessing
      <3>2. CASE visits'[v] # visits[v]
        <4>1. PICK j \in DOMAIN accounts : EnterCode(v, j, FALSE)
          BY <1>1, <2>2, <3>2, OnlyGuessesBegin
        <4>2. visits' = [visits EXCEPT ![v] = [doing |-> "count", account |-> j, verified |-> j # 0 /\ accounts[j].verified]]
          BY <4>1 DEF EnterCode, Begins
        <4>3. visits'[v].account = j
          BY <4>2 DEF ProofIInv, AccountTypes, Guessing
        <4>4. accounts' = accounts /\ accounts[j].wrong < MaxAttempts
          BY <4>1 DEF EnterCode, Candidate
        <4> QED
          BY <1>1, <1>4, <2>2, <4>3, <4>4
      <3> QED
        BY <3>1, <3>2
    <2>3. CASE accounts'[k].wrong = accounts[k].wrong
      BY <1>2, <2>1, <2>2, <2>3, OnlyGuessesCount, GuessKeeps
    <2>4. CASE accounts'[k].wrong # accounts[k].wrong
      <3>1. accounts'[k].wrong = accounts[k].wrong + 1 /\ \E v \in Guessing(k) : visits'[v].doing # "count"
        BY <1>4, <2>4, OnlyGuessesCount
      <3>2. \E v \in Guessing(k) : Guessing(k)' \subseteq Guessing(k) \ {v}
        BY <1>1, <2>2, <3>1
      <3> QED
        BY <1>2, <2>1, <3>1, <3>2, OnlyGuessesCount, GuessKeeps
    <2> QED
      BY <2>3, <2>4
  <1> QED
    BY <1>3, <1>4

\* Whatever requests overlap and wherever they break off, and however many
\* accounts an address gets: a magic link leads to an account that is its owner's,
\* a registrant's password opens one only after the code came back, and a code
\* takes no more wrong guesses than MAX_OTP_ATTEMPTS and those that had begun.
THEOREM AccountsTheorem ==
    ASSUME IsFiniteSet(Visitor)
    PROVE  AccountsSpec => []AccountsAreProved
  <1>1. AccountsInit => GuessIInv
    BY EmptySeq DEF AccountsInit, GuessIInv
  <1>2. ProofIInv /\ GuessIInv => AccountsAreProved
    <2> SUFFICES ASSUME ProofIInv, GuessIInv, NEW k \in DOMAIN accounts
                 PROVE  LinkHolderHasPassword(k) /\ RegistrantIsProved(k) /\ GuessesAreBounded(k)
      BY DEF AccountsAreProved
    <2>1. k \in 1..Len(accounts) /\ accounts[k] \in Contact
      BY LenProperties, ElementOfSeq DEF ProofIInv, AccountTypes
    <2>2. LinkHolderHasPassword(k) /\ RegistrantIsProved(k)
      BY <2>1 DEF ProofIInv, Proved, HasOwnPassword, LinkHolderHasPassword, RegistrantIsProved, NeedsPasswordSetup, Contact
    <2>3. Cardinality(Guessing(k)) \in Nat /\ Cardinality(Visitor) \in Nat
      BY GuessingIsFinite DEF Guessing
    <2>4. GuessesAreBounded(k)
      BY <2>1, <2>3 DEF GuessIInv, GuessesAreBounded, Contact
    <2> QED
      BY <2>2, <2>4
  <1>3. ProofIInv /\ GuessIInv /\ [AccountsNext]_accountVars => GuessIInv'
    BY GuessNext
  <1> QED
    BY <1>1, <1>2, <1>3, ProofInit, ProofNext, PTL DEF AccountsSpec

HIDE AccountsAssumption

-----------------------------------------------------------------------------
(***************************************************************************)
(* Reminders (Reminders)                                                   *)
(***************************************************************************)

Reminder == Ride \X KindNames
Walking == [at : {"scan", "claim"}, kind : 1..Len(Kinds), now : Nat, due : SUBSET Ride, failed : SUBSET Ride]
Holding == [at : {"send", "release"}, ride : Ride, kind : 1..Len(Kinds), now : Nat, due : SUBSET Ride, failed : SUBSET Ride]
RunState == {NoRun} \cup Walking \cup Holding

ClaimTypes ==
    /\ tick \in Nat
    /\ runs \in [Run -> RunState]
    /\ claims \subseteq Reminder
    /\ sent \in [Reminder -> Nat]

Claimed ==
    /\ \A r \in Run, m \in Reminder : Holds(runs[r], m) => m \in claims
    /\ \A r \in Run, q \in Run, m \in Reminder : Holds(runs[r], m) /\ Holds(runs[q], m) => r = q

SentOnce ==
    \A m \in Reminder : m \notin unsure =>
        /\ sent[m] <= 1
        /\ sent[m] > 0 => m \in claims
        /\ \A r \in Run : Holds(runs[r], m) => sent[m] = 0

ClaimIInv == ClaimTypes /\ Claimed /\ SentOnce

USE RemindersAssumption

-----------------------------------------------------------------------------
(* Runs                                                                    *)

\* Who walks or does not run holds nothing.
LEMMA WalkersHoldNothing ==
    ASSUME NEW run \in Walking \cup {NoRun}, NEW m
    PROVE  ~Holds(run, m)
  BY DEF Holds, Walking, NoRun

\* Who holds, holds one reminder.
LEMMA HoldersHoldOne ==
    ASSUME NEW run \in Holding
    PROVE  /\ <<run.ride, KindOf(run)>> \in Reminder
           /\ \A m : Holds(run, m) <=> m = <<run.ride, KindOf(run)>>
  BY DEF Holding, Holds, KindOf, Reminder, KindNames

\* The loops lead from a walker to a walker, or to the end.
LEMMA OnwardWalks ==
    ASSUME NEW run \in Walking
    PROVE  Onward(run) \in Walking \cup {NoRun}
  <1>1. CASE run.due # {}
    BY <1>1 DEF Onward, Walking
  <1>2. CASE run.due = {} /\ run.kind < Len(Kinds)
    <2>1. run.kind + 1 \in 1..Len(Kinds)
      BY <1>2 DEF Walking
    <2> QED
      BY <1>2, <2>1 DEF Onward, Walking
  <1>3. CASE run.due = {} /\ ~(run.kind < Len(Kinds))
    BY <1>3 DEF Onward
  <1> QED
    BY <1>1, <1>2, <1>3

\* What others fail changes nothing of what a run holds.
AlsoFailed(run, failed) == [run EXCEPT !.failed = @ \cup failed]

LEMMA MoreFailed ==
    ASSUME NEW run \in RunState, run # NoRun, NEW failed \in SUBSET Ride
    PROVE  /\ AlsoFailed(run, failed) \in RunState
           /\ \A m : Holds(AlsoFailed(run, failed), m) <=> Holds(run, m)
  <1>1. CASE run \in Walking
    <2>1. AlsoFailed(run, failed) \in Walking
      BY <1>1 DEF Walking, AlsoFailed
    <2> QED
      BY <1>1, <2>1, WalkersHoldNothing DEF RunState
  <1>2. CASE run \in Holding
    <2>1. /\ AlsoFailed(run, failed) \in Holding
          /\ AlsoFailed(run, failed).ride = run.ride
          /\ AlsoFailed(run, failed).kind = run.kind
      BY <1>2 DEF Holding, AlsoFailed
    <2> QED
      BY <1>2, <2>1, HoldersHoldOne DEF RunState, KindOf
  <1> QED
    BY <1>1, <1>2 DEF RunState

\* A step of one run leaves to the others what they hold.
LEMMA OthersHold ==
    ASSUME ClaimTypes, NEW r \in Run, NEW next \in RunState, NEW failed \in SUBSET Ride,
           Moves(r, next) \/ FailsRides(r, next, failed)
    PROVE  /\ runs' \in [Run -> RunState]
           /\ runs'[r] = next
           /\ \A q \in Run \ {r} : \A m : Holds(runs'[q], m) <=> Holds(runs[q], m)
  <1>1. CASE Moves(r, next)
    BY <1>1 DEF Moves, ClaimTypes
  <1>2. CASE FailsRides(r, next, failed)
    <2>1. runs' = [q \in Run |-> IF q = r THEN next
                                 ELSE IF runs[q] = NoRun THEN NoRun ELSE [runs[q] EXCEPT !.failed = @ \cup failed]]
      BY <1>2 DEF FailsRides
    <2>2. ASSUME NEW q \in Run \ {r}
          PROVE  runs'[q] \in RunState /\ \A m : Holds(runs'[q], m) <=> Holds(runs[q], m)
      <3>1. CASE runs[q] = NoRun
        BY <2>1, <3>1 DEF RunState
      <3>2. CASE runs[q] # NoRun
        <4>1. runs'[q] = AlsoFailed(runs[q], failed)
          BY <2>1, <3>2 DEF AlsoFailed
        <4>2. runs[q] \in RunState
          BY DEF ClaimTypes
        <4> QED
          BY <3>2, <4>1, <4>2, MoreFailed
      <3> QED
        BY <3>1, <3>2
    <2>3. runs'[r] = next
      BY <2>1
    <2>4. \A q \in Run : runs'[q] \in RunState
      BY <2>2, <2>3
    <2>5. runs' = [q \in Run |-> runs'[q]]
      BY <2>1
    <2> QED
      BY <2>2, <2>3, <2>4, <2>5
  <1> QED
    BY <1>1, <1>2

-----------------------------------------------------------------------------
(* Every step keeps the invariant                                          *)

\* A step after which runs hold nothing new, nothing is sent and no row is gone
LEMMA HoldsNoMore ==
    ASSUME ClaimIInv, tick' \in Nat, runs' \in [Run -> RunState],
           \A q \in Run, m \in Reminder : Holds(runs'[q], m) => Holds(runs[q], m),
           claims' = claims \/ (claims \subseteq claims' /\ claims' \subseteq Reminder),
           sent' = sent, unsure' = unsure
    PROVE  ClaimIInv'
  BY DEF ClaimIInv, ClaimTypes, Claimed, SentOnce

\* A run walks on, or ends.
LEMMA WalksOn ==
    ASSUME ClaimIInv, NEW r \in Run, NEW next \in Walking \cup {NoRun}, NEW failed \in SUBSET Ride,
           Moves(r, next) \/ FailsRides(r, next, failed),
           claims' = claims \/ (claims \subseteq claims' /\ claims' \subseteq Reminder),
           tick' = tick, sent' = sent, unsure' = unsure
    PROVE  ClaimIInv'
  <1>1. /\ runs' \in [Run -> RunState] /\ runs'[r] = next
        /\ \A q \in Run \ {r} : \A m : Holds(runs'[q], m) <=> Holds(runs[q], m)
    BY OthersHold DEF ClaimIInv, RunState
  <1>2. \A m : ~Holds(runs'[r], m)
    BY <1>1, WalkersHoldNothing
  <1> QED
    BY <1>1, <1>2, HoldsNoMore DEF ClaimIInv, ClaimTypes

\* The bookings of a scan are the ones in the window.
LEMMA ScanKeeps ==
    ASSUME ClaimIInv, NEW r \in Run, Scan(r)
    PROVE  ClaimIInv'
  <1>1. runs[r] \in Walking
    BY DEF Scan, ClaimIInv, ClaimTypes, RunState, NoRun, Holding
  <1> DEFINE due == {b \in Ride : InWindow(rides[b], KindOf(runs[r]), runs[r].now)}
  <1>2. [runs[r] EXCEPT !.due = due] \in Walking
    <2>1. due \in SUBSET Ride
      OBVIOUS
    <2> HIDE DEF due
    <2> QED
      BY <1>1, <2>1 DEF Walking
  <1>3. /\ Moves(r, Onward([runs[r] EXCEPT !.due = due]))
        /\ tick' = tick /\ claims' = claims /\ sent' = sent /\ unsure' = unsure
    BY DEF Scan
  <1> HIDE DEF due
  <1> QED
    BY <1>2, <1>3, OnwardWalks, WalksOn

\* A claimed reminder was nobody's, and nobody has sent it.
LEMMA ClaimGranted ==
    ASSUME ClaimIInv, NEW r \in Run, NEW next \in Holding, Moves(r, next),
           NEW m, m = <<next.ride, KindOf(next)>>, m \notin claims,
           claims' = claims \cup {m}, tick' = tick, sent' = sent, unsure' = unsure
    PROVE  ClaimIInv'
  <1>1. /\ runs' \in [Run -> RunState] /\ runs'[r] = next
        /\ \A q \in Run \ {r} : \A x : Holds(runs'[q], x) <=> Holds(runs[q], x)
    BY OthersHold DEF ClaimIInv, RunState
  <1>2. m \in Reminder /\ \A x : Holds(runs'[r], x) <=> x = m
    BY <1>1, HoldersHoldOne
  <1>3. \A q \in Run \ {r} : ~Holds(runs'[q], m)
    BY <1>1, <1>2 DEF ClaimIInv, Claimed
  <1>4. ClaimTypes' /\ Claimed'
    BY <1>1, <1>2, <1>3 DEF ClaimIInv, ClaimTypes, Claimed
  <1>5. m \notin unsure => sent[m] = 0
    BY <1>2 DEF ClaimIInv, ClaimTypes, SentOnce
  <1>6. SentOnce'
    BY <1>1, <1>2, <1>5 DEF ClaimIInv, SentOnce
  <1> QED
    BY <1>4, <1>6 DEF ClaimIInv

LEMMA ClaimKeeps ==
    ASSUME ClaimIInv, NEW r \in Run, Claim(r)
    PROVE  ClaimIInv'
  <1>1. runs[r] \in Walking
    BY DEF Claim, ClaimIInv, ClaimTypes, RunState, NoRun, Holding
  <1>2. tick' = tick /\ sent' = sent /\ unsure' = unsure
    BY DEF Claim
  <1>3. PICK b \in runs[r].due :
            LET m == <<b, KindOf(runs[r])>>
                left == [runs[r] EXCEPT !.due = @ \ {b}]
            IN  \/ /\ Claimable(m)
                   /\ claims' = claims \cup {m}
                   /\ Moves(r, [at |-> "send", ride |-> b, kind |-> left.kind, now |-> left.now,
                                due |-> left.due, failed |-> left.failed])
                   /\ UNCHANGED stuck
                \/ /\ ~Claimable(m)
                   /\ Moves(r, Onward(left)) /\ UNCHANGED <<claims, stuck>>
                \/ /\ FailsRides(r, Onward([left EXCEPT !.failed = @ \cup {b}]), {b})
                   /\ \/ UNCHANGED <<claims, stuck>>
                      \/ Claimable(m) /\ claims' = claims \cup {m} /\ stuck' = stuck \cup {m}
    BY DEF Claim
  <1>4. b \in Ride
    BY <1>1 DEF Walking
  <1> DEFINE left == [runs[r] EXCEPT !.due = @ \ {b}]
             next == [at |-> "send", ride |-> b, kind |-> left.kind, now |-> left.now,
                      due |-> left.due, failed |-> left.failed]
  <1>5. left \in Walking /\ [left EXCEPT !.failed = @ \cup {b}] \in Walking /\ left.kind = runs[r].kind
    BY <1>1, <1>4 DEF Walking
  <1>6. next \in Holding /\ <<next.ride, KindOf(next)>> = <<b, KindOf(runs[r])>>
    <2> HIDE DEF left
    <2> QED
      BY <1>4, <1>5 DEF Walking, Holding, KindOf
  <1>7. Onward(left) \in Walking \cup {NoRun} /\ Onward([left EXCEPT !.failed = @ \cup {b}]) \in Walking \cup {NoRun}
    BY <1>5, OnwardWalks
  <1>8. CASE Claimable(<<b, KindOf(runs[r])>>) /\ claims' = claims \cup {<<b, KindOf(runs[r])>>} /\ Moves(r, next)
    <2> HIDE DEF next
    <2> QED
      BY <1>2, <1>6, <1>8, ClaimGranted DEF Claimable
  <1>9. CASE Moves(r, Onward(left)) /\ UNCHANGED claims
    <2> HIDE DEF left
    <2> QED
      BY <1>2, <1>7, <1>9, WalksOn
  <1>10. CASE /\ FailsRides(r, Onward([left EXCEPT !.failed = @ \cup {b}]), {b})
              /\ claims' = claims \/ claims' = claims \cup {<<b, KindOf(runs[r])>>}
    <2>1. {b} \in SUBSET Ride
      BY <1>4
    <2>2. <<b, KindOf(runs[r])>> \in Reminder
      BY <1>6, HoldersHoldOne
    <2>3. claims' = claims \/ (claims \subseteq claims' /\ claims' \subseteq Reminder)
      BY <1>10, <2>2 DEF ClaimIInv, ClaimTypes
    <2> HIDE DEF left
    <2> QED
      BY <1>2, <1>7, <1>10, <2>1, <2>3, WalksOn
  <1> QED
    BY <1>3, <1>8, <1>9, <1>10

\* Who sends or releases has its row, alone, and has not sent it before.
LEMMA HolderIsAlone ==
    ASSUME ClaimIInv, NEW r \in Run, runs[r].at \in {"send", "release"}
    PROVE  /\ runs[r] \in Holding
           /\ <<runs[r].ride, KindOf(runs[r])>> \in Reminder
           /\ \A m : Holds(runs[r], m) <=> m = <<runs[r].ride, KindOf(runs[r])>>
           /\ <<runs[r].ride, KindOf(runs[r])>> \in claims
           /\ \A q \in Run \ {r} : ~Holds(runs[q], <<runs[r].ride, KindOf(runs[r])>>)
           /\ <<runs[r].ride, KindOf(runs[r])>> \notin unsure => sent[<<runs[r].ride, KindOf(runs[r])>>] = 0
  <1>1. runs[r] \in Holding
    BY DEF ClaimIInv, ClaimTypes, RunState, NoRun, Walking
  <1>2. /\ <<runs[r].ride, KindOf(runs[r])>> \in Reminder
        /\ \A m : Holds(runs[r], m) <=> m = <<runs[r].ride, KindOf(runs[r])>>
    BY <1>1, HoldersHoldOne
  <1> QED
    BY <1>1, <1>2 DEF ClaimIInv, Claimed, SentOnce

\* After it, the loop goes on.
LEMMA LoopWalks ==
    ASSUME NEW run \in Holding, NEW failed \in SUBSET Ride
    PROVE  Onward(Loop(run, failed)) \in Walking \cup {NoRun}
  <1>1. Loop(run, failed) \in Walking
    BY DEF Loop, Walking, Holding
  <1> QED
    BY <1>1, OnwardWalks

LEMMA SendKeeps ==
    ASSUME ClaimIInv, NEW r \in Run, Send(r)
    PROVE  ClaimIInv'
  <1> DEFINE m == <<runs[r].ride, KindOf(runs[r])>>
             on == Onward(Loop(runs[r], runs[r].failed))
             back == [runs[r] EXCEPT !.at = "release"]
  <1>1. /\ runs[r] \in Holding /\ m \in Reminder /\ m \in claims
        /\ \A x : Holds(runs[r], x) <=> x = m
        /\ \A q \in Run \ {r} : ~Holds(runs[q], m)
        /\ m \notin unsure => sent[m] = 0
    BY HolderIsAlone DEF Send
  <1>2. tick' = tick /\ claims' = claims
    BY DEF Send
  <1>3. on \in Walking \cup {NoRun} /\ runs[r].ride \in Ride /\ {runs[r].ride} \in SUBSET Ride
    BY <1>1, LoopWalks DEF Holding
  <1>4. back \in Holding /\ \A x : Holds(back, x) <=> x = m
    <2>1. back \in Holding /\ back.ride = runs[r].ride /\ back.kind = runs[r].kind
      BY <1>1 DEF Holding
    <2> HIDE DEF back
    <2> QED
      BY <2>1, HoldersHoldOne DEF KindOf
  <1>5. \/ sent' = [sent EXCEPT ![m] = @ + 1] /\ Moves(r, on) /\ unsure' = unsure
        \/ sent' = [sent EXCEPT ![m] = @ + 1] /\ unsure' = unsure \cup {m} /\ FailsRides(r, back, {runs[r].ride})
        \/ FailsRides(r, back, {runs[r].ride}) /\ sent' = sent /\ unsure' = unsure
    BY DEF Send
  <1> HIDE DEF m, on, back
  <1>6. CASE sent' = [sent EXCEPT ![m] = @ + 1] /\ Moves(r, on) /\ unsure' = unsure
    <2>1. /\ runs' \in [Run -> RunState] /\ runs'[r] = on
          /\ \A q \in Run \ {r} : \A x : Holds(runs'[q], x) <=> Holds(runs[q], x)
      BY <1>3, <1>6, OthersHold DEF ClaimIInv, RunState
    <2>2. \A q \in Run : \A x : Holds(runs'[q], x) => Holds(runs[q], x) /\ x # m
      BY <1>1, <1>3, <2>1, WalkersHoldNothing
    <2>3. /\ sent' \in [Reminder -> Nat] /\ sent'[m] = sent[m] + 1
          /\ \A x \in Reminder \ {m} : sent'[x] = sent[x]
      BY <1>1, <1>6 DEF ClaimIInv, ClaimTypes
    <2>4. ClaimTypes' /\ Claimed'
      BY <1>2, <2>1, <2>2, <2>3 DEF ClaimIInv, ClaimTypes, Claimed
    <2>5. m \notin unsure => sent'[m] = 1
      BY <1>1, <2>3
    <2>6. SentOnce'
      <3>1. ASSUME NEW x \in Reminder, x \notin unsure
            PROVE  /\ sent'[x] <= 1 /\ (sent'[x] > 0 => x \in claims)
                   /\ \A q \in Run : Holds(runs'[q], x) => sent'[x] = 0
        <4>1. /\ sent[x] <= 1 /\ (sent[x] > 0 => x \in claims)
              /\ \A q \in Run : Holds(runs[q], x) => sent[x] = 0
          BY <3>1 DEF ClaimIInv, SentOnce
        <4>2. CASE x = m
          <5>1. sent'[x] = 1 /\ x \in claims
            BY <1>1, <2>5, <3>1, <4>2
          <5>2. \A q \in Run : ~Holds(runs'[q], x)
            BY <2>2, <4>2
          <5> QED
            BY <5>1, <5>2
        <4>3. CASE x # m
          BY <2>2, <2>3, <4>1, <4>3
        <4> QED
          BY <4>2, <4>3
      <3> QED
        BY <1>2, <1>6, <3>1 DEF SentOnce
    <2> QED
      BY <2>4, <2>6 DEF ClaimIInv
  <1>7. CASE FailsRides(r, back, {runs[r].ride})
    <2>1. /\ runs' \in [Run -> RunState] /\ runs'[r] = back
          /\ \A q \in Run \ {r} : \A x : Holds(runs'[q], x) <=> Holds(runs[q], x)
      BY <1>3, <1>4, <1>7, OthersHold DEF ClaimIInv, RunState
    <2>2. \A q \in Run : \A x : Holds(runs'[q], x) => Holds(runs[q], x)
      BY <1>1, <1>4, <2>1
    <2>3. CASE sent' = sent /\ unsure' = unsure
      BY <1>2, <2>1, <2>2, <2>3, HoldsNoMore DEF ClaimIInv, ClaimTypes
    <2>4. CASE sent' = [sent EXCEPT ![m] = @ + 1] /\ unsure' = unsure \cup {m}
      <3>1. /\ sent' \in [Reminder -> Nat]
            /\ \A x \in Reminder \ {m} : sent'[x] = sent[x]
        BY <1>1, <2>4 DEF ClaimIInv, ClaimTypes
      <3>2. ClaimTypes' /\ Claimed'
        BY <1>2, <2>1, <2>2, <3>1 DEF ClaimIInv, ClaimTypes, Claimed
      <3>3. SentOnce'
        BY <1>2, <2>2, <2>4, <3>1 DEF ClaimIInv, SentOnce
      <3> QED
        BY <3>2, <3>3 DEF ClaimIInv
    <2> QED
      BY <1>5, <1>6, <2>3, <2>4
  <1> QED
    BY <1>5, <1>6, <1>7

LEMMA ReleaseKeeps ==
    ASSUME ClaimIInv, NEW r \in Run, Release(r)
    PROVE  ClaimIInv'
  <1> DEFINE m == <<runs[r].ride, KindOf(runs[r])>>
             on == Onward(Loop(runs[r], runs[r].failed \cup {runs[r].ride}))
  <1>1. /\ runs[r] \in Holding /\ m \in Reminder
        /\ \A q \in Run \ {r} : ~Holds(runs[q], m)
        /\ m \notin unsure => sent[m] = 0
    BY HolderIsAlone DEF Release
  <1>2. /\ claims' = claims \ {m} \/ claims' = claims
        /\ FailsRides(r, on, {runs[r].ride})
        /\ tick' = tick /\ sent' = sent /\ unsure' = unsure
    BY DEF Release, Released
  <1>3. /\ {runs[r].ride} \in SUBSET Ride /\ runs[r].failed \cup {runs[r].ride} \in SUBSET Ride
        /\ on \in Walking \cup {NoRun}
    <2>1. {runs[r].ride} \in SUBSET Ride /\ runs[r].failed \cup {runs[r].ride} \in SUBSET Ride
      BY <1>1 DEF Holding
    <2> QED
      BY <1>1, <2>1, LoopWalks
  <1> HIDE DEF m, on
  <1>4. /\ runs' \in [Run -> RunState] /\ runs'[r] = on
        /\ \A q \in Run \ {r} : \A x : Holds(runs'[q], x) <=> Holds(runs[q], x)
    BY <1>2, <1>3, OthersHold DEF ClaimIInv, RunState
  <1>5. \A q \in Run : \A x : Holds(runs'[q], x) => Holds(runs[q], x) /\ x # m
    BY <1>1, <1>3, <1>4, WalkersHoldNothing
  <1>6. ClaimTypes' /\ Claimed'
    BY <1>2, <1>4, <1>5 DEF ClaimIInv, ClaimTypes, Claimed
  <1>7. SentOnce'
    <2>1. ASSUME NEW x \in Reminder, x \notin unsure
          PROVE  /\ sent[x] <= 1 /\ (sent[x] > 0 => x \in claims')
                 /\ \A q \in Run : Holds(runs'[q], x) => sent[x] = 0
      <3>1. /\ sent[x] <= 1 /\ (sent[x] > 0 => x \in claims)
            /\ \A q \in Run : Holds(runs[q], x) => sent[x] = 0
        BY <2>1 DEF ClaimIInv, SentOnce
      <3>2. CASE x = m
        BY <1>1, <1>5, <2>1, <3>1, <3>2
      <3>3. CASE x # m
        BY <1>2, <1>5, <3>1, <3>3
      <3> QED
        BY <3>2, <3>3
    <2> QED
      BY <1>2, <2>1 DEF SentOnce
  <1> QED
    BY <1>6, <1>7 DEF ClaimIInv

LEMMA NextKeeps == ClaimIInv /\ [RemindersNext]_reminderVars => ClaimIInv'
  <1> SUFFICES ASSUME ClaimIInv, [RemindersNext]_reminderVars PROVE ClaimIInv'
    OBVIOUS
  <1>1. CASE Tick \/ (\E b \in Ride : Rebook(b)) \/ UNCHANGED reminderVars
    <2>1. tick' \in Nat /\ runs' = runs /\ claims' = claims /\ sent' = sent /\ unsure' = unsure
      BY <1>1 DEF Tick, Rebook, reminderVars, ClaimIInv, ClaimTypes
    <2> QED
      BY <2>1, HoldsNoMore DEF ClaimIInv, ClaimTypes
  <1>2. ASSUME NEW r \in Run, Start(r) PROVE ClaimIInv'
    <2> DEFINE next == [at |-> "scan", kind |-> 1, now |-> tick, due |-> {}, failed |-> {}]
    <2>1. next \in Walking
      BY DEF ClaimIInv, ClaimTypes, Walking
    <2>2. runs' = [runs EXCEPT ![r] = next] /\ tick' = tick /\ claims' = claims /\ sent' = sent /\ unsure' = unsure
      BY <1>2 DEF Start
    <2> HIDE DEF next
    <2>3. /\ runs' \in [Run -> RunState] /\ runs'[r] = next
          /\ \A q \in Run \ {r} : runs'[q] = runs[q]
      BY <2>1, <2>2 DEF ClaimIInv, ClaimTypes, RunState
    <2>4. \A q \in Run, m \in Reminder : Holds(runs'[q], m) => Holds(runs[q], m)
      BY <2>1, <2>3, WalkersHoldNothing
    <2> QED
      BY <2>2, <2>3, <2>4, HoldsNoMore DEF ClaimIInv, ClaimTypes
  <1>3. ASSUME NEW r \in Run, Dies(r) PROVE ClaimIInv'
    BY <1>3, WalksOn DEF Dies
  <1> QED
    BY <1>1, <1>2, <1>3, ScanKeeps, ClaimKeeps, SendKeeps, ReleaseKeeps DEF RemindersNext

LEMMA ClaimInit == RemindersInit => ClaimIInv
  <1> SUFFICES ASSUME RemindersInit PROVE ClaimIInv
    OBVIOUS
  <1>1. ClaimTypes
    BY DEF RemindersInit, ClaimTypes, RunState, Reminder
  <1>2. \A r \in Run : \A m : ~Holds(runs[r], m)
    BY WalkersHoldNothing DEF RemindersInit
  <1>3. \A m \in Reminder : sent[m] = 0
    BY DEF RemindersInit, Reminder
  <1> QED
    <2>1. Claimed
      BY <1>2 DEF Claimed
    <2>2. SentOnce
      BY <1>2, <1>3 DEF SentOnce
    <2> QED
      BY <1>1, <2>1, <2>2 DEF ClaimIInv

\* However runs overlap, fail, die and are retried, a reminder reaches the
\* customer once, unless the provider took it unheard, for any number of
\* bookings, kinds and runs (reminder.scheduler.ts:15).
THEOREM OneReminderTheorem == RemindersSpec => []OneReminder
  <1>1. ClaimIInv => OneReminder
    BY DEF ClaimIInv, ClaimTypes, SentOnce, OneReminder, Reminder
  <1> QED
    BY <1>1, ClaimInit, NextKeeps, PTL DEF RemindersSpec

-----------------------------------------------------------------------------
(* A run that did not fail a booking has served it                         *)

\* A reminder is accounted for: sent, held by a run, or left to nobody.
AccountedFor(m) == sent[m] > 0 \/ m \in stuck \/ \E q \in Run : Holds(runs[q], m)

\* Seen from t, a booking as it stands is in the window of the i-th kind.
Wants(b, t, i) == rides[b].stands /\ t >= rides[b].since /\ rides[b].start - t \in Lead[Kinds[i]]

\* The run is past the booking in its loop over the i-th kind.
Past(run, b, i) == i < run.kind \/ (i = run.kind /\ run.at # "scan" /\ b \notin run.due)
PastDue(run, b, i) == i < run.kind \/ (i = run.kind /\ b \notin run.due)

Serves(run) ==
    run # NoRun => \A b \in Ride \ run.failed, i \in 1..Len(Kinds) :
                      Past(run, b, i) /\ Wants(b, run.now, i) => AccountedFor(<<b, Kinds[i]>>)

CleanTimes ==
    /\ rides \in [Ride -> [stands : BOOLEAN, start : Nat, since : Nat]]
    /\ clean \in [Ride -> SUBSET (0..tick)]
    /\ \A r \in Run : runs[r] # NoRun => runs[r].now <= tick

ClaimsServe == \A m \in claims : AccountedFor(m)
RunsServe == \A r \in Run : Serves(runs[r])
CleanServes ==
    \A b \in Ride, i \in 1..Len(Kinds) : \A t \in clean[b] : Wants(b, t, i) => AccountedFor(<<b, Kinds[i]>>)

CleanIInv == CleanTimes /\ ClaimsServe /\ RunsServe /\ CleanServes

\* The loops skip no booking: where they lead, what is past was past.
LEMMA OnwardSkipsNone ==
    ASSUME NEW run \in Walking
    PROVE  /\ Onward(run) = NoRun => \A b \in Ride, i \in 1..Len(Kinds) : PastDue(run, b, i)
           /\ Onward(run) # NoRun =>
                 /\ Onward(run).now = run.now /\ Onward(run).failed = run.failed
                 /\ \A b \in Ride, i \in 1..Len(Kinds) : Past(Onward(run), b, i) => PastDue(run, b, i)
  <1>1. CASE run.due # {}
    <2>1. /\ Onward(run).now = run.now /\ Onward(run).failed = run.failed /\ Onward(run).at = "claim"
          /\ Onward(run).kind = run.kind /\ Onward(run).due = run.due
      BY <1>1 DEF Onward, Walking
    <2> QED
      BY <2>1 DEF Past, PastDue, NoRun
  <1>2. CASE run.due = {} /\ run.kind < Len(Kinds)
    <2>1. /\ Onward(run).now = run.now /\ Onward(run).failed = run.failed /\ Onward(run).at = "scan"
          /\ Onward(run).kind = run.kind + 1
      BY <1>2 DEF Onward, Walking
    <2>2. ASSUME NEW b \in Ride, NEW i \in 1..Len(Kinds), Past(Onward(run), b, i) PROVE PastDue(run, b, i)
      BY <1>2, <2>1, <2>2 DEF Past, PastDue, Walking
    <2> QED
      BY <2>1, <2>2 DEF NoRun
  <1>3. CASE run.due = {} /\ ~(run.kind < Len(Kinds))
    BY <1>3 DEF Onward, PastDue, Walking
  <1> QED
    BY <1>1, <1>2, <1>3

\* What a step of one run does to what the others failed, and to the runs noted
LEMMA OthersServe ==
    ASSUME ClaimTypes, NEW r \in Run, NEW next \in RunState, NEW failed \in SUBSET Ride,
           (Moves(r, next) /\ failed = {}) \/ FailsRides(r, next, failed), clean = [b \in Ride |-> clean[b]]
    PROVE  /\ clean' = [b \in Ride |-> clean'[b]]
           /\ \A b \in Ride : \A t : t \in clean'[b] =>
                 \/ t \in clean[b] /\ b \notin failed
                 \/ next = NoRun /\ t = runs[r].now /\ b \notin runs[r].failed /\ b \notin failed
           /\ \A q \in Run \ {r} : runs'[q] # NoRun =>
                 /\ runs[q] # NoRun /\ runs'[q].now = runs[q].now /\ runs'[q].failed = runs[q].failed \cup failed
                 /\ \A b \in Ride, i \in 1..Len(Kinds) : Past(runs'[q], b, i) => Past(runs[q], b, i)
  <1>1. CASE Moves(r, next) /\ failed = {}
    <2>1. /\ runs' = [runs EXCEPT ![r] = next]
          /\ clean' = [b \in Ride |-> IF next = NoRun /\ b \notin runs[r].failed
                                      THEN clean[b] \cup {runs[r].now} ELSE clean[b]]
      BY <1>1 DEF Moves
    <2>2. \A q \in Run \ {r} : runs'[q] = runs[q] /\ (runs[q] # NoRun => runs[q].failed \cup failed = runs[q].failed)
      BY <1>1, <2>1 DEF ClaimTypes
    <2> QED
      BY <1>1, <2>1, <2>2
  <1>2. CASE FailsRides(r, next, failed)
    <2>1. /\ runs' = [q \in Run |-> IF q = r THEN next
                                    ELSE IF runs[q] = NoRun THEN NoRun ELSE [runs[q] EXCEPT !.failed = @ \cup failed]]
          /\ clean' = [b \in Ride |-> IF b \in failed \/ (next = NoRun /\ b \in runs[r].failed)
                                      THEN {} ELSE clean[b]]
      BY <1>2 DEF FailsRides
    <2>2. ASSUME NEW q \in Run \ {r}, runs'[q] # NoRun
          PROVE  /\ runs[q] # NoRun /\ runs'[q].now = runs[q].now /\ runs'[q].failed = runs[q].failed \cup failed
                 /\ \A b \in Ride, i \in 1..Len(Kinds) : Past(runs'[q], b, i) => Past(runs[q], b, i)
      <3>1. runs[q] # NoRun /\ runs'[q] = [runs[q] EXCEPT !.failed = @ \cup failed]
        BY <2>1, <2>2
      <3>2. runs[q] \in Walking \cup Holding
        BY <3>1 DEF ClaimTypes, RunState
      <3>3. /\ runs'[q].now = runs[q].now /\ runs'[q].kind = runs[q].kind /\ runs'[q].at = runs[q].at
            /\ runs'[q].due = runs[q].due /\ runs'[q].failed = runs[q].failed \cup failed
        BY <3>1, <3>2 DEF Walking, Holding
      <3> QED
        BY <3>1, <3>3 DEF Past
    <2> QED
      BY <2>1, <2>2
  <1> QED
    BY <1>1, <1>2

\* A step loses no reminder but of the bookings it fails.
LosesOnly(failed) ==
    \A b \in Ride \ failed, k \in KindNames : AccountedFor(<<b, k>>) => AccountedFor(<<b, k>>)'

\* Where a step of run r leaves it, it has served the bookings it did not fail, and
\* when the run ends there all of them.
GetsTo(r, next, failed) ==
    /\ next # NoRun => next.now = runs[r].now
    /\ \A b \in Ride, i \in 1..Len(Kinds) :
          /\ Wants(b, runs[r].now, i)
          /\ \/ next # NoRun /\ b \notin next.failed /\ Past(next, b, i)
             \/ next = NoRun /\ b \notin runs[r].failed /\ b \notin failed
          => AccountedFor(<<b, Kinds[i]>>)'

\* A step of one run
LEMMA StepServes ==
    ASSUME ClaimTypes, CleanIInv, NEW r \in Run, NEW next \in RunState, NEW failed \in SUBSET Ride,
           (Moves(r, next) /\ failed = {}) \/ FailsRides(r, next, failed),
           rides' = rides, tick' = tick, runs[r] # NoRun,
           LosesOnly(failed), ClaimsServe', GetsTo(r, next, failed)
    PROVE  CleanIInv'
  <1>1. /\ clean' = [b \in Ride |-> clean'[b]]
        /\ \A b \in Ride : \A t : t \in clean'[b] =>
              \/ t \in clean[b] /\ b \notin failed
              \/ next = NoRun /\ t = runs[r].now /\ b \notin runs[r].failed /\ b \notin failed
        /\ \A q \in Run \ {r} : runs'[q] # NoRun =>
              /\ runs[q] # NoRun /\ runs'[q].now = runs[q].now /\ runs'[q].failed = runs[q].failed \cup failed
              /\ \A b \in Ride, i \in 1..Len(Kinds) : Past(runs'[q], b, i) => Past(runs[q], b, i)
    BY OthersServe DEF CleanIInv, CleanTimes
  <1>2. runs'[r] = next
    BY OthersHold
  <1>3. \A b \in Ride, t \in Int, i \in 1..Len(Kinds) : Wants(b, t, i)' <=> Wants(b, t, i)
    BY DEF Wants
  <1>4. \A q \in Run : runs[q] # NoRun => runs[q].now \in Nat /\ runs[q].now <= tick
    BY DEF ClaimTypes, RunState, Walking, Holding, CleanIInv, CleanTimes
  <1>5. tick \in Nat /\ \A b \in Ride : clean[b] \subseteq 0..tick
    BY DEF ClaimTypes, CleanIInv, CleanTimes
  <1>6. \A i \in 1..Len(Kinds) : Kinds[i] \in KindNames
    BY DEF KindNames
  <1>7. CleanTimes'
    <2>1. clean' \in [Ride -> SUBSET (0..tick)]
      <3>1. ASSUME NEW b \in Ride, NEW t \in clean'[b] PROVE t \in 0..tick
        BY <1>1, <1>4, <1>5
      <3> QED
        BY <1>1, <3>1
    <2>2. \A q \in Run : runs'[q] # NoRun => runs'[q].now <= tick
      BY <1>1, <1>2, <1>4 DEF GetsTo
    <2> QED
      BY <2>1, <2>2 DEF CleanIInv, CleanTimes
  <1>8. RunsServe'
    <2>1. ASSUME NEW q \in Run, runs'[q] # NoRun, NEW b \in Ride \ runs'[q].failed, NEW i \in 1..Len(Kinds),
                 Past(runs'[q], b, i), Wants(b, runs'[q].now, i)
          PROVE  AccountedFor(<<b, Kinds[i]>>)'
      <3>1. CASE q = r
        BY <1>2, <2>1, <3>1 DEF GetsTo
      <3>2. CASE q # r
        <4>1. /\ runs[q] # NoRun /\ runs'[q].now = runs[q].now /\ b \notin runs[q].failed /\ b \notin failed
              /\ Past(runs[q], b, i)
          BY <1>1, <2>1, <3>2
        <4>2. AccountedFor(<<b, Kinds[i]>>)
          BY <2>1, <4>1 DEF CleanIInv, RunsServe, Serves
        <4> QED
          BY <1>6, <4>1, <4>2 DEF LosesOnly
      <3> QED
        BY <3>1, <3>2
    <2>2. \A q \in Run : runs'[q] # NoRun => runs'[q].now \in Int
      BY <1>1, <1>2, <1>4 DEF GetsTo
    <2> QED
      BY <1>3, <2>1, <2>2 DEF RunsServe, Serves
  <1>9. CleanServes'
    <2>1. ASSUME NEW b \in Ride, NEW i \in 1..Len(Kinds), NEW t \in clean'[b], Wants(b, t, i)
          PROVE  AccountedFor(<<b, Kinds[i]>>)'
      <3>1. CASE t \in clean[b] /\ b \notin failed
        <4>1. AccountedFor(<<b, Kinds[i]>>)
          BY <2>1, <3>1 DEF CleanIInv, CleanServes
        <4> QED
          BY <1>6, <3>1, <4>1 DEF LosesOnly
      <3>2. CASE next = NoRun /\ t = runs[r].now /\ b \notin runs[r].failed /\ b \notin failed
        BY <2>1, <3>2 DEF GetsTo
      <3> QED
        BY <1>1, <2>1, <3>1, <3>2
    <2>2. \A b \in Ride : \A t \in clean'[b] : t \in Int
      BY <1>7 DEF CleanTimes
    <2> QED
      BY <1>3, <2>1, <2>2 DEF CleanServes
  <1> QED
    BY <1>7, <1>8, <1>9 DEF CleanIInv

\* A reminder stays accounted for while who holds it keeps it, or leaves it sent or stuck.
LEMMA StaysAccountedFor ==
    ASSUME ClaimTypes, NEW r \in Run, NEW next \in RunState, NEW failed \in SUBSET Ride,
           Moves(r, next) \/ FailsRides(r, next, failed), NEW m, stuck \subseteq stuck',
           sent[m] > 0 => sent'[m] > 0,
           Holds(runs[r], m) => Holds(next, m) \/ m \in stuck' \/ sent'[m] > 0,
           AccountedFor(m)
    PROVE  AccountedFor(m)'
  BY OthersHold DEF AccountedFor

\* A scan leaves out of what is due only what is not in the window.
LEMMA ScanServes ==
    ASSUME ClaimIInv, CleanIInv, NEW r \in Run, Scan(r)
    PROVE  CleanIInv'
  <1>1. runs[r] \in Walking /\ runs[r] # NoRun
    BY DEF Scan, ClaimIInv, ClaimTypes, RunState, NoRun, Holding
  <1> DEFINE due == {b \in Ride : InWindow(rides[b], KindOf(runs[r]), runs[r].now)}
             scanned == [runs[r] EXCEPT !.due = due]
             next == Onward(scanned)
  <1>2. /\ scanned \in Walking /\ scanned.now = runs[r].now /\ scanned.failed = runs[r].failed
        /\ scanned.kind = runs[r].kind /\ scanned.due = due
    <2>1. due \in SUBSET Ride
      OBVIOUS
    <2> HIDE DEF due
    <2> QED
      BY <1>1, <2>1 DEF Walking
  <1>3. Moves(r, next) /\ UNCHANGED <<tick, rides, claims, sent, stuck>>
    BY DEF Scan
  <1>4. \A b \in Ride, i \in 1..Len(Kinds) : PastDue(scanned, b, i) /\ Wants(b, runs[r].now, i) => Past(runs[r], b, i)
    <2>1. ASSUME NEW b \in Ride, b \notin due PROVE ~Wants(b, runs[r].now, runs[r].kind)
      BY <2>1 DEF Wants, InWindow, KindOf
    <2> HIDE DEF due, scanned
    <2> QED
      BY <1>2, <2>1 DEF PastDue, Past
  <1> HIDE DEF due, scanned, next
  <1>5. /\ next \in Walking \cup {NoRun}
        /\ next = NoRun => \A b \in Ride, i \in 1..Len(Kinds) : PastDue(scanned, b, i)
        /\ next # NoRun =>
              /\ next.now = runs[r].now /\ next.failed = runs[r].failed
              /\ \A b \in Ride, i \in 1..Len(Kinds) : Past(next, b, i) => PastDue(scanned, b, i)
    BY <1>2, OnwardSkipsNone, OnwardWalks DEF next
  <1>6. \A m : AccountedFor(m) => AccountedFor(m)'
    BY <1>1, <1>3, <1>5, StaysAccountedFor, WalkersHoldNothing DEF ClaimIInv, RunState
  <1>7. ASSUME NEW b \in Ride, NEW i \in 1..Len(Kinds), b \notin runs[r].failed,
               next = NoRun \/ Past(next, b, i), Wants(b, runs[r].now, i)
        PROVE  AccountedFor(<<b, Kinds[i]>>)'
    <2>1. Past(runs[r], b, i)
      BY <1>4, <1>5, <1>7
    <2> QED
      BY <1>1, <1>6, <1>7, <2>1 DEF CleanIInv, RunsServe, Serves
  <1>8. ClaimsServe'
    BY <1>3, <1>6 DEF CleanIInv, ClaimsServe
  <1>9. LosesOnly({}) /\ GetsTo(r, next, {})
    BY <1>5, <1>6, <1>7 DEF LosesOnly, GetsTo
  <1>10. next \in RunState /\ ClaimTypes
    BY <1>5 DEF RunState, ClaimIInv
  <1> QED
    BY <1>1, <1>3, <1>8, <1>9, <1>10, StepServes
\* A claim that is not granted is someone's, who accounts for it.
LEMMA ClaimServes ==
    ASSUME ClaimIInv, CleanIInv, NEW r \in Run, Claim(r)
    PROVE  CleanIInv'
  <1>1. runs[r] \in Walking /\ runs[r] # NoRun /\ runs[r].at = "claim"
    BY DEF Claim, ClaimIInv, ClaimTypes, RunState, NoRun, Holding
  <1>2. UNCHANGED <<tick, rides, sent>>
    BY DEF Claim
  <1>3. PICK b \in runs[r].due :
            LET m == <<b, KindOf(runs[r])>>
                left == [runs[r] EXCEPT !.due = @ \ {b}]
            IN  \/ /\ Claimable(m)
                   /\ claims' = claims \cup {m}
                   /\ Moves(r, [at |-> "send", ride |-> b, kind |-> left.kind, now |-> left.now,
                                due |-> left.due, failed |-> left.failed])
                   /\ UNCHANGED stuck
                \/ /\ ~Claimable(m)
                   /\ Moves(r, Onward(left)) /\ UNCHANGED <<claims, stuck>>
                \/ /\ FailsRides(r, Onward([left EXCEPT !.failed = @ \cup {b}]), {b})
                   /\ \/ UNCHANGED <<claims, stuck>>
                      \/ Claimable(m) /\ claims' = claims \cup {m} /\ stuck' = stuck \cup {m}
    BY DEF Claim
  <1>4. b \in Ride /\ runs[r].kind \in 1..Len(Kinds)
    BY <1>1 DEF Walking
  <1>4a. PICK j \in 1..Len(Kinds) : j = runs[r].kind
    BY <1>4
  <1> DEFINE m == <<b, Kinds[j]>>
             left == [runs[r] EXCEPT !.due = @ \ {b}]
             without == [left EXCEPT !.failed = @ \cup {b}]
             holder == [at |-> "send", ride |-> b, kind |-> left.kind, now |-> left.now,
                        due |-> left.due, failed |-> left.failed]
             on == Onward(left)
             after == Onward(without)
  <1>5. /\ left \in Walking /\ left.kind = runs[r].kind /\ left.now = runs[r].now /\ left.failed = runs[r].failed
        /\ left.due = runs[r].due \ {b}
    BY <1>1, <1>4 DEF Walking
  <1>6. /\ without \in Walking /\ without.kind = runs[r].kind /\ without.now = runs[r].now
        /\ without.failed = runs[r].failed \cup {b} /\ without.due = runs[r].due \ {b}
    <2> HIDE DEF left
    <2> QED
      BY <1>4, <1>5 DEF Walking
  <1>7. /\ holder \in Holding /\ holder.kind = runs[r].kind /\ holder.now = runs[r].now /\ holder.failed = runs[r].failed
        /\ holder.due = runs[r].due \ {b} /\ Holds(holder, m) /\ holder # NoRun
    <2> HIDE DEF left
    <2> QED
      BY <1>4, <1>5, <1>4a DEF Walking, Holding, Holds, KindOf, NoRun
  <1>8. \/ m \notin claims /\ claims' = claims \cup {m} /\ Moves(r, holder) /\ UNCHANGED stuck
        \/ m \in claims /\ Moves(r, on) /\ UNCHANGED <<claims, stuck>>
        \/ /\ FailsRides(r, after, {b})
           /\ UNCHANGED <<claims, stuck>> \/ (claims' = claims \cup {m} /\ stuck' = stuck \cup {m})
    BY <1>3, <1>4a DEF Claimable, KindOf
  <1>9. ASSUME NEW c \in Ride, NEW i \in 1..Len(Kinds), c \notin runs[r].failed, Wants(c, runs[r].now, i),
               i < runs[r].kind \/ (i = runs[r].kind /\ c \notin runs[r].due)
        PROVE  AccountedFor(<<c, Kinds[i]>>)
    BY <1>1, <1>9 DEF CleanIInv, RunsServe, Serves, Past
  <1>10. /\ on \in Walking \cup {NoRun} /\ after \in Walking \cup {NoRun}
         /\ on = NoRun => \A c \in Ride, i \in 1..Len(Kinds) : PastDue(left, c, i)
         /\ on # NoRun =>
               /\ on.now = runs[r].now /\ on.failed = runs[r].failed
               /\ \A c \in Ride, i \in 1..Len(Kinds) : Past(on, c, i) => PastDue(left, c, i)
         /\ after = NoRun => \A c \in Ride, i \in 1..Len(Kinds) : PastDue(without, c, i)
         /\ after # NoRun =>
               /\ after.now = runs[r].now /\ after.failed = runs[r].failed \cup {b}
               /\ \A c \in Ride, i \in 1..Len(Kinds) : Past(after, c, i) => PastDue(without, c, i)
    <2> HIDE DEF left, without
    <2> QED
      BY <1>5, <1>6, OnwardSkipsNone, OnwardWalks
  <1>11. /\ holder \in RunState /\ on \in RunState /\ after \in RunState
         /\ {b} \in SUBSET Ride /\ {} \in SUBSET Ride
    BY <1>4, <1>7, <1>10 DEF RunState
  <1> HIDE DEF m, left, without, holder, on, after
  <1>12. \A x : ~Holds(runs[r], x)
    BY <1>1, WalkersHoldNothing
  <1>13. \A x : AccountedFor(x) => AccountedFor(x)'
    BY <1>2, <1>8, <1>11, <1>12, StaysAccountedFor DEF ClaimIInv
  <1>14. CASE m \notin claims /\ claims' = claims \cup {m} /\ Moves(r, holder) /\ UNCHANGED stuck
    <2>1. AccountedFor(m)'
      <3>1. runs'[r] = holder
        BY <1>14 DEF Moves, ClaimIInv, ClaimTypes
      <3> QED
        BY <1>7, <3>1 DEF AccountedFor
    <2>2. ClaimsServe'
      BY <1>13, <1>14, <2>1 DEF CleanIInv, ClaimsServe
    <2>3. LosesOnly({})
      BY <1>13 DEF LosesOnly
    <2>4. ASSUME NEW c \in Ride, NEW i \in 1..Len(Kinds), Wants(c, runs[r].now, i), c \notin holder.failed, Past(holder, c, i)
          PROVE  AccountedFor(<<c, Kinds[i]>>)'
      <3>1. i < runs[r].kind \/ (i = runs[r].kind /\ (c \notin runs[r].due \/ c = b))
        BY <1>7, <2>4 DEF Past
      <3> QED
        BY <1>7, <1>9, <1>13, <1>4a, <2>1, <2>4, <3>1 DEF m
    <2>5. GetsTo(r, holder, {})
      BY <1>7, <2>4 DEF GetsTo
    <2> QED
      BY <1>1, <1>2, <1>11, <1>14, <2>2, <2>3, <2>5, StepServes DEF ClaimIInv
  <1>15. CASE m \in claims /\ Moves(r, on) /\ UNCHANGED <<claims, stuck>>
    <2>1. AccountedFor(m)'
      BY <1>13, <1>15 DEF CleanIInv, ClaimsServe
    <2>2. ClaimsServe'
      BY <1>13, <1>15 DEF CleanIInv, ClaimsServe
    <2>3. LosesOnly({})
      BY <1>13 DEF LosesOnly
    <2>4. ASSUME NEW c \in Ride, NEW i \in 1..Len(Kinds), Wants(c, runs[r].now, i), c \notin runs[r].failed,
                 PastDue(left, c, i)
          PROVE  AccountedFor(<<c, Kinds[i]>>)'
      <3>1. i < runs[r].kind \/ (i = runs[r].kind /\ (c \notin runs[r].due \/ c = b))
        BY <1>5, <2>4 DEF PastDue
      <3> QED
        BY <1>9, <1>13, <1>4a, <2>1, <2>4, <3>1 DEF m
    <2>5. GetsTo(r, on, {})
      BY <1>10, <2>4 DEF GetsTo
    <2> QED
      BY <1>1, <1>2, <1>11, <1>15, <2>2, <2>3, <2>5, StepServes DEF ClaimIInv
  <1>16. CASE /\ FailsRides(r, after, {b})
              /\ UNCHANGED <<claims, stuck>> \/ (claims' = claims \cup {m} /\ stuck' = stuck \cup {m})
    <2>1. ClaimsServe'
      BY <1>13, <1>16 DEF CleanIInv, ClaimsServe, AccountedFor
    <2>2. LosesOnly({b})
      BY <1>13 DEF LosesOnly
    <2>3. ASSUME NEW c \in Ride, NEW i \in 1..Len(Kinds), Wants(c, runs[r].now, i), c \notin runs[r].failed, c # b,
                 PastDue(without, c, i)
          PROVE  AccountedFor(<<c, Kinds[i]>>)'
      <3>1. i < runs[r].kind \/ (i = runs[r].kind /\ c \notin runs[r].due)
        BY <1>6, <2>3 DEF PastDue
      <3> QED
        BY <1>9, <1>13, <2>3, <3>1
    <2>4. GetsTo(r, after, {b})
      BY <1>10, <2>3 DEF GetsTo
    <2> QED
      BY <1>1, <1>2, <1>11, <1>16, <2>1, <2>2, <2>4, StepServes DEF ClaimIInv
  <1> QED
    BY <1>8, <1>14, <1>15, <1>16

\* The run has not left the booking it holds before it is sent or given back.
LEMMA SendServes ==
    ASSUME ClaimIInv, CleanIInv, NEW r \in Run, Send(r)
    PROVE  CleanIInv'
  <1> DEFINE m == <<runs[r].ride, KindOf(runs[r])>>
             looped == Loop(runs[r], runs[r].failed)
             on == Onward(looped)
             back == [runs[r] EXCEPT !.at = "release"]
  <1>1. /\ runs[r] \in Holding /\ m \in Reminder /\ runs[r].ride \in Ride /\ runs[r] # NoRun
        /\ runs[r].kind \in 1..Len(Kinds) /\ runs[r].at = "send"
        /\ \A x : Holds(runs[r], x) <=> x = m
    BY HolderIsAlone DEF Send, Holding, NoRun
  <1>2. UNCHANGED <<tick, rides, claims, stuck>>
    BY DEF Send
  <1>3. \/ sent' = [sent EXCEPT ![m] = @ + 1] /\ Moves(r, on)
        \/ FailsRides(r, back, {runs[r].ride}) /\ (sent' = [sent EXCEPT ![m] = @ + 1] \/ sent' = sent)
    BY DEF Send
  <1>4. /\ looped \in Walking /\ looped.kind = runs[r].kind /\ looped.now = runs[r].now
        /\ looped.due = runs[r].due /\ looped.failed = runs[r].failed
    BY <1>1 DEF Loop, Walking, Holding
  <1>5. /\ back \in Holding /\ back.kind = runs[r].kind /\ back.now = runs[r].now /\ back.at = "release"
        /\ back.due = runs[r].due /\ back.failed = runs[r].failed /\ back.ride = runs[r].ride
    BY <1>1 DEF Holding
  <1>6. Holds(back, m)
    <2> HIDE DEF back
    <2> QED
      BY <1>5 DEF Holds, KindOf
  <1>7. /\ on \in Walking \cup {NoRun}
        /\ on = NoRun => \A c \in Ride, i \in 1..Len(Kinds) : PastDue(looped, c, i)
        /\ on # NoRun =>
              /\ on.now = runs[r].now /\ on.failed = runs[r].failed
              /\ \A c \in Ride, i \in 1..Len(Kinds) : Past(on, c, i) => PastDue(looped, c, i)
    <2> HIDE DEF looped
    <2> QED
      BY <1>4, OnwardSkipsNone, OnwardWalks
  <1>8. on \in RunState /\ back \in RunState /\ {runs[r].ride} \in SUBSET Ride /\ {} \in SUBSET Ride
    BY <1>1, <1>5, <1>7 DEF RunState
  <1>9. ASSUME NEW c \in Ride, NEW i \in 1..Len(Kinds), c \notin runs[r].failed, Wants(c, runs[r].now, i),
               i < runs[r].kind \/ (i = runs[r].kind /\ c \notin runs[r].due)
        PROVE  AccountedFor(<<c, Kinds[i]>>)
    BY <1>1, <1>9 DEF CleanIInv, RunsServe, Serves, Past
  <1> HIDE DEF m, looped, on, back
  <1>10. /\ sent' = [sent EXCEPT ![m] = @ + 1] => sent'[m] > 0
         /\ \A x \in Reminder : sent[x] > 0 => sent'[x] > 0
    BY <1>1, <1>3 DEF ClaimIInv, ClaimTypes
  <1>11. \A x \in Reminder : AccountedFor(x) => AccountedFor(x)'
    BY <1>1, <1>2, <1>3, <1>6, <1>8, <1>10, StaysAccountedFor DEF ClaimIInv
  <1>12. ClaimsServe'
    BY <1>2, <1>11 DEF CleanIInv, ClaimsServe, ClaimIInv, ClaimTypes
  <1>13. CASE Moves(r, on)
    <2>1. ASSUME NEW c \in Ride, NEW i \in 1..Len(Kinds), Wants(c, runs[r].now, i), c \notin runs[r].failed,
                 PastDue(looped, c, i)
          PROVE  AccountedFor(<<c, Kinds[i]>>)'
      BY <1>4, <1>9, <1>11, <2>1 DEF PastDue, Reminder, KindNames
    <2>2. LosesOnly({}) /\ GetsTo(r, on, {})
      BY <1>7, <1>11, <2>1 DEF LosesOnly, GetsTo, Reminder
    <2> QED
      BY <1>1, <1>2, <1>8, <1>12, <1>13, <2>2, StepServes DEF ClaimIInv
  <1>14. CASE FailsRides(r, back, {runs[r].ride})
    <2>1. ASSUME NEW c \in Ride, NEW i \in 1..Len(Kinds), Wants(c, runs[r].now, i), c \notin back.failed, Past(back, c, i)
          PROVE  AccountedFor(<<c, Kinds[i]>>)'
      BY <1>5, <1>9, <1>11, <2>1 DEF Past, Reminder, KindNames
    <2>2. LosesOnly({runs[r].ride}) /\ GetsTo(r, back, {runs[r].ride})
      BY <1>5, <1>11, <2>1 DEF LosesOnly, GetsTo, Reminder, Holding, NoRun
    <2> QED
      BY <1>1, <1>2, <1>8, <1>12, <1>14, <2>2, StepServes DEF ClaimIInv
  <1> QED
    BY <1>3, <1>13, <1>14

\* What is given back is its booking's failure to every run.
LEMMA ReleaseServes ==
    ASSUME ClaimIInv, CleanIInv, NEW r \in Run, Release(r)
    PROVE  CleanIInv'
  <1> DEFINE ride == runs[r].ride
             m == <<ride, KindOf(runs[r])>>
             looped == Loop(runs[r], runs[r].failed \cup {ride})
             on == Onward(looped)
  <1>1. /\ runs[r] \in Holding /\ m \in Reminder /\ ride \in Ride /\ runs[r] # NoRun
        /\ runs[r].kind \in 1..Len(Kinds) /\ runs[r].at = "release"
        /\ \A x : Holds(runs[r], x) <=> x = m
    BY HolderIsAlone DEF Release, Holding, NoRun
  <1>2. /\ UNCHANGED <<tick, rides, sent>> /\ FailsRides(r, on, {ride})
        /\ \/ claims' = claims \ {m} /\ stuck' = stuck
           \/ claims' = claims /\ stuck' = stuck \cup {m}
    BY DEF Release, Released
  <1>3. /\ looped \in Walking /\ looped.kind = runs[r].kind /\ looped.now = runs[r].now
        /\ looped.due = runs[r].due /\ looped.failed = runs[r].failed \cup {ride}
    BY <1>1 DEF Loop, Walking, Holding
  <1>4. /\ on \in Walking \cup {NoRun}
        /\ on = NoRun => \A c \in Ride, i \in 1..Len(Kinds) : PastDue(looped, c, i)
        /\ on # NoRun =>
              /\ on.now = runs[r].now /\ on.failed = runs[r].failed \cup {ride}
              /\ \A c \in Ride, i \in 1..Len(Kinds) : Past(on, c, i) => PastDue(looped, c, i)
    <2> HIDE DEF looped, ride
    <2> QED
      BY <1>3, OnwardSkipsNone, OnwardWalks
  <1>5. on \in RunState /\ {ride} \in SUBSET Ride
    BY <1>1, <1>4 DEF RunState
  <1>6. ASSUME NEW c \in Ride, NEW i \in 1..Len(Kinds), c \notin runs[r].failed, Wants(c, runs[r].now, i),
               i < runs[r].kind \/ (i = runs[r].kind /\ c \notin runs[r].due)
        PROVE  AccountedFor(<<c, Kinds[i]>>)
    BY <1>1, <1>6 DEF CleanIInv, RunsServe, Serves, Past
  <1>7. \A c \in Ride, k \in KindNames : c # ride => <<c, k>> # m
    OBVIOUS
  <1>8. \A i \in 1..Len(Kinds) : Kinds[i] \in KindNames
    BY DEF KindNames
  <1> HIDE DEF ride, m, looped, on
  <1>9. \A x : x # m /\ AccountedFor(x) => AccountedFor(x)'
    BY <1>1, <1>2, <1>5, StaysAccountedFor DEF ClaimIInv
  <1>10. ClaimsServe'
    BY <1>2, <1>9 DEF CleanIInv, ClaimsServe, AccountedFor
  <1>11. ASSUME NEW c \in Ride, NEW i \in 1..Len(Kinds), Wants(c, runs[r].now, i), c \notin runs[r].failed, c # ride,
                PastDue(looped, c, i)
         PROVE  AccountedFor(<<c, Kinds[i]>>)'
    <2>1. AccountedFor(<<c, Kinds[i]>>)
      BY <1>3, <1>6, <1>11 DEF PastDue
    <2>2. <<c, Kinds[i]>> # m
      BY <1>7, <1>8, <1>11
    <2> QED
      BY <1>9, <2>1, <2>2
  <1>12. LosesOnly({ride})
    BY <1>7, <1>9 DEF LosesOnly
  <1>13. GetsTo(r, on, {ride})
    BY <1>4, <1>11 DEF GetsTo
  <1> QED
    BY <1>1, <1>2, <1>5, <1>10, <1>12, <1>13, StepServes DEF ClaimIInv

\* A run that dies fails every booking, and leaves its claim stuck.
LEMMA DiesServes ==
    ASSUME ClaimIInv, CleanIInv, NEW r \in Run, Dies(r)
    PROVE  CleanIInv'
  <1>1. /\ UNCHANGED <<tick, rides, claims, sent>> /\ runs[r] # NoRun /\ FailsRides(r, NoRun, Ride)
        /\ stuck' = stuck \cup {m \in Reminder : Holds(runs[r], m)}
    BY DEF Dies, Reminder
  <1>2. NoRun \in RunState /\ Ride \in SUBSET Ride
    BY DEF RunState
  <1>3. \A m \in Reminder : AccountedFor(m) => AccountedFor(m)'
    <2>1. \A m \in Reminder : Holds(runs[r], m) => m \in stuck'
      BY <1>1
    <2> QED
      BY <1>1, <1>2, <2>1, StaysAccountedFor DEF ClaimIInv
  <1>4. ClaimsServe'
    BY <1>1, <1>3 DEF CleanIInv, ClaimsServe, ClaimIInv, ClaimTypes
  <1>5. LosesOnly(Ride) /\ GetsTo(r, NoRun, Ride)
    BY DEF LosesOnly, GetsTo
  <1> QED
    BY <1>1, <1>2, <1>4, <1>5, StepServes DEF ClaimIInv

\* A run that starts has passed nothing; a booking that moves wants nothing of the
\* runs that read it before.
LEMMA OutsideServes ==
    ASSUME ClaimIInv, CleanIInv,
           Tick \/ (\E b \in Ride : Rebook(b)) \/ (\E r \in Run : Start(r)) \/ UNCHANGED reminderVars
    PROVE  CleanIInv'
  <1>1. CASE Tick \/ UNCHANGED reminderVars
    <2>1. /\ tick' \in Nat /\ tick \in Nat /\ tick <= tick' /\ UNCHANGED <<rides, claims, runs, sent, stuck, clean>>
      BY <1>1 DEF Tick, reminderVars, ClaimIInv, ClaimTypes
    <2>2. \A r \in Run : runs[r] # NoRun => runs[r].now \in Nat
      BY DEF ClaimIInv, ClaimTypes, RunState, Walking, Holding
    <2>3. CleanTimes'
      <3>1. 0..tick \subseteq 0..tick'
        BY <2>1
      <3>2. clean \in [Ride -> SUBSET (0..tick')]
        BY <3>1 DEF CleanIInv, CleanTimes
      <3>3. \A r \in Run : runs[r] # NoRun => runs[r].now <= tick'
        BY <2>1, <2>2 DEF CleanIInv, CleanTimes
      <3> QED
        BY <2>1, <3>2, <3>3 DEF CleanIInv, CleanTimes
    <2>4. ClaimsServe' /\ RunsServe' /\ CleanServes'
      BY <2>1 DEF CleanIInv, ClaimsServe, RunsServe, CleanServes, Serves, AccountedFor, Wants
    <2> QED
      BY <2>3, <2>4 DEF CleanIInv
  <1>2. ASSUME NEW x \in Ride, Rebook(x) PROVE CleanIInv'
    <2>1. UNCHANGED <<tick, claims, runs, sent, stuck, clean>>
      BY <1>2 DEF Rebook
    <2>2. tick \in Nat /\ rides \in [Ride -> [stands : BOOLEAN, start : Nat, since : Nat]]
      BY DEF ClaimIInv, ClaimTypes, CleanIInv, CleanTimes
    <2>3. /\ rides' \in [Ride -> [stands : BOOLEAN, start : Nat, since : Nat]]
          /\ \A b \in Ride \ {x} : rides'[b] = rides[b]
          /\ rides'[x].stands => rides'[x].since = tick + 1
      <3>1. CASE rides' = [rides EXCEPT ![x].stands = FALSE]
        BY <2>2, <3>1
      <3>2. CASE \E s \in StartTime :
                    s > tick /\ rides' = [rides EXCEPT ![x] = [stands |-> TRUE, start |-> s, since |-> tick + 1]]
        <4>1. PICK s \in StartTime : rides' = [rides EXCEPT ![x] = [stands |-> TRUE, start |-> s, since |-> tick + 1]]
          BY <3>2
        <4>2. s \in Nat /\ tick + 1 \in Nat
          BY <2>2, RemindersAssumption
        <4> DEFINE ride == [stands |-> TRUE, start |-> s, since |-> tick + 1]
        <4>3. ride \in [stands : BOOLEAN, start : Nat, since : Nat] /\ ride.since = tick + 1
          BY <4>2
        <4>4. rides' = [rides EXCEPT ![x] = ride]
          BY <4>1
        <4> HIDE DEF ride
        <4> QED
          BY <2>2, <4>3, <4>4
      <3> QED
        BY <1>2, <3>1, <3>2 DEF Rebook
    <2>4. ASSUME NEW b \in Ride, NEW t \in Nat, t <= tick, NEW i \in 1..Len(Kinds), Wants(b, t, i)'
          PROVE  Wants(b, t, i)
      <3>1. CASE b = x
        BY <2>2, <2>3, <2>4, <3>1 DEF Wants
      <3>2. CASE b # x
        BY <2>3, <2>4, <3>2 DEF Wants
      <3> QED
        BY <3>1, <3>2
    <2>5. \A m : AccountedFor(m)' <=> AccountedFor(m)
      BY <2>1 DEF AccountedFor
    <2>6. CleanTimes'
      BY <2>1, <2>3 DEF CleanIInv, CleanTimes
    <2>7. ClaimsServe'
      BY <2>1, <2>5 DEF CleanIInv, ClaimsServe
    <2>8. RunsServe'
      <3>1. \A r \in Run : runs[r] # NoRun => runs[r].now \in Nat /\ runs[r].now <= tick
        BY DEF ClaimIInv, ClaimTypes, RunState, Walking, Holding, CleanIInv, CleanTimes
      <3> QED
        BY <2>1, <2>4, <2>5, <3>1 DEF CleanIInv, RunsServe, Serves
    <2>9. CleanServes'
      <3>1. \A b \in Ride : \A t \in clean[b] : t \in Nat /\ t <= tick
        BY <2>2 DEF CleanIInv, CleanTimes
      <3> QED
        BY <2>1, <2>4, <2>5, <3>1 DEF CleanIInv, CleanServes
    <2> QED
      BY <2>6, <2>7, <2>8, <2>9 DEF CleanIInv
  <1>3. ASSUME NEW r \in Run, Start(r) PROVE CleanIInv'
    <2> DEFINE next == [at |-> "scan", kind |-> 1, now |-> tick, due |-> {}, failed |-> {}]
    <2>1. UNCHANGED <<tick, rides, claims, sent, stuck, clean>> /\ runs[r] = NoRun /\ runs' = [runs EXCEPT ![r] = next]
      BY <1>3 DEF Start
    <2>2. /\ tick \in Nat /\ next.now = tick /\ \A m : ~Holds(runs[r], m)
          /\ \A b \in Ride, i \in 1..Len(Kinds) : ~Past(next, b, i)
      BY <2>1 DEF Holds, NoRun, Past, ClaimIInv, ClaimTypes
    <2> HIDE DEF next
    <2>3. runs'[r] = next /\ \A q \in Run \ {r} : runs'[q] = runs[q]
      BY <2>1 DEF ClaimIInv, ClaimTypes
    <2>4. \A m : AccountedFor(m) => AccountedFor(m)'
      BY <2>1, <2>2, <2>3 DEF AccountedFor
    <2>5. \A b, t, i : Wants(b, t, i)' <=> Wants(b, t, i)
      BY <2>1 DEF Wants
    <2>6. CleanTimes'
      BY <2>1, <2>2, <2>3 DEF CleanIInv, CleanTimes
    <2>7. ClaimsServe' /\ CleanServes'
      BY <2>1, <2>4, <2>5 DEF CleanIInv, ClaimsServe, CleanServes
    <2>8. ASSUME NEW q \in Run PROVE Serves(runs[q])'
      <3>1. CASE q = r
        BY <2>2, <2>3, <3>1 DEF Serves
      <3>2. CASE q # r
        BY <2>3, <2>4, <2>5, <3>2 DEF Serves, CleanIInv, RunsServe
      <3> QED
        BY <3>1, <3>2
    <2> QED
      BY <2>6, <2>7, <2>8 DEF CleanIInv, RunsServe
  <1> QED
    BY <1>1, <1>2, <1>3

\* A run whose window a booking was in, and that did not fail it, was enough: its
\* reminder was sent, is being sent, or its claim was left to nobody by a run that
\* died or a failed call of the log (remind, release), for any number of bookings, kinds and runs.
THEOREM CleanRunTheorem == RemindersSpec => []CleanRunReminds
  <1>1. RemindersInit => ClaimIInv /\ CleanIInv
    <2> SUFFICES ASSUME RemindersInit PROVE CleanIInv
      BY ClaimInit
    <2>1. CleanTimes
      <3>1. StartTime \subseteq Nat
        BY RemindersAssumption
      <3>2. ASSUME NEW b \in Ride
            PROVE  rides[b] \in [stands : BOOLEAN, start : Nat, since : Nat]
        <4>1. rides[b] \in [stands : BOOLEAN, start : StartTime, since : {0}]
          BY DEF RemindersInit
        <4>2. rides[b] = [stands |-> rides[b].stands, start |-> rides[b].start, since |-> rides[b].since]
          BY <4>1
        <4>3. rides[b].stands \in BOOLEAN
          BY <4>1
        <4>4. rides[b].start \in Nat
          BY <3>1, <4>1
        <4>5. rides[b].since \in Nat
          BY <4>1
        <4> QED
          BY <4>2, <4>3, <4>4, <4>5
      <3>3. rides \in [Ride -> [stands : BOOLEAN, start : Nat, since : Nat]]
        BY <3>2 DEF RemindersInit
      <3> QED
        BY <3>3 DEF RemindersInit, CleanTimes
    <2>2. ClaimsServe /\ RunsServe /\ CleanServes
      BY DEF RemindersInit, ClaimsServe, RunsServe, Serves, CleanServes
    <2> QED
      BY <2>1, <2>2 DEF CleanIInv
  <1>2. ClaimIInv /\ CleanIInv /\ [RemindersNext]_reminderVars => CleanIInv'
    BY OutsideServes, ScanServes, ClaimServes, SendServes, ReleaseServes, DiesServes DEF RemindersNext
  <1>3. CleanIInv => CleanRunReminds
    <2> SUFFICES ASSUME CleanIInv, NEW b \in Ride, NEW k \in KindNames, rides[b].stands,
                        NEW t \in clean[b], t >= rides[b].since, rides[b].start - t \in Lead[k]
                 PROVE  AccountedFor(<<b, k>>)
      BY DEF CleanRunReminds, AccountedFor
    <2>1. PICK i \in 1..Len(Kinds) : k = Kinds[i]
      BY DEF KindNames
    <2> QED
      BY <2>1 DEF CleanIInv, CleanServes, Wants
  <1> QED
    BY <1>1, <1>2, <1>3, NextKeeps, PTL DEF RemindersSpec
=============================================================================
