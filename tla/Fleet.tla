-------------------------------- MODULE Fleet --------------------------------
(***************************************************************************)
(* The vehicles of a tenant, the branches that stock them and the          *)
(* transfers between branches, as administrators edit them side by side    *)
(* and customers book.  One vehicle stands for all: nothing relates two.   *)
(*                                                                         *)
(* Every handler reads a record, waits, and saves the whole record back;   *)
(* nothing locks it in between.  A request is therefore a read and, some   *)
(* steps later, a write of what was read.  Completing a transfer writes    *)
(* twice: the transfer, then the vehicle.  What an administrator sends     *)
(* comes from a page that may be as old as the record it shows.            *)
(*                                                                         *)
(* Sources: apps/api/src/admin (admin-vehicles, admin-branches and         *)
(* admin-vehicle-allocations controllers), packages/domain/src/entities    *)
(* (vehicle, branch, inventory), catalog and inventory repositories, the   *)
(* lookups of Booking__c, and the two console pages.                       *)
(***************************************************************************)
EXTENDS Integers

CONSTANTS
    Lot,                \* branches
    DealershipOf,       \* the dealership of each, fixed for its lifetime
    Transfer,           \* transfers (Vehicle_Allocation__c) that may be made
    FleetRequest,       \* requests that may be in flight at a time
    MaxFleetChanges     \* bound on the requests served

ASSUME FleetAssumption ==
    /\ MaxFleetChanges \in Nat
    /\ \A b \in Lot : DealershipOf[b] \notin Lot

VARIABLES
    vehicle,        \* the vehicle, or Gone
    openLots,       \* the active branches
    transfers,      \* the transfers made
    served,         \* what each request has read and will write
    drives,         \* the branches the vehicle has been booked at
    sentTo,         \* history: where the vehicle was last sent
    disturbed,      \* history: writes overlapped, or one of two was lost
    fleetChanges    \* how many requests have been served

fleetVars == <<vehicle, openLots, transfers, served, drives, sentTo, disturbed, fleetChanges>>

-----------------------------------------------------------------------------
(* Records                                                                 *)

Gone == [branch |-> "none", dealership |-> "none", status |-> "Gone"]
VehicleStatus == {"Available", "Sold"}
IsBookable(v) == v.status = "Available"

\* moveToBranch: a vehicle's dealership follows its branch ...
MovesBranchOnly(v, b) == [v EXCEPT !.branch = b]
MovedTo(v, b) == [v EXCEPT !.branch = b, !.dealership = DealershipOf[b]]
\* ... and the org refuses a record in which it does not.
SavesVehicle(v) == vehicle # Gone /\ v.dealership = DealershipOf[v.branch]

Offered == [Requested |-> {"In_Transit", "Completed", "Cancelled"},
            In_Transit |-> {"Completed", "Cancelled"}, Completed |-> {}, Cancelled |-> {}]
NoTransfer == [from |-> "none", to |-> "none", status |-> "none"]

Made == {t \in Transfer : transfers[t] # NoTransfer}
Waiting == [doing |-> "nothing"]

-----------------------------------------------------------------------------
(* A request reads                                                         *)

\* Requests that have read, or are about to read, a vehicle they will save.
WritesVehicle(request) == request.doing \in {"update", "deliver", "move"}

Read(r, request) ==
    /\ served[r] = Waiting
    /\ fleetChanges < MaxFleetChanges
    /\ fleetChanges' = fleetChanges + 1
    /\ served' = [served EXCEPT ![r] = request]
    /\ disturbed' = (disturbed \/ (WritesVehicle(request) /\ \E q \in FleetRequest : WritesVehicle(served[q])))
    /\ UNCHANGED <<vehicle, openLots, transfers, drives, sentTo>>

\* The edit form sends every field that it shows, the branch with them, ...
Forms == Lot \X VehicleStatus

\* ... and the vehicle moves when the branch is not the one it has.
Patched(form) ==
    LET patched == [vehicle EXCEPT !.status = form[2]]
    IN  IF form[1] # vehicle.branch THEN MovedTo(patched, form[1]) ELSE patched

Update(r) ==
    /\ vehicle # Gone
    /\ \E form \in Forms :
        Read(r, [doing |-> "update", sent |-> form[1] # vehicle.branch, vehicle |-> Patched(form)])

Delete(r) == vehicle # Gone /\ drives = {} /\ Read(r, [doing |-> "delete"])

RequestTransfer(r) ==
    \E t \in Transfer \ Made, b \in Lot :
        /\ vehicle # Gone /\ vehicle.branch # b
        /\ Read(r, [doing |-> "request", id |-> t,
                    transfer |-> [from |-> vehicle.branch, to |-> b, status |-> "Requested"]])

\* The page offers by the status it shows; the server takes what it is sent.
AdvanceTransfer(r) ==
    \E t \in Made : \E to \in Offered["Requested"] :
        Read(r, [doing |-> IF to = "Completed" THEN "deliver" ELSE "advance", id |-> t,
                 transfer |-> [transfers[t] EXCEPT !.status = to]])

\* resolveBookingBranch, on the way to a booking
Book(r) == IsBookable(vehicle) /\ vehicle.branch \in openLots /\ Read(r, [doing |-> "book", branch |-> vehicle.branch])

\* A branch's details, its active flag among them
EditLot(r) ==
    \E b \in Lot, active \in BOOLEAN : Read(r, [doing |-> "lot", branch |-> b, active |-> active])

-----------------------------------------------------------------------------
(* ... and, later, writes                                                  *)

Answered(r) == served' = [served EXCEPT ![r] = Waiting]

WriteUpdate(r) ==
    /\ served[r].doing = "update"
    /\ vehicle' = IF SavesVehicle(served[r].vehicle) THEN served[r].vehicle ELSE vehicle
    /\ sentTo' = IF served[r].sent THEN served[r].vehicle.branch ELSE sentTo
    /\ Answered(r)
    /\ UNCHANGED <<openLots, transfers, drives, disturbed, fleetChanges>>

\* A booking keeps its vehicle (Restrict); the vehicle takes its transfers.
DeletesVehicle == drives = {}

WriteDelete(r) ==
    /\ served[r].doing = "delete"
    /\ IF DeletesVehicle
       THEN vehicle' = Gone /\ transfers' = [t \in Transfer |-> NoTransfer]
       ELSE UNCHANGED <<vehicle, transfers>>
    /\ Answered(r)
    /\ UNCHANGED <<openLots, drives, sentTo, disturbed, fleetChanges>>

Saves(r) == transfers' = [transfers EXCEPT ![served[r].id] = served[r].transfer]

WriteTransfer(r) ==
    /\ served[r].doing \in {"request", "advance"}
    /\ IF vehicle # Gone /\ (served[r].doing = "request" \/ served[r].id \in Made)
       THEN Saves(r) ELSE UNCHANGED transfers
    /\ Answered(r)
    /\ UNCHANGED <<vehicle, openLots, drives, sentTo, disturbed, fleetChanges>>

\* complete: the transfer is saved, ...
WriteCompleted(r) ==
    /\ served[r].doing = "deliver"
    /\ IF served[r].id \in Made
       THEN /\ Saves(r)
            /\ sentTo' = served[r].transfer.to
            /\ served' = [served EXCEPT ![r] = [doing |-> "move", read |-> FALSE, to |-> served[r].transfer.to]]
       ELSE Answered(r) /\ UNCHANGED <<transfers, sentTo>>
    /\ UNCHANGED <<vehicle, openLots, drives, disturbed, fleetChanges>>

\* ... then the vehicle is read, ...
ReadToMove(r) ==
    /\ served[r].doing = "move" /\ ~served[r].read
    /\ IF vehicle # Gone
       THEN served' = [served EXCEPT ![r] = [doing |-> "move", read |-> TRUE, to |-> served[r].to,
                                             vehicle |-> MovedTo(vehicle, served[r].to)]]
       ELSE Answered(r)
    /\ UNCHANGED <<vehicle, openLots, transfers, drives, sentTo, disturbed, fleetChanges>>

\* ... and saved.
WriteMoved(r) ==
    /\ served[r].doing = "move" /\ served[r].read
    /\ vehicle' = IF SavesVehicle(served[r].vehicle) THEN served[r].vehicle ELSE vehicle
    /\ Answered(r)
    /\ UNCHANGED <<openLots, transfers, drives, sentTo, disturbed, fleetChanges>>

\* The vehicle lookup of a booking is required, and is checked on insert.
WriteBooking(r) ==
    /\ served[r].doing = "book"
    /\ drives' = IF vehicle # Gone THEN drives \cup {served[r].branch} ELSE drives
    /\ Answered(r)
    /\ UNCHANGED <<vehicle, openLots, transfers, sentTo, disturbed, fleetChanges>>

WriteLot(r) ==
    /\ served[r].doing = "lot"
    /\ openLots' = IF served[r].active THEN openLots \cup {served[r].branch} ELSE openLots \ {served[r].branch}
    /\ Answered(r)
    /\ UNCHANGED <<vehicle, transfers, drives, sentTo, disturbed, fleetChanges>>

\* The server dies, or Salesforce does not answer, before the next write.
Fails(r) ==
    /\ served[r] # Waiting
    /\ disturbed' = (disturbed \/ served[r].doing = "move")
    /\ Answered(r)
    /\ UNCHANGED <<vehicle, openLots, transfers, drives, sentTo, fleetChanges>>

-----------------------------------------------------------------------------

FleetInit ==
    \E b \in Lot :
        /\ vehicle = [branch |-> b, dealership |-> DealershipOf[b], status |-> "Available"]
        /\ sentTo = b
        /\ openLots = Lot
        /\ transfers = [t \in Transfer |-> NoTransfer]
        /\ served = [r \in FleetRequest |-> Waiting]
        /\ drives = {}
        /\ disturbed = FALSE
        /\ fleetChanges = 0

FleetNext ==
    \E r \in FleetRequest :
        \/ Update(r) \/ Delete(r) \/ RequestTransfer(r) \/ AdvanceTransfer(r) \/ Book(r) \/ EditLot(r)
        \/ WriteUpdate(r) \/ WriteDelete(r) \/ WriteTransfer(r) \/ WriteCompleted(r) \/ ReadToMove(r)
        \/ WriteMoved(r) \/ WriteBooking(r) \/ WriteLot(r) \/ Fails(r)

FleetSpec == FleetInit /\ [][FleetNext]_fleetVars

-----------------------------------------------------------------------------
(* Properties                                                              *)

\* Types of the fleet's variables.
FleetTypeOK ==
    /\ vehicle = Gone \/ (vehicle.branch \in Lot /\ vehicle.status \in VehicleStatus)
    /\ openLots \subseteq Lot /\ drives \subseteq Lot /\ sentTo \in Lot
    /\ \A t \in Made : transfers[t].to \in Lot /\ transfers[t].status \in DOMAIN Offered
    /\ fleetChanges \in 0..MaxFleetChanges

\* When no request is moving it, the vehicle stands at the branch it was last
\* sent to, by an edit or a completed transfer, unless two saves of it
\* overlapped or a completion failed between its two writes
\* (admin-vehicle-allocations.controller.ts complete).
VehicleIsWhereSent ==
    vehicle # Gone /\ ~disturbed /\ (\A r \in FleetRequest : ~WritesVehicle(served[r])) => vehicle.branch = sentTo
=============================================================================
