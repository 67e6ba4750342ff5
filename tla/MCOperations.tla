----------------------------- MODULE MCOperations -----------------------------
(***************************************************************************)
(* How an organization is run, for TLC: the access of its staff, its       *)
(* sharing in Salesforce, its fleet, its reminders, and the accounts of    *)
(* its customers.  They share no state, so they are run side by side: a    *)
(* behaviour is one of `part', and the states of the parts add up where a  *)
(* product would multiply them.                                            *)
(***************************************************************************)
EXTENDS StaffAccess, Sharing, Fleet, Reminders, Accounts, TLC

CONSTANTS
    m1, m2, a1, a2,         \* members, and their assignments as Company Admin
    b1, b2, b3, d1, d2      \* branches, and their dealerships

MCAdminOf == a1 :> m1 @@ a2 :> m2
MCDealershipOf == b1 :> d1 @@ b2 :> d1 @@ b3 :> d2
MCKinds == <<"h24", "h2">>
MCLead == "h24" :> {3, 4} @@ "h2" :> {2}

\* Runs, requests, visitors and users with assignments are interchangeable, and
\* so are bookings, transfers and jobs: the configuration gives one set of
\* values to the former and one to the latter.
Symmetric == Permutations(Run) \cup Permutations(Ride)

VARIABLE part

operationsVars == <<staffVars, sharingVars, fleetVars, reminderVars, accountVars, part>>

\* The components whose first state is not unique start in one state unless
\* they are the part that runs.
OperationsInit ==
    /\ StaffInit /\ SharingInit /\ FleetInit /\ RemindersInit /\ AccountsInit
    /\ part \in {"access", "sharing", "fleet", "reminders", "accounts"}
    /\ part # "fleet" => vehicle.branch = b1
    /\ part # "reminders" => \A r \in Ride : rides[r].stands /\ rides[r].start = 3

OperationsNext ==
    \/ part = "access" /\ StaffNext /\ UNCHANGED <<sharingVars, fleetVars, reminderVars, accountVars, part>>
    \/ part = "sharing" /\ SharingNext /\ UNCHANGED <<staffVars, fleetVars, reminderVars, accountVars, part>>
    \/ part = "fleet" /\ FleetNext /\ UNCHANGED <<staffVars, sharingVars, reminderVars, accountVars, part>>
    \/ part = "reminders" /\ RemindersNext /\ UNCHANGED <<staffVars, sharingVars, fleetVars, accountVars, part>>
    \/ part = "accounts" /\ AccountsNext /\ UNCHANGED <<staffVars, sharingVars, fleetVars, reminderVars, part>>

OperationsSpec == OperationsInit /\ [][OperationsNext]_operationsVars
=============================================================================
