SPECIFICATION OperationsSpec
CONSTANTS
    m1 = m1
    m2 = m2
    a1 = a1
    a2 = a2
    b1 = b1
    b2 = b2
    b3 = b3
    d1 = d1
    d2 = d2
    Member = {m1, m2}
    Dealership = {d1}
    Company = Company
    AssignmentId = {a1, a2, a3}
    Server = {s1}
    ConsoleRequest = {r1, r2}
    Nobody = Nobody
    FirstAdmins = {a1, a2}
    AdminOf <- MCAdminOf
    RoleAsked = {"Company_Admin"}
    MaxEdits = 1
    SfStaff = {r1, r2}
    Dealer = {d1, d2}
    NoDealer = NoDealer
    Job = {t1, t2}
    MaxChanges = 5
    Lot = {b1, b2, b3}
    DealershipOf <- MCDealershipOf
    Transfer = {t1, t2}
    FleetRequest = {r1, r2}
    MaxFleetChanges = 4
    Ride = {t1, t2}
    Kinds <- MCKinds
    Lead <- MCLead
    Run = {r1, r2}
    StartTime = {3, 4}
    LastTick = 1
    MaxMoves = 1
    MaxRuns = 2
    Visitor = {r1, r2}
    MaxAttempts = 1
    CodeHolder = {1}
SYMMETRY Symmetric
INVARIANTS
    InvalidationHolds
    MembersFollowAssignments
    SharesFollowDrive
    VehicleIsWhereSent
    OneReminder
    CleanRunReminds
    AccountsAreProved
PROPERTIES
    LastAdminStays
CHECK_DEADLOCK FALSE
