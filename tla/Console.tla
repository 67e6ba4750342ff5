------------------------------- MODULE Console --------------------------------
(***************************************************************************)
(* The admin console: which pages a member of staff finds in its menu, the *)
(* calls each page makes, what the server demands for each call, and the   *)
(* forms that grant access, add a vehicle or branch, or request a          *)
(* transfer.  Like Access, which has the roles, this is about functions    *)
(* without state: a case is drawn, and the page's side is compared with    *)
(* the server's.                                                           *)
(*                                                                         *)
(* Sources: apps/web (AdminLayout, api/admin, the pages of the console),   *)
(* apps/api/src/admin (its controllers, admin-users.service), and the      *)
(* scopes of the Salesforce repositories they list from.                   *)
(***************************************************************************)
EXTENDS Access

-----------------------------------------------------------------------------
(* Calls, and what the server demands for them                             *)

StaffCalls == {"listStaffAssignments", "searchStaffDirectory", "createStaffAssignment", "updateStaffAssignment"}
ManagedBookingCalls == {"listAdminBookings", "assignSalesRep"}
OwnBookingCalls ==
    {"handoffBooking", "checkInBookingAsStaff", "startDriveAsStaff", "completeDriveAsStaff",
     "markNoShowAsStaff", "setBookingStaffNotes", "cancelBookingAsStaff", "rescheduleBookingAsStaff",
     "getBookingSlotsAsStaff"}
Lookups == {"listSalesRepsLookup", "listBranchesLookup", "listDealershipsLookup", "getAdminRegional"}
DashboardCalls == {"getAdminDashboardSummary", "getFunnelInsight", "getCustomerSegments"}
FlagCalls == {"listFeatureFlags", "setFeatureFlag", "clearFeatureFlag"}
BranchCalls == {"listAdminBranches", "createBranch", "updateBranch", "setBranchActive"}
VehicleCalls == {"listAdminVehicles", "createVehicle", "updateVehicle", "deleteVehicle"}
TransferCalls == {"listVehicleAllocations", "requestVehicleAllocation", "advanceVehicleAllocation"}
TemplateCalls == {"listNotificationTemplates", "updateNotificationTemplate", "revertNotificationTemplate"}
BrandCalls == {"getBranding", "saveBranding", "uploadBrandImage"}
RegionalCalls == {"getRegionalSettings", "saveRegionalSettings"}
ScheduleCalls == {"getBookingSchedule", "saveBookingSchedule"}
PaperCalls == {"getAdminComplianceStatus", "verifyLicenseAi", "confirmLicense"}

ConfigCalls ==
    FlagCalls \cup BranchCalls \cup VehicleCalls \cup TransferCalls \cup TemplateCalls
    \cup BrandCalls \cup RegionalCalls \cup ScheduleCalls \cup {"getSystemHealth"}

Anyone == "anyone"      \* no particular permission, but some assignment
Demand(call) ==
    CASE call \in StaffCalls -> "manage_users"
      [] call \in ManagedBookingCalls -> "manage_bookings"
      [] call \in DashboardCalls -> "view_dashboard"
      [] call = "queryAuditLog" -> "view_audit_log"
      [] call \in ConfigCalls -> "manage_config"
      [] OTHER -> Anyone

Has(posts, need) == IF need = Anyone THEN posts # {} ELSE Can(posts, need)
\* Which of its rows, or drives, a call may touch is a question of its own.
Served(posts, call) ==
    /\ Has(posts, Demand(call))
    /\ call = "getSystemHealth" => IsCompanyAdmin(posts)

-----------------------------------------------------------------------------
(* The menu                                                                *)

NavItems ==
    [dashboard |-> "view_dashboard", bookings |-> Anyone, vehicles |-> "manage_config", branches |-> "manage_config",
     users |-> "manage_users", branding |-> "manage_config", templates |-> "manage_config",
     flags |-> "manage_config", auditLog |-> "view_audit_log", health |-> "manage_config"]
CompanyAdminOnly == {"health"}
Page == DOMAIN NavItems

CanAccess(posts, page) ==
    /\ Has(posts, NavItems[page])
    /\ page \in CompanyAdminOnly => IsCompanyAdmin(posts)
Menu(posts) == {page \in Page : CanAccess(posts, page)}

\* An address names a page; the layout looks for it by its exact path, the
\* router also finds it with a slash at the end.
Rendered(posts, page, exact) ==
    IF exact /\ ~CanAccess(posts, page) THEN "bookings"
    ELSE IF page = "dashboard" /\ ~Can(posts, "view_dashboard") THEN "bookings"
    ELSE page

ScopePicker == {"listDealershipsLookup", "listBranchesLookup"}
BookingsPageCalls(posts) ==
    OwnBookingCalls \cup PaperCalls \cup {"listSalesRepsLookup", "listDealershipsLookup", "getAdminRegional"}
    \cup (IF Can(posts, "manage_bookings") THEN ManagedBookingCalls ELSE {"listMyAssignedBookings"})
Calls(posts, page) ==
    CASE page = "dashboard" -> IF Can(posts, "view_dashboard") THEN DashboardCalls \cup {"listBranchesLookup"} ELSE {}
      [] page = "bookings" -> BookingsPageCalls(posts)
      [] page = "vehicles" -> VehicleCalls \cup TransferCalls \cup {"listBranchesLookup", "getAdminRegional"}
      [] page = "branches" -> BranchCalls \cup {"listDealershipsLookup"}
      [] page = "users" -> StaffCalls \cup {"listDealershipsLookup", "listBranchesLookup"}
      [] page = "branding" -> BrandCalls \cup RegionalCalls \cup ScheduleCalls \cup ScopePicker \cup {"getAdminRegional"}
      [] page = "templates" -> TemplateCalls \cup ScopePicker \cup {"getAdminRegional"}
      [] page = "flags" -> FlagCalls \cup ScopePicker
      [] page = "auditLog" -> {"queryAuditLog", "listDealershipsLookup", "getAdminRegional"}
      [] page = "health" -> {"getSystemHealth", "getAdminRegional"}

-----------------------------------------------------------------------------
(* Rows, and the forms that make new ones                                  *)

\* What a form may be about: a place, and the permission needed there
Making == [vehicle |-> "manage_config", branch |-> "manage_config", staff |-> "manage_users"]

\* Staff of a place, or (of WholeCompany) a Company Admin
StaffListed(posts, at) == IF at = WholeCompany THEN IsCompanyAdmin(posts) ELSE at \in ScopeFor(posts, "manage_users")
MayGrant(posts, at) == IF at = WholeCompany THEN IsCompanyAdmin(posts) ELSE CanIn(posts, "manage_users", at)
RolesOffered(posts) == {"Dealer_Admin", "Manager", "Sales_Rep"} \cup (IF IsCompanyAdmin(posts) THEN {"Company_Admin"} ELSE {})

\* A transfer has an end, or two: the branch it started from may not be recorded.
TransferListed(posts, ends) == \E at \in ends : at \in ScopeFor(posts, "manage_config")
MayAdvance(posts, ends) == \E at \in ends : CanIn(posts, "manage_config", at)
MayRequest(posts, from, to) == CanIn(posts, "manage_config", from) /\ CanIn(posts, "manage_config", to)

-----------------------------------------------------------------------------
(* The form of an assignment                                               *)

DefaultMaxDailyBookings == "eight"
Caps == {NotSet, DefaultMaxDailyBookings}
Phones == {NotSet, "phone"}
AssignmentFields == [role : {p.role : p \in Posting}, at : Site \cup {NotSet}, bay : Bay \cup {NotSet}, cap : Caps, phone : Phones]

\* StaffAssignment.assertValid, and assertBranchInDealership
Accepted(a) ==
    /\ a.role = "Company_Admin" <=> a.at = NotSet
    /\ a.role = "Sales_Rep" => a.bay # NotSet
    /\ a.bay # NotSet => SiteOf[a.bay] = a.at

\* EditAssignmentForm, opened on an assignment
Opened(a) == [a EXCEPT !.cap = IF @ = NotSet THEN DefaultMaxDailyBookings ELSE @]
\* GrantAccessForm, opened by somebody who is offered these dealerships
Fresh(sites) ==
    [role |-> "Sales_Rep", at |-> IF Cardinality(sites) = 1 THEN CHOOSE s \in sites : TRUE ELSE NotSet,
     bay |-> NotSet, cap |-> DefaultMaxDailyBookings, phone |-> NotSet]

\* What it can come to: another dealership clears the branch, of which only
\* those of the dealership are offered; a field the role hides keeps its value.
Fillings(form) ==
    {f \in AssignmentFields :
        /\ f.at = NotSet => form.at = NotSet
        /\ f.bay # NotSet => SiteOf[f.bay] = f.at}
MaySubmitGrant(f) ==
    /\ f.role # "Company_Admin" => f.at # NotSet
    /\ f.role = "Sales_Rep" => f.bay # NotSet

\* toCreateFields: what the role does not use is left out.
CreateFields(f) ==
    LET isSalesRep == f.role = "Sales_Rep" IN
    [role |-> f.role, at |-> IF f.role = "Company_Admin" THEN NotSet ELSE f.at,
     bay |-> IF isSalesRep THEN f.bay ELSE NotSet, cap |-> IF isSalesRep THEN f.cap ELSE NotSet,
     phone |-> IF isSalesRep THEN f.phone ELSE NotSet]
\* toUpdateFields: it is cleared.  A field of the patch replaces the stored one.
Cleared == "null"

\* Ids are not words that stand for the lack of one.
ASSUME ConsoleAssumption == {NotSet, Cleared, "default"} \cap Scope = {}

UpdateFields(f) ==
    LET created == CreateFields(f) IN [k \in DOMAIN created |-> IF created[k] = NotSet THEN Cleared ELSE created[k]]
PatchedAssignment(a, patch) ==
    [k \in DOMAIN a |-> IF patch[k] = NotSet THEN a[k] ELSE IF patch[k] = Cleared THEN NotSet ELSE patch[k]]

AskGrant ==
    /\ question = NoQuestion
    /\ \E sites \in SUBSET Site : \E f \in Fillings(Fresh(sites)) : question' = [kind |-> "grant", fields |-> f]
AskEdit ==
    /\ question = NoQuestion
    /\ \E a \in {b \in AssignmentFields : Accepted(b)} : \E f \in Fillings(Opened(a)) :
        question' = [kind |-> "edit", stored |-> a, fields |-> f]
ConsoleNext == AccessNext \/ AskGrant \/ AskEdit

ConsoleSpec == AccessInit /\ [][ConsoleNext]_question

-----------------------------------------------------------------------------
(* What the console and the server should have in common                   *)

\* Every call of a page in the menu is served, a page that is not in the menu
\* would be of no use ("the API would 403 every call", AdminLayout.tsx:41), and
\* a page that is asked for by its path is shown to those who have it.
MenuIsServed(posts) ==
    /\ \A page \in Menu(posts) : \A call \in Calls(posts, page) : Served(posts, call)
    /\ \A page \in Page \ Menu(posts) : \A call \in Calls(posts, page) \ Lookups : ~Served(posts, call)
    /\ \A page \in Page : Rendered(posts, page, TRUE) \in Menu(posts)

\* What a list shows can be acted on and nothing else can; what a form lets
\* one choose is granted, but to those who have different roles at different
\* dealerships; nobody is kept from a choice that would be granted.
RowsAreGranted(posts) ==
    /\ \A at \in Site \cup {WholeCompany} : StaffListed(posts, at) = MayGrant(posts, at)
    /\ \A ends \in SUBSET Site : TransferListed(posts, ends) = MayAdvance(posts, ends)
    /\ \A role \in RolesOffered(posts), at \in DealershipScope(posts) :
        MayGrant(posts, IF role = "Company_Admin" THEN WholeCompany ELSE at) \/ MixedRoles(posts, "manage_users", at)
           \/ ~Can(posts, "manage_users")
    /\ \A what \in DOMAIN Making, at \in Site :
        /\ CanIn(posts, Making[what], at) => at \in DealershipScope(posts)
        /\ Can(posts, Making[what]) /\ at \in DealershipScope(posts)
            => CanIn(posts, Making[what], at) \/ MixedRoles(posts, Making[what], at)
    /\ \A from \in ScopeFor(posts, "manage_config"), to \in DealershipScope(posts) :
        MayRequest(posts, from, to) \/ MixedRoles(posts, "manage_config", to)

\* What the form shows, of the fields that its role uses
Shows(f, a) ==
    /\ a.role = f.role
    /\ f.role # "Company_Admin" => a.at = f.at
    /\ f.role = "Sales_Rep" => a.bay = f.bay /\ a.cap = f.cap /\ a.phone = f.phone

\* A form that may be sent is accepted and stored as it is shown, whatever
\* fields of another role it still holds.
FormIsStored(a, f) == MaySubmitGrant(f) => Accepted(a) /\ Shows(f, a)

\* What the pages offer the server grants, and what it grants they show,
\* except where the pages are known not to look: "the rule can't drift between
\* features" (booking-access.policy.ts:10), and the scope picker "only keeps
\* the UI from offering what would be refused" (ConfigScopePicker.tsx:22).
OffersAreGranted ==
    /\ question.kind = "drive" => DriveIsGranted(question.posts, question.drive)
    /\ question.kind = "scopes" =>
        ScopesAreGranted(question.posts) /\ MenuIsServed(question.posts) /\ RowsAreGranted(question.posts)
    /\ question.kind = "settings" => FlagsAreLayered(question.rows)
    /\ question.kind = "grant" => FormIsStored(CreateFields(question.fields), question.fields)
    /\ question.kind = "edit" =>
        FormIsStored(PatchedAssignment(question.stored, UpdateFields(question.fields)), question.fields)
=============================================================================
