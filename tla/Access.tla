-------------------------------- MODULE Access --------------------------------
(***************************************************************************)
(* What the console and the customer's page offer, and what the server     *)
(* then grants: which drives a member of staff is shown and may act on,    *)
(* which buttons a drive has, where settings may be changed, and what the  *)
(* settings of a company, a dealership and a branch come to.               *)
(*                                                                         *)
(* These are functions without state: a case of their inputs is drawn, and *)
(* the page's functions are compared with the server's.  A drive starts at *)
(* DriveStart and its slot ends at DriveEnd, on a clock of a few ticks.    *)
(*                                                                         *)
(* Sources: apps/api/src/admin (staff-access, permissions,                 *)
(* booking-access.policy, admin-bookings.service, config-scope,            *)
(* feature-flags and notification-templates controllers, admin-lookups),   *)
(* apps/api/src/bookings/bookings.service, packages/domain entities        *)
(* booking, the Salesforce config.repository, and the pages of apps/web    *)
(* that offer these operations.                                            *)
(***************************************************************************)
EXTENDS Integers, FiniteSets

CONSTANTS
    Site,           \* dealerships
    Bay,            \* branches
    SiteOf,         \* the dealership of each branch
    WholeCompany,   \* the scope, or the assignment, of all of them
    DriveStart, DriveEnd, ClockEnd,
    Cutoff,         \* how long before the start a customer may still change it
    CheckInLead     \* how long before the start check-in opens

ASSUME AccessAssumption ==
    /\ SiteOf \in [Bay -> Site]
    /\ WholeCompany \notin Site \cup Bay /\ Site \cap Bay = {}
    /\ DriveStart \in Nat /\ DriveEnd > DriveStart

VARIABLE question   \* the case under consideration

-----------------------------------------------------------------------------
(* Roles                                                                   *)

AllPermissions == {"manage_users", "manage_bookings", "view_dashboard", "manage_config", "view_audit_log"}
RolePermissions(role) ==
    CASE role = "Company_Admin" -> AllPermissions
      [] role = "Dealer_Admin" -> AllPermissions \ {"view_audit_log"}
      [] role = "Manager" -> {"manage_bookings", "view_dashboard"}
      [] role = "Sales_Rep" -> {}

Posting == [role : {"Company_Admin"}, at : {WholeCompany}] \cup [role : {"Dealer_Admin", "Manager", "Sales_Rep"}, at : Site]

IsCompanyAdmin(posts) == \E p \in posts : p.role = "Company_Admin"
ScopeFor(posts, permission) ==
    IF IsCompanyAdmin(posts) THEN Site
    ELSE {p.at : p \in {q \in posts : permission \in RolePermissions(q.role)}}
Can(posts, permission) == IsCompanyAdmin(posts) \/ ScopeFor(posts, permission) # {}
CanIn(posts, permission, site) == site \in ScopeFor(posts, permission)
DealershipScope(posts) == IF IsCompanyAdmin(posts) THEN Site ELSE {p.at : p \in posts}

-----------------------------------------------------------------------------
(* Drives: what the server grants                                          *)

\* BookingAccessPolicy.canActOn; a rep acts on the drives assigned to them.
CanActOn(posts, drive) ==
    \/ CanIn(posts, "manage_bookings", drive.at)
    \/ (\E p \in posts : p.role = "Sales_Rep") /\ drive.mine

IsOpen(drive) == drive.status \in {"Requested", "Confirmed", "Waitlisted"}
InTime(drive, cutoff) == DriveStart - drive.now >= cutoff
CheckInOpen(drive, lead) == drive.now >= DriveStart - lead /\ drive.now < DriveEnd
MayCheckIn(drive) == drive.status = "Confirmed" /\ ~drive.checkedIn /\ CheckInOpen(drive, drive.lead)

\* The guards of the entity and of AdminBookingsService.
StaffGranted(posts, drive, act) ==
    /\ CanActOn(posts, drive)
    /\ CASE act = "checkIn" -> MayCheckIn(drive)
         [] act = "checkInQr" -> MayCheckIn(drive) /\ drive.qr.branch
         [] act = "start" -> drive.status = "Confirmed" /\ drive.checkedIn /\ drive.papers
         [] act = "complete" -> drive.status = "InProgress"
         [] act = "noShow" -> drive.status = "Confirmed" /\ ~drive.checkedIn
         [] act \in {"cancel", "reschedule"} -> IsOpen(drive) /\ InTime(drive, 0)
         [] act = "assign" -> CanIn(posts, "manage_bookings", drive.at)
         [] act \in {"handOff", "notes", "review"} -> TRUE

CustomerGranted(drive, act) ==
    CASE act \in {"cancel", "reschedule"} -> IsOpen(drive) /\ InTime(drive, drive.cutoff)
      [] act = "showCode" -> MayCheckIn(drive) /\ drive.qr.branch

-----------------------------------------------------------------------------
(* Drives: what the pages offer                                            *)

\* AdminBookingsPage lists all that are managed, or only one's own.
Listed(posts, drive) ==
    IF Can(posts, "manage_bookings") THEN CanIn(posts, "manage_bookings", drive.at) ELSE drive.mine

\* BookingActionsPanel
StaffOffered(posts, drive) ==
    {"handOff", "notes"}
    \cup (IF Can(posts, "manage_bookings") THEN {"assign"} ELSE {})
    \cup (IF drive.status = "Confirmed" THEN {"review", IF drive.checkedIn THEN "start" ELSE "checkIn"} ELSE {})
    \cup (IF drive.status = "Confirmed" /\ ~drive.checkedIn /\ drive.qr.site THEN {"checkInQr"} ELSE {})
    \cup (IF drive.status = "InProgress" THEN {"complete"} ELSE {})
    \cup (IF drive.status \in {"Requested", "Confirmed"} THEN {"noShow", "cancel", "reschedule"} ELSE {})

\* MyBookingsPage
CustomerOffered(drive) ==
    (IF drive.status \in {"Requested", "Confirmed"} THEN {"cancel", "reschedule"} ELSE {})
    \cup (IF drive.status = "Confirmed" /\ drive.qr.site THEN {"showCode"} ELSE {})

-----------------------------------------------------------------------------
(* Settings: who may change them, and what they come to                    *)

\* ConfigScopeResolver
ConfigGranted(posts, scope) ==
    IF scope = WholeCompany THEN IsCompanyAdmin(posts)
    ELSE CanIn(posts, "manage_config", IF scope \in Bay THEN SiteOf[scope] ELSE scope)

\* The console's menu has the page, and ConfigScopePicker the scope.
ConfigOffered(posts, scope) ==
    /\ Can(posts, "manage_config")
    /\ IF scope = WholeCompany THEN IsCompanyAdmin(posts)
       ELSE (IF scope \in Bay THEN SiteOf[scope] ELSE scope) \in DealershipScope(posts)

Scope == {WholeCompany} \cup Site \cup Bay
Rank(scope) == IF scope = WholeCompany THEN 1 ELSE IF scope \in Site THEN 2 ELSE 3
Wider(scope) == {WholeCompany, scope} \cup (IF scope \in Bay THEN {SiteOf[scope]} ELSE {})

\* A flag's rows, sparse: the narrowest that reaches a scope decides it there.
NotSet == "not set"
FlagRow == {"on", "off", NotSet}
SetRows(rows, scope) == {s \in Wider(scope) : rows[s] # NotSet}
WidestWins(rows, scope) ==
    IF SetRows(rows, scope) = {} THEN [value |-> "on", source |-> "default"]
    ELSE LET s == CHOOSE s \in SetRows(rows, scope) : \A t \in SetRows(rows, scope) : Rank(s) <= Rank(t)
         IN  [value |-> rows[s], source |-> s]
ResolveFlag(rows, scope) ==
    IF SetRows(rows, scope) = {} THEN [value |-> "on", source |-> "default"]
    ELSE LET s == CHOOSE s \in SetRows(rows, scope) : \A t \in SetRows(rows, scope) : Rank(s) >= Rank(t)
         IN  [value |-> rows[s], source |-> s]
SetFlag(rows, scope, value) == [rows EXCEPT ![scope] = value]

\* AdminFeatureFlagsPage offers to reset what it says is set here.
SetHere(rows, scope) == ResolveFlag(rows, scope).source = scope

\* An email uses the dealership's template, else the company's, else the app's.
EffectiveTemplate(rows, site) ==
    IF rows[site] # NotSet THEN site ELSE IF rows[WholeCompany] # NotSet THEN WholeCompany ELSE "default"
\* What the editor of a dealership's template says is in use
ShownTemplate(rows, site) ==
    LET isCustomized == rows[site] # NotSet
        inherited == rows[WholeCompany] # NotSet
    IN  IF isCustomized THEN site ELSE IF inherited THEN WholeCompany ELSE "default"

-----------------------------------------------------------------------------
(* The cases                                                               *)

NoQuestion == [kind |-> "none"]

\* Statuses with whether the customer has been checked in, as the entity allows.
Progress == {<<"Requested", FALSE>>, <<"Waitlisted", FALSE>>, <<"Confirmed", FALSE>>, <<"Confirmed", TRUE>>,
             <<"InProgress", TRUE>>, <<"Completed", TRUE>>, <<"Cancelled", FALSE>>, <<"Cancelled", TRUE>>,
             <<"NoShow", FALSE>>}
Drive ==
    {[status |-> p[1], checkedIn |-> p[2], at |-> s, mine |-> m, now |-> n, lead |-> l, cutoff |-> c,
      papers |-> a, qr |-> [site |-> f, branch |-> g]] :
        p \in Progress, s \in Site, m, a, f, g \in BOOLEAN, n \in 0..ClockEnd, l \in CheckInLead, c \in Cutoff}

\* One assignment, or two.
Postings == {{p, q} : p, q \in Posting}

AccessInit == question = NoQuestion
AskDrive ==
    /\ question = NoQuestion
    /\ \E posts \in Postings, drive \in {d \in Drive : d.at = (CHOOSE s \in Site : TRUE)} :
            question' = [kind |-> "drive", posts |-> posts, drive |-> drive]
AskScopes == question = NoQuestion /\ \E posts \in Postings : question' = [kind |-> "scopes", posts |-> posts]
AskSettings == question = NoQuestion /\ \E rows \in [Scope -> FlagRow] : question' = [kind |-> "settings", rows |-> rows]
AccessNext == AskDrive \/ AskScopes \/ AskSettings

-----------------------------------------------------------------------------
(* What they should have in common                                         *)

\* Known refusals of what is offered: the pages do not look at the clock, at
\* the papers, at a branch's own flag, or at what a no-show needs.
UnseenByPage(drive, act, cutoff) ==
    \/ act \in {"cancel", "reschedule"} /\ ~InTime(drive, cutoff)
    \/ act \in {"checkIn", "checkInQr", "showCode"} /\ ~CheckInOpen(drive, drive.lead)
    \/ act \in {"checkInQr", "showCode"} /\ drive.qr.site # drive.qr.branch
    \/ act = "showCode" /\ drive.checkedIn
    \/ act = "start" /\ ~drive.papers
    \/ act = "noShow" /\ (drive.status = "Requested" \/ drive.checkedIn)

\* Different roles at different dealerships, which the pages do not tell apart
MixedRoles(posts, permission, site) == Can(posts, permission) /\ ~CanIn(posts, permission, site)

\* The drives that staff are shown are those they may act on.
ListsAreExact(posts, drive) ==
    /\ Listed(posts, drive) => CanActOn(posts, drive)
    /\ CanActOn(posts, drive) => Listed(posts, drive) \/ MixedRoles(posts, "manage_bookings", drive.at)

ButtonsAreGranted(posts, drive) ==
    /\ Listed(posts, drive) =>
        \A act \in StaffOffered(posts, drive) : StaffGranted(posts, drive, act) \/ UnseenByPage(drive, act, 0)
    /\ \A act \in CustomerOffered(drive) : CustomerGranted(drive, act) \/ UnseenByPage(drive, act, drive.cutoff)

\* Nobody is offered a scope they may not edit, nor refused one they could.
ScopesAreGranted(posts) ==
    \A scope \in Scope :
        ConfigOffered(posts, scope) # ConfigGranted(posts, scope)
            => scope # WholeCompany /\ MixedRoles(posts, "manage_config", IF scope \in Bay THEN SiteOf[scope] ELSE scope)

\* A setting takes effect where it is made and reaches only what lies within it
\* and is not set there; the pages say truly where a setting comes from.
FlagsAreLayered(rows) ==
    /\ \A scope, other \in Scope, value \in {"on", "off"} :
        LET after == SetFlag(rows, scope, value)
        IN  /\ ResolveFlag(after, scope) = [value |-> value, source |-> scope]
            /\ ResolveFlag(after, other) # ResolveFlag(rows, other)
                => scope \in Wider(other) /\ \A s \in SetRows(rows, other) : Rank(s) <= Rank(scope)
    /\ \A scope \in Scope : SetHere(rows, scope) <=> rows[scope] # NotSet
    /\ \A site \in Site : ShownTemplate(rows, site) = EffectiveTemplate(rows, site)

DriveIsGranted(posts, drive) == ListsAreExact(posts, drive) /\ ButtonsAreGranted(posts, drive)
=============================================================================
