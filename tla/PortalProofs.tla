----------------------------- MODULE PortalProofs -----------------------------
(***************************************************************************)
(* Proofs about the papers and the survey of a drive, the brand of the     *)
(* sites, what the console offers and the sessions of its users, for any   *)
(* number of submissions, panels, editors, dealerships, assignments, tabs  *)
(* and requests.                                                           *)
(*                                                                         *)
(* Papers: a record is only ever one that a submission made, so whoever    *)
(* has read one can rely on what made it; and a submission is only ever an *)
(* old one for those that read the record after it was saved.              *)
(*                                                                         *)
(* Survey: as long as no lock has expired, whoever is between asking and   *)
(* the end holds it, so that what it has found missing is missing until it *)
(* adds it.                                                                *)
(*                                                                         *)
(* Branding: what a save has past its check, and what it has read of the   *)
(* layer, was uploaded for its scope; where saves have not overlapped, the *)
(* layer names what its save named until that one has cleaned up.          *)
(*                                                                         *)
(* The console: whatever somebody is assigned to, a page that offers       *)
(* something looks at the permission that the server demands for it.       *)
(*                                                                         *)
(* Sessions: both properties are inductive, given that a request carries a *)
(* token that was issued.                                                  *)
(***************************************************************************)
EXTENDS Portal, TLAPS

-----------------------------------------------------------------------------
(* What the console offers                                                 *)

\* Somebody's assignments: any number, on any of the dealerships.
LEMMA ScopesOfAPerson ==
    ASSUME NEW posts \in SUBSET Posting
    PROVE  /\ \A permission : ScopeFor(posts, permission) \subseteq DealershipScope(posts)
           /\ ~IsCompanyAdmin(posts) => DealershipScope(posts) \subseteq Site
           /\ \A permission : ScopeFor(posts, permission) \subseteq Site
  <1>1. CASE IsCompanyAdmin(posts)
    BY <1>1 DEF ScopeFor, DealershipScope
  <1>2. CASE ~IsCompanyAdmin(posts)
    <2>1. \A p \in posts : p.at \in Site
      BY <1>2 DEF IsCompanyAdmin, Posting
    <2> QED
      BY <1>2, <2>1 DEF ScopeFor, DealershipScope
  <1> QED
    BY <1>1, <1>2

\* Who may not manage bookings anywhere is a rep, everywhere.
LEMMA RepsManageNothing ==
    ASSUME NEW posts \in SUBSET Posting, ~Can(posts, "manage_bookings"), NEW p \in posts
    PROVE  p.role = "Sales_Rep"
  <1>1. p.role # "Company_Admin"
    BY DEF Can, IsCompanyAdmin
  <1>2. "manage_bookings" \notin RolePermissions(p.role)
    BY DEF Can, ScopeFor
  <1>3. p.role \in {"Dealer_Admin", "Manager", "Sales_Rep"}
    BY <1>1 DEF Posting
  <1> QED
    BY <1>2, <1>3 DEF RolePermissions, AllPermissions

\* The list of drives and the buttons of each
LEMMA DrivesAreGranted ==
    ASSUME NEW posts \in SUBSET Posting, posts # {}, NEW d \in Drive
    PROVE  DriveIsGranted(posts, d)
  <1>1. Listed(posts, d) => CanActOn(posts, d)
    <2>1. CASE Can(posts, "manage_bookings")
      BY <2>1 DEF Listed, CanActOn
    <2>2. CASE ~Can(posts, "manage_bookings")
      <3>1. \E p \in posts : p.role = "Sales_Rep"
        BY <2>2, RepsManageNothing
      <3> QED
        BY <2>2, <3>1 DEF Listed, CanActOn
    <2> QED
      BY <2>1, <2>2
  <1>2. CanActOn(posts, d) => Listed(posts, d) \/ MixedRoles(posts, "manage_bookings", d.at)
    BY DEF CanActOn, Listed, MixedRoles, Can, CanIn
  <1>3. ASSUME Listed(posts, d), NEW act \in StaffOffered(posts, d)
        PROVE  StaffGranted(posts, d, act) \/ UnseenByPage(d, act, 0)
    <2> USE <1>1, <1>3
    <2>0. \/ act \in {"handOff", "notes", "review"}
          \/ act = "assign" /\ Can(posts, "manage_bookings")
          \/ act \in {"start", "checkIn"} /\ d.status = "Confirmed" /\ (act = "start" <=> d.checkedIn)
          \/ act = "checkInQr" /\ d.status = "Confirmed" /\ ~d.checkedIn /\ d.qr.site
          \/ act = "complete" /\ d.status = "InProgress"
          \/ act \in {"noShow", "cancel", "reschedule"} /\ d.status \in {"Requested", "Confirmed"}
      BY DEF StaffOffered
    <2>1. CASE act \in {"handOff", "notes", "review"}
      BY <2>1 DEF StaffGranted
    <2>2. CASE act = "assign" /\ Can(posts, "manage_bookings")
      BY <2>2 DEF StaffGranted, Listed
    <2>3. CASE act \in {"start", "checkIn"} /\ d.status = "Confirmed" /\ (act = "start" <=> d.checkedIn)
      BY <2>3 DEF StaffGranted, UnseenByPage, MayCheckIn
    <2>4. CASE act = "checkInQr" /\ d.status = "Confirmed" /\ ~d.checkedIn /\ d.qr.site
      <3>1. d.qr.branch # d.qr.site => UnseenByPage(d, act, 0)
        BY <2>4 DEF UnseenByPage
      <3> QED
        BY <2>4, <3>1 DEF StaffGranted, UnseenByPage, MayCheckIn
    <2>5. CASE act = "complete" /\ d.status = "InProgress"
      BY <2>5 DEF StaffGranted
    <2>6. CASE act = "noShow" /\ d.status \in {"Requested", "Confirmed"}
      BY <2>6 DEF StaffGranted, UnseenByPage
    <2>7. CASE act \in {"cancel", "reschedule"} /\ d.status \in {"Requested", "Confirmed"}
      BY <2>7 DEF StaffGranted, UnseenByPage, IsOpen
    <2> QED
      BY <2>0, <2>1, <2>2, <2>3, <2>4, <2>5, <2>6, <2>7
  <1>4. ASSUME NEW act \in CustomerOffered(d)
        PROVE  CustomerGranted(d, act) \/ UnseenByPage(d, act, d.cutoff)
    <2>1. \/ act \in {"cancel", "reschedule"} /\ d.status \in {"Requested", "Confirmed"}
          \/ act = "showCode" /\ d.status = "Confirmed" /\ d.qr.site
      BY <1>4 DEF CustomerOffered
    <2>2. CASE act \in {"cancel", "reschedule"} /\ d.status \in {"Requested", "Confirmed"}
      BY <2>2 DEF CustomerGranted, UnseenByPage, IsOpen
    <2>3. CASE act = "showCode" /\ d.status = "Confirmed" /\ d.qr.site
      BY <2>3 DEF CustomerGranted, UnseenByPage, MayCheckIn
    <2> QED
      BY <2>1, <2>2, <2>3
  <1> QED
    BY <1>1, <1>2, <1>3, <1>4 DEF DriveIsGranted, ListsAreExact, ButtonsAreGranted

\* Settings are offered where they are granted.
LEMMA ScopesAreRight ==
    ASSUME NEW posts \in SUBSET Posting
    PROVE  ScopesAreGranted(posts)
  <1> SUFFICES ASSUME NEW scope \in Scope, ConfigOffered(posts, scope) # ConfigGranted(posts, scope)
               PROVE  /\ scope # WholeCompany
                      /\ MixedRoles(posts, "manage_config", IF scope \in Bay THEN SiteOf[scope] ELSE scope)
    BY DEF ScopesAreGranted
  <1> DEFINE site == IF scope \in Bay THEN SiteOf[scope] ELSE scope
  <1>1. ASSUME scope = WholeCompany
        PROVE  FALSE
    <2>1. ConfigGranted(posts, scope) = IsCompanyAdmin(posts)
      BY <1>1 DEF ConfigGranted
    <2>2. ConfigOffered(posts, scope) = (Can(posts, "manage_config") /\ IsCompanyAdmin(posts))
      BY <1>1 DEF ConfigOffered
    <2>3. IsCompanyAdmin(posts) \in BOOLEAN /\ (IsCompanyAdmin(posts) => Can(posts, "manage_config"))
      BY DEF IsCompanyAdmin, Can
    <2> QED
      BY <2>1, <2>2, <2>3
  <1>2. ASSUME scope # WholeCompany
        PROVE  MixedRoles(posts, "manage_config", site)
    <2>1. ConfigGranted(posts, scope) = CanIn(posts, "manage_config", site)
      BY <1>2 DEF ConfigGranted
    <2>2. ConfigOffered(posts, scope) = (Can(posts, "manage_config") /\ site \in DealershipScope(posts))
      BY <1>2 DEF ConfigOffered
    <2>3. CanIn(posts, "manage_config", site) => site \in DealershipScope(posts) /\ Can(posts, "manage_config")
      BY ScopesOfAPerson DEF CanIn, Can
    <2>4. CanIn(posts, "manage_config", site) \in BOOLEAN
      BY DEF CanIn
    <2> HIDE DEF site
    <2> QED
      BY <2>1, <2>2, <2>3, <2>4 DEF MixedRoles
  <1> QED
    BY <1>1, <1>2

\* The menu, and the calls of its pages
LEMMA DemandsOfCalls ==
    /\ \A call \in StaffCalls : Demand(call) = "manage_users"
    /\ \A call \in ManagedBookingCalls : Demand(call) = "manage_bookings"
    /\ \A call \in DashboardCalls : Demand(call) = "view_dashboard"
    /\ Demand("queryAuditLog") = "view_audit_log"
    /\ \A call \in ConfigCalls : Demand(call) = "manage_config"
    /\ \A call \in OwnBookingCalls \cup PaperCalls \cup Lookups \cup {"listMyAssignedBookings"} : Demand(call) = Anyone
  <1>1. /\ StaffCalls \cap (ManagedBookingCalls \cup DashboardCalls \cup {"queryAuditLog"} \cup ConfigCalls) = {}
        /\ ManagedBookingCalls \cap (DashboardCalls \cup {"queryAuditLog"} \cup ConfigCalls) = {}
        /\ DashboardCalls \cap ({"queryAuditLog"} \cup ConfigCalls) = {}
        /\ "queryAuditLog" \notin ConfigCalls
    BY DEF StaffCalls, ManagedBookingCalls, DashboardCalls, ConfigCalls, FlagCalls, BranchCalls, VehicleCalls,
           TransferCalls, TemplateCalls, BrandCalls, RegionalCalls, ScheduleCalls
  <1>2. ASSUME NEW call \in OwnBookingCalls \cup PaperCalls \cup Lookups \cup {"listMyAssignedBookings"}
        PROVE  call \notin StaffCalls \cup ManagedBookingCalls \cup DashboardCalls \cup {"queryAuditLog"} \cup ConfigCalls
    BY DEF OwnBookingCalls, PaperCalls, Lookups, StaffCalls, ManagedBookingCalls, DashboardCalls, ConfigCalls,
           FlagCalls, BranchCalls, VehicleCalls, TransferCalls, TemplateCalls, BrandCalls, RegionalCalls, ScheduleCalls
  <1>3. \A call \in StaffCalls : Demand(call) = "manage_users"
    BY <1>1 DEF Demand
  <1>4. \A call \in ManagedBookingCalls : Demand(call) = "manage_bookings"
    BY <1>1 DEF Demand
  <1>5. \A call \in DashboardCalls : Demand(call) = "view_dashboard"
    BY <1>1 DEF Demand
  <1>6. Demand("queryAuditLog") = "view_audit_log"
    BY <1>1 DEF Demand
  <1>7. \A call \in ConfigCalls : Demand(call) = "manage_config"
    BY <1>1 DEF Demand
  <1>8. ASSUME NEW call \in OwnBookingCalls \cup PaperCalls \cup Lookups \cup {"listMyAssignedBookings"}
        PROVE  Demand(call) = Anyone
    BY <1>2 DEF Demand
  <1> QED
    BY <1>3, <1>4, <1>5, <1>6, <1>7, <1>8

LEMMA WhoIsServed ==
    ASSUME NEW posts \in SUBSET Posting
    PROVE  /\ \A call \in StaffCalls : Served(posts, call) <=> Can(posts, "manage_users")
           /\ \A call \in ManagedBookingCalls : Served(posts, call) <=> Can(posts, "manage_bookings")
           /\ \A call \in DashboardCalls : Served(posts, call) <=> Can(posts, "view_dashboard")
           /\ Served(posts, "queryAuditLog") <=> Can(posts, "view_audit_log")
           /\ \A call \in ConfigCalls \ {"getSystemHealth"} : Served(posts, call) <=> Can(posts, "manage_config")
           /\ Served(posts, "getSystemHealth") <=> IsCompanyAdmin(posts)
           /\ \A call \in OwnBookingCalls \cup PaperCalls \cup Lookups \cup {"listMyAssignedBookings"} :
                Served(posts, call) <=> posts # {}
  <1>1. \A need \in AllPermissions : Has(posts, need) <=> Can(posts, need)
    BY DEF Has, Anyone, AllPermissions
  <1>2. Has(posts, Anyone) <=> posts # {}
    BY DEF Has
  <1>3. "getSystemHealth" \in ConfigCalls
    BY DEF ConfigCalls
  <1>4. "getSystemHealth" \notin StaffCalls \cup ManagedBookingCalls \cup DashboardCalls \cup {"queryAuditLog"}
                                \cup OwnBookingCalls \cup PaperCalls \cup Lookups \cup {"listMyAssignedBookings"}
    BY DEF StaffCalls, ManagedBookingCalls, DashboardCalls, OwnBookingCalls, PaperCalls, Lookups
  <1>5. {"manage_users", "manage_bookings", "view_dashboard", "view_audit_log", "manage_config"} \subseteq AllPermissions
    BY DEF AllPermissions
  <1>6. IsCompanyAdmin(posts) => Can(posts, "manage_config")
    BY DEF Can
  <1> QED
    BY <1>1, <1>2, <1>3, <1>4, <1>5, <1>6, DemandsOfCalls DEF Served

LEMMA PagesOfTheMenu ==
    /\ Page = {"dashboard", "bookings", "vehicles", "branches", "users", "branding", "templates", "flags", "auditLog", "health"}
    /\ NavItems["dashboard"] = "view_dashboard" /\ NavItems["bookings"] = Anyone /\ NavItems["users"] = "manage_users"
    /\ NavItems["auditLog"] = "view_audit_log" /\ NavItems["health"] = "manage_config"
    /\ \A tab \in {"vehicles", "branches", "branding", "templates", "flags"} : NavItems[tab] = "manage_config"
  BY DEF Page, NavItems

LEMMA WhoHasThePage ==
    ASSUME NEW posts \in SUBSET Posting
    PROVE  /\ CanAccess(posts, "dashboard") <=> Can(posts, "view_dashboard")
           /\ CanAccess(posts, "bookings") <=> posts # {}
           /\ CanAccess(posts, "users") <=> Can(posts, "manage_users")
           /\ CanAccess(posts, "auditLog") <=> Can(posts, "view_audit_log")
           /\ CanAccess(posts, "health") <=> IsCompanyAdmin(posts)
           /\ \A tab \in {"vehicles", "branches", "branding", "templates", "flags"} :
                CanAccess(posts, tab) <=> Can(posts, "manage_config")
  <1>1. IsCompanyAdmin(posts) => Can(posts, "manage_config")
    BY DEF Can
  <1> QED
    BY <1>1, PagesOfTheMenu DEF CanAccess, Has, Anyone, CompanyAdminOnly

\* Of the calls of a page, those that anybody may make are all that is served
\* to whoever lacks the page.
LEMMA PagesAreServed ==
    ASSUME NEW posts \in SUBSET Posting, posts # {}, NEW tab \in Page, NEW call \in Calls(posts, tab)
    PROVE  /\ CanAccess(posts, tab) => Served(posts, call)
           /\ ~CanAccess(posts, tab) /\ call \notin Lookups => ~Served(posts, call)
  <1>1. ScopePicker \cup {"getAdminRegional", "listBranchesLookup", "listDealershipsLookup"} \subseteq Lookups
    BY DEF ScopePicker, Lookups
  <1>2. \A lookup \in Lookups : Served(posts, lookup)
    BY WhoIsServed
  <1>3. CASE tab = "dashboard"
    <2>1. call \in DashboardCalls \cup Lookups /\ Can(posts, "view_dashboard")
      BY <1>1, <1>3 DEF Calls
    <2> QED
      BY <1>2, <1>3, <2>1, WhoIsServed, WhoHasThePage
  <1>4. CASE tab = "bookings"
    <2>1. call \in BookingsPageCalls(posts)
      BY <1>4 DEF Calls
    <2>2. \/ call \in OwnBookingCalls \cup PaperCalls \cup Lookups \cup {"listMyAssignedBookings"}
          \/ call \in ManagedBookingCalls /\ Can(posts, "manage_bookings")
      BY <2>1 DEF BookingsPageCalls, Lookups
    <2> QED
      BY <1>4, <2>2, WhoIsServed, WhoHasThePage
  <1>5. CASE tab \in {"vehicles", "branches", "branding", "templates", "flags"}
    <2>1. call \in (ConfigCalls \ {"getSystemHealth"}) \cup Lookups
      <3>1. VehicleCalls \cup TransferCalls \cup BranchCalls \cup BrandCalls \cup RegionalCalls \cup ScheduleCalls
                \cup TemplateCalls \cup FlagCalls \subseteq ConfigCalls \ {"getSystemHealth"}
        BY DEF VehicleCalls, TransferCalls, BranchCalls, BrandCalls, RegionalCalls, ScheduleCalls, TemplateCalls,
               FlagCalls, ConfigCalls
      <3>2. CASE tab = "vehicles"
        BY <1>1, <3>1, <3>2 DEF Calls
      <3>3. CASE tab = "branches"
        BY <1>1, <3>1, <3>3 DEF Calls
      <3>4. CASE tab = "branding"
        BY <1>1, <3>1, <3>4 DEF Calls
      <3>5. CASE tab = "templates"
        BY <1>1, <3>1, <3>5 DEF Calls
      <3>6. CASE tab = "flags"
        BY <1>1, <3>1, <3>6 DEF Calls
      <3> QED
        BY <1>5, <3>2, <3>3, <3>4, <3>5, <3>6
    <2> QED
      BY <1>2, <1>5, <2>1, WhoIsServed, WhoHasThePage
  <1>6. CASE tab = "users"
    <2>1. call \in StaffCalls \cup Lookups
      BY <1>1, <1>6 DEF Calls
    <2> QED
      BY <1>2, <1>6, <2>1, WhoIsServed, WhoHasThePage
  <1>7. CASE tab = "auditLog"
    <2>1. call \in {"queryAuditLog"} \cup Lookups
      BY <1>1, <1>7 DEF Calls
    <2> QED
      BY <1>2, <1>7, <2>1, WhoIsServed, WhoHasThePage
  <1>8. CASE tab = "health"
    <2>1. call \in {"getSystemHealth"} \cup Lookups
      BY <1>1, <1>8 DEF Calls
    <2> QED
      BY <1>2, <1>8, <2>1, WhoIsServed, WhoHasThePage
  <1> QED
    BY <1>3, <1>4, <1>5, <1>6, <1>7, <1>8, PagesOfTheMenu

LEMMA MenuIsRight ==
    ASSUME NEW posts \in SUBSET Posting, posts # {}
    PROVE  MenuIsServed(posts)
  <1>1. \A tab \in Page : Rendered(posts, tab, TRUE) \in Menu(posts)
    <2> SUFFICES ASSUME NEW tab \in Page PROVE Rendered(posts, tab, TRUE) \in Menu(posts)
      OBVIOUS
    <2>1. "bookings" \in Menu(posts)
      BY PagesOfTheMenu, WhoHasThePage DEF Menu
    <2>2. CanAccess(posts, tab) => tab \in Menu(posts)
      BY DEF Menu
    <2> QED
      BY <2>1, <2>2 DEF Rendered
  <1>2. \A tab \in Menu(posts) : tab \in Page /\ CanAccess(posts, tab)
    BY DEF Menu
  <1>3. \A tab \in Page \ Menu(posts) : ~CanAccess(posts, tab)
    BY DEF Menu
  <1> QED
    BY <1>1, <1>2, <1>3, PagesAreServed DEF MenuIsServed

\* What lists show and forms offer
LEMMA RowsAreRight ==
    ASSUME NEW posts \in SUBSET Posting
    PROVE  RowsAreGranted(posts)
  <1>1. \A at \in Site \cup {WholeCompany} : StaffListed(posts, at) = MayGrant(posts, at)
    BY DEF StaffListed, MayGrant, CanIn
  <1>2. \A ends \in SUBSET Site : TransferListed(posts, ends) = MayAdvance(posts, ends)
    BY DEF TransferListed, MayAdvance, CanIn
  <1>3. ASSUME NEW role \in RolesOffered(posts), NEW at \in DealershipScope(posts), Can(posts, "manage_users")
        PROVE  \/ MayGrant(posts, IF role = "Company_Admin" THEN WholeCompany ELSE at)
               \/ MixedRoles(posts, "manage_users", at)
    <2>1. CASE role = "Company_Admin"
      <3>1. IsCompanyAdmin(posts)
        BY <2>1 DEF RolesOffered
      <3> QED
        BY <2>1, <3>1 DEF MayGrant
    <2>2. CASE role # "Company_Admin"
      <3>1. CASE IsCompanyAdmin(posts)
        BY <2>2, <3>1, AccessAssumption DEF MayGrant, CanIn, ScopeFor, DealershipScope
      <3>2. CASE ~IsCompanyAdmin(posts)
        <4>1. at # WholeCompany
          BY <3>2, ScopesOfAPerson, AccessAssumption
        <4> QED
          BY <1>3, <2>2, <4>1 DEF MayGrant, MixedRoles
      <3> QED
        BY <3>1, <3>2
    <2> QED
      BY <2>1, <2>2
  <1>4. ASSUME NEW what \in DOMAIN Making, NEW at \in Site
        PROVE  /\ CanIn(posts, Making[what], at) => at \in DealershipScope(posts)
               /\ Can(posts, Making[what]) /\ at \in DealershipScope(posts)
                    => CanIn(posts, Making[what], at) \/ MixedRoles(posts, Making[what], at)
    BY ScopesOfAPerson DEF CanIn, MixedRoles
  <1>5. ASSUME NEW from \in ScopeFor(posts, "manage_config"), NEW to \in DealershipScope(posts)
        PROVE  MayRequest(posts, from, to) \/ MixedRoles(posts, "manage_config", to)
    BY DEF MayRequest, MixedRoles, CanIn, Can
  <1> QED
    BY <1>1, <1>2, <1>3, <1>4, <1>5 DEF RowsAreGranted

\* A flag has one narrowest row.
LEMMA RanksDiffer ==
    ASSUME NEW scope \in Scope, NEW s \in Wider(scope), NEW t \in Wider(scope)
    PROVE  /\ Rank(s) \in 1..3 /\ Rank(s) <= Rank(scope)
           /\ Rank(s) = Rank(t) => s = t
           /\ s \in Scope
  BY AccessAssumption DEF Wider, Rank, Scope

\* The row that decides
Deciding(rows, scope, s) == s \in SetRows(rows, scope) /\ \A t \in SetRows(rows, scope) : Rank(s) >= Rank(t)

LEMMA OneRowDecides ==
    ASSUME NEW scope \in Scope, NEW rows, NEW s, Deciding(rows, scope, s)
    PROVE  ResolveFlag(rows, scope) = [value |-> rows[s], source |-> s]
  <1>1. \A t : Deciding(rows, scope, t) => t = s
    <2> SUFFICES ASSUME NEW t, Deciding(rows, scope, t) PROVE t = s
      OBVIOUS
    <2>1. s \in Wider(scope) /\ t \in Wider(scope) /\ Rank(s) >= Rank(t) /\ Rank(t) >= Rank(s)
      BY DEF Deciding, SetRows
    <2> QED
      BY <2>1, RanksDiffer
  <1>2. SetRows(rows, scope) # {}
    BY DEF Deciding
  <1> DEFINE top == CHOOSE x \in SetRows(rows, scope) : \A t \in SetRows(rows, scope) : Rank(x) >= Rank(t)
  <1>3. Deciding(rows, scope, top)
    BY DEF Deciding
  <1>4. ResolveFlag(rows, scope) = [value |-> rows[top], source |-> top]
    BY <1>2 DEF ResolveFlag
  <1> HIDE DEF top
  <1> QED
    BY <1>1, <1>3, <1>4

LEMMA SomeRowDecides ==
    ASSUME NEW scope \in Scope, NEW rows, SetRows(rows, scope) # {}
    PROVE  \E s : Deciding(rows, scope, s)
  <1>1. PICK s \in SetRows(rows, scope) : TRUE
    OBVIOUS
  <1>2. \A t \in SetRows(rows, scope) : t \in Wider(scope) /\ Rank(t) \in 1..3
    BY RanksDiffer DEF SetRows
  <1>3. CASE \E t \in SetRows(rows, scope) : Rank(t) = 3
    BY <1>2, <1>3 DEF Deciding
  <1>4. CASE /\ ~\E t \in SetRows(rows, scope) : Rank(t) = 3
             /\ \E t \in SetRows(rows, scope) : Rank(t) = 2
    BY <1>2, <1>4 DEF Deciding
  <1>5. CASE \A t \in SetRows(rows, scope) : Rank(t) = 1
    BY <1>1, <1>5 DEF Deciding
  <1> QED
    BY <1>2, <1>3, <1>4, <1>5

LEMMA FlagsAreRight ==
    ASSUME NEW rows \in [Scope -> FlagRow]
    PROVE  FlagsAreLayered(rows)
  <1>1. ASSUME NEW scope \in Scope, NEW other \in Scope, NEW value \in {"on", "off"}
        PROVE  LET after == SetFlag(rows, scope, value)
               IN  /\ ResolveFlag(after, scope) = [value |-> value, source |-> scope]
                   /\ ResolveFlag(after, other) # ResolveFlag(rows, other)
                        => scope \in Wider(other) /\ \A s \in SetRows(rows, other) : Rank(s) <= Rank(scope)
    <2> DEFINE after == SetFlag(rows, scope, value)
    <2>1. after[scope] = value /\ value # NotSet /\ \A s \in Scope : s # scope => after[s] = rows[s]
      BY DEF SetFlag, NotSet
    <2>2. \A to \in Scope : Wider(to) \subseteq Scope
      BY RanksDiffer
    <2>3. \A to \in Scope : SetRows(after, to) = SetRows(rows, to) \cup (Wider(to) \cap {scope})
      BY <2>1, <2>2 DEF SetRows
    <2> HIDE DEF after
    <2>4. Deciding(after, scope, scope)
      BY <2>3, RanksDiffer DEF Deciding, SetRows, Wider
    <2>5. ResolveFlag(after, scope) = [value |-> value, source |-> scope]
      BY <2>1, <2>4, OneRowDecides
    <2>6. ASSUME scope \notin Wider(other)
          PROVE  ResolveFlag(after, other) = ResolveFlag(rows, other)
      <3>1. SetRows(after, other) = SetRows(rows, other) /\ scope \notin SetRows(rows, other)
        BY <2>3, <2>6 DEF SetRows
      <3>2. CASE SetRows(rows, other) = {}
        BY <3>1, <3>2 DEF ResolveFlag
      <3>3. CASE SetRows(rows, other) # {}
        <4>1. PICK s : Deciding(rows, other, s)
          BY <3>3, SomeRowDecides
        <4>2. Deciding(after, other, s) /\ after[s] = rows[s]
          BY <2>1, <2>2, <3>1, <4>1 DEF Deciding, SetRows
        <4> QED
          BY <4>1, <4>2, OneRowDecides
      <3> QED
        BY <3>2, <3>3
    <2>7. ASSUME scope \in Wider(other), NEW r \in SetRows(rows, other), ~(Rank(r) <= Rank(scope))
          PROVE  ResolveFlag(after, other) = ResolveFlag(rows, other)
      <3>1. PICK s : Deciding(rows, other, s)
        BY <2>7, SomeRowDecides
      <3>2. s \in Wider(other) /\ Rank(s) > Rank(scope) /\ s # scope /\ s \in Scope
        BY <2>7, <3>1, RanksDiffer DEF Deciding, SetRows
      <3>3. Deciding(after, other, s) /\ after[s] = rows[s]
        BY <2>1, <2>3, <3>1, <3>2, RanksDiffer DEF Deciding
      <3> QED
        BY <3>1, <3>3, OneRowDecides
    <2> QED
      BY <2>5, <2>6, <2>7 DEF after
  <1>2. ASSUME NEW scope \in Scope
        PROVE  SetHere(rows, scope) <=> rows[scope] # NotSet
    <2>1. scope \in Wider(scope)
      BY DEF Wider
    <2>2. CASE SetRows(rows, scope) = {}
      <3>1. ResolveFlag(rows, scope).source = "default" /\ "default" # scope
        BY <2>2, ConsoleAssumption DEF ResolveFlag
      <3>2. rows[scope] = NotSet
        BY <2>1, <2>2 DEF SetRows
      <3> QED
        BY <3>1, <3>2 DEF SetHere
    <2>3. CASE SetRows(rows, scope) # {}
      <3>1. PICK s : Deciding(rows, scope, s)
        BY <2>3, SomeRowDecides
      <3>2. SetHere(rows, scope) <=> s = scope
        BY <3>1, OneRowDecides DEF SetHere
      <3>3. s = scope => rows[scope] # NotSet
        BY <3>1 DEF Deciding, SetRows
      <3>4. rows[scope] # NotSet => Deciding(rows, scope, scope)
        BY <2>1, RanksDiffer DEF Deciding, SetRows
      <3>5. Deciding(rows, scope, scope) => s = scope
        BY <3>1, OneRowDecides
      <3> QED
        BY <3>2, <3>3, <3>4, <3>5
    <2> QED
      BY <2>2, <2>3
  <1>3. \A site \in Site : ShownTemplate(rows, site) = EffectiveTemplate(rows, site)
    BY DEF ShownTemplate, EffectiveTemplate
  <1> QED
    BY <1>1, <1>2, <1>3 DEF FlagsAreLayered

\* The form of an assignment
LEMMA GrantIsStored ==
    ASSUME NEW form, NEW f \in Fillings(form)
    PROVE  FormIsStored(CreateFields(f), f)
  <1> SUFFICES ASSUME MaySubmitGrant(f)
               PROVE  Accepted(CreateFields(f)) /\ Shows(f, CreateFields(f))
    BY DEF FormIsStored
  <1>1. f.bay # NotSet => SiteOf[f.bay] = f.at
    BY DEF Fillings
  <1>2. /\ CreateFields(f).role = f.role
        /\ CreateFields(f).at = IF f.role = "Company_Admin" THEN NotSet ELSE f.at
        /\ CreateFields(f).bay = IF f.role = "Sales_Rep" THEN f.bay ELSE NotSet
        /\ CreateFields(f).cap = IF f.role = "Sales_Rep" THEN f.cap ELSE NotSet
        /\ CreateFields(f).phone = IF f.role = "Sales_Rep" THEN f.phone ELSE NotSet
    BY DEF CreateFields
  <1> QED
    BY <1>1, <1>2 DEF MaySubmitGrant, Accepted, Shows

\* What the form sends clears what it has not set, so nothing of the stored
\* assignment is left.
LEMMA PatchReplaces ==
    ASSUME NEW a \in AssignmentFields, NEW f \in AssignmentFields
    PROVE  PatchedAssignment(a, UpdateFields(f)) = CreateFields(f)
  <1> DEFINE created == CreateFields(f)
             patch == UpdateFields(f)
             keys == {"role", "at", "bay", "cap", "phone"}
  <1>1. DOMAIN a = keys /\ DOMAIN created = keys /\ created = [k \in keys |-> created[k]]
    BY DEF AssignmentFields, CreateFields
  <1>2. Cleared # NotSet
    BY DEF Cleared, NotSet
  <1>3. \A k \in keys : created[k] # Cleared
    <2>1. f.role # Cleared
      BY DEF AssignmentFields, Posting, Cleared
    <2>2. f.at # Cleared /\ f.bay # Cleared
      BY <1>2, ConsoleAssumption DEF AssignmentFields, Scope
    <2>3. f.cap # Cleared /\ f.phone # Cleared
      BY DEF AssignmentFields, Caps, Phones, DefaultMaxDailyBookings, Cleared, NotSet
    <2> QED
      BY <1>2, <2>1, <2>2, <2>3 DEF CreateFields
  <1>4. patch = [k \in keys |-> IF created[k] = NotSet THEN Cleared ELSE created[k]]
    BY <1>1 DEF UpdateFields
  <1> HIDE DEF created
  <1>5. PatchedAssignment(a, patch) =
            [k \in keys |-> IF patch[k] = NotSet THEN a[k] ELSE IF patch[k] = Cleared THEN NotSet ELSE patch[k]]
    BY <1>1 DEF PatchedAssignment
  <1> HIDE DEF patch
  <1>6. \A k \in keys : PatchedAssignment(a, patch)[k] = created[k]
    BY <1>2, <1>3, <1>4, <1>5
  <1>7. PatchedAssignment(a, patch) = [k \in keys |-> created[k]]
    BY <1>5, <1>6
  <1> QED
    BY <1>1, <1>7 DEF created, patch

\* The cases that are drawn have few assignments, but their number is nothing to
\* the pages or the server: for any set of them, menu, lists, forms, scopes and
\* buttons offer what is granted (booking-access.policy.ts:10).
THEOREM AnyAssignmentsTheorem ==
    ASSUME NEW posts \in SUBSET Posting, posts # {}
    PROVE  /\ ScopesAreGranted(posts) /\ MenuIsServed(posts) /\ RowsAreGranted(posts)
           /\ \A d \in Drive : DriveIsGranted(posts, d)
  BY ScopesAreRight, MenuIsRight, RowsAreRight, DrivesAreGranted

\* For any number of dealerships and branches, and any drive, flags and form:
\* what the pages offer the server grants, and what it grants they show, but
\* for what the pages are known not to look at (booking-access.policy.ts:10,
\* ConfigScopePicker.tsx:22).
THEOREM OffersAreGrantedTheorem == ConsoleSpec => []OffersAreGranted
  <1>1. \A posts \in Postings : posts \in SUBSET Posting /\ posts # {}
    BY DEF Postings
  <1>2. NoQuestion.kind = "none"
    BY DEF NoQuestion
  <1>3. AccessInit => OffersAreGranted
    BY <1>2 DEF AccessInit, OffersAreGranted
  <1>4. ASSUME OffersAreGranted, [ConsoleNext]_question
        PROVE  OffersAreGranted'
    <2>1. CASE AskDrive
      <3>1. PICK posts \in Postings, d \in Drive : question' = [kind |-> "drive", posts |-> posts, drive |-> d]
        BY <2>1 DEF AskDrive
      <3> QED
        BY <1>1, <3>1, DrivesAreGranted DEF OffersAreGranted
    <2>2. CASE AskScopes
      <3>1. PICK posts \in Postings : question' = [kind |-> "scopes", posts |-> posts]
        BY <2>2 DEF AskScopes
      <3> QED
        BY <1>1, <3>1, ScopesAreRight, MenuIsRight, RowsAreRight DEF OffersAreGranted
    <2>3. CASE AskSettings
      <3>1. PICK rows \in [Scope -> FlagRow] : question' = [kind |-> "settings", rows |-> rows]
        BY <2>3 DEF AskSettings
      <3> QED
        BY <3>1, FlagsAreRight DEF OffersAreGranted
    <2>4. CASE AskGrant
      <3>1. PICK sites \in SUBSET Site : \E f \in Fillings(Fresh(sites)) : question' = [kind |-> "grant", fields |-> f]
        BY <2>4 DEF AskGrant
      <3>2. PICK f \in Fillings(Fresh(sites)) : question' = [kind |-> "grant", fields |-> f]
        BY <3>1
      <3> QED
        BY <3>2, GrantIsStored DEF OffersAreGranted
    <2>5. CASE AskEdit
      <3>1. PICK a \in AssignmentFields :
                \E f \in Fillings(Opened(a)) : question' = [kind |-> "edit", stored |-> a, fields |-> f]
        BY <2>5 DEF AskEdit
      <3>2. PICK f \in Fillings(Opened(a)) : question' = [kind |-> "edit", stored |-> a, fields |-> f]
        BY <3>1
      <3>3. PatchedAssignment(a, UpdateFields(f)) = CreateFields(f)
        BY PatchReplaces DEF Fillings
      <3> QED
        BY <3>2, <3>3, GrantIsStored DEF OffersAreGranted
    <2>6. CASE UNCHANGED question
      BY <1>4, <2>6 DEF OffersAreGranted
    <2> QED
      BY <1>4, <2>1, <2>2, <2>3, <2>4, <2>5, <2>6 DEF ConsoleNext, AccessNext
  <1> QED
    BY <1>3, <1>4, PTL DEF ConsoleSpec

-----------------------------------------------------------------------------
(* The papers                                                              *)

Record == [of : Submission \cup {NoFiles}, exists : BOOLEAN, signed : BOOLEAN, verified : BOOLEAN, consent : BOOLEAN]
SubmissionPlace == {"unsent", "look", "open", "upload", "save", "tidy", "done"}

PaperworkTypes ==
    /\ drive \in {"Confirmed", "CheckedIn", "InProgress", "Completed"}
    /\ paper \in Record /\ starting \in Record /\ startedOn \in Record
    /\ submissions \in [Submission -> [at : SubmissionPlace, old : Submission \cup {NoFiles}]]
    /\ reviews \in [Reviewer -> [at : {"closed", "shown", "confirm"}, record : Record]]
    /\ crossed \in BOOLEAN

\* A record is signed for a submission, and verified of one that was read.
Sound(record) ==
    /\ record.signed => record.of \in Submission
    /\ record.verified => record.of \in signedOff

SignOffIInv ==
    /\ PaperworkTypes
    /\ Sound(paper) /\ Sound(starting)
    /\ \A f \in Reviewer : reviews[f].at = "confirm" => Sound(reviews[f].record) /\ reviews[f].record.of \in signedOff
    /\ starting # NoPaper => Complete(starting)
    /\ drive \in {"InProgress", "Completed"} =>
            startedOn.of \in signedOff \cap Submission /\ startedOn.consent

USE PaperworkAssumption

-----------------------------------------------------------------------------
(* What the drive starts on                                                *)

\* The steps of a submission keep it.
LEMMA SubmissionKeepsSignOff ==
    ASSUME SignOffIInv, NEW s \in Submission,
           \/ Submit(s) \/ Look(s) \/ Open(s) \/ Upload(s) \/ SaveFinal(s) \/ Tidy(s) \/ SubmissionFails(s)
    PROVE  SignOffIInv'
  <1>1. paper' \in Record /\ Sound(paper)' /\ signedOff' = signedOff
    <2>1. CASE UNCHANGED paper /\ UNCHANGED signedOff
      BY <2>1 DEF SignOffIInv, PaperworkTypes, Sound
    <2>2. CASE Open(s)
      <3>1. Pending \in Record /\ ~Pending.signed /\ ~Pending.verified
        BY DEF Pending, NoPaper, Record
      <3> QED
        BY <2>2, <3>1 DEF Open, Sound
    <2>3. CASE SaveFinal(s)
      <3>1. \A consent \in BOOLEAN : /\ Final(s, consent) \in Record
                                     /\ Final(s, consent).of = s /\ ~Final(s, consent).verified
        BY DEF Final, Record
      <3> QED
        BY <2>3, <3>1 DEF SaveFinal, Sound
    <2> QED
      BY <2>1, <2>2, <2>3 DEF Submit, Look, Upload, Tidy, SubmissionFails
  <1>2. submissions' \in [Submission -> [at : SubmissionPlace, old : Submission \cup {NoFiles}]]
    <2>1. CASE \E at \in SubmissionPlace : Submitting(s, at)
      BY <2>1 DEF Submitting, SignOffIInv, PaperworkTypes
    <2>2. CASE Look(s)
      <3>1. paper.of \in Submission \cup {NoFiles}
        BY DEF SignOffIInv, PaperworkTypes, Record
      <3>2. \A at \in SubmissionPlace : [at |-> at, old |-> paper.of] \in [at : SubmissionPlace, old : Submission \cup {NoFiles}]
        BY <3>1
      <3> QED
        BY <2>2, <3>2 DEF Look, SignOffIInv, PaperworkTypes, SubmissionPlace
    <2> QED
      BY <2>1, <2>2 DEF Submit, Open, Upload, SaveFinal, Tidy, SubmissionFails, After, SavesFirst, SubmissionPlace
  <1>3. UNCHANGED <<drive, reviews, starting, signedOff, startedOn>> /\ crossed' \in BOOLEAN
    BY DEF Submit, Look, Open, Upload, SaveFinal, Tidy, SubmissionFails, SignOffIInv, PaperworkTypes
  <1> QED
    BY <1>1, <1>2, <1>3 DEF SignOffIInv, PaperworkTypes, Sound, Complete

\* The steps of a panel keep it.
LEMMA PanelKeepsSignOff ==
    ASSUME SignOffIInv, NEW f \in Reviewer, Review(f) \/ Confirm(f) \/ SaveConfirmed(f)
    PROVE  SignOffIInv'
  <1>0. /\ PaperworkTypes /\ Sound(paper) /\ Sound(starting) /\ paper \in Record
        /\ reviews \in [Reviewer -> [at : {"closed", "shown", "confirm"}, record : Record]]
    BY DEF SignOffIInv, PaperworkTypes
  <1>1. CASE Review(f)
    <2>1. reviews' = [reviews EXCEPT ![f] = [at |-> "shown", record |-> paper]]
      BY <1>1 DEF Review
    <2>2. /\ reviews' \in [Reviewer -> [at : {"closed", "shown", "confirm"}, record : Record]]
          /\ \A g \in Reviewer : reviews'[g].at = "confirm" => reviews'[g] = reviews[g]
      BY <1>0, <2>1
    <2> QED
      BY <1>1, <2>2 DEF Review, SignOffIInv, PaperworkTypes, Sound, Complete
  <1>2. CASE Confirm(f)
    <2>1. reviews' = [reviews EXCEPT ![f] = [at |-> "confirm", record |-> paper]]
      BY <1>2 DEF Confirm
    <2>2. /\ reviews' \in [Reviewer -> [at : {"closed", "shown", "confirm"}, record : Record]]
          /\ \A g \in Reviewer : reviews'[g] = reviews[g] \/ reviews'[g].record = paper
      BY <1>0, <2>1
    <2>3. signedOff' = signedOff \cup {paper.of}
      BY <1>2 DEF Confirm
    <2> QED
      BY <1>0, <1>2, <2>2, <2>3 DEF Confirm, SignOffIInv, PaperworkTypes, Sound, Complete
  <1>3. CASE SaveConfirmed(f)
    <2>1. reviews' = [reviews EXCEPT ![f].at = "closed"] /\ reviews[f].at = "confirm" /\ signedOff' = signedOff
      BY <1>3 DEF SaveConfirmed
    <2>2. /\ reviews' \in [Reviewer -> [at : {"closed", "shown", "confirm"}, record : Record]]
          /\ \A g \in Reviewer : reviews'[g].at = "confirm" => reviews'[g] = reviews[g]
      BY <1>0, <2>1
    <2>3. reviews[f].record \in Record /\ Sound(reviews[f].record) /\ reviews[f].record.of \in signedOff
      BY <1>0, <2>1 DEF SignOffIInv
    <2>4. paper' = [reviews[f].record EXCEPT !.verified = TRUE]
      BY <1>3 DEF SaveConfirmed, Confirmed
    <2>5. paper' \in Record /\ Sound(paper)'
      BY <2>1, <2>3, <2>4 DEF Record, Sound
    <2> QED
      BY <1>3, <2>1, <2>2, <2>5 DEF SaveConfirmed, SignOffIInv, PaperworkTypes, Sound, Complete
  <1> QED
    BY <1>1, <1>2, <1>3

\* Every step keeps it.
LEMMA NextKeepsSignOff == SignOffIInv /\ [PaperworkNext]_paperVars => SignOffIInv'
  <1> SUFFICES ASSUME SignOffIInv, [PaperworkNext]_paperVars PROVE SignOffIInv'
    OBVIOUS
  <1> USE DEF SignOffIInv, PaperworkTypes, Sound, Complete
  <1>1. CASE CheckIn
    BY <1>1 DEF CheckIn
  <1>2. CASE ReadToStart
    BY <1>2 DEF ReadToStart
  <1>3. CASE StartDrive
    BY <1>3 DEF StartDrive
  <1>4. CASE CompleteDrive
    BY <1>4 DEF CompleteDrive
  <1>5. CASE UNCHANGED paperVars
    BY <1>5 DEF paperVars
  <1> QED
    BY <1>1, <1>2, <1>3, <1>4, <1>5, SubmissionKeepsSignOff, PanelKeepsSignOff DEF PaperworkNext

\* The first state satisfies it.
LEMMA InitSignOff == PaperworkInit => SignOffIInv
  <1> SUFFICES ASSUME PaperworkInit PROVE SignOffIInv
    OBVIOUS
  <1>1. NoPaper \in Record /\ ~NoPaper.signed /\ ~NoPaper.verified
    BY DEF NoPaper, Record
  <1>2. PaperworkTypes
    BY <1>1 DEF PaperworkInit, PaperworkTypes, SubmissionPlace
  <1>3. \A f \in Reviewer : reviews[f].at = "closed"
    BY DEF PaperworkInit
  <1> QED
    BY <1>1, <1>2, <1>3 DEF PaperworkInit, SignOffIInv, Sound

\* A drive only starts on a licence that some confirmation read, and on consent
\* given with it, for any number of submissions and panels
\* (compliance.service.ts:56, admin-bookings.service.ts:197).
THEOREM DriveStartsOnSignedPapersTheorem == PaperworkSpec => []DriveStartsOnSignedPapers
  <1>1. SignOffIInv => DriveStartsOnSignedPapers
    BY DEF SignOffIInv, Sound, DriveStartsOnSignedPapers
  <1> QED
    BY <1>1, InitSignOff, NextKeepsSignOff, PTL DEF PaperworkSpec

-----------------------------------------------------------------------------
(* What the record names                                                   *)

\* Until a submission is saved, nobody has read a record of it.
KnownOnceSaved ==
    /\ \A s \in Submission : submissions[s].at \notin {"tidy", "done"} =>
            /\ paper.of # s
            /\ \A f \in Reviewer : reviews[f].record.of # s
            /\ \A t \in Submission : submissions[t].old # s
    /\ \A s \in Submission : submissions[s].at = "save" => s \in files

\* The files of submission s are stored, and nobody is about to delete them.
Safe(s) == s \in files /\ \A t \in Submission : submissions[t].at = "tidy" => submissions[t].old # s

NamesSafeFiles ==
    ~crossed => /\ \A s \in Submission : paper.of = s => Safe(s)
                /\ \A f \in Reviewer, s \in Submission :
                        reviews[f].at = "confirm" /\ reviews[f].record.of = s => Safe(s)

FilesIInv == PaperworkTypes /\ KnownOnceSaved /\ NamesSafeFiles

\* What a step that moves submission s on, and reads no record, must show
LEMMA SubmittingEffect ==
    ASSUME PaperworkTypes, NEW s \in Submission, NEW at \in SubmissionPlace, Submitting(s, at)
    PROVE  /\ \A t \in Submission : submissions'[t].at = (IF t = s THEN at ELSE submissions[t].at)
           /\ \A t \in Submission : submissions'[t].old = submissions[t].old
  BY DEF PaperworkTypes, Submitting

\* The steps of a submission keep it.
LEMMA SubmissionKeepsFiles ==
    ASSUME FilesIInv, PaperworkTypes', NEW s \in Submission,
           \/ Submit(s) \/ Look(s) \/ Open(s) \/ Upload(s) \/ SaveFinal(s) \/ Tidy(s) \/ SubmissionFails(s)
    PROVE  FilesIInv'
  <1>t. PaperworkTypes /\ KnownOnceSaved /\ NamesSafeFiles
    BY DEF FilesIInv
  <1>1. CASE Submit(s)
    <2>1. PICK at \in {"look", "done"} : Submitting(s, at)
      BY <1>1 DEF Submit
    <2>2. submissions[s].at = "unsent" /\ UNCHANGED <<paper, files, reviews, crossed>>
      BY <1>1 DEF Submit
    <2> QED
      BY <1>t, <2>1, <2>2, SubmittingEffect DEF FilesIInv, KnownOnceSaved, NamesSafeFiles, Safe, SubmissionPlace
  <1>2. CASE Look(s)
    <2>1. PICK at \in {"done", "upload", "open"} : submissions' = [submissions EXCEPT ![s] = [at |-> at, old |-> paper.of]]
      BY <1>2 DEF Look
    <2>2. submissions[s].at = "look" /\ UNCHANGED <<paper, files, reviews, crossed>>
      BY <1>2 DEF Look
    <2>3. /\ submissions'[s].at = at /\ submissions'[s].old = paper.of
          /\ \A t \in Submission \ {s} : submissions'[t] = submissions[t]
      BY <1>t, <2>1 DEF PaperworkTypes
    <2> QED
      BY <1>t, <2>2, <2>3 DEF FilesIInv, KnownOnceSaved, NamesSafeFiles, Safe
  <1>3. CASE Open(s)
    <2>1. Submitting(s, "upload") /\ submissions[s].at = "open" /\ UNCHANGED <<files, reviews, crossed>>
      BY <1>3 DEF Open
    <2>2. paper'.of = NoFiles
      BY <1>3 DEF Open, Pending, NoPaper
    <2> QED
      BY <1>t, <2>1, <2>2, SubmittingEffect DEF FilesIInv, KnownOnceSaved, NamesSafeFiles, Safe, SubmissionPlace
  <1>4. CASE Upload(s)
    <2>1. Submitting(s, "save") /\ submissions[s].at = "upload" /\ UNCHANGED <<paper, reviews, crossed>>
      BY <1>4 DEF Upload, SavesFirst
    <2>2. files' = files \cup {s}
      BY <1>4 DEF Upload
    <2> QED
      BY <1>t, <2>1, <2>2, SubmittingEffect DEF FilesIInv, KnownOnceSaved, NamesSafeFiles, Safe, SubmissionPlace
  <1>5. CASE SaveFinal(s)
    <2>1. Submitting(s, "tidy") /\ submissions[s].at = "save" /\ UNCHANGED <<files, reviews>>
      BY <1>5 DEF SaveFinal, After, SavesFirst
    <2>2. paper'.of = s
      BY <1>5 DEF SaveFinal, Final
    <2>3. /\ \A t \in Submission : submissions'[t].at = (IF t = s THEN "tidy" ELSE submissions[t].at)
          /\ \A t \in Submission : submissions'[t].old = submissions[t].old
      BY <1>t, <2>1, SubmittingEffect DEF SubmissionPlace
    <2>4. ~crossed' => ~crossed /\ \A f \in Reviewer : reviews[f].at # "confirm"
      BY <1>5 DEF SaveFinal
    <2>5. s \in files /\ \A t \in Submission : submissions[t].old # s
      BY <1>t, <2>1 DEF KnownOnceSaved
    <2>6. KnownOnceSaved'
      BY <1>t, <2>1, <2>2, <2>3 DEF KnownOnceSaved
    <2>7. NamesSafeFiles'
      BY <2>1, <2>2, <2>3, <2>4, <2>5 DEF NamesSafeFiles, Safe
    <2> QED
      BY <2>6, <2>7 DEF FilesIInv
  <1>6. CASE Tidy(s)
    <2>1. Submitting(s, "done") /\ submissions[s].at = "tidy" /\ UNCHANGED <<paper, reviews, crossed>>
      BY <1>6 DEF Tidy, After, SavesFirst
    <2>2. files' = files \ {submissions[s].old}
      BY <1>6 DEF Tidy
    <2>3. /\ \A t \in Submission : submissions'[t].at = (IF t = s THEN "done" ELSE submissions[t].at)
          /\ \A t \in Submission : submissions'[t].old = submissions[t].old
      BY <1>t, <2>1, SubmittingEffect DEF SubmissionPlace
    <2>4. KnownOnceSaved'
      BY <1>t, <2>1, <2>2, <2>3 DEF KnownOnceSaved
    <2>5. \A t \in Submission : Safe(t) => Safe(t)'
      BY <2>1, <2>2, <2>3 DEF Safe
    <2> QED
      BY <1>t, <2>1, <2>4, <2>5 DEF FilesIInv, NamesSafeFiles
  <1>7. CASE SubmissionFails(s)
    <2>1. Submitting(s, "done") /\ UNCHANGED <<paper, files, reviews, crossed>>
      BY <1>7 DEF SubmissionFails
    <2> QED
      BY <1>t, <2>1, SubmittingEffect DEF FilesIInv, KnownOnceSaved, NamesSafeFiles, Safe, SubmissionPlace
  <1> QED
    BY <1>1, <1>2, <1>3, <1>4, <1>5, <1>6, <1>7

\* The steps of a panel keep it.
LEMMA PanelKeepsFiles ==
    ASSUME FilesIInv, PaperworkTypes', NEW f \in Reviewer, Review(f) \/ Confirm(f) \/ SaveConfirmed(f)
    PROVE  FilesIInv'
  <1>t. PaperworkTypes /\ KnownOnceSaved /\ NamesSafeFiles
    BY DEF FilesIInv
  <1>1. CASE Review(f) \/ Confirm(f)
    <2>1. PICK at \in {"shown", "confirm"} : reviews' = [reviews EXCEPT ![f] = [at |-> at, record |-> paper]]
      BY <1>1 DEF Review, Confirm
    <2>2. \A g \in Reviewer : reviews'[g] = reviews[g] \/ reviews'[g].record = paper
      BY <1>t, <2>1 DEF PaperworkTypes
    <2>3. UNCHANGED <<paper, files, submissions, crossed>>
      BY <1>1 DEF Review, Confirm
    <2> QED
      BY <1>t, <2>2, <2>3 DEF FilesIInv, KnownOnceSaved, NamesSafeFiles, Safe
  <1>2. CASE SaveConfirmed(f)
    <2>1. files' = files /\ submissions' = submissions /\ crossed' = crossed /\ reviews[f].at = "confirm"
      BY <1>2 DEF SaveConfirmed
    <2>2. \A g \in Reviewer : /\ reviews'[g].record = reviews[g].record
                              /\ reviews'[g].at = "confirm" => reviews[g].at = "confirm"
      BY <1>t, <1>2 DEF SaveConfirmed, PaperworkTypes
    <2>3. paper'.of = reviews[f].record.of
      BY <1>t, <1>2 DEF SaveConfirmed, Confirmed, PaperworkTypes, Record
    <2> QED
      BY <1>t, <2>1, <2>2, <2>3 DEF FilesIInv, KnownOnceSaved, NamesSafeFiles, Safe
  <1> QED
    BY <1>1, <1>2

\* As long as no submission is saved under a confirmation, the files that the
\* record names are stored, whichever submissions fail or overlap
\* (compliance.service.ts:113).
THEOREM NamedFilesAreStoredTheorem == PaperworkSpec => []NamedFilesAreStored
  <1>1. PaperworkInit => FilesIInv
    <2> SUFFICES ASSUME PaperworkInit PROVE FilesIInv
      OBVIOUS
    <2>1. PaperworkTypes /\ paper.of = NoFiles
      BY InitSignOff DEF SignOffIInv, PaperworkInit, NoPaper
    <2>2. \A s \in Submission : submissions[s].at = "unsent" /\ submissions[s].old = NoFiles
      BY DEF PaperworkInit
    <2>3. \A f \in Reviewer : reviews[f].at = "closed" /\ reviews[f].record.of = NoFiles
      BY DEF PaperworkInit, NoPaper
    <2> QED
      BY <2>1, <2>2, <2>3 DEF FilesIInv, KnownOnceSaved, NamesSafeFiles
  <1>2. SignOffIInv' /\ FilesIInv /\ [PaperworkNext]_paperVars => FilesIInv'
    <2> SUFFICES ASSUME SignOffIInv', FilesIInv, [PaperworkNext]_paperVars PROVE FilesIInv'
      OBVIOUS
    <2>1. PaperworkTypes'
      BY DEF SignOffIInv
    <2>2. CASE UNCHANGED <<paper, files, submissions, reviews, crossed>>
      <3>1. /\ paper' = paper /\ files' = files /\ submissions' = submissions
            /\ reviews' = reviews /\ crossed' = crossed
        BY <2>2
      <3>2. KnownOnceSaved'
        BY <3>1 DEF FilesIInv, KnownOnceSaved
      <3>3. NamesSafeFiles'
        BY <3>1 DEF FilesIInv, NamesSafeFiles, Safe
      <3> QED
        BY <2>1, <3>2, <3>3 DEF FilesIInv
    <2>3. CASE CheckIn \/ ReadToStart \/ StartDrive \/ CompleteDrive \/ UNCHANGED paperVars
      <3>1. UNCHANGED <<paper, files, submissions, reviews, crossed>>
        BY <2>3 DEF CheckIn, ReadToStart, StartDrive, CompleteDrive, paperVars
      <3> QED
        BY <2>2, <3>1
    <2> QED
      BY <2>1, <2>3, SubmissionKeepsFiles, PanelKeepsFiles DEF PaperworkNext
  <1>3. FilesIInv => NamedFilesAreStored
    BY DEF FilesIInv, PaperworkTypes, Record, NamesSafeFiles, Safe, NamedFilesAreStored
  <1> QED
    BY <1>1, <1>2, <1>3, InitSignOff, NextKeepsSignOff, PTL DEF PaperworkSpec

-----------------------------------------------------------------------------
(* The survey                                                              *)

Selling == {"find lead", "lead", "opportunity"}
Locked == {"ask", "store", "sell", "find lead", "lead", "opportunity"}
SurveyPlace == [at : {"unsent", "wait", "done"} \cup Locked, retried : BOOLEAN]

\* What the handler of v may rely on
Relies(v) ==
    /\ surveys[v].at \in Locked => desk = v
    /\ surveys[v].at = "store" => answers = 0
    /\ surveys[v].at \in Selling => opportunities = 0
    /\ surveys[v].at = "lead" => leads = 0

SurveyTypes ==
    /\ surveys \in [Survey -> SurveyPlace]
    /\ desk \in Survey \cup {NoSurvey}
    /\ ridden \in BOOLEAN /\ expired \in BOOLEAN
    /\ answers \in Nat /\ leads \in Nat /\ opportunities \in Nat

SurveyIInv ==
    /\ SurveyTypes
    /\ ~expired => /\ OneSurveyPerDrive
                   /\ \A v \in Survey : Relies(v)

USE SurveyAssumption

\* A step of one handler moves it to a place.
LEMMA SurveyingEffect ==
    ASSUME SurveyTypes, NEW v \in Survey, NEW at \in {"unsent", "wait", "done"} \cup Locked, Surveying(v, at)
    PROVE  \E p \in SurveyPlace : p.at = at /\ surveys' = [surveys EXCEPT ![v] = p]
  <1>1. [surveys[v] EXCEPT !.at = at] \in SurveyPlace
    BY DEF SurveyTypes, SurveyPlace
  <1>2. surveys' = [surveys EXCEPT ![v] = [surveys[v] EXCEPT !.at = at]]
    BY DEF Surveying, SurveyTypes
  <1>3. [surveys[v] EXCEPT !.at = at].at = at
    BY DEF SurveyTypes, SurveyPlace
  <1> QED
    BY <1>1, <1>2, <1>3

\* When a handler without the lock changes nothing but its own place, and one
\* with the lock nobody else's, the others may rely on what they did.
LEMMA StepKeepsIInv ==
    ASSUME SurveyIInv, NEW v \in Survey, NEW p \in SurveyPlace, surveys' = [surveys EXCEPT ![v] = p],
           ridden' = ridden, expired' = expired,
           desk' \in {desk, v, NoSurvey}, answers' \in Nat, leads' \in Nat, opportunities' \in Nat,
           ~expired => OneSurveyPerDrive',
           ~expired => desk \in {v, NoSurvey} \/ UNCHANGED <<desk, answers, leads, opportunities>>,
           ~expired => /\ p.at \in Locked => desk' = v
                       /\ p.at = "store" => answers' = 0
                       /\ p.at \in Selling => opportunities' = 0
                       /\ p.at = "lead" => leads' = 0
    PROVE  SurveyIInv'
  <1>1. /\ surveys' \in [Survey -> SurveyPlace] /\ surveys'[v] = p
        /\ \A w \in Survey \ {v} : surveys'[w] = surveys[w]
    BY DEF SurveyIInv, SurveyTypes
  <1>2. SurveyTypes'
    BY <1>1 DEF SurveyIInv, SurveyTypes
  <1>3. ~expired => Relies(v)'
    BY <1>1 DEF Relies
  <1>4. ASSUME ~expired, NEW w \in Survey \ {v} PROVE Relies(w)'
    <2>1. Relies(w) /\ surveys'[w] = surveys[w]
      BY <1>1, <1>4 DEF SurveyIInv
    <2>2. CASE UNCHANGED <<desk, answers, leads, opportunities>>
      BY <2>1, <2>2 DEF Relies
    <2>3. CASE desk \in {v, NoSurvey}
      BY <2>1, <2>3 DEF Relies, Locked, Selling
    <2> QED
      BY <1>4, <2>2, <2>3
  <1> QED
    BY <1>2, <1>3, <1>4 DEF SurveyIInv

\* The same of a step that only says where the handler goes.
LEMMA SurveyingKeepsIInv ==
    ASSUME SurveyIInv, NEW v \in Survey, NEW at \in {"done"} \cup Locked, Surveying(v, at),
           ridden' = ridden, expired' = expired,
           desk' \in {desk, v, NoSurvey}, answers' \in Nat, leads' \in Nat, opportunities' \in Nat,
           ~expired => OneSurveyPerDrive',
           ~expired => desk \in {v, NoSurvey} \/ UNCHANGED <<desk, answers, leads, opportunities>>,
           ~expired => /\ at \in Locked => desk' = v
                       /\ at = "store" => answers' = 0
                       /\ at \in Selling => opportunities' = 0
                       /\ at = "lead" => leads' = 0
    PROVE  SurveyIInv'
  <1>1. PICK p \in SurveyPlace : p.at = at /\ surveys' = [surveys EXCEPT ![v] = p]
    BY SurveyingEffect DEF SurveyIInv
  <1> QED
    BY <1>1, StepKeepsIInv

\* Each step of a handler keeps the invariant.
LEMMA HandlerKeepsIInv ==
    ASSUME SurveyIInv, NEW v \in Survey,
           \/ SubmitSurvey(v) \/ Acquire(v) \/ AskAnswered(v) \/ StoreAnswers(v) \/ FindOpportunity(v)
           \/ FindLead(v) \/ CreateLead(v) \/ CreateOpportunity(v) \/ SessionRejected(v) \/ SurveyFails(v)
    PROVE  SurveyIInv'
  <1>t. /\ desk \in Survey \cup {NoSurvey} /\ answers \in Nat /\ leads \in Nat /\ opportunities \in Nat
        /\ ~expired => OneSurveyPerDrive /\ Relies(v)
        /\ SurveyTypes
    BY DEF SurveyIInv, SurveyTypes
  <1>1. CASE SubmitSurvey(v)
    <2>1. PICK p \in SurveyPlace : p.at = "wait" /\ surveys' = [surveys EXCEPT ![v] = p]
      BY <1>t, <1>1, SurveyingEffect DEF SubmitSurvey
    <2> QED
      BY <1>t, <1>1, <2>1, StepKeepsIInv DEF SubmitSurvey, OneSurveyPerDrive, Locked, Selling
  <1>2. CASE Acquire(v)
    BY <1>t, <1>2, SurveyingKeepsIInv DEF Acquire, OneSurveyPerDrive, Relies, Locked, Selling
  <1>3. CASE AskAnswered(v)
    BY <1>t, <1>3, SurveyingKeepsIInv DEF AskAnswered, Closes, OneSurveyPerDrive, Relies, Locked, Selling
  <1>4. CASE StoreAnswers(v)
    <2>1. answers' = answers + 1 /\ (~expired => desk = v /\ answers = 0)
      BY <1>t, <1>4 DEF StoreAnswers, Relies, Locked, Selling
    <2>2. answers' \in Nat /\ (~expired => answers' = 1)
      BY <1>t, <2>1
    <2>3. ~expired => OneSurveyPerDrive'
      BY <1>t, <1>4, <2>2 DEF StoreAnswers, OneSurveyPerDrive
    <2> QED
      BY <1>t, <1>4, <2>1, <2>2, <2>3, SurveyingKeepsIInv DEF StoreAnswers, Closes, Locked, Selling
  <1>5. CASE FindOpportunity(v)
    BY <1>t, <1>5, SurveyingKeepsIInv DEF FindOpportunity, Closes, OneSurveyPerDrive, Relies, Locked, Selling
  <1>6. CASE FindLead(v)
    BY <1>t, <1>6, SurveyingKeepsIInv DEF FindLead, NeedsLead, OneSurveyPerDrive, Relies, Locked, Selling
  <1>7. CASE CreateLead(v)
    <2>1. leads' = leads + 1 /\ (~expired => desk = v /\ leads = 0 /\ opportunities = 0)
      BY <1>t, <1>7 DEF CreateLead, Relies, Locked, Selling
    <2>2. leads' \in Nat /\ (~expired => leads' = 1)
      BY <1>t, <2>1
    <2>3. ~expired => OneSurveyPerDrive'
      BY <1>t, <1>7, <2>2 DEF CreateLead, OneSurveyPerDrive
    <2> QED
      BY <1>t, <1>7, <2>1, <2>2, <2>3, SurveyingKeepsIInv DEF CreateLead, Locked, Selling
  <1>8. CASE CreateOpportunity(v)
    <2>1. opportunities' = opportunities + 1 /\ (~expired => desk = v /\ opportunities = 0)
      BY <1>t, <1>8 DEF CreateOpportunity, Relies, Locked, Selling
    <2>2. opportunities' \in Nat /\ (~expired => opportunities' = 1)
      BY <1>t, <2>1
    <2>3. ~expired => OneSurveyPerDrive'
      BY <1>t, <1>8, <2>2 DEF CreateOpportunity, OneSurveyPerDrive
    <2> QED
      BY <1>t, <1>8, <2>1, <2>2, <2>3, SurveyingKeepsIInv DEF CreateOpportunity, Closes, Locked, Selling
  <1>9. CASE SurveyFails(v)
    <2>1. ~expired => desk \in {v, NoSurvey} \/ desk' = desk
      BY <1>9 DEF SurveyFails, Closes
    <2> QED
      BY <1>t, <1>9, <2>1, SurveyingKeepsIInv DEF SurveyFails, Closes, OneSurveyPerDrive, Locked, Selling
  <1>10. CASE SessionRejected(v)
    <2>1. [at |-> "find lead", retried |-> TRUE] \in SurveyPlace
      BY DEF SurveyPlace, Locked
    <2> QED
      BY <1>t, <1>10, <2>1, StepKeepsIInv
      DEF SessionRejected, SurveyTypes, OneSurveyPerDrive, Relies, Locked, Selling
  <1> QED
    BY <1>1, <1>2, <1>3, <1>4, <1>5, <1>6, <1>7, <1>8, <1>9, <1>10

LEMMA SurveyInvariant == SurveySpec => []SurveyIInv
  <1>1. SurveyInit => SurveyIInv
    <2> SUFFICES ASSUME SurveyInit PROVE SurveyIInv
      OBVIOUS
    <2>1. [at |-> "unsent", retried |-> FALSE] \in SurveyPlace
      BY DEF SurveyPlace
    <2>2. SurveyTypes
      BY <2>1 DEF SurveyInit, SurveyTypes
    <2>3. \A v \in Survey : surveys[v].at = "unsent"
      BY DEF SurveyInit
    <2>4. \A v \in Survey : Relies(v)
      BY <2>3 DEF Relies, Locked, Selling
    <2>5. OneSurveyPerDrive
      BY DEF SurveyInit, OneSurveyPerDrive
    <2> QED
      BY <2>2, <2>4, <2>5 DEF SurveyIInv
  <1>2. SurveyIInv /\ [SurveyNext]_surveyVars => SurveyIInv'
    <2> SUFFICES ASSUME SurveyIInv, [SurveyNext]_surveyVars PROVE SurveyIInv'
      OBVIOUS
    <2>1. CASE DriveDone
      BY <2>1 DEF DriveDone, SurveyIInv, SurveyTypes, OneSurveyPerDrive, Relies
    <2>2. CASE LockLost
      BY <2>2 DEF LockLost, SurveyIInv, SurveyTypes
    <2>3. CASE UNCHANGED surveyVars
      BY <2>3 DEF surveyVars, SurveyIInv, SurveyTypes, OneSurveyPerDrive, Relies
    <2> QED
      BY <2>1, <2>2, <2>3, HandlerKeepsIInv DEF SurveyNext
  <1> QED
    BY <1>1, <1>2, PTL DEF SurveySpec

\* While the survey lock is held to the end, a drive has at most one survey,
\* one Lead and one Opportunity, for any number of submissions and retries
\* (bookings.service.ts:200, opportunity.repository.ts:33).
THEOREM OneSurveyPerDriveTheorem == SurveySpec => []OneSurveyPerDrive
  <1>1. SurveyIInv => OneSurveyPerDrive
    BY DEF SurveyIInv, OneSurveyPerDrive
  <1> QED
    BY <1>1, SurveyInvariant, PTL

HIDE SurveyAssumption

-----------------------------------------------------------------------------
(* The brand                                                               *)

\* An image stays where it was uploaded for, or is deleted.
ImagesOK == \A i \in Picture : storedIn[i] \in {Nowhere, ownerOf[i]}

\* What a layer names, or a save past its check, was uploaded for that scope.
Owned(image, s) == image \in Picture => ownerOf[image] = s
LayersOwned == \A s \in BrandScope : Owned(layer[s], s)
SavesOwned ==
    \A e \in Editor :
        /\ saving[e].at \in {"read", "write", "tidy"} => Owned(saving[e].layer, saving[e].scope)
        /\ saving[e].at \in {"write", "tidy"} => Owned(saving[e].before, saving[e].scope)
        /\ saving[e].at # "idle" => saving[e].scope \in BrandScope

\* A scope whose saves have not overlapped has one save at most; what it names is
\* stored, and from its write to its clean-up it is what the layer names.
Undisturbed(s) ==
    s \notin overlapped =>
        /\ layer[s] \in Picture => storedIn[layer[s]] = s
        /\ \A e, d \in Editor :
              saving[e].at # "idle" /\ saving[e].scope = s /\ saving[d].at # "idle" /\ saving[d].scope = s => e = d
        /\ \A e \in Editor : saving[e].scope = s =>
              /\ saving[e].at \in {"read", "write"} /\ saving[e].layer \in Picture => storedIn[saving[e].layer] = s
              /\ saving[e].at = "tidy" => layer[s] = saving[e].layer

BrandingIInv ==
    /\ BrandingTypeOK
    /\ ImagesOK /\ LayersOwned /\ SavesOwned
    /\ \A s \in BrandScope : Undisturbed(s)

PageState == [scope : BrandScope \cup {Nowhere}, form : Choice, upload : BrandScope \cup {Nowhere}]
SaveState == [at : {"idle", "check", "read", "write", "tidy", "answer"},
              scope : BrandScope \cup {Nowhere}, layer : Choice, before : Choice]

USE BrandingAssumption

-----------------------------------------------------------------------------
(* The page                                                                *)

\* What is on a page is of no consequence to what is stored.
LEMMA PageKeeps ==
    ASSUME BrandingIInv, page' \in [Editor -> PageState],
           UNCHANGED <<layer, storedIn, ownerOf, saving, overlapped, saves>>
    PROVE  BrandingIInv'
  <1>1. BrandingTypeOK'
    BY DEF BrandingIInv, BrandingTypeOK, PageState
  <1>2. ImagesOK' /\ LayersOwned' /\ SavesOwned'
    BY DEF BrandingIInv, ImagesOK, LayersOwned, SavesOwned, Owned
  <1>3. ASSUME NEW s \in BrandScope PROVE Undisturbed(s)'
    BY DEF BrandingIInv, Undisturbed
  <1> QED
    BY <1>1, <1>2, <1>3 DEF BrandingIInv

LEMMA PageStepKeeps ==
    ASSUME BrandingIInv, NEW e \in Editor,
           (\E s \in BrandScope : Visit(e, s)) \/ Refetch(e) \/ RemoveImage(e) \/ StartUpload(e) \/ UploadFails(e)
    PROVE  BrandingIInv'
  <1>1. page \in [Editor -> PageState] /\ layer \in [BrandScope -> Choice]
    BY DEF BrandingIInv, BrandingTypeOK, PageState
  <1>2. UNCHANGED <<layer, storedIn, ownerOf, saving, overlapped, saves>>
    BY DEF Visit, Refetch, RemoveImage, StartUpload, UploadFails
  <1>3. page' \in [Editor -> PageState]
    <2>1. ASSUME NEW s \in BrandScope, Visit(e, s) PROVE page' \in [Editor -> PageState]
      <3>1. page' = [page EXCEPT ![e] = [page[e] EXCEPT !.scope = s, !.form = layer[s]]]
        BY <2>1 DEF Visit
      <3>2. layer[s] \in Choice
        BY <1>1
      <3> QED
        BY <1>1, <3>1, <3>2 DEF PageState
    <2>2. CASE Refetch(e)
      BY <1>1, <2>2 DEF Refetch, PageState
    <2>3. CASE RemoveImage(e)
      BY <1>1, <2>3 DEF RemoveImage, PageState, Choice
    <2>4. CASE StartUpload(e)
      BY <1>1, <2>4 DEF StartUpload, PageState
    <2>5. CASE UploadFails(e)
      BY <1>1, <2>5 DEF UploadFails, PageState
    <2> QED
      BY <2>1, <2>2, <2>3, <2>4, <2>5
  <1> QED
    BY <1>2, <1>3, PageKeeps

\* Nothing names an image that has not been uploaded.
LEMMA UploadedKeeps ==
    ASSUME BrandingIInv, NEW e \in Editor, Uploaded(e)
    PROVE  BrandingIInv'
  <1>1. PICK i \in Picture :
            /\ ownerOf[i] = Nowhere
            /\ storedIn' = [storedIn EXCEPT ![i] = page[e].upload]
            /\ ownerOf' = [ownerOf EXCEPT ![i] = page[e].upload]
            /\ page' = [page EXCEPT ![e].form = i, ![e].upload = Nowhere]
    BY DEF Uploaded
  <1>2. UNCHANGED <<layer, saving, overlapped, saves>>
    BY DEF Uploaded
  <1>3. /\ page \in [Editor -> PageState] /\ storedIn \in [Picture -> BrandScope \cup {Nowhere}]
        /\ ownerOf \in [Picture -> BrandScope \cup {Nowhere}]
    BY DEF BrandingIInv, BrandingTypeOK, PageState
  <1>4. page[e].upload \in BrandScope \cup {Nowhere}
    BY <1>3 DEF PageState
  <1>5. page' \in [Editor -> PageState]
    <2>1. page' = [page EXCEPT ![e] = [page[e] EXCEPT !.form = i, !.upload = Nowhere]]
      BY <1>1
    <2>2. i \in Choice /\ page[e] \in PageState
      BY <1>3 DEF Choice
    <2>3. [page[e] EXCEPT !.form = i, !.upload = Nowhere] \in PageState
      BY <2>2 DEF PageState
    <2> QED
      BY <1>3, <2>1, <2>3
  <1>6. BrandingTypeOK'
    BY <1>1, <1>2, <1>3, <1>4, <1>5 DEF BrandingIInv, BrandingTypeOK, PageState
  <1>7. ImagesOK'
    BY <1>1, <1>3 DEF BrandingIInv, ImagesOK
  <1>8. \A s \in BrandScope : \A image : Owned(image, s) => image # i /\ Owned(image, s)'
    BY <1>1, <1>3 DEF Owned
  <1>9. LayersOwned' /\ SavesOwned'
    BY <1>2, <1>8 DEF BrandingIInv, LayersOwned, SavesOwned
  <1>10. ASSUME NEW s \in BrandScope PROVE Undisturbed(s)'
    <2>1. layer[s] # i \/ layer[s] \notin Picture
      BY <1>1, <1>8 DEF BrandingIInv, LayersOwned, Owned
    <2>2. \A d \in Editor : saving[d].at \in {"read", "write"} => saving[d].layer # i
      BY <1>8 DEF BrandingIInv, SavesOwned
    <2> QED
      BY <1>1, <1>2, <1>3, <2>1, <2>2 DEF BrandingIInv, Undisturbed
  <1> QED
    BY <1>6, <1>7, <1>9, <1>10 DEF BrandingIInv

-----------------------------------------------------------------------------
(* A save                                                                  *)

\* A save that begins while another is under way is noted.
LEMMA SubmitKeeps ==
    ASSUME BrandingIInv, NEW e \in Editor, SubmitBrand(e)
    PROVE  BrandingIInv'
  <1> DEFINE new == [NoSave EXCEPT !.at = "check", !.scope = page[e].scope, !.layer = page[e].form]
  <1>1. /\ page[e].scope # Nowhere /\ saving[e].at = "idle" /\ saves' = saves + 1 /\ saves < MaxSaves
        /\ saving' = [saving EXCEPT ![e] = new]
        /\ overlapped' = overlapped \cup {s \in BrandScope : s = page[e].scope /\
                             \E d \in Editor : saving[d].at # "idle" /\ saving[d].scope = s}
        /\ UNCHANGED <<layer, storedIn, ownerOf, page>>
    BY DEF SubmitBrand
  <1>2. page[e] \in PageState /\ saving \in [Editor -> SaveState]
    BY DEF BrandingIInv, BrandingTypeOK, PageState, SaveState
  <1>3. new \in SaveState /\ new.at = "check" /\ new.scope = page[e].scope /\ new.scope \in BrandScope
    BY <1>1, <1>2 DEF NoSave, PageState, SaveState, Choice
  <1> HIDE DEF new
  <1>4. saving' \in [Editor -> SaveState] /\ saving'[e] = new /\ \A d \in Editor \ {e} : saving'[d] = saving[d]
    BY <1>1, <1>2, <1>3
  <1>5. BrandingTypeOK'
    <2>1. saves' \in 0..MaxSaves
      BY <1>1 DEF BrandingIInv, BrandingTypeOK
    <2>2. overlapped' \subseteq BrandScope
      BY <1>1 DEF BrandingIInv, BrandingTypeOK
    <2> QED
      BY <1>1, <1>4, <2>1, <2>2 DEF BrandingIInv, BrandingTypeOK, SaveState
  <1>6. ImagesOK' /\ LayersOwned'
    BY <1>1 DEF BrandingIInv, ImagesOK, LayersOwned, Owned
  <1>7. SavesOwned'
    BY <1>1, <1>3, <1>4 DEF BrandingIInv, SavesOwned, Owned
  <1>8. ASSUME NEW s \in BrandScope, s \notin overlapped' PROVE Undisturbed(s)'
    <2>1. s \notin overlapped /\ (s = new.scope => \A d \in Editor : saving[d].at # "idle" => saving[d].scope # s)
      BY <1>1, <1>3, <1>8
    <2>2. \A d, f \in Editor :
             saving'[d].at # "idle" /\ saving'[d].scope = s /\ saving'[f].at # "idle" /\ saving'[f].scope = s => d = f
      BY <1>4, <2>1 DEF BrandingIInv, Undisturbed
    <2>3. \A d \in Editor : saving'[d].scope = s =>
              /\ saving'[d].at \in {"read", "write"} /\ saving'[d].layer \in Picture => storedIn[saving'[d].layer] = s
              /\ saving'[d].at = "tidy" => layer[s] = saving'[d].layer
      BY <1>3, <1>4, <2>1 DEF BrandingIInv, Undisturbed
    <2> QED
      BY <1>1, <2>1, <2>2, <2>3 DEF BrandingIInv, Undisturbed
  <1>9. \A s \in BrandScope : s \in overlapped' => Undisturbed(s)'
    BY DEF Undisturbed
  <1> QED
    BY <1>5, <1>6, <1>7, <1>8, <1>9 DEF BrandingIInv

\* A save ends: the others have fewer to mind.
LEMMA EndKeeps ==
    ASSUME BrandingIInv, NEW e \in Editor, saving' = [saving EXCEPT ![e] = NoSave],
           page' \in [Editor -> PageState], UNCHANGED <<layer, storedIn, ownerOf, overlapped, saves>>
    PROVE  BrandingIInv'
  <1>1. saving \in [Editor -> SaveState] /\ NoSave \in SaveState /\ NoSave.at = "idle"
    BY DEF BrandingIInv, BrandingTypeOK, SaveState, NoSave, Choice
  <1>2. saving' \in [Editor -> SaveState] /\ saving'[e].at = "idle" /\ \A d \in Editor \ {e} : saving'[d] = saving[d]
    BY <1>1
  <1>3. BrandingTypeOK'
    BY <1>2 DEF BrandingIInv, BrandingTypeOK, PageState, SaveState
  <1>4. ImagesOK' /\ LayersOwned'
    BY DEF BrandingIInv, ImagesOK, LayersOwned, Owned
  <1>5. SavesOwned'
    BY <1>2 DEF BrandingIInv, SavesOwned, Owned
  <1>6. ASSUME NEW s \in BrandScope PROVE Undisturbed(s)'
    BY <1>2 DEF BrandingIInv, Undisturbed
  <1> QED
    BY <1>3, <1>4, <1>5, <1>6 DEF BrandingIInv

LEMMA AnswerKeeps ==
    ASSUME BrandingIInv, NEW e \in Editor, AnswerSave(e) \/ SaveFails(e)
    PROVE  BrandingIInv'
  <1>1. /\ page \in [Editor -> PageState] /\ layer \in [BrandScope -> Choice]
        /\ saving[e].at # "idle" => saving[e].scope \in BrandScope
    BY DEF BrandingIInv, BrandingTypeOK, PageState, SavesOwned
  <1>2. page' \in [Editor -> PageState]
    <2>1. CASE SaveFails(e)
      BY <1>1, <2>1 DEF SaveFails
    <2>2. CASE AnswerSave(e)
      <3>1. layer[saving[e].scope] \in Choice
        BY <1>1, <2>2 DEF AnswerSave
      <3> QED
        BY <1>1, <2>2, <3>1 DEF AnswerSave, PageState
    <2> QED
      BY <2>1, <2>2
  <1> QED
    BY <1>2, EndKeeps DEF AnswerSave, SaveFails

\* A save goes on with the scope and the image it has.
LEMMA AdvanceMoves ==
    ASSUME BrandingTypeOK, NEW e \in Editor, NEW at \in {"read", "tidy", "answer"}, Advance(e, at)
    PROVE  /\ saving' \in [Editor -> SaveState]
           /\ saving'[e].at = at /\ saving'[e].scope = saving[e].scope
           /\ saving'[e].layer = saving[e].layer /\ saving'[e].before = saving[e].before
           /\ \A d \in Editor \ {e} : saving'[d] = saving[d]
  <1>1. saving \in [Editor -> SaveState]
    BY DEF BrandingTypeOK, SaveState
  <1>2. saving' = [saving EXCEPT ![e] = [saving[e] EXCEPT !.at = at]]
    BY DEF Advance
  <1>3. saving[e] \in SaveState
    BY <1>1
  <1>4. [saving[e] EXCEPT !.at = at] \in SaveState
    BY <1>3 DEF SaveState
  <1> QED
    BY <1>1, <1>2, <1>3, <1>4 DEF SaveState

\* The check lets pass what is stored for the scope.
LEMMA CheckKeeps ==
    ASSUME BrandingIInv, NEW e \in Editor, Check(e)
    PROVE  BrandingIInv'
  <1>1. /\ saving' \in [Editor -> SaveState]
        /\ saving'[e].at = "read" /\ saving'[e].scope = saving[e].scope /\ saving'[e].layer = saving[e].layer
        /\ \A d \in Editor \ {e} : saving'[d] = saving[d]
        /\ UNCHANGED <<layer, storedIn, ownerOf, page, overlapped, saves>>
    BY AdvanceMoves DEF Check, BrandingIInv
  <1>2. /\ saving[e].at = "check" /\ saving[e].scope \in BrandScope
        /\ saving[e].layer \in Picture => storedIn[saving[e].layer] = saving[e].scope
    BY DEF Check, BelongsTo, BrandingIInv, SavesOwned
  <1>3. Owned(saving[e].layer, saving[e].scope)
    BY <1>2 DEF BrandingIInv, ImagesOK, Owned
  <1>4. BrandingTypeOK'
    BY <1>1 DEF BrandingIInv, BrandingTypeOK, SaveState
  <1>5. ImagesOK' /\ LayersOwned'
    BY <1>1 DEF BrandingIInv, ImagesOK, LayersOwned, Owned
  <1>6. SavesOwned'
    BY <1>1, <1>2, <1>3 DEF BrandingIInv, SavesOwned, Owned
  <1>7. ASSUME NEW s \in BrandScope PROVE Undisturbed(s)'
    <2>1. \A d, f \in Editor :
             s \notin overlapped /\ saving'[d].at # "idle" /\ saving'[d].scope = s
             /\ saving'[f].at # "idle" /\ saving'[f].scope = s => d = f
      BY <1>1, <1>2 DEF BrandingIInv, Undisturbed
    <2> QED
      BY <1>1, <1>2, <2>1 DEF BrandingIInv, Undisturbed
  <1> QED
    BY <1>4, <1>5, <1>6, <1>7 DEF BrandingIInv

\* What is read is the layer's, whose images are its own.
LEMMA ReadBeforeKeeps ==
    ASSUME BrandingIInv, NEW e \in Editor, ReadBefore(e)
    PROVE  BrandingIInv'
  <1>1. /\ saving \in [Editor -> SaveState] /\ layer \in [BrandScope -> Choice]
        /\ saving[e].at = "read" /\ saving[e].scope \in BrandScope
        /\ saving' = [saving EXCEPT ![e].at = "write", ![e].before = layer[saving[e].scope]]
        /\ UNCHANGED <<layer, storedIn, ownerOf, page, overlapped, saves>>
    BY DEF ReadBefore, BrandingIInv, BrandingTypeOK, SavesOwned, SaveState
  <1>2. PICK before \in Choice : before = layer[saving[e].scope]
    BY <1>1
  <1> DEFINE new == [saving[e] EXCEPT !.at = "write", !.before = before]
  <1>3. /\ new \in SaveState /\ new.at = "write" /\ new.before = before
        /\ new.scope = saving[e].scope /\ new.layer = saving[e].layer
    <2>1. saving[e] \in SaveState
      BY <1>1
    <2> QED
      BY <2>1 DEF SaveState
  <1>4. saving' = [saving EXCEPT ![e] = new]
    BY <1>1, <1>2
  <1> HIDE DEF new
  <1>5. saving' \in [Editor -> SaveState] /\ saving'[e] = new /\ \A d \in Editor \ {e} : saving'[d] = saving[d]
    BY <1>1, <1>3, <1>4
  <1>6. BrandingTypeOK'
    BY <1>1, <1>5 DEF BrandingIInv, BrandingTypeOK, SaveState
  <1>7. ImagesOK' /\ LayersOwned'
    BY <1>1 DEF BrandingIInv, ImagesOK, LayersOwned, Owned
  <1>8. SavesOwned'
    <2>1. Owned(before, saving[e].scope) /\ Owned(saving[e].layer, saving[e].scope)
      BY <1>1, <1>2 DEF BrandingIInv, LayersOwned, SavesOwned
    <2> QED
      BY <1>1, <1>3, <1>5, <2>1 DEF BrandingIInv, SavesOwned, Owned
  <1>9. ASSUME NEW s \in BrandScope PROVE Undisturbed(s)'
    <2>1. \A d, f \in Editor :
             s \notin overlapped /\ saving'[d].at # "idle" /\ saving'[d].scope = s
             /\ saving'[f].at # "idle" /\ saving'[f].scope = s => d = f
      BY <1>1, <1>3, <1>5 DEF BrandingIInv, Undisturbed
    <2> QED
      BY <1>1, <1>3, <1>5, <2>1 DEF BrandingIInv, Undisturbed
  <1> QED
    BY <1>6, <1>7, <1>8, <1>9 DEF BrandingIInv

\* What was checked is written; undisturbed, it is still stored.
LEMMA WriteLayerKeeps ==
    ASSUME BrandingIInv, NEW e \in Editor, WriteLayer(e)
    PROVE  BrandingIInv'
  <1>1. /\ saving' \in [Editor -> SaveState]
        /\ saving'[e].at = "tidy" /\ saving'[e].scope = saving[e].scope
        /\ saving'[e].layer = saving[e].layer /\ saving'[e].before = saving[e].before
        /\ \A d \in Editor \ {e} : saving'[d] = saving[d]
        /\ layer' = [layer EXCEPT ![saving[e].scope] = saving[e].layer]
        /\ UNCHANGED <<storedIn, ownerOf, page, overlapped, saves>>
    BY AdvanceMoves DEF WriteLayer, BrandingIInv
  <1>2. /\ saving[e].at = "write" /\ saving[e].scope \in BrandScope /\ saving[e].layer \in Choice
        /\ layer \in [BrandScope -> Choice]
        /\ Owned(saving[e].layer, saving[e].scope) /\ Owned(saving[e].before, saving[e].scope)
    BY DEF WriteLayer, BrandingIInv, BrandingTypeOK, SavesOwned
  <1>3. /\ layer' \in [BrandScope -> Choice] /\ layer'[saving[e].scope] = saving[e].layer
        /\ \A s \in BrandScope \ {saving[e].scope} : layer'[s] = layer[s]
    BY <1>1, <1>2
  <1>4. BrandingTypeOK'
    BY <1>1, <1>3 DEF BrandingIInv, BrandingTypeOK, SaveState
  <1>5. ImagesOK' /\ LayersOwned'
    BY <1>1, <1>2, <1>3 DEF BrandingIInv, ImagesOK, LayersOwned, Owned
  <1>6. SavesOwned'
    BY <1>1, <1>2 DEF BrandingIInv, SavesOwned, Owned
  <1>7. ASSUME NEW s \in BrandScope, s \notin overlapped PROVE Undisturbed(s)'
    <2>1. \A d, f \in Editor :
             saving'[d].at # "idle" /\ saving'[d].scope = s
             /\ saving'[f].at # "idle" /\ saving'[f].scope = s => d = f
      BY <1>1, <1>2, <1>7 DEF BrandingIInv, Undisturbed
    <2>2. CASE s = saving[e].scope
      <3>1. \A d \in Editor \ {e} : saving[d].scope = s => saving[d].at = "idle"
        BY <1>2, <1>7, <2>2 DEF BrandingIInv, Undisturbed
      <3>2. saving[e].layer \in Picture => storedIn[saving[e].layer] = s
        BY <1>2, <1>7, <2>2 DEF BrandingIInv, Undisturbed
      <3> QED
        BY <1>1, <1>3, <2>1, <2>2, <3>1, <3>2 DEF Undisturbed
    <2>3. CASE s # saving[e].scope
      BY <1>1, <1>3, <1>7, <2>1, <2>3 DEF BrandingIInv, Undisturbed
    <2> QED
      BY <2>2, <2>3
  <1>8. \A s \in BrandScope : s \in overlapped => Undisturbed(s)'
    BY <1>1 DEF Undisturbed
  <1> QED
    BY <1>4, <1>5, <1>6, <1>7, <1>8 DEF BrandingIInv

\* What is deleted was the scope's own; undisturbed, nobody names it any more.
LEMMA DeleteKeeps ==
    ASSUME BrandingIInv, NEW e \in Editor, DeleteReplaced(e)
    PROVE  BrandingIInv'
  <1>1. /\ saving' \in [Editor -> SaveState]
        /\ saving'[e].at = "answer" /\ saving'[e].scope = saving[e].scope
        /\ \A d \in Editor \ {e} : saving'[d] = saving[d]
        /\ UNCHANGED <<layer, ownerOf, page, overlapped, saves>>
    BY AdvanceMoves DEF DeleteReplaced, BrandingIInv
  <1>2. PICK gone \in {Replaced(e), {}} :
            storedIn' = [i \in Picture |-> IF i \in gone THEN Nowhere ELSE storedIn[i]]
    BY DEF DeleteReplaced
  <1>3. /\ saving[e].at = "tidy" /\ saving[e].scope \in BrandScope
        /\ Owned(saving[e].before, saving[e].scope)
    BY DEF DeleteReplaced, BrandingIInv, SavesOwned
  <1>4. \A i \in gone : i \in Picture /\ ownerOf[i] = saving[e].scope /\ i # saving[e].layer
    BY <1>2, <1>3 DEF Replaced, Named, Owned
  <1>5. \A i \in Picture : storedIn'[i] = storedIn[i] \/ (i \in gone /\ storedIn'[i] = Nowhere)
    BY <1>2
  <1>6. BrandingTypeOK'
    <2>1. storedIn' \in [Picture -> BrandScope \cup {Nowhere}]
      BY <1>2 DEF BrandingIInv, BrandingTypeOK
    <2> QED
      BY <1>1, <2>1 DEF BrandingIInv, BrandingTypeOK, SaveState
  <1>7. ImagesOK' /\ LayersOwned'
    BY <1>1, <1>5 DEF BrandingIInv, ImagesOK, LayersOwned, Owned
  <1>8. SavesOwned'
    BY <1>1, <1>3 DEF BrandingIInv, SavesOwned, Owned
  <1>9. ASSUME NEW s \in BrandScope, s \notin overlapped PROVE Undisturbed(s)'
    <2>1. \A d, f \in Editor :
             saving'[d].at # "idle" /\ saving'[d].scope = s
             /\ saving'[f].at # "idle" /\ saving'[f].scope = s => d = f
      BY <1>1, <1>3, <1>9 DEF BrandingIInv, Undisturbed
    <2>2. layer[s] \in Picture => storedIn'[layer[s]] = s
      <3>1. layer[s] \in Picture => ownerOf[layer[s]] = s /\ storedIn[layer[s]] = s
        BY <1>9 DEF BrandingIInv, LayersOwned, Owned, Undisturbed
      <3>2. s = saving[e].scope => layer[s] = saving[e].layer
        BY <1>3, <1>9 DEF BrandingIInv, Undisturbed
      <3> QED
        BY <1>4, <1>5, <3>1, <3>2
    <2>3. ASSUME NEW d \in Editor, saving'[d].scope = s, saving'[d].at \in {"read", "write"}, saving'[d].layer \in Picture
          PROVE  storedIn'[saving'[d].layer] = s
      <3>1. d # e /\ saving'[d] = saving[d]
        BY <1>1, <2>3
      <3>2. saving[e].scope # s
        BY <1>3, <1>9, <2>3, <3>1 DEF BrandingIInv, Undisturbed
      <3>3. ownerOf[saving[d].layer] = s /\ storedIn[saving[d].layer] = s
        BY <1>9, <2>3, <3>1 DEF BrandingIInv, SavesOwned, Owned, Undisturbed
      <3> QED
        BY <1>4, <1>5, <2>3, <3>1, <3>2, <3>3
    <2>4. \A d \in Editor : saving'[d].scope = s /\ saving'[d].at = "tidy" => layer[s] = saving'[d].layer
      BY <1>1, <1>9 DEF BrandingIInv, Undisturbed
    <2> QED
      BY <1>1, <2>1, <2>2, <2>3, <2>4 DEF Undisturbed
  <1>10. \A s \in BrandScope : s \in overlapped => Undisturbed(s)'
    BY <1>1 DEF Undisturbed
  <1> QED
    BY <1>6, <1>7, <1>8, <1>9, <1>10 DEF BrandingIInv

LEMMA BrandingNextKeeps == BrandingIInv /\ [BrandingNext]_brandingVars => BrandingIInv'
  <1>1. ASSUME BrandingIInv, UNCHANGED brandingVars PROVE BrandingIInv'
    <2>1. page' \in [Editor -> PageState]
      BY <1>1 DEF BrandingIInv, BrandingTypeOK, PageState, brandingVars
    <2> QED
      BY <1>1, <2>1, PageKeeps DEF brandingVars
  <1> QED
    BY <1>1, PageStepKeeps, UploadedKeeps, SubmitKeeps, AnswerKeeps, CheckKeeps, ReadBeforeKeeps, WriteLayerKeeps,
       DeleteKeeps DEF BrandingNext, PageStep, SaveStep

LEMMA BrandingInvariant == BrandingSpec => []BrandingIInv
  <1>1. BrandingInit => BrandingIInv
    <2> SUFFICES ASSUME BrandingInit PROVE BrandingIInv
      OBVIOUS
    <2>1. NoSave \in SaveState /\ NoSave.at = "idle" /\ NoPage \in PageState
      BY DEF NoSave, NoPage, SaveState, PageState, Choice
    <2>2. BrandingTypeOK
      BY <2>1 DEF BrandingInit, BrandingTypeOK, SaveState, PageState, Choice
    <2>3. ASSUME Blank \in Picture PROVE FALSE
      BY <2>3
    <2> QED
      BY <2>1, <2>2, <2>3 DEF BrandingInit, BrandingIInv, ImagesOK, LayersOwned, SavesOwned, Owned, Undisturbed
  <1> QED
    BY <1>1, BrandingNextKeeps, PTL DEF BrandingSpec

\* However many editors save, upload and fetch at once: a site shows an image that
\* was uploaded for it, and one that is still stored unless two saves of that layer
\* overlapped (admin-branding.service.ts:47).
THEOREM SitesShowTheirImagesTheorem == BrandingSpec => []SitesShowTheirImages
  <1>1. BrandingIInv => SitesShowTheirImages
    <2> SUFFICES ASSUME BrandingIInv, NEW s \in BrandScope, Shown(s) \in Picture
                 PROVE  /\ ownerOf[Shown(s)] = ShownFrom(s)
                        /\ ShownFrom(s) \notin overlapped => storedIn[Shown(s)] = ShownFrom(s)
      BY DEF SitesShowTheirImages
    <2>1. ShownFrom(s) \in BrandScope /\ Shown(s) = layer[ShownFrom(s)]
      BY DEF Shown, ShownFrom
    <2> QED
      BY <2>1 DEF BrandingIInv, LayersOwned, Owned, Undisturbed
  <1> QED
    BY <1>1, BrandingInvariant, PTL

-----------------------------------------------------------------------------
(* Sessions                                                                *)

Whose == {"customer", "staff"}
TokenRecord == [whose : Whose, under : Nat]
Doing == {"nothing", "issue", "answer", "consume", "check", "refused", "revoke", "save", "revokeAll"}
CallRecord == [doing : Doing, whose : Whose, tab : Tab \cup {"none"}, under : Nat, token : Nat, refresh : BOOLEAN]

Signing == {"issue", "answer", "consume", "check", "refused"}

\* A call carries a token that was issued, and answers with one, in a tab.
CallOK(call) ==
    /\ call.token \in 0 .. Len(issued)
    /\ call.doing = "answer" => call.token # 0
    /\ call.doing \in Signing => call.tab \in Tab

CallsOK ==
    /\ calls \in [Call -> CallRecord]
    /\ \A c \in Call : CallOK(calls[c])

TokensOK ==
    /\ password \in Nat
    /\ issued \in Seq(TokenRecord)
    /\ live \subseteq 1 .. Len(issued)
    /\ stored \in [customer : 0 .. Len(issued), staff : 0 .. Len(issued)]
    /\ tabs \subseteq Tab

SessionIInv == CallsOK /\ TokensOK /\ ResetEndsSessions /\ SignedInTabsHoldTokens

USE SessionsAssumption

-----------------------------------------------------------------------------
(* Calls and tokens                                                        *)

LEMMA NoCallIsOne == NoCall \in CallRecord /\ NoCall.doing = "nothing" /\ NoCall.token = 0
  BY DEF NoCall, CallRecord, Doing, Whose, NoToken

\* A stored token was issued, whosever it is.
LEMMA StoredWasIssued ==
    ASSUME TokensOK, NEW w \in Whose
    PROVE  /\ stored[w] \in 0 .. Len(issued)
           /\ stored[w] # NoToken => issued[stored[w]].under \in Nat
  <1>1. stored[w] \in 0 .. Len(issued)
    BY DEF TokensOK, Whose
  <1>2. ASSUME stored[w] # NoToken PROVE issued[stored[w]].under \in Nat
    <2>1. stored[w] \in 1 .. Len(issued)
      BY <1>1, <1>2 DEF NoToken, TokensOK
    <2>2. issued \in Seq(TokenRecord)
      BY DEF TokensOK
    <2>3. issued[stored[w]] \in TokenRecord
      BY <2>1, <2>2
    <2> QED
      BY <2>3 DEF TokenRecord
  <1> QED
    BY <1>1, <1>2

\* What a call turns into keeps the calls in order.
LEMMA CallChanges ==
    ASSUME CallsOK, NEW c \in Call, NEW call \in CallRecord, calls' = [calls EXCEPT ![c] = call],
           issued' = issued, CallOK(call)
    PROVE  /\ CallsOK'
           /\ calls'[c] = call
           /\ \A d \in Call \ {c} : calls'[d] = calls[d]
  BY DEF CallsOK, CallOK

\* It goes on with the token it has.
LEMMA CallGoes ==
    ASSUME CallsOK, NEW c \in Call, NEW doing \in Doing \ {"answer"}, Goes(c, doing), issued' = issued,
           doing \in Signing => calls[c].doing \in Signing
    PROVE  /\ CallsOK'
           /\ calls'[c].doing = doing
           /\ \A d \in Call \ {c} : calls'[d] = calls[d]
  <1> DEFINE call == [calls[c] EXCEPT !.doing = doing]
  <1>1. call \in CallRecord /\ call.token = calls[c].token /\ call.tab = calls[c].tab /\ call.doing = doing
    BY DEF CallsOK, CallRecord
  <1>2. calls' = [calls EXCEPT ![c] = call]
    BY DEF Goes, CallsOK
  <1> HIDE DEF call
  <1>3. CallOK(call)
    BY <1>1 DEF CallsOK, CallOK
  <1> QED
    BY <1>1, <1>2, <1>3, CallChanges

\* It ends.
LEMMA CallEnds ==
    ASSUME CallsOK, TokensOK, NEW c \in Call, Ended(c), issued' = issued
    PROVE  /\ CallsOK'
           /\ calls'[c].doing = "nothing"
           /\ \A d \in Call \ {c} : calls'[d] = calls[d]
  <1>1. 0 \in 0 .. Len(issued)
    BY DEF TokensOK
  <1> QED
    BY <1>1, NoCallIsOne, CallChanges DEF Ended, CallOK, Signing

-----------------------------------------------------------------------------
(* What steps leave to the properties                                      *)

\* A step that neither issues a token nor sets a password nor forgets a reset
LEMMA ResetKept ==
    ASSUME ResetEndsSessions, password' = password, issued' = issued, live' \subseteq live,
           late' = late, died => died',
           \A c \in Call : calls[c].doing = "revokeAll" => died' \/ calls'[c].doing = "revokeAll"
    PROVE  ResetEndsSessions'
  BY DEF ResetEndsSessions

\* Clearing the storage tells every tab.
LEMMA ClearsKept ==
    ASSUME TokensOK, SignedInTabsHoldTokens, NEW t, Clears(t)
    PROVE  /\ stored' \in [customer : 0 .. Len(issued), staff : 0 .. Len(issued)]
           /\ SignedInTabsHoldTokens'
           /\ tabs' \subseteq Tab
  <1>1. 0 \in 0 .. Len(issued)
    BY DEF TokensOK
  <1>2. stored' \in [customer : 0 .. Len(issued), staff : 0 .. Len(issued)]
    BY <1>1 DEF TokensOK, Clears, NoToken
  <1> QED
    BY <1>2 DEF Clears, SignedInTabsHoldTokens, TokensOK

-----------------------------------------------------------------------------
(* Every step keeps the invariant                                          *)

\* Steps that issue nothing: what they must show
LEMMA QuietStep ==
    ASSUME SessionIInv, issued' = issued, CallsOK', live' \subseteq live,
           stored' \in [customer : 0 .. Len(issued), staff : 0 .. Len(issued)], tabs' \subseteq Tab,
           password' = password, late' = late, died => died',
           \A c \in Call : calls[c].doing = "revokeAll" => died' \/ calls'[c].doing = "revokeAll",
           SignedInTabsHoldTokens'
    PROVE  SessionIInv'
  <1>1. TokensOK'
    BY DEF SessionIInv, TokensOK
  <1>2. ResetEndsSessions'
    BY ResetKept DEF SessionIInv
  <1> QED
    BY <1>1, <1>2 DEF SessionIInv

\* A request that begins, from an idle place
LEMMA BeginningStep ==
    ASSUME SessionIInv, NEW c \in Call, Free(c), NEW call \in CallRecord, CallOK(call),
           calls' = [calls EXCEPT ![c] = call],
           issued' = issued, live' = live, password' = password, late' = late, died' = died,
           stored' \in [customer : 0 .. Len(issued), staff : 0 .. Len(issued)], tabs' \subseteq Tab,
           SignedInTabsHoldTokens'
    PROVE  SessionIInv'
  <1>1. CallsOK' /\ \A d \in Call \ {c} : calls'[d] = calls[d]
    BY CallChanges DEF SessionIInv
  <1>2. calls[c].doing = "nothing"
    BY NoCallIsOne DEF Free
  <1> QED
    BY <1>1, <1>2, QuietStep

\* One that has somebody signed in, and one that presents a token
LEMMA Beginnings ==
    ASSUME SessionIInv
    PROVE  /\ \A t \in Tab, w \in Whose :
                LET call == [NoCall EXCEPT !.doing = "issue", !.whose = w, !.tab = t, !.under = password]
                IN  call \in CallRecord /\ CallOK(call)
           /\ \A w \in Whose :
                LET call == [NoCall EXCEPT !.doing = "revoke", !.whose = w, !.token = stored[w]]
                IN  call \in CallRecord /\ CallOK(call)
           /\ LET call == [NoCall EXCEPT !.doing = "save"]
              IN  call \in CallRecord /\ CallOK(call)
  <1>1. password \in Nat /\ Len(issued) \in Nat /\ 0 \in 0 .. Len(issued)
    BY DEF SessionIInv, TokensOK
  <1>2. \A w \in Whose : stored[w] \in 0 .. Len(issued) /\ stored[w] \in Nat
    BY <1>1, StoredWasIssued DEF SessionIInv
  <1> USE DEF NoCall, CallRecord, CallOK, Doing, Whose, NoToken, Signing
  <1>3. ASSUME NEW t \in Tab, NEW w \in Whose
        PROVE  LET call == [NoCall EXCEPT !.doing = "issue", !.whose = w, !.tab = t, !.under = password]
               IN  call \in CallRecord /\ CallOK(call)
    BY <1>1
  <1>4. ASSUME NEW w \in Whose
        PROVE  LET call == [NoCall EXCEPT !.doing = "revoke", !.whose = w, !.token = stored[w]]
               IN  call \in CallRecord /\ CallOK(call)
    BY <1>1, <1>2
  <1>5. LET call == [NoCall EXCEPT !.doing = "save"]
        IN  call \in CallRecord /\ CallOK(call)
    BY <1>1
  <1> QED
    BY <1>3, <1>4, <1>5

\* What a step that leaves the browser alone leaves of the tokens
LEMMA BrowserKept ==
    ASSUME SessionIInv, issued' = issued, stored' = stored, tabs' = tabs, notices' = notices
    PROVE  /\ stored' \in [customer : 0 .. Len(issued), staff : 0 .. Len(issued)]
           /\ tabs' \subseteq Tab
           /\ SignedInTabsHoldTokens'
  BY DEF SessionIInv, TokensOK, SignedInTabsHoldTokens

\* Steps outside of requests keep it.
LEMMA SurroundingsKeep ==
    ASSUME SessionIInv,
           \/ \E kind \in {"magic", "reset"} : MailLink(kind)
           \/ \E t \in Tab : Hears(t) \/ Loads(t)
           \/ Unassign \/ UNCHANGED sessionVars
    PROVE  SessionIInv'
  <1>1. /\ issued' = issued /\ calls' = calls /\ live' = live /\ stored' = stored
        /\ password' = password /\ late' = late /\ died' = died
    BY DEF MailLink, Hears, Loads, Unassign, sessionVars
  <1>2. CallsOK'
    BY <1>1 DEF SessionIInv, CallsOK, CallOK
  <1>3. stored' \in [customer : 0 .. Len(issued), staff : 0 .. Len(issued)]
    BY <1>1 DEF SessionIInv, TokensOK
  <1>4. tabs' \subseteq Tab /\ SignedInTabsHoldTokens'
    <2>1. CASE tabs' = tabs /\ notices' = notices
      BY <1>1, <2>1, BrowserKept
    <2>2. ASSUME NEW t \in Tab, Hears(t) PROVE tabs' \subseteq Tab /\ SignedInTabsHoldTokens'
      BY <1>1, <2>2 DEF Hears, SessionIInv, TokensOK, SignedInTabsHoldTokens
    <2>3. ASSUME NEW t \in Tab, Loads(t) PROVE tabs' \subseteq Tab /\ SignedInTabsHoldTokens'
      BY <1>1, <2>3 DEF Loads, SessionIInv, TokensOK, SignedInTabsHoldTokens
    <2> QED
      BY <2>1, <2>2, <2>3 DEF MailLink, Unassign, sessionVars
  <1> QED
    BY <1>1, <1>2, <1>3, <1>4, QuietStep

\* Requests that begin keep it.
LEMMA SigningInKeeps ==
    ASSUME SessionIInv, NEW c \in Call, NEW t \in Tab, Login(c, t) \/ MagicLogin(c, t) \/ StaffLogin(c, t)
    PROVE  SessionIInv'
  <1>1. PICK w \in Whose : SignsIn(c, t, w)
    BY DEF Login, MagicLogin, StaffLogin, Whose
  <1>2. /\ Free(c) /\ issued' = issued /\ live' = live /\ password' = password /\ late' = late /\ died' = died
        /\ stored' = stored /\ tabs' = tabs /\ notices' = notices
    BY DEF Login, MagicLogin, StaffLogin
  <1> DEFINE call == [NoCall EXCEPT !.doing = "issue", !.whose = w, !.tab = t, !.under = password]
  <1>3. call \in CallRecord /\ CallOK(call)
    BY Beginnings
  <1>4. calls' = [calls EXCEPT ![c] = call]
    BY <1>1 DEF SignsIn
  <1> HIDE DEF call
  <1> QED
    BY <1>2, <1>3, <1>4, BrowserKept, BeginningStep

LEMMA RefreshKeeps ==
    ASSUME SessionIInv, NEW c \in Call, NEW t \in Tab, NEW w \in Whose, Refresh(c, t, w)
    PROVE  SessionIInv'
  <1> DEFINE call == [doing |-> "consume", whose |-> w, tab |-> t, under |-> issued[stored[w]].under,
                      token |-> stored[w], refresh |-> TRUE]
  <1>1. /\ Free(c) /\ issued' = issued /\ live' = live /\ password' = password /\ late' = late /\ died' = died
        /\ stored' = stored /\ tabs' = tabs /\ notices' = notices
        /\ stored[w] # NoToken /\ calls' = [calls EXCEPT ![c] = call]
    BY DEF Refresh
  <1>2. issued[stored[w]].under \in Nat /\ stored[w] \in 0 .. Len(issued) /\ Len(issued) \in Nat
    BY <1>1, StoredWasIssued DEF SessionIInv, TokensOK
  <1>3. call \in CallRecord /\ CallOK(call)
    BY <1>2 DEF CallRecord, CallOK, Doing, Signing
  <1> HIDE DEF call
  <1> QED
    BY <1>1, <1>3, BrowserKept, BeginningStep

LEMMA LogoutKeeps ==
    ASSUME SessionIInv, NEW c \in Call, NEW t \in Tab, Logout(c, t)
    PROVE  SessionIInv'
  <1>1. /\ Free(c) /\ issued' = issued /\ live' = live /\ password' = password /\ late' = late /\ died' = died
        /\ Clears(t)
    BY DEF Logout
  <1>2. /\ stored' \in [customer : 0 .. Len(issued), staff : 0 .. Len(issued)]
        /\ tabs' \subseteq Tab /\ SignedInTabsHoldTokens'
    BY <1>1, ClearsKept DEF SessionIInv
  <1>3. CASE UNCHANGED calls
    <2>1. CallsOK'
      BY <1>1, <1>3 DEF SessionIInv, CallsOK, CallOK
    <2> QED
      BY <1>1, <1>2, <1>3, <2>1, QuietStep
  <1>4. CASE Presents(c, "revoke", "customer")
    <2> DEFINE call == [NoCall EXCEPT !.doing = "revoke", !.whose = "customer", !.token = stored["customer"]]
    <2>1. call \in CallRecord /\ CallOK(call)
      BY Beginnings DEF Whose
    <2>2. calls' = [calls EXCEPT ![c] = call]
      BY <1>4 DEF Presents
    <2> HIDE DEF call
    <2> QED
      BY <1>1, <1>2, <2>1, <2>2, BeginningStep
  <1> QED
    BY <1>3, <1>4 DEF Logout

LEMMA StaffLogoutKeeps ==
    ASSUME SessionIInv, NEW c \in Call, StaffLogout(c)
    PROVE  SessionIInv'
  <1> DEFINE call == [NoCall EXCEPT !.doing = "revoke", !.whose = "staff", !.token = stored["staff"]]
  <1>1. call \in CallRecord /\ CallOK(call)
    BY Beginnings DEF Whose
  <1>2. /\ Free(c) /\ issued' = issued /\ live' = live /\ password' = password /\ late' = late /\ died' = died
        /\ stored' = stored /\ tabs' = tabs /\ notices' = notices
        /\ calls' = [calls EXCEPT ![c] = call]
    BY DEF StaffLogout, Presents
  <1> HIDE DEF call
  <1> QED
    BY <1>1, <1>2, BrowserKept, BeginningStep

\* The steps of a reset keep it: from the new password to the end of the open
\* sessions, it is a reset that is not through.
LEMMA ResetKeeps ==
    ASSUME SessionIInv, NEW c \in Call, Reset(c) \/ SavePassword(c) \/ RevokeAll(c) \/ ResetDies(c)
    PROVE  SessionIInv'
  <1>0. CallsOK /\ TokensOK /\ issued' = issued /\ stored' = stored /\ tabs' = tabs /\ notices' = notices
    BY DEF SessionIInv, Reset, SavePassword, RevokeAll, ResetDies
  <1>1. CASE Reset(c)
    <2> DEFINE call == [NoCall EXCEPT !.doing = "save"]
    <2>1. call \in CallRecord /\ CallOK(call)
      BY Beginnings
    <2>2. calls' = [calls EXCEPT ![c] = call] /\ Free(c)
      BY <1>1 DEF Reset, Goes, Free
    <2>3. live' = live /\ password' = password /\ late' = late /\ died' = died
      BY <1>1 DEF Reset
    <2> HIDE DEF call
    <2> QED
      BY <1>0, <2>1, <2>2, <2>3, BrowserKept, BeginningStep
  <1>2. CASE SavePassword(c)
    <2>1. CallsOK' /\ calls'[c].doing = "revokeAll"
      BY <1>0, <1>2, CallGoes DEF SavePassword, Doing, Signing
    <2>2. TokensOK'
      BY <1>0, <1>2 DEF SavePassword, TokensOK
    <2>3. ResetEndsSessions'
      BY <2>1 DEF ResetEndsSessions
    <2> QED
      BY <1>0, <2>1, <2>2, <2>3, BrowserKept DEF SessionIInv
  <1>3. CASE RevokeAll(c)
    <2>1. CallsOK'
      BY <1>0, <1>3, CallEnds DEF RevokeAll
    <2>2. live' = {k \in live : issued[k].whose # "customer"} /\ password' = password
      BY <1>3 DEF RevokeAll, Ends
    <2>3. TokensOK'
      BY <1>0, <2>2 DEF TokensOK
    <2>4. ResetEndsSessions'
      BY <1>0, <2>2 DEF ResetEndsSessions
    <2> QED
      BY <1>0, <2>1, <2>3, <2>4, BrowserKept DEF SessionIInv
  <1>4. CASE ResetDies(c)
    <2>1. CallsOK' /\ \A d \in Call \ {c} : calls'[d] = calls[d]
      BY <1>0, <1>4, CallEnds DEF ResetDies
    <2>2. /\ live' = live /\ password' = password /\ late' = late
          /\ died' = (died \/ calls[c].doing = "revokeAll")
      BY <1>4 DEF ResetDies
    <2> QED
      BY <1>0, <2>1, <2>2, BrowserKept, QuietStep
  <1> QED
    BY <1>1, <1>2, <1>3, <1>4

\* A token issued for a password that was replaced meanwhile is known as late.
LEMMA IssueKeeps ==
    ASSUME SessionIInv, NEW c \in Call, Issue(c)
    PROVE  SessionIInv'
  <1>0. CallsOK /\ TokensOK /\ calls[c] \in CallRecord /\ CallOK(calls[c]) /\ Len(issued) \in Nat
    BY DEF SessionIInv, CallsOK, TokensOK
  <1> DEFINE token == [whose |-> calls[c].whose, under |-> calls[c].under]
             call == [calls[c] EXCEPT !.doing = "answer", !.token = NewToken]
  <1>1. token \in TokenRecord /\ token.under = calls[c].under
    BY <1>0 DEF CallRecord, TokenRecord
  <1>2. /\ issued' = Append(issued, token) /\ live' = live \cup {NewToken}
        /\ late' = (IF calls[c].under # password THEN late \cup {NewToken} ELSE late)
        /\ password' = password /\ stored' = stored /\ tabs' = tabs /\ notices' = notices /\ died' = died
        /\ calls[c].doing = "issue"
    BY DEF Issue
  <1>3. calls' = [calls EXCEPT ![c] = call]
    BY <1>0 DEF Issue, CallsOK
  <1>4. NewToken = Len(issued) + 1 /\ NewToken \in Nat /\ NewToken # 0
    BY <1>0 DEF NewToken
  <1>5. /\ call \in CallRecord /\ call.doing = "answer" /\ call.token = NewToken /\ call.tab = calls[c].tab
        /\ calls[c].tab \in Tab
    BY <1>0, <1>2, <1>4 DEF CallRecord, Doing, CallOK, Signing
  <1> HIDE DEF token, call
  <1>6. /\ issued' \in Seq(TokenRecord) /\ Len(issued') = Len(issued) + 1
        /\ issued'[NewToken] = token
        /\ \A k \in 1 .. Len(issued) : issued'[k] = issued[k]
    <2>1. issued \in Seq(TokenRecord)
      BY <1>0 DEF TokensOK
    <2> QED
      BY <1>1, <1>2, <1>4, <2>1
  <1>7. CallsOK'
    <2>1. calls' \in [Call -> CallRecord] /\ calls'[c] = call /\ \A d \in Call \ {c} : calls'[d] = calls[d]
      BY <1>0, <1>3, <1>5 DEF CallsOK
    <2>2. \A k \in 0 .. Len(issued) : k \in 0 .. Len(issued')
      BY <1>0, <1>6
    <2>3. NewToken \in 0 .. Len(issued')
      BY <1>4, <1>6
    <2>4. \A d \in Call : CallOK(calls[d])
      BY <1>0 DEF CallsOK
    <2>5. CallOK(calls[c])'
      BY <1>4, <1>5, <2>1, <2>3 DEF CallOK
    <2>6. \A d \in Call \ {c} : CallOK(calls[d])'
      BY <2>1, <2>2, <2>4 DEF CallOK
    <2> QED
      BY <2>1, <2>5, <2>6 DEF CallsOK
  <1>8. TokensOK'
    <2>1. \A k \in 1 .. Len(issued) : k \in 1 .. Len(issued')
      BY <1>0, <1>6
    <2>2. \A k \in 0 .. Len(issued) : k \in 0 .. Len(issued')
      BY <1>0, <1>6
    <2>3. NewToken \in 1 .. Len(issued')
      BY <1>0, <1>4, <1>6
    <2>4. live' \subseteq 1 .. Len(issued')
      BY <1>0, <1>2, <2>1, <2>3 DEF TokensOK
    <2>5. stored' \in [customer : 0 .. Len(issued'), staff : 0 .. Len(issued')]
      BY <1>0, <1>2, <2>2 DEF TokensOK
    <2> QED
      BY <1>0, <1>2, <1>6, <2>4, <2>5 DEF TokensOK
  <1>9. ResetEndsSessions'
    <2>1. \A d \in Call : calls'[d].doing = "revokeAll" <=> calls[d].doing = "revokeAll"
      BY <1>0, <1>2, <1>3, <1>5 DEF CallsOK
    <2>2. \A k \in live : issued'[k] = issued[k]
      BY <1>0, <1>6 DEF TokensOK
    <2>3. issued'[NewToken].under = password \/ NewToken \in late'
      BY <1>1, <1>2, <1>6
    <2> QED
      BY <1>2, <2>1, <2>2, <2>3 DEF SessionIInv, ResetEndsSessions
  <1>10. SignedInTabsHoldTokens'
    BY <1>2 DEF SessionIInv, SignedInTabsHoldTokens
  <1> QED
    BY <1>7, <1>8, <1>9, <1>10 DEF SessionIInv

\* The other steps of a request keep it.
LEMMA ProgressKeeps ==
    ASSUME SessionIInv, NEW c \in Call, Answer(c) \/ Consume(c) \/ CheckAssignment(c) \/ Fails(c) \/ Revoke(c)
    PROVE  SessionIInv'
  <1>0. /\ CallsOK /\ TokensOK /\ SignedInTabsHoldTokens /\ calls[c] \in CallRecord /\ CallOK(calls[c])
        /\ Len(issued) \in Nat /\ 0 \in 0 .. Len(issued)
    BY DEF SessionIInv, CallsOK, TokensOK
  <1>1. /\ issued' = issued /\ password' = password /\ late' = late /\ died' = died /\ live' \subseteq live
        /\ calls[c].doing # "revokeAll"
    BY DEF Answer, Consume, CheckAssignment, Fails, Revoke
  <1>2. CASE Answer(c)
    <2>1. calls[c].token \in 0 .. Len(issued) /\ calls[c].token # 0 /\ calls[c].tab \in Tab /\ calls[c].whose \in Whose
      BY <1>0, <1>2 DEF Answer, CallOK, Signing, CallRecord
    <2>2. CASE calls[c].whose = "customer"
      <3>1. /\ stored' \in [customer : 0 .. Len(issued), staff : 0 .. Len(issued)] /\ stored'.customer = calls[c].token
        BY <1>0, <1>2, <2>1, <2>2 DEF Answer, TokensOK
      <3> QED
        BY <1>0, <1>1, <1>2, <2>1, <3>1, CallEnds, QuietStep DEF Answer, SignedInTabsHoldTokens, TokensOK, NoToken
    <2>3. CASE calls[c].whose = "staff"
      <3>1. /\ stored' \in [customer : 0 .. Len(issued), staff : 0 .. Len(issued)] /\ stored'.customer = stored.customer
        BY <1>0, <1>2, <2>1, <2>3 DEF Answer, TokensOK
      <3> QED
        BY <1>0, <1>1, <1>2, <2>3, <3>1, CallEnds, QuietStep DEF Answer, SignedInTabsHoldTokens, TokensOK
    <2> QED
      BY <2>1, <2>2, <2>3 DEF Whose
  <1>3. CASE Consume(c) \/ CheckAssignment(c)
    <2>1. PICK doing \in {"refused", "check", "issue"} : Goes(c, doing)
      BY <1>3 DEF Consume, CheckAssignment
    <2>2. calls[c].doing \in Signing /\ doing \in Doing \ {"answer"}
      BY <1>3, <2>1 DEF Consume, CheckAssignment, Signing, Doing
    <2>3. CallsOK' /\ \A d \in Call \ {c} : calls'[d] = calls[d]
      BY <1>0, <1>1, <2>1, <2>2, CallGoes
    <2>4. stored' = stored /\ tabs' = tabs /\ notices' = notices
      BY <1>3 DEF Consume, CheckAssignment
    <2> QED
      BY <1>1, <2>3, <2>4, BrowserKept, QuietStep
  <1>4. CASE Fails(c)
    <2>1. CallsOK' /\ \A d \in Call \ {c} : calls'[d] = calls[d]
      BY <1>0, <1>1, <1>4, CallEnds DEF Fails
    <2>2. CASE Clears(calls[c].tab)
      BY <1>0, <1>1, <2>1, <2>2, ClearsKept, QuietStep
    <2>3. CASE stored' = stored /\ tabs' = tabs /\ notices' = notices
      BY <1>1, <2>1, <2>3, BrowserKept, QuietStep
    <2> QED
      BY <1>4, <2>2, <2>3 DEF Fails
  <1>5. CASE Revoke(c)
    <2>1. CallsOK' /\ \A d \in Call \ {c} : calls'[d] = calls[d]
      BY <1>0, <1>1, <1>5, CallEnds DEF Revoke
    <2>2. stored' \in [customer : 0 .. Len(issued), staff : 0 .. Len(issued)] /\ stored'.customer = stored.customer
      BY <1>0, <1>5 DEF Revoke, TokensOK, NoToken
    <2>3. tabs' = tabs /\ notices' = notices
      BY <1>5 DEF Revoke
    <2>4. tabs' \subseteq Tab /\ SignedInTabsHoldTokens'
      BY <1>0, <2>2, <2>3 DEF TokensOK, SignedInTabsHoldTokens
    <2> QED
      BY <1>1, <2>1, <2>2, <2>4, QuietStep
  <1> QED
    BY <1>2, <1>3, <1>4, <1>5

\* The invariant is inductive.
LEMMA NextKeeps == SessionIInv /\ [SessionsNext]_sessionVars => SessionIInv'
  <1> SUFFICES ASSUME SessionIInv, [SessionsNext]_sessionVars PROVE SessionIInv'
    OBVIOUS
  <1>1. CASE CustomerStep
    BY <1>1, SurroundingsKeep, ResetKeeps, SigningInKeeps, LogoutKeeps, RefreshKeeps DEF CustomerStep, Whose
  <1>2. CASE StaffStep
    BY <1>2, SurroundingsKeep, SigningInKeeps, StaffLogoutKeeps, RefreshKeeps DEF StaffStep, Whose
  <1>3. ASSUME NEW c \in Call, CallStep(c) PROVE SessionIInv'
    BY <1>3, IssueKeeps, ProgressKeeps DEF CallStep
  <1> QED
    BY <1>1, <1>2, <1>3, SurroundingsKeep DEF SessionsNext

LEMMA InitHolds == SessionsInit => SessionIInv
  <1> SUFFICES ASSUME SessionsInit PROVE SessionIInv
    OBVIOUS
  <1>1. issued = <<>> /\ Len(issued) = 0 /\ 0 \in 0 .. Len(issued) /\ issued \in Seq(TokenRecord)
    BY DEF SessionsInit
  <1>2. CallsOK
    BY <1>1, NoCallIsOne DEF SessionsInit, CallsOK, CallOK, Signing
  <1>3. TokensOK
    BY <1>1 DEF SessionsInit, TokensOK, NoToken
  <1> QED
    BY <1>2, <1>3 DEF SessionsInit, SessionIInv, ResetEndsSessions, SignedInTabsHoldTokens

\* Once a password reset is through, no session opened under an earlier
\* password is left, for any number of tabs, requests and resets
\* (auth.service.ts:225).
THEOREM ResetEndsSessionsTheorem == SessionsSpec => []ResetEndsSessions
  <1>1. SessionIInv => ResetEndsSessions
    BY DEF SessionIInv
  <1> QED
    BY <1>1, InitHolds, NextKeeps, PTL DEF SessionsSpec

\* A page that presents a signed-in customer has tokens, or is about to hear
\* that they are gone, for any number of tabs (token-storage.ts).
THEOREM SignedInTabsHoldTokensTheorem == SessionsSpec => []SignedInTabsHoldTokens
  <1>1. SessionIInv => SignedInTabsHoldTokens
    BY DEF SessionIInv
  <1> QED
    BY <1>1, InitHolds, NextKeeps, PTL DEF SessionsSpec

\* What the invariant leaves out of the types: a password is only replaced by a
\* reset that found it below the bound, one at a time.
SessionLimits ==
    /\ assigned \in BOOLEAN /\ died \in BOOLEAN
    /\ notices \subseteq Tab /\ mailed \subseteq {"magic", "reset"}
    /\ Len(issued) <= MaxTokens /\ late \subseteq 1..Len(issued)
    /\ password <= MaxPasswords
    /\ \A c \in Call : calls[c].doing = "save" =>
            password < MaxPasswords /\ \A d \in Call : calls[d].doing = "save" => d = c

\* A step that neither starts a reset nor replaces the password
LEMMA LimitsKept ==
    ASSUME SessionLimits, password' = password, died' \in BOOLEAN, assigned' \in BOOLEAN,
           notices' \subseteq Tab, mailed' \subseteq {"magic", "reset"},
           Len(issued') <= MaxTokens, late' \subseteq 1..Len(issued'),
           \A c \in Call : calls'[c].doing = "save" => calls[c].doing = "save"
    PROVE  SessionLimits'
  BY DEF SessionLimits

\* Of the calls a step touches one.
LEMMA OneCall ==
    ASSUME CallsOK, NEW c \in Call, NEW doing, doing # "save",
           \/ Ended(c) \/ Goes(c, doing)
           \/ \E call : call.doing # "save" /\ calls' = [calls EXCEPT ![c] = call]
    PROVE  \A d \in Call : calls'[d].doing = "save" => calls[d].doing = "save"
  BY NoCallIsOne DEF CallsOK, CallRecord, Ended, Goes

LEMMA LimitsAreKept == SessionIInv /\ SessionLimits /\ [SessionsNext]_sessionVars => SessionLimits'
  <1> SUFFICES ASSUME SessionIInv, SessionLimits, [SessionsNext]_sessionVars PROVE SessionLimits'
    OBVIOUS
  <1>0. /\ CallsOK /\ assigned \in BOOLEAN /\ died \in BOOLEAN
        /\ notices \subseteq Tab /\ mailed \subseteq {"magic", "reset"}
        /\ Len(issued) <= MaxTokens /\ late \subseteq 1..Len(issued)
        /\ issued \in Seq(TokenRecord) /\ Len(issued) \in Nat
    BY DEF SessionIInv, SessionLimits, TokensOK
  <1>1. ASSUME NEW t \in Tab \cup {"none"}, Clears(t) PROVE notices' \subseteq Tab
    BY <1>0, <1>1 DEF Clears
  <1>2. ASSUME NEW kind \in {"magic", "reset"}, MailLink(kind) PROVE SessionLimits'
    BY <1>0, <1>2, LimitsKept DEF MailLink
  <1>3. ASSUME NEW t \in Tab, Hears(t) \/ Loads(t) PROVE SessionLimits'
    BY <1>0, <1>3, LimitsKept DEF Hears, Loads
  <1>4. CASE Unassign \/ UNCHANGED sessionVars
    BY <1>0, <1>4, LimitsKept DEF Unassign, sessionVars
  <1>5. ASSUME NEW c \in Call, Reset(c) PROVE SessionLimits'
    <2>1. \A d \in Call : calls'[d].doing = "save" => d = c
      BY <1>0, <1>5 DEF Reset, Goes, CallsOK
    <2> QED
      BY <1>5, <2>1 DEF Reset, SessionLimits
  <1>6. ASSUME NEW c \in Call, SavePassword(c) PROVE SessionLimits'
    <2>1. \A d \in Call : calls'[d].doing # "save"
      BY <1>0, <1>6 DEF SavePassword, Goes, CallsOK, CallRecord, SessionLimits
    <2>2. password \in Nat /\ password < MaxPasswords
      BY <1>6 DEF SavePassword, SessionLimits, SessionIInv, TokensOK
    <2> QED
      BY <1>6, <2>1, <2>2 DEF SavePassword, SessionLimits
  <1>7. ASSUME NEW c \in Call, RevokeAll(c) \/ ResetDies(c) PROVE SessionLimits'
    <2>1. died' \in BOOLEAN
      BY <1>0, <1>7 DEF RevokeAll, ResetDies
    <2>2. Ended(c)
      BY <1>7 DEF RevokeAll, ResetDies
    <2> QED
      BY <1>0, <1>7, <2>1, <2>2, OneCall, LimitsKept DEF RevokeAll, ResetDies
  <1>8. ASSUME NEW c \in Call, NEW t \in Tab, Login(c, t) \/ MagicLogin(c, t) \/ StaffLogin(c, t) PROVE SessionLimits'
    <2>1. PICK w \in Whose : SignsIn(c, t, w)
      BY <1>8 DEF Login, MagicLogin, StaffLogin, Whose
    <2>2. \A d \in Call : calls'[d].doing = "save" => calls[d].doing = "save"
      BY <1>0, <2>1 DEF SignsIn, CallsOK, NoCall
    <2> QED
      BY <1>0, <1>8, <2>2, LimitsKept DEF Login, MagicLogin, StaffLogin
  <1>9. ASSUME NEW c \in Call, NEW t \in Tab, NEW w \in Whose, Refresh(c, t, w) PROVE SessionLimits'
    <2>1. \A d \in Call : calls'[d].doing = "save" => calls[d].doing = "save"
      BY <1>0, <1>9 DEF Refresh, CallsOK
    <2> QED
      BY <1>0, <1>9, <2>1, LimitsKept DEF Refresh
  <1>10. ASSUME NEW c \in Call, StaffLogout(c) \/ \E t \in Tab : Logout(c, t) PROVE SessionLimits'
    <2>1. \A d \in Call : calls'[d].doing = "save" => calls[d].doing = "save"
      BY <1>0, <1>10 DEF StaffLogout, Logout, Presents, CallsOK, NoCall
    <2>2. notices' \subseteq Tab
      BY <1>0, <1>1, <1>10 DEF StaffLogout, Logout
    <2> QED
      BY <1>0, <1>10, <2>1, <2>2, LimitsKept DEF StaffLogout, Logout
  <1>11. ASSUME NEW c \in Call, Issue(c) PROVE SessionLimits'
    <2>1. \A d \in Call : calls'[d].doing = "save" => calls[d].doing = "save"
      BY <1>0, <1>11 DEF Issue, CallsOK, CallRecord
    <2>2. Len(issued') = Len(issued) + 1 /\ Len(issued) < MaxTokens
      BY <1>0, <1>11 DEF Issue
    <2>3. late' \subseteq late \cup {Len(issued) + 1}
      BY <1>11 DEF Issue, NewToken
    <2>4. Len(issued') <= MaxTokens /\ late' \subseteq 1..Len(issued')
      BY <1>0, <2>2, <2>3
    <2> QED
      BY <1>0, <1>11, <2>1, <2>4, LimitsKept DEF Issue
  <1>12. ASSUME NEW c \in Call, Answer(c) \/ Revoke(c) PROVE SessionLimits'
    <2>1. \A d \in Call : calls'[d].doing = "save" => calls[d].doing = "save"
      BY <1>0, <1>12, OneCall DEF Answer, Revoke
    <2> QED
      BY <1>0, <1>12, <2>1, LimitsKept DEF Answer, Revoke
  <1>13. ASSUME NEW c \in Call, Consume(c) \/ CheckAssignment(c) PROVE SessionLimits'
    <2>1. PICK doing \in {"refused", "check", "issue"} : Goes(c, doing)
      BY <1>13 DEF Consume, CheckAssignment
    <2>2. \A d \in Call : calls'[d].doing = "save" => calls[d].doing = "save"
      BY <1>0, <2>1, OneCall
    <2> QED
      BY <1>0, <1>13, <2>2, LimitsKept DEF Consume, CheckAssignment
  <1>14. ASSUME NEW c \in Call, Fails(c) PROVE SessionLimits'
    <2>1. \A d \in Call : calls'[d].doing = "save" => calls[d].doing = "save"
      BY <1>0, <1>14, OneCall DEF Fails
    <2>2. calls[c].tab \in Tab \cup {"none"}
      BY <1>0 DEF CallsOK, CallRecord
    <2>3. notices' \subseteq Tab
      BY <1>0, <1>1, <1>14, <2>2 DEF Fails
    <2> QED
      BY <1>0, <1>14, <2>1, <2>3, LimitsKept DEF Fails
  <1>15. CASE CustomerStep
    BY <1>2, <1>3, <1>5, <1>6, <1>7, <1>8, <1>9, <1>10, <1>15 DEF CustomerStep, Whose
  <1>16. CASE StaffStep
    BY <1>4, <1>8, <1>9, <1>10, <1>16 DEF StaffStep, Whose
  <1>17. ASSUME NEW c \in Call, CallStep(c) PROVE SessionLimits'
    BY <1>11, <1>12, <1>13, <1>14, <1>17 DEF CallStep
  <1> QED
    BY <1>4, <1>15, <1>16, <1>17 DEF SessionsNext

LEMMA SessionTypes == SessionsSpec => []SessionsTypeOK
  <1>1. SessionsInit => SessionLimits
    <2> SUFFICES ASSUME SessionsInit PROVE SessionLimits
      OBVIOUS
    <2>1. Len(issued) = 0
      BY DEF SessionsInit
    <2>2. \A c \in Call : calls[c].doing = "nothing"
      BY NoCallIsOne DEF SessionsInit
    <2>3. /\ assigned \in BOOLEAN /\ died \in BOOLEAN /\ notices = {} /\ mailed = {} /\ late = {} /\ password = 0
      BY DEF SessionsInit
    <2>4. 0 <= MaxTokens /\ 0 <= MaxPasswords
      BY SessionsAssumption
    <2> QED
      BY <2>1, <2>2, <2>3, <2>4 DEF SessionLimits
  <1>2. SessionIInv /\ SessionLimits => SessionsTypeOK
    <2> SUFFICES ASSUME SessionIInv, SessionLimits PROVE SessionsTypeOK
      OBVIOUS
    <2>1. TokensOK
      BY DEF SessionIInv
    <2>2. Len(issued) \in Nat /\ Issued = 1..Len(issued)
      BY <2>1 DEF TokensOK, Issued
    <2>3. stored \in [{"customer", "staff"} -> Issued \cup {NoToken}]
      BY <2>1, <2>2 DEF TokensOK, NoToken
    <2> QED
      BY <2>1, <2>2, <2>3 DEF SessionLimits, TokensOK, SessionsTypeOK
  <1> QED
    BY <1>1, <1>2, InitHolds, NextKeeps, LimitsAreKept, PTL DEF SessionsSpec

-----------------------------------------------------------------------------
(* Side by side                                                            *)

\* The files stored, and those confirmed, are of submissions.
PapersFiled == files \subseteq Submission /\ signedOff \subseteq Submission \cup {NoFiles}

LEMMA PaperTypes == PaperworkSpec => []PaperworkTypeOK
  <1>1. PaperworkInit => PapersFiled
    BY DEF PaperworkInit, PapersFiled
  <1>2. SignOffIInv /\ PapersFiled /\ [PaperworkNext]_paperVars => PapersFiled'
    <2> SUFFICES ASSUME SignOffIInv, PapersFiled, [PaperworkNext]_paperVars PROVE PapersFiled'
      OBVIOUS
    <2>1. paper.of \in Submission \cup {NoFiles}
      BY DEF SignOffIInv, PaperworkTypes, Record
    <2>2. CASE UNCHANGED <<files, signedOff>>
      BY <2>2 DEF PapersFiled
    <2>3. ASSUME NEW s \in Submission, Upload(s) \/ Tidy(s) PROVE PapersFiled'
      BY <2>3 DEF Upload, Tidy, PapersFiled
    <2>4. ASSUME NEW f \in Reviewer, Confirm(f) PROVE PapersFiled'
      BY <2>1, <2>4 DEF Confirm, PapersFiled
    <2>5. ASSUME NEW s \in Submission, Submit(s) \/ Look(s) \/ Open(s) \/ SaveFinal(s) \/ SubmissionFails(s)
          PROVE  UNCHANGED <<files, signedOff>>
      BY <2>5 DEF Submit, Look, Open, SaveFinal, SubmissionFails
    <2>6. ASSUME NEW f \in Reviewer, Review(f) \/ SaveConfirmed(f) PROVE UNCHANGED <<files, signedOff>>
      BY <2>6 DEF Review, SaveConfirmed
    <2>7. CASE CheckIn \/ ReadToStart \/ StartDrive \/ CompleteDrive \/ UNCHANGED paperVars
      BY <2>2, <2>7 DEF CheckIn, ReadToStart, StartDrive, CompleteDrive, paperVars
    <2> QED
      BY <2>2, <2>3, <2>4, <2>5, <2>6, <2>7 DEF PaperworkNext
  <1>3. SignOffIInv /\ PapersFiled => PaperworkTypeOK
    BY DEF SignOffIInv, PaperworkTypes, PapersFiled, PaperworkTypeOK, Record, SubmissionPlace
  <1> QED
    BY <1>1, <1>2, <1>3, InitSignOff, NextKeepsSignOff, PTL DEF PaperworkSpec

LEMMA SurveyTypesHold == SurveySpec => []SurveyTypeOK
  <1>1. SurveyIInv => SurveyTypeOK
    BY DEF SurveyIInv, SurveyTypes, SurveyPlace, Locked, SurveyTypeOK
  <1> QED
    BY <1>1, SurveyInvariant, PTL

LEMMA BrandingTypesHold == BrandingSpec => []BrandingTypeOK
  <1>1. BrandingIInv => BrandingTypeOK
    BY DEF BrandingIInv
  <1> QED
    BY <1>1, BrandingInvariant, PTL

\* Run side by side, every component does what it does by itself: whatever is
\* proved of a component holds of the portal.
THEOREM PortalRunsItsParts ==
    PortalSpec => SessionsSpec /\ PaperworkSpec /\ SurveySpec /\ ScheduleSpec /\ BrandingSpec
                  /\ ConsoleSpec /\ DashboardSpec /\ RecordsSpec
  <1>1. PortalInit => /\ SessionsInit /\ PaperworkInit /\ SurveyInit /\ ScheduleInit /\ BrandingInit /\ AccessInit
                      /\ DashboardInit /\ RecordsInit
    BY DEF PortalInit
  <1>2. ASSUME [PortalNext]_portalVars
        PROVE  /\ [SessionsNext]_sessionVars /\ [PaperworkNext]_paperVars /\ [SurveyNext]_surveyVars
               /\ [ScheduleNext]_plan /\ [BrandingNext]_brandingVars /\ [ConsoleNext]_question
               /\ [DashboardNext]_report /\ [RecordsNext]_edit
    <2>1. CASE UNCHANGED portalVars
      BY <2>1 DEF portalVars
    <2>2. CASE PortalNext
      BY <2>2 DEF PortalNext, SessionsNext
    <2> QED
      BY <1>2, <2>1, <2>2
  <1> QED
    BY <1>1, <1>2, PTL DEF PortalSpec, SessionsSpec, PaperworkSpec, SurveySpec, ScheduleSpec, BrandingSpec,
                           ConsoleSpec, DashboardSpec, RecordsSpec

\* The portal's variables keep their types, whatever the bounds.
THEOREM PortalTypesTheorem == PortalSpec => []PortalTypeOK
  <1>1. SessionsTypeOK /\ PaperworkTypeOK /\ SurveyTypeOK /\ BrandingTypeOK => PortalTypeOK
    BY DEF PortalTypeOK
  <1> QED
    BY <1>1, PortalRunsItsParts, SessionTypes, PaperTypes, SurveyTypesHold, BrandingTypesHold, PTL
=============================================================================
