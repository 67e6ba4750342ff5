----------------------------- MODULE StaffAccess -----------------------------
(***************************************************************************)
(* Who may do what in the admin console.  Access derives from the active   *)
(* staff assignments in Salesforce; every instance of the API caches what  *)
(* it read for CACHE_TTL_MS, and an edit made through an instance drops    *)
(* what that instance has cached of the member it is about.                *)
(*                                                                         *)
(* A request is made by a member on an instance: it resolves the member's  *)
(* access, and may then edit an assignment, with a read, a check and a     *)
(* save of the whole record.  Branches, phones and daily caps are data.    *)
(*                                                                         *)
(* Sources: apps/api/src/admin (staff-access.service.ts, staff-access.ts,  *)
(* permission.guard.ts, permissions.ts, admin-users.service.ts),           *)
(* packages/domain/src/entities/staff-assignment.ts and                    *)
(* integrations/salesforce/src/repositories/staff.repository.ts.           *)
(***************************************************************************)
EXTENDS Integers

CONSTANTS
    Member,         \* staff members
    Dealership,
    Company,        \* where a Company Admin's assignment applies
    AssignmentId,   \* ids of assignments
    Server,         \* instances of the API
    ConsoleRequest, \* requests served at a time
    Nobody,         \* no assignment, no cache entry, no member
    FirstAdmins,    \* the assignments that make somebody Company Admin at first
    AdminOf,        \* whose they are
    RoleAsked,      \* the roles that edits ask for
    MaxEdits        \* bound on changes of the assignments

Role == {"Company_Admin", "Dealer_Admin", "Manager", "Sales_Rep"}

ASSUME StaffAssumption ==
    /\ Company \notin Dealership
    /\ FirstAdmins \subseteq AssignmentId /\ FirstAdmins # {}
    /\ AdminOf \in [FirstAdmins -> Member]
    /\ RoleAsked \subseteq Role
    /\ MaxEdits \in Nat

VARIABLES
    assigned,   \* Salesforce: the assignments
    version,    \* how often each member's assignments have changed
    access,     \* each instance's cached access of each member
    acked,      \* the version of each member's assignments that the instance
                \*   has acknowledged an edit of
    desk        \* each request

staffVars == <<assigned, version, access, acked, desk>>

-----------------------------------------------------------------------------
(* Assignments and permissions                                             *)

\* assertValid: a Company Admin's spans every dealership, the others are of one.
Post == [role : {"Company_Admin"}, place : {Company}]
        \cup [role : Role \ {"Company_Admin"}, place : Dealership]

Asked == {post \in Post : post.role \in RoleAsked}

\* A user holds at most one assignment per place: User_Dealership_Key__c.
Assignment == [user : Member, post : Post, active : BOOLEAN]

Taken(id, user, place) ==
    \E other \in AssignmentId \ {id} :
        /\ assigned[other] # Nobody
        /\ assigned[other].user = user /\ assigned[other].post.place = place

\* findActiveByUser
PostsOf(m) == {assigned[id].post : id \in
                  {id \in AssignmentId : assigned[id] # Nobody /\ assigned[id].user = m /\ assigned[id].active}}

\* findAll({ role: "Company_Admin" })
CompanyAdmins ==
    {id \in AssignmentId : /\ assigned[id] # Nobody /\ assigned[id].active
                           /\ assigned[id].post.role = "Company_Admin"}

Permission == {"manage_users", "manage_bookings", "view_dashboard", "manage_config", "view_audit_log"}

RolePermissions ==
    [Company_Admin |-> Permission,
     Dealer_Admin  |-> {"manage_users", "manage_bookings", "view_dashboard", "manage_config"},
     Manager       |-> {"manage_bookings", "view_dashboard"},
     Sales_Rep     |-> {}]

IsCompanyAdmin(posts) == \E p \in posts : p.role = "Company_Admin"

CanIn(posts, permission, d) ==
    IsCompanyAdmin(posts) \/ \E p \in posts : p.place = d /\ permission \in RolePermissions[p.role]

Can(posts, permission) == \E p \in posts : permission \in RolePermissions[p.role]

\* mayManage, of an existing assignment, and assertMayGrant, of what it becomes
MayManage(posts, post) == CanIn(posts, "manage_users", post.place)

-----------------------------------------------------------------------------
(* Requests                                                                *)

NoRequest == [at |-> "idle", by |-> Nobody, server |-> Nobody, posts |-> {}, version |-> 0,
              late |-> FALSE, id |-> Nobody, was |-> Nobody, new |-> Nobody, others |-> {}]

\* version, late: of the posts; late: read before an acknowledged edit of them
CacheEntry == [posts : SUBSET Post, version : 0 .. MaxEdits, late : BOOLEAN]

StaffTypeOK ==
    /\ assigned \in [AssignmentId -> Assignment \cup {Nobody}]
    /\ version \in [Member -> 0 .. MaxEdits]
    /\ access \in [Server -> [Member -> CacheEntry \cup {Nobody}]]
    /\ acked \in [Server -> [Member -> 0 .. MaxEdits]]
    /\ desk \in [ConsoleRequest ->
          [at : {"idle", "load", "store", "ready", "check", "save", "ack"}, by : Member \cup {Nobody},
           server : Server \cup {Nobody}, posts : SUBSET Post, version : 0 .. MaxEdits, late : BOOLEAN,
           id : AssignmentId \cup {Nobody}, was : Assignment \cup {Nobody}, new : Assignment \cup {Nobody},
           others : SUBSET AssignmentId]]

Turns(r, job) == desk' = [desk EXCEPT ![r] = job]

\* What a request that was let through goes on with.
Edits(r, at) == [NoRequest EXCEPT !.at = at, !.server = desk[r].server]

\* PermissionGuard: somebody without posts, or without the permission, is refused.
Admitted(i, posts) ==
    IF Can(posts, "manage_users") THEN [NoRequest EXCEPT !.at = "ready", !.server = i, !.posts = posts]
    ELSE NoRequest

\* resolve: what is cached, or a load
Arrives(r, m, i) ==
    LET entry == access[i][m] IN
    /\ desk[r].at = "idle"
    /\ Turns(r, IF entry = Nobody THEN [NoRequest EXCEPT !.at = "load", !.by = m, !.server = i]
                ELSE Admitted(i, entry.posts))
    /\ UNCHANGED <<assigned, version, access, acked>>

LoadAccess(r) ==
    LET job == desk[r] IN
    /\ job.at = "load"
    /\ Turns(r, [job EXCEPT !.at = "store", !.posts = PostsOf(job.by), !.version = version[job.by]])
    /\ UNCHANGED <<assigned, version, access, acked>>

\* The answer arrives, and is cached whatever has happened since it was read.
StoreAccess(r) ==
    LET job == desk[r] IN
    /\ job.at = "store"
    /\ access' = [access EXCEPT ![job.server][job.by] =
                     [posts |-> job.posts, version |-> job.version, late |-> job.late]]
    /\ Turns(r, Admitted(job.server, job.posts))
    /\ UNCHANGED <<assigned, version, acked>>

\* CACHE_TTL_MS, CACHE_MAX_ENTRIES
Forget(i, m) ==
    /\ access[i][m] # Nobody
    /\ access' = [access EXCEPT ![i][m] = Nobody]
    /\ UNCHANGED <<assigned, version, acked, desk>>

-----------------------------------------------------------------------------
(* Edits: AdminUsersService                                                *)

\* create: a user of the directory gets an assignment.
Grant(r, m, post) ==
    /\ desk[r].at = "ready"
    /\ MayManage(desk[r].posts, post)
    /\ \E id \in AssignmentId :
          /\ assigned[id] = Nobody
          /\ \A q \in ConsoleRequest : desk[q].id # id
          /\ Turns(r, [Edits(r, "save") EXCEPT !.id = id,
                  !.new = [user |-> m, post |-> post, active |-> TRUE]])
    /\ UNCHANGED <<assigned, version, access, acked>>

Admins(a) == a # Nobody /\ a.active /\ a.post.role = "Company_Admin"

\* The last Company Admin must not be demoted or deactivated.
OnlyDemotionIsChecked(was, new) == Admins(was) /\ new.post.role # "Company_Admin"
NeedsCheck(was, new) == Admins(was) /\ ~Admins(new)

\* update: the record is read here, and written as a whole by the save.
Change(r, id, post, active) ==
    LET was == assigned[id]
        new == [was EXCEPT !.post = post, !.active = active] IN
    /\ desk[r].at = "ready"
    /\ was # Nobody
    /\ MayManage(desk[r].posts, was.post) /\ MayManage(desk[r].posts, post)
    /\ Turns(r, [Edits(r, IF NeedsCheck(was, new) THEN "check" ELSE "save") EXCEPT !.id = id, !.was = was, !.new = new])
    /\ UNCHANGED <<assigned, version, access, acked>>

\* assertAnotherCompanyAdmin
CheckOthers(r) ==
    LET others == CompanyAdmins \ {desk[r].id} IN
    /\ desk[r].at = "check"
    /\ Turns(r, IF others = {} THEN NoRequest ELSE [desk[r] EXCEPT !.at = "save", !.others = others])
    /\ UNCHANGED <<assigned, version, access, acked>>

\* Salesforce refuses a second assignment of the user at the place.
SaveAssignment(r) ==
    LET job == desk[r] IN
    /\ job.at = "save"
    /\ \/ /\ Taken(job.id, job.new.user, job.new.post.place)
          /\ Turns(r, NoRequest)
          /\ UNCHANGED <<assigned, version>>
       \/ /\ ~Taken(job.id, job.new.user, job.new.post.place)
          /\ version[job.new.user] < MaxEdits
          /\ assigned' = [assigned EXCEPT ![job.id] = job.new]
          /\ version' = [version EXCEPT ![job.new.user] = @ + 1]
          /\ Turns(r, [Edits(r, "ack") EXCEPT !.new = job.new, !.version = version[job.new.user] + 1])
    /\ UNCHANGED <<access, acked>>

\* invalidate: the entries of the member whose assignment was saved.  A load
\* under way is not stopped; the history marks it as late.
DropsNobody(r) == Nobody
DropsMember(r) == desk[r].new.user

Acknowledge(r) ==
    LET job == desk[r]
        m == job.new.user IN
    /\ job.at = "ack"
    /\ access' = [access EXCEPT ![job.server][DropsMember(r)] = Nobody]
    /\ acked' = [acked EXCEPT ![job.server][m] = IF job.version > @ THEN job.version ELSE @]
    /\ desk' = [q \in ConsoleRequest |->
                   IF q = r THEN NoRequest
                   ELSE IF desk[q].at = "store" /\ desk[q].server = job.server /\ desk[q].by = m
                     THEN [desk[q] EXCEPT !.late = TRUE]
                   ELSE desk[q]]
    /\ UNCHANGED <<assigned, version>>

\* An administrator edits an assignment in Salesforce, or its user is deactivated.
EditInSalesforce(id) ==
    /\ assigned[id] # Nobody
    /\ version[assigned[id].user] < MaxEdits
    /\ assigned' = [assigned EXCEPT ![id].active = ~@]
    /\ version' = [version EXCEPT ![assigned[id].user] = @ + 1]
    /\ UNCHANGED <<access, acked, desk>>

-----------------------------------------------------------------------------

StaffInit ==
    /\ assigned = [id \in AssignmentId |->
                     IF id \in FirstAdmins
                       THEN [user |-> AdminOf[id], active |-> TRUE,
                             post |-> [role |-> "Company_Admin", place |-> Company]]
                       ELSE Nobody]
    /\ version = [m \in Member |-> 0]
    /\ access = [i \in Server |-> [m \in Member |-> Nobody]]
    /\ acked = [i \in Server |-> [m \in Member |-> 0]]
    /\ desk = [r \in ConsoleRequest |-> NoRequest]

StaffNext ==
    \/ \E r \in ConsoleRequest :
          \/ \E m \in Member, i \in Server : Arrives(r, m, i)
          \/ LoadAccess(r) \/ StoreAccess(r) \/ CheckOthers(r) \/ SaveAssignment(r) \/ Acknowledge(r)
          \/ \E m \in Member, post \in Asked : Grant(r, m, post)
          \/ \E id \in AssignmentId, post \in Asked, active \in BOOLEAN : Change(r, id, post, active)
    \/ \E i \in Server, m \in Member : Forget(i, m)
    \/ \E id \in AssignmentId : EditInSalesforce(id)

StaffSpec == StaffInit /\ [][StaffNext]_staffVars

-----------------------------------------------------------------------------
(* Properties                                                              *)

\* A change made through the console takes effect "immediately on this
\* instance" (staff-access.service.ts:21): what an instance caches of a member
\* is no older than the last edit it acknowledged - unless it comes from a load
\* that was under way at that time.
InvalidationHolds ==
    \A i \in Server, m \in Member :
        access[i][m] # Nobody /\ ~access[i][m].late => access[i][m].version >= acked[i][m]

\* The console takes away the last active Company Admin only by a save that
\* acts on something that has changed since it was read: the record it
\* overwrites, or the other admin it counted on (admin-users.service.ts:110).
LastAdminStays ==
    [][\A r \in ConsoleRequest :
          desk[r].at = "save" /\ desk'[r].at = "ack" /\ CompanyAdmins # {} /\ CompanyAdmins' = {} =>
              \/ desk[r].was # assigned[desk[r].id]
              \/ desk[r].others # {} /\ desk[r].others \cap CompanyAdmins = {}]_staffVars
=============================================================================
