------------------------------- MODULE Sharing -------------------------------
(***************************************************************************)
(* The Salesforce automation that keeps access to a tenant's records in    *)
(* step with its staff assignments: per dealership three nested groups,    *)
(* whose members follow the assignments, and shares that give the groups,  *)
(* and some users, their access to each record.                            *)
(*                                                                         *)
(* A trigger runs in the transaction of the change it reacts to: one step. *)
(* Groups and members may only be written by jobs, which are queued by the *)
(* triggers, run concurrently, and read before they write; a batch shares  *)
(* existing records again, as triggers and other batches run: it picks the *)
(* records, reads them with their groups, reads their shares, and writes,  *)
(* each a step.                                                            *)
(* One drive stands for all of them, with its compliance record; a branch, *)
(* a vehicle or an allocation is shared as the drive is.                   *)
(*                                                                         *)
(* Sources: integrations/salesforce/mdapi/classes (TdmStaffAccessSync,     *)
(* TdmDealerGroups, TdmDealerSetupJob, TdmRecordSharing,                   *)
(* TdmSharingRecalcBatch) and mdapi/triggers.                              *)
(***************************************************************************)
EXTENDS Integers

CONSTANTS
    SfStaff,        \* users with assignments
    Dealer,         \* dealerships
    NoDealer,       \* no dealership
    Job,            \* jobs that may be queued or running at a time
    MaxChanges      \* bound on the changes people make

ASSUME SharingAssumption == NoDealer \notin Dealer /\ MaxChanges \in Nat

VARIABLES
    dealers,    \* the dealerships that exist
    post,       \* each user's active role at each dealership, or none
    groups,     \* dealerships whose groups exist
    members,    \* the users in each group
    drive,      \* the drive: its dealership and its owner
    shares,     \* each object's shares: <<group or user, level>>
    jobs,       \* queued and running jobs
    raced,      \* history: users whose syncs have overlapped
    outdated,   \* history: batches whose reading has been overtaken
    misshared,  \* history: objects whose shares such a batch has written
    changes     \* how many changes have been made

sharingVars == <<dealers, post, groups, members, drive, shares, jobs, raced, outdated, misshared, changes>>

-----------------------------------------------------------------------------
(* Groups, and who is shared what                                          *)

TierOf == [Sales_Rep |-> "STAFF", Manager |-> "MANAGERS", Dealer_Admin |-> "ADMINS"]
Group == Dealer \X {"STAFF", "MANAGERS", "ADMINS"}
Principal == Group \cup {<<u>> : u \in SfStaff}

\* The groups a user belongs in; a tier is a member of the one below it.
WantedAsStaff(posts) == {<<d, "STAFF">> : d \in {d \in Dealer : posts[d] # "none"}}
Wanted(posts) == {<<d, TierOf[posts[d]]>> : d \in {d \in Dealer : posts[d] # "none"}}

\* RULES, for the two objects that follow a drive
Object == {"Booking__c", "Compliance_Record__c"}
SharedTo == [Booking__c |-> {"MANAGERS"}, Compliance_Record__c |-> {"MANAGERS"}]
SharedToOwner == {"Compliance_Record__c"}

\* apply: only a group that exists can be shared to.
Desired(object, d, owner) ==
    {g \in Group : g[1] = d /\ d \in groups /\ g[2] \in SharedTo[object]}
    \cup {<<u>> : u \in {u \in {owner} : object \in SharedToOwner}}

NoDrive == [dealer |-> NoDealer, owner |-> NoDealer, reviewed |-> FALSE]

\* What a recalculation, or the triggers, leave for the drive and its record.
Reshared(object, new) ==
    IF new.dealer = NoDealer \/ (object = "Compliance_Record__c" /\ ~new.reviewed) THEN {}
    ELSE Desired(object, new.dealer, new.owner)

-----------------------------------------------------------------------------
(* Jobs                                                                    *)

NoJob == [kind |-> "none", at |-> "queued", dealers |-> {}, user |-> NoDealer,
          new |-> {}, stale |-> {}, left |-> {}]

SharingTypeOK ==
    /\ dealers \subseteq Dealer
    /\ post \in [SfStaff -> [Dealer -> DOMAIN TierOf \cup {"none"}]]
    /\ groups \subseteq dealers
    /\ members \in [SfStaff -> SUBSET Group]
    /\ drive \in [dealer : Dealer \cup {NoDealer}, owner : SfStaff \cup {NoDealer}, reviewed : BOOLEAN]
    /\ shares \in [Object -> SUBSET Principal]
    /\ jobs \in [Job -> [kind : {"none", "setup", "sync", "recalc"},
                         at : {"queued", "picked", "read", "compared"},
                         dealers : SUBSET Dealer, user : SfStaff \cup {NoDealer},
                         new : SUBSET Principal, stale : SUBSET Principal, left : SUBSET Object]]
    /\ raced \subseteq SfStaff
    /\ outdated \subseteq Job
    /\ misshared \subseteq Object
    /\ changes \in 0 .. MaxChanges

Changed == changes < MaxChanges /\ changes' = changes + 1

\* enqueueJob, in a transaction that is about to commit
Enqueue(job) ==
    \E j \in Job : jobs[j] = NoJob /\ jobs' = [jobs EXCEPT ![j] = job]

Becomes(j, job) == jobs' = [jobs EXCEPT ![j] = job]

\* New groups: the records that were there before them are shared again.
Recalculation(created) ==
    IF created = {} THEN NoJob
    ELSE [NoJob EXCEPT !.kind = "recalc", !.dealers = created, !.left = Object]

\* The object a batch is at: drives are shared before their records.
Current(job) == IF "Booking__c" \in job.left THEN "Booking__c" ELSE "Compliance_Record__c"

\* Batches at a stage of one of the objects; what they have read of a drive is
\* out of date once it changes, or its dealership gets its groups.
Batches(stages, objects) ==
    {j \in Job : jobs[j].kind = "recalc" /\ jobs[j].at \in stages /\ Current(jobs[j]) \in objects}
Overtake(objects) == outdated' = outdated \cup Batches({"read", "compared"}, objects)
Rewritten(objects) == Overtake(objects) /\ misshared' = misshared \ objects
GroupsOf(created) == Overtake({object \in Object : drive.dealer \in created})

-----------------------------------------------------------------------------
(* What people do, and the triggers                                        *)

\* DealershipTrigger
OpenDealership(d) ==
    /\ Changed
    /\ d \notin dealers
    /\ dealers' = dealers \cup {d}
    /\ Enqueue([NoJob EXCEPT !.kind = "setup", !.dealers = {d}])
    /\ UNCHANGED <<post, groups, members, drive, shares, raced, outdated, misshared>>

\* StaffAssignmentTrigger: the user gets, changes or loses a role.
Assign(u, d, role) ==
    /\ Changed
    /\ d \in dealers /\ post[u][d] # role
    /\ post' = [post EXCEPT ![u][d] = role]
    /\ Enqueue([NoJob EXCEPT !.kind = "sync", !.user = u])
    /\ UNCHANGED <<dealers, groups, members, drive, shares, raced, outdated, misshared>>

\* BookingTrigger: a new drive, another owner, or another dealership.  The
\* record that belongs to the drive follows both.
FollowsDealership(object, new) == object = "Booking__c" \/ new.dealer # drive.dealer
Follows(object, new) == object # "Booking__c" \/ new.dealer # drive.dealer

SaveDrive(d, u) ==
    LET new == [drive EXCEPT !.dealer = d, !.owner = u] IN
    /\ Changed
    /\ d \in dealers /\ new # drive
    /\ drive' = new
    /\ shares' = [object \in Object |->
                     IF Follows(object, new) THEN Reshared(object, new) ELSE shares[object]]
    /\ Rewritten({object \in Object : Follows(object, new)})
    /\ UNCHANGED <<dealers, post, groups, members, jobs, raced>>

\* ComplianceRecordTrigger, DriveFeedbackTrigger: the drive gets its record.
SaveReview ==
    LET new == [drive EXCEPT !.reviewed = TRUE] IN
    /\ Changed
    /\ drive # NoDrive /\ ~drive.reviewed
    /\ drive' = new
    /\ shares' = [shares EXCEPT !["Compliance_Record__c"] = Reshared("Compliance_Record__c", new)]
    /\ Rewritten({"Compliance_Record__c"})
    /\ UNCHANGED <<dealers, post, groups, members, jobs, raced>>

-----------------------------------------------------------------------------
(* What jobs do                                                            *)

\* TdmDealerSetupJob: the groups that are missing, then what is created; a
\* group another job creates first is as good.
ReadGroups(j) ==
    /\ jobs[j].kind = "setup" /\ jobs[j].at = "queued"
    /\ Becomes(j, [jobs[j] EXCEPT !.at = "read", !.dealers = @ \ groups])
    /\ UNCHANGED <<dealers, post, groups, members, drive, shares, raced, outdated, misshared, changes>>

CreateGroups(j) ==
    /\ jobs[j].kind = "setup" /\ jobs[j].at = "read"
    /\ groups' = groups \cup jobs[j].dealers
    /\ Becomes(j, Recalculation(jobs[j].dealers))
    /\ GroupsOf(jobs[j].dealers)
    /\ UNCHANGED <<dealers, post, members, drive, shares, raced, misshared, changes>>

Syncing(u) == {j \in Job : jobs[j].kind = "sync" /\ jobs[j].user = u}

\* TdmStaffAccessSync: what the user should be in, and is in; groups that are
\* missing are created with it.  A sync that runs alone makes good an earlier
\* race, unless another joins it.
ReadPosts(j) ==
    LET u == jobs[j].user
        wanted == Wanted(post[u]) IN
    /\ jobs[j].kind = "sync" /\ jobs[j].at = "queued"
    /\ Becomes(j, [jobs[j] EXCEPT !.at = "read", !.new = wanted \ members[u], !.stale = members[u] \ wanted,
                                  !.dealers = {d \in dealers : post[u][d] # "none"} \ groups])
    /\ raced' = IF \E k \in Syncing(u) : jobs[k].at = "read" THEN raced \cup {u} ELSE raced \ {u}
    /\ UNCHANGED <<dealers, post, groups, members, drive, shares, outdated, misshared, changes>>

\* A member that another job has added or removed meanwhile fails the job, and
\* nothing of it is kept.
WriteMembers(j) ==
    LET job == jobs[j]
        u == job.user IN
    /\ job.kind = "sync" /\ job.at = "read"
    /\ \/ /\ job.new \cap members[u] = {} /\ job.stale \subseteq members[u]
          /\ members' = [members EXCEPT ![u] = (@ \ job.stale) \cup job.new]
          /\ groups' = groups \cup job.dealers
          /\ Becomes(j, Recalculation(job.dealers))
          /\ GroupsOf(job.dealers)
       \/ /\ job.new \cap members[u] # {} \/ ~(job.stale \subseteq members[u])
          /\ Becomes(j, NoJob)
          /\ UNCHANGED <<members, groups, outdated>>
    /\ UNCHANGED <<dealers, post, drive, shares, raced, misshared, changes>>

\* TdmSharingRecalcBatch.finish: the next object, or the end.
Finished(job) ==
    IF job.left = {Current(job)} THEN NoJob
    ELSE [job EXCEPT !.at = "queued", !.new = {}, !.stale = {}, !.left = @ \ {Current(job)}]

\* start: the records of the dealerships whose groups are new, if there are any
InScope(job, object) ==
    drive.dealer \in job.dealers /\ (object = "Compliance_Record__c" => drive.reviewed)

PickRecords(j) ==
    LET job == jobs[j] IN
    /\ job.kind = "recalc" /\ job.at = "queued"
    /\ Becomes(j, IF InScope(job, Current(job)) THEN [job EXCEPT !.at = "picked"] ELSE Finished(job))
    /\ UNCHANGED <<dealers, post, groups, members, drive, shares, raced, outdated, misshared, changes>>

\* execute, TdmRecordSharing.apply: where the picked record belongs by now, and
\* the groups there are.  (Groups are only ever added: reading them a little
\* after the record leaves nothing else than reading both then.)
ReadRecords(j) ==
    LET job == jobs[j] IN
    /\ job.kind = "recalc" /\ job.at = "picked"
    /\ Becomes(j, [job EXCEPT !.at = "read", !.new = Reshared(Current(job), drive)])
    /\ UNCHANGED <<dealers, post, groups, members, drive, shares, raced, outdated, misshared, changes>>

\* The shares that are missing, and those that are not wanted
CompareShares(j) ==
    LET job == jobs[j]
        now == shares[Current(job)] IN
    /\ job.kind = "recalc" /\ job.at = "read"
    /\ Becomes(j, [job EXCEPT !.at = "compared", !.new = @ \ now, !.stale = now \ job.new])
    /\ UNCHANGED <<dealers, post, groups, members, drive, shares, raced, outdated, misshared, changes>>

\* A share that is gone already fails the delete, and nothing of it is kept;
\* the batch finishes all the same.  What a batch that was overtaken writes
\* overtakes those that have compared before it.
WriteShares(j) ==
    LET job == jobs[j]
        object == Current(job) IN
    /\ job.kind = "recalc" /\ job.at = "compared"
    /\ \/ /\ job.stale \subseteq shares[object]
          /\ shares' = [shares EXCEPT ![object] = (@ \ job.stale) \cup job.new]
          /\ misshared' = IF j \in outdated THEN misshared \cup {object} ELSE misshared \ {object}
          /\ outdated' = (IF j \in outdated THEN outdated \cup Batches({"compared"}, {object}) ELSE outdated) \ {j}
       \/ /\ ~(job.stale \subseteq shares[object])
          /\ outdated' = outdated \ {j}
          /\ UNCHANGED <<shares, misshared>>
    /\ Becomes(j, Finished(job))
    /\ UNCHANGED <<dealers, post, groups, members, drive, raced, changes>>

-----------------------------------------------------------------------------

SharingInit ==
    /\ dealers = {}
    /\ post = [u \in SfStaff |-> [d \in Dealer |-> "none"]]
    /\ groups = {}
    /\ members = [u \in SfStaff |-> {}]
    /\ drive = NoDrive
    /\ shares = [object \in Object |-> {}]
    /\ jobs = [j \in Job |-> NoJob]
    /\ raced = {} /\ outdated = {} /\ misshared = {}
    /\ changes = 0

SharingNext ==
    \/ \E d \in Dealer : OpenDealership(d)
    \/ \E u \in SfStaff, d \in Dealer :
          \/ \E role \in DOMAIN TierOf \cup {"none"} : Assign(u, d, role)
          \/ SaveDrive(d, u)
    \/ SaveReview
    \/ \E j \in Job :
          \/ ReadGroups(j) \/ CreateGroups(j) \/ ReadPosts(j) \/ WriteMembers(j)
          \/ PickRecords(j) \/ ReadRecords(j) \/ CompareShares(j) \/ WriteShares(j)

SharingSpec == SharingInit /\ [][SharingNext]_sharingVars

-----------------------------------------------------------------------------
(* Properties                                                              *)

\* When no sync of a user is queued or running, the user is in the groups of
\* their roles and in no others, whoever created the groups and in whatever
\* order the jobs ran - unless two syncs of theirs overlapped, the later
\* having read newer assignments than the earlier wrote.
MembersFollowAssignments ==
    \A u \in SfStaff :
        Syncing(u) = {} /\ u \notin raced =>
            members[u] = {g \in Group : post[u][g[1]] \in DOMAIN TierOf /\ g[2] = TierOf[post[u][g[1]]]}

\* Who a drive and its compliance record are shared to is always its owner and
\* the groups of its own dealership; and all of them, once no group is being
\* created and no recalculation is left (TdmRecordSharing.cls:7: "all
\* converge on the same state").  That is so however saves, set-ups and
\* batches interleave, except that a batch may write what it read before the
\* drive moved or the groups were created; the next save that moves the
\* drive, and the next batch that is not overtaken, set that right.
SharesFollowDrive ==
    \A object \in Object \ misshared :
        /\ shares[object] \subseteq Reshared(object, drive)
        /\ (\A j \in Job : jobs[j].kind # "recalc") => shares[object] = Reshared(object, drive)
=============================================================================
