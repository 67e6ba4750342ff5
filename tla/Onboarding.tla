------------------------------ MODULE Onboarding ------------------------------
(***************************************************************************)
(* How a company connects its Salesforce org: the setup wizard in a        *)
(* browser, the OAuth handshakes it starts, the deployment that follows    *)
(* each of them in the background, the sign-ins of the org's staff, and    *)
(* the platform operator, who may disconnect the company and ask for a new *)
(* setup link at any time, and never see the answer.                       *)
(*                                                                         *)
(* A handshake is one round trip to Salesforce, from the authorization URL *)
(* to the end of the deployment it starts; its steps are separated by      *)
(* awaits, and several may run at once.  A setup token is the number of    *)
(* its issue; the stored refresh token is the Connected App it was issued  *)
(* to.  Each Salesforce user has at most one Company_Admin assignment, in  *)
(* the user's own org, which may be older than the company: the org may    *)
(* have been used before.  Names, slugs and messages are left out.         *)
(*                                                                         *)
(* Sources: apps/api/src/onboarding, apps/api/src/platform,                *)
(* integrations/postgres/src/repositories/organization.repository.ts,      *)
(* integrations/salesforce/src/metadata-deploy.ts and the wizard's pages.  *)
(***************************************************************************)
EXTENDS Integers

CONSTANTS
    Handshake,      \* round trips to Salesforce that may be under way
    SfUser,         \* Salesforce users
    Installer,      \* those who may authorize the connection
    SfOrg,          \* Salesforce orgs
    OrgOf,          \* the org of each user
    NameOf,         \* the place of each user in the order of their names
    App,            \* Connected Apps
    Earlier,        \* the assignments that may be older than the company
    Unset,          \* a column that is null
    MaxResets       \* bound on the operator's reconnects

ASSUME OnboardingAssumption ==
    /\ Installer \subseteq SfUser
    /\ OrgOf \in [SfUser -> SfOrg]
    /\ NameOf \in [SfUser -> Nat]
    /\ Earlier \subseteq [SfUser -> {"none", "active", "inactive"}]
    /\ Unset \notin SfUser \cup SfOrg \cup App
    /\ MaxResets \in Nat

VARIABLES
    org,        \* the organization's row
    trip,       \* each handshake
    entry,      \* the app whose credentials are being saved
    staffUsers, \* Postgres: users known to the platform
    grants,     \* Salesforce: the Company_Admin assignment of each user
    joined,     \* orgs the company has been connected to: an instance may
                \*   still cache an access token of each
    wizard,     \* the browser that runs the wizard
    console     \* the operator's: the setup token in the link it shows, the
                \*   one in an answer under way, and the last one lost

onboardingVars == <<org, trip, entry, staffUsers, grants, joined, wizard, console>>

-----------------------------------------------------------------------------
(* Types                                                                   *)

OrgRow == [app : App \cup {Unset}, token : App \cup {Unset},
           status : {"pending", "connected", "error"}, failed : BOOLEAN,
           bound : SfOrg \cup {Unset}, deployed : BOOLEAN, setup : 1 .. MaxResets + 1]

Callback   == {"exchange", "save", "welcome"}
Deployment == {"deploy", "grant", "mark"}
NoTrip == [at |-> "none", app |-> Unset, seen |-> Unset, user |-> Unset]
Trip == [at : {"none", "issued"} \cup Callback \cup Deployment, app : App \cup {Unset},
         seen : SfOrg \cup {Unset}, user : SfUser \cup {Unset}]

SetupToken == 0 .. MaxResets + 1
Wizard  == [token : SetupToken, page : {"setup", "connecting", "done"}, stalled : BOOLEAN]
Console == [link : SetupToken, answer : SetupToken, lost : SetupToken]

OnboardingTypeOK ==
    /\ org \in OrgRow
    /\ trip \in [Handshake -> Trip]
    /\ entry \in App \cup {Unset}
    /\ staffUsers \subseteq SfUser
    /\ grants \in [SfUser -> {"none", "active", "inactive"}]
    /\ joined \subseteq SfOrg
    /\ wizard \in Wizard
    /\ console \in Console

-----------------------------------------------------------------------------
(* Writes of the organization's row                                        *)

\* A different Consumer Key drops the token of the earlier app.
Credentials(a) ==
    IF org.app # a THEN [org EXCEPT !.app = a, !.token = Unset, !.status = "pending", !.failed = FALSE]
    ELSE [org EXCEPT !.app = a]

SwapsColumns(a, o) ==
    [org EXCEPT !.token = o, !.bound = a, !.status = "connected", !.failed = FALSE]
Connected(a, o) ==
    [org EXCEPT !.token = a, !.bound = o, !.status = "connected", !.failed = FALSE]

NotConnected == [org EXCEPT !.status = "error", !.failed = TRUE]

NotDeployed == [org EXCEPT !.failed = TRUE]

Deployed == [org EXCEPT !.deployed = TRUE, !.failed = FALSE]

\* The app and the bound org are kept; the old setup token stops working.
Disconnected ==
    [org EXCEPT !.token = Unset, !.status = "pending", !.failed = FALSE, !.setup = org.setup + 1]

-----------------------------------------------------------------------------
(* The wizard in the browser                                               *)

\* OnboardingTokenGuard lets its requests through.
HoldsSetupToken == wizard.token = org.setup

\* What the page after the round trip shows.  It polls the status until the
\* setup is ready or has failed; a deployment that takes too long counts as cut off.
NeverStalls == FALSE
Stalls == wizard.stalled
View ==
    IF wizard.page # "connecting" THEN wizard.page
    ELSE IF ~HoldsSetupToken THEN "unavailable"
    ELSE IF org.status = "error" THEN "refused"
    ELSE IF org.status = "pending" THEN "waiting"
    ELSE IF org.deployed THEN "ready"
    ELSE IF org.failed \/ Stalls THEN "failed"
    ELSE "deploying"

\* The credentials page: reached from the start, or by its retry buttons.
OnSetupPage == wizard.page = "setup" \/ View \in {"refused", "failed"}

ReturnTo(page) == wizard' = [wizard EXCEPT !.page = page, !.stalled = FALSE]

\* DEPLOY_STALLED_AFTER_MS
Stall ==
    /\ wizard.page = "connecting" /\ ~wizard.stalled
    /\ wizard' = [wizard EXCEPT !.stalled = TRUE]
    /\ UNCHANGED <<org, trip, entry, staffUsers, grants, joined, console>>

\* The wizard continues in the browser that opens the operator's link.
OpenLink ==
    /\ console.link # 0
    /\ wizard' = [token |-> console.link, page |-> "setup", stalled |-> FALSE]
    /\ UNCHANGED <<org, trip, entry, staffUsers, grants, joined, console>>

-----------------------------------------------------------------------------
(* Saving the Connected App's credentials                                  *)

\* The status is read here, and may have changed when the row is written.
SubmitCredentials(a) ==
    /\ OnSetupPage /\ HoldsSetupToken
    /\ entry = Unset
    /\ org.status # "connected"
    /\ entry' = a
    /\ ReturnTo("setup")
    /\ UNCHANGED <<org, trip, staffUsers, grants, joined, console>>

\* One save at a time: no other writes the key that this one compares with.
WriteCredentials ==
    /\ entry # Unset
    /\ org' = Credentials(entry)
    /\ entry' = Unset
    /\ UNCHANGED <<trip, staffUsers, grants, joined, wizard, console>>

-----------------------------------------------------------------------------
(* The round trip                                                          *)

Goes(h, at) == trip' = [trip EXCEPT ![h].at = at]
Ends(h) == trip' = [trip EXCEPT ![h] = NoTrip]

\* buildAuthorizationUrl stores the OAuth state and sends the browser away.
Authorize(h) ==
    /\ OnSetupPage /\ HoldsSetupToken
    /\ entry = Unset
    /\ org.app # Unset
    /\ trip[h].at = "none"
    /\ Goes(h, "issued")
    /\ UNCHANGED <<org, entry, staffUsers, grants, joined, wizard, console>>

\* A state that Salesforce never brings back runs out.
StateExpires(h) ==
    /\ trip[h].at = "issued"
    /\ Ends(h)
    /\ UNCHANGED <<org, entry, staffUsers, grants, joined, wizard, console>>

\* recordConnectionError, and back to the wizard.
Refuse(h) ==
    /\ org' = NotConnected
    /\ Ends(h)
    /\ ReturnTo("connecting")
    /\ UNCHANGED <<entry, staffUsers, grants, joined, console>>

\* Salesforce brings back a denial instead of a code.
Deny(h) == trip[h].at = "issued" /\ Refuse(h)

\* The callback deletes the state, whatever comes of it, and reads the row.
Arrive(h) ==
    /\ trip[h].at = "issued"
    /\ trip' = [trip EXCEPT ![h] = [@ EXCEPT !.at = "exchange", !.app = org.app, !.seen = org.bound]]
    /\ UNCHANGED <<org, entry, staffUsers, grants, joined, wizard, console>>

\* A tenant connects only the org it is bound to.
AnyOrg(h, u) == TRUE
RightOrg(h, u) == trip[h].seen \in {Unset, OrgOf[u]}

\* Salesforce exchanges the code for the connection of the user who authorized.
Exchange(h) ==
    /\ trip[h].at = "exchange"
    /\ \E u \in Installer :
          /\ RightOrg(h, u)
          /\ trip' = [trip EXCEPT ![h] = [@ EXCEPT !.at = "save", !.user = u]]
    /\ UNCHANGED <<org, entry, staffUsers, grants, joined, wizard, console>>

\* It refuses the code, or the user belongs to the wrong org.
ExchangeRefused(h) == trip[h].at = "exchange" /\ Refuse(h)

SaveConnection(h) ==
    /\ trip[h].at = "save"
    /\ org' = Connected(trip[h].app, OrgOf[trip[h].user])
    /\ trip' = [trip EXCEPT ![h] = [NoTrip EXCEPT !.at = "welcome", !.user = trip[h].user]]
    /\ joined' = joined \cup {OrgOf[trip[h].user]}
    /\ UNCHANGED <<entry, staffUsers, grants, wizard, console>>

\* The user's identity is stored, the deployment starts, the browser returns.
Welcome(h) ==
    /\ trip[h].at = "welcome"
    /\ staffUsers' = staffUsers \cup {trip[h].user}
    /\ Goes(h, "deploy")
    /\ ReturnTo("connecting")
    /\ UNCHANGED <<org, entry, grants, joined, console>>

-----------------------------------------------------------------------------
(* Company_Admin assignments                                               *)

\* A call to Salesforce reaches the org that the company is connected to now,
\* or one it was connected to before, whose access token is still cached.
Reached(o) == o \in joined

\* Only an active assignment grants anything.
Admins(o) == {u \in SfUser : OrgOf[u] = o /\ grants[u] = "active"}

FirstAdmin(u, o) == u \in Admins(o) /\ \A v \in Admins(o) : NameOf[u] <= NameOf[v]

-----------------------------------------------------------------------------
(* The deployment in the background                                        *)

\* The package is deployed; the connecting user then becomes the company's
\* admin, but only while the org that is reached has none.
Deploy(h) ==
    /\ trip[h].at = "deploy"
    /\ \E o \in SfOrg : Reached(o) /\ Goes(h, IF Admins(o) = {} THEN "grant" ELSE "mark")
    /\ UNCHANGED <<org, entry, staffUsers, grants, joined, wizard, console>>

\* The save reaches the user's own org: another refuses the unknown id, and the
\* deployment fails.  Salesforce refuses a second assignment of the same user,
\* active or not; that counts as a success.
GrantAdmin(h) ==
    /\ trip[h].at = "grant"
    /\ Reached(OrgOf[trip[h].user])
    /\ grants' = [grants EXCEPT ![trip[h].user] = IF @ = "none" THEN "active" ELSE @]
    /\ Goes(h, "mark")
    /\ UNCHANGED <<org, entry, staffUsers, joined, wizard, console>>

MarkDeployed(h) ==
    /\ trip[h].at = "mark"
    /\ org' = Deployed
    /\ Ends(h)
    /\ UNCHANGED <<entry, staffUsers, grants, joined, wizard, console>>

\* The package is refused, or a call to Salesforce or Postgres throws.
FailedGrantIsMarked(h) ==
    /\ trip[h].at \in Deployment
    /\ org' = IF trip[h].at = "grant" THEN Deployed ELSE NotDeployed
    /\ Ends(h)
    /\ UNCHANGED <<entry, staffUsers, grants, joined, wizard, console>>

DeployFails(h) ==
    /\ trip[h].at \in Deployment
    /\ org' = NotDeployed
    /\ Ends(h)
    /\ UNCHANGED <<entry, staffUsers, grants, joined, wizard, console>>

\* The process dies, or a write throws where nothing catches it.  The browser
\* gets an error page, and its user goes back.
Vanish(h) ==
    /\ trip[h].at \in Callback \cup Deployment
    /\ Ends(h)
    /\ UNCHANGED <<org, entry, staffUsers, grants, joined, wizard, console>>

-----------------------------------------------------------------------------
(* The end of the setup, and the operator                                  *)

\* completeOnboarding wants a connection, a deployment, and an admin who can
\* sign in; the browser then forgets the setup token.
CanComplete ==
    /\ org.status = "connected" /\ org.token # Unset
    /\ org.deployed
    /\ \E o \in SfOrg, u \in staffUsers : Reached(o) /\ FirstAdmin(u, o)

Complete ==
    /\ View = "ready" /\ HoldsSetupToken
    /\ CanComplete
    /\ wizard' = [wizard EXCEPT !.token = 0, !.page = "done"]
    /\ UNCHANGED <<org, trip, entry, staffUsers, grants, joined, console>>

\* A user of the bound org who has an assignment signs in.
SignIn(u) ==
    /\ org.status = "connected"
    /\ OrgOf[u] = org.bound /\ Reached(OrgOf[u])
    /\ grants[u] = "active"
    /\ staffUsers' = staffUsers \cup {u}
    /\ UNCHANGED <<org, trip, entry, grants, joined, wizard, console>>

\* The operator disconnects the company.  The old setup token is dead at once;
\* the new one is only in the answer.  An answer to a dialog that was closed is lost.
Lose(t) == IF t = 0 THEN console.lost ELSE t
Reconnect ==
    /\ org.setup <= MaxResets
    /\ org' = Disconnected
    /\ console' = [console EXCEPT !.answer = org.setup + 1, !.lost = Lose(console.answer)]
    /\ UNCHANGED <<trip, entry, staffUsers, grants, joined, wizard>>

\* The dialog shows the new link.
NoLinkShown == console.link
LinkShown == console.answer
ShowLink ==
    /\ console.answer # 0
    /\ console' = [console EXCEPT !.link = LinkShown, !.answer = 0]
    /\ UNCHANGED <<org, trip, entry, staffUsers, grants, joined, wizard>>

\* The answer never arrives: the dialog shows an error, and nobody has the token.
LoseAnswer ==
    /\ console.answer # 0
    /\ console' = [console EXCEPT !.answer = 0, !.lost = console.answer]
    /\ UNCHANGED <<org, trip, entry, staffUsers, grants, joined, wizard>>

-----------------------------------------------------------------------------

\* A company that has just been created by the browser that holds its token;
\* its org may hold assignments from an earlier use.
OnboardingInit ==
    /\ org = [app |-> Unset, token |-> Unset, status |-> "pending", failed |-> FALSE,
              bound |-> Unset, deployed |-> FALSE, setup |-> 1]
    /\ trip = [h \in Handshake |-> NoTrip]
    /\ entry = Unset
    /\ staffUsers = {}
    /\ grants \in Earlier
    /\ joined = {}
    /\ wizard = [token |-> 1, page |-> "setup", stalled |-> FALSE]
    /\ console = [link |-> 0, answer |-> 0, lost |-> 0]

TripStep(h) ==
    \/ Authorize(h) \/ StateExpires(h) \/ Deny(h) \/ Arrive(h) \/ Exchange(h) \/ ExchangeRefused(h)
    \/ SaveConnection(h) \/ Welcome(h)
    \/ Deploy(h) \/ GrantAdmin(h) \/ MarkDeployed(h) \/ DeployFails(h) \/ Vanish(h)

OnboardingNext ==
    \/ \E h \in Handshake : TripStep(h)
    \/ \E a \in App : SubmitCredentials(a)
    \/ \E u \in SfUser : SignIn(u)
    \/ WriteCredentials \/ Stall \/ OpenLink \/ Complete
    \/ Reconnect \/ ShowLink \/ LoseAnswer

\* The browser's clock runs.
OnboardingFairness == WF_onboardingVars(Stall)

OnboardingSpec == OnboardingInit /\ [][OnboardingNext]_onboardingVars /\ OnboardingFairness

-----------------------------------------------------------------------------
(* Properties                                                              *)

\* A tenant that is bound to an org is bound to another only by a callback that
\* read the binding before it was made or last changed: authorizing a different
\* org "would silently mix two orgs' ids in one tenant"
\* (onboarding.service.ts:154).
BoundOnce ==
    [][org.bound \notin {Unset, org'.bound} =>
          \E h \in Handshake : trip[h].at = "save" /\ trip[h].seen # org.bound]_onboardingVars

\* A user of an org the company was connected to holds an assignment.
AdminAssigned == \E u \in SfUser : OrgOf[u] \in joined /\ grants[u] # "none"

\* One of them is active, of a user known to the platform.
AdminKnown == \E u \in staffUsers : OrgOf[u] \in joined /\ grants[u] = "active"

\* Setup counts as finished only when somebody can sign in and administer the
\* company (onboarding.service.ts:225).  When the deployment is marked, a user of
\* an org the company was connected to holds a Company_Admin assignment; when the
\* wizard says so, one that is active, of a user known to the platform.  That org
\* is the one the company is bound to, unless overlapping callbacks moved it
\* (BoundOnce), and the assignment is active, unless it was there, switched off,
\* before the company was.
FinishedMeansAdmin ==
    /\ org.deployed => AdminAssigned
    /\ wizard.page = "done" => AdminKnown

\* Until an admin of an org it was connected to is known to the platform, the
\* company's setup can be run again from the wizard or from the operator's link,
\* whatever failed or was disconnected: the token that works is in one of them, or
\* in an answer under way.  Only an answer that was lost leaves nobody with it,
\* until the operator asks again.
SetupNotLost ==
    AdminKnown \/ org.setup \in {wizard.token, console.link, console.answer, console.lost}

\* A user who watches a deployment sees it end, fail, or be declared cut off,
\* although the process that ran it may be gone.
DeploymentIsSettled == View = "deploying" ~> View # "deploying"
=============================================================================
