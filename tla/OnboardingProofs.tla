--------------------------- MODULE OnboardingProofs ---------------------------
(***************************************************************************)
(* Proofs about Onboarding, for any number of handshakes, users, orgs and  *)
(* Connected Apps and any number of reconnects.                            *)
(*                                                                         *)
(* A handshake carries what it has read across awaits, so the invariant    *)
(* says what it may still rely on: who authorized it, that their org was   *)
(* the right one for the binding it saw, that they are known to the        *)
(* platform once it deploys, and that somebody of an org the company was   *)
(* connected to holds an assignment once it only has to mark the           *)
(* deployment.  Orgs joined, users known and assignments never go away.    *)
(***************************************************************************)
EXTENDS Onboarding, TLAPS

TripKeepsPromises(h) ==
    /\ trip[h].at \in {"save", "welcome"} \cup Deployment => trip[h].user \in SfUser
    /\ trip[h].at = "save" => trip[h].seen \in {Unset, OrgOf[trip[h].user]}
    /\ trip[h].at \in Deployment => trip[h].user \in staffUsers
    /\ trip[h].at = "mark" => AdminAssigned

OnboardingIInv ==
    /\ OnboardingTypeOK
    /\ \A h \in Handshake : TripKeepsPromises(h)
    /\ FinishedMeansAdmin
    /\ console.answer \in {0, org.setup}
    /\ org.setup = 1 => console.link = 0 /\ console.answer = 0 /\ (AdminKnown \/ wizard.token = 1)
    /\ org.setup # 1 => org.setup \in {console.link, console.answer, console.lost}

USE OnboardingAssumption

-----------------------------------------------------------------------------
(* The start                                                               *)

LEMMA NoTripIsTrip == NoTrip \in Trip
  BY DEF NoTrip, Trip, Callback, Deployment

\* A company that has just been created satisfies the invariant.
LEMMA InitIInv == OnboardingInit => OnboardingIInv
  BY NoTripIsTrip
  DEF OnboardingInit, OnboardingIInv, OnboardingTypeOK, OrgRow, TripKeepsPromises, NoTrip, Deployment,
      FinishedMeansAdmin, SetupToken, Wizard, Console

-----------------------------------------------------------------------------
(* Steps of the row, of the wizard and of a handshake                      *)

\* The row keeps its type and its setup token, and is not made deployed, by
\* any write but Deployed and Disconnected.
LEMMA RowWrites ==
  ASSUME org \in OrgRow
  PROVE  /\ \A a \in App : Credentials(a) \in OrgRow /\ Credentials(a).setup = org.setup
                           /\ Credentials(a).deployed = org.deployed /\ Credentials(a).bound = org.bound
         /\ \A a \in App \cup {Unset}, o \in SfOrg :
                Connected(a, o) \in OrgRow /\ Connected(a, o).setup = org.setup
                /\ Connected(a, o).deployed = org.deployed /\ Connected(a, o).bound = o
         /\ NotConnected \in OrgRow /\ NotConnected.setup = org.setup /\ NotConnected.deployed = org.deployed
            /\ NotConnected.bound = org.bound
         /\ NotDeployed \in OrgRow /\ NotDeployed.setup = org.setup /\ NotDeployed.deployed = org.deployed
            /\ NotDeployed.bound = org.bound
         /\ Deployed \in OrgRow /\ Deployed.setup = org.setup /\ Deployed.bound = org.bound
  BY DEF OrgRow, Credentials, Connected, NotConnected, NotDeployed, Deployed

\* The operator's reset keeps the row's type, and its token is the next one.
LEMMA ResetWrites ==
  ASSUME org \in OrgRow, org.setup <= MaxResets
  PROVE  /\ Disconnected \in OrgRow /\ Disconnected.setup = org.setup + 1
         /\ Disconnected.deployed = org.deployed /\ Disconnected.bound = org.bound
         /\ org.setup + 1 \in SetupToken /\ org.setup + 1 # 1
  <1>1. org.setup \in 1 .. MaxResets + 1 /\ MaxResets \in Nat BY DEF OrgRow
  <1>2. org.setup + 1 \in 1 .. MaxResets + 1 /\ org.setup + 1 \in 0 .. MaxResets + 1 /\ org.setup + 1 # 1
    BY <1>1
  <1> QED BY <1>1, <1>2 DEF OrgRow, Disconnected, SetupToken

\* Orgs joined, users known and assignments never go away.
Grows ==
    /\ joined \subseteq joined' /\ staffUsers \subseteq staffUsers'
    /\ \A u \in SfUser : grants[u] # "none" => grants'[u] = grants[u]

LEMMA AdminsStay ==
  ASSUME OnboardingTypeOK, Grows
  PROVE  (AdminAssigned => AdminAssigned') /\ (AdminKnown => AdminKnown')
  <1>1. staffUsers \subseteq SfUser BY DEF OnboardingTypeOK
  <1>2. AdminAssigned => AdminAssigned' BY DEF Grows, AdminAssigned
  <1>3. AdminKnown => AdminKnown' BY <1>1 DEF Grows, AdminKnown
  <1> QED BY <1>2, <1>3

LEMMA NothingGrows ==
  ASSUME UNCHANGED <<staffUsers, grants, joined>>
  PROVE  Grows /\ (AdminAssigned <=> AdminAssigned') /\ (AdminKnown <=> AdminKnown')
  BY DEF Grows, AdminAssigned, AdminKnown

\* What a step of handshake h has to show of trip', given what it does to the
\* rest: another handshake's promises are kept.
LEMMA OthersKeepPromises ==
  ASSUME OnboardingIInv, NEW h \in Handshake, NEW t \in Trip,
         trip' = [trip EXCEPT ![h] = t],
         Grows, TripKeepsPromises(h)'
  PROVE  /\ trip' \in [Handshake -> Trip]
         /\ \A g \in Handshake : TripKeepsPromises(g)'
  <1>1. trip' \in [Handshake -> Trip]
    BY DEF OnboardingIInv, OnboardingTypeOK
  <1>2. ASSUME NEW g \in Handshake, g # h PROVE TripKeepsPromises(g)'
    <2>1. trip'[g] = trip[g] BY <1>2 DEF OnboardingIInv, OnboardingTypeOK
    <2>2. TripKeepsPromises(g) BY DEF OnboardingIInv
    <2>3. AdminAssigned => AdminAssigned' BY AdminsStay DEF OnboardingIInv
    <2> QED BY <2>1, <2>2, <2>3 DEF TripKeepsPromises, Grows
  <1> QED BY <1>1, <1>2

\* A handshake that has ended promises nothing.
LEMMA EndedTrip ==
  ASSUME OnboardingIInv, NEW h \in Handshake, Ends(h)
  PROVE  trip'[h] = NoTrip /\ TripKeepsPromises(h)'
  <1>1. trip'[h] = NoTrip BY DEF Ends, OnboardingIInv, OnboardingTypeOK
  <1> QED BY <1>1 DEF TripKeepsPromises, NoTrip, Deployment

\* When a handshake ends, all promises are kept.
LEMMA EndedTrips ==
  ASSUME OnboardingIInv, NEW h \in Handshake, Ends(h), Grows
  PROVE  /\ trip' \in [Handshake -> Trip]
         /\ \A g \in Handshake : TripKeepsPromises(g)'
  BY EndedTrip, OthersKeepPromises, NoTripIsTrip DEF Ends

\* What a step shows that leaves the console, the setup token and the wizard's
\* copy of it alone.
LEMMA QuietStep ==
  ASSUME OnboardingIInv, OnboardingTypeOK', \A g \in Handshake : TripKeepsPromises(g)', Grows,
         UNCHANGED console, org'.setup = org.setup, org'.deployed => org.deployed \/ AdminAssigned,
         wizard'.token = wizard.token, wizard'.page = "done" => wizard.page = "done"
  PROVE  OnboardingIInv'
  <1>1. (AdminAssigned => AdminAssigned') /\ (AdminKnown => AdminKnown')
    BY AdminsStay DEF OnboardingIInv
  <1>2. FinishedMeansAdmin' BY <1>1 DEF OnboardingIInv, FinishedMeansAdmin
  <1> QED BY <1>1, <1>2 DEF OnboardingIInv

-----------------------------------------------------------------------------
(* Every step keeps the invariant                                          *)

\* A step of one handshake keeps it.
LEMMA TripStepKeepsIInv ==
  ASSUME OnboardingIInv, NEW h \in Handshake, TripStep(h)
  PROVE  OnboardingIInv'
  <1>h. trip[h] \in Trip /\ TripKeepsPromises(h) /\ org \in OrgRow /\ OnboardingTypeOK
    BY DEF OnboardingIInv, OnboardingTypeOK
  <1>1. CASE Authorize(h)
    <2> DEFINE t == [trip[h] EXCEPT !.at = "issued"]
    <2>1. t \in Trip BY <1>h DEF Trip
    <2>2. trip' = [trip EXCEPT ![h] = t] /\ trip'[h] = t BY <1>1, <1>h DEF Authorize, Goes, OnboardingTypeOK
    <2>3. TripKeepsPromises(h)' BY <2>2, <1>h DEF TripKeepsPromises, Deployment, Trip
    <2>4. Grows BY <1>1, NothingGrows DEF Authorize
    <2>5. trip' \in [Handshake -> Trip] /\ \A g \in Handshake : TripKeepsPromises(g)'
      BY <2>1, <2>2, <2>3, <2>4, OthersKeepPromises
    <2>6. OnboardingTypeOK' BY <1>1, <1>h, <2>5 DEF Authorize, OnboardingTypeOK
    <2> QED BY <1>1, <2>4, <2>5, <2>6, QuietStep DEF Authorize
  <1>2. CASE StateExpires(h) \/ Vanish(h)
    <2>1. Grows BY <1>2, NothingGrows DEF StateExpires, Vanish
    <2>2. trip' \in [Handshake -> Trip] /\ \A g \in Handshake : TripKeepsPromises(g)'
      BY <1>2, <2>1, EndedTrips DEF StateExpires, Vanish
    <2>3. OnboardingTypeOK' BY <1>2, <1>h, <2>2 DEF StateExpires, Vanish, OnboardingTypeOK
    <2> QED BY <1>2, <2>1, <2>2, <2>3, QuietStep DEF StateExpires, Vanish
  <1>3. CASE Deny(h) \/ ExchangeRefused(h)
    <2>1. Refuse(h) BY <1>3 DEF Deny, ExchangeRefused
    <2>2. Grows BY <2>1, NothingGrows DEF Refuse
    <2>3. trip' \in [Handshake -> Trip] /\ \A g \in Handshake : TripKeepsPromises(g)'
      BY <2>1, <2>2, EndedTrips DEF Refuse
    <2>4. org' \in OrgRow /\ org'.setup = org.setup /\ org'.deployed = org.deployed
      BY <2>1, <1>h, RowWrites DEF Refuse
    <2>5. wizard' \in Wizard /\ wizard'.token = wizard.token /\ wizard'.page = "connecting"
      BY <2>1, <1>h DEF Refuse, ReturnTo, OnboardingTypeOK, Wizard
    <2>6. OnboardingTypeOK' BY <2>1, <1>h, <2>3, <2>4, <2>5 DEF Refuse, OnboardingTypeOK
    <2> QED BY <2>1, <2>2, <2>3, <2>4, <2>5, <2>6, QuietStep DEF Refuse
  <1>4. CASE Arrive(h)
    <2> DEFINE t == [trip[h] EXCEPT !.at = "exchange", !.app = org.app, !.seen = org.bound]
    <2>1. t \in Trip BY <1>h DEF Trip, OrgRow, Callback
    <2>2. trip' = [trip EXCEPT ![h] = t] /\ trip'[h] = t BY <1>4, <1>h DEF Arrive, OnboardingTypeOK
    <2>3. TripKeepsPromises(h)'
      <3>1. trip'[h].at = "exchange" BY <2>2, <1>h DEF Trip
      <3> QED BY <3>1 DEF TripKeepsPromises, Deployment
    <2>4. Grows BY <1>4, NothingGrows DEF Arrive
    <2>5. trip' \in [Handshake -> Trip] /\ \A g \in Handshake : TripKeepsPromises(g)'
      BY <2>1, <2>2, <2>3, <2>4, OthersKeepPromises
    <2>6. OnboardingTypeOK' BY <1>4, <1>h, <2>5 DEF Arrive, OnboardingTypeOK
    <2> QED BY <1>4, <2>4, <2>5, <2>6, QuietStep DEF Arrive
  <1>5. CASE Exchange(h)
    <2>1. PICK u \in Installer : RightOrg(h, u) /\ trip' = [trip EXCEPT ![h] = [@ EXCEPT !.at = "save", !.user = u]]
      BY <1>5 DEF Exchange
    <2> DEFINE t == [trip[h] EXCEPT !.at = "save", !.user = u]
    <2>2. u \in SfUser OBVIOUS
    <2>3. t \in Trip /\ t.at = "save" /\ t.user = u /\ t.seen = trip[h].seen BY <1>h, <2>2 DEF Trip, Callback
    <2>4. trip' = [trip EXCEPT ![h] = t] /\ trip'[h] = t BY <2>1, <1>h DEF OnboardingTypeOK
    <2>5. TripKeepsPromises(h)' BY <2>1, <2>2, <2>3, <2>4 DEF TripKeepsPromises, Deployment, RightOrg
    <2>6. Grows BY <1>5, NothingGrows DEF Exchange
    <2>7. trip' \in [Handshake -> Trip] /\ \A g \in Handshake : TripKeepsPromises(g)'
      BY <2>3, <2>4, <2>5, <2>6, OthersKeepPromises
    <2>8. OnboardingTypeOK' BY <1>5, <1>h, <2>7 DEF Exchange, OnboardingTypeOK
    <2> QED BY <1>5, <2>6, <2>7, <2>8, QuietStep DEF Exchange
  <1>6. CASE SaveConnection(h)
    <2> DEFINE t == [NoTrip EXCEPT !.at = "welcome", !.user = trip[h].user]
    <2>1. trip[h].user \in SfUser /\ trip[h].app \in App \cup {Unset}
      BY <1>6, <1>h DEF SaveConnection, TripKeepsPromises, Trip
    <2>2. t \in Trip /\ t.at = "welcome" /\ t.user = trip[h].user BY <2>1 DEF Trip, NoTrip, Callback
    <2>3. trip' = [trip EXCEPT ![h] = t] /\ trip'[h] = t BY <1>6, <1>h DEF SaveConnection, OnboardingTypeOK
    <2>4. TripKeepsPromises(h)' BY <2>1, <2>2, <2>3 DEF TripKeepsPromises, Deployment
    <2>5. Grows BY <1>6 DEF SaveConnection, Grows
    <2>6. trip' \in [Handshake -> Trip] /\ \A g \in Handshake : TripKeepsPromises(g)'
      BY <2>2, <2>3, <2>4, <2>5, OthersKeepPromises
    <2>7. OrgOf[trip[h].user] \in SfOrg BY <2>1
    <2>8. org' \in OrgRow /\ org'.setup = org.setup /\ org'.deployed = org.deployed
      BY <1>6, <1>h, <2>1, <2>7, RowWrites DEF SaveConnection
    <2>9. OnboardingTypeOK' BY <1>6, <1>h, <2>6, <2>7, <2>8 DEF SaveConnection, OnboardingTypeOK
    <2> QED BY <1>6, <2>5, <2>6, <2>8, <2>9, QuietStep DEF SaveConnection
  <1>7. CASE Welcome(h)
    <2> DEFINE t == [trip[h] EXCEPT !.at = "deploy"]
    <2>1. trip[h].user \in SfUser BY <1>7, <1>h DEF Welcome, TripKeepsPromises
    <2>2. t \in Trip /\ t.at = "deploy" /\ t.user = trip[h].user BY <1>h DEF Trip, Deployment
    <2>3. trip' = [trip EXCEPT ![h] = t] /\ trip'[h] = t BY <1>7, <1>h DEF Welcome, Goes, OnboardingTypeOK
    <2>4. trip[h].user \in staffUsers' /\ Grows BY <1>7 DEF Welcome, Grows
    <2>5. TripKeepsPromises(h)' BY <2>1, <2>2, <2>3, <2>4 DEF TripKeepsPromises, Deployment
    <2>6. trip' \in [Handshake -> Trip] /\ \A g \in Handshake : TripKeepsPromises(g)'
      BY <2>2, <2>3, <2>4, <2>5, OthersKeepPromises
    <2>7. wizard' \in Wizard /\ wizard'.token = wizard.token /\ wizard'.page = "connecting"
      BY <1>7, <1>h DEF Welcome, ReturnTo, OnboardingTypeOK, Wizard
    <2>8. OnboardingTypeOK' BY <1>7, <1>h, <2>1, <2>6, <2>7 DEF Welcome, OnboardingTypeOK
    <2> QED BY <1>7, <2>4, <2>6, <2>7, <2>8, QuietStep DEF Welcome
  <1>8. CASE Deploy(h)
    <2>1. PICK o \in SfOrg : Reached(o) /\ Goes(h, IF Admins(o) = {} THEN "grant" ELSE "mark")
      BY <1>8 DEF Deploy
    <2> DEFINE t == [trip[h] EXCEPT !.at = IF Admins(o) = {} THEN "grant" ELSE "mark"]
    <2>2. Admins(o) # {} => AdminAssigned BY <2>1 DEF Admins, Reached, AdminAssigned
    <2>3. t \in Trip /\ t.user = trip[h].user /\ t.at \in {"grant", "mark"} /\ (t.at = "mark" => Admins(o) # {})
      BY <1>h DEF Trip, Deployment
    <2>4. trip' = [trip EXCEPT ![h] = t] /\ trip'[h] = t BY <2>1, <1>h DEF Goes, OnboardingTypeOK
    <2>5. trip[h].user \in SfUser /\ trip[h].user \in staffUsers
      BY <1>8, <1>h DEF Deploy, TripKeepsPromises, Deployment
    <2>6. Grows /\ (AdminAssigned => AdminAssigned') BY <1>8, NothingGrows DEF Deploy
    <2>7. staffUsers' = staffUsers BY <1>8 DEF Deploy
    <2>8. TripKeepsPromises(h)'
      <3>1. trip'[h].user = trip[h].user /\ trip'[h].at \in {"grant", "mark"} BY <2>3, <2>4
      <3>2. trip'[h].at = "mark" => AdminAssigned' BY <2>2, <2>3, <2>4, <2>6
      <3> QED BY <2>5, <2>7, <3>1, <3>2 DEF TripKeepsPromises
    <2>9. trip' \in [Handshake -> Trip] /\ \A g \in Handshake : TripKeepsPromises(g)'
      BY <2>3, <2>4, <2>6, <2>8, OthersKeepPromises
    <2>10. OnboardingTypeOK' BY <1>8, <1>h, <2>9 DEF Deploy, OnboardingTypeOK
    <2> QED BY <1>8, <2>6, <2>9, <2>10, QuietStep DEF Deploy
  <1>9. CASE GrantAdmin(h)
    <2> DEFINE u == trip[h].user
               t == [trip[h] EXCEPT !.at = "mark"]
    <2>1. t \in Trip /\ t.at = "mark" /\ t.user = u BY <1>h DEF Trip, Deployment
    <2>2. trip' = [trip EXCEPT ![h] = t] /\ trip'[h] = t BY <1>9, <1>h DEF GrantAdmin, Goes, OnboardingTypeOK
    <2>3. u \in SfUser /\ u \in staffUsers BY <1>9, <1>h DEF GrantAdmin, TripKeepsPromises, Deployment
    <2>4. /\ grants' \in [SfUser -> {"none", "active", "inactive"}]
          /\ grants'[u] # "none" /\ \A v \in SfUser : grants[v] # "none" => grants'[v] = grants[v]
      BY <1>9, <1>h, <2>3 DEF GrantAdmin, OnboardingTypeOK
    <2>5. staffUsers' = staffUsers /\ joined' = joined /\ OrgOf[u] \in joined BY <1>9 DEF GrantAdmin, Reached
    <2>6. Grows BY <2>4, <2>5 DEF Grows
    <2>7. AdminAssigned' BY <2>3, <2>4, <2>5 DEF AdminAssigned
    <2>8. TripKeepsPromises(h)'
      <3>1. trip'[h].user = u /\ trip'[h].at = "mark" BY <2>1, <2>2
      <3> QED BY <2>3, <2>5, <2>7, <3>1 DEF TripKeepsPromises
    <2>9. trip' \in [Handshake -> Trip] /\ \A g \in Handshake : TripKeepsPromises(g)'
      BY <2>1, <2>2, <2>6, <2>8, OthersKeepPromises
    <2>10. OnboardingTypeOK' BY <1>9, <1>h, <2>4, <2>9 DEF GrantAdmin, OnboardingTypeOK
    <2> QED BY <1>9, <2>6, <2>9, <2>10, QuietStep DEF GrantAdmin
  <1>10. CASE MarkDeployed(h)
    <2>1. AdminAssigned BY <1>10, <1>h DEF MarkDeployed, TripKeepsPromises
    <2>2. Grows BY <1>10, NothingGrows DEF MarkDeployed
    <2>3. trip' \in [Handshake -> Trip] /\ \A g \in Handshake : TripKeepsPromises(g)'
      BY <1>10, <2>2, EndedTrips DEF MarkDeployed
    <2>4. org' \in OrgRow /\ org'.setup = org.setup BY <1>10, <1>h, RowWrites DEF MarkDeployed
    <2>5. OnboardingTypeOK' BY <1>10, <1>h, <2>3, <2>4 DEF MarkDeployed, OnboardingTypeOK
    <2> QED BY <1>10, <2>1, <2>2, <2>3, <2>4, <2>5, QuietStep DEF MarkDeployed
  <1>11. CASE DeployFails(h)
    <2>1. Grows BY <1>11, NothingGrows DEF DeployFails
    <2>2. trip' \in [Handshake -> Trip] /\ \A g \in Handshake : TripKeepsPromises(g)'
      BY <1>11, <2>1, EndedTrips DEF DeployFails
    <2>3. org' \in OrgRow /\ org'.setup = org.setup /\ org'.deployed = org.deployed
      BY <1>11, <1>h, RowWrites DEF DeployFails
    <2>4. OnboardingTypeOK' BY <1>11, <1>h, <2>2, <2>3 DEF DeployFails, OnboardingTypeOK
    <2> QED BY <1>11, <2>1, <2>2, <2>3, <2>4, QuietStep DEF DeployFails
  <1> QED
    BY <1>1, <1>2, <1>3, <1>4, <1>5, <1>6, <1>7, <1>8, <1>9, <1>10, <1>11 DEF TripStep

\* A step that leaves the handshakes alone keeps what is known of them.
LEMMA TripsUnchanged ==
  ASSUME OnboardingIInv, UNCHANGED trip, Grows
  PROVE  \A h \in Handshake : TripKeepsPromises(h)'
  <1>1. AdminAssigned => AdminAssigned' BY AdminsStay DEF OnboardingIInv
  <1> QED BY <1>1 DEF OnboardingIInv, TripKeepsPromises, Grows

\* A step of the wizard, of a save or of a sign-in keeps the invariant.
LEMMA WizardStepKeepsIInv ==
  ASSUME OnboardingIInv,
         \/ \E a \in App : SubmitCredentials(a)
         \/ \E u \in SfUser : SignIn(u)
         \/ WriteCredentials \/ Stall \/ OpenLink \/ Complete
  PROVE  OnboardingIInv'
  <1>h. org \in OrgRow /\ OnboardingTypeOK BY DEF OnboardingIInv, OnboardingTypeOK
  <1>0. Grows /\ UNCHANGED <<trip, console>>
    <2>1. CASE \E u \in SfUser : SignIn(u) BY <2>1 DEF SignIn, Grows
    <2> QED BY <2>1, NothingGrows DEF SubmitCredentials, WriteCredentials, Stall, OpenLink, Complete
  <1>t. \A h \in Handshake : TripKeepsPromises(h)' BY <1>0, TripsUnchanged
  <1>1. CASE \E a \in App : SubmitCredentials(a)
    <2>1. PICK a \in App : SubmitCredentials(a) BY <1>1
    <2>2. wizard' \in Wizard /\ wizard'.token = wizard.token /\ wizard'.page = "setup"
      BY <2>1, <1>h DEF SubmitCredentials, ReturnTo, OnboardingTypeOK, Wizard
    <2>3. OnboardingTypeOK' BY <2>1, <2>2, <1>h DEF SubmitCredentials, OnboardingTypeOK
    <2> QED BY <2>1, <2>2, <2>3, <1>0, <1>t, QuietStep DEF SubmitCredentials
  <1>2. CASE \E u \in SfUser : SignIn(u)
    <2>1. OnboardingTypeOK' BY <1>2, <1>h DEF SignIn, OnboardingTypeOK
    <2> QED BY <1>2, <2>1, <1>0, <1>t, QuietStep DEF SignIn
  <1>3. CASE WriteCredentials
    <2>1. org' \in OrgRow /\ org'.setup = org.setup /\ org'.deployed = org.deployed
      BY <1>3, <1>h, RowWrites DEF WriteCredentials, OnboardingTypeOK
    <2>2. OnboardingTypeOK' BY <1>3, <2>1, <1>h DEF WriteCredentials, OnboardingTypeOK
    <2> QED BY <1>3, <2>1, <2>2, <1>0, <1>t, QuietStep DEF WriteCredentials
  <1>4. CASE Stall
    <2>1. wizard' \in Wizard /\ wizard'.token = wizard.token /\ wizard'.page = wizard.page
      BY <1>4, <1>h DEF Stall, OnboardingTypeOK, Wizard
    <2>2. OnboardingTypeOK' BY <1>4, <2>1, <1>h DEF Stall, OnboardingTypeOK
    <2> QED BY <1>4, <2>1, <2>2, <1>0, <1>t, QuietStep DEF Stall
  <1>5. CASE OpenLink
    <2>1. org.setup # 1 BY <1>5 DEF OpenLink, OnboardingIInv
    <2>2. wizard' \in Wizard /\ wizard'.page = "setup"
      BY <1>5, <1>h DEF OpenLink, OnboardingTypeOK, Wizard, Console
    <2>3. OnboardingTypeOK' BY <1>5, <2>2, <1>h DEF OpenLink, OnboardingTypeOK
    <2>4. FinishedMeansAdmin'
      BY <1>5, <2>2, NothingGrows DEF OpenLink, OnboardingIInv, FinishedMeansAdmin
    <2> QED BY <1>5, <2>1, <2>3, <2>4, <1>t DEF OpenLink, OnboardingIInv
  <1>6. CASE Complete
    <2>1. AdminKnown BY <1>6 DEF Complete, CanComplete, FirstAdmin, Admins, Reached, AdminKnown
    <2>2. AdminKnown' BY <2>1, <1>0, <1>h, AdminsStay
    <2>3. wizard' \in Wizard
      <3>1. 0 \in SetupToken BY DEF SetupToken
      <3> QED BY <1>6, <1>h, <3>1 DEF Complete, OnboardingTypeOK, Wizard
    <2>4. OnboardingTypeOK' BY <1>6, <2>3, <1>h DEF Complete, OnboardingTypeOK
    <2>5. FinishedMeansAdmin'
      BY <1>6, <2>2, NothingGrows DEF Complete, OnboardingIInv, FinishedMeansAdmin
    <2> QED BY <1>6, <2>2, <2>4, <2>5, <1>t DEF Complete, OnboardingIInv
  <1> QED BY <1>1, <1>2, <1>3, <1>4, <1>5, <1>6

\* A step of the operator's console keeps the invariant.
LEMMA ConsoleStepKeepsIInv ==
  ASSUME OnboardingIInv, Reconnect \/ ShowLink \/ LoseAnswer
  PROVE  OnboardingIInv'
  <1>h. org \in OrgRow /\ console \in Console /\ OnboardingTypeOK BY DEF OnboardingIInv, OnboardingTypeOK
  <1>0. UNCHANGED <<trip, staffUsers, grants, joined, wizard>> BY DEF Reconnect, ShowLink, LoseAnswer
  <1>g. Grows /\ (AdminAssigned <=> AdminAssigned') /\ (AdminKnown <=> AdminKnown') BY <1>0, NothingGrows
  <1>t. \A h \in Handshake : TripKeepsPromises(h)' BY <1>0, <1>g, TripsUnchanged
  <1>1. CASE Reconnect
    <2>1. /\ org' \in OrgRow /\ org'.setup = org.setup + 1 /\ org'.deployed = org.deployed
          /\ org.setup + 1 \in SetupToken /\ org'.setup # 1
      BY <1>1, <1>h, ResetWrites DEF Reconnect
    <2>2. Lose(console.answer) \in SetupToken BY <1>h DEF Lose, Console
    <2>3. console' \in Console /\ console'.answer = org'.setup
      BY <1>1, <1>h, <2>1, <2>2 DEF Reconnect, Console
    <2>4. OnboardingTypeOK' BY <1>0, <1>1, <2>1, <2>3, <1>h DEF Reconnect, OnboardingTypeOK
    <2>5. FinishedMeansAdmin' BY <1>0, <1>g, <2>1 DEF OnboardingIInv, FinishedMeansAdmin
    <2> QED BY <2>1, <2>3, <2>4, <2>5, <1>t DEF OnboardingIInv
  <1>2. CASE ShowLink \/ LoseAnswer
    <2>1. console.answer = org.setup /\ org.setup # 0 /\ org' = org
      BY <1>2, <1>h DEF ShowLink, LoseAnswer, OnboardingIInv, OrgRow
    <2>2. /\ console' \in Console /\ console'.answer = 0
          /\ org.setup \in {console'.link, console'.lost}
          /\ console'.link = console.link \/ ShowLink
      <3>1. 0 \in SetupToken BY DEF SetupToken
      <3>2. CASE ShowLink BY <3>1, <3>2, <1>h, <2>1 DEF ShowLink, LinkShown, Console
      <3>3. CASE LoseAnswer BY <3>1, <3>3, <1>h, <2>1 DEF LoseAnswer, Console
      <3> QED BY <1>2, <3>2, <3>3
    <2>3. OnboardingTypeOK' BY <1>0, <1>2, <2>1, <2>2, <1>h DEF ShowLink, LoseAnswer, OnboardingTypeOK
    <2>4. FinishedMeansAdmin' BY <1>0, <1>g, <2>1 DEF OnboardingIInv, FinishedMeansAdmin
    <2>5. org.setup # 1 BY <1>2, <2>1 DEF ShowLink, LoseAnswer, OnboardingIInv
    <2> QED BY <2>1, <2>2, <2>3, <2>4, <2>5, <1>t DEF OnboardingIInv
  <1> QED BY <1>1, <1>2

\* Every step keeps the invariant.
LEMMA NextKeepsIInv == OnboardingIInv /\ [OnboardingNext]_onboardingVars => OnboardingIInv'
  <1> SUFFICES ASSUME OnboardingIInv, [OnboardingNext]_onboardingVars PROVE OnboardingIInv'
    OBVIOUS
  <1>1. CASE \E h \in Handshake : TripStep(h) BY <1>1, TripStepKeepsIInv
  <1>2. CASE \/ \E a \in App : SubmitCredentials(a)
             \/ \E u \in SfUser : SignIn(u)
             \/ WriteCredentials \/ Stall \/ OpenLink \/ Complete
    BY <1>2, WizardStepKeepsIInv
  <1>3. CASE Reconnect \/ ShowLink \/ LoseAnswer BY <1>3, ConsoleStepKeepsIInv
  <1>4. CASE UNCHANGED onboardingVars
    BY <1>4 DEF onboardingVars, OnboardingIInv, OnboardingTypeOK, TripKeepsPromises, FinishedMeansAdmin,
                AdminAssigned, AdminKnown
  <1> QED BY <1>1, <1>2, <1>3, <1>4 DEF OnboardingNext

-----------------------------------------------------------------------------
(* Theorems                                                                *)

\* The invariant holds in every reachable state, whatever fails, expires or is
\* reset, and however many handshakes run at once.
THEOREM OnboardingInvariant == OnboardingSpec => []OnboardingIInv
  <1>1. OnboardingInit => OnboardingIInv BY InitIInv
  <1>2. OnboardingIInv /\ [OnboardingNext]_onboardingVars => OnboardingIInv' BY NextKeepsIInv
  <1> QED BY <1>1, <1>2, PTL DEF OnboardingSpec

\* Setup is never reported as finished before an org that the company was
\* connected to has a Company_Admin (OnboardingService.getSetupStatus), nor by the
\* wizard before that admin is known to the platform (completeOnboarding), though
\* the org may have been used before and callbacks may overlap.
THEOREM FinishedMeansAdminTheorem == OnboardingSpec => []FinishedMeansAdmin
  <1>1. OnboardingIInv => FinishedMeansAdmin BY DEF OnboardingIInv, FinishedMeansAdmin
  <1> QED BY <1>1, OnboardingInvariant, PTL

\* While no admin is known, the setup token that works is in the wizard, in the
\* operator's link or in an answer under way, unless that answer was lost
\* (PlatformService.reconnect).
THEOREM SetupNotLostTheorem == OnboardingSpec => []SetupNotLost
  <1>1. OnboardingIInv => SetupNotLost BY DEF OnboardingIInv, SetupNotLost
  <1> QED BY <1>1, OnboardingInvariant, PTL

\* Only SaveConnection changes the org a company is bound to.
LEMMA BindingChanges ==
  ASSUME OnboardingIInv, [OnboardingNext]_onboardingVars, org'.bound # org.bound
  PROVE  \E h \in Handshake : SaveConnection(h)
  <1>1. org \in OrgRow BY DEF OnboardingIInv, OnboardingTypeOK
  <1>2. entry \in App \cup {Unset} BY DEF OnboardingIInv, OnboardingTypeOK
  <1>3. CASE \E h \in Handshake : TripStep(h)
    <2>1. PICK h \in Handshake : TripStep(h) BY <1>3
    <2>2. ~(Authorize(h) \/ StateExpires(h) \/ Arrive(h) \/ Exchange(h) \/ Welcome(h) \/ Deploy(h) \/ GrantAdmin(h) \/ Vanish(h))
      BY DEF Authorize, StateExpires, Arrive, Exchange, Welcome, Deploy, GrantAdmin, Vanish
    <2>3. ~(Deny(h) \/ ExchangeRefused(h)) BY <1>1, RowWrites DEF Deny, ExchangeRefused, Refuse
    <2>4. ~(MarkDeployed(h) \/ DeployFails(h)) BY <1>1, RowWrites DEF MarkDeployed, DeployFails
    <2> QED BY <2>1, <2>2, <2>3, <2>4 DEF TripStep
  <1>4. ~(\E a \in App : SubmitCredentials(a)) BY DEF SubmitCredentials
  <1>5. ~WriteCredentials BY <1>1, <1>2, RowWrites DEF WriteCredentials
  <1>6. ~(Stall \/ OpenLink \/ Complete \/ ShowLink \/ LoseAnswer \/ \E u \in SfUser : SignIn(u))
    BY DEF Stall, OpenLink, Complete, ShowLink, LoseAnswer, SignIn
  <1>7. ~Reconnect BY <1>1, ResetWrites DEF Reconnect
  <1>8. ~UNCHANGED onboardingVars BY DEF onboardingVars
  <1> QED BY <1>3, <1>4, <1>5, <1>6, <1>7, <1>8 DEF OnboardingNext

\* One tenant, one org (OnboardingService.handleCallback): a company is bound to
\* another org only by a callback that had not seen the present binding.
THEOREM BoundOnceTheorem == OnboardingSpec => BoundOnce
  <1> DEFINE Rebinds == org.bound \notin {Unset, org'.bound}
             Unseen == \E h \in Handshake : trip[h].at = "save" /\ trip[h].seen # org.bound
  <1>1. OnboardingIInv /\ [OnboardingNext]_onboardingVars => [Rebinds => Unseen]_onboardingVars
    <2> SUFFICES ASSUME OnboardingIInv, [OnboardingNext]_onboardingVars, Rebinds PROVE Unseen
      OBVIOUS
    <2>1. PICK h \in Handshake : SaveConnection(h) BY BindingChanges
    <2>2. trip[h] \in Trip /\ TripKeepsPromises(h) /\ org \in OrgRow BY DEF OnboardingIInv, OnboardingTypeOK
    <2>3. trip[h].at = "save" /\ trip[h].user \in SfUser /\ trip[h].app \in App \cup {Unset}
          /\ trip[h].seen \in {Unset, OrgOf[trip[h].user]}
      BY <2>1, <2>2 DEF SaveConnection, TripKeepsPromises, Trip
    <2>4. OrgOf[trip[h].user] \in SfOrg BY <2>3
    <2>5. org'.bound = OrgOf[trip[h].user] BY <2>1, <2>2, <2>3, <2>4, RowWrites DEF SaveConnection
    <2>6. trip[h].seen # org.bound BY <2>3, <2>5
    <2> QED BY <2>3, <2>6
  <1> QED BY <1>1, OnboardingInvariant, PTL DEF OnboardingSpec, BoundOnce
=============================================================================
