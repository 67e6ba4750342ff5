-------------------------------- MODULE Portal --------------------------------
(***************************************************************************)
(* What customers and staff see: sessions, the papers of a drive and the   *)
(* survey after it, the schedule, the brand of the sites, what the pages   *)
(* offer, what the dashboard counts and what an edit stores.  They share   *)
(* no state, so they are run side by side: a behaviour is one of `part',   *)
(* and the states of the parts add up where a product would multiply them. *)
(* The sessions of customers and of staff are parts of their own: they     *)
(* share no state either.                                                  *)
(***************************************************************************)
EXTENDS Sessions, Paperwork, Survey, Dashboard, Branding, Console, Records

VARIABLE part

portalVars == <<sessionVars, paperVars, surveyVars, plan, brandingVars, question, report, edit, part>>

PortalInit ==
    /\ SessionsInit /\ PaperworkInit /\ SurveyInit /\ ScheduleInit /\ BrandingInit /\ AccessInit
    /\ DashboardInit /\ RecordsInit
    /\ part \in {"customer", "staff", "papers", "survey", "schedule", "branding", "access", "dashboard", "records"}

PortalNext ==
    \/ /\ \/ part = "customer" /\ CustomerStep
          \/ part = "staff" /\ StaffStep
          \/ \E c \in Call : CallStep(c)
       /\ UNCHANGED <<paperVars, surveyVars, plan, brandingVars, question, report, edit, part>>
    \/ part = "papers" /\ PaperworkNext /\ UNCHANGED <<sessionVars, surveyVars, plan, brandingVars, question, report, edit, part>>
    \/ part = "survey" /\ SurveyNext /\ UNCHANGED <<sessionVars, paperVars, plan, brandingVars, question, report, edit, part>>
    \/ part = "schedule" /\ ScheduleNext /\ UNCHANGED <<sessionVars, paperVars, surveyVars, brandingVars, question, report, edit, part>>
    \/ part = "branding" /\ BrandingNext /\ UNCHANGED <<sessionVars, paperVars, surveyVars, plan, question, report, edit, part>>
    \/ part = "access" /\ ConsoleNext /\ UNCHANGED <<sessionVars, paperVars, surveyVars, plan, brandingVars, report, edit, part>>
    \/ /\ \/ part = "dashboard" /\ DashboardNext /\ edit' = edit
          \/ part = "records" /\ RecordsNext /\ report' = report
       /\ UNCHANGED <<sessionVars, paperVars, surveyVars, plan, brandingVars, question, part>>

PortalSpec == PortalInit /\ [][PortalNext]_portalVars

\* Types of the components that have state.
PortalTypeOK == SessionsTypeOK /\ PaperworkTypeOK /\ SurveyTypeOK /\ BrandingTypeOK
=============================================================================
