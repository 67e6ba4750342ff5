-------------------------------- MODULE Survey --------------------------------
(***************************************************************************)
(* The survey after a drive, which makes a Lead and an Opportunity of a    *)
(* strong intent to buy.  Its handler holds the booking's survey lock; it  *)
(* asks, stores and sells in separate calls to Salesforce, any of which    *)
(* may fail, and the last of which is repeated as a whole when the session *)
(* is rejected.                                                            *)
(*                                                                         *)
(* Sources: apps/api/src/bookings/bookings.service.ts (submitSurvey),      *)
(* packages/domain/src/entities/booking.ts (DriveFeedback),                *)
(* integrations/postgres/src/exclusive-lock.ts and                         *)
(* integrations/salesforce/src (repositories/booking, /opportunity, soql). *)
(***************************************************************************)
EXTENDS Naturals

CONSTANTS
    Survey,     \* submissions of the survey
    NoSurvey    \* nobody holding the lock

ASSUME SurveyAssumption == NoSurvey \notin Survey

VARIABLES
    ridden,     \* whether the drive has been completed
    surveys,    \* where each survey's handler is
    desk,       \* the survey that holds the lock, if any
    answers, leads, opportunities,  \* how many records of each kind there are
    expired     \* history: the lock was lost before its holder was done

surveyVars == <<ridden, surveys, desk, answers, leads, opportunities, expired>>

-----------------------------------------------------------------------------

Surveying(v, at) == surveys' = [surveys EXCEPT ![v].at = at]
\* The end of a handler, which ends its transaction and the lock with it
Closes(v) == desk' = IF desk = v THEN NoSurvey ELSE desk

SubmitSurvey(v) ==
    /\ ridden /\ surveys[v].at = "unsent"
    /\ Surveying(v, "wait")
    /\ UNCHANGED <<ridden, desk, answers, leads, opportunities, expired>>

Acquire(v) ==
    /\ surveys[v].at = "wait" /\ desk = NoSurvey
    /\ desk' = v
    /\ Surveying(v, "ask")
    /\ UNCHANGED <<ridden, answers, leads, opportunities, expired>>

AskAnswered(v) ==
    /\ surveys[v].at = "ask"
    /\ IF answers = 0 THEN Surveying(v, "store") /\ UNCHANGED desk ELSE Surveying(v, "done") /\ Closes(v)
    /\ UNCHANGED <<ridden, answers, leads, opportunities, expired>>

\* Only a strong intent goes on to the sales opportunity.
StoreAnswers(v) ==
    /\ surveys[v].at = "store"
    /\ answers' = answers + 1
    /\ \/ Surveying(v, "sell") /\ UNCHANGED desk
       \/ Surveying(v, "done") /\ Closes(v)
    /\ UNCHANGED <<ridden, leads, opportunities, expired>>

FindOpportunity(v) ==
    /\ surveys[v].at = "sell"
    /\ IF opportunities = 0 THEN Surveying(v, "find lead") /\ UNCHANGED desk ELSE Surveying(v, "done") /\ Closes(v)
    /\ UNCHANGED <<ridden, answers, leads, opportunities, expired>>

\* save looks for the Lead an earlier attempt may have made.
AlwaysALead == TRUE
NeedsLead == leads = 0

FindLead(v) ==
    /\ surveys[v].at = "find lead"
    /\ Surveying(v, IF NeedsLead THEN "lead" ELSE "opportunity")
    /\ UNCHANGED <<ridden, desk, answers, leads, opportunities, expired>>

CreateLead(v) ==
    /\ surveys[v].at = "lead"
    /\ leads' = leads + 1
    /\ Surveying(v, "opportunity")
    /\ UNCHANGED <<ridden, desk, answers, opportunities, expired>>

CreateOpportunity(v) ==
    /\ surveys[v].at = "opportunity"
    /\ opportunities' = opportunities + 1
    /\ Surveying(v, "done") /\ Closes(v)
    /\ UNCHANGED <<ridden, answers, leads, expired>>

\* withConnection runs the whole of save once more when the session is
\* rejected part of the way through it.
SessionRejected(v) ==
    /\ surveys[v].at \in {"find lead", "lead", "opportunity"} /\ ~surveys[v].retried
    /\ surveys' = [surveys EXCEPT ![v] = [at |-> "find lead", retried |-> TRUE]]
    /\ UNCHANGED <<ridden, desk, answers, leads, opportunities, expired>>

SurveyFails(v) ==
    /\ surveys[v].at \in {"wait", "ask", "store", "sell", "find lead", "lead", "opportunity"}
    /\ Surveying(v, "done") /\ Closes(v)
    /\ UNCHANGED <<ridden, answers, leads, opportunities, expired>>

\* MAX_HOLD_MS has passed; the handler runs on.
LockLost ==
    /\ desk # NoSurvey
    /\ desk' = NoSurvey /\ expired' = TRUE
    /\ UNCHANGED <<ridden, surveys, answers, leads, opportunities>>

\* The desk completes the drive.
DriveDone ==
    /\ ~ridden /\ ridden' = TRUE
    /\ UNCHANGED <<surveys, desk, answers, leads, opportunities, expired>>

-----------------------------------------------------------------------------

SurveyInit ==
    /\ ridden = FALSE
    /\ surveys = [v \in Survey |-> [at |-> "unsent", retried |-> FALSE]]
    /\ desk = NoSurvey /\ answers = 0 /\ leads = 0 /\ opportunities = 0 /\ expired = FALSE

SurveyNext ==
    \/ DriveDone \/ LockLost
    \/ \E v \in Survey :
        \/ SubmitSurvey(v) \/ Acquire(v) \/ AskAnswered(v) \/ StoreAnswers(v) \/ FindOpportunity(v)
        \/ FindLead(v) \/ CreateLead(v) \/ CreateOpportunity(v) \/ SessionRejected(v) \/ SurveyFails(v)

SurveySpec == SurveyInit /\ [][SurveyNext]_surveyVars

-----------------------------------------------------------------------------
(* Properties                                                              *)

\* Types of the survey's variables.
SurveyTypeOK ==
    /\ ridden \in BOOLEAN /\ expired \in BOOLEAN
    /\ desk \in Survey \cup {NoSurvey}
    /\ {answers, leads, opportunities} \subseteq Nat
    /\ \A v \in Survey :
        surveys[v].at \in {"unsent", "wait", "ask", "store", "sell", "find lead", "lead", "opportunity", "done"}

\* While the lock is held, a drive is surveyed once and makes at most one Lead
\* and one Opportunity, whatever fails, is retried or is submitted twice
\* (bookings.service.ts:200, opportunity.repository.ts:33).
OneSurveyPerDrive == ~expired => answers <= 1 /\ leads <= 1 /\ opportunities <= 1
=============================================================================
