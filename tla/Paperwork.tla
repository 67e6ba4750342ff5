------------------------------ MODULE Paperwork ------------------------------
(***************************************************************************)
(* The papers of one booking: the licence and consent a customer sends in  *)
(* before the drive, which staff sign off and the start of the drive asks  *)
(* for.                                                                    *)
(*                                                                         *)
(* Handlers read and write in separate steps, and a write of the           *)
(* compliance record replaces all of it.  A submission is named by the     *)
(* files it uploads.                                                       *)
(*                                                                         *)
(* Sources: apps/api/src (compliance/compliance.service,                   *)
(* admin/admin-compliance.service, admin-bookings.service start),          *)
(* integrations/salesforce repositories (booking, asset), apps/web         *)
(* CompliancePage and ComplianceReviewPanel.                               *)
(***************************************************************************)
EXTENDS Integers, FiniteSets

CONSTANTS
    Submission,     \* submissions of the customer
    Reviewer,       \* review panels open at staff
    NoFiles         \* a record without files

ASSUME PaperworkAssumption == NoFiles \notin Submission

VARIABLES
    drive,          \* the booking's status; "CheckedIn" is Confirmed, with a check-in
    paper,          \* the compliance record, or NoPaper
    files,          \* the submissions whose files are stored
    submissions,    \* where each submission's handler is, what it has read
    reviews,        \* where each review panel is, what it has read
    starting,       \* what the handler that starts the drive has read
    signedOff,      \* history: the files that a confirmation has read
    startedOn,      \* history: the record that the drive was started on
    crossed         \* history: a submission was saved under a confirmation

paperVars == <<drive, paper, files, submissions, reviews, starting, signedOff, startedOn, crossed>>

-----------------------------------------------------------------------------
(* The compliance record                                                   *)

NoPaper == [of |-> NoFiles, exists |-> FALSE, signed |-> FALSE, verified |-> FALSE, consent |-> FALSE]
Pending == [NoPaper EXCEPT !.exists = TRUE]
Final(s, consent) == [of |-> s, exists |-> TRUE, signed |-> TRUE, verified |-> FALSE, consent |-> consent]

\* isComplete; the one-time code counts as passed once a submission is final.
Complete(record) == record.signed /\ record.verified /\ record.consent

Submitting(s, at) == submissions' = [submissions EXCEPT ![s].at = at]

-----------------------------------------------------------------------------
(* The customer's submission                                               *)

Submit(s) ==
    /\ submissions[s].at = "unsent"
    /\ Submitting(s, IF drive \in {"Confirmed", "CheckedIn"} THEN "look" ELSE "done")
    /\ UNCHANGED <<drive, paper, files, reviews, starting, signedOff, startedOn, crossed>>

\* A sign-off is final; a first submission opens a pending record.
Look(s) ==
    /\ submissions[s].at = "look"
    /\ submissions' = [submissions EXCEPT ![s] =
            [at |-> IF paper.verified THEN "done" ELSE IF paper.exists THEN "upload" ELSE "open", old |-> paper.of]]
    /\ UNCHANGED <<drive, paper, files, reviews, starting, signedOff, startedOn, crossed>>

Open(s) ==
    /\ submissions[s].at = "open"
    /\ paper' = Pending
    /\ Submitting(s, "upload")
    /\ UNCHANGED <<drive, files, reviews, starting, signedOff, startedOn, crossed>>

\* What follows the upload: the old files go only once the record is saved.
TidiesFirst == <<"tidy", "save">>
SavesFirst == <<"save", "tidy">>

Upload(s) ==
    /\ submissions[s].at = "upload"
    /\ files' = files \cup {s}
    /\ Submitting(s, SavesFirst[1])
    /\ UNCHANGED <<drive, paper, reviews, starting, signedOff, startedOn, crossed>>

After(at) == IF SavesFirst[1] = at THEN SavesFirst[2] ELSE "done"

SaveFinal(s) ==
    /\ submissions[s].at = "save"
    /\ \E consent \in BOOLEAN : paper' = Final(s, consent)
    /\ Submitting(s, After("save"))
    /\ crossed' = (crossed \/ \E f \in Reviewer : reviews[f].at = "confirm")
    /\ UNCHANGED <<drive, files, reviews, starting, signedOff, startedOn>>

Tidy(s) ==
    /\ submissions[s].at = "tidy"
    /\ files' = files \ {submissions[s].old}
    /\ Submitting(s, After("tidy"))
    /\ UNCHANGED <<drive, paper, reviews, starting, signedOff, startedOn, crossed>>

\* A call fails, or the server dies, at any point.
SubmissionFails(s) ==
    /\ submissions[s].at \in {"look", "open", "upload", "save", "tidy"}
    /\ Submitting(s, "done")
    /\ UNCHANGED <<drive, paper, files, reviews, starting, signedOff, startedOn, crossed>>

-----------------------------------------------------------------------------
(* Staff: review, confirmation, and the drive                              *)

\* The panel offers the button on the record it shows, ...
Review(f) ==
    /\ reviews[f].at = "closed"
    /\ paper.signed /\ ~paper.verified
    /\ reviews' = [reviews EXCEPT ![f] = [at |-> "shown", record |-> paper]]
    /\ UNCHANGED <<drive, paper, files, submissions, starting, signedOff, startedOn, crossed>>

\* ... and confirmLicense reads the record of its own time.
Confirm(f) ==
    /\ reviews[f].at = "shown"
    /\ reviews' = [reviews EXCEPT ![f] = [at |-> "confirm", record |-> paper]]
    /\ signedOff' = signedOff \cup {paper.of}
    /\ UNCHANGED <<drive, paper, files, submissions, starting, startedOn, crossed>>

\* A confirmation that sets the flag of whatever record is there
ConfirmsTheFlag(f) == [paper EXCEPT !.verified = TRUE]
\* saveCompliance writes all that was read.
Confirmed(f) == [reviews[f].record EXCEPT !.verified = TRUE]

SaveConfirmed(f) ==
    /\ reviews[f].at = "confirm"
    /\ paper' = Confirmed(f)
    /\ reviews' = [reviews EXCEPT ![f].at = "closed"]
    /\ UNCHANGED <<drive, files, submissions, starting, signedOff, startedOn, crossed>>

CheckIn ==
    /\ drive = "Confirmed" /\ drive' = "CheckedIn"
    /\ UNCHANGED <<paper, files, submissions, reviews, starting, signedOff, startedOn, crossed>>

\* start: the papers are read, then the booking is saved.
ReadToStart ==
    /\ drive = "CheckedIn" /\ starting = NoPaper
    /\ Complete(paper)
    /\ starting' = paper
    /\ UNCHANGED <<drive, paper, files, submissions, reviews, signedOff, startedOn, crossed>>

StartDrive ==
    /\ drive = "CheckedIn" /\ starting # NoPaper
    /\ drive' = "InProgress"
    /\ startedOn' = starting
    /\ UNCHANGED <<paper, files, submissions, reviews, starting, signedOff, crossed>>

CompleteDrive ==
    /\ drive = "InProgress" /\ drive' = "Completed"
    /\ UNCHANGED <<paper, files, submissions, reviews, starting, signedOff, startedOn, crossed>>

-----------------------------------------------------------------------------

PaperworkInit ==
    /\ drive = "Confirmed" /\ paper = NoPaper /\ files = {}
    /\ submissions = [s \in Submission |-> [at |-> "unsent", old |-> NoFiles]]
    /\ reviews = [f \in Reviewer |-> [at |-> "closed", record |-> NoPaper]]
    /\ starting = NoPaper /\ startedOn = NoPaper /\ signedOff = {} /\ crossed = FALSE

PaperworkNext ==
    \/ CheckIn \/ ReadToStart \/ StartDrive \/ CompleteDrive
    \/ \E s \in Submission : Submit(s) \/ Look(s) \/ Open(s) \/ Upload(s) \/ SaveFinal(s) \/ Tidy(s) \/ SubmissionFails(s)
    \/ \E f \in Reviewer : Review(f) \/ Confirm(f) \/ SaveConfirmed(f)

PaperworkSpec == PaperworkInit /\ [][PaperworkNext]_paperVars

-----------------------------------------------------------------------------
(* Properties                                                              *)

\* Types of the paperwork variables.
PaperworkTypeOK ==
    /\ drive \in {"Confirmed", "CheckedIn", "InProgress", "Completed"}
    /\ paper.of \in Submission \cup {NoFiles} /\ files \subseteq Submission
    /\ signedOff \subseteq Submission \cup {NoFiles}
    /\ \A s \in Submission : submissions[s].at \in {"unsent", "look", "open", "upload", "save", "tidy", "done"}
    /\ \A f \in Reviewer : reviews[f].at \in {"closed", "shown", "confirm"}

\* A drive only starts on a licence that some confirmation read and on consent
\* given with it: however submissions and confirmations overwrite one another,
\* no record says verified of files that no confirmation read
\* (compliance.service.ts:56, admin-bookings.service.ts:197).
DriveStartsOnSignedPapers ==
    /\ paper.verified => paper.of \in signedOff
    /\ drive \in {"InProgress", "Completed"} => startedOn.of \in signedOff \cap Submission /\ startedOn.consent

\* The record never names files that are gone, whichever submissions fail
\* or overlap, unless a confirmation was under way while one was saved
\* (compliance.service.ts:113 "so a failed save never loses data").
NamedFilesAreStored == ~crossed /\ paper.of # NoFiles => paper.of \in files
=============================================================================
