------------------------------ MODULE Reminders ------------------------------
(***************************************************************************)
(* The reminder job: every few minutes a run scans, for each kind of       *)
(* reminder, the bookings whose start lies in that kind's window, claims   *)
(* each reminder by inserting a row whose key is unique, sends it, and     *)
(* releases the claim if it could not be sent.  Runs overlap when one is   *)
(* slow, when there are several servers, and when a trigger is retried;    *)
(* they die with their server, and any call of the database may fail them. *)
(* The follow-up job claims, sends and releases in the same way.           *)
(*                                                                         *)
(* Time is counted in ticks.  A run may start at any tick, or at none.     *)
(*                                                                         *)
(* Sources: apps/api/src/bookings (reminder.scheduler, followup.scheduler) *)
(* and jobs/jobs.controller, integrations/postgres/src/repositories/       *)
(* automation-tracking.repository, salesforce/src/email-sender.            *)
(***************************************************************************)
EXTENDS Integers, Sequences

CONSTANTS
    Ride,           \* bookings
    Kinds,          \* the kinds of reminder, in the order a run takes them
    Lead,           \* for each kind, the ticks before a start it is due at
    StartTime,      \* ticks a booking may start at
    Run,            \* runs in progress at a time
    LastTick,       \* bound on time
    MaxMoves,       \* bound on the changes of bookings
    MaxRuns         \* bound on the runs started

ASSUME RemindersAssumption ==
    /\ {LastTick, MaxMoves, MaxRuns} \subseteq Nat /\ StartTime \subseteq Nat
    /\ Len(Kinds) \in Nat \ {0}
    /\ \A k \in 1..Len(Kinds) : Lead[Kinds[k]] \subseteq Nat

VARIABLES
    tick,       \* the time
    rides,      \* each booking: whether it stands, its start, and since when
    claims,     \* rows of the reminder log: <<booking, kind>>
    runs,       \* the runs in progress
    sent,       \* history: how often each reminder has reached the customer
    unsure,     \* history: reminders sent whose acceptance was not heard of
    stuck,      \* history: reminders claimed for nobody: their run died, did
                \*   not hear that it had claimed them, or failed to release them
    clean,      \* history: per booking, the ticks of runs that served it, since
                \* one last failed it
    moves,      \* how many changes of bookings there have been
    started     \* how many runs have been started

reminderVars == <<tick, rides, claims, runs, sent, unsure, stuck, clean, moves, started>>

-----------------------------------------------------------------------------

KindNames == {Kinds[k] : k \in 1..Len(Kinds)}
NoRun == [at |-> "nothing"]
KindOf(run) == Kinds[run.kind]
Holds(run, m) == run.at \in {"send", "release"} /\ <<run.ride, KindOf(run)>> = m

\* A booking whose start lies in the kind's window, seen from `now'
InWindow(ride, kind, now) == ride.stands /\ ride.start - now \in Lead[kind]

\* The loops over the bookings that are due and over the kinds
Onward(run) ==
    IF run.due # {} THEN [run EXCEPT !.at = "claim"]
    ELSE IF run.kind < Len(Kinds) THEN [run EXCEPT !.at = "scan", !.kind = @ + 1]
    ELSE NoRun

\* A run moves on; the last step of one is noted for the bookings it served.
Moves(r, next) ==
    /\ runs' = [runs EXCEPT ![r] = next]
    /\ clean' = [b \in Ride |-> IF next = NoRun /\ b \notin runs[r].failed
                                THEN clean[b] \cup {runs[r].now} ELSE clean[b]]

\* A run fails some bookings, which others may have left to it.
FailsRides(r, next, failed) ==
    /\ runs' = [q \in Run |-> IF q = r THEN next
                              ELSE IF runs[q] = NoRun THEN NoRun ELSE [runs[q] EXCEPT !.failed = @ \cup failed]]
    /\ clean' = [b \in Ride |-> IF b \in failed \/ (next = NoRun /\ b \in runs[r].failed)
                                THEN {} ELSE clean[b]]

-----------------------------------------------------------------------------
(* People, time and the cron                                               *)

\* A booking is cancelled or rescheduled, or it is made: what a rescheduled one
\* is replaced by is another booking, with a log of its own.  Only an edit made
\* in Salesforce moves the start of a booking that stands.
Rebook(b) ==
    /\ moves < MaxMoves /\ moves' = moves + 1
    /\ \/ rides[b].stands /\ rides' = [rides EXCEPT ![b].stands = FALSE]
       \/ \E s \in StartTime :
             s > tick /\ rides' = [rides EXCEPT ![b] = [stands |-> TRUE, start |-> s, since |-> tick + 1]]
    /\ UNCHANGED <<tick, claims, runs, sent, unsure, stuck, clean, started>>

Tick ==
    /\ tick < LastTick
    /\ tick' = tick + 1
    /\ UNCHANGED <<rides, claims, runs, sent, unsure, stuck, clean, moves, started>>

\* The cron job, the trigger of an external scheduler, or its retry
Start(r) ==
    /\ runs[r] = NoRun
    /\ started < MaxRuns /\ started' = started + 1
    /\ runs' = [runs EXCEPT ![r] = [at |-> "scan", kind |-> 1, now |-> tick, due |-> {}, failed |-> {}]]
    /\ UNCHANGED <<tick, rides, claims, sent, unsure, stuck, clean, moves>>

-----------------------------------------------------------------------------
(* A run                                                                   *)

\* processWindow: what the query finds is what the run works from.
Scan(r) ==
    /\ runs[r].at = "scan"
    /\ Moves(r, Onward([runs[r] EXCEPT !.due = {b \in Ride : InWindow(rides[b], KindOf(runs[r]), runs[r].now)}]))
    /\ UNCHANGED <<tick, rides, claims, sent, unsure, stuck, moves, started>>

\* Only one insert of a row can succeed.
ClaimsAnyway(m) == TRUE
Claimable(m) == m \notin claims

Claim(r) ==
    /\ runs[r].at = "claim"
    /\ \E b \in runs[r].due :
        LET m == <<b, KindOf(runs[r])>>
            left == [runs[r] EXCEPT !.due = @ \ {b}]
        IN  \/ /\ Claimable(m)
               /\ claims' = claims \cup {m}
               /\ Moves(r, [at |-> "send", ride |-> b, kind |-> left.kind, now |-> left.now,
                            due |-> left.due, failed |-> left.failed])
               /\ UNCHANGED stuck
            \/ /\ ~Claimable(m)
               /\ Moves(r, Onward(left)) /\ UNCHANGED <<claims, stuck>>
            \/ \* the insert fails for another reason, or was made unheard
               /\ FailsRides(r, Onward([left EXCEPT !.failed = @ \cup {b}]), {b})
               /\ \/ UNCHANGED <<claims, stuck>>
                  \/ Claimable(m) /\ claims' = claims \cup {m} /\ stuck' = stuck \cup {m}
    /\ UNCHANGED <<tick, rides, sent, unsure, moves, started>>

Loop(run, failed) == [at |-> "claim", kind |-> run.kind, now |-> run.now, due |-> run.due, failed |-> failed]

\* The provider accepts it and says so, accepts it unheard, or does not.
Send(r) ==
    /\ runs[r].at = "send"
    /\ LET m == <<runs[r].ride, KindOf(runs[r])>>
       IN  \/ /\ sent' = [sent EXCEPT ![m] = @ + 1]
              /\ Moves(r, Onward(Loop(runs[r], runs[r].failed))) /\ UNCHANGED unsure
           \/ /\ sent' = [sent EXCEPT ![m] = @ + 1] /\ unsure' = unsure \cup {m}
              /\ FailsRides(r, [runs[r] EXCEPT !.at = "release"], {runs[r].ride})
           \/ /\ FailsRides(r, [runs[r] EXCEPT !.at = "release"], {runs[r].ride}) /\ UNCHANGED <<sent, unsure>>
    /\ UNCHANGED <<tick, rides, claims, stuck, moves, started>>

\* finally: what was not delivered is given back for a later run to try.  The
\* run goes on if that fails (processWindow), and the row stays.
KeepsClaim(m) == claims
Released(m) == claims \ {m}

Release(r) ==
    /\ runs[r].at = "release"
    /\ LET m == <<runs[r].ride, KindOf(runs[r])>>
       IN  \/ claims' = Released(m) /\ UNCHANGED stuck
           \/ stuck' = stuck \cup {m} /\ UNCHANGED claims
    /\ FailsRides(r, Onward(Loop(runs[r], runs[r].failed \cup {runs[r].ride})), {runs[r].ride})
    /\ UNCHANGED <<tick, rides, sent, unsure, moves, started>>

\* The server dies, with the claim it may hold.
Dies(r) ==
    /\ runs[r] # NoRun
    /\ stuck' = stuck \cup {m \in Ride \X KindNames : Holds(runs[r], m)}
    /\ FailsRides(r, NoRun, Ride)
    /\ UNCHANGED <<tick, rides, claims, sent, unsure, moves, started>>

-----------------------------------------------------------------------------

RemindersInit ==
    /\ tick = 0 /\ moves = 0 /\ started = 0
    /\ rides \in [Ride -> [stands : BOOLEAN, start : StartTime, since : {0}]]
    /\ claims = {} /\ unsure = {} /\ stuck = {}
    /\ runs = [r \in Run |-> NoRun]
    /\ sent = [m \in Ride \X KindNames |-> 0]
    /\ clean = [b \in Ride |-> {}]

RemindersNext ==
    \/ Tick
    \/ \E b \in Ride : Rebook(b)
    \/ \E r \in Run : Start(r) \/ Scan(r) \/ Claim(r) \/ Send(r) \/ Release(r) \/ Dies(r)

RemindersSpec == RemindersInit /\ [][RemindersNext]_reminderVars

-----------------------------------------------------------------------------
(* Properties                                                              *)

\* Types of the reminder job's variables.
RemindersTypeOK ==
    /\ tick \in 0..LastTick /\ moves \in 0..MaxMoves /\ started \in 0..MaxRuns
    /\ \A b \in Ride : rides[b].start \in StartTime /\ clean[b] \subseteq 0..LastTick
    /\ claims \cup unsure \cup stuck \subseteq Ride \X KindNames
    /\ \A r \in Run : runs[r].at \in {"nothing", "scan", "claim", "send", "release"}
    /\ \A m \in Ride \X KindNames : sent[m] \in Nat

\* However runs overlap, fail and are retried, a reminder reaches the customer
\* once, unless the provider accepted it without the job hearing of it
\* (reminder.scheduler.ts:15 "at most one reminder per type").
OneReminder == \A m \in Ride \X KindNames : sent[m] > 1 => m \in unsure

\* One run in a reminder's window that does not fail the booking is enough: the
\* reminder has then been sent, unless its claim was left to nobody, by a run
\* that died or by a failed call of the log.  A failed send, and another
\* booking's failure, cost it nothing (remind, release).
CleanRunReminds ==
    \A b \in Ride, k \in KindNames :
        LET window == {t \in clean[b] : t >= rides[b].since /\ rides[b].start - t \in Lead[k]}
        IN  rides[b].stands /\ window # {} => sent[<<b, k>>] > 0 \/ <<b, k>> \in stuck
                                              \/ \E r \in Run : Holds(runs[r], <<b, k>>)
=============================================================================
