------------------------------ MODULE Sessions -------------------------------
(***************************************************************************)
(* The sessions of one customer and one member of staff: signing in,       *)
(* rotating the refresh token, signing out and resetting the password,     *)
(* from browser tabs that share their storage.                             *)
(*                                                                         *)
(* A call is a request on its way, with what its handler has read or       *)
(* consumed so far; every await is a step.  A customer's tokens lie in the *)
(* browser's local storage, which its pages write; a member of staff's in  *)
(* cookies, which the responses write.  Access tokens only matter in that  *)
(* they expire, at any time; expiry of the others is left out.  How an     *)
(* account comes to be, and its one-time codes, are in Accounts.           *)
(*                                                                         *)
(* Sources: apps/api/src/auth/auth.service, admin/admin-auth.service and   *)
(* -controller, the token repositories of integrations/postgres, and       *)
(* apps/web/src (auth contexts, API clients, token-storage, login pages).  *)
(***************************************************************************)
EXTENDS Integers, Sequences

CONSTANTS
    Tab,            \* tabs of the browser
    Call,           \* requests in flight at a time
    MaxTokens,      \* bound on the refresh tokens issued
    MaxPasswords    \* bound on the passwords set

ASSUME SessionsAssumption == MaxTokens \in Nat /\ MaxPasswords \in Nat

VARIABLES
    password,   \* the customer's password: how many have been set
    assigned,   \* whether the member of staff has an assignment
    issued,     \* the tokens issued: whose, and under which password
    live,       \* the tokens neither consumed nor revoked
    stored,     \* the token in the browser: local storage, and cookie
    tabs,       \* tabs whose page presents a signed-in customer
    notices,    \* tabs that have yet to hear that the storage was cleared
    calls,      \* requests in flight
    mailed,     \* links in the customer's mailbox
    late,       \* history: tokens issued for a password replaced meanwhile
    died        \* history: a reset died after saving the password

sessionVars == <<password, assigned, issued, live, stored, tabs, notices, calls, mailed, late, died>>

-----------------------------------------------------------------------------

\* Refresh tokens are numbered as they are issued; 0 is an empty place.
Issued == DOMAIN issued
NoToken == 0

\* What a call is doing, for whom and in which tab; under which password it
\* began, and the token it presents or has just been issued.
NoCall == [doing |-> "nothing", whose |-> "customer", tab |-> "none", under |-> 0, token |-> NoToken, refresh |-> FALSE]
Free(c) == calls[c] = NoCall
Goes(c, doing) == calls' = [calls EXCEPT ![c].doing = doing]
Ended(c) == calls' = [calls EXCEPT ![c] = NoCall]
SignsIn(c, t, w) ==
    calls' = [calls EXCEPT ![c] = [NoCall EXCEPT !.doing = "issue", !.whose = w, !.tab = t, !.under = password]]
Presents(c, doing, w) ==
    calls' = [calls EXCEPT ![c] = [NoCall EXCEPT !.doing = doing, !.whose = w, !.token = stored[w]]]

\* A clear that other tabs never hear of
ClearsQuietly(t) ==
    /\ stored' = [stored EXCEPT !.customer = NoToken]
    /\ tabs' = tabs \ {t}
    /\ UNCHANGED notices
\* tokenStorage.clear: this tab hears at once, the others by an event.
Clears(t) ==
    /\ stored' = [stored EXCEPT !.customer = NoToken]
    /\ tabs' = tabs \ {t}
    /\ notices' = IF stored.customer # NoToken THEN notices \cup (Tab \ {t}) ELSE notices

Hears(t) ==
    /\ t \in notices
    /\ notices' = notices \ {t} /\ tabs' = tabs \ {t}
    /\ UNCHANGED <<password, assigned, issued, live, stored, calls, mailed, late, died>>

\* A page load reads the storage.
Loads(t) ==
    /\ tabs' = IF stored.customer # NoToken THEN tabs \cup {t} ELSE tabs \ {t}
    /\ notices' = notices \ {t}
    /\ UNCHANGED <<password, assigned, issued, live, stored, calls, mailed, late, died>>

-----------------------------------------------------------------------------
(* Signing in                                                              *)

\* login: the password is compared, then tokens are issued.
Login(c, t) ==
    /\ Free(c)
    /\ SignsIn(c, t, "customer")
    /\ UNCHANGED <<password, assigned, issued, live, stored, tabs, notices, mailed, late, died>>

\* A booking mails a magic link, forgotPassword a link to set a password.
MailLink(kind) ==
    /\ kind \notin mailed /\ mailed' = mailed \cup {kind}
    /\ UNCHANGED <<password, assigned, issued, live, stored, tabs, notices, calls, late, died>>

\* verifyMagicLogin: the link is consumed by one conditional update.
MagicLogin(c, t) ==
    /\ Free(c) /\ "magic" \in mailed
    /\ mailed' = mailed \ {"magic"}
    /\ SignsIn(c, t, "customer")
    /\ UNCHANGED <<password, assigned, issued, live, stored, tabs, notices, late, died>>

\* The OAuth callback: only a user with an assignment gets in.
StaffLogin(c, t) ==
    /\ Free(c) /\ assigned
    /\ SignsIn(c, t, "staff")
    /\ UNCHANGED <<password, assigned, issued, live, stored, tabs, notices, mailed, late, died>>

\* issueTokens: the new token is the next number.
LastToken == Len(issued)
NewToken == Len(issued) + 1
Issue(c) ==
    /\ calls[c].doing = "issue"
    /\ Len(issued) < MaxTokens
    /\ issued' = Append(issued, [whose |-> calls[c].whose, under |-> calls[c].under])
    /\ live' = live \cup {NewToken}
    /\ late' = IF calls[c].under # password THEN late \cup {NewToken} ELSE late
    /\ calls' = [calls EXCEPT ![c].doing = "answer", ![c].token = NewToken]
    /\ UNCHANGED <<password, assigned, stored, tabs, notices, mailed, died>>

\* The page stores a customer's tokens; a response sets staff cookies.
Answer(c) ==
    /\ calls[c].doing = "answer"
    /\ stored' = [stored EXCEPT ![calls[c].whose] = calls[c].token]
    /\ tabs' = IF calls[c].whose = "customer" /\ ~calls[c].refresh THEN tabs \cup {calls[c].tab} ELSE tabs
    /\ Ended(c)
    /\ UNCHANGED <<password, assigned, issued, live, notices, mailed, late, died>>

-----------------------------------------------------------------------------
(* Rotation                                                                *)

\* An API call answered 401: one refresh per tab, whichever calls wait on it.
Refresh(c, t, w) ==
    /\ Free(c) /\ stored[w] # NoToken
    /\ ~\E d \in Call : calls[d].refresh /\ calls[d].tab = t /\ calls[d].whose = w
    /\ calls' = [calls EXCEPT ![c] = [doing |-> "consume", whose |-> w, tab |-> t, under |-> issued[stored[w]].under,
                                      token |-> stored[w], refresh |-> TRUE]]
    /\ UNCHANGED <<password, assigned, issued, live, stored, tabs, notices, mailed, late, died>>

\* consumeRefreshToken, consume: one conditional update.  After it, staff
\* access is resolved again, fresh.
Consume(c) ==
    /\ calls[c].doing = "consume"
    /\ live' = live \ {calls[c].token}
    /\ Goes(c, IF calls[c].token \notin live THEN "refused" ELSE IF calls[c].whose = "staff" THEN "check" ELSE "issue")
    /\ UNCHANGED <<password, assigned, issued, stored, tabs, notices, mailed, late, died>>

CheckAssignment(c) ==
    /\ calls[c].doing = "check"
    /\ Goes(c, IF assigned THEN "issue" ELSE "refused")
    /\ UNCHANGED <<password, assigned, issued, live, stored, tabs, notices, mailed, late, died>>

\* A refresh that is refused, or whose answer is lost, or whose server dies,
\* ends a customer's session in this browser; a staff cookie is left.
Fails(c) ==
    /\ calls[c].doing \in {"refused", "consume", "check", "issue", "answer"}
    /\ IF calls[c].refresh /\ calls[c].whose = "customer" THEN Clears(calls[c].tab) ELSE UNCHANGED <<stored, tabs, notices>>
    /\ Ended(c)
    /\ UNCHANGED <<password, assigned, issued, live, mailed, late, died>>

-----------------------------------------------------------------------------
(* Signing out, and resetting the password                                 *)

\* A customer's page forgets the tokens first, and tells the server after.
Logout(c, t) ==
    /\ Free(c) /\ t \in tabs
    /\ Clears(t)
    /\ IF stored.customer # NoToken THEN Presents(c, "revoke", "customer") ELSE UNCHANGED calls
    /\ UNCHANGED <<password, assigned, issued, live, mailed, late, died>>

\* The server revokes a staff token, and its answer clears the cookies.
StaffLogout(c) ==
    /\ Free(c) /\ stored.staff # NoToken
    /\ Presents(c, "revoke", "staff")
    /\ UNCHANGED <<password, assigned, issued, live, stored, tabs, notices, mailed, late, died>>

Revoke(c) ==
    /\ calls[c].doing = "revoke"
    /\ live' = live \ {calls[c].token}
    /\ stored' = IF calls[c].whose = "staff" THEN [stored EXCEPT !.staff = NoToken] ELSE stored
    /\ Ended(c)
    /\ UNCHANGED <<password, assigned, issued, tabs, notices, mailed, late, died>>

\* resetPassword: the link, then the password, then the open sessions
Reset(c) ==
    /\ Free(c) /\ "reset" \in mailed /\ password < MaxPasswords
    /\ \A d \in Call : calls[d].doing # "save"
    /\ mailed' = mailed \ {"reset"}
    /\ Goes(c, "save")
    /\ UNCHANGED <<password, assigned, issued, live, stored, tabs, notices, late, died>>

SavePassword(c) ==
    /\ calls[c].doing = "save"
    /\ password' = password + 1
    /\ Goes(c, "revokeAll")
    /\ UNCHANGED <<assigned, issued, live, stored, tabs, notices, mailed, late, died>>

EndsStored(k) == k = stored.customer
Ends(k) == issued[k].whose = "customer"

RevokeAll(c) ==
    /\ calls[c].doing = "revokeAll"
    /\ live' = {k \in live : ~Ends(k)}
    /\ Ended(c)
    /\ UNCHANGED <<password, assigned, issued, stored, tabs, notices, mailed, late, died>>

ResetDies(c) ==
    /\ calls[c].doing \in {"save", "revokeAll"}
    /\ died' = (died \/ calls[c].doing = "revokeAll")
    /\ Ended(c)
    /\ UNCHANGED <<password, assigned, issued, live, stored, tabs, notices, mailed, late>>

\* The last assignment of the member of staff is removed.
Unassign ==
    /\ assigned /\ assigned' = FALSE
    /\ UNCHANGED <<password, issued, live, stored, tabs, notices, calls, mailed, late, died>>

-----------------------------------------------------------------------------

SessionsInit ==
    /\ password = 0 /\ assigned = TRUE /\ issued = <<>> /\ live = {}
    /\ stored = [customer |-> NoToken, staff |-> NoToken]
    /\ tabs = {} /\ notices = {} /\ mailed = {} /\ late = {} /\ died = FALSE
    /\ calls = [c \in Call |-> NoCall]

\* What is on its way goes on, for whomever it is.
CallStep(c) == Issue(c) \/ Answer(c) \/ Consume(c) \/ CheckAssignment(c) \/ Fails(c) \/ Revoke(c)

CustomerStep ==
    \/ \E kind \in {"magic", "reset"} : MailLink(kind)
    \/ \E t \in Tab : Hears(t) \/ Loads(t)
    \/ \E c \in Call :
        \/ Reset(c) \/ SavePassword(c) \/ RevokeAll(c) \/ ResetDies(c)
        \/ \E t \in Tab : Login(c, t) \/ MagicLogin(c, t) \/ Logout(c, t) \/ Refresh(c, t, "customer")

StaffStep ==
    \/ Unassign
    \/ \E c \in Call : StaffLogout(c) \/ \E t \in Tab : StaffLogin(c, t) \/ Refresh(c, t, "staff")

SessionsNext == CustomerStep \/ StaffStep \/ \E c \in Call : CallStep(c)

SessionsSpec == SessionsInit /\ [][SessionsNext]_sessionVars

-----------------------------------------------------------------------------
(* Properties                                                              *)

\* Types of the session variables.
SessionsTypeOK ==
    /\ password \in 0..MaxPasswords /\ assigned \in BOOLEAN /\ died \in BOOLEAN
    /\ Issued \subseteq 1..MaxTokens /\ live \subseteq Issued /\ late \subseteq Issued
    /\ stored \in [{"customer", "staff"} -> Issued \cup {NoToken}]
    /\ tabs \subseteq Tab /\ notices \subseteq Tab /\ mailed \subseteq {"magic", "reset"}

\* Once a password reset is through, no session opened under an earlier
\* password is left, in any browser; only a sign-in or a refresh that was under
\* way while the password was replaced can still open one
\* (auth.service.ts:225 "sessions opened with the old password must end").
ResetEndsSessions ==
    ~died /\ (\A c \in Call : calls[c].doing # "revokeAll")
        => \A k \in live : issued[k].whose = "customer" => issued[k].under = password \/ k \in late

\* A page that presents a signed-in customer has tokens to work with, or is
\* about to hear that they are gone, whichever tab signed out or lost the
\* session (token-storage.ts onSessionCleared).
SignedInTabsHoldTokens == \A t \in tabs : stored.customer # NoToken \/ t \in notices
=============================================================================
