------------------------------ MODULE Accounts -------------------------------
(***************************************************************************)
(* The accounts behind one email address: registering, the one-time code,  *)
(* the account a public booking makes, the links that are mailed, and a    *)
(* password chosen through such a link.  A visit is a request on its way;  *)
(* every await is a step, and any may be the last one.  The sessions that  *)
(* follow are in Sessions; codes and links expire only as a visit dies.    *)
(*                                                                         *)
(* Sources: apps/api/src/auth/auth.service, bookings/bookings.service      *)
(* (createPublic), the repositories of integrations/postgres and of        *)
(* integrations/salesforce (customer), and the pages of apps/web/src.      *)
(***************************************************************************)
EXTENDS Integers, Sequences, FiniteSets

CONSTANTS
    Visitor,        \* requests in flight at a time
    MaxAttempts,    \* MAX_OTP_ATTEMPTS
    CodeHolder      \* bound: the accounts whose code anybody enters

ASSUME AccountsAssumption == MaxAttempts \in Nat \ {0} /\ CodeHolder \subseteq Nat

VARIABLES
    accounts,   \* the contacts with this address, in the order of their creation
    visits,     \* requests in flight
    overtaken   \* history: accounts whose owner's password a late request replaced

accountVars == <<accounts, visits, overtaken>>

-----------------------------------------------------------------------------

\* A password is none, a random one nobody knows, the registrant's, or one
\* chosen through a mailed link; of a kind of link, at most one is unused.
\* refused: history, the wrong guesses that were told so.
NewContact(verified) ==
    [verified |-> verified, password |-> "none", code |-> "none", wrong |-> 0, refused |-> 0, links |-> {}]
NoVisit == [doing |-> "nothing", account |-> 0, verified |-> FALSE]

GoesOn(v, doing) == visits' = [visits EXCEPT ![v].doing = doing]
Leaves(v) == visits' = [visits EXCEPT ![v] = NoVisit]
Of(v) == accounts[visits[v].account]
Sets(v, a) == accounts' = [accounts EXCEPT ![visits[v].account] = a]

\* findByEmail: any of the contacts, whichever the query returns
Begins(v, doing, k) ==
    /\ visits[v] = NoVisit
    /\ visits' = [visits EXCEPT ![v] = [doing |-> doing, account |-> k, verified |-> k # 0 /\ accounts[k].verified]]

-----------------------------------------------------------------------------
(* Registering                                                             *)

\* An address that is known is refused: nothing changes.
Register(v) ==
    /\ accounts = <<>> /\ Begins(v, "register", 0)
    /\ UNCHANGED <<accounts, overtaken>>

\* autoRegisterForBooking takes the address as verified before it is.
SaveContact(v) ==
    /\ visits[v].doing \in {"register", "autoRegister"}
    /\ accounts' = Append(accounts, NewContact(visits[v].doing = "autoRegister"))
    /\ visits' = [visits EXCEPT ![v].account = Len(accounts) + 1,
                                ![v].doing = IF @ = "register" THEN "password" ELSE "randomPassword"]
    /\ UNCHANGED overtaken

\* saveCredentials replaces whatever password there is.
SaveCredentials(v) ==
    /\ visits[v].doing \in {"password", "randomPassword"}
    /\ Sets(v, [Of(v) EXCEPT !.password = IF visits[v].doing = "password" THEN "registered" ELSE "random"])
    /\ overtaken' = IF Of(v).password = "chosen" THEN overtaken \cup {visits[v].account} ELSE overtaken
    /\ GoesOn(v, IF visits[v].doing = "password" THEN "code" ELSE "bookNew")

IssueOtp(v) ==
    /\ visits[v].doing = "code"
    /\ Sets(v, [Of(v) EXCEPT !.code = "sent"])
    /\ Leaves(v)
    /\ UNCHANGED overtaken

-----------------------------------------------------------------------------
(* The one-time code                                                       *)

Candidate(a) == a.code = "sent" /\ a.wrong < MaxAttempts

\* consumeOtp: a code that is used up or has had its guesses is refused.
EnterCode(v, k, right) ==
    /\ k \in CodeHolder /\ Candidate(accounts[k])
    /\ Begins(v, IF right THEN "claim" ELSE "count", k)
    /\ UNCHANGED <<accounts, overtaken>>

\* The claim is conditional on the code being unused still.
ClaimCode(v) ==
    /\ visits[v].doing = "claim"
    /\ IF Of(v).code = "sent" THEN GoesOn(v, "verify") ELSE Leaves(v)
    /\ Sets(v, [Of(v) EXCEPT !.code = "used"])
    /\ UNCHANGED overtaken

\* An update that leaves the counter as it was
KeepAttempts(a) == a
Attempted(a) == [a EXCEPT !.wrong = @ + 1]

CountGuess(v) ==
    /\ visits[v].doing = "count"
    /\ Sets(v, [Attempted(Of(v)) EXCEPT !.refused = @ + 1])
    /\ Leaves(v)
    /\ UNCHANGED overtaken

-----------------------------------------------------------------------------
(* A public booking, and the link that follows it                          *)

BookPublicly(v) ==
    /\ \/ accounts = <<>> /\ Begins(v, "autoRegister", 0)
       \/ \E k \in DOMAIN accounts : Begins(v, "bookKnown", k)
    /\ UNCHANGED <<accounts, overtaken>>

\* A link chosen without a look at the password
TrustsVerified(visit) == IF visit.doing = "bookNew" \/ ~visit.verified THEN "setup" ELSE "magic"
\* What the booking's visit does next, of an account as it was read
AfterBooking(visit) == IF visit.doing = "bookNew" \/ ~visit.verified THEN "setup" ELSE "decide"

\* A slot that is taken ends the visit instead, and leaves the account.
Booked(v) ==
    /\ visits[v].doing \in {"bookNew", "bookKnown"}
    /\ GoesOn(v, AfterBooking(visits[v]))
    /\ UNCHANGED <<accounts, overtaken>>

NeedsPasswordSetup(a) == a.password \in {"none", "random"}
Decide(v) ==
    /\ visits[v].doing = "decide"
    /\ GoesOn(v, IF NeedsPasswordSetup(Of(v)) THEN "setup" ELSE "magic")
    /\ UNCHANGED <<accounts, overtaken>>

ForgotPassword(v) ==
    /\ \E k \in DOMAIN accounts : Begins(v, "setup", k)
    /\ UNCHANGED <<accounts, overtaken>>

MailLinkTo(v) ==
    /\ visits[v].doing \in {"setup", "magic"}
    /\ Sets(v, [Of(v) EXCEPT !.links = @ \cup {visits[v].doing}])
    /\ Leaves(v)
    /\ UNCHANGED overtaken

\* verifyMagicLogin: a session follows.
FollowMagicLink(k) ==
    /\ "magic" \in accounts[k].links
    /\ accounts' = [accounts EXCEPT ![k].links = @ \ {"magic"}]
    /\ UNCHANGED <<visits, overtaken>>

-----------------------------------------------------------------------------
(* A password chosen through a link                                        *)

ResetPassword(v, k) ==
    /\ "setup" \in accounts[k].links
    /\ Begins(v, "reset", k)
    /\ accounts' = [accounts EXCEPT ![k].links = @ \ {"setup"}]
    /\ UNCHANGED overtaken

SaveChosen(v) ==
    /\ visits[v].doing = "reset"
    /\ Sets(v, [Of(v) EXCEPT !.password = "chosen"])
    /\ GoesOn(v, "verify")
    /\ UNCHANGED overtaken

\* A claimed code verifies the contact, and so does a password chosen.
Verify(v) ==
    /\ visits[v].doing = "verify"
    /\ Sets(v, [Of(v) EXCEPT !.verified = TRUE])
    /\ Leaves(v)
    /\ UNCHANGED overtaken

\* A step fails, the slot is taken, or the API's process dies.
Abandon(v) ==
    /\ visits[v] # NoVisit
    /\ Leaves(v)
    /\ UNCHANGED <<accounts, overtaken>>

-----------------------------------------------------------------------------

AccountsInit ==
    /\ accounts = <<>> /\ overtaken = {}
    /\ visits = [v \in Visitor |-> NoVisit]

AccountsNext ==
    \/ \E v \in Visitor :
        \/ Register(v) \/ BookPublicly(v) \/ ForgotPassword(v)
        \/ SaveContact(v) \/ SaveCredentials(v) \/ IssueOtp(v)
        \/ ClaimCode(v) \/ CountGuess(v) \/ Verify(v)
        \/ Booked(v) \/ Decide(v) \/ MailLinkTo(v) \/ SaveChosen(v) \/ Abandon(v)
        \/ \E k \in DOMAIN accounts : ResetPassword(v, k) \/ \E right \in BOOLEAN : EnterCode(v, k, right)
    \/ \E k \in DOMAIN accounts : FollowMagicLink(k)

AccountsSpec == AccountsInit /\ [][AccountsNext]_accountVars

-----------------------------------------------------------------------------
(* Properties                                                              *)

\* Whoever holds a magic link has another way in, and the account is theirs
\* (bookings.service.ts:140 "it's only safe to send when the customer already has
\* a real password to fall back on"), unless a late request replaced that password.
LinkHolderHasPassword(k) ==
    "magic" \in accounts[k].links => accounts[k].verified /\ (~NeedsPasswordSetup(accounts[k]) \/ k \in overtaken)

\* A registrant's password opens an account only once its code came back from
\* the mailbox, unless the mailbox's owner reset it while registering went on.
RegistrantIsProved(k) ==
    accounts[k].verified /\ accounts[k].password = "registered" => accounts[k].code = "used" \/ k \in overtaken

\* Whoever guesses a code is refused MAX_OTP_ATTEMPTS times, and as often as
\* guesses had begun by then, before the code is dead to everybody.
GuessesAreBounded(k) == accounts[k].refused < MaxAttempts + Cardinality(Visitor)

\* An account's password, its verification and its links agree, whatever
\* requests overlapped and wherever they broke off.
AccountsAreProved ==
    \A k \in DOMAIN accounts : LinkHolderHasPassword(k) /\ RegistrantIsProved(k) /\ GuessesAreBounded(k)
=============================================================================
