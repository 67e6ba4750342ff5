-------------------------- MODULE TenantConnection --------------------------
(***************************************************************************)
(* One tenant's connection to its Salesforce org, as the instances of the  *)
(* API share it.  The organization's row in Postgres holds the refresh     *)
(* token, the connection status and the access token currently in use;     *)
(* each instance caches an access token, runs at most one connect at a     *)
(* time and remembers the access token last rejected.  Under a rotation    *)
(* policy a refresh kills the refresh token it used and every other        *)
(* session, so instances refresh one at a time, under an exclusive lock.   *)
(*                                                                         *)
(* A token is a number: the n-th one Salesforce issued, as refresh token   *)
(* and as access token.  Secrets, URLs and clocks are left out.            *)
(*                                                                         *)
(* Sources: integrations/salesforce/src/tenant-connection-provider.ts,     *)
(* integrations/salesforce/src/soql.ts (withConnection) and                *)
(* integrations/postgres/src/repositories/organization.repository.ts.      *)
(***************************************************************************)
EXTENDS Integers

CONSTANTS
    Instance,       \* instances of the API that are running
    Request,        \* requests served at a time
    Home,           \* the instance that serves each request
    NoInstance,     \* the holder of a free lock
    Rotates,        \* whether the org's policy rotates refresh tokens
    MaxRetries,     \* MAX_ROTATION_RETRIES
    MaxLooks,       \* how often awaitRotatedCredentials reads the row
    MaxCalls,       \* bound on the number of calls to Salesforce
    Event,          \* what may happen from outside: subset of EventKind
    MaxEvents       \* bound on the number of events

EventKind == {"age",        \* a shared session comes to its TTL
              "session",    \* Salesforce ends a session
              "revoke",     \* Salesforce revokes the tenant's grants
              "reset",      \* the platform operator drops the connection
              "authorize",  \* a callback of the setup wizard connects the org
              "handshake",  \* a callback of the setup wizard fails
              "error",      \* a step of a connect throws
              "lost",       \* the answer to a refresh is lost
              "expiry",     \* the refresh lock is held past MAX_HOLD_MS
              "crash"}      \* an instance is stopped

ASSUME ConnectionAssumption ==
    /\ Home \in [Request -> Instance]
    /\ NoInstance \notin Instance
    /\ Rotates \in BOOLEAN
    /\ MaxRetries \in Nat /\ MaxLooks \in Nat \ {0}
    /\ MaxCalls \in Nat /\ MaxEvents \in Nat
    /\ Event \subseteq EventKind

VARIABLES
    row,        \* the organization's row
    lock,       \* the holder of the lock salesforce-refresh
    cache,      \* each instance's cached access token
    rejected,   \* the access token each instance saw rejected last
    link,       \* each instance's connect in flight
    job,        \* what each request is doing
    minted,     \* Salesforce: how many tokens it has issued
    grants,     \* Salesforce: the refresh tokens that work
    sessions,   \* Salesforce: the access tokens that work
    aged,       \* access tokens that are past their TTL, or nearly
    severed,    \* history: the stored token's grant was revoked, or its
                \*   successor was lost before it could be stored
    calls,      \* how many calls have begun
    events      \* how many events have happened

salesforce == <<minted, grants, sessions>>
bounds     == <<calls, events>>
vars == <<row, lock, cache, rejected, link, job, salesforce, aged, severed, bounds>>

-----------------------------------------------------------------------------
(* Types                                                                   *)

NoToken == 0
Token   == Nat

ConnectionStatus == {"pending", "connected", "error"}
Row == [token : Token, status : ConnectionStatus, shared : Token]

\* A connect: queued for the lock, or under it.  token: the refresh token it
\* read; fresh: the access token it found or was given; tries: retries with a rotated
\* token; looks: reads of the row since the last rejection; late: its lock
\* has expired.
Locked == {"check", "load", "refresh", "recheck", "reject", "persist", "publish"}
Link == [at : {"none", "queue"} \cup Locked, token : Token, fresh : Token,
         tries : Nat, looks : Nat, late : BOOLEAN]
NoLink == [at |-> "none", token |-> NoToken, fresh |-> NoToken,
           tries |-> 0, looks |-> 0, late |-> FALSE]

\* A request: looking for a session, deciding on the one it read, waiting for
\* its instance's connect, calling Salesforce with `token`, or refused;
\* `again` on its retry.
Job == [at : {"idle", "look", "take", "join", "use", "denied"}, token : Token,
        again : BOOLEAN]
Idle == [at |-> "idle", token |-> NoToken, again |-> FALSE]

-----------------------------------------------------------------------------
(* The organization's row: organization.repository.ts                      *)

\* loadSalesforceSession: the shared session, if there is one to offer
Offered == IF row.status = "connected" /\ row.shared \notin aged THEN row.shared ELSE NoToken

\* usableSharedSession, once instance i has the answer
Usable(i, a) == a # NoToken /\ a # rejected[i]

\* loadConnectionCredentials returns null
NoCredentials == row.status # "connected" \/ row.token = NoToken

\* recordRefreshTokenRejected and saveRotatedRefreshToken compare the stored
\* token with the one the caller used and write in the same statement.  The
\* Blind forms write without the comparison; NotRotated forgets to write.
BlindlyRejected(t) == [row EXCEPT !.status = "error", !.shared = NoToken]
Rejected(t) ==
    IF row.token = t THEN [row EXCEPT !.status = "error", !.shared = NoToken] ELSE row

NotRotated(t, fresh) == row
BlindlyRotated(t, fresh) == [row EXCEPT !.token = fresh]
Rotated(t, fresh) == IF row.token = t THEN [row EXCEPT !.token = fresh] ELSE row

\* saveSalesforceSession: only while the tenant is connected
AlwaysPublished(a) == [row EXCEPT !.shared = a]
Published(a) == IF row.status = "connected" THEN [row EXCEPT !.shared = a] ELSE row

-----------------------------------------------------------------------------
(* Building blocks                                                         *)

Become(r, j) == job' = [job EXCEPT ![r] = j]
LinkTo(i, l) == link' = [link EXCEPT ![i] = l]

\* The lock once instance i has left the transaction.
StillLocked(i) == lock
Unlocked(i) == IF lock = i THEN NoInstance ELSE lock

UnlockedCanEnter == TRUE
CanEnter == lock = NoInstance

\* The connect of instance i is over: it leaves the lock, and the requests that
\* wait for it fail, or cache and use access token a.
Settle(i, a) ==
    /\ link' = [link EXCEPT ![i] = NoLink]
    /\ lock' = Unlocked(i)
    /\ cache' = [cache EXCEPT ![i] = IF a = NoToken THEN cache[i] ELSE a]
    /\ job' = [r \in Request |->
                  IF Home[r] # i \/ job[r].at # "join" THEN job[r]
                  ELSE IF a = NoToken THEN Idle
                  ELSE [job[r] EXCEPT !.at = "use", !.token = a]]

Fail(i) == Settle(i, NoToken)

-----------------------------------------------------------------------------
(* A request: withConnection and current()                                 *)

\* A cached connection is used until it expires; a shared one not in its
\* last minute, so an aged token in the cache may still be used or not.
Begin(r) ==
    LET a == cache[Home[r]] IN
    /\ job[r] = Idle
    /\ calls < MaxCalls
    /\ calls' = calls + 1
    /\ \/ /\ a # NoToken
          /\ Become(r, [Idle EXCEPT !.at = "use", !.token = a])
       \/ /\ a = NoToken \/ a \in aged
          /\ Become(r, [Idle EXCEPT !.at = "look"])
    /\ UNCHANGED <<row, lock, cache, rejected, link, salesforce, aged, severed, events>>

Look(r) ==
    /\ job[r].at = "look"
    /\ Become(r, [job[r] EXCEPT !.at = "take", !.token = Offered])
    /\ UNCHANGED <<row, lock, cache, rejected, link, salesforce, aged, severed, bounds>>

\* The session it read if that is usable, else the connect in flight, else a
\* new one.  The row, and the cache, may have changed since.
Take(r) ==
    LET i == Home[r] IN
    /\ job[r].at = "take"
    /\ \/ /\ Usable(i, job[r].token)
          /\ cache' = [cache EXCEPT ![i] = job[r].token]
          /\ Become(r, [job[r] EXCEPT !.at = "use"])
          /\ UNCHANGED link
       \/ /\ ~Usable(i, job[r].token)
          /\ LinkTo(i, IF link[i].at = "none" THEN [NoLink EXCEPT !.at = "queue"] ELSE link[i])
          /\ Become(r, [job[r] EXCEPT !.at = "join", !.token = NoToken])
          /\ UNCHANGED cache
    /\ UNCHANGED <<row, lock, rejected, salesforce, aged, severed, bounds>>

\* Salesforce answers, or refuses the session; the second refusal is final.
Use(r) ==
    LET j == job[r] IN
    /\ j.at = "use"
    /\ Become(r, IF j.token \in sessions \/ j.again THEN Idle ELSE [j EXCEPT !.at = "denied"])
    /\ UNCHANGED <<row, lock, cache, rejected, link, salesforce, aged, severed, bounds>>

\* invalidate() takes the token that is cached now for the one that failed;
\* current() then finds no cached connection.

Invalidate(r) ==
    LET i == Home[r] IN
    /\ job[r].at = "denied"
    /\ rejected' = [rejected EXCEPT ![i] = IF cache[i] = NoToken THEN rejected[i] ELSE cache[i]]
    /\ cache' = [cache EXCEPT ![i] = NoToken]
    /\ Become(r, [Idle EXCEPT !.at = "look", !.again = TRUE])
    /\ UNCHANGED <<row, lock, link, salesforce, aged, severed, bounds>>

-----------------------------------------------------------------------------
(* A connect: connectLocked, under the lock                                *)

\* Gets the lock and reads the shared session once more.
Enter(i) ==
    /\ link[i].at = "queue"
    /\ CanEnter
    /\ lock' = i
    /\ LinkTo(i, [link[i] EXCEPT !.at = "check", !.fresh = Offered])
    /\ UNCHANGED <<row, cache, rejected, job, salesforce, aged, severed, bounds>>

Check(i) ==
    LET l == link[i] IN
    /\ l.at = "check"
    /\ \/ /\ Usable(i, l.fresh)
          /\ Settle(i, IF l.late THEN NoToken ELSE l.fresh)
       \/ /\ ~Usable(i, l.fresh)
          /\ LinkTo(i, [l EXCEPT !.at = "load", !.fresh = NoToken])
          /\ UNCHANGED <<lock, cache, job>>
    /\ UNCHANGED <<row, rejected, salesforce, aged, severed, bounds>>

Load(i) ==
    /\ link[i].at = "load"
    /\ \/ /\ NoCredentials
          /\ Fail(i)
       \/ /\ ~NoCredentials
          /\ LinkTo(i, [link[i] EXCEPT !.at = "refresh", !.token = row.token])
          /\ UNCHANGED <<lock, cache, job>>
    /\ UNCHANGED <<row, rejected, salesforce, aged, severed, bounds>>

\* Salesforce issues the next token for refresh token t.
Mint(t) ==
    LET n == minted + 1 IN
    /\ minted' = n
    /\ grants' = IF Rotates THEN (grants \ {t}) \cup {n} ELSE grants
    /\ sessions' = IF Rotates THEN {n} ELSE sessions \cup {n}

\* The refresh is answered: a token, or invalid_grant.
Refresh(i) ==
    LET l == link[i] IN
    /\ l.at = "refresh"
    /\ \/ /\ l.token \in grants
          /\ Mint(l.token)
          /\ LinkTo(i, [l EXCEPT !.at = IF Rotates THEN "persist" ELSE "publish",
                                 !.fresh = minted + 1])
       \/ /\ l.token \notin grants
          /\ LinkTo(i, [l EXCEPT !.at = IF l.tries < MaxRetries THEN "recheck" ELSE "reject",
                                 !.looks = 0])
          /\ UNCHANGED salesforce
    /\ UNCHANGED <<row, lock, cache, rejected, job, aged, severed, bounds>>

\* awaitRotatedCredentials reads the row again.
Recheck(i) ==
    LET l == link[i] IN
    /\ l.at = "recheck"
    /\ LinkTo(i, IF NoCredentials THEN [l EXCEPT !.at = "reject"]
                 ELSE IF row.token # l.token
                   THEN [l EXCEPT !.at = "refresh", !.token = row.token, !.tries = l.tries + 1]
                 ELSE IF l.looks + 1 < MaxLooks
                   THEN [l EXCEPT !.looks = l.looks + 1]
                 ELSE [l EXCEPT !.at = "reject"])
    /\ UNCHANGED <<row, lock, cache, rejected, job, salesforce, aged, severed, bounds>>

\* onCredentialsRejected, and the connect throws.
Reject(i) ==
    /\ link[i].at = "reject"
    /\ row' = Rejected(link[i].token)
    /\ Fail(i)
    /\ UNCHANGED <<rejected, salesforce, aged, severed, bounds>>

\* onRefreshTokenRotated
Persist(i) ==
    LET l == link[i] IN
    /\ l.at = "persist"
    /\ row' = Rotated(l.token, l.fresh)
    /\ LinkTo(i, [l EXCEPT !.at = "publish"])
    /\ UNCHANGED <<lock, cache, rejected, job, salesforce, aged, severed, bounds>>

\* saveSession; the token rejected earlier is forgotten.  When the lock has
\* expired the transaction cannot commit: runExclusive rejects all the same.
Publish(i) ==
    LET l == link[i] IN
    /\ l.at = "publish"
    /\ row' = Published(l.fresh)
    /\ rejected' = [rejected EXCEPT ![i] = NoToken]
    /\ Settle(i, IF l.late THEN NoToken ELSE l.fresh)
    /\ UNCHANGED <<salesforce, aged, severed, bounds>>

-----------------------------------------------------------------------------
(* Events                                                                  *)

Happens(kind) ==
    /\ kind \in Event
    /\ events < MaxEvents
    /\ events' = events + 1
    /\ UNCHANGED calls

Age(a) ==
    /\ Happens("age")
    /\ aged' = aged \cup {a}
    /\ UNCHANGED <<row, lock, cache, rejected, link, job, salesforce, severed>>

EndSession(a) ==
    /\ Happens("session")
    /\ sessions' = sessions \ {a}
    /\ UNCHANGED <<row, lock, cache, rejected, link, job, minted, grants, aged, severed>>

Revoke ==
    /\ Happens("revoke")
    /\ grants' = {}
    /\ sessions' = {}
    /\ severed' = TRUE
    /\ UNCHANGED <<row, lock, cache, rejected, link, job, minted, aged>>

\* resetConnection
Reset ==
    /\ Happens("reset")
    /\ row' = [token |-> NoToken, status |-> "pending", shared |-> NoToken]
    /\ UNCHANGED <<lock, cache, rejected, link, job, salesforce, aged, severed>>

\* saveConnectionResult, with the grant the code was exchanged for
Authorize ==
    LET n == minted + 1 IN
    /\ Happens("authorize")
    /\ minted' = n
    /\ grants' = grants \cup {n}
    /\ sessions' = sessions \cup {n}
    /\ row' = [token |-> n, status |-> "connected", shared |-> NoToken]
    /\ severed' = FALSE
    /\ UNCHANGED <<lock, cache, rejected, link, job, aged>>

\* recordConnectionError
FailHandshake ==
    /\ Happens("handshake")
    /\ row' = [row EXCEPT !.status = "error", !.shared = NoToken]
    /\ UNCHANGED <<lock, cache, rejected, link, job, salesforce, aged, severed>>

\* Instance i loses what its refresh brought, before it is stored.
Loses(i) ==
    link[i].at = "persist" /\ row.token = link[i].token

\* A query or a call throws, or the wait for the lock is too long: the connect
\* fails where it is.
ConnectFails(i) ==
    /\ Happens("error")
    /\ link[i].at # "none"
    /\ severed' = (severed \/ Loses(i))
    /\ Fail(i)
    /\ UNCHANGED <<row, rejected, salesforce, aged>>

\* Salesforce refreshes, and the answer never arrives.
LoseAnswer(i) ==
    LET l == link[i] IN
    /\ Happens("lost")
    /\ l.at = "refresh"
    /\ l.token \in grants
    /\ Mint(l.token)
    /\ severed' = (severed \/ (Rotates /\ row.token = l.token))
    /\ Fail(i)
    /\ UNCHANGED <<row, rejected, aged>>

LockExpires ==
    /\ Happens("expiry")
    /\ lock # NoInstance
    /\ lock' = NoInstance
    /\ link' = [link EXCEPT ![lock].late = TRUE]
    /\ UNCHANGED <<row, cache, rejected, job, salesforce, aged, severed>>

\* Memory and requests are gone, and a new instance takes the place.
Crash(i) ==
    /\ Happens("crash")
    /\ severed' = (severed \/ Loses(i))
    /\ link' = [link EXCEPT ![i] = NoLink]
    /\ lock' = Unlocked(i)
    /\ cache' = [cache EXCEPT ![i] = NoToken]
    /\ rejected' = [rejected EXCEPT ![i] = NoToken]
    /\ job' = [r \in Request |-> IF Home[r] = i THEN Idle ELSE job[r]]
    /\ UNCHANGED <<row, salesforce, aged>>

-----------------------------------------------------------------------------

\* A tenant that has just been connected: its first token is stored, nobody
\* has a session yet.
Init ==
    /\ row = [token |-> 1, status |-> "connected", shared |-> NoToken]
    /\ lock = NoInstance
    /\ cache = [i \in Instance |-> NoToken]
    /\ rejected = [i \in Instance |-> NoToken]
    /\ link = [i \in Instance |-> NoLink]
    /\ job = [r \in Request |-> Idle]
    /\ minted = 1
    /\ grants = {1}
    /\ sessions = {1}
    /\ aged = {}
    /\ severed = FALSE
    /\ calls = 0
    /\ events = 0

Serve(r) == Look(r) \/ Take(r) \/ Use(r) \/ Invalidate(r)

Step(i) ==
    \/ Enter(i) \/ Check(i) \/ Load(i) \/ Refresh(i) \/ Recheck(i) \/ Reject(i)
    \/ Persist(i) \/ Publish(i)

Environment ==
    \/ \E a \in 1..minted : Age(a) \/ EndSession(a)
    \/ Revoke \/ Reset \/ Authorize \/ FailHandshake
    \/ \E i \in Instance : ConnectFails(i) \/ LoseAnswer(i) \/ Crash(i)
    \/ LockExpires

Next ==
    \/ \E r \in Request : Begin(r) \/ Serve(r)
    \/ \E i \in Instance : Step(i)
    \/ Environment

Spec == Init /\ [][Next]_vars

\* A request and a connect go on while they can, and the lock is first come,
\* first served.  Nobody has to call; nothing is assumed of the environment.
Fairness ==
    /\ \A r \in Request : WF_vars(Serve(r))
    /\ \A i \in Instance : WF_vars(Step(i)) /\ SF_vars(Enter(i))

FairSpec == Spec /\ Fairness

-----------------------------------------------------------------------------
(* Properties                                                              *)

TypeOK ==
    /\ row \in Row
    /\ lock \in Instance \cup {NoInstance}
    /\ cache \in [Instance -> Token]
    /\ rejected \in [Instance -> Token]
    /\ link \in [Instance -> Link]
    /\ job \in [Request -> Job]
    /\ minted \in Nat
    /\ grants \subseteq 1..minted
    /\ sessions \subseteq 1..minted
    /\ aged \subseteq 1..minted
    /\ severed \in BOOLEAN
    /\ calls \in 0..MaxCalls
    /\ events \in 0..MaxEvents

\* The successor of the stored token, in the hands of an instance that is
\* about to store it.
InHand(i) == /\ link[i].at = "persist"
             /\ link[i].token = row.token
             /\ link[i].fresh \in grants

\* A connected tenant can always be served again without an administrator:
\* the stored refresh token works, or an instance holds the one that replaces
\* it - unless Salesforce revoked it, or the answer to a refresh or the
\* instance that had it was lost.  Expired locks, failing steps and resets do
\* not matter (tenant-connection-provider.ts:41).
StoredTokenWorks ==
    row.status = "connected" /\ ~severed =>
        \/ row.token \in grants
        \/ \E i \in Instance : InHand(i)

\* A tenant without a connection offers nothing to reuse: no shared session
\* unless connected, and no token either after a reset, although connects that
\* began before it go on to store what they got (organization.repository.ts:235).
DisconnectedIsClean ==
    /\ row.status # "connected" => row.shared = NoToken
    /\ row.status = "pending" => row.token = NoToken

\* Instance i marks the tenant as rejected.
Marks(i) == link[i].at = "reject" /\ link'[i] = NoLink /\ row'.status = "error" /\ row' # row

\* A tenant is marked only when its stored token is dead - not when another
\* instance or an administrator has replaced the token that was refused
\* (organization.repository.ts:209).
OnlyDeadTokensAreRejected ==
    [][\A i \in Instance : Marks(i) => row.token \notin grants]_vars

\* ... and not while another instance is about to store its replacement: that
\* is what the lock is for (tenant-connection-provider.ts:42).  An instance
\* whose lock has expired is not bound by it.
NoHastyRejection ==
    [][\A i, k \in Instance :
          Marks(i) /\ ~link[i].late /\ ~link[k].late => ~InHand(k)]_vars

\* Nobody refreshes while the shared session works.  The code breaks it: a
\* request that is refused an old token after its instance has taken up a new
\* one throws the new one away, although invalidate() means to remember
\* "which token failed: the shared session may already hold a newer one, which
\* must be reused, not replaced" (tenant-connection-provider.ts:128).
NewerSessionIsReused ==
    [][\A i \in Instance :
          link[i].at = "refresh" /\ link'[i].at \in {"persist", "publish"} =>
              row.shared \notin sessions \ aged]_vars

\* Every request is answered: a connect that fails, wherever it does, leaves
\* neither the lock nor the requests that wait for it behind.
EveryRequestEnds == \A r \in Request : job[r].at # "idle" ~> job[r].at = "idle"

-----------------------------------------------------------------------------
(* The inductive invariant                                                 *)

\* Every token anyone holds has been issued; a token that Salesforce refused
\* or replaced is dead.
LinkOK(i) ==
    LET l == link[i] IN
    /\ l.token <= minted
    /\ l.at \in {"refresh", "recheck", "reject", "persist"} => l.token # NoToken
    /\ l.at \in {"recheck", "reject", "persist"} => l.token \notin grants
    /\ l.at = "persist" => l.fresh # NoToken /\ l.fresh <= minted

\* An instance inside the lock holds it until it expires.
LockOK(i) == link[i].at \in Locked /\ ~link[i].late => lock = i

\* What a refresh brought is known to nobody else until it is stored, and a
\* refresh token is replaced once.
Secret(i) ==
    link[i].at = "persist" =>
        /\ row.token # link[i].fresh
        /\ \A k \in Instance :
              /\ link[k].token # link[i].fresh
              /\ k # i /\ link[k].at = "persist" =>
                    link[k].token # link[i].token /\ link[k].fresh # link[i].fresh

\* Holds in every reachable state and is kept by every step.
IInv ==
    /\ TypeOK
    /\ row.token <= minted
    /\ \A i \in Instance : LinkOK(i) /\ LockOK(i) /\ Secret(i)
    /\ StoredTokenWorks
    /\ DisconnectedIsClean
=============================================================================
