----------------------- MODULE TenantConnectionProofs -----------------------
(***************************************************************************)
(* A tenant's connection survives its instances: whatever their number and *)
(* whatever fails, the token stored for a connected tenant works or is     *)
(* about to be replaced, and a tenant is marked as rejected only when its  *)
(* token is dead.                                                          *)
(*                                                                         *)
(* IInv adds to StoredTokenWorks what an instance's connect knows: tokens  *)
(* that were refused or replaced are dead (LinkOK), who is inside the lock *)
(* holds it (LockOK), and what a refresh brought is in one hand only until *)
(* it is stored (Secret).                                                  *)
(***************************************************************************)
EXTENDS TenantConnection, TLAPS

-----------------------------------------------------------------------------
(* Building blocks                                                         *)

\* Become replaces one request's job by another job.
LEMMA BecomeType ==
    ASSUME TypeOK, NEW r \in Request, NEW j \in Job, Become(r, j)
    PROVE  job' \in [Request -> Job]
  BY DEF TypeOK, Become

\* LinkTo replaces one instance's connect and no other's.
LEMMA LinkToEffect ==
    ASSUME TypeOK, NEW i \in Instance, NEW l \in Link, LinkTo(i, l)
    PROVE  /\ link' \in [Instance -> Link]
           /\ link'[i] = l
           /\ \A k \in Instance \ {i} : link'[k] = link[k]
  BY DEF TypeOK, LinkTo

\* The null values have their types.
LEMMA NullTypes == Idle \in Job /\ NoLink \in Link /\ NoToken \in Token
  BY DEF Idle, Job, NoLink, Link, NoToken, Token

\* Settling a connect leaves well-typed caches, jobs and connects, and every
\* other instance its connect and its lock.
LEMMA SettleEffect ==
    ASSUME TypeOK, NEW i \in Instance, NEW a \in Token, Settle(i, a)
    PROVE  /\ link' \in [Instance -> Link]
           /\ link'[i] = NoLink
           /\ \A k \in Instance \ {i} : link'[k] = link[k] /\ (lock = k => lock' = k)
           /\ lock' \in Instance \cup {NoInstance}
           /\ cache' \in [Instance -> Token]
           /\ job' \in [Request -> Job]
  <1>1. /\ link' \in [Instance -> Link]
        /\ link'[i] = NoLink
        /\ \A k \in Instance \ {i} : link'[k] = link[k]
      BY NullTypes DEF Settle, TypeOK
  <1>2. /\ lock' \in Instance \cup {NoInstance}
        /\ \A k \in Instance \ {i} : lock = k => lock' = k
      BY DEF Settle, TypeOK, Unlocked
  <1>3. cache' \in [Instance -> Token]
      BY DEF Settle, TypeOK
  <1>4. job' \in [Request -> Job]
    <2> SUFFICES ASSUME NEW r \in Request
                 PROVE  (IF Home[r] # i \/ job[r].at # "join" THEN job[r]
                         ELSE IF a = NoToken THEN Idle
                         ELSE [job[r] EXCEPT !.at = "use", !.token = a]) \in Job
        BY DEF Settle
    <2>1. job[r] \in Job
        BY DEF TypeOK
    <2> QED
        BY <2>1, NullTypes DEF Job
  <1> QED
      BY <1>1, <1>2, <1>3, <1>4

\* An instance that does not move keeps what it knows, while no dead token
\* comes to life and nobody takes its lock.
LEMMA OthersKeep ==
    ASSUME TypeOK, NEW k \in Instance, LinkOK(k), LockOK(k),
           link'[k] = link[k],
           minted' \in Nat, minted <= minted',
           grants' \cap (1..minted) \subseteq grants,
           lock = k => lock' = k
    PROVE  LinkOK(k)' /\ LockOK(k)'
  <1>1. link[k] \in Link /\ minted \in Nat
      BY DEF TypeOK
  <1>2. link[k].token \in Nat /\ link[k].fresh \in Nat
      BY <1>1 DEF Link, Token
  <1>3. LinkOK(k)'
    <2>1. /\ link[k].token <= minted'
          /\ link[k].at = "persist" => link[k].fresh <= minted'
        BY <1>1, <1>2 DEF LinkOK
    <2>2. ASSUME link[k].at \in {"recheck", "reject", "persist"}
          PROVE  link[k].token \notin grants'
      <3>1. link[k].token # NoToken /\ link[k].token <= minted /\ link[k].token \notin grants
          BY <2>2 DEF LinkOK
      <3>2. link[k].token \in 1..minted
          BY <1>1, <1>2, <3>1 DEF NoToken
      <3> QED
          BY <3>1, <3>2
    <2> QED
        BY <2>1, <2>2 DEF LinkOK
  <1>4. LockOK(k)'
      BY DEF LockOK
  <1> QED
      BY <1>3, <1>4

\* A step that leaves an instance's connect outside of storing a token, and
\* the stored token and the grants as they were, disturbs no secret.
LEMMA QuietMove ==
    ASSUME IInv, NEW i \in Instance, NEW l \in Link,
           link'[i] = l, \A k \in Instance \ {i} : link'[k] = link[k],
           link[i].at # "persist", l.at # "persist",
           l.token \in {link[i].token, row.token, NoToken},
           row'.token = row.token,
           row'.status = "connected" => row.status = "connected",
           UNCHANGED <<minted, grants, severed>>
    PROVE  /\ row'.token <= minted'
           /\ \A k \in Instance : Secret(k)'
           /\ StoredTokenWorks'
  <1>1. ASSUME NEW k \in Instance PROVE Secret(k)'
    <2> SUFFICES ASSUME link'[k].at = "persist"
                 PROVE  /\ row'.token # link'[k].fresh
                        /\ \A m \in Instance :
                              /\ link'[m].token # link'[k].fresh
                              /\ m # k /\ link'[m].at = "persist" =>
                                    link'[m].token # link'[k].token /\ link'[m].fresh # link'[k].fresh
        BY DEF Secret
    <2>1. k # i /\ link'[k] = link[k] /\ link[k].at = "persist"
        OBVIOUS
    <2>2. Secret(k) /\ LinkOK(k)
        BY DEF IInv
    <2>3. row.token # link[k].fresh /\ link[k].fresh # NoToken
        BY <2>1, <2>2 DEF Secret, LinkOK
    <2>4. \A m \in Instance : link[m].token # link[k].fresh
        BY <2>1, <2>2 DEF Secret
    <2>5. \A m \in Instance : link'[m].token # link'[k].fresh
        BY <2>1, <2>3, <2>4
    <2>6. ASSUME NEW m \in Instance, m # k, link'[m].at = "persist"
          PROVE  link'[m].token # link'[k].token /\ link'[m].fresh # link'[k].fresh
        BY <2>1, <2>2, <2>6 DEF Secret
    <2> QED
        BY <2>1, <2>3, <2>5, <2>6
  <1>2. \A k \in Instance : InHand(k) => InHand(k)'
      BY DEF InHand
  <1>3. StoredTokenWorks'
      BY <1>2 DEF StoredTokenWorks, IInv
  <1> QED
      BY <1>1, <1>3 DEF IInv

\* The step of one connect that is quiet keeps the invariant when it keeps
\* what that instance knows.
LEMMA QuietStep ==
    ASSUME IInv, TypeOK', NEW i \in Instance, NEW l \in Link,
           link'[i] = l,
           \A k \in Instance \ {i} : link'[k] = link[k] /\ (lock = k => lock' = k),
           link[i].at # "persist", l.at # "persist",
           l.token \in {link[i].token, row.token, NoToken},
           row'.token = row.token,
           row'.status = "connected" => row.status = "connected",
           UNCHANGED <<minted, grants, severed>>,
           LinkOK(i)', LockOK(i)', DisconnectedIsClean'
    PROVE  IInv'
  <1>1. \A k \in Instance \ {i} : LinkOK(k)' /\ LockOK(k)'
      BY OthersKeep DEF IInv, TypeOK
  <1>2. row'.token <= minted' /\ (\A k \in Instance : Secret(k)') /\ StoredTokenWorks'
      BY QuietMove
  <1> QED
      BY <1>1, <1>2 DEF IInv

\* A step that leaves the connects, the row and Salesforce's grants alone
\* keeps all of the invariant but the types.
LEMMA Untouched ==
    ASSUME IInv, TypeOK', UNCHANGED <<row, lock, link, minted, grants, severed>>
    PROVE  IInv'
  <1>1. \A i \in Instance : LinkOK(i)' /\ LockOK(i)' /\ Secret(i)'
      BY DEF IInv, LinkOK, LockOK, Secret
  <1>2. StoredTokenWorks' /\ DisconnectedIsClean'
      BY DEF IInv, StoredTokenWorks, InHand, DisconnectedIsClean
  <1> QED
      BY <1>1, <1>2 DEF IInv

\* A fresh connection satisfies the invariant.
LEMMA InitIInv == Init => IInv
  <1> SUFFICES ASSUME Init PROVE IInv
      OBVIOUS
  <1>1. TypeOK
    <2>1. row \in Row /\ grants \subseteq 1..minted /\ sessions \subseteq 1..minted
        BY DEF Init, Row, Token, ConnectionStatus, NoToken
    <2>2. link \in [Instance -> Link] /\ job \in [Request -> Job]
        BY NullTypes DEF Init
    <2>3. cache \in [Instance -> Token] /\ rejected \in [Instance -> Token]
        BY NullTypes DEF Init
    <2>4. calls \in 0..MaxCalls /\ events \in 0..MaxEvents
        BY ConnectionAssumption DEF Init
    <2> QED
        BY <2>1, <2>2, <2>3, <2>4 DEF Init, TypeOK
  <1>2. ASSUME NEW i \in Instance PROVE LinkOK(i) /\ LockOK(i) /\ Secret(i)
    <2>1. /\ link[i].at = "none" /\ link[i].token = 0 /\ link[i].fresh = 0
          /\ minted = 1
        BY DEF Init, NoLink, NoToken
    <2> QED
        BY <2>1 DEF LinkOK, LockOK, Secret, Locked
  <1>3. row.token <= minted /\ StoredTokenWorks /\ DisconnectedIsClean
      BY DEF Init, StoredTokenWorks, DisconnectedIsClean
  <1> QED
      BY <1>1, <1>2, <1>3 DEF IInv

-----------------------------------------------------------------------------
(* Requests                                                                *)

\* A request that begins, reads the row, is answered or invalidates touches
\* nothing the invariant is about.
LEMMA RequestStep ==
    ASSUME IInv, NEW r \in Request, Begin(r) \/ Look(r) \/ Use(r) \/ Invalidate(r)
    PROVE  IInv'
  <1> USE DEF IInv
  <1>0. TypeOK /\ Home[r] \in Instance /\ job[r] \in Job /\ row \in Row /\ cache[Home[r]] \in Token
      BY ConnectionAssumption DEF TypeOK
  <1>1. CASE Begin(r)
    <2>1. job' \in [Request -> Job]
      <3>1. [Idle EXCEPT !.at = "use", !.token = cache[Home[r]]] \in Job
          BY <1>0 DEF Idle, Job
      <3>2. [Idle EXCEPT !.at = "look"] \in Job
          BY DEF Idle, Job, NoToken, Token
      <3> QED
          BY <1>0, <1>1, <3>1, <3>2, BecomeType DEF Begin
    <2>2. calls' \in 0..MaxCalls
        BY <1>0, <1>1, ConnectionAssumption DEF Begin, TypeOK
    <2>3. TypeOK'
        BY <1>0, <1>1, <2>1, <2>2 DEF Begin, TypeOK, salesforce
    <2> QED
        BY <1>1, <2>3, Untouched DEF Begin, salesforce
  <1>2. CASE Look(r)
    <2>1. [job[r] EXCEPT !.at = "take", !.token = Offered] \in Job
        BY <1>0, NullTypes DEF Job, Offered, Row
    <2>2. job' \in [Request -> Job]
        BY <1>0, <1>2, <2>1, BecomeType DEF Look
    <2>3. TypeOK'
        BY <1>0, <1>2, <2>2 DEF Look, TypeOK, salesforce, bounds
    <2> QED
        BY <1>2, <2>3, Untouched DEF Look, salesforce
  <1>3. CASE Use(r)
    <2>1. [job[r] EXCEPT !.at = "denied"] \in Job
        BY <1>0 DEF Job
    <2>2. job' \in [Request -> Job]
        BY <1>0, <1>3, <2>1, NullTypes, BecomeType DEF Use
    <2>3. TypeOK'
        BY <1>0, <1>3, <2>2 DEF Use, TypeOK, salesforce, bounds
    <2> QED
        BY <1>3, <2>3, Untouched DEF Use, salesforce
  <1>4. CASE Invalidate(r)
    <2>1. [Idle EXCEPT !.at = "look", !.again = TRUE] \in Job
        BY DEF Idle, Job, NoToken, Token
    <2>2. job' \in [Request -> Job]
        BY <1>0, <1>4, <2>1, BecomeType DEF Invalidate
    <2>3. cache' \in [Instance -> Token] /\ rejected' \in [Instance -> Token]
        BY <1>0, <1>4, NullTypes DEF Invalidate, TypeOK
    <2>4. TypeOK'
        BY <1>0, <1>4, <2>2, <2>3 DEF Invalidate, TypeOK, salesforce, bounds
    <2> QED
        BY <1>4, <2>4, Untouched DEF Invalidate, salesforce
  <1> QED
      BY <1>1, <1>2, <1>3, <1>4

\* A request takes up the session it read, or waits for a connect.
LEMMA TakeStep ==
    ASSUME IInv, NEW r \in Request, Take(r)
    PROVE  IInv'
  <1> DEFINE i == Home[r]
  <1>0. TypeOK /\ i \in Instance /\ job[r] \in Job /\ link[i] \in Link
      BY ConnectionAssumption DEF TypeOK, IInv
  <1>1. CASE Usable(i, job[r].token)
    <2>1. job[r].token \in Token /\ [job[r] EXCEPT !.at = "use"] \in Job
        BY <1>0 DEF Job
    <2>2. job' \in [Request -> Job] /\ cache' \in [Instance -> Token]
        BY <1>0, <1>1, <2>1, BecomeType DEF Take, TypeOK
    <2>3. TypeOK'
        BY <1>0, <1>1, <2>2 DEF Take, TypeOK, salesforce, bounds
    <2> QED
        BY <1>1, <2>3, Untouched DEF Take, salesforce
  <1>2. CASE ~Usable(i, job[r].token)
    <2>1. [job[r] EXCEPT !.at = "join", !.token = NoToken] \in Job
        BY <1>0, NullTypes DEF Job
    <2>2. job' \in [Request -> Job]
        BY <1>0, <1>2, <2>1, BecomeType DEF Take
    <2>3. CASE link[i].at = "none"
      <3> DEFINE l == [NoLink EXCEPT !.at = "queue"]
      <3>1. l \in Link /\ l.token = NoToken /\ l.fresh = NoToken /\ l.at = "queue"
          BY DEF NoLink, Link, Token, NoToken
      <3>2. LinkTo(i, l)
          BY <1>2, <2>3 DEF Take
      <3>3. /\ link' \in [Instance -> Link] /\ link'[i] = l
            /\ \A k \in Instance \ {i} : link'[k] = link[k]
          BY <1>0, <3>1, <3>2, LinkToEffect
      <3>u. UNCHANGED <<row, lock, minted, grants, severed>>
          BY DEF Take, salesforce
      <3> HIDE DEF l
      <3>4. TypeOK'
          BY <1>0, <1>2, <2>2, <3>3 DEF Take, TypeOK, salesforce, bounds
      <3>5. LinkOK(i)' /\ LockOK(i)' /\ DisconnectedIsClean'
          BY <1>0, <3>1, <3>3, <3>u
          DEF LinkOK, LockOK, Locked, NoToken, TypeOK, IInv, DisconnectedIsClean
      <3> QED
          BY <1>0, <2>3, <3>1, <3>3, <3>u, <3>4, <3>5, QuietStep
    <2>4. CASE link[i].at # "none"
      <3>1. link' = link
          BY <1>0, <1>2, <2>4 DEF Take, LinkTo, TypeOK
      <3>2. TypeOK'
          BY <1>0, <1>2, <2>2, <3>1 DEF Take, TypeOK, salesforce, bounds
      <3> QED
          BY <3>1, <3>2, Untouched DEF Take, salesforce
    <2> QED
        BY <2>3, <2>4
  <1> QED
      BY <1>1, <1>2

-----------------------------------------------------------------------------
(* The connect                                                             *)

\* What a connect that is over knows is nothing.
LEMMA SettledKeeps ==
    ASSUME TypeOK', NEW i \in Instance, link'[i] = NoLink
    PROVE  LinkOK(i)' /\ LockOK(i)'
  BY DEF NoLink, NoToken, LinkOK, LockOK, Locked, TypeOK

\* An instance gets the lock: it holds it, and knows nothing yet.
LEMMA EnterStep ==
    ASSUME IInv, NEW i \in Instance, Enter(i)
    PROVE  IInv'
  <1> DEFINE l == [link[i] EXCEPT !.at = "check", !.fresh = Offered]
  <1>0. TypeOK /\ link[i] \in Link /\ row \in Row /\ link[i].at = "queue" /\ lock = NoInstance
      BY DEF IInv, TypeOK, Enter, CanEnter
  <1>1. l \in Link /\ l.at = "check" /\ l.token = link[i].token
      BY <1>0, NullTypes DEF Link, Offered, Row, Locked
  <1>2. LinkTo(i, l) /\ lock' = i /\ UNCHANGED <<row, minted, grants, severed>>
      BY DEF Enter, salesforce
  <1> HIDE DEF l
  <1>3. /\ link' \in [Instance -> Link] /\ link'[i] = l
        /\ \A k \in Instance \ {i} : link'[k] = link[k]
      BY <1>0, <1>1, <1>2, LinkToEffect
  <1>4. TypeOK'
      BY <1>0, <1>2, <1>3 DEF Enter, TypeOK, salesforce, bounds
  <1>5. LinkOK(i)' /\ LockOK(i)' /\ DisconnectedIsClean'
      BY <1>1, <1>2, <1>3 DEF LinkOK, LockOK, IInv, DisconnectedIsClean
  <1>6. \A k \in Instance \ {i} : link'[k] = link[k] /\ (lock = k => lock' = k)
      BY <1>0, <1>3, ConnectionAssumption
  <1> QED
      BY <1>0, <1>1, <1>2, <1>3, <1>4, <1>5, <1>6, QuietStep

\* A connect is over without a token to store, and nothing else changes.
LEMMA SettleStep ==
    ASSUME IInv, NEW i \in Instance, NEW a \in Token, Settle(i, a), link[i].at # "persist",
           UNCHANGED <<row, rejected, salesforce, aged, severed>>,
           calls' \in 0..MaxCalls, events' \in 0..MaxEvents
    PROVE  IInv'
  <1>0. TypeOK
      BY DEF IInv
  <1>1. /\ link' \in [Instance -> Link] /\ link'[i] = NoLink
        /\ \A k \in Instance \ {i} : link'[k] = link[k] /\ (lock = k => lock' = k)
        /\ lock' \in Instance \cup {NoInstance}
        /\ cache' \in [Instance -> Token]
        /\ job' \in [Request -> Job]
      BY <1>0, SettleEffect
  <1>2. TypeOK'
      BY <1>0, <1>1 DEF TypeOK, salesforce
  <1>3. LinkOK(i)' /\ LockOK(i)'
      BY <1>1, <1>2, SettledKeeps
  <1>4. NoLink \in Link /\ NoLink.at # "persist" /\ NoLink.token = NoToken
      BY NullTypes DEF NoLink
  <1>5. DisconnectedIsClean' /\ UNCHANGED <<row, minted, grants, severed>>
      BY DEF IInv, DisconnectedIsClean, salesforce
  <1> QED
      BY <1>1, <1>2, <1>3, <1>4, <1>5, QuietStep

\* A connect goes on to another point, under the lock.
LEMMA GoesOn ==
    ASSUME IInv, NEW i \in Instance, NEW l \in Link, LinkTo(i, l),
           link[i].at \in Locked, link[i].at # "persist",
           l.at \in Locked, l.at # "persist", l.late = link[i].late,
           l.token \in {link[i].token, row.token},
           l.at \in {"refresh", "recheck", "reject"} => l.token # NoToken,
           l.at \in {"recheck", "reject"} => l.token \notin grants,
           UNCHANGED <<row, lock, cache, rejected, job, salesforce, aged, severed, bounds>>
    PROVE  IInv'
  <1>0. TypeOK /\ LinkOK(i) /\ LockOK(i)
      BY DEF IInv
  <1>1. /\ link' \in [Instance -> Link] /\ link'[i] = l
        /\ \A k \in Instance \ {i} : link'[k] = link[k]
      BY <1>0, LinkToEffect
  <1>2. TypeOK'
      BY <1>0, <1>1 DEF TypeOK, salesforce, bounds
  <1>3. l.token <= minted
      BY <1>0 DEF IInv, LinkOK
  <1>4. LinkOK(i)' /\ LockOK(i)' /\ DisconnectedIsClean'
      BY <1>0, <1>1, <1>3 DEF LinkOK, LockOK, IInv, DisconnectedIsClean, salesforce
  <1> QED
      BY <1>1, <1>2, <1>4, QuietStep DEF salesforce

\* A connect takes the session it found under the lock and is over, or goes on
\* to load credentials.
LEMMA CheckStep ==
    ASSUME IInv, NEW i \in Instance, Check(i)
    PROVE  IInv'
  <1>0. TypeOK /\ link[i] \in Link /\ link[i].at = "check"
      BY DEF IInv, TypeOK, Check
  <1>1. CASE Usable(i, link[i].fresh)
    <2> DEFINE a == IF link[i].late THEN NoToken ELSE link[i].fresh
    <2>1. a \in Token
        BY <1>0, NullTypes DEF Link
    <2>2. Settle(i, a)
        BY <1>1 DEF Check
    <2> HIDE DEF a
    <2>3. calls' \in 0..MaxCalls /\ events' \in 0..MaxEvents
        BY <1>0 DEF Check, TypeOK, bounds
    <2> QED
        BY <1>0, <2>1, <2>2, <2>3, SettleStep DEF Check
  <1>2. CASE ~Usable(i, link[i].fresh)
    <2> DEFINE l == [link[i] EXCEPT !.at = "load", !.fresh = NoToken]
    <2>1. l \in Link /\ l.at = "load" /\ l.token = link[i].token /\ l.late = link[i].late
        BY <1>0, NullTypes DEF Link, Locked
    <2>2. LinkTo(i, l) /\ UNCHANGED <<row, lock, cache, rejected, job, salesforce, aged, severed, bounds>>
        BY <1>2 DEF Check
    <2> HIDE DEF l
    <2> QED
        BY <1>0, <2>1, <2>2, GoesOn DEF Locked
  <1> QED
      BY <1>1, <1>2

\* A connect reads the stored refresh token, or is over without one.
LEMMA LoadStep ==
    ASSUME IInv, NEW i \in Instance, Load(i)
    PROVE  IInv'
  <1>0. TypeOK /\ link[i] \in Link /\ row \in Row /\ link[i].at = "load"
      BY DEF IInv, TypeOK, Load
  <1>1. CASE NoCredentials
    <2>1. Settle(i, NoToken)
        BY <1>1 DEF Load, Fail
    <2>2. calls' \in 0..MaxCalls /\ events' \in 0..MaxEvents
        BY <1>0 DEF Load, TypeOK, bounds
    <2> QED
        BY <1>0, <2>1, <2>2, NullTypes, SettleStep DEF Load
  <1>2. CASE ~NoCredentials
    <2> DEFINE l == [link[i] EXCEPT !.at = "refresh", !.token = row.token]
    <2>1. l \in Link /\ l.at = "refresh" /\ l.token = row.token /\ l.late = link[i].late
        BY <1>0 DEF Link, Locked, Row
    <2>2. LinkTo(i, l) /\ UNCHANGED <<row, lock, cache, rejected, job, salesforce, aged, severed, bounds>>
        BY <1>2 DEF Load
    <2>3. row.token # NoToken
        BY <1>2 DEF NoCredentials
    <2> HIDE DEF l
    <2> QED
        BY <1>0, <2>1, <2>2, <2>3, GoesOn DEF Locked
  <1> QED
      BY <1>1, <1>2

\* A refused connect reads the row again and goes on with a rotated token,
\* waits, or gives up: the token it was refused stays dead.
LEMMA RecheckStep ==
    ASSUME IInv, NEW i \in Instance, Recheck(i)
    PROVE  IInv'
  <1>0. /\ TypeOK /\ link[i] \in Link /\ row \in Row /\ link[i].at = "recheck" /\ LinkOK(i)
        /\ UNCHANGED <<row, lock, cache, rejected, job, salesforce, aged, severed, bounds>>
      BY DEF IInv, TypeOK, Recheck
  <1>1. link[i].token # NoToken /\ link[i].token \notin grants
      BY <1>0 DEF LinkOK
  <1>2. CASE NoCredentials
    <2> DEFINE l == [link[i] EXCEPT !.at = "reject"]
    <2>1. l \in Link /\ l.at = "reject" /\ l.token = link[i].token /\ l.late = link[i].late
        BY <1>0 DEF Link, Locked
    <2>2. LinkTo(i, l)
        BY <1>2 DEF Recheck
    <2> HIDE DEF l
    <2> QED
        BY <1>0, <1>1, <2>1, <2>2, GoesOn DEF Locked
  <1>3. CASE ~NoCredentials /\ row.token # link[i].token
    <2> DEFINE l == [link[i] EXCEPT !.at = "refresh", !.token = row.token, !.tries = link[i].tries + 1]
    <2>n. link[i].tries \in Nat /\ link[i].tries + 1 \in Nat /\ row.token \in Token
        BY <1>0 DEF Link, Row
    <2>1. l \in Link /\ l.at = "refresh" /\ l.token = row.token /\ l.late = link[i].late
        BY <1>0, <2>n DEF Link, Locked
    <2>2. LinkTo(i, l)
        BY <1>3 DEF Recheck
    <2>3. row.token # NoToken
        BY <1>3 DEF NoCredentials
    <2> HIDE DEF l
    <2> QED
        BY <1>0, <2>1, <2>2, <2>3, GoesOn DEF Locked
  <1>4. CASE ~NoCredentials /\ row.token = link[i].token /\ link[i].looks + 1 < MaxLooks
    <2> DEFINE l == [link[i] EXCEPT !.looks = link[i].looks + 1]
    <2>1. l \in Link /\ l.at = "recheck" /\ l.token = link[i].token /\ l.late = link[i].late
        BY <1>0 DEF Link, Locked
    <2>2. LinkTo(i, l)
        BY <1>4 DEF Recheck
    <2> HIDE DEF l
    <2> QED
        BY <1>0, <1>1, <2>1, <2>2, GoesOn DEF Locked
  <1>5. CASE ~NoCredentials /\ row.token = link[i].token /\ ~(link[i].looks + 1 < MaxLooks)
    <2> DEFINE l == [link[i] EXCEPT !.at = "reject"]
    <2>1. l \in Link /\ l.at = "reject" /\ l.token = link[i].token /\ l.late = link[i].late
        BY <1>0 DEF Link, Locked
    <2>2. LinkTo(i, l)
        BY <1>5 DEF Recheck
    <2> HIDE DEF l
    <2> QED
        BY <1>0, <1>1, <2>1, <2>2, GoesOn DEF Locked
  <1> QED
      BY <1>2, <1>3, <1>4, <1>5

\* A mint of Salesforce for a connect that stores the token, or for nobody:
\* no secret becomes known and the token that works stays within reach.
LEMMA MintEffect ==
    ASSUME IInv, NEW t \in grants, Mint(t)
    PROVE  /\ minted' \in Nat /\ minted' = minted + 1
           /\ grants' \subseteq 1..minted' /\ sessions' \subseteq 1..minted'
           /\ grants' \cap (1..minted) \subseteq grants
           /\ \A g \in grants : g # t => g \in grants'
           /\ Rotates => t \notin grants' /\ minted' \in grants'
           /\ ~Rotates => grants' = grants
  <1>1. minted \in Nat /\ grants \subseteq 1..minted /\ sessions \subseteq 1..minted
      BY DEF IInv, TypeOK
  <1>2. minted + 1 \notin grants /\ t # minted + 1
      BY <1>1
  <1> QED
      BY <1>1, <1>2 DEF Mint

\* A refresh: the token it used is dead and its successor in this instance's
\* hands, or it was dead before.
LEMMA RefreshStep ==
    ASSUME IInv, NEW i \in Instance, Refresh(i)
    PROVE  IInv'
  <1>0. /\ TypeOK /\ link[i] \in Link /\ row \in Row /\ link[i].at = "refresh" /\ LinkOK(i) /\ LockOK(i)
        /\ UNCHANGED <<row, lock, cache, rejected, job, aged, severed, bounds>>
      BY DEF IInv, TypeOK, Refresh
  <1>1. CASE link[i].token \notin grants
    <2> DEFINE l == [link[i] EXCEPT !.at = IF link[i].tries < MaxRetries THEN "recheck" ELSE "reject",
                                    !.looks = 0]
    <2>1. /\ l \in Link /\ l.at \in {"recheck", "reject"} /\ l.token = link[i].token
          /\ l.late = link[i].late
        BY <1>0 DEF Link, Locked
    <2>2. LinkTo(i, l) /\ UNCHANGED salesforce
        BY <1>1 DEF Refresh
    <2>3. link[i].token # NoToken
        BY <1>0 DEF LinkOK
    <2> HIDE DEF l
    <2> QED
        BY <1>0, <1>1, <2>1, <2>2, <2>3, GoesOn DEF Locked
  <1>2. CASE link[i].token \in grants
    <2> DEFINE t == link[i].token
               l == [link[i] EXCEPT !.at = IF Rotates THEN "persist" ELSE "publish",
                                    !.fresh = minted + 1]
    <2>1. Mint(t) /\ LinkTo(i, l)
        BY <1>2 DEF Refresh
    <2>2. /\ minted' \in Nat /\ minted' = minted + 1
          /\ grants' \subseteq 1..minted' /\ sessions' \subseteq 1..minted'
          /\ grants' \cap (1..minted) \subseteq grants
          /\ \A g \in grants : g # t => g \in grants'
          /\ Rotates => t \notin grants' /\ minted' \in grants'
          /\ ~Rotates => grants' = grants
        BY <1>2, <2>1, MintEffect
    <2>m. minted \in Nat /\ grants \subseteq 1..minted /\ minted + 1 \in Token
        BY <1>0 DEF TypeOK, Token
    <2>3. /\ l \in Link /\ l.token = t /\ l.late = link[i].late /\ l.fresh = minted + 1
          /\ l.at = IF Rotates THEN "persist" ELSE "publish"
        BY <1>0, <2>m DEF Link, Locked
    <2>4. /\ link' \in [Instance -> Link] /\ link'[i] = l
          /\ \A k \in Instance \ {i} : link'[k] = link[k]
        BY <1>0, <2>1, <2>3, LinkToEffect
    <2>a. aged' \subseteq 1..minted'
        BY <1>0, <2>2, <2>m DEF TypeOK
    <2> HIDE DEF l
    <2>5. TypeOK'
        BY <1>0, <2>2, <2>4, <2>a DEF TypeOK, bounds
    <2>6. \A k \in Instance \ {i} : LinkOK(k)' /\ LockOK(k)'
        BY <1>0, <2>2, <2>4, <2>m, OthersKeep DEF IInv
    <2>t. t \in Nat /\ t <= minted /\ t # NoToken
        BY <1>0, <2>m DEF LinkOK, Link, Token
    <2>7. LinkOK(i)' /\ LockOK(i)'
        BY <1>0, <2>2, <2>3, <2>4, <2>m, <2>t DEF LinkOK, LockOK, Locked, NoToken
    <2>8. ASSUME NEW k \in Instance, k # i, link[k].at = "persist"
          PROVE  /\ link[k].fresh # t /\ link[k].token # t
                 /\ link[k].fresh # minted + 1 /\ link[k].token # minted + 1
                 /\ row.token # link[k].fresh
                 /\ \A m \in Instance : link[m].token # link[k].fresh
      <3>1. Secret(k) /\ LinkOK(k) /\ link[k] \in Link
          BY <1>0 DEF IInv, TypeOK
      <3>2. link[k].token \notin grants /\ link[k].token <= minted /\ link[k].fresh <= minted
          BY <2>8, <3>1 DEF LinkOK
      <3>3. link[k].fresh # t /\ row.token # link[k].fresh
            /\ \A m \in Instance : link[m].token # link[k].fresh
          BY <2>8, <3>1 DEF Secret
      <3> QED
          BY <1>2, <2>m, <3>1, <3>2, <3>3 DEF Link, Token
    <2>9. ASSUME NEW m \in Instance PROVE link[m].token # minted + 1
        BY <1>0, <2>m DEF IInv, LinkOK, TypeOK, Link, Token
    <2>r. row.token # minted + 1 /\ row'.token <= minted'
        BY <1>0, <2>m, <2>2 DEF IInv, Row, Token
    <2>10. ASSUME NEW k \in Instance PROVE Secret(k)'
      <3>1. CASE k = i
          BY <1>0, <2>3, <2>4, <2>8, <2>9, <2>r, <3>1 DEF Secret
      <3>2. CASE k # i /\ link[k].at = "persist"
        <4>1. \A m \in Instance : link'[m].token = link[m].token
            BY <2>3, <2>4
        <4>2. Secret(k)
            BY DEF IInv
        <4> QED
            BY <1>0, <2>3, <2>4, <2>8, <3>2, <4>1, <4>2 DEF Secret
      <3>3. CASE k # i /\ link[k].at # "persist"
          BY <2>4, <3>3 DEF Secret
      <3> QED
          BY <3>1, <3>2, <3>3
    <2>11. StoredTokenWorks'
      <3> SUFFICES ASSUME row.status = "connected", ~severed
                   PROVE  row.token \in grants' \/ \E k \in Instance : InHand(k)'
          BY <1>0 DEF StoredTokenWorks
      <3>1. CASE row.token \in grants
        <4>1. CASE row.token = t /\ Rotates
          <5>1. InHand(i)'
              BY <1>0, <2>2, <2>3, <2>4, <4>1 DEF InHand
          <5> QED
              BY <5>1
        <4>2. CASE row.token # t \/ ~Rotates
            BY <2>2, <3>1, <4>2
        <4> QED
            BY <4>1, <4>2
      <3>2. CASE row.token \notin grants
        <4>1. PICK k \in Instance : InHand(k)
            BY <3>2 DEF IInv, StoredTokenWorks
        <4>2. k # i /\ link[k].at = "persist"
            BY <1>0, <4>1 DEF InHand
        <4>3. link[k].fresh # t
            BY <2>8, <4>2
        <4>4. InHand(k)'
            BY <1>0, <2>2, <2>4, <4>1, <4>2, <4>3 DEF InHand
        <4> QED
            BY <4>4
      <3> QED
          BY <3>1, <3>2
    <2>12. DisconnectedIsClean'
        BY <1>0 DEF IInv, DisconnectedIsClean
    <2> QED
        BY <2>5, <2>6, <2>7, <2>10, <2>11, <2>12, <2>r DEF IInv
  <1> QED
      BY <1>1, <1>2

\* A rejection marks the row only while the dead token is the stored one.
LEMMA RejectStep ==
    ASSUME IInv, NEW i \in Instance, Reject(i)
    PROVE  IInv'
  <1>0. /\ TypeOK /\ row \in Row /\ link[i].at = "reject" /\ Settle(i, NoToken)
        /\ UNCHANGED <<rejected, salesforce, aged, severed, bounds>>
      BY DEF IInv, TypeOK, Reject, Fail
  <1>1. /\ row' \in Row /\ row'.token = row.token
        /\ row'.status = "connected" => row.status = "connected"
        /\ row'.status # "connected" => row'.shared = NoToken
        /\ row'.status = "pending" => row.status = "pending"
    <2>1. DisconnectedIsClean
        BY DEF IInv
    <2> QED
        BY <1>0, <2>1, NullTypes DEF Reject, Rejected, Row, ConnectionStatus, DisconnectedIsClean
  <1>2. /\ link' \in [Instance -> Link] /\ link'[i] = NoLink
        /\ \A k \in Instance \ {i} : link'[k] = link[k] /\ (lock = k => lock' = k)
        /\ lock' \in Instance \cup {NoInstance}
        /\ cache' \in [Instance -> Token]
        /\ job' \in [Request -> Job]
      BY <1>0, NullTypes, SettleEffect
  <1>3. TypeOK'
      BY <1>0, <1>1, <1>2 DEF TypeOK, salesforce, bounds
  <1>4. LinkOK(i)' /\ LockOK(i)' /\ DisconnectedIsClean'
      BY <1>1, <1>2, <1>3, SettledKeeps DEF IInv, DisconnectedIsClean
  <1>5. NoLink \in Link /\ NoLink.at # "persist" /\ NoLink.token = NoToken
      BY NullTypes DEF NoLink
  <1> QED
      BY <1>0, <1>1, <1>2, <1>3, <1>4, <1>5, QuietStep DEF salesforce

\* Publishing a session concerns no refresh token, and a disconnected row takes
\* none.
LEMMA PublishStep ==
    ASSUME IInv, NEW i \in Instance, Publish(i)
    PROVE  IInv'
  <1> DEFINE a == IF link[i].late THEN NoToken ELSE link[i].fresh
  <1>0. /\ TypeOK /\ row \in Row /\ link[i] \in Link /\ link[i].at = "publish" /\ Settle(i, a)
        /\ UNCHANGED <<salesforce, aged, severed, bounds>>
      BY DEF IInv, TypeOK, Publish
  <1>a. a \in Token /\ link[i].fresh \in Token
      BY <1>0, NullTypes DEF Link
  <1> HIDE DEF a
  <1>1. /\ row' \in Row /\ row'.token = row.token /\ row'.status = row.status
        /\ row.status # "connected" => row'.shared = row.shared
      BY <1>0, <1>a DEF Publish, Published, Row
  <1>2. /\ link' \in [Instance -> Link] /\ link'[i] = NoLink
        /\ \A k \in Instance \ {i} : link'[k] = link[k] /\ (lock = k => lock' = k)
        /\ lock' \in Instance \cup {NoInstance}
        /\ cache' \in [Instance -> Token]
        /\ job' \in [Request -> Job]
      BY <1>0, <1>a, SettleEffect
  <1>r. rejected' \in [Instance -> Token]
      BY <1>0, NullTypes DEF Publish, TypeOK
  <1>3. TypeOK'
      BY <1>0, <1>1, <1>2, <1>r DEF TypeOK, salesforce, bounds
  <1>4. LinkOK(i)' /\ LockOK(i)' /\ DisconnectedIsClean'
      BY <1>1, <1>2, <1>3, SettledKeeps DEF IInv, DisconnectedIsClean
  <1>5. NoLink \in Link /\ NoLink.at # "persist" /\ NoLink.token = NoToken
      BY NullTypes DEF NoLink
  <1> QED
      BY <1>0, <1>1, <1>2, <1>3, <1>4, <1>5, QuietStep DEF salesforce

\* Storing what the refresh brought: the token that was stored is the dead
\* one the refresh replaced, or the row has moved on and stays as it is.
LEMMA PersistStep ==
    ASSUME IInv, NEW i \in Instance, Persist(i)
    PROVE  IInv'
  <1> DEFINE l == [link[i] EXCEPT !.at = "publish"]
  <1>0. /\ TypeOK /\ row \in Row /\ link[i] \in Link /\ link[i].at = "persist" /\ LinkTo(i, l)
        /\ LinkOK(i) /\ LockOK(i) /\ Secret(i) /\ DisconnectedIsClean
        /\ UNCHANGED <<lock, cache, rejected, job, salesforce, aged, severed, bounds>>
      BY DEF IInv, TypeOK, Persist
  <1>1. l \in Link /\ l.at = "publish" /\ l.token = link[i].token /\ l.late = link[i].late
      BY <1>0 DEF Link, Locked
  <1> HIDE DEF l
  <1>2. /\ link' \in [Instance -> Link] /\ link'[i] = l
        /\ \A k \in Instance \ {i} : link'[k] = link[k]
      BY <1>0, <1>1, LinkToEffect
  <1>3. /\ link[i].token # NoToken /\ link[i].token \notin grants
        /\ link[i].fresh # NoToken /\ link[i].fresh <= minted /\ link[i].fresh \in Token
      BY <1>0 DEF LinkOK, Link
  <1>4. /\ row' \in Row /\ row'.status = row.status /\ row'.shared = row.shared
        /\ row.token = link[i].token => row'.token = link[i].fresh
        /\ row.token # link[i].token => row' = row
      BY <1>0, <1>3 DEF Persist, Rotated, Row
  <1>5. TypeOK'
      BY <1>0, <1>2, <1>4 DEF TypeOK, salesforce, bounds
  <1>6. row'.token <= minted'
      BY <1>0, <1>3, <1>4 DEF IInv, salesforce
  <1>7. \A k \in Instance \ {i} : LinkOK(k)' /\ LockOK(k)'
    <2>1. minted' \in Nat /\ minted <= minted' /\ grants' = grants
        BY <1>0 DEF TypeOK, salesforce
    <2> QED
        BY <1>0, <1>2, <2>1, OthersKeep DEF IInv
  <1>8. LinkOK(i)' /\ LockOK(i)'
      BY <1>0, <1>1, <1>2 DEF LinkOK, LockOK, Locked, salesforce
  <1>9. ASSUME NEW k \in Instance PROVE Secret(k)'
    <2>1. CASE k = i
        BY <1>1, <1>2, <2>1 DEF Secret
    <2>2. CASE k # i
      <3>1. Secret(k)
          BY DEF IInv
      <3>2. \A m \in Instance : link'[m].token = link[m].token
          BY <1>1, <1>2
      <3>3. link[k].at = "persist" => link[i].fresh # link[k].fresh
          BY <1>0, <2>2, <3>1 DEF Secret
      <3> QED
          BY <1>1, <1>2, <1>4, <2>2, <3>1, <3>2, <3>3 DEF Secret
    <2> QED
        BY <2>1, <2>2
  <1>10. StoredTokenWorks'
    <2> SUFFICES ASSUME row.status = "connected", ~severed
                 PROVE  row'.token \in grants \/ \E k \in Instance : InHand(k)'
        BY <1>0, <1>4 DEF StoredTokenWorks, salesforce
    <2>1. CASE row.token = link[i].token
      <3>1. row.token \notin grants
          BY <1>3, <2>1
      <3>2. PICK k \in Instance : InHand(k)
          BY <3>1 DEF IInv, StoredTokenWorks
      <3>3. k = i
          BY <1>0, <2>1, <3>2 DEF InHand, Secret
      <3> QED
          BY <1>4, <2>1, <3>2, <3>3 DEF InHand
    <2>2. CASE row.token # link[i].token
      <3>1. row' = row
          BY <1>4, <2>2
      <3>2. CASE row.token \in grants
          BY <3>1, <3>2
      <3>3. CASE row.token \notin grants
        <4>1. PICK k \in Instance : InHand(k)
            BY <3>3 DEF IInv, StoredTokenWorks
        <4>2. k # i
            BY <2>2, <4>1 DEF InHand
        <4>3. InHand(k)'
            BY <1>0, <1>2, <3>1, <4>1, <4>2 DEF InHand, salesforce
        <4> QED
            BY <4>3
      <3> QED
          BY <3>2, <3>3
    <2> QED
        BY <2>1, <2>2
  <1>11. DisconnectedIsClean'
      BY <1>0, <1>3, <1>4 DEF DisconnectedIsClean
  <1> QED
      BY <1>5, <1>6, <1>7, <1>8, <1>9, <1>10, <1>11 DEF IInv

-----------------------------------------------------------------------------
(* Events                                                                  *)

\* Every event is counted within its bound.
LEMMA HappensTypes ==
    ASSUME TypeOK, NEW kind, Happens(kind)
    PROVE  calls' \in 0..MaxCalls /\ events' \in 0..MaxEvents
  BY ConnectionAssumption DEF TypeOK, Happens

\* A connect is gone: what it had not stored is lost, and if that was the
\* token that works, the tenant is severed.
LEMMA ConnectGone ==
    ASSUME IInv, TypeOK', NEW i \in Instance, link'[i] = NoLink,
           \A k \in Instance \ {i} : link'[k] = link[k] /\ (lock = k => lock' = k),
           row' = row, minted <= minted',
           grants' \cap (1..minted) \subseteq grants,
           \A g \in grants : g # link[i].token => g \in grants',
           severed => severed',
           Loses(i) => severed',
           link[i].token \in grants \ grants' /\ row.token = link[i].token => severed'
    PROVE  IInv'
  <1>1. \A k \in Instance \ {i} : LinkOK(k)' /\ LockOK(k)'
      BY OthersKeep DEF IInv, TypeOK
  <1>2. LinkOK(i)' /\ LockOK(i)'
      BY SettledKeeps
  <1>3. ASSUME NEW k \in Instance PROVE Secret(k)'
    <2>1. CASE k = i
        BY <2>1 DEF Secret, NoLink
    <2>2. CASE k # i
      <3>1. Secret(k) /\ LinkOK(k) /\ link'[k] = link[k]
          BY <2>2 DEF IInv
      <3>2. link[k].at = "persist" => link[k].fresh # NoToken
          BY <3>1 DEF LinkOK
      <3>3. \A m \in Instance : link'[m].token = link[m].token \/ link'[m] = NoLink
          OBVIOUS
      <3>4. \A m \in Instance : link'[m].at = "persist" => link'[m] = link[m]
          BY DEF NoLink
      <3>5. NoLink.token = NoToken
          BY DEF NoLink
      <3> QED
          BY <2>2, <3>1, <3>2, <3>3, <3>4, <3>5 DEF Secret
    <2> QED
        BY <2>1, <2>2
  <1>4. StoredTokenWorks'
    <2> SUFFICES ASSUME row.status = "connected", ~severed'
                 PROVE  row.token \in grants' \/ \E k \in Instance : InHand(k)'
        BY DEF StoredTokenWorks
    <2>1. CASE row.token \in grants
        BY <2>1
    <2>2. CASE row.token \notin grants
      <3>1. PICK k \in Instance : InHand(k)
          BY <2>2 DEF IInv, StoredTokenWorks
      <3>2. k # i
          BY <3>1 DEF InHand, Loses
      <3>3. link[k].fresh # link[i].token
          BY <3>1 DEF IInv, Secret, InHand
      <3>4. InHand(k)'
          BY <3>1, <3>2, <3>3 DEF InHand
      <3> QED
          BY <3>4
    <2> QED
        BY <2>1, <2>2
  <1>5. row'.token <= minted' /\ DisconnectedIsClean'
    <2>1. row \in Row /\ minted \in Nat /\ minted' \in Nat /\ row.token <= minted
        BY DEF IInv, TypeOK
    <2> QED
        BY <2>1 DEF IInv, DisconnectedIsClean, Row, Token
  <1> QED
      BY <1>1, <1>2, <1>3, <1>4, <1>5 DEF IInv

\* A connect that throws may lose what it had to store.
LEMMA ConnectFailsStep ==
    ASSUME IInv, NEW i \in Instance, ConnectFails(i)
    PROVE  IInv'
  <1>0. TypeOK /\ Settle(i, NoToken) /\ UNCHANGED <<row, rejected, salesforce, aged>>
      BY DEF IInv, ConnectFails, Fail
  <1>1. /\ link' \in [Instance -> Link] /\ link'[i] = NoLink
        /\ \A k \in Instance \ {i} : link'[k] = link[k] /\ (lock = k => lock' = k)
        /\ lock' \in Instance \cup {NoInstance}
        /\ cache' \in [Instance -> Token]
        /\ job' \in [Request -> Job]
      BY <1>0, NullTypes, SettleEffect
  <1>2. severed' \in BOOLEAN /\ (severed => severed') /\ (Loses(i) => severed')
      BY DEF ConnectFails, Loses
  <1>3. calls' \in 0..MaxCalls /\ events' \in 0..MaxEvents
      BY <1>0, HappensTypes DEF ConnectFails
  <1>4. TypeOK'
      BY <1>0, <1>1, <1>2, <1>3 DEF TypeOK, salesforce
  <1>5. minted <= minted'
      BY <1>0 DEF TypeOK, salesforce
  <1> QED
      BY <1>0, <1>1, <1>2, <1>4, <1>5, ConnectGone DEF salesforce

\* So may an instance that dies.
LEMMA CrashStep ==
    ASSUME IInv, NEW i \in Instance, Crash(i)
    PROVE  IInv'
  <1>0. TypeOK /\ UNCHANGED <<row, salesforce, aged>>
      BY DEF IInv, Crash
  <1>1. /\ link' \in [Instance -> Link] /\ link'[i] = NoLink
        /\ \A k \in Instance \ {i} : link'[k] = link[k]
      BY <1>0, NullTypes DEF Crash, TypeOK
  <1>2. /\ lock' \in Instance \cup {NoInstance}
        /\ \A k \in Instance \ {i} : lock = k => lock' = k
      BY <1>0 DEF Crash, Unlocked, TypeOK
  <1>3. severed' \in BOOLEAN /\ (severed => severed') /\ (Loses(i) => severed')
      BY DEF Crash, Loses
  <1>4. cache' \in [Instance -> Token] /\ rejected' \in [Instance -> Token] /\ job' \in [Request -> Job]
      BY <1>0, NullTypes DEF Crash, TypeOK
  <1>5. calls' \in 0..MaxCalls /\ events' \in 0..MaxEvents
      BY <1>0, HappensTypes DEF Crash
  <1>6. TypeOK'
      BY <1>0, <1>1, <1>2, <1>3, <1>4, <1>5 DEF TypeOK, salesforce
  <1>7. minted <= minted'
      BY <1>0 DEF TypeOK, salesforce
  <1> QED
      BY <1>0, <1>1, <1>2, <1>3, <1>6, <1>7, ConnectGone DEF salesforce

\* A refresh whose answer is lost leaves the stored token dead: the tenant is
\* severed, unless the row has moved on.
LEMMA LoseAnswerStep ==
    ASSUME IInv, NEW i \in Instance, LoseAnswer(i)
    PROVE  IInv'
  <1>0. /\ TypeOK /\ link[i].at = "refresh" /\ link[i].token \in grants /\ Mint(link[i].token)
        /\ Settle(i, NoToken) /\ UNCHANGED <<row, rejected, aged>>
      BY DEF IInv, LoseAnswer, Fail
  <1>1. /\ link' \in [Instance -> Link] /\ link'[i] = NoLink
        /\ \A k \in Instance \ {i} : link'[k] = link[k] /\ (lock = k => lock' = k)
        /\ lock' \in Instance \cup {NoInstance}
        /\ cache' \in [Instance -> Token]
        /\ job' \in [Request -> Job]
      BY <1>0, NullTypes, SettleEffect
  <1>2. /\ minted' \in Nat /\ minted' = minted + 1
        /\ grants' \subseteq 1..minted' /\ sessions' \subseteq 1..minted'
        /\ grants' \cap (1..minted) \subseteq grants
        /\ \A g \in grants : g # link[i].token => g \in grants'
        /\ ~Rotates => grants' = grants
      BY <1>0, MintEffect
  <1>3. minted \in Nat /\ minted <= minted' /\ aged' \subseteq 1..minted'
      BY <1>0, <1>2 DEF TypeOK
  <1>4. severed' = (severed \/ (Rotates /\ row.token = link[i].token))
      BY DEF LoseAnswer
  <1>5. severed' \in BOOLEAN
      BY <1>4
  <1>6. calls' \in 0..MaxCalls /\ events' \in 0..MaxEvents
      BY <1>0, HappensTypes DEF LoseAnswer
  <1>7. TypeOK'
      BY <1>0, <1>1, <1>2, <1>3, <1>5, <1>6 DEF TypeOK
  <1>8. ~Loses(i)
      BY <1>0 DEF Loses
  <1>9. link[i].token \in grants \ grants' /\ row.token = link[i].token => severed'
      BY <1>2, <1>4
  <1>10. severed => severed'
      BY <1>4
  <1> QED
      BY <1>0, <1>1, <1>2, <1>3, <1>7, <1>8, <1>9, <1>10, ConnectGone

\* An expired lock changes what its holder may rely on, not what it knows.
LEMMA LockExpiresStep ==
    ASSUME IInv, LockExpires
    PROVE  IInv'
  <1>0. /\ TypeOK /\ lock \in Instance /\ lock' = NoInstance
        /\ UNCHANGED <<row, cache, rejected, job, salesforce, aged, severed>>
      BY DEF IInv, LockExpires, TypeOK
  <1> DEFINE l == [link[lock] EXCEPT !.late = TRUE]
  <1>1. /\ l \in Link /\ l.at = link[lock].at /\ l.token = link[lock].token
        /\ l.fresh = link[lock].fresh /\ l.late = TRUE
    <2>1. link[lock] \in Link
        BY <1>0 DEF TypeOK
    <2> QED
        BY <2>1 DEF Link
  <1>2. LinkTo(lock, l)
      BY <1>0 DEF LockExpires, LinkTo, TypeOK
  <1> HIDE DEF l
  <1>3. /\ link' \in [Instance -> Link] /\ link'[lock] = l
        /\ \A k \in Instance \ {lock} : link'[k] = link[k]
      BY <1>0, <1>1, <1>2, LinkToEffect
  <1>4. calls' \in 0..MaxCalls /\ events' \in 0..MaxEvents
      BY <1>0, HappensTypes DEF LockExpires
  <1>5. TypeOK'
      BY <1>0, <1>3, <1>4 DEF TypeOK, salesforce
  <1>6. \A k \in Instance : /\ link'[k].at = link[k].at /\ link'[k].token = link[k].token
                            /\ link'[k].fresh = link[k].fresh
      BY <1>0, <1>1, <1>3
  <1>7. ASSUME NEW k \in Instance PROVE LinkOK(k)' /\ LockOK(k)' /\ Secret(k)'
    <2>1. LinkOK(k) /\ LockOK(k) /\ Secret(k)
        BY DEF IInv
    <2>2. LinkOK(k)'
        BY <1>0, <1>6, <2>1 DEF LinkOK, salesforce
    <2>3. LockOK(k)'
        BY <1>0, <1>1, <1>3, <2>1 DEF LockOK
    <2>4. Secret(k)'
        BY <1>0, <1>6, <2>1 DEF Secret
    <2> QED
        BY <2>2, <2>3, <2>4
  <1>8. StoredTokenWorks' /\ DisconnectedIsClean' /\ row'.token <= minted'
    <2>1. \A k \in Instance : InHand(k)' <=> InHand(k)
        BY <1>0, <1>6 DEF InHand, salesforce
    <2> QED
        BY <1>0, <2>1 DEF IInv, StoredTokenWorks, DisconnectedIsClean, salesforce
  <1> QED
      BY <1>5, <1>7, <1>8 DEF IInv

\* Tokens age, sessions end, and Salesforce revokes: connects go on.
LEMMA SalesforceStep ==
    ASSUME IInv, (\E a \in 1..minted : Age(a) \/ EndSession(a)) \/ Revoke
    PROVE  IInv'
  <1>0. TypeOK
      BY DEF IInv
  <1>1. ASSUME NEW a \in 1..minted, Age(a) PROVE IInv'
    <2>1. TypeOK'
        BY <1>0, <1>1, HappensTypes DEF Age, TypeOK, salesforce
    <2> QED
        BY <1>1, <2>1, Untouched DEF Age, salesforce
  <1>2. ASSUME NEW a \in 1..minted, EndSession(a) PROVE IInv'
    <2>1. TypeOK'
        BY <1>0, <1>2, HappensTypes DEF EndSession, TypeOK
    <2> QED
        BY <1>2, <2>1, Untouched DEF EndSession
  <1>3. CASE Revoke
    <2>1. TypeOK'
        BY <1>0, <1>3, HappensTypes DEF Revoke, TypeOK
    <2>2. \A k \in Instance : LinkOK(k)' /\ LockOK(k)' /\ Secret(k)'
        BY <1>3 DEF Revoke, IInv, LinkOK, LockOK, Secret
    <2>3. StoredTokenWorks' /\ DisconnectedIsClean' /\ row'.token <= minted'
        BY <1>3 DEF Revoke, IInv, StoredTokenWorks, DisconnectedIsClean
    <2> QED
        BY <2>1, <2>2, <2>3 DEF IInv
  <1> QED
      BY <1>1, <1>2, <1>3

\* The operator and the setup wizard replace the row under running connects.
LEMMA AdminStep ==
    ASSUME IInv, Reset \/ Authorize \/ FailHandshake
    PROVE  IInv'
  <1>0. TypeOK /\ row \in Row /\ minted \in Nat /\ grants \subseteq 1..minted
      BY DEF IInv, TypeOK
  <1>1. CASE Reset
    <2>1. row' \in Row /\ row'.token = NoToken /\ row'.shared = NoToken /\ row'.status = "pending"
        BY <1>1, NullTypes DEF Reset, Row, ConnectionStatus
    <2>2. TypeOK'
        BY <1>0, <1>1, <2>1, HappensTypes DEF Reset, TypeOK, salesforce
    <2>3. ASSUME NEW k \in Instance PROVE LinkOK(k)' /\ LockOK(k)' /\ Secret(k)'
      <3>1. LinkOK(k) /\ LockOK(k) /\ Secret(k)
          BY DEF IInv
      <3>2. link' = link /\ lock' = lock /\ minted' = minted /\ grants' = grants
          BY <1>1 DEF Reset, salesforce
      <3> QED
          BY <2>1, <3>1, <3>2 DEF LinkOK, LockOK, Secret
    <2>4. StoredTokenWorks' /\ DisconnectedIsClean' /\ row'.token <= minted'
        BY <1>0, <1>1, <2>1 DEF Reset, StoredTokenWorks, DisconnectedIsClean, NoToken, salesforce
    <2> QED
        BY <2>2, <2>3, <2>4 DEF IInv
  <1>2. CASE Authorize
    <2>1. /\ minted' = minted + 1 /\ minted' \in Nat /\ row'.token = minted + 1
          /\ row'.status = "connected" /\ row'.shared = NoToken /\ row' \in Row
          /\ grants' = grants \cup {minted + 1}
        BY <1>0, <1>2 DEF Authorize, Row, ConnectionStatus, Token, NoToken
    <2>2. TypeOK'
      <3>1. sessions' \subseteq 1..minted' /\ grants' \subseteq 1..minted' /\ aged' \subseteq 1..minted'
          BY <1>0, <1>2, <2>1 DEF Authorize, TypeOK
      <3> QED
          BY <1>0, <1>2, <2>1, <3>1, HappensTypes DEF Authorize, TypeOK
    <2>3. link' = link /\ lock' = lock
        BY <1>2 DEF Authorize
    <2>4. \A k \in Instance : LinkOK(k)' /\ LockOK(k)'
        BY <1>0, <2>1, <2>3, OthersKeep DEF IInv
    <2>5. ASSUME NEW k \in Instance PROVE Secret(k)'
      <3>1. Secret(k) /\ LinkOK(k) /\ link[k] \in Link
          BY <1>0 DEF IInv, TypeOK
      <3>2. link[k].at = "persist" => link[k].fresh # minted + 1
          BY <1>0, <3>1 DEF LinkOK, Link, Token
      <3> QED
          BY <2>1, <2>3, <3>1, <3>2 DEF Secret
    <2>6. StoredTokenWorks' /\ DisconnectedIsClean' /\ row'.token <= minted'
        BY <1>0, <2>1 DEF StoredTokenWorks, DisconnectedIsClean
    <2> QED
        BY <2>2, <2>4, <2>5, <2>6 DEF IInv
  <1>3. CASE FailHandshake
    <2>1. row' \in Row /\ row'.token = row.token /\ row'.shared = NoToken /\ row'.status = "error"
        BY <1>0, <1>3, NullTypes DEF FailHandshake, Row, ConnectionStatus
    <2>2. TypeOK'
        BY <1>0, <1>3, <2>1, HappensTypes DEF FailHandshake, TypeOK, salesforce
    <2>3. ASSUME NEW k \in Instance PROVE LinkOK(k)' /\ LockOK(k)' /\ Secret(k)'
      <3>1. LinkOK(k) /\ LockOK(k) /\ Secret(k)
          BY DEF IInv
      <3>2. link' = link /\ lock' = lock /\ minted' = minted /\ grants' = grants
          BY <1>3 DEF FailHandshake, salesforce
      <3> QED
          BY <2>1, <3>1, <3>2 DEF LinkOK, LockOK, Secret
    <2>4. StoredTokenWorks' /\ DisconnectedIsClean' /\ row'.token <= minted'
        BY <1>3, <2>1 DEF FailHandshake, IInv, StoredTokenWorks, DisconnectedIsClean, salesforce
    <2> QED
        BY <2>2, <2>3, <2>4 DEF IInv
  <1> QED
      BY <1>1, <1>2, <1>3

-----------------------------------------------------------------------------
(* Theorems                                                                *)

\* Every step keeps the invariant.
LEMMA NextIInv == IInv /\ [Next]_vars => IInv'
  <1> SUFFICES ASSUME IInv, [Next]_vars PROVE IInv'
      OBVIOUS
  <1>1. ASSUME NEW r \in Request, Begin(r) \/ Serve(r) PROVE IInv'
      BY <1>1, RequestStep, TakeStep DEF Serve
  <1>2. ASSUME NEW i \in Instance, Step(i) PROVE IInv'
      BY <1>2, EnterStep, CheckStep, LoadStep, RefreshStep, RecheckStep, RejectStep,
         PersistStep, PublishStep DEF Step
  <1>3. CASE Environment
      BY <1>3, SalesforceStep, AdminStep, ConnectFailsStep, LoseAnswerStep, CrashStep,
         LockExpiresStep DEF Environment
  <1>4. CASE UNCHANGED vars
    <2>1. TypeOK'
        BY <1>4 DEF vars, salesforce, bounds, IInv, TypeOK
    <2> QED
        BY <1>4, <2>1, Untouched DEF vars, salesforce
  <1> QED
      BY <1>1, <1>2, <1>3, <1>4 DEF Next

\* The inductive invariant holds in every reachable state, whatever steps
\* fail, locks expire, answers are lost and instances die.
THEOREM ConnectionInvariant == Spec => []IInv
  BY InitIInv, NextIInv, PTL DEF Spec

\* A connected tenant's stored token works or is in the hands of an instance
\* that is about to store its replacement, unless it was revoked or lost.
THEOREM StoredTokenWorksTheorem == Spec => []StoredTokenWorks
  <1>1. IInv => StoredTokenWorks
      BY DEF IInv
  <1> QED
      BY <1>1, ConnectionInvariant, PTL

\* A tenant that is not connected offers no session, and none of its tokens
\* comes back after a reset.
THEOREM DisconnectedIsCleanTheorem == Spec => []DisconnectedIsClean
  <1>1. IInv => DisconnectedIsClean
      BY DEF IInv
  <1> QED
      BY <1>1, ConnectionInvariant, PTL

\* Only a connect that was refused marks the tenant as rejected: when one
\* that was refused ends and the row changes, it was its own step.
LEMMA MarksIsReject ==
    ASSUME IInv, Next, NEW i \in Instance, Marks(i)
    PROVE  Reject(i)
  <1>0. TypeOK /\ link[i].at = "reject" /\ link'[i] = NoLink /\ link'[i].at = "none" /\ row' # row
      BY DEF IInv, Marks, NoLink
  <1>1. ASSUME NEW r \in Request, Begin(r) \/ Serve(r) PROVE FALSE
      BY <1>0, <1>1 DEF Begin, Serve, Look, Take, Use, Invalidate
  <1>2. ASSUME NEW k \in Instance, k # i, Step(k) PROVE FALSE
    <2>1. link'[i] = link[i]
        BY <1>0, <1>2 DEF Step, Enter, Check, Load, Refresh, Recheck, Reject, Persist, Publish,
           LinkTo, Settle, Fail, TypeOK
    <2> QED
        BY SMTT(60), <1>0, <2>1
  <1>3. ASSUME Step(i) PROVE Reject(i)
      BY <1>0, <1>3 DEF Step, Enter, Check, Load, Refresh, Recheck, Persist, Publish
  <1>4. ASSUME Environment PROVE FALSE
      BY <1>0, <1>4 DEF Environment, Age, EndSession, Revoke, Reset, Authorize, FailHandshake,
         ConnectFails, LoseAnswer, LockExpires, Crash
  <1> QED
      BY <1>1, <1>2, <1>3, <1>4 DEF Next

\* A tenant is marked as rejected only when its stored token is dead.
THEOREM OnlyDeadTokensAreRejectedTheorem == Spec => OnlyDeadTokensAreRejected
  <1>1. IInv /\ [Next]_vars => [\A i \in Instance : Marks(i) => row.token \notin grants]_vars
    <2> SUFFICES ASSUME IInv, Next, NEW i \in Instance, Marks(i)
                 PROVE  row.token \notin grants
        OBVIOUS
    <2>1. Reject(i)
        BY MarksIsReject
    <2>2. link[i].token \notin grants
        BY DEF IInv, LinkOK, Marks
    <2>3. row.token = link[i].token
        BY <2>1 DEF Reject, Rejected, Marks
    <2> QED
        BY <2>2, <2>3
  <1> QED
      BY <1>1, ConnectionInvariant, PTL DEF Spec, OnlyDeadTokensAreRejected

\* ... and not while another instance is about to store its replacement.
THEOREM NoHastyRejectionTheorem == Spec => NoHastyRejection
  <1>1. IInv /\ [Next]_vars =>
          [\A i, k \in Instance : Marks(i) /\ ~link[i].late /\ ~link[k].late => ~InHand(k)]_vars
    <2> SUFFICES ASSUME IInv, NEW i \in Instance, NEW k \in Instance,
                        Marks(i), ~link[i].late, ~link[k].late, InHand(k)
                 PROVE  FALSE
        OBVIOUS
    <2>1. link[i].at = "reject" /\ link[k].at = "persist"
        BY DEF Marks, InHand
    <2>2. lock = i /\ lock = k
        BY <2>1 DEF IInv, LockOK, Locked
    <2> QED
        BY <2>1, <2>2
  <1> QED
      BY <1>1, ConnectionInvariant, PTL DEF Spec, NoHastyRejection
=============================================================================
