---------------------------- MODULE SettingsCache ----------------------------
(***************************************************************************)
(* The settings of one organization as one instance of the API caches      *)
(* them: DealershipSettingsCache and its users (booking schedule, regional *)
(* settings, branding, feature flags).  A dealership inherits what it does *)
(* not set from the company, so its resolved settings are loaded from two  *)
(* layers, in two queries, and an edit of the company's drops them too.    *)
(*                                                                         *)
(* A layer is the version of its last edit; resolved settings are the      *)
(* versions they were composed of.  What the settings say is left out.     *)
(*                                                                         *)
(* Sources: config/dealership-settings-cache.ts, the resolve() of its      *)
(* users and the save() of the admin services that edit them.              *)
(***************************************************************************)
EXTENDS Integers

CONSTANTS
    Dealership,
    Company,        \* the company-wide scope
    NoScope,
    Reader,         \* requests that resolve settings
    Editor,         \* requests that edit them
    NoReader,
    MaxReads,       \* bound on the number of reads
    MaxEdits        \* bound on the number of edits, here and elsewhere

ASSUME CacheAssumption ==
    /\ Company \notin Dealership
    /\ NoScope \notin Dealership \cup {Company}
    /\ NoReader \notin Reader
    /\ MaxReads \in Nat /\ MaxEdits \in Nat

VARIABLES
    version,    \* data provider: the version of each layer
    entries,    \* the cached settings of each scope
    loading,    \* the load in flight of each scope
    epoch,      \* bumped by every invalidation
    load,       \* the load each reader has begun: it awaits it to the end
    job,        \* what each reader is doing
    answer,     \* the settings each reader was given
    editor,     \* what each editor is doing
    acked,      \* history: the version of each layer acknowledged last
    reads,      \* how many reads have begun
    edits       \* how many edits have been made

bounds == <<reads, edits>>
vars == <<version, entries, loading, epoch, load, job, answer, editor, acked, bounds>>

-----------------------------------------------------------------------------
(* Types                                                                   *)

\* Both the keys of the cache and the layers they are composed of.
Scope == Dealership \cup {Company}
Inherits == [s \in Scope |-> {s, Company}]

\* Version 0 of a layer: it was not read.
Value == [Scope -> Nat]
Nothing == [s \in Scope |-> 0]

LoadState == [at : {"none", "run", "done"}, key : Scope \cup {NoScope},
              startedAt : Nat, got : Value]
Unused == [at |-> "none", key |-> NoScope, startedAt |-> 0, got |-> Nothing]

\* A reader waits for `load`, has got `value`, or is refused; floor: what had been
\* acknowledged when it began.
Job == [at : {"idle", "wait", "got", "refused"}, key : Scope \cup {NoScope},
        load : Reader \cup {NoReader}, value : Value, floor : Value]
Idle == [at |-> "idle", key |-> NoScope, load |-> NoReader, value |-> Nothing,
         floor |-> Nothing]

\* An editor whose version n of a layer is stored, but not yet acknowledged.
Edit == [scope : Scope \cup {NoScope}, n : Nat]
NoEdit == [scope |-> NoScope, n |-> 0]

Cached(k) == entries[k] # Nothing

\* Every layer of the load's key has been read.
Complete(x) == \A s \in Inherits[load[x].key] : load[x].got[s] # 0

-----------------------------------------------------------------------------
(* Reading: getOrLoad                                                      *)

\* The entry, the load in flight, or a new load.
Ask(r, k) ==
    LET asks == [Idle EXCEPT !.key = k, !.floor = acked] IN
    /\ job[r].at = "idle"
    /\ reads < MaxReads
    /\ reads' = reads + 1
    /\ \/ /\ Cached(k)
          /\ job' = [job EXCEPT ![r] = [asks EXCEPT !.at = "got", !.value = entries[k]]]
          /\ UNCHANGED <<load, loading>>
       \/ /\ ~Cached(k)
          /\ loading[k] # NoReader
          /\ job' = [job EXCEPT ![r] = [asks EXCEPT !.at = "wait", !.load = loading[k]]]
          /\ UNCHANGED <<load, loading>>
       \/ /\ ~Cached(k)
          /\ loading[k] = NoReader
          /\ load' = [load EXCEPT ![r] = [at |-> "run", key |-> k,
                                          startedAt |-> epoch, got |-> Nothing]]
          /\ loading' = [loading EXCEPT ![k] = r]
          /\ job' = [job EXCEPT ![r] = [asks EXCEPT !.at = "wait", !.load = r]]
    /\ answer' = [answer EXCEPT ![r] = Nothing]
    /\ UNCHANGED <<version, entries, epoch, editor, acked, edits>>

\* A query of the load returns one layer.
Fetch(x, s) ==
    /\ load[x].at = "run"
    /\ s \in Inherits[load[x].key]
    /\ load[x].got[s] = 0
    /\ load' = [load EXCEPT ![x].got[s] = version[s]]
    /\ UNCHANGED <<version, entries, loading, epoch, job, answer, editor, acked, bounds>>

\* Nothing was invalidated since the load began.
AnyEpoch(x) == TRUE
Current(x) == load[x].startedAt = epoch

\* The load has its value, and caches it.
Store(x) ==
    /\ load[x].at = "run"
    /\ Complete(x)
    /\ load' = [load EXCEPT ![x].at = "done"]
    /\ entries' = IF Current(x) THEN [entries EXCEPT ![load[x].key] = load[x].got] ELSE entries
    /\ UNCHANGED <<version, loading, epoch, job, answer, editor, acked, bounds>>

\* finally(): the load in flight is forgotten if it still is this one.
AlwaysForgotten(x) == [loading EXCEPT ![load[x].key] = NoReader]
Forgotten(x) == [k \in Scope |-> IF loading[k] = x THEN NoReader ELSE loading[k]]

\* Those who share load x; the weaker form asks the map of loads in flight.
StillShared(x) == {r \in Reader : job[r].load = x /\ loading[job[r].key] = x}
Sharing(x) == {r \in Reader : job[r].load = x}

Settle(x) ==
    /\ load[x].at = "done"
    /\ loading' = Forgotten(x)
    /\ job' = [r \in Reader |->
                  IF r \in Sharing(x)
                  THEN [job[r] EXCEPT !.at = "got", !.load = NoReader, !.value = load[x].got]
                  ELSE job[r]]
    /\ load' = [load EXCEPT ![x] = Unused]
    /\ UNCHANGED <<version, entries, epoch, answer, editor, acked, bounds>>

\* A query throws, and the load with it; its sharers throw one after another.
LoadFails(x) ==
    /\ load[x].at = "run"
    /\ loading' = Forgotten(x)
    /\ job' = [r \in Reader |->
                  IF r \in Sharing(x) THEN [job[r] EXCEPT !.at = "refused", !.load = NoReader]
                  ELSE job[r]]
    /\ load' = [load EXCEPT ![x] = Unused]
    /\ UNCHANGED <<version, entries, epoch, answer, editor, acked, bounds>>

Return(r) ==
    /\ job[r].at = "got"
    /\ answer' = [answer EXCEPT ![r] = job[r].value]
    /\ job' = [job EXCEPT ![r] = Idle]
    /\ UNCHANGED <<version, entries, loading, epoch, load, editor, acked, bounds>>

Throw(r) ==
    /\ job[r].at = "refused"
    /\ job' = [job EXCEPT ![r] = Idle]
    /\ UNCHANGED <<version, entries, loading, epoch, load, answer, editor, acked, bounds>>

\* An entry comes to its TTL, or goes when the cache is full.
Expire(k) ==
    /\ Cached(k)
    /\ entries' = [entries EXCEPT ![k] = Nothing]
    /\ UNCHANGED <<version, loading, epoch, load, job, answer, editor, acked, bounds>>

-----------------------------------------------------------------------------
(* Editing: save() of the admin services                                   *)

Save(e, s) ==
    /\ editor[e] = NoEdit
    /\ edits < MaxEdits
    /\ edits' = edits + 1
    /\ version' = [version EXCEPT ![s] = version[s] + 1]
    /\ editor' = [editor EXCEPT ![e] = [scope |-> s, n |-> version[s] + 1]]
    /\ UNCHANGED <<entries, loading, epoch, load, job, answer, acked, reads>>

\* What an edit of scope s drops: every scope inherits the company's.
OnlyItself(s) == {s}
Dropped(s) == IF s = Company THEN Scope ELSE {s}

\* invalidate(), and with it the edit is acknowledged on this instance.
Invalidate(e) ==
    LET s == editor[e].scope IN
    /\ editor[e] # NoEdit
    /\ epoch' = epoch + 1
    /\ loading' = [k \in Scope |-> NoReader]
    /\ entries' = [k \in Scope |-> IF k \in Dropped(s) THEN Nothing ELSE entries[k]]
    /\ acked' = [acked EXCEPT ![s] = IF acked[s] < editor[e].n THEN editor[e].n ELSE acked[s]]
    /\ editor' = [editor EXCEPT ![e] = NoEdit]
    /\ UNCHANGED <<version, load, job, answer, bounds>>

\* Another instance, Salesforce's own pages, or a save whose answer is lost.
EditElsewhere(s) ==
    /\ edits < MaxEdits
    /\ edits' = edits + 1
    /\ version' = [version EXCEPT ![s] = version[s] + 1]
    /\ UNCHANGED <<entries, loading, epoch, load, job, answer, editor, acked, reads>>

\* The epoch and the loads are of every organization this instance serves.
InvalidateAnother ==
    /\ edits < MaxEdits
    /\ edits' = edits + 1
    /\ epoch' = epoch + 1
    /\ loading' = [k \in Scope |-> NoReader]
    /\ UNCHANGED <<version, entries, load, job, answer, editor, acked, reads>>

-----------------------------------------------------------------------------

Init ==
    /\ version = [s \in Scope |-> 1]
    /\ entries = [k \in Scope |-> Nothing]
    /\ loading = [k \in Scope |-> NoReader]
    /\ epoch = 0
    /\ load = [x \in Reader |-> Unused]
    /\ job = [r \in Reader |-> Idle]
    /\ answer = [r \in Reader |-> Nothing]
    /\ editor = [e \in Editor |-> NoEdit]
    /\ acked = Nothing
    /\ reads = 0
    /\ edits = 0

Progress(x) == (\E s \in Scope : Fetch(x, s)) \/ Store(x) \/ Settle(x)

Next ==
    \/ \E r \in Reader : Return(r) \/ Throw(r) \/ \E k \in Scope : Ask(r, k)
    \/ \E x \in Reader : Progress(x) \/ LoadFails(x)
    \/ \E s \in Scope : Expire(s) \/ EditElsewhere(s) \/ \E e \in Editor : Save(e, s)
    \/ \E e \in Editor : Invalidate(e)
    \/ InvalidateAnother

Spec == Init /\ [][Next]_vars

\* Queries are answered, or throw, and the event loop runs what is ready.
Fairness ==
    /\ \A x \in Reader : WF_vars(Progress(x))
    /\ \A r \in Reader : WF_vars(Return(r) \/ Throw(r))

FairSpec == Spec /\ Fairness

-----------------------------------------------------------------------------
(* Properties                                                              *)

TypeOK ==
    /\ version \in Value
    /\ entries \in [Scope -> Value]
    /\ loading \in [Scope -> Reader \cup {NoReader}]
    /\ epoch \in Nat
    /\ load \in [Reader -> LoadState]
    /\ job \in [Reader -> Job]
    /\ answer \in [Reader -> Value]
    /\ editor \in [Editor -> Edit]
    /\ acked \in Value
    /\ reads \in 0..MaxReads
    /\ edits \in 0..MaxEdits

\* A burst of requests for one cold key makes one call to the data provider:
\* of the loads of one key that began in one epoch, one is in flight
\* (dealership-settings-cache.ts:12).
OneLoadPerKey ==
    \A x, y \in Reader :
        /\ load[x].at # "none" /\ load[y].at # "none"
        /\ load[x].key = load[y].key
        /\ load[x].startedAt = load[y].startedAt
        => x = y

\* Everybody who waits for a load is answered or refused, also when the load
\* was no longer the one in flight.
EveryReadEnds == \A r \in Reader : job[r].at # "idle" ~> job[r].at = "idle"

\* What a cache promises, seen by readers and editors only.
Register == INSTANCE FreshRegister WITH
    Key <- Scope, NoKey <- NoScope, Layer <- Scope,
    reads <- [r \in Reader |-> [at |-> IF job[r].at = "idle" THEN "idle" ELSE "reading",
                                key |-> job[r].key, floor |-> job[r].floor]]

\* A read that begins after an edit was acknowledged on this instance sees it,
\* through any number of layers, loads and invalidations
\* (dealership-settings-cache.ts:14).
FreshReads == Register!Spec

-----------------------------------------------------------------------------
(* The inductive invariant                                                 *)

\* v holds versions that are stored and, of the layers of key k, no older ones
\* than `floor`.
Within(k, v, floor) ==
    /\ \A s \in Scope : v[s] <= version[s]
    /\ \A s \in Inherits[k] : floor[s] <= v[s]

\* Versions an acknowledgement may name exist.
AckedOK ==
    /\ \A s \in Scope : acked[s] <= version[s]
    /\ \A e \in Editor : editor[e] # NoEdit => editor[e].scope \in Scope /\ editor[e].n <= version[editor[e].scope]

EntriesFresh == \A k \in Scope : Cached(k) => Within(k, entries[k], acked)

\* The reader that began a load awaits it.  What it has read in this epoch is
\* as new as what has been acknowledged.
LoadOK(x) ==
    load[x].at # "none" =>
        /\ job[x].at = "wait" /\ job[x].load = x
        /\ load[x].key \in Scope
        /\ load[x].startedAt <= epoch
        /\ load[x].at = "done" => Complete(x)
        /\ \A s \in Scope : load[x].got[s] <= version[s]
        /\ Current(x) => \A s \in Inherits[load[x].key] :
                            load[x].got[s] # 0 => acked[s] <= load[x].got[s]

\* Only loads of this epoch may be joined.
LoadingOK ==
    \A k \in Scope : loading[k] # NoReader =>
        load[loading[k]].at # "none" /\ load[loading[k]].key = k /\ Current(loading[k])

\* A reader's value, or what its load has read so far, is fresh enough for it.
JobOK(r) ==
    LET j == job[r] IN
    /\ j.at # "idle" => j.key \in Scope /\ \A s \in Scope : j.floor[s] <= acked[s]
    /\ j.at = "got" => Within(j.key, j.value, j.floor)
    /\ j.at = "wait" =>
          /\ j.load # NoReader
          /\ load[j.load].at # "none"
          /\ load[j.load].key = j.key
          /\ \A s \in Inherits[j.key] :
                load[j.load].got[s] # 0 => j.floor[s] <= load[j.load].got[s]
    /\ j.at # "wait" => j.load = NoReader

\* Holds in every reachable state and is kept by every step.
IInv ==
    /\ TypeOK
    /\ AckedOK
    /\ EntriesFresh
    /\ \A x \in Reader : LoadOK(x)
    /\ LoadingOK
    /\ \A r \in Reader : JobOK(r)
=============================================================================
