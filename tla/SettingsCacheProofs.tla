------------------------- MODULE SettingsCacheProofs -------------------------
(***************************************************************************)
(* For any dealerships, readers and editors the settings cache implements  *)
(* FreshRegister: a read sees every edit that was acknowledged before it   *)
(* began.                                                                  *)
(*                                                                         *)
(* IInv follows a value from the queries to the answer: what a load has    *)
(* read (LoadOK), what is cached (EntriesFresh) and what a reader waits    *)
(* for or was given (JobOK) is never older than the reader's floor.  The   *)
(* epoch is what ties a load to the acknowledgements it has seen.          *)
(***************************************************************************)
EXTENDS SettingsCache, TLAPS

-----------------------------------------------------------------------------

\* The null values have their types.
LEMMA NullTypes ==
    Nothing \in Value /\ Unused \in LoadState /\ Idle \in Job /\ NoEdit \in Edit
  BY DEF Nothing, Value, Unused, LoadState, Idle, Job, NoEdit, Edit

\* A fresh instance satisfies the invariant.
LEMMA InitIInv == Init => IInv
  <1> SUFFICES ASSUME Init PROVE IInv
      OBVIOUS
  <1>1. TypeOK
      BY NullTypes, CacheAssumption DEF Init, TypeOK, Value
  <1>2. AckedOK
      BY DEF Init, AckedOK, Nothing
  <1>3. EntriesFresh
      BY DEF Init, EntriesFresh, Cached
  <1>4. \A x \in Reader : LoadOK(x)
      BY DEF Init, LoadOK, Unused
  <1>5. LoadingOK
      BY DEF Init, LoadingOK
  <1>6. \A r \in Reader : JobOK(r)
      BY DEF Init, JobOK, Idle
  <1> QED
      BY <1>1, <1>2, <1>3, <1>4, <1>5, <1>6 DEF IInv

\* A reader that asks gets the entry, joins the load in flight, or begins one
\* of its own, which nobody waits for yet.
LEMMA AskEffect ==
    ASSUME IInv, NEW r \in Reader, NEW k \in Scope, Ask(r, k)
    PROVE  /\ UNCHANGED <<version, entries, epoch, editor, acked, edits>>
           /\ answer' = [answer EXCEPT ![r] = Nothing]
           /\ job[r].at = "idle" /\ load[r].at = "none"
           /\ \A x \in Reader : job[x].load # r
           /\ job' \in [Reader -> Job]
           /\ \A x \in Reader \ {r} : job'[x] = job[x]
           /\ job'[r].key = k /\ job'[r].floor = acked
           /\ \/ /\ Cached(k) /\ job'[r].at = "got" /\ job'[r].value = entries[k]
                 /\ job'[r].load = NoReader
                 /\ load' = load /\ loading' = loading
              \/ /\ loading[k] # NoReader /\ job'[r].at = "wait" /\ job'[r].load = loading[k]
                 /\ load' = load /\ loading' = loading
              \/ /\ job'[r].at = "wait" /\ job'[r].load = r
                 /\ load' = [load EXCEPT ![r] = [at |-> "run", key |-> k,
                                                 startedAt |-> epoch, got |-> Nothing]]
                 /\ loading' = [loading EXCEPT ![k] = r]
  <1> DEFINE asks == [Idle EXCEPT !.key = k, !.floor = acked]
  <1>0. TypeOK /\ \A x \in Reader : LoadOK(x) /\ JobOK(x)
      BY DEF IInv
  <1>1. asks \in Job /\ asks.key = k /\ asks.floor = acked /\ asks.load = NoReader
      BY <1>0, NullTypes DEF TypeOK, Job, Idle
  <1>2. job[r].at = "idle" /\ load[r].at = "none"
      BY <1>0 DEF Ask, LoadOK
  <1>3. ASSUME NEW x \in Reader PROVE job[x].load # r
    <2>1. CASE job[x].at = "wait"
        BY <1>0, <1>2, <2>1 DEF JobOK
    <2>2. CASE job[x].at # "wait"
        BY <1>0, <2>2, CacheAssumption DEF JobOK
    <2> QED
        BY <2>1, <2>2
  <1>4. /\ UNCHANGED <<version, entries, epoch, editor, acked, edits>>
        /\ answer' = [answer EXCEPT ![r] = Nothing]
      BY DEF Ask
  <1>5. CASE /\ Cached(k)
             /\ job' = [job EXCEPT ![r] = [asks EXCEPT !.at = "got", !.value = entries[k]]]
             /\ UNCHANGED <<load, loading>>
    <2> DEFINE j == [asks EXCEPT !.at = "got", !.value = entries[k]]
    <2>1. entries[k] \in Value
        BY <1>0 DEF TypeOK
    <2>2. /\ j \in Job /\ j.at = "got" /\ j.value = entries[k] /\ j.load = NoReader
          /\ j.key = k /\ j.floor = acked
        BY <1>1, <2>1 DEF Job
    <2> HIDE DEF asks, j
    <2>3. job' = [job EXCEPT ![r] = j]
        BY <1>5 DEF j
    <2>4. job' \in [Reader -> Job] /\ job'[r] = j /\ \A x \in Reader \ {r} : job'[x] = job[x]
        BY <1>0, <2>2, <2>3 DEF TypeOK
    <2> QED
        BY <1>2, <1>3, <1>4, <1>5, <2>2, <2>4
  <1>6. CASE /\ loading[k] # NoReader
             /\ job' = [job EXCEPT ![r] = [asks EXCEPT !.at = "wait", !.load = loading[k]]]
             /\ UNCHANGED <<load, loading>>
    <2> DEFINE j == [asks EXCEPT !.at = "wait", !.load = loading[k]]
    <2>1. loading[k] \in Reader \cup {NoReader}
        BY <1>0 DEF TypeOK
    <2>2. /\ j \in Job /\ j.at = "wait" /\ j.load = loading[k]
          /\ j.key = k /\ j.floor = acked
        BY <1>1, <2>1 DEF Job
    <2> HIDE DEF asks, j
    <2>3. job' = [job EXCEPT ![r] = j]
        BY <1>6 DEF j
    <2>4. job' \in [Reader -> Job] /\ job'[r] = j /\ \A x \in Reader \ {r} : job'[x] = job[x]
        BY <1>0, <2>2, <2>3 DEF TypeOK
    <2> QED
        BY <1>2, <1>3, <1>4, <1>6, <2>2, <2>4
  <1>7. CASE /\ load' = [load EXCEPT ![r] = [at |-> "run", key |-> k,
                                             startedAt |-> epoch, got |-> Nothing]]
             /\ loading' = [loading EXCEPT ![k] = r]
             /\ job' = [job EXCEPT ![r] = [asks EXCEPT !.at = "wait", !.load = r]]
    <2> DEFINE j == [asks EXCEPT !.at = "wait", !.load = r]
    <2>1. /\ j \in Job /\ j.at = "wait" /\ j.load = r
          /\ j.key = k /\ j.floor = acked
        BY <1>1 DEF Job
    <2> HIDE DEF asks, j
    <2>2. job' = [job EXCEPT ![r] = j]
        BY <1>7 DEF j
    <2>3. job' \in [Reader -> Job] /\ job'[r] = j /\ \A x \in Reader \ {r} : job'[x] = job[x]
        BY <1>0, <2>1, <2>2 DEF TypeOK
    <2> QED
        BY <1>2, <1>3, <1>4, <1>7, <2>1, <2>3
  <1> QED
      BY <1>5, <1>6, <1>7 DEF Ask

\* A reader asks: what it is given, or waits for, is as new as what has been
\* acknowledged so far.
LEMMA AskStep ==
    ASSUME IInv, NEW r \in Reader, NEW k \in Scope, Ask(r, k)
    PROVE  IInv'
  <1> DEFINE new == [at |-> "run", key |-> k, startedAt |-> epoch, got |-> Nothing]
  <1>0. /\ TypeOK /\ AckedOK /\ EntriesFresh /\ LoadingOK
        /\ \A x \in Reader : LoadOK(x) /\ JobOK(x)
      BY DEF IInv
  <1>a. /\ UNCHANGED <<version, entries, epoch, editor, acked, edits>>
        /\ job[r].at = "idle" /\ load[r].at = "none"
        /\ \A x \in Reader : job[x].load # r
        /\ job' \in [Reader -> Job]
        /\ \A x \in Reader \ {r} : job'[x] = job[x]
        /\ job'[r].key = k /\ job'[r].floor = acked
      BY AskEffect
  <1>b. \/ /\ Cached(k) /\ job'[r].at = "got" /\ job'[r].value = entries[k]
           /\ job'[r].load = NoReader
           /\ load' = load /\ loading' = loading
        \/ /\ loading[k] # NoReader /\ job'[r].at = "wait" /\ job'[r].load = loading[k]
           /\ load' = load /\ loading' = loading
        \/ /\ job'[r].at = "wait" /\ job'[r].load = r
           /\ load' = [load EXCEPT ![r] = new]
           /\ loading' = [loading EXCEPT ![k] = r]
      BY AskEffect
  <1>1. TypeOK'
    <2>1. new \in LoadState
        BY <1>0, NullTypes DEF LoadState, TypeOK
    <2>2. /\ load' \in [Reader -> LoadState]
          /\ loading' \in [Scope -> Reader \cup {NoReader}]
        BY <1>0, <1>b, <2>1 DEF TypeOK
    <2>3. answer' \in [Reader -> Value] /\ reads' \in 0..MaxReads
        BY <1>0, NullTypes, CacheAssumption DEF Ask, TypeOK
    <2> QED
        BY <1>0, <1>a, <2>2, <2>3 DEF TypeOK
  <1>2. AckedOK'
      BY <1>0, <1>a DEF AckedOK
  <1>3. EntriesFresh'
      BY <1>0, <1>a DEF EntriesFresh, Cached, Within
  <1>4. ASSUME NEW x \in Reader PROVE LoadOK(x)'
    <2>1. CASE x # r
      <3>1. load'[x] = load[x] /\ job'[x] = job[x]
          BY <1>0, <1>a, <1>b, <2>1 DEF TypeOK
      <3> QED
          BY <1>0, <1>a, <3>1 DEF LoadOK, Current, Complete
    <2>2. CASE x = r /\ load' = load
        BY <1>0, <1>a, <2>2 DEF LoadOK
    <2>3. CASE x = r /\ load' # load
      <3>1. load'[r] = new /\ job'[r].at = "wait" /\ job'[r].load = r
          BY <1>0, <1>b, <2>3 DEF TypeOK
      <3> QED
          BY <1>0, <1>a, <3>1, <2>3, CacheAssumption
          DEF LoadOK, Current, Complete, Nothing, TypeOK, Value, Inherits, Scope
    <2> QED
        BY <2>1, <2>2, <2>3
  <1>5. LoadingOK'
    <2> SUFFICES ASSUME NEW q \in Scope, loading'[q] # NoReader
                 PROVE  /\ load'[loading'[q]].at # "none"
                        /\ load'[loading'[q]].key = q
                        /\ load'[loading'[q]].startedAt = epoch'
        BY DEF LoadingOK, Current
    <2>1. CASE load' = load /\ loading' = loading
        BY <1>0, <1>a, <2>1 DEF LoadingOK, Current
    <2>2. CASE /\ load' = [load EXCEPT ![r] = new]
               /\ loading' = [loading EXCEPT ![k] = r]
        BY <1>0, <1>a, <2>2 DEF LoadingOK, Current, TypeOK
    <2> QED
        BY <1>b, <2>1, <2>2
  <1>6. ASSUME NEW x \in Reader PROVE JobOK(x)'
    <2>1. CASE x # r
      <3>1. job[x].at = "wait" => load'[job[x].load] = load[job[x].load]
          BY <1>0, <1>a, <1>b DEF TypeOK, Job, JobOK
      <3> QED
          BY <1>0, <1>a, <2>1, <3>1 DEF JobOK, Within
    <2>2. CASE x = r
      <3>0. \A q \in Scope : acked[q] <= acked[q]
          BY <1>0 DEF TypeOK, Value
      <3>1. CASE /\ Cached(k) /\ job'[r].at = "got" /\ job'[r].value = entries[k]
                 /\ job'[r].load = NoReader
          BY <1>0, <1>a, <3>0, <3>1, <2>2 DEF JobOK, EntriesFresh, Within
      <3>2. CASE /\ loading[k] # NoReader /\ job'[r].at = "wait" /\ job'[r].load = loading[k]
                 /\ load' = load
        <4>1. loading[k] \in Reader
            BY <1>0, <3>2 DEF TypeOK
        <4> QED
            BY <1>0, <1>a, <3>0, <3>2, <4>1, <2>2 DEF JobOK, LoadingOK, LoadOK
      <3>3. CASE /\ job'[r].at = "wait" /\ job'[r].load = r
                 /\ load' = [load EXCEPT ![r] = new]
        <4>1. load'[r] = new
            BY <1>0, <3>3 DEF TypeOK
        <4>2. \A q \in Scope : new.got[q] = 0
            BY DEF Nothing
        <4>3. Inherits[k] \subseteq Scope
            BY DEF Inherits, Scope
        <4> QED
            BY <1>0, <1>a, <3>0, <3>3, <4>1, <4>2, <4>3, <2>2, CacheAssumption DEF JobOK
      <3> QED
          BY <1>b, <3>1, <3>2, <3>3
    <2> QED
        BY <2>1, <2>2
  <1> QED
      BY <1>1, <1>2, <1>3, <1>4, <1>5, <1>6 DEF IInv

\* A query reads what is stored: nothing can be newer.
LEMMA FetchStep ==
    ASSUME IInv, NEW x \in Reader, NEW s \in Scope, Fetch(x, s)
    PROVE  IInv'
  <1>0. /\ TypeOK /\ AckedOK /\ EntriesFresh /\ LoadingOK
        /\ \A y \in Reader : LoadOK(y) /\ JobOK(y)
      BY DEF IInv
  <1>a. /\ UNCHANGED <<version, entries, loading, epoch, job, answer, editor, acked, bounds>>
        /\ load' \in [Reader -> LoadState]
        /\ \A y \in Reader :
              /\ load'[y].at = load[y].at /\ load'[y].key = load[y].key
              /\ load'[y].startedAt = load[y].startedAt
              /\ \A q \in Scope :
                    \/ load'[y].got[q] = load[y].got[q]
                    \/ load'[y].got[q] = version[q] /\ load'[y].at = "run"
      BY <1>0 DEF Fetch, TypeOK, LoadState, Value
  <1>b. \A q \in Scope : Inherits[q] \subseteq Scope
      BY DEF Inherits, Scope
  <1>1. TypeOK'
      BY <1>0, <1>a DEF TypeOK, bounds
  <1>2. AckedOK'
      BY <1>0, <1>a DEF AckedOK
  <1>3. EntriesFresh'
      BY <1>0, <1>a DEF EntriesFresh, Cached, Within
  <1>4. ASSUME NEW y \in Reader PROVE LoadOK(y)'
    <2> SUFFICES ASSUME load[y].at # "none" PROVE LoadOK(y)'
        BY <1>a DEF LoadOK
    <2>1. /\ job'[y].at = "wait" /\ job'[y].load = y
          /\ load'[y].key \in Scope /\ load'[y].key = load[y].key
          /\ load'[y].startedAt <= epoch'
        BY <1>0, <1>a DEF LoadOK
    <2>2. load'[y].at = "done" => Complete(y)'
        BY <1>0, <1>a, <1>b DEF LoadOK, Complete
    <2>3. ASSUME NEW q \in Scope PROVE load'[y].got[q] <= version'[q]
      <3>1. CASE load'[y].got[q] = load[y].got[q]
          BY <1>0, <1>a, <3>1 DEF LoadOK
      <3>2. CASE load'[y].got[q] = version[q]
        <4>1. version[q] \in Nat /\ version'[q] = version[q]
            BY <1>0, <1>a DEF TypeOK, Value
        <4> QED
            BY <3>2, <4>1
      <3> QED
          BY <1>a, <3>1, <3>2
    <2>4. ASSUME Current(y)', NEW q \in Inherits[load[y].key], load'[y].got[q] # 0
          PROVE  acked'[q] <= load'[y].got[q]
        BY <1>0, <1>a, <1>b, <2>1, <2>4 DEF LoadOK, Current, AckedOK
    <2> QED
        BY <1>a, <2>1, <2>2, <2>3, <2>4 DEF LoadOK
  <1>5. LoadingOK'
      BY <1>0, <1>a DEF LoadingOK, Current, TypeOK
  <1>6. ASSUME NEW r \in Reader PROVE JobOK(r)'
    <2>1. CASE job[r].at = "wait"
      <3>1. job[r].load \in Reader /\ job[r].key \in Scope
          BY <1>0, <2>1 DEF JobOK, TypeOK, Job
      <3>2. ASSUME NEW q \in Inherits[job[r].key], load'[job[r].load].got[q] # 0
            PROVE  job[r].floor[q] <= load'[job[r].load].got[q]
        <4>1. q \in Scope
            BY <3>1, <1>b
        <4>2. CASE load'[job[r].load].got[q] = load[job[r].load].got[q]
            BY <1>0, <2>1, <3>2, <4>2 DEF JobOK
        <4>3. CASE load'[job[r].load].got[q] = version[q]
          <5>1. job[r].floor[q] <= acked[q] /\ acked[q] <= version[q]
              BY <1>0, <2>1, <4>1 DEF JobOK, AckedOK
          <5>2. job[r].floor[q] \in Nat /\ acked[q] \in Nat /\ version[q] \in Nat
              BY <1>0, <4>1 DEF TypeOK, Job, Value
          <5> QED
              BY <4>3, <5>1, <5>2
        <4> QED
            BY <1>a, <3>1, <4>1, <4>2, <4>3
      <3> QED
          BY <1>0, <1>a, <2>1, <3>1, <3>2 DEF JobOK
    <2>2. CASE job[r].at # "wait"
        BY <1>0, <1>a, <2>2 DEF JobOK, Within
    <2> QED
        BY <2>1, <2>2
  <1> QED
      BY <1>1, <1>2, <1>3, <1>4, <1>5, <1>6 DEF IInv

\* A load is cached only if nothing was acknowledged since it began.
LEMMA StoreStep ==
    ASSUME IInv, NEW x \in Reader, Store(x)
    PROVE  IInv'
  <1>0. /\ TypeOK /\ AckedOK /\ EntriesFresh /\ LoadingOK
        /\ \A y \in Reader : LoadOK(y) /\ JobOK(y)
      BY DEF IInv
  <1>a. /\ UNCHANGED <<version, loading, epoch, job, answer, editor, acked, bounds>>
        /\ load' \in [Reader -> LoadState]
        /\ load[x].at # "none"
        /\ \A y \in Reader :
              /\ load'[y].at = (IF y = x THEN "done" ELSE load[y].at)
              /\ load'[y].key = load[y].key
              /\ load'[y].startedAt = load[y].startedAt /\ load'[y].got = load[y].got
      BY <1>0 DEF Store, TypeOK, LoadState
  <1>b. entries' \in [Scope -> Value]
      BY <1>0 DEF Store, TypeOK, LoadState
  <1>1. TypeOK'
      BY <1>0, <1>a, <1>b DEF TypeOK, bounds
  <1>2. AckedOK'
      BY <1>0, <1>a DEF AckedOK
  <1>3. EntriesFresh'
    <2>1. CASE entries' = entries
        BY <1>0, <1>a, <2>1 DEF EntriesFresh, Cached, Within
    <2>2. CASE Current(x) /\ entries' = [entries EXCEPT ![load[x].key] = load[x].got]
      <3>1. load[x].key \in Scope /\ Within(load[x].key, load[x].got, acked)
          BY <1>0, <1>a, <2>2 DEF LoadOK, Store, Complete, Within
      <3> QED
          BY <1>0, <1>a, <2>2, <3>1 DEF EntriesFresh, Cached, Within, TypeOK
    <2> QED
        BY <2>1, <2>2 DEF Store
  <1>4. ASSUME NEW y \in Reader PROVE LoadOK(y)'
      BY <1>0, <1>a DEF LoadOK, Current, Complete, Store
  <1>5. LoadingOK'
      BY <1>0, <1>a DEF LoadingOK, Current, TypeOK
  <1>6. ASSUME NEW r \in Reader PROVE JobOK(r)'
    <2>1. job[r].at = "wait" => job[r].load \in Reader
        BY <1>0 DEF JobOK, TypeOK, Job
    <2> QED
        BY <1>0, <1>a, <2>1 DEF JobOK, Within
  <1> QED
      BY <1>1, <1>2, <1>3, <1>4, <1>5, <1>6 DEF IInv

\* When a load is over those who share it are no longer waiting, and what they
\* asked for and what they may expect has not changed.
LEMMA OverEffect ==
    ASSUME IInv, NEW x \in Reader, Settle(x) \/ LoadFails(x)
    PROVE  /\ UNCHANGED <<version, entries, epoch, answer, editor, acked, bounds>>
           /\ loading' = Forgotten(x)
           /\ load' = [load EXCEPT ![x] = Unused]
           /\ job' \in [Reader -> Job]
           /\ \A r \in Reader :
                 \/ job[r].load # x /\ job'[r] = job[r]
                 \/ /\ job[r].load = x /\ job[r].at = "wait"
                    /\ job'[r].at \in {"got", "refused"} /\ job'[r].load = NoReader
                    /\ job'[r].key = job[r].key /\ job'[r].floor = job[r].floor
                    /\ job'[r].at = "got" => load[x].at = "done" /\ job'[r].value = load[x].got
  <1>0. TypeOK /\ \A r \in Reader : JobOK(r)
      BY DEF IInv
  <1>1. /\ UNCHANGED <<version, entries, epoch, answer, editor, acked, bounds>>
        /\ loading' = Forgotten(x)
        /\ load' = [load EXCEPT ![x] = Unused]
      BY DEF Settle, LoadFails
  <1>2. ASSUME NEW r \in Reader
        PROVE  /\ job'[r] \in Job
               /\ \/ job[r].load # x /\ job'[r] = job[r]
                  \/ /\ job[r].load = x /\ job[r].at = "wait"
                     /\ job'[r].at \in {"got", "refused"} /\ job'[r].load = NoReader
                     /\ job'[r].key = job[r].key /\ job'[r].floor = job[r].floor
                     /\ job'[r].at = "got" => load[x].at = "done" /\ job'[r].value = load[x].got
    <2>1. job[r] \in Job /\ load[x].got \in Value
        BY <1>0 DEF TypeOK, LoadState
    <2>2. CASE job[r].load # x
        BY <2>1, <2>2 DEF Settle, LoadFails, Sharing
    <2>3. CASE job[r].load = x /\ Settle(x)
      <3>1. job[r].at = "wait"
          BY <1>0, <2>3, CacheAssumption DEF JobOK
      <3>2. job'[r] = [job[r] EXCEPT !.at = "got", !.load = NoReader, !.value = load[x].got]
          BY <2>3 DEF Settle, Sharing
      <3>3. load[x].at = "done"
          BY <2>3 DEF Settle
      <3> QED
          BY <2>1, <2>3, <3>1, <3>2, <3>3 DEF Job
    <2>4. CASE job[r].load = x /\ LoadFails(x)
      <3>1. job[r].at = "wait"
          BY <1>0, <2>4, CacheAssumption DEF JobOK
      <3>2. job'[r] = [job[r] EXCEPT !.at = "refused", !.load = NoReader]
          BY <2>4 DEF LoadFails, Sharing
      <3> QED
          BY <2>1, <2>4, <3>1, <3>2 DEF Job
    <2> QED
        BY <2>2, <2>3, <2>4
  <1>3. job' \in [Reader -> Job]
      BY <1>2 DEF Settle, LoadFails
  <1> QED
      BY <1>1, <1>2, <1>3

\* A load is over: everybody who shared it has its value, which is complete and
\* as new as each of them needs, or is refused.
LEMMA OverStep ==
    ASSUME IInv, NEW x \in Reader, Settle(x) \/ LoadFails(x)
    PROVE  IInv'
  <1>0. /\ TypeOK /\ AckedOK /\ EntriesFresh /\ LoadingOK
        /\ \A y \in Reader : LoadOK(y) /\ JobOK(y)
      BY DEF IInv
  <1>a. /\ UNCHANGED <<version, entries, epoch, answer, editor, acked, bounds>>
        /\ loading' = Forgotten(x)
        /\ load' = [load EXCEPT ![x] = Unused]
        /\ job' \in [Reader -> Job]
      BY OverEffect
  <1>b. \A r \in Reader :
           \/ job[r].load # x /\ job'[r] = job[r]
           \/ /\ job[r].load = x /\ job[r].at = "wait"
              /\ job'[r].at \in {"got", "refused"} /\ job'[r].load = NoReader
              /\ job'[r].key = job[r].key /\ job'[r].floor = job[r].floor
              /\ job'[r].at = "got" => load[x].at = "done" /\ job'[r].value = load[x].got
      BY OverEffect
  <1>1. TypeOK'
    <2>1. load' \in [Reader -> LoadState]
        BY <1>0, <1>a, NullTypes DEF TypeOK
    <2>2. loading' \in [Scope -> Reader \cup {NoReader}]
        BY <1>0, <1>a DEF TypeOK, Forgotten
    <2> QED
        BY <1>0, <1>a, <2>1, <2>2 DEF TypeOK, bounds
  <1>2. AckedOK'
      BY <1>0, <1>a DEF AckedOK
  <1>3. EntriesFresh'
      BY <1>0, <1>a DEF EntriesFresh, Cached, Within
  <1>4. ASSUME NEW y \in Reader PROVE LoadOK(y)'
    <2>1. CASE y = x
        BY <1>0, <1>a, <2>1 DEF LoadOK, Unused, TypeOK
    <2>2. CASE y # x
      <3>1. load'[y] = load[y]
          BY <1>0, <1>a, <2>2 DEF TypeOK
      <3>2. load[y].at # "none" => job'[y] = job[y]
          BY <1>0, <1>b, <2>2 DEF LoadOK
      <3> QED
          BY <1>0, <1>a, <3>1, <3>2 DEF LoadOK, Current, Complete
    <2> QED
        BY <2>1, <2>2
  <1>5. LoadingOK'
    <2> SUFFICES ASSUME NEW k \in Scope, loading'[k] # NoReader
                 PROVE  /\ load'[loading'[k]].at # "none"
                        /\ load'[loading'[k]].key = k
                        /\ load'[loading'[k]].startedAt = epoch'
        BY DEF LoadingOK, Current
    <2>1. loading[k] # x /\ loading'[k] = loading[k]
        BY <1>a DEF Forgotten
    <2>2. load'[loading[k]] = load[loading[k]]
        BY <1>0, <1>a, <2>1 DEF TypeOK
    <2> QED
        BY <1>0, <1>a, <2>1, <2>2 DEF LoadingOK, Current
  <1>6. ASSUME NEW r \in Reader PROVE JobOK(r)'
    <2>1. CASE job[r].load # x /\ job'[r] = job[r]
      <3>1. job[r].at = "wait" => load'[job[r].load] = load[job[r].load]
          BY <1>0, <1>a, <2>1 DEF TypeOK, Job, JobOK
      <3> QED
          BY <1>0, <1>a, <2>1, <3>1 DEF JobOK, Within
    <2>2. CASE /\ job[r].load = x /\ job[r].at = "wait"
               /\ job'[r].at \in {"got", "refused"} /\ job'[r].load = NoReader
               /\ job'[r].key = job[r].key /\ job'[r].floor = job[r].floor
               /\ job'[r].at = "got" => load[x].at = "done" /\ job'[r].value = load[x].got
      <3>1. load[x].at = "done" => Within(job[r].key, load[x].got, job[r].floor)
          BY <1>0, <2>2 DEF JobOK, LoadOK, Complete, Within
      <3> QED
          BY <1>0, <1>a, <2>2, <3>1 DEF JobOK, Within
    <2> QED
        BY <1>b, <2>1, <2>2
  <1> QED
      BY <1>1, <1>2, <1>3, <1>4, <1>5, <1>6 DEF IInv

\* A reader is answered, or throws, and is idle again.
LEMMA DoneStep ==
    ASSUME IInv, NEW r \in Reader, Return(r) \/ Throw(r)
    PROVE  IInv'
  <1>0. /\ TypeOK /\ AckedOK /\ EntriesFresh /\ LoadingOK
        /\ \A y \in Reader : LoadOK(y) /\ JobOK(y)
      BY DEF IInv
  <1>a. /\ UNCHANGED <<version, entries, loading, epoch, load, editor, acked, bounds>>
        /\ job[r].at \notin {"idle", "wait"}
        /\ job' = [job EXCEPT ![r] = Idle]
        /\ answer' \in [Reader -> Value]
      BY <1>0 DEF Return, Throw, TypeOK, Job
  <1>1. TypeOK'
      BY <1>0, <1>a, NullTypes DEF TypeOK, bounds
  <1>2. AckedOK'
      BY <1>0, <1>a DEF AckedOK
  <1>3. EntriesFresh'
      BY <1>0, <1>a DEF EntriesFresh, Cached, Within
  <1>4. ASSUME NEW x \in Reader PROVE LoadOK(x)'
    <2>1. load[x].at # "none" => job'[x] = job[x]
        BY <1>0, <1>a DEF LoadOK, TypeOK
    <2> QED
        BY <1>0, <1>a, <2>1 DEF LoadOK, Current, Complete
  <1>5. LoadingOK'
      BY <1>0, <1>a DEF LoadingOK, Current
  <1>6. ASSUME NEW q \in Reader PROVE JobOK(q)'
    <2>1. CASE q = r
        BY <1>0, <1>a, <2>1 DEF JobOK, Idle, TypeOK
    <2>2. CASE q # r
        BY <1>0, <1>a, <2>2 DEF JobOK, TypeOK, Within
    <2> QED
        BY <2>1, <2>2
  <1> QED
      BY <1>1, <1>2, <1>3, <1>4, <1>5, <1>6 DEF IInv

\* Entries may vanish.
LEMMA ExpireStep ==
    ASSUME IInv, NEW k \in Scope, Expire(k)
    PROVE  IInv'
  <1>0. /\ TypeOK /\ AckedOK /\ EntriesFresh /\ LoadingOK
        /\ \A y \in Reader : LoadOK(y) /\ JobOK(y)
      BY DEF IInv
  <1>a. /\ UNCHANGED <<version, loading, epoch, load, job, answer, editor, acked, bounds>>
        /\ entries' = [entries EXCEPT ![k] = Nothing]
      BY DEF Expire
  <1>1. TypeOK'
      BY <1>0, <1>a, NullTypes DEF TypeOK, bounds
  <1>2. AckedOK'
      BY <1>0, <1>a DEF AckedOK
  <1>3. EntriesFresh'
      BY <1>0, <1>a DEF EntriesFresh, Cached, Within, TypeOK
  <1>4. ASSUME NEW x \in Reader PROVE LoadOK(x)'
      BY <1>0, <1>a DEF LoadOK, Current, Complete
  <1>5. LoadingOK'
      BY <1>0, <1>a DEF LoadingOK, Current
  <1>6. ASSUME NEW r \in Reader PROVE JobOK(r)'
      BY <1>0, <1>a DEF JobOK, Within
  <1> QED
      BY <1>1, <1>2, <1>3, <1>4, <1>5, <1>6 DEF IInv

\* Somebody edits a layer: what was read of it is older now, and nothing else.
LEMMA EditStep ==
    ASSUME IInv, NEW s \in Scope,
           EditElsewhere(s) \/ \E e \in Editor : Save(e, s)
    PROVE  IInv'
  <1>0. /\ TypeOK /\ AckedOK /\ EntriesFresh /\ LoadingOK
        /\ \A y \in Reader : LoadOK(y) /\ JobOK(y)
      BY DEF IInv
  <1>a. /\ UNCHANGED <<entries, loading, epoch, load, job, answer, acked, reads>>
        /\ version' = [version EXCEPT ![s] = version[s] + 1]
        /\ edits' \in 0..MaxEdits
      BY <1>0, CacheAssumption DEF EditElsewhere, Save, TypeOK
  <1>b. version' \in Value /\ \A q \in Scope : version[q] <= version'[q]
      BY <1>0, <1>a DEF TypeOK, Value
  <1>c. /\ editor' \in [Editor -> Edit]
        /\ \A e \in Editor :
              \/ editor'[e] = editor[e]
              \/ editor'[e] = [scope |-> s, n |-> version'[s]]
    <2>1. version'[s] = version[s] + 1 /\ version'[s] \in Nat
        BY <1>0, <1>a DEF TypeOK, Value
    <2> QED
        BY <1>0, <2>1 DEF EditElsewhere, Save, TypeOK, Edit
  <1>1. TypeOK'
      BY <1>0, <1>a, <1>b, <1>c DEF TypeOK
  <1>2. AckedOK'
    <2>1. \A q \in Scope : acked[q] <= version'[q]
        BY <1>0, <1>b DEF AckedOK, TypeOK, Value
    <2>2. ASSUME NEW e \in Editor, editor'[e] # NoEdit
          PROVE  editor'[e].scope \in Scope /\ editor'[e].n <= version'[editor'[e].scope]
      <3>1. CASE editor'[e] = editor[e]
          BY <1>0, <1>b, <2>2, <3>1 DEF AckedOK, TypeOK, Value, Edit
      <3>2. CASE editor'[e] = [scope |-> s, n |-> version'[s]]
          BY <1>b, <3>2 DEF Value
      <3> QED
          BY <1>c, <3>1, <3>2
    <2> QED
        BY <1>a, <2>1, <2>2 DEF AckedOK
  <1>3. EntriesFresh'
    <2> SUFFICES ASSUME NEW k \in Scope, Cached(k) PROVE Within(k, entries[k], acked)'
        BY <1>a DEF EntriesFresh, Cached
    <2> QED
        BY <1>0, <1>a, <1>b DEF EntriesFresh, Within, TypeOK, Value
  <1>4. ASSUME NEW x \in Reader PROVE LoadOK(x)'
      BY <1>0, <1>a, <1>b DEF LoadOK, Current, Complete, TypeOK, LoadState, Value
  <1>5. LoadingOK'
      BY <1>0, <1>a DEF LoadingOK, Current
  <1>6. ASSUME NEW r \in Reader PROVE JobOK(r)'
      BY <1>0, <1>a, <1>b DEF JobOK, Within, TypeOK, Job, Value
  <1> QED
      BY <1>1, <1>2, <1>3, <1>4, <1>5, <1>6 DEF IInv

\* An invalidation drops every entry composed of the layer it acknowledges, and
\* no load that began before it can be joined or cached any more.
LEMMA InvalidateStep ==
    ASSUME IInv, NEW e \in Editor, Invalidate(e)
    PROVE  IInv'
  <1> DEFINE s == editor[e].scope
  <1>0. /\ TypeOK /\ AckedOK /\ EntriesFresh /\ LoadingOK
        /\ \A y \in Reader : LoadOK(y) /\ JobOK(y)
      BY DEF IInv
  <1>a. /\ UNCHANGED <<version, load, job, answer, bounds>>
        /\ s \in Scope /\ editor[e].n <= version[s] /\ editor[e].n \in Nat
        /\ epoch' = epoch + 1
        /\ loading' = [k \in Scope |-> NoReader]
        /\ entries' = [k \in Scope |-> IF k \in Dropped(s) THEN Nothing ELSE entries[k]]
        /\ acked' = [acked EXCEPT ![s] = IF acked[s] < editor[e].n THEN editor[e].n ELSE acked[s]]
        /\ editor' = [editor EXCEPT ![e] = NoEdit]
      BY <1>0 DEF Invalidate, AckedOK, TypeOK, Edit
  <1> HIDE DEF s
  <1>b. /\ acked' \in Value
        /\ \A q \in Scope : acked[q] <= acked'[q] /\ acked'[q] <= version[q]
        /\ \A q \in Scope \ {s} : acked'[q] = acked[q]
      BY <1>0, <1>a DEF AckedOK, TypeOK, Value
  <1>1. TypeOK'
    <2>1. entries' \in [Scope -> Value] /\ loading' \in [Scope -> Reader \cup {NoReader}]
        BY <1>0, <1>a, NullTypes DEF TypeOK
    <2>2. editor' \in [Editor -> Edit] /\ epoch' \in Nat
        BY <1>0, <1>a, NullTypes DEF TypeOK
    <2> QED
        BY <1>0, <1>a, <1>b, <2>1, <2>2 DEF TypeOK, bounds
  <1>2. AckedOK'
      BY <1>0, <1>a, <1>b DEF AckedOK, TypeOK
  <1>3. EntriesFresh'
    <2> SUFFICES ASSUME NEW k \in Scope, Cached(k)' PROVE Within(k, entries[k], acked)'
        BY DEF EntriesFresh
    <2>1. k \notin Dropped(s) /\ entries'[k] = entries[k] /\ Cached(k)
        BY <1>a DEF Cached
    <2>2. \A q \in Inherits[k] : q \in Scope \ {s}
        BY <2>1, <1>a DEF Dropped, Inherits, Scope
    <2> QED
        BY <1>0, <1>a, <1>b, <2>1, <2>2 DEF EntriesFresh, Within
  <1>4. ASSUME NEW x \in Reader PROVE LoadOK(x)'
      BY <1>0, <1>a DEF LoadOK, Current, Complete, TypeOK, LoadState
  <1>5. LoadingOK'
      BY <1>a DEF LoadingOK
  <1>6. ASSUME NEW r \in Reader PROVE JobOK(r)'
      BY <1>0, <1>a, <1>b DEF JobOK, Within, TypeOK, Job, Value
  <1> QED
      BY <1>1, <1>2, <1>3, <1>4, <1>5, <1>6 DEF IInv

\* Another organization's edit makes this one's loads useless, and harmless.
LEMMA InvalidateAnotherStep ==
    ASSUME IInv, InvalidateAnother
    PROVE  IInv'
  <1>0. /\ TypeOK /\ AckedOK /\ EntriesFresh /\ LoadingOK
        /\ \A y \in Reader : LoadOK(y) /\ JobOK(y)
      BY DEF IInv
  <1>a. /\ UNCHANGED <<version, entries, load, job, answer, editor, acked, reads>>
        /\ epoch' = epoch + 1
        /\ loading' = [k \in Scope |-> NoReader]
        /\ edits' \in 0..MaxEdits
      BY <1>0, CacheAssumption DEF InvalidateAnother, TypeOK
  <1>1. TypeOK'
      BY <1>0, <1>a DEF TypeOK
  <1>2. AckedOK'
      BY <1>0, <1>a DEF AckedOK
  <1>3. EntriesFresh'
      BY <1>0, <1>a DEF EntriesFresh, Cached, Within
  <1>4. ASSUME NEW x \in Reader PROVE LoadOK(x)'
      BY <1>0, <1>a DEF LoadOK, Current, Complete, TypeOK, LoadState
  <1>5. LoadingOK'
      BY <1>a DEF LoadingOK
  <1>6. ASSUME NEW r \in Reader PROVE JobOK(r)'
      BY <1>0, <1>a DEF JobOK, Within
  <1> QED
      BY <1>1, <1>2, <1>3, <1>4, <1>5, <1>6 DEF IInv

\* Every step keeps the invariant.
LEMMA NextIInv == IInv /\ [Next]_vars => IInv'
  <1> SUFFICES ASSUME IInv, [Next]_vars PROVE IInv'
      OBVIOUS
  <1>1. CASE Next
      BY <1>1, AskStep, FetchStep, StoreStep, OverStep, DoneStep, ExpireStep, EditStep,
         InvalidateStep, InvalidateAnotherStep
      DEF Next, Progress
  <1>2. CASE UNCHANGED vars
      BY <1>2
      DEF vars, bounds, IInv, TypeOK, AckedOK, EntriesFresh, Cached, Within, LoadOK, Current,
          Complete, LoadingOK, JobOK
  <1> QED
      BY <1>1, <1>2

\* The inductive invariant holds in every reachable state.
THEOREM CacheInvariant == Spec => []IInv
  BY InitIInv, NextIInv, PTL DEF Spec

-----------------------------------------------------------------------------
(* The refinement                                                          *)

\* An instance that starts has answered nobody.
LEMMA InitRefines == Init => Register!Init
  BY DEF Init, Register!Init, Nothing, Register!Nothing, Idle, Register!Idle

\* Every step of the cache is one of the register's, or none: a read begins when
\* a reader asks, and ends with a value the register allows.
LEMMA NextRefines == IInv /\ [Next]_vars => [Register!Next]_(Register!vars)
  <1> DEFINE mapped == [r \in Reader |->
                           [at |-> IF job[r].at = "idle" THEN "idle" ELSE "reading",
                            key |-> job[r].key, floor |-> job[r].floor]]
  <1> SUFFICES ASSUME IInv, [Next]_vars PROVE Register!Next \/ UNCHANGED Register!vars
      OBVIOUS
  <1>0. TypeOK /\ AckedOK /\ \A x \in Reader : LoadOK(x) /\ JobOK(x)
      BY DEF IInv
  <1>1. ASSUME NEW r \in Reader, NEW k \in Scope, Ask(r, k)
        PROVE  Register!Next
    <2>1. /\ job[r].at = "idle" /\ job'[r].at # "idle"
          /\ job'[r].key = k /\ job'[r].floor = acked
          /\ \A q \in Reader \ {r} : job'[q] = job[q]
          /\ UNCHANGED <<version, acked>>
          /\ answer' = [answer EXCEPT ![r] = Nothing]
        BY <1>1, AskEffect
    <2>2. mapped' = [mapped EXCEPT ![r] = [at |-> "reading", key |-> k, floor |-> acked]]
        BY <2>1
    <2>3. Register!Begin(r, k)
        BY <2>1, <2>2 DEF Register!Begin, Nothing, Register!Nothing
    <2> QED
        BY <2>3 DEF Register!Next
  <1>2. ASSUME NEW r \in Reader, Return(r)
        PROVE  Register!Next
    <2>1. /\ job[r].at = "got" /\ job' = [job EXCEPT ![r] = Idle]
          /\ answer' = [answer EXCEPT ![r] = job[r].value]
          /\ UNCHANGED <<version, acked>>
        BY <1>2 DEF Return
    <2>2. mapped' = [mapped EXCEPT ![r] = Register!Idle]
        BY <1>0, <2>1 DEF Idle, Register!Idle, Nothing, Register!Nothing, TypeOK
    <2>3. /\ job[r].key \in Scope /\ job[r].value \in Value
          /\ Within(job[r].key, job[r].value, job[r].floor)
        BY <1>0, <2>1 DEF JobOK, TypeOK, Job
    <2>4. job[r].value \in [Scope -> Register!Stored]
        BY <1>0, <2>3 DEF Within, Register!Stored, Value, TypeOK
    <2>5. Inherits[job[r].key] \subseteq Scope
        BY <2>3 DEF Inherits, Scope
    <2>6. PICK v \in [Scope -> Register!Stored] : v = job[r].value
        BY <2>4
    <2>7. Register!Answer(r, v)
        BY <2>1, <2>2, <2>3, <2>5, <2>6 DEF Register!Answer, Register!Fresh, Within
    <2> QED
        BY <2>7 DEF Register!Next
  <1>3. ASSUME NEW r \in Reader, Throw(r)
        PROVE  Register!Next
    <2>1. /\ job[r].at = "refused" /\ job' = [job EXCEPT ![r] = Idle]
          /\ UNCHANGED <<version, acked, answer>>
        BY <1>3 DEF Throw
    <2>2. mapped' = [mapped EXCEPT ![r] = Register!Idle]
        BY <1>0, <2>1 DEF Idle, Register!Idle, Nothing, Register!Nothing, TypeOK
    <2>3. Register!Fail(r)
        BY <2>1, <2>2 DEF Register!Fail
    <2> QED
        BY <2>3 DEF Register!Next
  <1>4. ASSUME NEW x \in Reader, Settle(x) \/ LoadFails(x)
        PROVE  UNCHANGED Register!vars
    <2>1. \A r \in Reader :
             /\ job[r].at = "idle" <=> job'[r].at = "idle"
             /\ job'[r].key = job[r].key /\ job'[r].floor = job[r].floor
        BY <1>4, OverEffect
    <2>2. mapped' = mapped
        BY <2>1
    <2> QED
        BY <1>4, <2>2 DEF Settle, LoadFails, Register!vars
  <1>5. ASSUME NEW s \in Scope, EditElsewhere(s) \/ \E e \in Editor : Save(e, s)
        PROVE  Register!Next
    <2>1. Register!Edit(s)
        BY <1>5 DEF EditElsewhere, Save, Register!Edit
    <2> QED
        BY <2>1 DEF Register!Next
  <1>6. ASSUME NEW e \in Editor, Invalidate(e)
        PROVE  Register!Next \/ UNCHANGED Register!vars
    <2> DEFINE s == editor[e].scope
               n == editor[e].n
    <2>1. /\ s \in Scope /\ n \in Nat /\ n <= version[s] /\ acked[s] \in Nat
          /\ UNCHANGED <<version, job, answer>>
          /\ acked' = [acked EXCEPT ![s] = IF acked[s] < n THEN n ELSE acked[s]]
        BY <1>0, <1>6 DEF Invalidate, AckedOK, TypeOK, Edit, Value
    <2> HIDE DEF s, n
    <2>2. CASE acked[s] < n
      <3>1. Register!Acknowledge(s, n) /\ n \in 1..version[s]
          BY <1>0, <2>1, <2>2 DEF Register!Acknowledge, TypeOK, Value
      <3> QED
          BY <2>1, <3>1 DEF Register!Next
    <2>3. CASE ~(acked[s] < n)
        BY <1>0, <2>1, <2>3 DEF Register!vars, TypeOK, Value
    <2> QED
        BY <2>2, <2>3
  <1>7. ASSUME \/ \E x \in Reader : Store(x) \/ \E s \in Scope : Fetch(x, s)
               \/ \E k \in Scope : Expire(k)
               \/ InvalidateAnother
               \/ UNCHANGED vars
        PROVE  UNCHANGED Register!vars
      BY <1>7 DEF Store, Fetch, Expire, InvalidateAnother, vars, Register!vars
  <1> QED
      BY <1>1, <1>2, <1>3, <1>4, <1>5, <1>6, <1>7 DEF Next, Progress

\* The cache implements the register: on one instance no read returns settings
\* older than the last edit acknowledged before it began.
THEOREM FreshReadsTheorem == Spec => FreshReads
  BY InitRefines, NextRefines, CacheInvariant, PTL DEF Spec, FreshReads, Register!Spec
-----------------------------------------------------------------------------
(* One load per key                                                        *)

\* A load of the current epoch is the one in flight for its key; older ones
\* can only become fewer.
Registered == \A x \in Reader : load[x].at # "none" /\ Current(x) => loading[load[x].key] = x

\* A load that begins finds none in flight for its key, so none of its epoch.
LEMMA AskRegisters ==
    ASSUME IInv, Registered, OneLoadPerKey, NEW r \in Reader, NEW k \in Scope, Ask(r, k)
    PROVE  Registered' /\ OneLoadPerKey'
  <1>0. TypeOK /\ epoch' = epoch
      BY DEF IInv, Ask
  <1>1. CASE UNCHANGED <<load, loading>>
      BY <1>0, <1>1 DEF Registered, OneLoadPerKey, Current
  <1>2. CASE /\ loading[k] = NoReader
             /\ load' = [load EXCEPT ![r] = [at |-> "run", key |-> k, startedAt |-> epoch, got |-> Nothing]]
             /\ loading' = [loading EXCEPT ![k] = r]
    <2>1. /\ load'[r].key = k /\ load'[r].startedAt = epoch /\ loading'[k] = r
          /\ \A x \in Reader \ {r} : load'[x] = load[x]
          /\ \A s \in Scope \ {k} : loading'[s] = loading[s]
        BY <1>0, <1>2 DEF TypeOK
    <2>2. ASSUME NEW x \in Reader \ {r}, load[x].at # "none", Current(x)
          PROVE  load[x].key \in Scope \ {k}
        BY <1>2, <2>2, CacheAssumption DEF IInv, LoadOK, Registered
    <2>3. Registered'
        BY <1>0, <2>1, <2>2 DEF Registered, Current
    <2>4. OneLoadPerKey'
        BY <2>1, <2>2 DEF OneLoadPerKey, Current
    <2> QED
        BY <2>3, <2>4
  <1> QED
      BY <1>1, <1>2 DEF Ask

\* A load that goes on, or is over, was registered under its own name.
LEMMA ProgressRegisters ==
    ASSUME IInv, Registered, OneLoadPerKey, NEW x \in Reader, Progress(x) \/ LoadFails(x)
    PROVE  Registered' /\ OneLoadPerKey'
  <1>0. TypeOK /\ \A y \in Reader : LoadOK(y)
      BY DEF IInv
  <1>1. CASE \E s \in Scope : Fetch(x, s)
    <2>1. /\ loading' = loading /\ epoch' = epoch
          /\ \A y \in Reader : /\ load'[y].at = load[y].at /\ load'[y].key = load[y].key
                               /\ load'[y].startedAt = load[y].startedAt
        BY <1>0, <1>1 DEF Fetch, TypeOK, LoadState
    <2> QED
        BY <2>1 DEF Registered, OneLoadPerKey, Current
  <1>2. CASE Store(x)
    <2>1. /\ loading' = loading /\ epoch' = epoch /\ load[x].at = "run"
          /\ \A y \in Reader : /\ load'[y].at = (IF y = x THEN "done" ELSE load[y].at)
                               /\ load'[y].key = load[y].key /\ load'[y].startedAt = load[y].startedAt
        BY <1>0, <1>2 DEF Store, TypeOK, LoadState
    <2> QED
        BY <2>1 DEF Registered, OneLoadPerKey, Current
  <1>3. CASE Settle(x) \/ LoadFails(x)
    <2>1. /\ epoch' = epoch /\ loading' = Forgotten(x) /\ load' = [load EXCEPT ![x] = Unused]
        BY <1>3, OverEffect
    <2>2. load'[x].at = "none" /\ \A y \in Reader \ {x} : load'[y] = load[y]
        BY <1>0, <2>1 DEF TypeOK, Unused
    <2>3. \A y \in Reader \ {x}, k \in Scope : loading[k] = y => loading'[k] = y
        BY <2>1 DEF Forgotten
    <2> QED
        BY <1>0, <2>1, <2>2, <2>3 DEF Registered, OneLoadPerKey, Current, LoadOK
  <1> QED
      BY <1>1, <1>2, <1>3 DEF Progress

\* An invalidation ends the epoch: no load is of the new one.
LEMMA InvalidationRegisters ==
    ASSUME IInv, Registered, OneLoadPerKey, InvalidateAnother \/ \E e \in Editor : Invalidate(e)
    PROVE  Registered' /\ OneLoadPerKey'
  <1>1. load' = load /\ epoch' = epoch + 1
      BY DEF Invalidate, InvalidateAnother
  <1>2. \A x \in Reader : load[x].at # "none" => load[x].startedAt \in Nat /\ load[x].startedAt <= epoch /\ epoch \in Nat
      BY DEF IInv, LoadOK, TypeOK, LoadState
  <1> QED
      BY <1>1, <1>2 DEF Registered, OneLoadPerKey, Current

\* Of the loads of one key that began in one epoch, one is in flight: what a
\* late load of an earlier epoch forgets, and an invalidation drops, never makes
\* a second one of the same epoch (dealership-settings-cache.ts:34).
THEOREM OneLoadPerKeyTheorem == Spec => []OneLoadPerKey
  <1>1. Init => Registered /\ OneLoadPerKey
      BY DEF Init, Registered, OneLoadPerKey, Unused
  <1>2. IInv /\ Registered /\ OneLoadPerKey /\ [Next]_vars => Registered' /\ OneLoadPerKey'
    <2> SUFFICES ASSUME IInv, Registered, OneLoadPerKey, [Next]_vars PROVE Registered' /\ OneLoadPerKey'
        OBVIOUS
    <2>1. CASE UNCHANGED <<load, loading, epoch>>
        BY <2>1 DEF Registered, OneLoadPerKey, Current
    <2>2. CASE \E r \in Reader, k \in Scope : Ask(r, k)
        BY <2>2, AskRegisters
    <2>3. CASE \E x \in Reader : Progress(x) \/ LoadFails(x)
        BY <2>3, ProgressRegisters
    <2>4. CASE InvalidateAnother \/ \E e \in Editor : Invalidate(e)
        BY <2>4, InvalidationRegisters
    <2> QED
        BY <2>1, <2>2, <2>3, <2>4 DEF Next, Return, Throw, Expire, EditElsewhere, Save, vars
  <1> QED
      BY <1>1, <1>2, CacheInvariant, PTL DEF Spec
=============================================================================
