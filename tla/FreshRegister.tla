---------------------------- MODULE FreshRegister ----------------------------
(***************************************************************************)
(* What a cache in front of the data provider promises on one instance of  *)
(* the API: a read that begins after an edit was acknowledged there sees   *)
(* that edit, and nobody sees what was never stored.  A setting is         *)
(* composed of layers (a dealership's own and the company's), each at some *)
(* version.                                                                *)
(*                                                                         *)
(* The promise is stated in config/dealership-settings-cache.ts:5-14 and   *)
(* admin/staff-access.service.ts:18-23; nothing of how it is kept appears  *)
(* here.                                                                   *)
(***************************************************************************)
EXTENDS Integers

CONSTANTS
    Reader,     \* requests that read
    Key,        \* what is read
    NoKey,      \* the key of nobody's read
    Layer,      \* what is edited
    Inherits    \* the layers each key is composed of: [Key -> SUBSET Layer]

VARIABLES
    version,    \* the version of each layer that is stored
    acked,      \* the version of each layer that was acknowledged last
    reads,      \* what each reader is doing
    answer      \* the versions each reader was given

vars == <<version, acked, reads, answer>>

Value == [Layer -> Nat]
Nothing == [l \in Layer |-> 0]

\* floor: what was acknowledged when the read began
Read == [at : {"idle", "reading"}, key : Key \cup {NoKey}, floor : Value]
Idle == [at |-> "idle", key |-> NoKey, floor |-> Nothing]

Init ==
    /\ version = [l \in Layer |-> 1]
    /\ acked = Nothing
    /\ reads = [r \in Reader |-> Idle]
    /\ answer = [r \in Reader |-> Nothing]

\* Somebody edits a layer, here or elsewhere.
Edit(l) ==
    /\ version' = [version EXCEPT ![l] = version[l] + 1]
    /\ UNCHANGED <<acked, reads, answer>>

\* An edit of this instance, up to version n, is acknowledged.
Acknowledge(l, n) ==
    /\ acked[l] < n
    /\ acked' = [acked EXCEPT ![l] = n]
    /\ UNCHANGED <<version, reads, answer>>

Begin(r, k) ==
    /\ reads[r].at = "idle"
    /\ reads' = [reads EXCEPT ![r] = [at |-> "reading", key |-> k, floor |-> acked]]
    /\ answer' = [answer EXCEPT ![r] = Nothing]
    /\ UNCHANGED <<version, acked>>

\* v may be given for the read d.
Fresh(d, v) == \A l \in Inherits[d.key] : d.floor[l] <= v[l] /\ v[l] <= version[l]

Answer(r, v) ==
    /\ reads[r].at = "reading"
    /\ Fresh(reads[r], v)
    /\ reads' = [reads EXCEPT ![r] = Idle]
    /\ answer' = [answer EXCEPT ![r] = v]
    /\ UNCHANGED <<version, acked>>

\* The read throws.
Fail(r) ==
    /\ reads[r].at = "reading"
    /\ reads' = [reads EXCEPT ![r] = Idle]
    /\ UNCHANGED <<version, acked, answer>>

\* Versions that are stored somewhere.
Stored == UNION {0..version[l] : l \in Layer}

Next ==
    \/ \E l \in Layer : Edit(l) \/ \E n \in 1..version[l] : Acknowledge(l, n)
    \/ \E r \in Reader :
          \/ \E k \in Key : Begin(r, k)
          \/ \E v \in [Layer -> Stored] : Answer(r, v)
          \/ Fail(r)

Spec == Init /\ [][Next]_vars
=============================================================================
