----------------------------- MODULE CrdtDeltas -----------------------------
(***************************************************************************)
(* The versions and the delta history of a CRDT store (crdt-store.ts), and *)
(* peers that keep in step by asking for what is new since the version     *)
(* they were last given.                                                   *)
(*                                                                         *)
(* The data of a key is the set of updates it is made of; CrdtReplicas     *)
(* shows that this decides it and that merging is union.                   *)
(***************************************************************************)
EXTENDS Integers, Sequences, FiniteSets, SequencesExt

CONSTANTS
    Node,        \* node ids
    Key,         \* keys, each of one type
    MaxHistory,  \* config.maxDeltaHistory
    MaxUpdates,  \* bound on local updates
    MaxVersion,  \* bound on versions
    MaxWire      \* bound on deltas under way

ASSUME DeltaAssumption ==
    /\ IsFiniteSet(Node) /\ IsFiniteSet(Key)
    /\ MaxHistory \in Nat \ {0}
    /\ MaxUpdates \in Nat /\ MaxVersion \in Nat /\ MaxWire \in Nat

VARIABLES
    data,     \* the updates each store's keys are made of; {}: no such key
    version,  \* the store's version
    pending,  \* pendingChanges
    history,  \* deltaHistory
    told,     \* told[r][s]: the version of s that r has come up to
    wire,     \* deltas under way: lost, repeated, reordered
    left,     \* local updates still to come
    trimmed,  \* the newest version each store has dropped from its history
    gap       \* pairs <<r, s>>: r took an answer of s that had lost entries

vars == <<data, version, pending, history, told, wire, left, trimmed, gap>>

Data  == [Key -> SUBSET (1 .. MaxUpdates)]
Entry == [to : 0 .. MaxVersion, parts : Data]
Delta == [from : Node, since : 0 .. MaxVersion, to : 0 .. MaxVersion, parts : Data, owed : Data]

None == [k \in Key |-> {}]

TypeOK ==
    /\ data \in [Node -> Data]
    /\ version \in [Node -> 0 .. MaxVersion]
    /\ pending \in [Node -> SUBSET Key]
    /\ \A n \in Node : Len(history[n]) <= MaxHistory /\ Range(history[n]) \subseteq Entry
    /\ told \in [Node -> [Node -> 0 .. MaxVersion]]
    /\ wire \in SUBSET Delta
    /\ left \in 0 .. MaxUpdates
    /\ trimmed \in [Node -> 0 .. MaxVersion]
    /\ gap \in SUBSET (Node \X Node)

Init ==
    /\ data = [n \in Node |-> None]
    /\ version = [n \in Node |-> 0]
    /\ pending = [n \in Node |-> {}]
    /\ history = [n \in Node |-> <<>>]
    /\ told = [r \in Node |-> [s \in Node |-> 0]]
    /\ wire = {}
    /\ left = MaxUpdates
    /\ trimmed = [n \in Node |-> 0]
    /\ gap = {}

Larger(a, b) == IF a > b THEN a ELSE b
Union(a, b)  == [k \in Key |-> a[k] \cup b[k]]
Keys(d)      == {k \in Key : d[k] # {}}

(***************************************************************************)
(* flushDelta                                                              *)
(***************************************************************************)
\* The pending keys, whole, as the last entry of the history.
Recorded(n) ==
    IF pending[n] = {} THEN history[n]
    ELSE Append(history[n], [to    |-> version[n],
                             parts |-> [k \in Key |-> IF k \in pending[n] THEN data[n][k] ELSE {}]])

\* Mutant: the history is not trimmed.
ExcessNone(n) == 0

Excess(n) == Larger(0, Len(Recorded(n)) - MaxHistory)

Flushed(n) == SubSeq(Recorded(n), Excess(n) + 1, Len(Recorded(n)))

TrimmedTo(n) == IF Excess(n) > 0 THEN Recorded(n)[Excess(n)].to ELSE trimmed[n]

Flush(n) ==
    /\ history' = [history EXCEPT ![n] = Flushed(n)]
    /\ trimmed' = [trimmed EXCEPT ![n] = TrimmedTo(n)]

(***************************************************************************)
(* getDelta                                                                *)
(***************************************************************************)
\* Mutants: entries up to the asked version only; the oldest part of a key wins.
RelevantFrom(n, v)   == {i \in DOMAIN Flushed(n) : Flushed(n)[i].to > v + 1}
MergedOldest(h, rel) ==
    [k \in Key |-> LET with == {i \in rel : h[i].parts[k] # {}}
                   IN  IF with = {} THEN {} ELSE h[Min(with)].parts[k]]

\* The places of the entries that are newer than v.
Relevant(n, v) == {i \in DOMAIN Flushed(n) : Flushed(n)[i].to > v}

\* Object.assign: of each key the latest entry that has it.
Merged(h, rel) ==
    [k \in Key |-> LET with == {i \in rel : h[i].parts[k] # {}}
                   IN  IF with = {} THEN {} ELSE h[Max(with)].parts[k]]

\* The store has kept every entry after v.
Complete(n, v) == v >= TrimmedTo(n)

\* `owed`, for the properties only: what the answer has to bring a peer up to.
Answer(n, v) ==
    [from |-> n, since |-> v, to |-> version[n], parts |-> Merged(Flushed(n), Relevant(n, v)),
     owed |-> IF Complete(n, v) THEN data[n] ELSE None]

\* null, when no entry is newer than v.
IsNull(n, v) == Relevant(n, v) = {}

(***************************************************************************)
(* Local updates                                                           *)
(***************************************************************************)
\* recordChange, for each of the keys.
Noted(n, ks) == pending[n] \cup ks

Change(n, k) ==
    /\ left > 0 /\ version[n] < MaxVersion
    /\ left' = left - 1
    /\ data' = [data EXCEPT ![n][k] = @ \cup {left}]
    /\ version' = [version EXCEPT ![n] = @ + 1]
    /\ pending' = [pending EXCEPT ![n] = Noted(n, {k})]
    /\ UNCHANGED <<history, told, wire, trimmed, gap>>

(***************************************************************************)
(* applyState, applyDelta                                                  *)
(***************************************************************************)
\* Mutant: the receiver's version is not moved past its own changes.
VersionAfterMax(n, d, to) == Larger(version[n], to)

VersionAfter(n, d, to) == Larger(version[n] + Cardinality(Keys(d)), to) + 1

\* Each key that comes with d is merged and noted, changed by it or not.
Applied(n, d, to) ==
    /\ VersionAfter(n, d, to) <= MaxVersion
    /\ data' = [data EXCEPT ![n] = Union(@, d)]
    /\ version' = [version EXCEPT ![n] = VersionAfter(n, d, to)]

ToldUpTo(r, s, to) == told' = [told EXCEPT ![r][s] = Larger(@, to)]

\* r asks s for what is new since it was last in step.
Ask(r, s) ==
    LET d == Answer(s, told[r][s])
    IN  /\ r # s
        /\ ~IsNull(s, told[r][s])
        /\ d \notin wire /\ Cardinality(wire) < MaxWire
        /\ Flush(s)
        /\ pending' = [pending EXCEPT ![s] = {}]
        /\ wire' = wire \cup {d}
        /\ UNCHANGED <<data, version, told, left, gap>>

\* applyDelta takes any delta; the caller passes on those that connect to
\* what it has.  The delta may come again, to this or another node.
Receive(r, d) ==
    /\ d \in wire /\ r # d.from
    /\ d.since <= told[r][d.from]
    /\ Applied(r, d.parts, d.to)
    /\ pending' = [pending EXCEPT ![r] = Noted(r, Keys(d.parts))]
    /\ ToldUpTo(r, d.from, d.to)
    /\ gap' = IF d.owed = None THEN gap \cup {<<r, d.from>>} ELSE gap
    /\ UNCHANGED <<history, wire, left, trimmed>>

Lose(d) ==
    /\ d \in wire
    /\ wire' = wire \ {d}
    /\ UNCHANGED <<data, version, pending, history, told, left, trimmed, gap>>

\* merge(other): s.getState(), which flushes s, and r.applyState().
MergeStore(r, s) ==
    /\ r # s
    /\ Applied(r, data[s], version[s])
    /\ pending' = [pending EXCEPT ![r] = Noted(r, Keys(data[s])), ![s] = {}]
    /\ Flush(s)
    /\ ToldUpTo(r, s, version[s])
    /\ gap' = gap \ {<<r, s>>}
    /\ UNCHANGED <<wire, left>>

Next ==
    \/ \E n \in Node, k \in Key : Change(n, k)
    \/ \E r, s \in Node : Ask(r, s) \/ MergeStore(r, s)
    \/ \E d \in wire : Lose(d) \/ \E r \in Node : Receive(r, d)

Spec == Init /\ [][Next]_vars

(***************************************************************************)
(* Properties                                                              *)
(***************************************************************************)

\* A peer that comes up to the versions it is given misses nothing: what it
\* has, with what getDelta would answer it now, is all the store has, as long
\* as the store has kept every entry since.  null means there is nothing to add.
NothingMissed ==
    \A r, s \in Node : Complete(s, told[r][s]) /\ <<r, s>> \notin gap =>
        \A k \in Key : data[s][k] \subseteq data[r][k] \cup Answer(s, told[r][s]).parts[k]

\* The same of an answer on its way, for whoever has come up to its start:
\* it may be late, come twice or go to another node than the one that asked.
DeltaConnects ==
    \A d \in wire, r \in Node : d.since <= told[r][d.from] /\ <<r, d.from>> \notin gap =>
        \A k \in Key : d.owed[k] \subseteq data[r][k] \cup d.parts[k]

\* Versions name one state: a store never changes its data without moving its
\* version past every version it has given out.
VersionsMoveOn ==
    [][\A n \in Node : data'[n] # data[n] =>
        /\ version'[n] > version[n]
        /\ \A r \in Node \ {n} : version'[n] > told'[r][n]]_vars
=============================================================================
