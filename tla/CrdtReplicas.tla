---------------------------- MODULE CrdtReplicas ----------------------------
(***************************************************************************)
(* Replicas of one key of the CRDT memory (memory/crdt): a last-writer-    *)
(* wins register, a G-counter, a PN-counter (a pair of them) or an OR-set. *)
(* Keys do not interact; a store applies each key of a state it is given.  *)
(*                                                                         *)
(* Stores exchange whole states: directly (merge), or as snapshots that    *)
(* are late, lost, repeated and out of order.  A process may crash and     *)
(* come back with what it last persisted (kernel/unified-memory.ts).       *)
(***************************************************************************)
EXTENDS Integers, FiniteSets

CONSTANTS
    Node,        \* node ids
    Rank,        \* [Node -> Nat]: the order of the ids (localeCompare)
    None,        \* the node id '' of a register nobody has written
    Value,       \* values written to the register
    Element,     \* elements of the set
    MaxTime,     \* bound on Date.now()
    MaxUpdates,  \* bound on local updates
    MaxWire,     \* bound on snapshots under way
    MaxCrashes   \* bound on crashes

ASSUME CrdtAssumption ==
    /\ IsFiniteSet(Node) /\ None \notin Node
    /\ Rank \in [Node -> Nat]
    /\ \A m, n \in Node : Rank[m] = Rank[n] => m = n
    /\ MaxTime \in Nat /\ MaxUpdates \in Nat /\ MaxWire \in Nat /\ MaxCrashes \in Nat

VARIABLES
    kind,    \* which of the store's maps the key is in
    rep,     \* each node's store, with the updates it is made of
    clock,   \* each node's Date.now(); nobody synchronises them
    saved,   \* each node's '__crdt_state__' row
    wire,    \* snapshots (getState) under way
    left,    \* local updates still to come
    crashes, \* crashes still to come
    done,    \* increments each node was ever asked for
    forgot   \* nodes that crashed with increments they had not persisted

vars == <<kind, rep, clock, saved, wire, left, crashes, done, forgot>>

(***************************************************************************)
(* Updates, as the replicas' histories name them.  A tag carries the time  *)
(* of its add; `left` stands for that time.                                *)
(***************************************************************************)
Time   == 0 .. MaxTime
Tag    == Element \X Node \X (1 .. MaxUpdates)
Count  == [Node -> 0 .. MaxUpdates]
Write  == {"set"} \X (1 .. MaxTime) \X Node \X Value
Update == Write \cup ({"inc", "dec"} \X Node \X (1 .. MaxUpdates))
                \cup ({"add"} \X Tag) \cup ({"remove"} \X SUBSET Tag)

Unset    == <<0, None, None>>
Register == (1 .. MaxTime) \X Node \X Value \cup {Unset}
Store    == [reg : Register, inc : Count, dec : Count, tags : SUBSET Tag,
             tombs : SUBSET Tag, seen : SUBSET Update]

Blank == [reg |-> Unset, inc |-> [n \in Node |-> 0], dec |-> [n \in Node |-> 0],
          tags |-> {}, tombs |-> {}, seen |-> {}]

Copies == {rep[n] : n \in Node} \cup {saved[n] : n \in Node} \cup wire

Kind == {"lww-register", "g-counter", "pn-counter", "or-set"}

TypeOK ==
    /\ kind \in Kind
    /\ rep \in [Node -> Store] /\ saved \in [Node -> Store]
    /\ clock \in [Node -> 1 .. MaxTime]
    /\ wire \in SUBSET Store
    /\ left \in 0 .. MaxUpdates /\ crashes \in 0 .. MaxCrashes
    /\ done \in [Node -> Nat] /\ forgot \in SUBSET Node

Init ==
    /\ kind \in Kind
    /\ rep = [n \in Node |-> Blank] /\ saved = [n \in Node |-> Blank]
    /\ clock \in [Node -> 1 .. MaxTime]
    /\ wire = {}
    /\ left = MaxUpdates /\ crashes = MaxCrashes
    /\ done = [n \in Node |-> 0] /\ forgot = {}

(***************************************************************************)
(* lww-register.ts, g-counter.ts, or-set.ts: merging                       *)
(***************************************************************************)
\* Mutant: ties are not broken.
NewerTie(r, s) == r[1] > s[1]

\* compareTimestamps(r, s) > 0, for a written s.
Newer(r, s) == r[1] > s[1] \/ (r[1] = s[1] /\ r[2] # s[2] /\ Rank[r[2]] > Rank[s[2]])

MergeRegister(own, in) == IF own[1] = 0 \/ Newer(in, own) THEN in ELSE own

\* Mutant: the last state applied wins.
MergeCountLast(own, in) == [n \in Node |-> in[n]]

MergeCount(own, in) == [n \in Node |-> IF in[n] > own[n] THEN in[n] ELSE own[n]]

\* Mutant: tombstones are replaced, not united.
MergeReplacing(own, in) ==
    [reg   |-> MergeRegister(own.reg, in.reg),
     inc   |-> MergeCount(own.inc, in.inc),
     dec   |-> MergeCount(own.dec, in.dec),
     tags  |-> own.tags \cup in.tags,
     tombs |-> in.tombs,
     seen  |-> own.seen \cup in.seen]

\* applyState of the store.
Merge(own, in) ==
    [reg   |-> MergeRegister(own.reg, in.reg),
     inc   |-> MergeCount(own.inc, in.inc),
     dec   |-> MergeCount(own.dec, in.dec),
     tags  |-> own.tags \cup in.tags,
     tombs |-> own.tombs \cup in.tombs,
     seen  |-> own.seen \cup in.seen]

(***************************************************************************)
(* Local updates                                                           *)
(***************************************************************************)
\* Mutant: the local clock is trusted.
WrittenAlways(own, w) == w

\* set(): a write that is not newer than what the register holds is dropped.
Written(own, w) == IF own[1] = 0 \/ Newer(w, own) THEN w ELSE own

Set(n) ==
    /\ kind = "lww-register"
    /\ \E at \in clock[n] .. MaxTime, v \in Value :
        LET w == <<at, n, v>>
            r == Written(rep[n].reg, w)
        IN  /\ clock' = [clock EXCEPT ![n] = at]
            /\ rep' = [rep EXCEPT ![n] = [rep[n] EXCEPT !.reg = r,
                              !.seen = IF r = w THEN @ \cup {<<"set", at, n, v>>} ELSE @]]
    /\ UNCHANGED done

\* increment() of the G-counter of node n.
Up(counts, n) == [counts EXCEPT ![n] = @ + 1]

Increment(n) ==
    /\ kind \in {"g-counter", "pn-counter"}
    /\ rep' = [rep EXCEPT ![n] = [rep[n] EXCEPT !.inc = Up(@, n),
                              !.seen = @ \cup {<<"inc", n, rep[n].inc[n] + 1>>}]]
    /\ done' = [done EXCEPT ![n] = @ + 1]
    /\ UNCHANGED clock

Decrement(n) ==
    /\ kind = "pn-counter"
    /\ rep' = [rep EXCEPT ![n] = [rep[n] EXCEPT !.dec = Up(@, n),
                              !.seen = @ \cup {<<"dec", n, rep[n].dec[n] + 1>>}]]
    /\ UNCHANGED <<clock, done>>

Add(n, e) ==
    /\ kind = "or-set"
    /\ rep' = [rep EXCEPT ![n] = [rep[n] EXCEPT !.tags = @ \cup {<<e, n, left>>},
                              !.seen = @ \cup {<<"add", <<e, n, left>>>>}]]
    /\ UNCHANGED <<clock, done>>

\* Mutant: a node takes back its own adds only.
TagsOwn(n, e) == {t \in rep[n].tags : t[1] = e /\ t[2] = n}

TagsOf(n, e) == {t \in rep[n].tags : t[1] = e}

Observed(n, e) == {t \in Tag : t[1] = e /\ <<"add", t>> \in rep[n].seen}

Remove(n, e) ==
    /\ kind = "or-set" /\ TagsOf(n, e) # {}
    /\ rep' = [rep EXCEPT ![n] = [rep[n] EXCEPT !.tombs = @ \cup TagsOf(n, e),
                              !.seen = @ \cup {<<"remove", Observed(n, e)>>}]]
    /\ UNCHANGED <<clock, done>>

Local(n) ==
    /\ left > 0
    /\ left' = left - 1
    /\ Set(n) \/ Increment(n) \/ Decrement(n) \/ \E e \in Element : Add(n, e) \/ Remove(n, e)
    /\ UNCHANGED <<kind, saved, wire, crashes, forgot>>

(***************************************************************************)
(* Exchange, snapshots, crashes                                            *)
(***************************************************************************)
Content(s) == [reg |-> s.reg, inc |-> s.inc, dec |-> s.dec, tags |-> s.tags, tombs |-> s.tombs]

\* merge(other), by callers that stop once the two agree.
Exchange(r, s) ==
    /\ Content(rep[r]) # Content(rep[s])
    /\ rep' = [rep EXCEPT ![r] = Merge(@, rep[s])]
    /\ UNCHANGED <<kind, clock, saved, wire, left, crashes, done, forgot>>

Send(n) ==
    /\ rep[n] \notin wire /\ Cardinality(wire) < MaxWire
    /\ wire' = wire \cup {rep[n]}
    /\ UNCHANGED <<kind, rep, clock, saved, left, crashes, done, forgot>>

\* The snapshot stays: it may arrive again, anywhere, at any time.
Deliver(n, m) ==
    /\ m \in wire
    /\ rep' = [rep EXCEPT ![n] = Merge(@, m)]
    /\ UNCHANGED <<kind, clock, saved, wire, left, crashes, done, forgot>>

Lose(m) ==
    /\ m \in wire
    /\ wire' = wire \ {m}
    /\ UNCHANGED <<kind, rep, clock, saved, left, crashes, done, forgot>>

Persist(n) ==
    /\ saved' = [saved EXCEPT ![n] = rep[n]]
    /\ UNCHANGED <<kind, rep, clock, wire, left, crashes, done, forgot>>

\* Mutant: a process starts empty although its state was persisted.
RestoredBlank(n) == Blank

\* crdtRestore: the row applied to an empty store.
Restored(n) == Merge(Blank, saved[n])

\* A new process takes longer to come up than Date.now() needs to move on.
Crash(n) ==
    /\ crashes > 0 /\ clock[n] < MaxTime
    /\ crashes' = crashes - 1
    /\ clock' = [clock EXCEPT ![n] = @ + 1]
    /\ rep' = [rep EXCEPT ![n] = Restored(n)]
    /\ forgot' = IF saved[n].inc[n] < rep[n].inc[n] THEN forgot \cup {n} ELSE forgot
    /\ UNCHANGED <<kind, saved, wire, left, done>>

Next ==
    \/ \E n \in Node : Local(n) \/ Send(n) \/ Persist(n) \/ Crash(n)
    \/ \E n, m \in Node : Exchange(n, m)
    \/ \E m \in wire : Lose(m) \/ \E n \in Node : Deliver(n, m)

Spec == Init /\ [][Next]_vars

\* Each pair keeps merging while it differs; nothing else is fair.
FairSpec == Spec /\ \A n, m \in Node : WF_vars(Exchange(n, m))

(***************************************************************************)
(* Properties                                                              *)
(***************************************************************************)
Stamp(w)  == <<w[2], w[3], w[4]>>
Writes(s) == {u \in s.seen : u[1] = "set"}

\* The register of every copy, however old, is the newest of the writes the
\* copy has seen: no order, repetition or clock skew brings an older one back.
RegisterIsNewest ==
    \A s \in Copies :
        \/ Writes(s) = {} /\ s.reg = Unset
        \/ /\ \E w \in Writes(s) : s.reg = Stamp(w)
           /\ \A w \in Writes(s) : Stamp(w) = s.reg \/ Newer(s.reg, Stamp(w))

\* A time and a node name one value: two writes of a node in one millisecond
\* would otherwise leave replicas that never notice that they differ.
OneValuePerStamp ==
    \A s, t \in Copies :
        s.reg[1] = t.reg[1] /\ s.reg[2] = t.reg[2] => s.reg[3] = t.reg[3]

\* A counter counts each increment and decrement it has seen once, whoever
\* passed it on and however often.
CounterIsOfSeen ==
    \A s \in Copies, n \in Node, i \in 1 .. MaxUpdates :
        /\ <<"inc", n, i>> \in s.seen <=> i <= s.inc[n]
        /\ <<"dec", n, i>> \in s.seen <=> i <= s.dec[n]

\* Add wins: an add counts until a remove that had seen it is seen, so a
\* remove never takes back an add made concurrently.
AddWins ==
    \A s \in Copies, t \in Tag :
        /\ t \in s.tags <=> <<"add", t>> \in s.seen
        /\ t \in s.tombs <=> \E u \in s.seen : u[1] = "remove" /\ t \in u[2]

\* Replicas that have seen the same updates are equal, whatever the order.
StrongConvergence ==
    \A s, t \in Copies : s.seen = t.seen => Content(s) = Content(t)

\* Each increment a node was asked for is in its count, and nobody has counted
\* more, unless it crashed before it had persisted one.
NoIncrementLost ==
    \A n \in Node : n \notin forgot =>
        /\ rep[n].inc[n] = done[n]
        /\ \A s \in Copies : s.inc[n] <= done[n]

\* Only a crash makes a replica forget: counts, tags, tombstones and the
\* register's stamp never go back, so a removed tag stays removed.
NothingForgotten ==
    [][\A n \in Node : ~Crash(n) =>
        /\ rep[n].tags \subseteq rep'[n].tags /\ rep[n].tombs \subseteq rep'[n].tombs
        /\ \A m \in Node : /\ rep[n].inc[m] <= rep'[n].inc[m]
                           /\ rep[n].dec[m] <= rep'[n].dec[m]
        /\ rep'[n].reg = rep[n].reg \/ rep[n].reg[1] = 0 \/ Newer(rep'[n].reg, rep[n].reg)]_vars

\* The replicas converge once updates and crashes are over, whatever was lost.
Converges == <>[](\A m, n \in Node : Content(rep[m]) = Content(rep[n]))
=============================================================================
