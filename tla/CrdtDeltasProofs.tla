-------------------------- MODULE CrdtDeltasProofs --------------------------
(***************************************************************************)
(* Stores that exchange deltas miss nothing, for any nodes, keys, length   *)
(* of the history and number of deltas under way.                          *)
(***************************************************************************)
EXTENDS CrdtDeltas, FiniteSetTheorems, SequenceTheorems, WellFoundedInduction, TLAPS

(***************************************************************************)
(* The history and what is cut off it                                      *)
(***************************************************************************)
\* A set of positions that is not empty has a last one.
LEMMA LatestPosition ==
    ASSUME NEW n \in Nat, NEW S \in SUBSET (1 .. n), S # {}
    PROVE  Max(S) \in S /\ \A y \in S : y <= Max(S)
<1> DEFINE D == {m \in Nat : \E x \in S : m = n - x}
<1>1. D \in SUBSET Nat /\ D # {}
    <2>1. PICK x : x \in S
        OBVIOUS
    <2>2. n - x \in D
        BY <2>1
    <2> QED BY <2>2
<1>2. PICK m \in D : \A y \in D : ~(<<y, m>> \in OpToRel(<, Nat))
    BY <1>1, WFMin, NatLessThanWellFounded
<1>3. \A y \in D : m <= y
    <2> SUFFICES ASSUME NEW y \in D, y < m PROVE FALSE
        OBVIOUS
    <2>1. <<y, m>> \in OpToRel(<, Nat)
        BY DEF OpToRel
    <2> QED BY <1>2, <2>1
<1>4. PICK x \in S : m = n - x
    OBVIOUS
<1>5. ASSUME NEW y \in S PROVE x >= y
    <2>1. n - y \in D
        BY SMT
    <2> QED BY <1>3, <1>4, <2>1
<1> QED BY <1>5 DEF Max

TypeInv == TypeOK /\ history \in [Node -> Seq(Entry)]

LEMMA Types ==
    ASSUME TypeInv, NEW n \in Node
    PROVE  /\ data[n] \in Data /\ version[n] \in 0 .. MaxVersion /\ pending[n] \in SUBSET Key
           /\ history[n] \in Seq(Entry) /\ Len(history[n]) \in Nat
           /\ DOMAIN history[n] = 1 .. Len(history[n]) /\ Len(history[n]) <= MaxHistory
           /\ trimmed[n] \in 0 .. MaxVersion
           /\ \A s \in Node : told[n][s] \in 0 .. MaxVersion
<1>1. history[n] \in Seq(Entry)
    BY DEF TypeInv
<1>2. Len(history[n]) \in Nat /\ DOMAIN history[n] = 1 .. Len(history[n])
    BY <1>1, LenProperties
<1> QED BY <1>1, <1>2 DEF TypeInv, TypeOK

\* The entry that flushDelta would write.
NewEntry(n) ==
    [to    |-> version[n],
     parts |-> [k \in Key |-> IF k \in pending[n] THEN data[n][k] ELSE {}]]

LEMMA NewEntryType ==
    ASSUME TypeInv, NEW n \in Node
    PROVE  /\ NewEntry(n) \in Entry /\ NewEntry(n).to = version[n]
           /\ \A k \in Key : NewEntry(n).parts[k] = IF k \in pending[n] THEN data[n][k] ELSE {}
<1>1. data[n] \in Data /\ version[n] \in 0 .. MaxVersion
    BY Types
<1> QED BY <1>1 DEF NewEntry, Entry, Data

\* The history with that entry.
LEMMA RecordedParts ==
    ASSUME TypeInv, NEW n \in Node
    PROVE  /\ Recorded(n) \in Seq(Entry)
           /\ pending[n] = {} => Len(Recorded(n)) = Len(history[n])
           /\ pending[n] # {} => Len(Recorded(n)) = Len(history[n]) + 1
           /\ \A i \in 1 .. Len(history[n]) : Recorded(n)[i] = history[n][i]
           /\ pending[n] # {} => Recorded(n)[Len(history[n]) + 1] = NewEntry(n)
<1>1. history[n] \in Seq(Entry) /\ Len(history[n]) \in Nat /\ NewEntry(n) \in Entry
    BY Types, NewEntryType
<1>2. CASE pending[n] = {}
    BY <1>1, <1>2 DEF Recorded
<1>3. CASE pending[n] # {}
    <2>1. Recorded(n) = Append(history[n], NewEntry(n))
        BY <1>3 DEF Recorded, NewEntry
    <2> DEFINE h == history[n]
               e == NewEntry(n)
    <2> HIDE DEF h, e
    <2>2. h \in Seq(Entry) /\ e \in Entry
        BY <1>1 DEF h, e
    <2>3. /\ Append(h, e) \in Seq(Entry) /\ Len(Append(h, e)) = Len(h) + 1
          /\ \A i \in 1 .. Len(h) : Append(h, e)[i] = h[i]
          /\ Append(h, e)[Len(h) + 1] = e
        BY <2>2, AppendProperties
    <2> QED BY <1>3, <2>1, <2>3 DEF h, e
<1> QED BY <1>2, <1>3

\* The history once it is cut to its length: the last entries of it all.
LEMMA FlushedParts ==
    ASSUME TypeInv, NEW n \in Node
    PROVE  /\ Excess(n) \in Nat /\ Len(Recorded(n)) \in Nat /\ Excess(n) <= Len(Recorded(n))
           /\ Len(Recorded(n)) > 0 => Excess(n) < Len(Recorded(n))
           /\ Flushed(n) \in Seq(Entry)
           /\ DOMAIN Flushed(n) = 1 .. Len(Recorded(n)) - Excess(n)
           /\ Len(Flushed(n)) <= MaxHistory
           /\ \A i \in 1 .. Len(Recorded(n)) - Excess(n) :
                  Flushed(n)[i] = Recorded(n)[i + Excess(n)]
           /\ TrimmedTo(n) \in 0 .. MaxVersion
<1> DEFINE q == Recorded(n)
           x == Excess(n)
<1>1. q \in Seq(Entry) /\ Len(q) \in Nat
    BY RecordedParts, LenProperties
<1>2. MaxHistory \in Nat \ {0}
    BY DeltaAssumption
<1>3. x \in Nat /\ x <= Len(q) /\ (Len(q) > 0 => x < Len(q)) /\ Len(q) - x <= MaxHistory
    BY <1>1, <1>2 DEF Excess, Larger
<1>4. \A i \in 1 .. Len(q) : q[i] \in Entry
    BY <1>1, ElementOfSeq
<1>5. Flushed(n) = SubSeq(q, x + 1, Len(q))
    BY DEF Flushed
<1> HIDE DEF q, x
<1>6. /\ SubSeq(q, x + 1, Len(q)) \in Seq(Entry)
      /\ Len(SubSeq(q, x + 1, Len(q))) = Len(q) - x
      /\ \A i \in 1 .. Len(q) - x : SubSeq(q, x + 1, Len(q))[i] = q[i + x]
    <2>1. \A i \in x + 1 .. Len(q) : q[i] \in Entry
        BY <1>1, <1>3, <1>4
    <2>2. /\ SubSeq(q, x + 1, Len(q)) \in Seq(Entry)
          /\ Len(SubSeq(q, x + 1, Len(q))) = IF x + 1 <= Len(q) THEN Len(q) - (x + 1) + 1 ELSE 0
          /\ \A i \in 1 .. Len(q) - (x + 1) + 1 :
                 SubSeq(q, x + 1, Len(q))[i] = q[x + 1 + i - 1]
        BY <1>1, <1>3, <2>1, SubSeqProperties
    <2>3. Len(SubSeq(q, x + 1, Len(q))) = Len(q) - x
        BY <1>1, <1>3, <2>2
    <2>4. ASSUME NEW i \in 1 .. Len(q) - x PROVE SubSeq(q, x + 1, Len(q))[i] = q[i + x]
        <3>1. i \in 1 .. Len(q) - (x + 1) + 1 /\ x + 1 + i - 1 = i + x
            BY <1>1, <1>3
        <3> QED BY <2>2, <3>1
    <2> QED BY <2>2, <2>3, <2>4
<1>7. DOMAIN Flushed(n) = 1 .. Len(q) - x
    BY <1>5, <1>6, LenProperties
<1>8. TrimmedTo(n) \in 0 .. MaxVersion
    <2>1. x > 0 => q[x] \in Entry
        BY <1>1, <1>3, <1>4
    <2> QED BY <2>1, Types DEF TrimmedTo, Entry, q, x
<1> QED BY <1>1, <1>3, <1>5, <1>6, <1>7, <1>8 DEF q, x

(***************************************************************************)
(* What a store keeps                                                      *)
(***************************************************************************)
Has(e, k) == e.parts[k] # {}

\* A history h that follows what was dropped up to tr, by a store at version top.
Ordered(h, tr, top) ==
    /\ tr <= top
    /\ \A i \in DOMAIN h : tr <= h[i].to /\ h[i].to <= top
    /\ \A i, j \in DOMAIN h : i < j => h[i].to <= h[j].to

\* The latest entry that has k has all there is of it.
Whole(h, dat, k) ==
    \A i \in DOMAIN h :
        Has(h[i], k) /\ (\A j \in DOMAIN h : j > i => ~Has(h[j], k)) => dat \subseteq h[i].parts[k]

\* As far as h tells, k has not changed after the version v.
Still(h, tr, v, k) ==
    tr <= v /\ \A i \in DOMAIN h : Has(h[i], k) => h[i].to <= v

HistoryFits(n) ==
    /\ Ordered(history[n], trimmed[n], version[n])
    /\ \A k \in Key \ pending[n] : Whole(history[n], data[n][k], k)

\* A version the store n has given out: what is pending came later.
Given(n, v) == v <= version[n] /\ (pending[n] # {} => v < version[n])

StillAt(n, v, k) == k \notin pending[n] /\ Still(history[n], trimmed[n], v, k)

LEMMA RecordedOrdered ==
    ASSUME TypeInv, NEW n \in Node, HistoryFits(n)
    PROVE  Ordered(Recorded(n), trimmed[n], version[n])
<1>1. /\ DOMAIN history[n] = 1 .. Len(history[n]) /\ Len(history[n]) \in Nat
      /\ trimmed[n] \in Nat /\ version[n] \in Nat
    BY Types
<1>2. Ordered(history[n], trimmed[n], version[n])
    BY DEF HistoryFits
<1>3. DOMAIN Recorded(n) = 1 .. Len(Recorded(n)) /\ Len(Recorded(n)) \in Nat
    BY RecordedParts, LenProperties
<1>4. ASSUME NEW i \in DOMAIN Recorded(n)
      PROVE  \/ i \in DOMAIN history[n] /\ Recorded(n)[i] = history[n][i]
             \/ i = Len(history[n]) + 1 /\ Recorded(n)[i].to = version[n]
    <2>1. CASE i \in 1 .. Len(history[n])
        BY <1>1, <2>1, RecordedParts
    <2>2. CASE i \notin 1 .. Len(history[n])
        <3>1. pending[n] # {} /\ i = Len(history[n]) + 1
            BY <1>1, <1>3, <2>2, RecordedParts
        <3> QED BY <3>1, RecordedParts, NewEntryType
    <2> QED BY <2>1, <2>2
<1>5. ASSUME NEW i \in DOMAIN Recorded(n)
      PROVE  trimmed[n] <= Recorded(n)[i].to /\ Recorded(n)[i].to <= version[n]
    BY <1>1, <1>2, <1>4 DEF Ordered
<1>6. ASSUME NEW i \in DOMAIN Recorded(n), NEW j \in DOMAIN Recorded(n), i < j
      PROVE  Recorded(n)[i].to <= Recorded(n)[j].to
    <2>1. CASE j \in DOMAIN history[n] /\ Recorded(n)[j] = history[n][j]
        <3>1. i \in DOMAIN history[n]
            BY <1>1, <1>3, <1>6, <2>1
        <3>2. Recorded(n)[i] = history[n][i]
            BY <1>1, <3>1, RecordedParts
        <3> QED BY <1>2, <1>6, <2>1, <3>1, <3>2 DEF Ordered
    <2>2. CASE Recorded(n)[j].to = version[n]
        BY <1>5, <2>2
    <2> QED BY <1>4, <2>1, <2>2
<1>7. trimmed[n] <= version[n]
    BY <1>2 DEF Ordered
<1> QED BY <1>5, <1>6, <1>7 DEF Ordered

\* Flushing keeps the order, and leaves every key whole.
LEMMA FlushedOrdered ==
    ASSUME TypeInv, NEW n \in Node, HistoryFits(n)
    PROVE  Ordered(Flushed(n), TrimmedTo(n), version[n])
<1> DEFINE q == Recorded(n)
           x == Excess(n)
           m == Len(Recorded(n))
<1>1. Ordered(q, trimmed[n], version[n]) /\ DOMAIN q = 1 .. m
    BY RecordedOrdered, RecordedParts, LenProperties
<1>2. x \in Nat /\ m \in Nat /\ x <= m /\ trimmed[n] \in Nat /\ version[n] \in Nat
    BY FlushedParts, Types
<1>3. TrimmedTo(n) = IF x > 0 THEN q[x].to ELSE trimmed[n]
    BY DEF TrimmedTo
<1>4. DOMAIN Flushed(n) = 1 .. m - x /\ \A i \in 1 .. m - x : Flushed(n)[i] = q[i + x]
    BY FlushedParts
<1> HIDE DEF q, x, m
<1>5. \A i \in 1 .. m - x : i + x \in 1 .. m
    BY <1>2
<1>6. x > 0 => x \in 1 .. m
    BY <1>2
<1>7. TrimmedTo(n) <= version[n]
    BY <1>1, <1>3, <1>6 DEF Ordered
<1>8. ASSUME NEW i \in 1 .. m - x
      PROVE  TrimmedTo(n) <= Flushed(n)[i].to /\ Flushed(n)[i].to <= version[n]
    <2>1. i + x \in 1 .. m /\ (x > 0 => x \in 1 .. m /\ x < i + x)
        BY <1>2, <1>5, <1>6
    <2> QED BY <1>1, <1>3, <1>4, <2>1, <1>2 DEF Ordered
<1>9. ASSUME NEW i \in 1 .. m - x, NEW j \in 1 .. m - x, i < j
      PROVE  Flushed(n)[i].to <= Flushed(n)[j].to
    <2>1. i + x \in 1 .. m /\ j + x \in 1 .. m /\ i + x < j + x
        BY <1>2, <1>5, <1>9
    <2> QED BY <1>1, <1>4, <2>1 DEF Ordered
<1> QED BY <1>4, <1>7, <1>8, <1>9 DEF Ordered

LEMMA FlushedWhole ==
    ASSUME TypeInv, NEW n \in Node, HistoryFits(n), NEW k \in Key
    PROVE  Whole(Flushed(n), data[n][k], k)
<1> DEFINE q == Recorded(n)
           x == Excess(n)
           m == Len(Recorded(n))
           l == Len(history[n])
<1>1. x \in Nat /\ m \in Nat /\ x <= m
    BY FlushedParts
<1>2. DOMAIN Flushed(n) = 1 .. m - x /\ \A i \in 1 .. m - x : Flushed(n)[i] = q[i + x]
    BY FlushedParts
<1>3. /\ l \in Nat /\ DOMAIN history[n] = 1 .. l
      /\ \A i \in 1 .. l : q[i] = history[n][i]
      /\ pending[n] # {} => q[l + 1] = NewEntry(n)
    BY RecordedParts, Types
<1>size. (pending[n] = {} => m = l) /\ (pending[n] # {} => m = l + 1)
    BY RecordedParts
<1> HIDE DEF q, x, m, l
<1> SUFFICES ASSUME NEW i \in 1 .. m - x, Has(Flushed(n)[i], k), data[n][k] # {},
                    \A j \in 1 .. m - x : j > i => ~Has(Flushed(n)[j], k)
             PROVE  data[n][k] \subseteq Flushed(n)[i].parts[k]
    BY <1>2 DEF Whole
<1>4. i + x \in 1 .. m /\ Has(q[i + x], k) /\ Flushed(n)[i] = q[i + x]
    BY <1>1, <1>2
\* no later entry has it
<1>5. ASSUME NEW j \in 1 .. m, j > i + x PROVE ~Has(q[j], k)
    <2>1. j - x \in 1 .. m - x /\ j - x > i /\ (j - x) + x = j
        BY <1>1, <1>5
    <2> QED BY <1>2, <2>1
<1>6. CASE k \in pending[n]
    <2>1. m = l + 1 /\ q[m] = NewEntry(n) /\ m \in 1 .. m
        <3>1. pending[n] # {}
            BY <1>6
        <3>2. m = l + 1 /\ m \in 1 .. m
            BY <1>1, <1>3, <1>size, <3>1
        <3> QED BY <1>3, <3>1, <3>2
    <2>2. NewEntry(n).parts[k] = data[n][k]
        BY <1>6, NewEntryType
    <2>3. Has(q[m], k)
        BY <2>1, <2>2 DEF Has
    <2>4. i + x = m
        BY <1>4, <1>5, <2>1, <2>3
    <2> QED BY <1>4, <2>1, <2>2, <2>4
<1>7. CASE k \notin pending[n]
    <2>1. pending[n] # {} => ~Has(q[l + 1], k)
        BY <1>3, <1>7, NewEntryType DEF Has
    <2>2. i + x \in 1 .. l
        <3>1. CASE pending[n] = {}
            <4>1. m = l
                BY <1>size, <3>1
            <4> QED BY <1>4, <4>1
        <3>2. CASE pending[n] # {}
            <4>1. m = l + 1
                BY <1>size, <3>2
            <4>2. i + x # l + 1
                BY <1>4, <2>1, <3>2
            <4> QED BY <1>1, <1>3, <1>4, <4>1, <4>2
        <3> QED BY <3>1, <3>2
    <2>3. ASSUME NEW j \in 1 .. l, j > i + x PROVE ~Has(history[n][j], k)
        <3>1. j \in 1 .. m
            BY <1>1, <1>3, <1>size
        <3>2. history[n][j] = q[j]
            BY <1>3
        <3> QED BY <1>5, <2>3, <3>1, <3>2
    <2>4. Whole(history[n], data[n][k], k)
        BY <1>7 DEF HistoryFits
    <2> QED BY <1>3, <1>4, <2>2, <2>3, <2>4 DEF Whole
<1> QED BY <1>6, <1>7

\* What the flushed history shows unchanged was unchanged before.
LEMMA FlushedStill ==
    ASSUME TypeInv, NEW n \in Node, HistoryFits(n), NEW k \in Key, NEW v \in Nat, Given(n, v),
           Still(Flushed(n), TrimmedTo(n), v, k), data[n][k] # {}
    PROVE  StillAt(n, v, k)
<1> DEFINE q == Recorded(n)
           x == Excess(n)
           m == Len(Recorded(n))
           l == Len(history[n])
<1>1. x \in Nat /\ m \in Nat /\ x <= m /\ (m > 0 => x < m)
    BY FlushedParts
<1>2. DOMAIN Flushed(n) = 1 .. m - x /\ \A i \in 1 .. m - x : Flushed(n)[i] = q[i + x]
    BY FlushedParts
<1>3. /\ l \in Nat /\ DOMAIN history[n] = 1 .. l
      /\ \A i \in 1 .. l : q[i] = history[n][i]
      /\ pending[n] # {} => q[l + 1] = NewEntry(n)
    BY RecordedParts, Types
<1>size. (pending[n] = {} => m = l) /\ (pending[n] # {} => m = l + 1)
    BY RecordedParts
<1>4. Ordered(q, trimmed[n], version[n]) /\ DOMAIN q = 1 .. m
    BY RecordedOrdered, RecordedParts, LenProperties
<1>5. TrimmedTo(n) = (IF x > 0 THEN q[x].to ELSE trimmed[n]) /\ TrimmedTo(n) \in Nat
    BY FlushedParts DEF TrimmedTo
<1>6. (\A i \in 1 .. m : q[i].to \in Nat) /\ trimmed[n] \in Nat /\ version[n] \in Nat
    <2>1. ASSUME NEW i \in 1 .. m PROVE q[i].to \in Nat
        <3>1. q[i] \in Entry
            BY RecordedParts, ElementOfSeq
        <3> QED BY <3>1 DEF Entry
    <2> QED BY <2>1, Types
<1> HIDE DEF q, x, m, l
<1>7. \A i \in 1 .. m - x : Has(q[i + x], k) => q[i + x].to <= v
    BY <1>2 DEF Still
<1>8. k \notin pending[n]
    <2> SUFFICES ASSUME k \in pending[n] PROVE FALSE
        OBVIOUS
    <2>1. m = l + 1 /\ q[m] = NewEntry(n) /\ m - x \in 1 .. m - x /\ (m - x) + x = m
        <3>1. pending[n] # {}
            OBVIOUS
        <3>2. m = l + 1 /\ q[m] = NewEntry(n)
            BY <1>3, <1>size, <3>1
        <3> QED BY <1>1, <1>3, <3>2
    <2>2. Has(q[m], k) /\ q[m].to = version[n]
        BY <2>1, NewEntryType DEF Has
    <2>3. version[n] <= v
        BY <1>7, <2>1, <2>2
    <2>4. v < version[n]
        BY DEF Given
    <2> QED BY <1>6, <2>3, <2>4
<1>9. trimmed[n] <= v
    <2>1. CASE x > 0
        <3>1. x \in 1 .. m
            BY <1>1, <2>1
        <3>2. trimmed[n] <= q[x].to /\ q[x].to <= v
            BY <1>4, <1>5, <2>1, <3>1 DEF Still, Ordered
        <3> QED BY <1>6, <3>1, <3>2
    <2>2. CASE ~(x > 0)
        BY <1>5, <2>2 DEF Still
    <2> QED BY <2>1, <2>2
<1>10. ASSUME NEW i \in 1 .. l, Has(history[n][i], k) PROVE history[n][i].to <= v
    <2>1. i \in 1 .. m /\ history[n][i] = q[i]
        BY <1>1, <1>3, <1>size
    <2>2. CASE i > x
        <3>1. i - x \in 1 .. m - x /\ (i - x) + x = i
            BY <1>1, <2>1, <2>2
        <3> QED BY <1>7, <1>10, <2>1, <3>1
    <2>3. CASE i <= x
        <3>1. x > 0 /\ x \in 1 .. m /\ (i < x \/ i = x)
            BY <1>1, <2>1, <2>3
        <3>2. q[i].to <= q[x].to
            BY <1>4, <1>6, <2>1, <3>1 DEF Ordered
        <3>3. q[x].to <= v
            BY <1>5, <3>1 DEF Still
        <3> QED BY <1>6, <2>1, <3>1, <3>2, <3>3
    <2> QED BY <1>1, <2>1, <2>2, <2>3
<1> QED BY <1>3, <1>8, <1>9, <1>10 DEF StillAt, Still

(***************************************************************************)
(* Answers                                                                 *)
(***************************************************************************)
\* What an answer has of a key: the latest newer entry's part, or nothing.
LEMMA MergedLatest ==
    ASSUME TypeInv, NEW n \in Node, NEW v, NEW k \in Key
    PROVE  \/ /\ \A i \in DOMAIN Flushed(n) : Has(Flushed(n)[i], k) => ~(Flushed(n)[i].to > v)
              /\ Merged(Flushed(n), Relevant(n, v))[k] = {}
           \/ \E i \in DOMAIN Flushed(n) :
                  /\ Has(Flushed(n)[i], k) /\ Flushed(n)[i].to > v
                  /\ \A j \in DOMAIN Flushed(n) :
                         Has(Flushed(n)[j], k) /\ Flushed(n)[j].to > v => j <= i
                  /\ Merged(Flushed(n), Relevant(n, v))[k] = Flushed(n)[i].parts[k]
<1> DEFINE with == {i \in Relevant(n, v) : Flushed(n)[i].parts[k] # {}}
<1>1. with = {i \in DOMAIN Flushed(n) : Has(Flushed(n)[i], k) /\ Flushed(n)[i].to > v}
    BY DEF Relevant, Has
<1>2. Merged(Flushed(n), Relevant(n, v))[k] = IF with = {} THEN {} ELSE Flushed(n)[Max(with)].parts[k]
    BY DEF Merged
<1>3. Len(Flushed(n)) \in Nat /\ DOMAIN Flushed(n) = 1 .. Len(Flushed(n))
    BY FlushedParts, LenProperties
<1> HIDE DEF with
<1>4. CASE with = {}
    BY <1>1, <1>2, <1>4
<1>5. CASE with # {}
    <2>1. with \in SUBSET (1 .. Len(Flushed(n)))
        BY <1>1, <1>3
    <2>2. Max(with) \in with /\ \A y \in with : y <= Max(with)
        BY <1>3, <1>5, <2>1, LatestPosition
    <2> QED BY <1>1, <1>2, <1>5, <2>2
<1> QED BY <1>4, <1>5

LEMMA AnswerType ==
    ASSUME TypeInv, NEW n \in Node, NEW v \in 0 .. MaxVersion
    PROVE  /\ Answer(n, v) \in Delta
           /\ Answer(n, v).from = n /\ Answer(n, v).since = v /\ Answer(n, v).to = version[n]
           /\ Answer(n, v).parts = Merged(Flushed(n), Relevant(n, v))
           /\ Answer(n, v).owed = IF Complete(n, v) THEN data[n] ELSE None
<1>1. ASSUME NEW k \in Key
      PROVE  Merged(Flushed(n), Relevant(n, v))[k] \in SUBSET (1 .. MaxUpdates)
    <2>1. \A i \in DOMAIN Flushed(n) : Flushed(n)[i] \in Entry
        BY FlushedParts, LenProperties, ElementOfSeq
    <2> QED BY <2>1, MergedLatest DEF Entry, Data
<1>2. Merged(Flushed(n), Relevant(n, v)) \in Data
    BY <1>1 DEF Merged, Data
<1>3. data[n] \in Data /\ None \in Data /\ version[n] \in 0 .. MaxVersion
    BY Types DEF None, Data
<1> QED BY <1>2, <1>3 DEF Answer, Delta

\* A complete answer brings what it is asked for, key by key, or the key has not
\* changed since.
LEMMA AnswerBrings ==
    ASSUME TypeInv, NEW n \in Node, HistoryFits(n), NEW v \in 0 .. MaxVersion, Given(n, v),
           Complete(n, v), NEW k \in Key
    PROVE  data[n][k] \subseteq Answer(n, v).parts[k] \/ StillAt(n, v, k)
<1>1. Answer(n, v).parts = Merged(Flushed(n), Relevant(n, v))
    BY AnswerType
<1>2. \A i \in DOMAIN Flushed(n) : Flushed(n)[i].to \in Nat
    <2>1. \A i \in DOMAIN Flushed(n) : Flushed(n)[i] \in Entry
        BY FlushedParts, LenProperties, ElementOfSeq
    <2> QED BY <2>1 DEF Entry
<1>3. DOMAIN Flushed(n) \subseteq Int
    BY FlushedParts
<1>4. CASE \A i \in DOMAIN Flushed(n) : Has(Flushed(n)[i], k) => ~(Flushed(n)[i].to > v)
    <2>1. TrimmedTo(n) <= v
        BY FlushedParts DEF Complete
    <2>2. \A i \in DOMAIN Flushed(n) : Has(Flushed(n)[i], k) => Flushed(n)[i].to <= v
        BY <1>2, <1>4
    <2>3. Still(Flushed(n), TrimmedTo(n), v, k)
        BY <2>1, <2>2 DEF Still
    <2>4. data[n][k] # {} => StillAt(n, v, k)
        BY <2>3, FlushedStill
    <2> QED BY <2>4
<1>5. CASE ~(\A i \in DOMAIN Flushed(n) : Has(Flushed(n)[i], k) => ~(Flushed(n)[i].to > v))
    <2>1. PICK i \in DOMAIN Flushed(n) :
              /\ Has(Flushed(n)[i], k) /\ Flushed(n)[i].to > v
              /\ \A j \in DOMAIN Flushed(n) : Has(Flushed(n)[j], k) /\ Flushed(n)[j].to > v => j <= i
              /\ Merged(Flushed(n), Relevant(n, v))[k] = Flushed(n)[i].parts[k]
        BY <1>5, MergedLatest
    <2>2. ASSUME NEW j \in DOMAIN Flushed(n), j > i PROVE ~Has(Flushed(n)[j], k)
        <3>1. Flushed(n)[i].to <= Flushed(n)[j].to
            BY <1>3, <2>2, FlushedOrdered DEF Ordered
        <3> QED BY <1>2, <1>3, <2>1, <2>2, <3>1
    <2>3. data[n][k] \subseteq Flushed(n)[i].parts[k]
        BY <2>1, <2>2, FlushedWhole DEF Whole
    <2> QED BY <1>1, <2>1, <2>3
<1> QED BY <1>4, <1>5

(***************************************************************************)
(* Types                                                                   *)
(***************************************************************************)
LEMMA FlushType ==
    ASSUME TypeInv, NEW n \in Node, Flush(n)
    PROVE  /\ history' \in [Node -> Seq(Entry)] /\ trimmed' \in [Node -> 0 .. MaxVersion]
           /\ \A m \in Node : Len(history'[m]) <= MaxHistory
<1>1. /\ history \in [Node -> Seq(Entry)] /\ trimmed \in [Node -> 0 .. MaxVersion]
      /\ \A m \in Node : Len(history[m]) <= MaxHistory
    BY DEF TypeInv, TypeOK
<1>2. /\ Flushed(n) \in Seq(Entry) /\ Len(Flushed(n)) <= MaxHistory
      /\ TrimmedTo(n) \in 0 .. MaxVersion
    BY FlushedParts
<1> QED BY <1>1, <1>2 DEF Flush

\* The members of a history are its entries.
LEMMA HistoryRange ==
    ASSUME NEW h \in Seq(Entry)
    PROVE  Range(h) \subseteq Entry
BY LenProperties, ElementOfSeq DEF Range

LEMMA AppliedType ==
    ASSUME TypeInv, NEW n \in Node, NEW d \in Data, NEW to \in 0 .. MaxVersion, Applied(n, d, to)
    PROVE  /\ data' \in [Node -> Data] /\ version' \in [Node -> 0 .. MaxVersion]
           /\ version'[n] > version[n] /\ version'[n] > to
           /\ data'[n] = Union(data[n], d)
           /\ \A m \in Node \ {n} : data'[m] = data[m] /\ version'[m] = version[m]
<1>1. data \in [Node -> Data] /\ version \in [Node -> 0 .. MaxVersion] /\ MaxVersion \in Nat
    BY DeltaAssumption DEF TypeInv, TypeOK
<1>2. Union(data[n], d) \in Data
    BY <1>1 DEF Union, Data
<1>3. Cardinality(Keys(d)) \in Nat
    <2>1. Keys(d) \in SUBSET Key /\ IsFiniteSet(Key)
        BY DeltaAssumption DEF Keys
    <2> QED BY <2>1, FS_Subset, FS_CardinalityType
<1>4. VersionAfter(n, d, to) \in Nat /\ VersionAfter(n, d, to) > version[n] /\ VersionAfter(n, d, to) > to
    BY <1>1, <1>3 DEF VersionAfter, Larger
<1>5. VersionAfter(n, d, to) \in 0 .. MaxVersion
    BY <1>1, <1>4 DEF Applied
<1> QED BY <1>1, <1>2, <1>4, <1>5 DEF Applied

LEMMA ToldType ==
    ASSUME TypeInv, NEW r \in Node, NEW s \in Node, NEW to \in 0 .. MaxVersion, ToldUpTo(r, s, to)
    PROVE  /\ told' \in [Node -> [Node -> 0 .. MaxVersion]]
           /\ told'[r][s] = Larger(told[r][s], to)
           /\ \A p, q \in Node : p # r \/ q # s => told'[p][q] = told[p][q]
<1>1. told \in [Node -> [Node -> 0 .. MaxVersion]]
    BY DEF TypeInv, TypeOK
<1>2. Larger(told[r][s], to) \in 0 .. MaxVersion
    BY <1>1 DEF Larger
<1> QED BY <1>1, <1>2 DEF ToldUpTo

LEMMA TypeStep == TypeInv /\ [Next]_vars => TypeInv'
<1> SUFFICES ASSUME TypeInv, [Next]_vars PROVE TypeInv'
    OBVIOUS
<1>1. /\ data \in [Node -> Data] /\ version \in [Node -> 0 .. MaxVersion]
      /\ pending \in [Node -> SUBSET Key] /\ history \in [Node -> Seq(Entry)]
      /\ told \in [Node -> [Node -> 0 .. MaxVersion]] /\ wire \in SUBSET Delta
      /\ left \in 0 .. MaxUpdates /\ trimmed \in [Node -> 0 .. MaxVersion]
      /\ gap \in SUBSET (Node \X Node)
      /\ \A m \in Node : Len(history[m]) <= MaxHistory
    BY DEF TypeInv, TypeOK
<1>2. MaxVersion \in Nat /\ MaxUpdates \in Nat
    BY DeltaAssumption
<1>3. ASSUME data' \in [Node -> Data], version' \in [Node -> 0 .. MaxVersion],
             pending' \in [Node -> SUBSET Key], history' \in [Node -> Seq(Entry)],
             told' \in [Node -> [Node -> 0 .. MaxVersion]], wire' \in SUBSET Delta,
             left' \in 0 .. MaxUpdates, trimmed' \in [Node -> 0 .. MaxVersion],
             gap' \in SUBSET (Node \X Node),
             \A m \in Node : Len(history'[m]) <= MaxHistory
      PROVE  TypeInv'
    BY <1>3, HistoryRange DEF TypeInv, TypeOK
<1>4. ASSUME NEW n \in Node, NEW k \in Key, Change(n, k) PROVE TypeInv'
    <2>1. data' = [data EXCEPT ![n][k] = @ \cup {left}] /\ left \in 1 .. MaxUpdates
        BY <1>1, <1>4 DEF Change
    <2>2. data' \in [Node -> Data]
        BY <1>1, <2>1 DEF Data
    <2>3. version' \in [Node -> 0 .. MaxVersion] /\ left' \in 0 .. MaxUpdates
        BY <1>1, <1>2, <1>4 DEF Change
    <2>4. pending' \in [Node -> SUBSET Key]
        BY <1>1, <1>4 DEF Change, Noted
    <2> QED BY <1>1, <1>3, <1>4, <2>2, <2>3, <2>4 DEF Change
<1>5. ASSUME NEW r \in Node, NEW s \in Node, Ask(r, s) PROVE TypeInv'
    <2>1. told[r][s] \in 0 .. MaxVersion
        BY <1>1
    <2>2. wire' \in SUBSET Delta
        BY <1>1, <1>5, <2>1, AnswerType DEF Ask
    <2>3. /\ history' \in [Node -> Seq(Entry)] /\ trimmed' \in [Node -> 0 .. MaxVersion]
          /\ \A m \in Node : Len(history'[m]) <= MaxHistory
        BY <1>5, FlushType DEF Ask
    <2>4. pending' \in [Node -> SUBSET Key]
        BY <1>1, <1>5 DEF Ask
    <2> QED BY <1>1, <1>3, <1>5, <2>2, <2>3, <2>4 DEF Ask
<1>6. ASSUME NEW r \in Node, NEW d \in wire, Receive(r, d) PROVE TypeInv'
    <2>1. d.from \in Node /\ d.parts \in Data /\ d.to \in 0 .. MaxVersion
        BY <1>1 DEF Delta
    <2>2. data' \in [Node -> Data] /\ version' \in [Node -> 0 .. MaxVersion]
        BY <1>6, <2>1, AppliedType DEF Receive
    <2>3. told' \in [Node -> [Node -> 0 .. MaxVersion]]
        BY <1>6, <2>1, ToldType DEF Receive
    <2>4. pending' \in [Node -> SUBSET Key]
        BY <1>1, <1>6 DEF Receive, Noted, Keys
    <2>5. gap' \in SUBSET (Node \X Node)
        <3>1. gap' = gap \/ gap' = gap \cup {<<r, d.from>>}
            BY <1>6 DEF Receive
        <3>2. <<r, d.from>> \in Node \X Node
            BY <2>1
        <3> QED BY <1>1, <3>1, <3>2
    <2> QED BY <1>1, <1>3, <1>6, <2>2, <2>3, <2>4, <2>5 DEF Receive
<1>7. ASSUME NEW r \in Node, NEW s \in Node, MergeStore(r, s) PROVE TypeInv'
    <2>1. data[s] \in Data /\ version[s] \in 0 .. MaxVersion
        BY <1>1
    <2>2. data' \in [Node -> Data] /\ version' \in [Node -> 0 .. MaxVersion]
        BY <1>7, <2>1, AppliedType DEF MergeStore
    <2>3. told' \in [Node -> [Node -> 0 .. MaxVersion]]
        BY <1>7, <2>1, ToldType DEF MergeStore
    <2>4. /\ history' \in [Node -> Seq(Entry)] /\ trimmed' \in [Node -> 0 .. MaxVersion]
          /\ \A m \in Node : Len(history'[m]) <= MaxHistory
        BY <1>7, FlushType DEF MergeStore
    <2>5. pending' \in [Node -> SUBSET Key]
        BY <1>1, <1>7 DEF MergeStore, Noted, Keys
    <2>6. gap' \in SUBSET (Node \X Node)
        BY <1>1, <1>7 DEF MergeStore
    <2> QED BY <1>1, <1>3, <1>7, <2>2, <2>3, <2>4, <2>5, <2>6 DEF MergeStore
<1>8. ASSUME NEW d \in wire, Lose(d) PROVE TypeInv'
    BY <1>1, <1>3, <1>8 DEF Lose
<1>9. CASE UNCHANGED vars
    BY <1>1, <1>3, <1>9 DEF vars
<1> QED BY <1>4, <1>5, <1>6, <1>7, <1>8, <1>9 DEF Next

LEMMA TypeInit == Init => TypeInv
<1> SUFFICES ASSUME Init PROVE TypeInv
    OBVIOUS
<1>1. <<>> \in Seq(Entry) /\ Len(<<>>) = 0 /\ Range(<<>>) \subseteq Entry
    BY EmptySeq, HistoryRange
<1>2. None \in Data
    BY DEF None, Data
<1> QED BY <1>1, <1>2, DeltaAssumption DEF Init, TypeInv, TypeOK

\* Histories stay within maxDeltaHistory and hold entries; versions, deltas and the
\* versions that peers remember are what they are taken for.
THEOREM DeltaTypeCorrect == Spec => []TypeOK
<1>1. TypeInv => TypeOK
    BY DEF TypeInv
<1> QED BY <1>1, TypeInit, TypeStep, PTL DEF Spec

(***************************************************************************)
(* What peers have come up to                                              *)
(***************************************************************************)
\* r has all of s that has not changed since the version r was given.
InStep(r, s) ==
    <<r, s>> \notin gap =>
        \A k \in Key : StillAt(s, told[r][s], k) => data[s][k] \subseteq data[r][k]

\* What a delta under way owes is what the store had, and still has of the keys
\* that have not changed since.
OwedFits(d) ==
    /\ \A k \in Key : d.owed[k] \subseteq data[d.from][k]
    /\ d.owed # None =>
           \A k \in Key : StillAt(d.from, d.to, k) => data[d.from][k] \subseteq d.owed[k]

\* Whoever has what e owes lacks of what d owes only what d brings.
Follows(d, e) ==
    d.from = e.from /\ d.since <= e.to /\ e.owed # None =>
        \A k \in Key : d.owed[k] \subseteq e.owed[k] \cup d.parts[k]

\* The same of a peer that has come up to the start of d.
Reaches(d, r) ==
    d.since <= told[r][d.from] /\ <<r, d.from>> \notin gap =>
        \A k \in Key : d.owed[k] \subseteq data[r][k] \cup d.parts[k]

DeltaInv ==
    /\ TypeInv
    /\ \A n \in Node : HistoryFits(n)
    /\ \A r, s \in Node : Given(s, told[r][s]) /\ InStep(r, s)
    /\ \A d \in wire : Given(d.from, d.to) /\ OwedFits(d)
    /\ \A d, e \in wire : Follows(d, e)
    /\ \A d \in wire, r \in Node : Reaches(d, r)

\* What a step may do to a store: nothing, a flush, or updates that are noted.
Stays(n) ==
    /\ data'[n] = data[n] /\ version'[n] = version[n] /\ pending'[n] = pending[n]
    /\ history'[n] = history[n] /\ trimmed'[n] = trimmed[n]

Flushes(n) ==
    /\ data'[n] = data[n] /\ version'[n] = version[n] /\ pending'[n] = {}
    /\ history'[n] = Flushed(n) /\ trimmed'[n] = TrimmedTo(n)

Grows(n) ==
    /\ history'[n] = history[n] /\ trimmed'[n] = trimmed[n]
    /\ version'[n] > version[n]
    /\ pending[n] \subseteq pending'[n]
    /\ \A k \in Key : data[n][k] \subseteq data'[n][k]
    /\ \A k \in Key \ pending'[n] : data'[n][k] = data[n][k]

StoreMoves(n) == Stays(n) \/ Flushes(n) \/ Grows(n)

LEMMA FlushMoves ==
    ASSUME TypeInv, NEW n \in Node, Flush(n)
    PROVE  /\ history'[n] = Flushed(n) /\ trimmed'[n] = TrimmedTo(n)
           /\ \A m \in Node \ {n} : history'[m] = history[m] /\ trimmed'[m] = trimmed[m]
BY DEF Flush, TypeInv, TypeOK

\* Merging a delta or a state, with the keys that come noted.
LEMMA AppliedGrows ==
    ASSUME TypeInv, NEW n \in Node, NEW d \in Data, NEW to \in 0 .. MaxVersion, Applied(n, d, to),
           pending'[n] = Noted(n, Keys(d)), history'[n] = history[n], trimmed'[n] = trimmed[n]
    PROVE  Grows(n) /\ \A k \in Key : data'[n][k] = data[n][k] \cup d[k]
<1>1. version'[n] > version[n] /\ data'[n] = Union(data[n], d)
    BY AppliedType
<1>2. \A k \in Key : data'[n][k] = data[n][k] \cup d[k]
    BY <1>1 DEF Union
<1>3. \A k \in Key \ pending'[n] : d[k] = {}
    BY DEF Noted, Keys
<1> QED BY <1>1, <1>2, <1>3 DEF Grows, Noted

LEMMA StoreSteps ==
    ASSUME TypeInv, [Next]_vars, NEW n \in Node
    PROVE  StoreMoves(n)
<1>1. /\ data \in [Node -> Data] /\ version \in [Node -> 0 .. MaxVersion]
      /\ pending \in [Node -> SUBSET Key] /\ wire \in SUBSET Delta
    BY DEF TypeInv, TypeOK
<1>2. ASSUME NEW m \in Node, NEW k \in Key, Change(m, k) PROVE StoreMoves(n)
    <2>1. CASE n = m
        <3>1. /\ history' = history /\ trimmed' = trimmed /\ version'[n] = version[n] + 1
              /\ pending'[n] = pending[n] \cup {k}
            BY <1>1, <1>2, <2>1 DEF Change, Noted
        <3>2. \A j \in Key : data'[n][j] = IF j = k THEN data[n][j] \cup {left} ELSE data[n][j]
            BY <1>1, <1>2, <2>1 DEF Change, Data
        <3>3. /\ version'[n] > version[n]
              /\ history'[n] = history[n] /\ trimmed'[n] = trimmed[n]
            BY <1>1, <3>1
        <3>4. \A j \in Key : data[n][j] \subseteq data'[n][j]
            BY <3>2
        <3>5. \A j \in Key \ pending'[n] : data'[n][j] = data[n][j]
            BY <3>1, <3>2
        <3>6. Grows(n)
            BY <3>1, <3>3, <3>4, <3>5 DEF Grows
        <3> QED BY <3>6 DEF StoreMoves
    <2>2. CASE n # m
        BY <1>1, <1>2, <2>2 DEF Change, StoreMoves, Stays
    <2> QED BY <2>1, <2>2
<1>3. ASSUME NEW r \in Node, NEW s \in Node, Ask(r, s) PROVE StoreMoves(n)
    <2>1. CASE n = s
        BY <1>1, <1>3, <2>1, FlushMoves DEF Ask, StoreMoves, Flushes
    <2>2. CASE n # s
        BY <1>1, <1>3, <2>2, FlushMoves DEF Ask, StoreMoves, Stays
    <2> QED BY <2>1, <2>2
<1>4. ASSUME NEW r \in Node, NEW d \in wire, Receive(r, d) PROVE StoreMoves(n)
    <2>1. d.parts \in Data /\ d.to \in 0 .. MaxVersion
        BY <1>1 DEF Delta
    <2>2. /\ Applied(r, d.parts, d.to) /\ history' = history /\ trimmed' = trimmed
          /\ pending' = [pending EXCEPT ![r] = Noted(r, Keys(d.parts))]
        BY <1>4 DEF Receive
    <2>3. CASE n = r
        BY <1>1, <2>1, <2>2, <2>3, AppliedGrows DEF StoreMoves
    <2>4. CASE n # r
        BY <1>1, <2>1, <2>2, <2>4, AppliedType DEF StoreMoves, Stays
    <2> QED BY <2>3, <2>4
<1>5. ASSUME NEW r \in Node, NEW s \in Node, MergeStore(r, s) PROVE StoreMoves(n)
    <2>1. data[s] \in Data /\ version[s] \in 0 .. MaxVersion
        BY <1>1
    <2>2. /\ Applied(r, data[s], version[s]) /\ r # s /\ Flush(s)
          /\ pending' = [pending EXCEPT ![r] = Noted(r, Keys(data[s])), ![s] = {}]
        BY <1>5 DEF MergeStore
    <2>3. \A m \in Node : pending'[m] = IF m = s THEN {} ELSE IF m = r THEN Noted(r, Keys(data[s]))
                                                                      ELSE pending[m]
        BY <1>1, <2>2
    <2>4. CASE n = r
        BY <1>1, <2>1, <2>2, <2>3, <2>4, FlushMoves, AppliedGrows DEF StoreMoves
    <2>5. CASE n = s
        BY <1>1, <2>1, <2>2, <2>3, <2>5, FlushMoves, AppliedType DEF StoreMoves, Flushes
    <2>6. CASE n # r /\ n # s
        BY <1>1, <2>1, <2>2, <2>3, <2>6, FlushMoves, AppliedType DEF StoreMoves, Stays
    <2> QED BY <2>4, <2>5, <2>6
<1>6. ASSUME NEW d \in wire, Lose(d) PROVE StoreMoves(n)
    BY <1>6 DEF Lose, StoreMoves, Stays
<1>7. CASE UNCHANGED vars
    BY <1>7 DEF vars, StoreMoves, Stays
<1> QED BY <1>2, <1>3, <1>4, <1>5, <1>6, <1>7 DEF Next

(***************************************************************************)
(* What a step leaves alone                                                *)
(***************************************************************************)
\* The keys of a store only gain updates.
LEMMA DataGrows ==
    ASSUME NEW n \in Node, StoreMoves(n), NEW k \in Key
    PROVE  data[n][k] \subseteq data'[n][k]
BY DEF StoreMoves, Stays, Flushes, Grows

LEMMA HistoryStays ==
    ASSUME TypeInv, NEW n \in Node, StoreMoves(n), HistoryFits(n), version'[n] \in Nat
    PROVE  HistoryFits(n)'
<1>1. CASE Stays(n)
    BY <1>1 DEF Stays, HistoryFits
<1>2. CASE Flushes(n)
    <2>1. Ordered(history'[n], trimmed'[n], version'[n])
        BY <1>2, FlushedOrdered DEF Flushes
    <2>2. \A k \in Key : Whole(history'[n], data'[n][k], k)
        BY <1>2, FlushedWhole DEF Flushes
    <2> QED BY <2>1, <2>2 DEF HistoryFits
<1>3. CASE Grows(n)
    <2>1. Ordered(history[n], trimmed[n], version[n])
        BY DEF HistoryFits
    <2>2. /\ history[n] \in Seq(Entry) /\ DOMAIN history[n] = 1 .. Len(history[n])
          /\ trimmed[n] \in Nat /\ version[n] \in Nat
        BY Types
    <2>3. \A i \in DOMAIN history[n] : history[n][i].to \in Nat
        <3>1. \A i \in DOMAIN history[n] : history[n][i] \in Entry
            BY <2>2, ElementOfSeq
        <3> QED BY <3>1 DEF Entry
    <2>4. Ordered(history[n], trimmed[n], version'[n])
        BY <1>3, <2>1, <2>2, <2>3 DEF Grows, Ordered
    <2>5. \A k \in Key \ pending'[n] : Whole(history[n], data'[n][k], k)
        BY <1>3 DEF Grows, HistoryFits
    <2> QED BY <1>3, <2>4, <2>5 DEF Grows, HistoryFits
<1> QED BY <1>1, <1>2, <1>3 DEF StoreMoves

\* A version that was given out stays one.
LEMMA GivenStays ==
    ASSUME TypeInv, NEW n \in Node, StoreMoves(n), version'[n] \in Nat, NEW v \in Nat, Given(n, v)
    PROVE  v <= version'[n] /\ (pending'[n] # {} => v < version'[n])
<1>1. version[n] \in Nat
    BY Types
<1> QED BY <1>1 DEF Given, StoreMoves, Stays, Flushes, Grows

\* What has not changed since v after the step had not before, and is the same.
LEMMA StillBefore ==
    ASSUME TypeInv, NEW n \in Node, StoreMoves(n), HistoryFits(n), NEW v \in Nat, Given(n, v),
           NEW k \in Key, k \notin pending'[n], Still(history'[n], trimmed'[n], v, k)
    PROVE  data'[n][k] = data[n][k] /\ (data[n][k] # {} => StillAt(n, v, k))
<1>1. CASE Stays(n)
    BY <1>1 DEF Stays, StillAt
<1>2. CASE Flushes(n)
    BY <1>2, FlushedStill DEF Flushes
<1>3. CASE Grows(n)
    BY <1>3 DEF Grows, StillAt
<1> QED BY <1>1, <1>2, <1>3 DEF StoreMoves

LEMMA InStepStays ==
    ASSUME TypeInv, NEW r \in Node, NEW s \in Node, StoreMoves(r), StoreMoves(s), HistoryFits(s),
           Given(s, told[r][s]), InStep(r, s), told'[r][s] = told[r][s],
           <<r, s>> \notin gap' => <<r, s>> \notin gap
    PROVE  InStep(r, s)'
<1>1. told[r][s] \in Nat
    BY Types
<1> SUFFICES ASSUME <<r, s>> \notin gap', NEW k \in Key, k \notin pending'[s],
                    Still(history'[s], trimmed'[s], told[r][s], k)
             PROVE  data'[s][k] \subseteq data'[r][k]
    BY DEF InStep, StillAt
<1>2. data'[s][k] = data[s][k] /\ (data[s][k] # {} => StillAt(s, told[r][s], k))
    BY <1>1, StillBefore
<1>3. data[s][k] \subseteq data[r][k]
    BY <1>2 DEF InStep
<1> QED BY <1>2, <1>3, DataGrows

LEMMA OwedStays ==
    ASSUME TypeInv, NEW d \in Delta, StoreMoves(d.from), HistoryFits(d.from),
           Given(d.from, d.to), OwedFits(d)
    PROVE  OwedFits(d)'
<1>1. d.from \in Node /\ d.to \in Nat
    BY DEF Delta
<1>2. \A k \in Key : d.owed[k] \subseteq data'[d.from][k]
    BY <1>1, DataGrows DEF OwedFits
<1>3. ASSUME d.owed # None, NEW k \in Key, k \notin pending'[d.from],
             Still(history'[d.from], trimmed'[d.from], d.to, k)
      PROVE  data'[d.from][k] \subseteq d.owed[k]
    <2>1. /\ data'[d.from][k] = data[d.from][k]
          /\ data[d.from][k] # {} => StillAt(d.from, d.to, k)
        BY <1>1, <1>3, StillBefore
    <2> QED BY <1>3, <2>1 DEF OwedFits
<1> QED BY <1>2, <1>3 DEF OwedFits, StillAt

LEMMA ReachStays ==
    ASSUME NEW d \in Delta, NEW r \in Node, StoreMoves(r), Reaches(d, r),
           told'[r][d.from] = told[r][d.from], <<r, d.from>> \notin gap' => <<r, d.from>> \notin gap
    PROVE  Reaches(d, r)'
BY DataGrows DEF Reaches

LEMMA StillLater ==
    ASSUME TypeInv, NEW n \in Node, NEW v \in Nat, NEW w \in Nat, v <= w, NEW k \in Key,
           StillAt(n, v, k)
    PROVE  StillAt(n, w, k)
<1>1. /\ history[n] \in Seq(Entry) /\ DOMAIN history[n] = 1 .. Len(history[n])
      /\ trimmed[n] \in Nat
    BY Types
<1>2. \A i \in DOMAIN history[n] : history[n][i] \in Entry
    BY <1>1, ElementOfSeq
<1>3. \A i \in DOMAIN history[n] : history[n][i].to \in Nat
    BY <1>2 DEF Entry
<1> QED BY <1>1, <1>3 DEF StillAt, Still

(***************************************************************************)
(* What the steps bring                                                    *)
(***************************************************************************)
\* What every step keeps: the stores, and what is on its way and stays there.
LEMMA Keeps ==
    ASSUME DeltaInv, [Next]_vars
    PROVE  /\ TypeInv'
           /\ \A n \in Node : StoreMoves(n) /\ version'[n] \in Nat /\ HistoryFits(n)'
           /\ \A d \in wire : Given(d.from, d.to)' /\ OwedFits(d)'
<1>1. TypeInv /\ TypeInv'
    BY TypeStep DEF DeltaInv
<1>2. ASSUME NEW n \in Node PROVE StoreMoves(n) /\ version'[n] \in Nat /\ HistoryFits(n)'
    <2>1. StoreMoves(n)
        BY <1>1, StoreSteps
    <2>2. version'[n] \in Nat
        BY <1>1 DEF TypeInv, TypeOK
    <2> QED BY <1>1, <2>1, <2>2, HistoryStays DEF DeltaInv
<1>3. ASSUME NEW d \in wire PROVE Given(d.from, d.to)' /\ OwedFits(d)'
    <2>1. d \in Delta
        BY <1>1 DEF TypeInv, TypeOK
    <2>2. d.from \in Node /\ d.to \in Nat
        BY <2>1 DEF Delta
    <2>3. Given(d.from, d.to) /\ OwedFits(d) /\ HistoryFits(d.from)
        BY <2>2 DEF DeltaInv
    <2>4. d.to <= version'[d.from] /\ (pending'[d.from] # {} => d.to < version'[d.from])
        BY <1>1, <1>2, <2>2, <2>3, GivenStays
    <2>5. OwedFits(d)'
        BY <1>1, <1>2, <2>1, <2>2, <2>3, OwedStays
    <2> QED BY <2>4, <2>5 DEF Given
<1> QED BY <1>1, <1>2, <1>3

\* A pair that has not come up to anything new stays in step.
LEMMA PairKeeps ==
    ASSUME DeltaInv, [Next]_vars, NEW r \in Node, NEW s \in Node, told'[r][s] = told[r][s],
           <<r, s>> \notin gap' => <<r, s>> \notin gap
    PROVE  /\ Given(s, told[r][s])'
           /\ InStep(r, s)'
           /\ \A d \in wire : d.from = s => Reaches(d, r)'
<1>1. TypeInv /\ Given(s, told[r][s]) /\ InStep(r, s) /\ HistoryFits(s)
    BY DEF DeltaInv
<1>2. StoreMoves(r) /\ StoreMoves(s) /\ version'[s] \in Nat
    BY Keeps
<1>3. told[r][s] \in Nat
    BY <1>1, Types
<1>4. told[r][s] <= version'[s] /\ (pending'[s] # {} => told[r][s] < version'[s])
    BY <1>1, <1>2, <1>3, GivenStays
<1>5. InStep(r, s)'
    BY <1>1, <1>2, InStepStays
<1>6. ASSUME NEW d \in wire, d.from = s PROVE Reaches(d, r)'
    <2>1. d \in Delta
        BY <1>1 DEF TypeInv, TypeOK
    <2>2. Reaches(d, r)
        BY DEF DeltaInv
    <2> QED BY <1>2, <1>6, <2>1, <2>2, ReachStays
<1> QED BY <1>4, <1>5, <1>6 DEF Given

\* A delta that is taken brings its receiver up to its end.
LEMMA ReceiveBrings ==
    ASSUME DeltaInv, NEW r \in Node, NEW d \in wire, Receive(r, d)
    PROVE  /\ Given(d.from, told[r][d.from])'
           /\ InStep(r, d.from)'
           /\ \A e \in wire : e.from = d.from => Reaches(e, r)'
<1>1. [Next]_vars /\ TypeInv
    BY DEF Next, DeltaInv
<1>2. d \in Delta
    BY <1>1 DEF TypeInv, TypeOK
<1>3. /\ d.from \in Node /\ d.to \in 0 .. MaxVersion /\ d.to \in Nat /\ d.parts \in Data
    BY <1>2 DEF Delta
<1>4. /\ d.since <= told[r][d.from] /\ Applied(r, d.parts, d.to)
      /\ pending'[r] = Noted(r, Keys(d.parts)) /\ ToldUpTo(r, d.from, d.to)
      /\ history' = history /\ trimmed' = trimmed
      /\ gap' = IF d.owed = None THEN gap \cup {<<r, d.from>>} ELSE gap
    BY <1>1 DEF Receive, TypeInv, TypeOK
<1>5. \A k \in Key : data'[r][k] = data[r][k] \cup d.parts[k]
    BY <1>1, <1>3, <1>4, AppliedGrows
<1>6. told[r][d.from] \in Nat /\ told'[r][d.from] = Larger(told[r][d.from], d.to)
    <2>1. told[r][d.from] \in Nat
        BY <1>1, <1>3, Types
    <2>2. told'[r][d.from] = Larger(told[r][d.from], d.to)
        BY <1>1, <1>3, <1>4, ToldType
    <2> QED BY <2>1, <2>2
<1>7. CASE told'[r][d.from] = told[r][d.from]
    BY <1>1, <1>3, <1>4, <1>7, PairKeeps
<1>8. CASE told'[r][d.from] = d.to
    <2>1. Given(d.from, d.to)' /\ OwedFits(d)'
        BY <1>1, Keeps
    <2>2. Given(d.from, told[r][d.from])'
        BY <1>8, <2>1 DEF Given
    <2>3. ASSUME <<r, d.from>> \notin gap', NEW k \in Key
          PROVE  d.owed # None /\ d.owed[k] \subseteq data'[r][k]
        <3>1. d.owed # None /\ <<r, d.from>> \notin gap
            BY <1>4, <2>3
        <3>2. d.owed[k] \subseteq data[r][k] \cup d.parts[k]
            BY <1>4, <3>1 DEF DeltaInv, Reaches
        <3> QED BY <1>5, <3>1, <3>2
    <2>4. InStep(r, d.from)'
        <3> SUFFICES ASSUME <<r, d.from>> \notin gap', NEW k \in Key,
                            k \notin pending'[d.from],
                            Still(history'[d.from], trimmed'[d.from], d.to, k)
                     PROVE  data'[d.from][k] \subseteq data'[r][k]
            BY <1>8 DEF InStep, StillAt
        <3>1. d.owed # None /\ d.owed[k] \subseteq data'[r][k]
            BY <2>3
        <3>2. data'[d.from][k] \subseteq d.owed[k]
            BY <2>1, <3>1 DEF OwedFits, StillAt
        <3> QED BY <3>1, <3>2
    <2>5. ASSUME NEW e \in wire, e.from = d.from PROVE Reaches(e, r)'
        <3> SUFFICES ASSUME e.since <= d.to, <<r, d.from>> \notin gap', NEW k \in Key
                     PROVE  e.owed[k] \subseteq data'[r][k] \cup e.parts[k]
            BY <1>8, <2>5 DEF Reaches
        <3>1. d.owed # None /\ d.owed[k] \subseteq data'[r][k]
            BY <2>3
        <3>2. e.owed[k] \subseteq d.owed[k] \cup e.parts[k]
            BY <2>5, <3>1 DEF DeltaInv, Follows
        <3> QED BY <3>1, <3>2
    <2> QED BY <2>2, <2>4, <2>5
<1> QED BY <1>6, <1>7, <1>8 DEF Larger

\* A merge brings all the other store has.
LEMMA MergeBrings ==
    ASSUME DeltaInv, NEW r \in Node, NEW s \in Node, MergeStore(r, s)
    PROVE  /\ Given(s, told[r][s])'
           /\ InStep(r, s)'
           /\ \A d \in wire : d.from = s => Reaches(d, r)'
<1>1. [Next]_vars /\ TypeInv
    BY DEF Next, DeltaInv
<1>2. /\ data[s] \in Data /\ version[s] \in 0 .. MaxVersion /\ version[s] \in Nat
      /\ told[r][s] \in Nat
    BY <1>1, Types
<1>3. /\ r # s /\ Applied(r, data[s], version[s]) /\ ToldUpTo(r, s, version[s])
    BY DEF MergeStore
<1>4. pending'[s] = {}
    BY <1>1 DEF MergeStore, TypeInv, TypeOK
<1>5. data'[s] = data[s] /\ version'[s] = version[s] /\ data'[r] = Union(data[r], data[s])
    BY <1>1, <1>2, <1>3, AppliedType
<1>6. told'[r][s] = Larger(told[r][s], version[s]) /\ told[r][s] <= version[s]
    BY <1>1, <1>2, <1>3, ToldType DEF DeltaInv, Given
<1>7. \A k \in Key : data[s][k] \subseteq data'[r][k]
    BY <1>5 DEF Union
<1>8. Given(s, told[r][s])'
    BY <1>2, <1>4, <1>5, <1>6 DEF Given, Larger
<1>9. InStep(r, s)'
    BY <1>5, <1>7 DEF InStep
<1>10. ASSUME NEW d \in wire, d.from = s PROVE Reaches(d, r)'
    <2>1. \A k \in Key : d.owed[k] \subseteq data[s][k]
        BY <1>10 DEF DeltaInv, OwedFits
    <2> QED BY <1>7, <2>1 DEF Reaches
<1> QED BY <1>8, <1>9, <1>10

\* An answer fits what is under way already, and whoever has come up to its start.
LEMMA AnswerFits ==
    ASSUME DeltaInv, NEW r \in Node, NEW s \in Node, NEW d, d = Answer(s, told[r][s])
    PROVE  /\ \A e \in wire : Follows(d, e) /\ Follows(e, d)
           /\ Follows(d, d)
           /\ \A p \in Node : Reaches(d, p)
<1>1. TypeInv /\ HistoryFits(s) /\ Given(s, told[r][s])
    BY DEF DeltaInv
<1>2. told[r][s] \in 0 .. MaxVersion /\ told[r][s] \in Nat
    BY <1>1, Types, DeltaAssumption
<1>3. /\ d \in Delta /\ d.from = s /\ d.since = told[r][s] /\ d.to = version[s]
      /\ d.owed = IF Complete(s, told[r][s]) THEN data[s] ELSE None
    BY <1>1, <1>2, AnswerType
<1>4. \A k \in Key : d.owed[k] \subseteq data[s][k]
    BY <1>3 DEF None
<1>5. ASSUME NEW k \in Key
      PROVE  d.owed[k] \subseteq d.parts[k] \/ StillAt(s, told[r][s], k)
    <2>1. CASE Complete(s, told[r][s])
        BY <1>1, <1>2, <1>4, <2>1, AnswerBrings
    <2>2. CASE ~Complete(s, told[r][s])
        BY <1>3, <2>2 DEF None
    <2> QED BY <2>1, <2>2
<1>6. ASSUME NEW e \in wire PROVE Follows(d, e)
    <2> SUFFICES ASSUME e.from = s, told[r][s] <= e.to, e.owed # None, NEW k \in Key
                 PROVE  d.owed[k] \subseteq e.owed[k] \cup d.parts[k]
        BY <1>3 DEF Follows
    <2>1. OwedFits(e) /\ e.to \in Nat
        BY <1>1 DEF DeltaInv, TypeInv, TypeOK, Delta
    <2>2. CASE StillAt(s, told[r][s], k)
        <3>1. StillAt(s, e.to, k)
            BY <1>1, <1>2, <2>1, <2>2, StillLater
        <3>2. data[s][k] \subseteq e.owed[k]
            BY <2>1, <3>1 DEF OwedFits
        <3> QED BY <1>4, <3>2
    <2> QED BY <1>5, <2>2
<1>7. ASSUME NEW e \in wire PROVE Follows(e, d)
    <2>1. e.from = s => \A k \in Key : e.owed[k] \subseteq data[s][k]
        BY DEF DeltaInv, OwedFits
    <2>2. d.owed # None => d.owed = data[s]
        BY <1>3
    <2> QED BY <1>3, <2>1, <2>2 DEF Follows
<1>8. ASSUME NEW p \in Node PROVE Reaches(d, p)
    <2> SUFFICES ASSUME told[r][s] <= told[p][s], <<p, s>> \notin gap, NEW k \in Key
                 PROVE  d.owed[k] \subseteq data[p][k] \cup d.parts[k]
        BY <1>3 DEF Reaches
    <2>1. told[p][s] \in Nat
        BY <1>1, Types
    <2>2. CASE StillAt(s, told[r][s], k)
        <3>1. StillAt(s, told[p][s], k)
            BY <1>1, <1>2, <2>1, <2>2, StillLater
        <3>2. data[s][k] \subseteq data[p][k]
            BY <3>1 DEF DeltaInv, InStep
        <3> QED BY <1>4, <3>2
    <2> QED BY <1>5, <2>2
<1> QED BY <1>6, <1>7, <1>8 DEF Follows

(***************************************************************************)
(* The invariant                                                           *)
(***************************************************************************)
LEMMA DeltaInit == Init => DeltaInv
<1> SUFFICES ASSUME Init PROVE DeltaInv
    OBVIOUS
<1>1. TypeInv
    BY TypeInit
<1>2. ASSUME NEW n \in Node PROVE HistoryFits(n)
    <2>1. history[n] = <<>> /\ trimmed[n] = 0 /\ version[n] = 0
        BY DEF Init
    <2>2. DOMAIN history[n] = {}
        BY <2>1
    <2> QED BY <2>1, <2>2 DEF HistoryFits, Ordered, Whole
<1>3. \A r, s \in Node : told[r][s] = 0 /\ version[s] = 0 /\ pending[s] = {}
    BY DEF Init
<1>4. \A s \in Node, k \in Key : data[s][k] = {}
    BY DEF Init, None
<1>5. wire = {}
    BY DEF Init
<1> QED BY <1>1, <1>2, <1>3, <1>4, <1>5 DEF DeltaInv, Given, InStep

\* A step under which every pair and every delta still fits.
LEMMA DeltaPairs ==
    ASSUME DeltaInv, [Next]_vars,
           \A r, s \in Node :
               /\ Given(s, told[r][s])' /\ InStep(r, s)'
               /\ \A d \in wire : d.from = s => Reaches(d, r)',
           wire' \subseteq wire
    PROVE  DeltaInv'
<1>1. TypeInv' /\ \A n \in Node : HistoryFits(n)'
    BY Keeps
<1>2. \A d \in wire' : Given(d.from, d.to)' /\ OwedFits(d)'
    BY Keeps
<1>3. \A d, e \in wire' : Follows(d, e)
    BY DEF DeltaInv
<1>4. \A d \in wire : d.from \in Node
    BY DEF DeltaInv, TypeInv, TypeOK, Delta
<1>5. \A d \in wire', r \in Node : Reaches(d, r)'
    BY <1>4
<1> QED BY <1>1, <1>2, <1>3, <1>5 DEF DeltaInv

LEMMA DeltaStep == DeltaInv /\ [Next]_vars => DeltaInv'
<1> SUFFICES ASSUME DeltaInv, [Next]_vars PROVE DeltaInv'
    OBVIOUS
<1>1. TypeInv /\ wire \subseteq Delta
    BY DEF DeltaInv, TypeInv, TypeOK
<1> DEFINE Fits(r, s) == /\ Given(s, told[r][s])' /\ InStep(r, s)'
                         /\ \A d \in wire : d.from = s => Reaches(d, r)'
<1>2. ASSUME NEW r \in Node, NEW s \in Node, told'[r][s] = told[r][s],
             <<r, s>> \notin gap' => <<r, s>> \notin gap
      PROVE  Fits(r, s)
    BY <1>2, PairKeeps
<1>3. ASSUME NEW n \in Node, NEW k \in Key, Change(n, k) PROVE DeltaInv'
    <2>1. told' = told /\ gap' = gap /\ wire' = wire
        BY <1>3 DEF Change
    <2>2. \A r, s \in Node : Fits(r, s)
        BY <1>2, <2>1
    <2> QED BY <2>1, <2>2, DeltaPairs
<1>4. ASSUME NEW r \in Node, NEW s \in Node, Ask(r, s) PROVE DeltaInv'
    <2>1. PICK d : d = Answer(s, told[r][s]) /\ wire' = wire \cup {d}
        BY <1>4 DEF Ask
    <2>2. /\ told' = told /\ gap' = gap /\ data' = data /\ version' = version
          /\ pending'[s] = {}
        BY <1>1, <1>4 DEF Ask, TypeInv, TypeOK
    <2>3. \A p, q \in Node : Fits(p, q)
        BY <1>2, <2>2
    <2>4. /\ \A e \in wire : Follows(d, e) /\ Follows(e, d)
          /\ Follows(d, d) /\ \A p \in Node : Reaches(d, p)
        BY <2>1, AnswerFits
    <2>5. d.from = s /\ d.to = version[s] /\ d.owed \in {data[s], None}
        BY <1>1, <2>1, Types, AnswerType
    <2>6. Given(d.from, d.to)' /\ OwedFits(d)'
        <3>1. version[s] \in Nat
            BY <1>1, Types
        <3>2. Given(d.from, d.to)'
            BY <2>2, <2>5, <3>1 DEF Given
        <3>3. \A k \in Key : d.owed[k] \subseteq data'[s][k]
            BY <2>2, <2>5 DEF None
        <3>4. d.owed # None => d.owed = data'[s]
            BY <2>2, <2>5
        <3> QED BY <2>5, <3>2, <3>3, <3>4 DEF OwedFits
    <2>7. \A p \in Node : Reaches(d, p)'
        BY <2>2, <2>4 DEF Reaches
    <2>8. TypeInv' /\ \A n \in Node : HistoryFits(n)'
        BY Keeps
    <2>9. \A e \in wire' : Given(e.from, e.to)' /\ OwedFits(e)'
        BY <2>1, <2>6, Keeps
    <2>10. \A e, f \in wire' : Follows(e, f)
        BY <2>1, <2>4 DEF DeltaInv
    <2>11. \A e \in wire', p \in Node : Reaches(e, p)'
        <3>1. \A e \in wire : e.from \in Node
            BY <1>1 DEF Delta
        <3> QED BY <2>1, <2>3, <2>7, <3>1
    <2> QED BY <2>3, <2>8, <2>9, <2>10, <2>11 DEF DeltaInv
<1>5. ASSUME NEW r \in Node, NEW d \in wire, Receive(r, d) PROVE DeltaInv'
    <2>1. d.from \in Node /\ d.to \in 0 .. MaxVersion
        BY <1>1 DEF Delta
    <2>2. wire' = wire /\ ToldUpTo(r, d.from, d.to) /\ gap \subseteq gap'
        BY <1>5 DEF Receive
    <2>3. \A p, q \in Node : p # r \/ q # d.from => told'[p][q] = told[p][q]
        BY <1>1, <2>1, <2>2, ToldType
    <2>4. Fits(r, d.from)
        BY <1>5, ReceiveBrings
    <2>5. \A p, q \in Node : Fits(p, q)
        BY <1>2, <2>2, <2>3, <2>4
    <2> QED BY <2>2, <2>5, DeltaPairs
<1>6. ASSUME NEW r \in Node, NEW s \in Node, MergeStore(r, s) PROVE DeltaInv'
    <2>1. version[s] \in 0 .. MaxVersion
        BY <1>1, Types
    <2>2. wire' = wire /\ ToldUpTo(r, s, version[s]) /\ gap' = gap \ {<<r, s>>}
        BY <1>6 DEF MergeStore
    <2>3. \A p, q \in Node : p # r \/ q # s => told'[p][q] = told[p][q]
        BY <1>1, <2>1, <2>2, ToldType
    <2>4. Fits(r, s)
        BY <1>6, MergeBrings
    <2>5. \A p, q \in Node : p # r \/ q # s => Fits(p, q)
        BY <1>2, <2>2, <2>3
    <2>6. \A p, q \in Node : Fits(p, q)
        BY <2>4, <2>5
    <2> QED BY <2>2, <2>6, DeltaPairs
<1>7. ASSUME NEW d \in wire, Lose(d) PROVE DeltaInv'
    <2>1. told' = told /\ gap' = gap /\ wire' \subseteq wire
        BY <1>7 DEF Lose
    <2>2. \A r, s \in Node : Fits(r, s)
        BY <1>2, <2>1
    <2> QED BY <2>1, <2>2, DeltaPairs
<1>8. CASE UNCHANGED vars
    <2>1. told' = told /\ gap' = gap /\ wire' = wire
        BY <1>8 DEF vars
    <2>2. \A r, s \in Node : Fits(r, s)
        BY <1>2, <2>1
    <2> QED BY <2>1, <2>2, DeltaPairs
<1> QED BY <1>3, <1>4, <1>5, <1>6, <1>7, <1>8 DEF Next

\* A peer that comes up to the versions it is given lacks of a store only what
\* getDelta would answer it now, whatever deltas were lost, late, repeated or
\* brought by others, as long as no answer had lost entries to the history's limit.
THEOREM NothingMissedAlways == Spec => []NothingMissed
<1>1. DeltaInv => NothingMissed
    <2> SUFFICES ASSUME DeltaInv, NEW r \in Node, NEW s \in Node, Complete(s, told[r][s]),
                        <<r, s>> \notin gap, NEW k \in Key
                 PROVE  data[s][k] \subseteq data[r][k] \cup Answer(s, told[r][s]).parts[k]
        BY DEF NothingMissed
    <2>1. TypeInv /\ HistoryFits(s) /\ Given(s, told[r][s]) /\ InStep(r, s)
        BY DEF DeltaInv
    <2>2. told[r][s] \in 0 .. MaxVersion
        BY <2>1, Types
    <2>3. data[s][k] \subseteq Answer(s, told[r][s]).parts[k] \/ StillAt(s, told[r][s], k)
        BY <2>1, <2>2, AnswerBrings
    <2> QED BY <2>1, <2>3 DEF InStep
<1> QED BY <1>1, DeltaInit, DeltaStep, PTL DEF Spec

\* A delta under way brings whoever has come up to its start all that the store
\* had when it answered: it need not be the node that asked, nor the first time.
THEOREM DeltaConnectsAlways == Spec => []DeltaConnects
<1>1. DeltaInv => DeltaConnects
    BY DEF DeltaInv, Reaches, DeltaConnects
<1> QED BY <1>1, DeltaInit, DeltaStep, PTL DEF Spec

\* A store that changes its data moves its version past all it has given out.
THEOREM VersionsMoveOnAlways == Spec => VersionsMoveOn
<1> DEFINE Moves == \A n \in Node : data'[n] # data[n] =>
                        /\ version'[n] > version[n]
                        /\ \A r \in Node \ {n} : version'[n] > told'[r][n]
<1>1. ASSUME DeltaInv, DeltaInv', [Next]_vars PROVE Moves
    <2> SUFFICES ASSUME NEW n \in Node, data'[n] # data[n]
                 PROVE  /\ version'[n] > version[n]
                        /\ \A r \in Node \ {n} : version'[n] > told'[r][n]
        OBVIOUS
    <2>1. StoreMoves(n)
        BY <1>1, Keeps
    <2>2. Grows(n)
        BY <2>1 DEF StoreMoves, Stays, Flushes
    <2>3. PICK k \in Key : data'[n][k] # data[n][k]
        <3>1. data[n] \in Data /\ data'[n] \in Data
            BY <1>1 DEF DeltaInv, TypeInv, TypeOK
        <3> QED BY <3>1 DEF Data
    <2>4. pending'[n] # {}
        BY <2>2, <2>3 DEF Grows
    <2>5. ASSUME NEW r \in Node PROVE version'[n] > told'[r][n]
        <3>1. version'[n] \in Nat /\ told'[r][n] \in Nat
            BY <1>1 DEF DeltaInv, TypeInv, TypeOK
        <3>2. told'[r][n] < version'[n]
            BY <1>1, <2>4 DEF DeltaInv, Given
        <3> QED BY <3>1, <3>2
    <2> QED BY <2>2, <2>5 DEF Grows
<1>2. DeltaInv /\ DeltaInv' /\ [Next]_vars => [Moves]_vars
    BY <1>1
<1>3. VersionsMoveOn <=> [][Moves]_vars
    BY DEF VersionsMoveOn
<1> QED BY <1>2, <1>3, DeltaInit, DeltaStep, PTL DEF Spec
=============================================================================
