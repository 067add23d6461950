------------------------- MODULE CrdtReplicasProofs -------------------------
(***************************************************************************)
(* Merging is a least upper bound, and what CrdtReplicas promises of each  *)
(* copy of a store, for any nodes, clocks, updates, losses and crashes.    *)
(***************************************************************************)
EXTENDS CrdtReplicas, TLAPS

(***************************************************************************)
(* The order of the stamps.                                                *)
(***************************************************************************)
SameStamp(r, s) == r[1] = s[1] /\ r[2] = s[2]

\* Two registers that carry the same stamp carry the same value.
Agree(r, s) == SameStamp(r, s) => r = s

\* What a register is made of.
LEMMA RegisterParts ==
    ASSUME NEW r \in Register
    PROVE  /\ r[1] \in Nat
           /\ r[1] = 0 => r = Unset
           /\ r[1] # 0 => r[1] \in 1 .. MaxTime /\ r[2] \in Node /\ r[3] \in Value
           /\ r = <<r[1], r[2], r[3]>>
<1>1. CASE r = Unset
  BY <1>1, CrdtAssumption DEF Unset
<1>2. CASE r \in (1 .. MaxTime) \X Node \X Value
  BY <1>2, CrdtAssumption
<1> QED BY <1>1, <1>2 DEF Register

\* Of two written registers with different stamps exactly one is newer.
LEMMA NewerTotal ==
    ASSUME NEW r \in Register, NEW s \in Register, r[1] # 0, s[1] # 0
    PROVE  /\ SameStamp(r, s) \/ Newer(r, s) \/ Newer(s, r)
           /\ ~(Newer(r, s) /\ Newer(s, r))
           /\ ~(SameStamp(r, s) /\ Newer(r, s))
<1>1. r[1] \in Nat /\ s[1] \in Nat /\ r[2] \in Node /\ s[2] \in Node
  BY RegisterParts
<1>2. Rank[r[2]] \in Nat /\ Rank[s[2]] \in Nat
  BY <1>1, CrdtAssumption
<1>3. Rank[r[2]] = Rank[s[2]] => r[2] = s[2]
  BY <1>1, CrdtAssumption
<1> QED BY <1>1, <1>2, <1>3 DEF Newer, SameStamp

\* Newer is transitive on written registers.
LEMMA NewerTransitive ==
    ASSUME NEW r \in Register, NEW s \in Register, NEW t \in Register,
           r[1] # 0, s[1] # 0, t[1] # 0, Newer(r, s), Newer(s, t)
    PROVE  Newer(r, t)
<1>1. /\ r[1] \in Nat /\ s[1] \in Nat /\ t[1] \in Nat
      /\ r[2] \in Node /\ s[2] \in Node /\ t[2] \in Node
  BY RegisterParts
<1>2. Rank[r[2]] \in Nat /\ Rank[s[2]] \in Nat /\ Rank[t[2]] \in Nat
  BY <1>1, CrdtAssumption
<1> QED BY <1>1, <1>2 DEF Newer

\* An unwritten register is newer than none.
LEMMA UnsetIsOld ==
    ASSUME NEW s \in Register, s[1] # 0
    PROVE  ~Newer(Unset, s)
BY RegisterParts DEF Newer, Unset

LEMMA MergeRegisterType ==
    ASSUME NEW r \in Register, NEW s \in Register
    PROVE  MergeRegister(r, s) \in Register /\ MergeRegister(r, s) \in {r, s}
BY DEF MergeRegister

\* The merge of two registers is the newer of the two, however it is nested.
LEMMA MergeRegisterCommutes ==
    ASSUME NEW r \in Register, NEW s \in Register, Agree(r, s)
    PROVE  MergeRegister(r, s) = MergeRegister(s, r)
<1>1. CASE r[1] = 0 /\ s[1] = 0
  BY <1>1, RegisterParts DEF MergeRegister
<1>2. CASE r[1] = 0 /\ s[1] # 0
  BY <1>2, RegisterParts, UnsetIsOld DEF MergeRegister
<1>3. CASE r[1] # 0 /\ s[1] = 0
  BY <1>3, RegisterParts, UnsetIsOld DEF MergeRegister
<1>4. CASE r[1] # 0 /\ s[1] # 0
  BY <1>4, NewerTotal DEF MergeRegister, Agree
<1> QED BY <1>1, <1>2, <1>3, <1>4

LEMMA MergeRegisterAssociates ==
    ASSUME NEW r \in Register, NEW s \in Register, NEW t \in Register,
           Agree(r, s), Agree(s, t), Agree(r, t)
    PROVE  MergeRegister(MergeRegister(r, s), t) = MergeRegister(r, MergeRegister(s, t))
<1>1. CASE r[1] = 0
  BY <1>1, RegisterParts DEF MergeRegister
<1>2. CASE r[1] # 0 /\ s[1] = 0
  BY <1>2, RegisterParts, UnsetIsOld DEF MergeRegister
<1>3. CASE r[1] # 0 /\ s[1] # 0 /\ t[1] = 0
  BY <1>3, RegisterParts, UnsetIsOld DEF MergeRegister
<1>4. CASE r[1] # 0 /\ s[1] # 0 /\ t[1] # 0
  <2>1. CASE Newer(s, r)
    <3>1. CASE Newer(t, s)
      BY <1>4, <2>1, <3>1, NewerTransitive DEF MergeRegister
    <3>2. CASE ~Newer(t, s)
      BY <1>4, <2>1, <3>2 DEF MergeRegister
    <3> QED BY <3>1, <3>2
  <2>2. CASE ~Newer(s, r)
    <3>1. CASE Newer(t, s)
      BY <1>4, <2>2, <3>1 DEF MergeRegister
    <3>2. CASE ~Newer(t, s)
      <4>1. SUFFICES ~Newer(t, r)
        BY <1>4, <2>2, <3>2 DEF MergeRegister
      <4>2. s = t \/ Newer(s, t)
        BY <1>4, <3>2, NewerTotal DEF Agree
      <4>3. r = s \/ Newer(r, s)
        BY <1>4, <2>2, NewerTotal DEF Agree
      <4>4. r = t \/ Newer(r, t)
        BY <4>2, <4>3, <1>4, NewerTransitive
      <4> QED BY <4>4, <1>4, NewerTotal DEF SameStamp
    <3> QED BY <3>1, <3>2
  <2> QED BY <2>1, <2>2
<1> QED BY <1>1, <1>2, <1>3, <1>4

(***************************************************************************)
(* The store's merge.                                                      *)
(***************************************************************************)
LEMMA MergeCountType ==
    ASSUME NEW a \in Count, NEW b \in Count
    PROVE  /\ MergeCount(a, b) \in Count
           /\ \A n \in Node : /\ a[n] \in Nat /\ b[n] \in Nat
                              /\ MergeCount(a, b)[n] = IF b[n] > a[n] THEN b[n] ELSE a[n]
BY CrdtAssumption DEF Count, MergeCount

LEMMA MergeCountCommutes ==
    ASSUME NEW a \in Count, NEW b \in Count
    PROVE  MergeCount(a, b) = MergeCount(b, a)
<1>1. \A n \in Node : (IF b[n] > a[n] THEN b[n] ELSE a[n]) = (IF a[n] > b[n] THEN a[n] ELSE b[n])
  BY MergeCountType
<1> QED BY <1>1 DEF MergeCount

LEMMA MergeCountAssociates ==
    ASSUME NEW a \in Count, NEW b \in Count, NEW c \in Count
    PROVE  MergeCount(MergeCount(a, b), c) = MergeCount(a, MergeCount(b, c))
<1>1. MergeCount(a, b) \in Count /\ MergeCount(b, c) \in Count
  BY MergeCountType
<1>2. \A n \in Node : MergeCount(MergeCount(a, b), c)[n] = MergeCount(a, MergeCount(b, c))[n]
  BY <1>1, MergeCountType
<1>3. /\ MergeCount(MergeCount(a, b), c) \in Count
      /\ MergeCount(a, MergeCount(b, c)) \in Count
  BY <1>1, MergeCountType
<1> QED BY <1>2, <1>3 DEF Count

LEMMA MergeCountIdempotent ==
    ASSUME NEW a \in Count
    PROVE  MergeCount(a, a) = a
<1>1. \A n \in Node : (IF a[n] > a[n] THEN a[n] ELSE a[n]) = a[n]
  OBVIOUS
<1> QED BY <1>1 DEF MergeCount, Count

LEMMA StoreParts ==
    ASSUME NEW s \in Store
    PROVE  /\ s.reg \in Register /\ s.inc \in Count /\ s.dec \in Count
           /\ s.tags \subseteq Tag /\ s.tombs \subseteq Tag /\ s.seen \subseteq Update
           /\ s = [reg |-> s.reg, inc |-> s.inc, dec |-> s.dec, tags |-> s.tags,
                   tombs |-> s.tombs, seen |-> s.seen]
BY DEF Store

LEMMA MergeType ==
    ASSUME NEW s \in Store, NEW t \in Store
    PROVE  Merge(s, t) \in Store
BY StoreParts, MergeRegisterType, MergeCountType DEF Merge, Store

\* A state applied again changes nothing: repeated deliveries are harmless.
THEOREM MergeIdempotent ==
    ASSUME NEW s \in Store
    PROVE  Merge(s, s) = s
<1>1. s.reg \in Register /\ s.inc \in Count /\ s.dec \in Count
  BY StoreParts
<1>2. MergeRegister(s.reg, s.reg) = s.reg
  BY DEF MergeRegister
<1>3. MergeCount(s.inc, s.inc) = s.inc /\ MergeCount(s.dec, s.dec) = s.dec
  BY <1>1, MergeCountIdempotent
<1> QED BY <1>2, <1>3, StoreParts DEF Merge

\* The order of two states does not matter ("merge(other): commutative"),
\* provided a stamp names one value.
THEOREM MergeCommutes ==
    ASSUME NEW s \in Store, NEW t \in Store, Agree(s.reg, t.reg)
    PROVE  Merge(s, t) = Merge(t, s)
<1>1. MergeRegister(s.reg, t.reg) = MergeRegister(t.reg, s.reg)
  BY StoreParts, MergeRegisterCommutes
<1>2. MergeCount(s.inc, t.inc) = MergeCount(t.inc, s.inc)
  BY StoreParts, MergeCountCommutes
<1>3. MergeCount(s.dec, t.dec) = MergeCount(t.dec, s.dec)
  BY StoreParts, MergeCountCommutes
<1> QED BY <1>1, <1>2, <1>3 DEF Merge

\* Nor does it matter who passes a state on, already merged with another.
THEOREM MergeAssociates ==
    ASSUME NEW s \in Store, NEW t \in Store, NEW u \in Store,
           Agree(s.reg, t.reg), Agree(t.reg, u.reg), Agree(s.reg, u.reg)
    PROVE  Merge(Merge(s, t), u) = Merge(s, Merge(t, u))
<1>1. MergeRegister(MergeRegister(s.reg, t.reg), u.reg)
        = MergeRegister(s.reg, MergeRegister(t.reg, u.reg))
  BY StoreParts, MergeRegisterAssociates
<1>2. MergeCount(MergeCount(s.inc, t.inc), u.inc) = MergeCount(s.inc, MergeCount(t.inc, u.inc))
  BY StoreParts, MergeCountAssociates
<1>3. MergeCount(MergeCount(s.dec, t.dec), u.dec) = MergeCount(s.dec, MergeCount(t.dec, u.dec))
  BY StoreParts, MergeCountAssociates
<1> QED BY <1>1, <1>2, <1>3 DEF Merge

(***************************************************************************)
(* What each copy of a store satisfies.                                    *)
(***************************************************************************)
RegGood(s) ==
    \/ Writes(s) = {} /\ s.reg = Unset
    \/ /\ \E w \in Writes(s) : s.reg = Stamp(w)
       /\ \A w \in Writes(s) : Stamp(w) = s.reg \/ Newer(s.reg, Stamp(w))

CountGood(s) ==
    \A n \in Node, i \in 1 .. MaxUpdates :
        /\ <<"inc", n, i>> \in s.seen <=> i <= s.inc[n]
        /\ <<"dec", n, i>> \in s.seen <=> i <= s.dec[n]

SetGood(s) ==
    \A t \in Tag :
        /\ t \in s.tags <=> <<"add", t>> \in s.seen
        /\ t \in s.tombs <=> \E u \in s.seen : u[1] = "remove" /\ t \in u[2]

\* Two copies name each write the same way.
OneWrite(s, t) ==
    \A u \in Writes(s), w \in Writes(t) : u[2] = w[2] /\ u[3] = w[3] => u = w

\* No copy is ahead of the clock of a write's author, and what carries the
\* author's present time is no newer than what the author holds.
Behind(s) ==
    \A w \in Writes(s) :
        /\ w[2] <= clock[w[3]]
        /\ w[2] = clock[w[3]] =>
             LET r == rep[w[3]].reg
             IN  r[1] # 0 /\ (Stamp(w) = r \/ Newer(r, Stamp(w)))

\* No count is larger than the updates already made.
Bounded(s) == \A n \in Node : s.inc[n] <= MaxUpdates - left /\ s.dec[n] <= MaxUpdates - left

CopyInv(s) == RegGood(s) /\ CountGood(s) /\ SetGood(s) /\ Behind(s) /\ Bounded(s)

CrdtInv ==
    /\ TypeOK
    /\ \A s \in Copies : CopyInv(s)
    /\ \A s, t \in Copies : OneWrite(s, t)

\* A write as a member of a history and as the register that holds it.
LEMMA WriteParts ==
    ASSUME NEW s \in Store, NEW w \in Writes(s)
    PROVE  /\ w \in s.seen /\ w \in Write
           /\ w = <<"set", w[2], w[3], w[4]>>
           /\ w[2] \in 1 .. MaxTime /\ w[3] \in Node /\ w[4] \in Value
           /\ Stamp(w) \in Register
           /\ Stamp(w)[1] = w[2] /\ Stamp(w)[2] = w[3] /\ Stamp(w)[3] = w[4]
           /\ Stamp(w)[1] # 0
<1>1. w \in Update /\ w[1] = "set"
  BY StoreParts DEF Writes
<1>2. w \in Write
  BY <1>1 DEF Update
<1>3. w = <<"set", w[2], w[3], w[4]>> /\ w[2] \in 1 .. MaxTime /\ w[3] \in Node /\ w[4] \in Value
  BY <1>2 DEF Write
<1>4. Stamp(w) \in Register /\ w[2] # 0
  BY <1>3, CrdtAssumption DEF Stamp, Register
<1> QED BY <1>1, <1>2, <1>3, <1>4 DEF Stamp, Writes

LEMMA WritesMerge ==
    ASSUME NEW s \in Store, NEW t \in Store
    PROVE  Writes(Merge(s, t)) = Writes(s) \cup Writes(t)
BY DEF Writes, Merge

\* The register of a merge is the newest of both histories.
LEMMA MergeRegGood ==
    ASSUME NEW s \in Store, NEW t \in Store, RegGood(s), RegGood(t), OneWrite(s, t)
    PROVE  RegGood(Merge(s, t))
<1> DEFINE m == Merge(s, t)
<1>1. m.reg = MergeRegister(s.reg, t.reg) /\ Writes(m) = Writes(s) \cup Writes(t)
  BY WritesMerge DEF Merge
<1>2. s.reg \in Register /\ t.reg \in Register
  BY StoreParts
<1>3. CASE Writes(s) = {}
  <2>1. s.reg = Unset
    BY <1>3 DEF RegGood
  <2>2. m.reg = t.reg
    BY <2>1, <1>1 DEF MergeRegister, Unset
  <2> QED BY <2>1, <2>2, <1>1, <1>3 DEF RegGood
<1>4. CASE Writes(s) # {} /\ Writes(t) = {}
  <2>1. t.reg = Unset
    BY <1>4 DEF RegGood
  <2>2. PICK w \in Writes(s) : s.reg = Stamp(w)
    BY <1>4 DEF RegGood
  <2>3. s.reg[1] # 0
    BY <2>2, WriteParts
  <2>4. m.reg = s.reg
    BY <2>1, <2>3, <1>1, <1>2, UnsetIsOld DEF MergeRegister
  <2> QED BY <2>4, <1>1, <1>4 DEF RegGood
<1>5. CASE Writes(s) # {} /\ Writes(t) # {}
  <2>1. PICK u \in Writes(s) : s.reg = Stamp(u)
    BY <1>5 DEF RegGood
  <2>2. PICK w \in Writes(t) : t.reg = Stamp(w)
    BY <1>5 DEF RegGood
  <2>3. s.reg[1] # 0 /\ t.reg[1] # 0
    BY <2>1, <2>2, WriteParts
  <2>4. \A v \in Writes(s) : Stamp(v) = s.reg \/ Newer(s.reg, Stamp(v))
    BY <1>5 DEF RegGood
  <2>5. \A v \in Writes(t) : Stamp(v) = t.reg \/ Newer(t.reg, Stamp(v))
    BY <1>5 DEF RegGood
  <2>6. CASE Newer(t.reg, s.reg)
    <3>1. m.reg = t.reg
      BY <2>6, <1>1 DEF MergeRegister
    <3>2. ASSUME NEW v \in Writes(s) PROVE Newer(t.reg, Stamp(v))
      BY <2>3, <2>4, <2>6, <1>2, WriteParts, NewerTransitive
    <3> QED BY <3>1, <3>2, <2>2, <2>5, <1>1 DEF RegGood
  <2>7. CASE ~Newer(t.reg, s.reg)
    <3>1. m.reg = s.reg
      BY <2>7, <2>3, <1>1 DEF MergeRegister
    <3>2. SameStamp(t.reg, s.reg) => t.reg = s.reg
      <4>1. u[2] = w[2] /\ u[3] = w[3] => u = w
        BY DEF OneWrite
      <4> QED BY <4>1, <2>1, <2>2, WriteParts DEF SameStamp
    <3>3. t.reg = s.reg \/ Newer(s.reg, t.reg)
      BY <3>2, <2>3, <2>7, <1>2, NewerTotal
    <3>4. ASSUME NEW v \in Writes(t) PROVE Stamp(v) = s.reg \/ Newer(s.reg, Stamp(v))
      BY <3>3, <2>3, <2>5, <1>2, WriteParts, NewerTransitive
    <3> QED BY <3>1, <3>4, <2>1, <2>4, <1>1 DEF RegGood
  <2> QED BY <2>6, <2>7
<1> QED BY <1>3, <1>4, <1>5

LEMMA MergeCountGood ==
    ASSUME NEW s \in Store, NEW t \in Store, CountGood(s), CountGood(t)
    PROVE  CountGood(Merge(s, t))
<1>1. s.inc \in Count /\ t.inc \in Count /\ s.dec \in Count /\ t.dec \in Count
  BY StoreParts
<1>2. ASSUME NEW n \in Node, NEW i \in 1 .. MaxUpdates
      PROVE  /\ <<"inc", n, i>> \in Merge(s, t).seen <=> i <= Merge(s, t).inc[n]
             /\ <<"dec", n, i>> \in Merge(s, t).seen <=> i <= Merge(s, t).dec[n]
  <2>1. i <= Merge(s, t).inc[n] <=> i <= s.inc[n] \/ i <= t.inc[n]
    BY <1>1, MergeCountType DEF Merge
  <2>2. i <= Merge(s, t).dec[n] <=> i <= s.dec[n] \/ i <= t.dec[n]
    BY <1>1, MergeCountType DEF Merge
  <2>3. \A x : x \in Merge(s, t).seen <=> x \in s.seen \/ x \in t.seen
    BY DEF Merge
  <2> QED BY <2>1, <2>2, <2>3 DEF CountGood
<1> QED BY <1>2 DEF CountGood

LEMMA MergeSetGood ==
    ASSUME NEW s \in Store, NEW t \in Store, SetGood(s), SetGood(t)
    PROVE  SetGood(Merge(s, t))
<1>1. ASSUME NEW x \in Tag
      PROVE  /\ x \in Merge(s, t).tags <=> <<"add", x>> \in Merge(s, t).seen
             /\ x \in Merge(s, t).tombs <=>
                  \E u \in Merge(s, t).seen : u[1] = "remove" /\ x \in u[2]
  BY DEF Merge, SetGood
<1> QED BY <1>1 DEF SetGood

LEMMA MergeBounded ==
    ASSUME NEW s \in Store, NEW t \in Store, Bounded(s), Bounded(t)
    PROVE  Bounded(Merge(s, t))
BY StoreParts, MergeCountType DEF Bounded, Merge

LEMMA MergeBehind ==
    ASSUME NEW s \in Store, NEW t \in Store, Behind(s), Behind(t)
    PROVE  Behind(Merge(s, t))
BY WritesMerge DEF Behind

LEMMA MergeCopyInv ==
    ASSUME NEW s \in Store, NEW t \in Store, CopyInv(s), CopyInv(t), OneWrite(s, t)
    PROVE  CopyInv(Merge(s, t))
BY MergeRegGood, MergeCountGood, MergeSetGood, MergeBounded, MergeBehind DEF CopyInv

LEMMA MergeOneWrite ==
    ASSUME NEW s \in Store, NEW t \in Store, NEW u \in Store,
           OneWrite(s, u), OneWrite(t, u)
    PROVE  OneWrite(Merge(s, t), u)
BY WritesMerge DEF OneWrite

(***************************************************************************)
(* The invariant is inductive.                                             *)
(***************************************************************************)
LEMMA CopyType ==
    ASSUME TypeOK, NEW s \in Copies
    PROVE  s \in Store
BY DEF TypeOK, Copies

LEMMA BlankGood ==
    /\ Blank \in Store
    /\ Writes(Blank) = {}
    /\ \A s : OneWrite(Blank, s) /\ OneWrite(s, Blank)
    /\ RegGood(Blank) /\ CountGood(Blank) /\ SetGood(Blank) /\ Behind(Blank)
    /\ left \in 0 .. MaxUpdates => Bounded(Blank)
<1>1. Blank \in Store
  BY CrdtAssumption DEF Blank, Store, Register, Count
<1>2. Writes(Blank) = {}
  BY DEF Writes, Blank
<1>3. CountGood(Blank)
  BY CrdtAssumption DEF CountGood, Blank
<1>4. SetGood(Blank)
  BY DEF SetGood, Blank
<1>5. left \in 0 .. MaxUpdates => Bounded(Blank)
  BY CrdtAssumption DEF Bounded, Blank
<1>6. RegGood(Blank)
  BY <1>2 DEF RegGood, Blank
<1> QED BY <1>1, <1>2, <1>3, <1>4, <1>5, <1>6 DEF OneWrite, Behind

LEMMA CrdtInvInit == Init => CrdtInv
<1> SUFFICES ASSUME Init PROVE CrdtInv
  OBVIOUS
<1>1. TypeOK
  BY BlankGood, CrdtAssumption DEF Init, TypeOK
<1>2. \A s \in Copies : s = Blank
  BY DEF Init, Copies
<1> QED BY <1>1, <1>2, BlankGood DEF CrdtInv, CopyInv, TypeOK

\* Time moves on, or an author's register does not go back.
Onwards ==
    \A n \in Node :
        \/ clock'[n] > clock[n]
        \/ /\ clock'[n] = clock[n]
           /\ \/ rep'[n].reg = rep[n].reg
              \/ rep[n].reg[1] = 0
              \/ rep'[n].reg[1] # 0 /\ Newer(rep'[n].reg, rep[n].reg)

LEMMA BehindKept ==
    ASSUME TypeOK, TypeOK', Onwards, NEW s \in Store, Behind(s)
    PROVE  Behind(s)'
<1> SUFFICES ASSUME NEW w \in Writes(s)
             PROVE  /\ w[2] <= clock'[w[3]]
                    /\ w[2] = clock'[w[3]] =>
                         LET r == rep'[w[3]].reg
                         IN  r[1] # 0 /\ (Stamp(w) = r \/ Newer(r, Stamp(w)))
  BY DEF Behind
<1> DEFINE n == w[3]
<1>1. n \in Node /\ w[2] \in Nat /\ Stamp(w) \in Register /\ Stamp(w)[1] # 0
  BY WriteParts
<1>2. clock[n] \in Nat /\ clock'[n] \in Nat /\ rep[n].reg \in Register /\ rep'[n].reg \in Register
  BY <1>1, StoreParts DEF TypeOK
<1>3. /\ w[2] <= clock[n]
      /\ w[2] = clock[n] =>
           rep[n].reg[1] # 0 /\ (Stamp(w) = rep[n].reg \/ Newer(rep[n].reg, Stamp(w)))
  BY DEF Behind
<1>4. CASE clock'[n] > clock[n]
  BY <1>2, <1>3, <1>4, <1>1
<1>5. CASE /\ clock'[n] = clock[n]
           /\ \/ rep'[n].reg = rep[n].reg
              \/ rep[n].reg[1] = 0
              \/ rep'[n].reg[1] # 0 /\ Newer(rep'[n].reg, rep[n].reg)
  BY <1>1, <1>2, <1>3, <1>5, NewerTransitive
<1> QED BY <1>1, <1>4, <1>5 DEF Onwards

\* What remains to be shown of a step: new copies are good.
LEMMA CrdtInvStep ==
    ASSUME CrdtInv, TypeOK', Onwards, left' <= left,
           \A s \in Copies' : s \in Copies \/ (CopyInv(s)' /\ \A t \in Copies' : OneWrite(s, t))
    PROVE  CrdtInv'
<1> USE DEF CrdtInv
<1>1. ASSUME NEW s \in Copies' PROVE CopyInv(s)'
  <2>1. CASE s \in Copies
    <3>1. s \in Store /\ CopyInv(s)
      BY <2>1, CopyType
    <3>2. Behind(s)'
      BY <3>1, BehindKept DEF CopyInv
    <3>3. Bounded(s)'
      <4>1. left \in Nat /\ left' \in Nat /\ MaxUpdates \in Nat
        BY CrdtAssumption DEF TypeOK
      <4>2. \A n \in Node : s.inc[n] \in Nat /\ s.dec[n] \in Nat
        BY <3>1, StoreParts, MergeCountType
      <4> QED BY <3>1, <4>1, <4>2 DEF CopyInv, Bounded
    <3> QED BY <3>1, <3>2, <3>3 DEF CopyInv, RegGood, CountGood, SetGood
  <2> QED BY <2>1
<1>2. ASSUME NEW s \in Copies', NEW t \in Copies' PROVE OneWrite(s, t)
  BY DEF OneWrite
<1>3. (\A s, t \in Copies : OneWrite(s, t))'
  BY <1>2 DEF OneWrite
<1>4. (\A s \in Copies : CopyInv(s))'
  BY <1>1
<1> QED BY <1>3, <1>4

\* Steps that only move copies about and merge them.
Known(s) == s \in Copies \/ s = Blank

LEMMA KnownGood ==
    ASSUME CrdtInv, NEW s, Known(s)
    PROVE  s \in Store /\ CopyInv(s) /\ \A t : Known(t) => OneWrite(s, t)
BY CopyType, BlankGood DEF CrdtInv, CopyInv, Known, TypeOK

LEMMA CrdtInvMerge ==
    ASSUME CrdtInv, TypeOK', Onwards, left' = left,
           \A s \in Copies' : Known(s) \/ \E a, b : Known(a) /\ Known(b) /\ s = Merge(a, b)
    PROVE  CrdtInv'
<1>1. ASSUME NEW s \in Copies'
      PROVE  s \in Store /\ CopyInv(s) /\ \A t : Known(t) => OneWrite(s, t)
  <2>1. CASE Known(s)
    BY <2>1, KnownGood
  <2>2. CASE \E a, b : Known(a) /\ Known(b) /\ s = Merge(a, b)
    <3>1. PICK a, b : Known(a) /\ Known(b) /\ s = Merge(a, b)
      BY <2>2
    <3>2. s \in Store /\ CopyInv(s)
      BY <3>1, KnownGood, MergeType, MergeCopyInv
    <3>3. \A t : Known(t) => OneWrite(s, t)
      BY <3>1, KnownGood, MergeOneWrite
    <3> QED BY <3>2, <3>3
  <2> QED BY <1>1, <2>1, <2>2
<1>2. ASSUME NEW s \in Copies', NEW t \in Copies' PROVE OneWrite(s, t)
  <2>1. CASE Known(t)
    BY <1>1, <2>1
  <2>2. CASE \E a, b : Known(a) /\ Known(b) /\ t = Merge(a, b)
    <3>1. PICK a, b : Known(a) /\ Known(b) /\ t = Merge(a, b)
      BY <2>2
    <3>2. OneWrite(s, a) /\ OneWrite(s, b)
      BY <1>1, <3>1
    <3>3. OneWrite(a, s) /\ OneWrite(b, s)
      BY <3>2 DEF OneWrite
    <3>4. OneWrite(t, s)
      BY <3>1, <3>3, <1>1, KnownGood, MergeOneWrite
    <3> QED BY <3>4 DEF OneWrite
  <2> QED BY <2>1, <2>2
<1>3. ASSUME NEW s \in Copies' PROVE CopyInv(s)'
  <2>1. s \in Store /\ CopyInv(s)
    BY <1>1
  <2>2. Behind(s)'
    BY <2>1, BehindKept DEF CopyInv, CrdtInv
  <2> QED BY <2>1, <2>2 DEF CopyInv, RegGood, CountGood, SetGood, Bounded
<1>4. left' <= left
  BY CrdtAssumption DEF CrdtInv, TypeOK
<1> QED BY <1>2, <1>3, <1>4, CrdtInvStep

\* A merge never takes a register back.
LEMMA MergeRegisterOnwards ==
    ASSUME NEW r \in Register, NEW s \in Register
    PROVE  \/ MergeRegister(r, s) = r
           \/ r[1] = 0
           \/ MergeRegister(r, s)[1] # 0 /\ Newer(MergeRegister(r, s), r)
<1>1. r[1] \in Nat /\ s[1] \in Nat
  BY RegisterParts
<1>2. r[1] # 0 /\ Newer(s, r) => s[1] # 0
  BY <1>1 DEF Newer
<1> QED BY <1>2 DEF MergeRegister

LEMMA MergedStep ==
    ASSUME CrdtInv, NEW n \in Node, NEW s \in Copies,
           rep' = [rep EXCEPT ![n] = Merge(rep[n], s)],
           UNCHANGED <<kind, clock, saved, wire, left, crashes, done, forgot>>
    PROVE  CrdtInv'
<1> USE DEF CrdtInv
<1>1. rep \in [Node -> Store] /\ rep[n] \in Store /\ s \in Store /\ rep[n] \in Copies
  BY CopyType DEF TypeOK, Copies
<1>2. Merge(rep[n], s) \in Store
  BY <1>1, MergeType
<1>3. TypeOK'
  BY <1>1, <1>2 DEF TypeOK
<1>4. Merge(rep[n], s).reg = MergeRegister(rep[n].reg, s.reg)
  BY DEF Merge
<1>5. Onwards
  BY <1>1, <1>4, StoreParts, MergeRegisterOnwards DEF Onwards
<1>6. \A c \in Copies' : Known(c) \/ c = Merge(rep[n], s)
  BY <1>1 DEF Copies, Known
<1>7. Known(rep[n]) /\ Known(s)
  BY <1>1 DEF Known
<1> QED BY <1>3, <1>5, <1>6, <1>7, CrdtInvMerge

LEMMA ExchangeInv ==
    ASSUME CrdtInv, NEW n \in Node, NEW m \in Node, Exchange(n, m)
    PROVE  CrdtInv'
<1>1. rep[m] \in Copies
  BY DEF Copies
<1> QED BY <1>1, MergedStep DEF Exchange

LEMMA DeliverInv ==
    ASSUME CrdtInv, NEW n \in Node, NEW m \in wire, Deliver(n, m)
    PROVE  CrdtInv'
<1>1. m \in Copies
  BY DEF Copies
<1> QED BY <1>1, MergedStep DEF Deliver

\* Taking, losing and persisting snapshots makes no new copy.
LEMMA CopiesKept ==
    ASSUME CrdtInv, TypeOK', Copies' \subseteq Copies, UNCHANGED <<rep, clock, left>>
    PROVE  CrdtInv'
<1>1. Onwards
  BY DEF Onwards, CrdtInv, TypeOK
<1>2. left' <= left
  BY CrdtAssumption DEF CrdtInv, TypeOK
<1> QED BY <1>1, <1>2, CrdtInvMerge DEF Known

LEMMA SendInv ==
    ASSUME CrdtInv, NEW n \in Node, Send(n)
    PROVE  CrdtInv'
<1>1. TypeOK'
  BY DEF CrdtInv, TypeOK, Send
<1>2. Copies' \subseteq Copies
  BY DEF Copies, Send
<1> QED BY <1>1, <1>2, CopiesKept DEF Send

LEMMA LoseInv ==
    ASSUME CrdtInv, NEW m \in wire, Lose(m)
    PROVE  CrdtInv'
<1>1. TypeOK'
  BY DEF CrdtInv, TypeOK, Lose
<1>2. Copies' \subseteq Copies
  BY DEF Copies, Lose
<1> QED BY <1>1, <1>2, CopiesKept DEF Lose

LEMMA PersistInv ==
    ASSUME CrdtInv, NEW n \in Node, Persist(n)
    PROVE  CrdtInv'
<1>1. TypeOK'
  BY DEF CrdtInv, TypeOK, Persist
<1>2. Copies' \subseteq Copies
  BY DEF Copies, Persist, CrdtInv, TypeOK
<1> QED BY <1>1, <1>2, CopiesKept DEF Persist

LEMMA CrashInv ==
    ASSUME CrdtInv, NEW n \in Node, Crash(n)
    PROVE  CrdtInv'
<1> USE DEF CrdtInv
<1>1. saved[n] \in Store /\ saved[n] \in Copies /\ Blank \in Store /\ clock \in [Node -> Nat]
  BY BlankGood, CrdtAssumption DEF TypeOK, Copies
<1>2. Restored(n) \in Store
  BY <1>1, MergeType DEF Restored
<1>3. TypeOK'
  BY <1>1, <1>2, CrdtAssumption DEF TypeOK, Crash
<1>4. Onwards
  BY <1>1 DEF Onwards, Crash, TypeOK
<1>5. \A c \in Copies' : Known(c) \/ c = Merge(Blank, saved[n])
  BY DEF Copies, Known, Crash, TypeOK, Restored
<1>6. Known(Blank) /\ Known(saved[n]) /\ left' = left
  BY <1>1 DEF Known, Crash
<1> QED BY <1>3, <1>4, <1>5, <1>6, CrdtInvMerge

(***************************************************************************)
(* Local updates.                                                          *)
(***************************************************************************)
\* What a step that writes to node n's store, and to no other copy, owes.
LEMMA LocalStep ==
    ASSUME CrdtInv, TypeOK', Onwards, NEW n \in Node, Local(n),
           \A m \in Node \ {n} : rep'[m] = rep[m],
           NEW s, s = rep'[n],
           RegGood(s), CountGood(s), SetGood(s), Behind(s)', Bounded(s)',
           \A c \in Copies : OneWrite(s, c), OneWrite(s, s)
    PROVE  CrdtInv'
<1>1. ASSUME NEW c \in Copies' PROVE c \in Copies \/ c = s
  BY DEF Copies, Local
<1>2. CopyInv(s)'
  BY DEF CopyInv, RegGood, CountGood, SetGood
<1>3. left' <= left
  BY CrdtAssumption DEF CrdtInv, TypeOK, Local
<1>4. \A c \in Copies' : c \in Copies \/ (CopyInv(c)' /\ \A t \in Copies' : OneWrite(c, t))
  BY <1>1, <1>2
<1> QED BY <1>3, <1>4, CrdtInvStep

\* A count below the bound, with one more added.
LEMMA CountUp ==
    ASSUME NEW a \in Count, NEW n \in Node, a[n] <= MaxUpdates - left, left \in 1 .. MaxUpdates
    PROVE  /\ [a EXCEPT ![n] = @ + 1] \in Count
           /\ \A i \in 1 .. MaxUpdates : i <= a[n] + 1 <=> i <= a[n] \/ i = a[n] + 1
           /\ a[n] + 1 \in 1 .. MaxUpdates
BY CrdtAssumption DEF Count

\* The same for updates that leave the register alone.
LEMMA PlainStep ==
    ASSUME CrdtInv, NEW n \in Node, Local(n), UNCHANGED clock, done' \in [Node -> Nat],
           NEW s \in Store, rep' = [rep EXCEPT ![n] = s],
           s.reg = rep[n].reg, Writes(s) = Writes(rep[n]),
           CountGood(s), SetGood(s), Bounded(s)'
    PROVE  CrdtInv'
<1>1. /\ rep[n] \in Copies /\ rep \in [Node -> Store] /\ CopyInv(rep[n])
      /\ left' \in 0 .. MaxUpdates
  BY CrdtAssumption DEF CrdtInv, TypeOK, Copies, Local
<1>2. TypeOK'
  BY <1>1 DEF CrdtInv, TypeOK, Local
<1>3. Onwards
  BY <1>1 DEF Onwards, CrdtInv, TypeOK
<1>4. RegGood(s)
  BY <1>1 DEF CopyInv, RegGood
<1>5. Behind(s)'
  <2>1. Behind(s)
    BY <1>1 DEF CopyInv, Behind
  <2> QED BY <2>1, <1>2, <1>3, BehindKept DEF CrdtInv
<1>6. \A c \in Copies : OneWrite(s, c)
  BY <1>1 DEF CrdtInv, OneWrite
<1>7. OneWrite(s, s)
  BY <1>1 DEF CrdtInv, OneWrite
<1>8. s = rep'[n] /\ \A m \in Node \ {n} : rep'[m] = rep[m]
  BY <1>1
<1> QED BY <1>2, <1>3, <1>4, <1>5, <1>6, <1>7, <1>8, LocalStep

LEMMA IncrementInv ==
    ASSUME CrdtInv, NEW n \in Node, Local(n), Increment(n)
    PROVE  CrdtInv'
<1>a. PICK i : i = rep[n].inc[n] + 1
  OBVIOUS
<1>b. PICK s : s = [reg |-> rep[n].reg, inc |-> Up(rep[n].inc, n),
                    dec |-> rep[n].dec, tags |-> rep[n].tags, tombs |-> rep[n].tombs,
                    seen |-> rep[n].seen \cup {<<"inc", n, i>>}]
  OBVIOUS
<1>1. /\ rep[n] \in Store /\ rep[n] \in Copies /\ rep \in [Node -> Store] /\ CopyInv(rep[n])
      /\ left \in 1 .. MaxUpdates /\ left' = left - 1
  BY CrdtAssumption DEF CrdtInv, TypeOK, Copies, Local
<1>2. /\ rep[n].reg \in Register /\ rep[n].inc \in Count /\ rep[n].dec \in Count
      /\ rep[n].tags \subseteq Tag /\ rep[n].tombs \subseteq Tag /\ rep[n].seen \subseteq Update
      /\ rep[n] = [reg |-> rep[n].reg, inc |-> rep[n].inc, dec |-> rep[n].dec,
                   tags |-> rep[n].tags, tombs |-> rep[n].tombs, seen |-> rep[n].seen]
      /\ s.reg = rep[n].reg /\ s.inc = Up(rep[n].inc, n) /\ s.dec = rep[n].dec
      /\ s.tags = rep[n].tags /\ s.tombs = rep[n].tombs
      /\ s.seen = rep[n].seen \cup {<<"inc", n, i>>}
  BY <1>1, <1>b, StoreParts
<1>3. /\ s.inc \in Count
      /\ \A k \in 1 .. MaxUpdates : k <= s.inc[n] <=> k <= rep[n].inc[n] \/ k = i
      /\ i \in 1 .. MaxUpdates
  BY <1>1, <1>2, <1>a, CountUp DEF Up, CopyInv, Bounded, Count
<1>4. s \in Store
  BY <1>2, <1>3, <1>b DEF Store, Update
<1>5. rep' = [rep EXCEPT ![n] = s]
  <2>1. s = [rep[n] EXCEPT !.inc = Up(@, n),
                           !.seen = @ \cup {<<"inc", n, rep[n].inc[n] + 1>>}]
    BY <1>2, <1>a, <1>b
  <2> QED BY <1>1, <2>1 DEF Increment
<1>6. Writes(s) = Writes(rep[n])
  BY <1>2 DEF Writes
<1>7. CountGood(s)
  <2>1. \A m \in Node : m # n => s.inc[m] = rep[n].inc[m]
    BY <1>2 DEF Up, Count
  <2>2. \A m \in Node, k \in 1 .. MaxUpdates :
           /\ <<"inc", m, k>> \in s.seen <=> <<"inc", m, k>> \in rep[n].seen \/ (m = n /\ k = i)
           /\ <<"dec", m, k>> \in s.seen <=> <<"dec", m, k>> \in rep[n].seen
    BY <1>2
  <2> QED BY <1>1, <1>2, <1>3, <2>1, <2>2 DEF CopyInv, CountGood
<1>8. SetGood(s)
  <2>1. ASSUME NEW t \in Tag
        PROVE  /\ t \in s.tags <=> <<"add", t>> \in s.seen
               /\ t \in s.tombs <=> \E u \in s.seen : u[1] = "remove" /\ t \in u[2]
    <3>1. /\ t \in rep[n].tags <=> <<"add", t>> \in rep[n].seen
          /\ t \in rep[n].tombs <=> \E u \in rep[n].seen : u[1] = "remove" /\ t \in u[2]
      BY <1>1 DEF CopyInv, SetGood
    <3>2. <<"inc", n, i>>[1] # "remove"
      OBVIOUS
    <3>3. <<"add", t>> \in s.seen <=> <<"add", t>> \in rep[n].seen
      BY <1>2
    <3>4. (\E u \in s.seen : u[1] = "remove" /\ t \in u[2])
            <=> \E u \in rep[n].seen : u[1] = "remove" /\ t \in u[2]
      BY <1>2, <3>2
    <3> QED BY <1>2, <3>1, <3>3, <3>4
  <2> QED BY <2>1 DEF SetGood
<1>9. Bounded(s)'
  <2>1. \A m \in Node : s.inc[m] = IF m = n THEN rep[n].inc[m] + 1 ELSE rep[n].inc[m]
    BY <1>2 DEF Up, Count
  <2>2. \A m \in Node : rep[n].inc[m] \in Nat /\ rep[n].dec[m] \in Nat
    BY <1>2, MergeCountType
  <2>3. s.dec = rep[n].dec /\ left \in Nat /\ MaxUpdates \in Nat
    BY <1>1, <1>2, CrdtAssumption
  <2>4. Bounded(rep[n])
    BY <1>1 DEF CopyInv
  <2> QED BY <1>1, <2>1, <2>2, <2>3, <2>4 DEF Bounded
<1>10. UNCHANGED clock /\ done' \in [Node -> Nat]
  BY DEF Increment, CrdtInv, TypeOK
<1> QED BY <1>2, <1>4, <1>5, <1>6, <1>7, <1>8, <1>9, <1>10, PlainStep

LEMMA DecrementInv ==
    ASSUME CrdtInv, NEW n \in Node, Local(n), Decrement(n)
    PROVE  CrdtInv'
<1>a. PICK i : i = rep[n].dec[n] + 1
  OBVIOUS
<1>b. PICK s : s = [reg |-> rep[n].reg, inc |-> rep[n].inc,
                    dec |-> Up(rep[n].dec, n), tags |-> rep[n].tags, tombs |-> rep[n].tombs,
                    seen |-> rep[n].seen \cup {<<"dec", n, i>>}]
  OBVIOUS
<1>1. /\ rep[n] \in Store /\ rep[n] \in Copies /\ rep \in [Node -> Store] /\ CopyInv(rep[n])
      /\ left \in 1 .. MaxUpdates /\ left' = left - 1
  BY CrdtAssumption DEF CrdtInv, TypeOK, Copies, Local
<1>2. /\ rep[n].reg \in Register /\ rep[n].dec \in Count /\ rep[n].inc \in Count
      /\ rep[n].tags \subseteq Tag /\ rep[n].tombs \subseteq Tag /\ rep[n].seen \subseteq Update
      /\ rep[n] = [reg |-> rep[n].reg, dec |-> rep[n].dec, inc |-> rep[n].inc,
                   tags |-> rep[n].tags, tombs |-> rep[n].tombs, seen |-> rep[n].seen]
      /\ s.reg = rep[n].reg /\ s.dec = Up(rep[n].dec, n) /\ s.inc = rep[n].inc
      /\ s.tags = rep[n].tags /\ s.tombs = rep[n].tombs
      /\ s.seen = rep[n].seen \cup {<<"dec", n, i>>}
  BY <1>1, <1>b, StoreParts
<1>3. /\ s.dec \in Count
      /\ \A k \in 1 .. MaxUpdates : k <= s.dec[n] <=> k <= rep[n].dec[n] \/ k = i
      /\ i \in 1 .. MaxUpdates
  BY <1>1, <1>2, <1>a, CountUp DEF Up, CopyInv, Bounded, Count
<1>4. s \in Store
  BY <1>2, <1>3, <1>b DEF Store, Update
<1>5. rep' = [rep EXCEPT ![n] = s]
  <2>1. s = [rep[n] EXCEPT !.dec = Up(@, n),
                           !.seen = @ \cup {<<"dec", n, rep[n].dec[n] + 1>>}]
    BY <1>2, <1>a, <1>b
  <2> QED BY <1>1, <2>1 DEF Decrement
<1>6. Writes(s) = Writes(rep[n])
  BY <1>2 DEF Writes
<1>7. CountGood(s)
  <2>1. \A m \in Node : m # n => s.dec[m] = rep[n].dec[m]
    BY <1>2 DEF Up, Count
  <2>2. \A m \in Node, k \in 1 .. MaxUpdates :
           /\ <<"dec", m, k>> \in s.seen <=> <<"dec", m, k>> \in rep[n].seen \/ (m = n /\ k = i)
           /\ <<"inc", m, k>> \in s.seen <=> <<"inc", m, k>> \in rep[n].seen
    BY <1>2
  <2> QED BY <1>1, <1>2, <1>3, <2>1, <2>2 DEF CopyInv, CountGood
<1>8. SetGood(s)
  <2>1. ASSUME NEW t \in Tag
        PROVE  /\ t \in s.tags <=> <<"add", t>> \in s.seen
               /\ t \in s.tombs <=> \E u \in s.seen : u[1] = "remove" /\ t \in u[2]
    <3>1. /\ t \in rep[n].tags <=> <<"add", t>> \in rep[n].seen
          /\ t \in rep[n].tombs <=> \E u \in rep[n].seen : u[1] = "remove" /\ t \in u[2]
      BY <1>1 DEF CopyInv, SetGood
    <3>2. <<"dec", n, i>>[1] # "remove"
      OBVIOUS
    <3>3. <<"add", t>> \in s.seen <=> <<"add", t>> \in rep[n].seen
      BY <1>2
    <3>4. (\E u \in s.seen : u[1] = "remove" /\ t \in u[2])
            <=> \E u \in rep[n].seen : u[1] = "remove" /\ t \in u[2]
      BY <1>2, <3>2
    <3> QED BY <1>2, <3>1, <3>3, <3>4
  <2> QED BY <2>1 DEF SetGood
<1>9. Bounded(s)'
  <2>1. \A m \in Node : s.dec[m] = IF m = n THEN rep[n].dec[m] + 1 ELSE rep[n].dec[m]
    BY <1>2 DEF Up, Count
  <2>2. \A m \in Node : rep[n].dec[m] \in Nat /\ rep[n].inc[m] \in Nat
    BY <1>2, MergeCountType
  <2>3. s.inc = rep[n].inc /\ left \in Nat /\ MaxUpdates \in Nat
    BY <1>1, <1>2, CrdtAssumption
  <2>4. Bounded(rep[n])
    BY <1>1 DEF CopyInv
  <2> QED BY <1>1, <2>1, <2>2, <2>3, <2>4 DEF Bounded
<1>10. UNCHANGED clock /\ done' \in [Node -> Nat]
  BY DEF Decrement, CrdtInv, TypeOK
<1> QED BY <1>2, <1>4, <1>5, <1>6, <1>7, <1>8, <1>9, <1>10, PlainStep

\* Updates of the set leave the counts alone.
LEMMA SetStep ==
    ASSUME CrdtInv, NEW n \in Node, Local(n), clock' = clock, done' = done,
           NEW s \in Store, rep' = [rep EXCEPT ![n] = s],
           s.reg = rep[n].reg, s.inc = rep[n].inc, s.dec = rep[n].dec,
           NEW k \in {"add", "remove"}, NEW d, s.seen = rep[n].seen \cup {<<k, d>>},
           SetGood(s)
    PROVE  CrdtInv'
<1>1. /\ rep[n] \in Store /\ CopyInv(rep[n]) /\ left \in 1 .. MaxUpdates /\ left' = left - 1
  BY CrdtAssumption DEF CrdtInv, TypeOK, Copies, Local
<1>2. Writes(s) = Writes(rep[n])
  BY DEF Writes
<1>3. CountGood(s)
  <2>1. \A m, i : <<k, d>> # <<"inc", m, i>> /\ <<k, d>> # <<"dec", m, i>>
    OBVIOUS
  <2> QED BY <1>1, <2>1 DEF CopyInv, CountGood
<1>4. Bounded(s)'
  <2>1. \A m \in Node : rep[n].inc[m] \in Nat /\ rep[n].dec[m] \in Nat
    BY <1>1, StoreParts, MergeCountType
  <2> QED BY <1>1, <2>1, CrdtAssumption DEF CopyInv, Bounded
<1>5. UNCHANGED clock /\ done' \in [Node -> Nat]
  BY DEF CrdtInv, TypeOK
<1> QED BY <1>2, <1>3, <1>4, <1>5, PlainStep

LEMMA AddInv ==
    ASSUME CrdtInv, NEW n \in Node, NEW e \in Element, Local(n), Add(n, e)
    PROVE  CrdtInv'
<1>a. PICK x : x = <<e, n, left>>
  OBVIOUS
<1>b. PICK s : s = [rep[n] EXCEPT !.tags = @ \cup {x}, !.seen = @ \cup {<<"add", x>>}]
  OBVIOUS
<1>1. /\ rep[n] \in Store /\ rep \in [Node -> Store] /\ CopyInv(rep[n])
      /\ left \in 1 .. MaxUpdates
  BY CrdtAssumption DEF CrdtInv, TypeOK, Copies, Local
<1>2. x \in Tag
  BY <1>1, <1>a DEF Tag
<1>3. /\ s \in Store
      /\ s.reg = rep[n].reg /\ s.inc = rep[n].inc /\ s.dec = rep[n].dec
      /\ s.tags = rep[n].tags \cup {x} /\ s.tombs = rep[n].tombs
      /\ s.seen = rep[n].seen \cup {<<"add", x>>}
  <2>1. <<"add", x>> \in Update
    BY <1>2 DEF Update
  <2>2. /\ rep[n].reg \in Register /\ rep[n].inc \in Count /\ rep[n].dec \in Count
        /\ rep[n].tags \subseteq Tag /\ rep[n].tombs \subseteq Tag /\ rep[n].seen \subseteq Update
        /\ rep[n] = [reg |-> rep[n].reg, inc |-> rep[n].inc, dec |-> rep[n].dec,
                     tags |-> rep[n].tags, tombs |-> rep[n].tombs, seen |-> rep[n].seen]
    BY <1>1, StoreParts
  <2>3. /\ s.reg = rep[n].reg /\ s.inc = rep[n].inc /\ s.dec = rep[n].dec
        /\ s.tags = rep[n].tags \cup {x} /\ s.tombs = rep[n].tombs
        /\ s.seen = rep[n].seen \cup {<<"add", x>>}
        /\ s = [reg |-> s.reg, inc |-> s.inc, dec |-> s.dec,
                tags |-> s.tags, tombs |-> s.tombs, seen |-> s.seen]
    BY <2>2, <1>b
  <2>4. s \in Store
    BY <2>1, <2>2, <2>3, <1>2 DEF Store
  <2> QED BY <2>3, <2>4
<1>4. rep' = [rep EXCEPT ![n] = s]
  BY <1>a, <1>b DEF Add
<1>5. SetGood(s)
  <2>1. ASSUME NEW t \in Tag
        PROVE  /\ t \in s.tags <=> <<"add", t>> \in s.seen
               /\ t \in s.tombs <=> \E u \in s.seen : u[1] = "remove" /\ t \in u[2]
    <3>1. /\ t \in rep[n].tags <=> <<"add", t>> \in rep[n].seen
          /\ t \in rep[n].tombs <=> \E u \in rep[n].seen : u[1] = "remove" /\ t \in u[2]
      BY <1>1 DEF CopyInv, SetGood
    <3>2. <<"add", x>>[1] # "remove" /\ (<<"add", t>> = <<"add", x>> <=> t = x)
      OBVIOUS
    <3>3. (\E u \in s.seen : u[1] = "remove" /\ t \in u[2])
            <=> \E u \in rep[n].seen : u[1] = "remove" /\ t \in u[2]
      BY <1>3, <3>2
    <3> QED BY <1>3, <3>1, <3>2, <3>3
  <2> QED BY <2>1 DEF SetGood
<1>6. clock' = clock /\ done' = done
  BY DEF Add
<1>7. s \in Store /\ s.reg = rep[n].reg /\ s.inc = rep[n].inc /\ s.dec = rep[n].dec
  BY <1>3
<1> QED BY <1>3, <1>7, <1>4, <1>5, <1>6, SetStep

LEMMA RemoveInv ==
    ASSUME CrdtInv, NEW n \in Node, NEW e \in Element, Local(n), Remove(n, e)
    PROVE  CrdtInv'
<1>a. PICK T : T = TagsOf(n, e)
  OBVIOUS
<1>1. /\ rep[n] \in Store /\ rep \in [Node -> Store] /\ CopyInv(rep[n])
  BY DEF CrdtInv, TypeOK, Copies
<1>2. T = Observed(n, e) /\ T \in SUBSET Tag
  BY <1>1, <1>a, StoreParts DEF TagsOf, Observed, CopyInv, SetGood
<1>b. PICK s : s = [rep[n] EXCEPT !.tombs = @ \cup T, !.seen = @ \cup {<<"remove", T>>}]
  OBVIOUS
<1>3. /\ s \in Store
      /\ s.reg = rep[n].reg /\ s.inc = rep[n].inc /\ s.dec = rep[n].dec
      /\ s.tags = rep[n].tags /\ s.tombs = rep[n].tombs \cup T
      /\ s.seen = rep[n].seen \cup {<<"remove", T>>}
  <2>1. <<"remove", T>> \in Update
    BY <1>2 DEF Update
  <2>2. /\ rep[n].reg \in Register /\ rep[n].inc \in Count /\ rep[n].dec \in Count
        /\ rep[n].tags \subseteq Tag /\ rep[n].tombs \subseteq Tag /\ rep[n].seen \subseteq Update
        /\ rep[n] = [reg |-> rep[n].reg, inc |-> rep[n].inc, dec |-> rep[n].dec,
                     tags |-> rep[n].tags, tombs |-> rep[n].tombs, seen |-> rep[n].seen]
    BY <1>1, StoreParts
  <2>3. /\ s.reg = rep[n].reg /\ s.inc = rep[n].inc /\ s.dec = rep[n].dec
        /\ s.tags = rep[n].tags /\ s.tombs = rep[n].tombs \cup T
        /\ s.seen = rep[n].seen \cup {<<"remove", T>>}
        /\ s = [reg |-> s.reg, inc |-> s.inc, dec |-> s.dec,
                tags |-> s.tags, tombs |-> s.tombs, seen |-> s.seen]
    BY <2>2, <1>b
  <2>4. s \in Store
    BY <2>1, <2>2, <2>3, <1>2 DEF Store
  <2> QED BY <2>3, <2>4
<1>4. rep' = [rep EXCEPT ![n] = s]
  BY <1>a, <1>2, <1>b DEF Remove
<1>5. SetGood(s)
  <2>1. ASSUME NEW t \in Tag
        PROVE  /\ t \in s.tags <=> <<"add", t>> \in s.seen
               /\ t \in s.tombs <=> \E u \in s.seen : u[1] = "remove" /\ t \in u[2]
    <3>1. /\ t \in rep[n].tags <=> <<"add", t>> \in rep[n].seen
          /\ t \in rep[n].tombs <=> \E u \in rep[n].seen : u[1] = "remove" /\ t \in u[2]
      BY <1>1 DEF CopyInv, SetGood
    <3>2. <<"add", t>> # <<"remove", T>> /\ <<"remove", T>>[1] = "remove" /\ <<"remove", T>>[2] = T
      OBVIOUS
    <3>3. (\E u \in s.seen : u[1] = "remove" /\ t \in u[2])
            <=> t \in T \/ \E u \in rep[n].seen : u[1] = "remove" /\ t \in u[2]
      BY <1>3, <3>2
    <3> QED BY <1>3, <3>1, <3>2, <3>3
  <2> QED BY <2>1 DEF SetGood
<1>6. clock' = clock /\ done' = done
  BY DEF Remove
<1>7. s \in Store /\ s.reg = rep[n].reg /\ s.inc = rep[n].inc /\ s.dec = rep[n].dec
  BY <1>3
<1> QED BY <1>3, <1>7, <1>4, <1>5, <1>6, SetStep

\* A write that the register refuses changes the clock and nothing else.
LEMMA RefusedInv ==
    ASSUME CrdtInv, NEW n \in Node, Local(n),
           NEW at \in clock[n] .. MaxTime, clock' = [clock EXCEPT ![n] = at],
           rep' = rep, done' = done
    PROVE  CrdtInv'
<1>1. clock \in [Node -> 1 .. MaxTime] /\ left \in 1 .. MaxUpdates /\ left' = left - 1
  BY CrdtAssumption DEF CrdtInv, TypeOK, Local
<1>2. TypeOK'
  BY <1>1, CrdtAssumption DEF CrdtInv, TypeOK, Local
<1>3. Onwards
  BY <1>1, CrdtAssumption DEF Onwards
<1>4. Copies' = Copies
  BY DEF Copies, Local
<1>5. left' <= left
  BY <1>1
<1> QED BY <1>2, <1>3, <1>4, <1>5, CrdtInvStep

LEMMA AcceptedInv ==
    ASSUME CrdtInv, NEW n \in Node, Local(n),
           NEW at \in clock[n] .. MaxTime, clock' = [clock EXCEPT ![n] = at],
           NEW v \in Value, NEW w, w = <<at, n, v>>,
           rep[n].reg[1] = 0 \/ Newer(w, rep[n].reg),
           NEW s, s = [reg |-> w, inc |-> rep[n].inc, dec |-> rep[n].dec, tags |-> rep[n].tags,
                       tombs |-> rep[n].tombs, seen |-> rep[n].seen \cup {<<"set", at, n, v>>}],
           rep' = [rep EXCEPT ![n] = s], done' = done
    PROVE  CrdtInv'
<1> DEFINE own == rep[n].reg
<1>a. PICK u : u = <<"set", at, n, v>>
  OBVIOUS
<1>1. /\ rep[n] \in Store /\ rep[n] \in Copies /\ rep \in [Node -> Store] /\ CopyInv(rep[n])
      /\ clock \in [Node -> 1 .. MaxTime] /\ left \in 1 .. MaxUpdates /\ left' = left - 1
  BY CrdtAssumption DEF CrdtInv, TypeOK, Copies, Local
<1>2. clock[n] \in 1 .. MaxTime /\ at \in 1 .. MaxTime /\ clock'[n] = at /\ clock[n] <= at
  BY <1>1, CrdtAssumption
<1>3. w \in Register /\ w[1] = at /\ w[2] = n /\ w[1] # 0 /\ u \in Update
  BY <1>2, <1>a DEF Register, Update, Write
<1>4. /\ s.reg = w /\ s.inc = rep[n].inc /\ s.dec = rep[n].dec
      /\ s.tags = rep[n].tags /\ s.tombs = rep[n].tombs /\ s.seen = rep[n].seen \cup {u}
  BY <1>a
<1>5. s \in Store
  BY <1>1, <1>3, <1>a, StoreParts DEF Store
<1>6. TypeOK'
  BY <1>1, <1>2, <1>5, CrdtAssumption DEF CrdtInv, TypeOK, Local
<1>7. Onwards
  <2>1. ASSUME NEW m \in Node, m # n
        PROVE  clock'[m] = clock[m] /\ rep'[m].reg = rep[m].reg
    BY <1>1, <2>1
  <2>2. /\ clock'[n] > clock[n] \/ clock'[n] = clock[n]
        /\ rep'[n].reg = w
    BY <1>1, <1>2, <1>4
  <2> QED BY <1>3, <2>1, <2>2 DEF Onwards
<1>8. Writes(s) = Writes(rep[n]) \cup {u} /\ Stamp(u) = w /\ u[2] = at /\ u[3] = n
  BY <1>4, <1>a DEF Writes, Stamp
<1>9. RegGood(s)
  <2>1. \A z \in Writes(rep[n]) : Newer(w, Stamp(z))
    <3>1. SUFFICES ASSUME NEW z \in Writes(rep[n]) PROVE Newer(w, Stamp(z))
      OBVIOUS
    <3>2. Stamp(z) \in Register /\ Stamp(z)[1] # 0 /\ own \in Register
      BY <1>1, WriteParts, StoreParts
    <3>3. own[1] # 0 /\ (Stamp(z) = own \/ Newer(own, Stamp(z)))
      <4>1. own # Unset
        BY <1>1, WriteParts DEF CopyInv, RegGood, Unset
      <4> QED BY <4>1, <3>2, <1>1, RegisterParts DEF CopyInv, RegGood
    <3> QED BY <3>2, <3>3, <1>3, NewerTransitive
  <2> QED BY <2>1, <1>4, <1>8 DEF RegGood
<1>10. CountGood(s)
  <2>1. \A m, i : u # <<"inc", m, i>> /\ u # <<"dec", m, i>>
    BY <1>a
  <2> QED BY <1>1, <1>4, <2>1 DEF CopyInv, CountGood
<1>11. SetGood(s)
  <2>1. u[1] # "remove" /\ \A t : u # <<"add", t>>
    BY <1>a
  <2> QED BY <1>1, <1>4, <2>1 DEF CopyInv, SetGood
<1>12. Bounded(s)'
  <2>1. \A m \in Node : rep[n].inc[m] \in Nat /\ rep[n].dec[m] \in Nat
    BY <1>1, StoreParts, MergeCountType
  <2> QED BY <1>1, <1>4, <2>1, CrdtAssumption DEF CopyInv, Bounded
<1>13. Behind(s)'
  <2>1. Behind(rep[n])
    BY <1>1 DEF CopyInv
  <2>2. ASSUME NEW z \in Writes(rep[n])
        PROVE  /\ z[2] <= clock'[z[3]]
               /\ z[2] = clock'[z[3]] =>
                    LET r == rep'[z[3]].reg
                    IN  r[1] # 0 /\ (Stamp(z) = r \/ Newer(r, Stamp(z)))
    <3>1. PICK c : c = rep[n]
      OBVIOUS
    <3>2. Behind(c)'
      BY <3>1, <2>1, <1>1, <1>6, <1>7, BehindKept DEF CrdtInv
    <3> QED BY <3>1, <3>2 DEF Behind
  <2>3. /\ u[2] <= clock'[u[3]]
        /\ rep'[u[3]].reg = Stamp(u) /\ Stamp(u)[1] # 0
    BY <1>1, <1>2, <1>3, <1>4, <1>8
  <2> QED BY <1>8, <2>2, <2>3 DEF Behind
<1>14. ASSUME NEW c \in Copies, NEW z \in Writes(c), z[2] = at, z[3] = n
       PROVE  FALSE
  <2>1. c \in Store /\ Behind(c)
    BY CopyType DEF CrdtInv, CopyInv
  <2>2. Stamp(z) \in Register /\ Stamp(z)[1] = at /\ Stamp(z)[2] = n /\ z[2] \in Nat
    BY <2>1, <1>14, WriteParts
  <2>3. at = clock[n]
    BY <2>1, <2>2, <1>2, <1>14 DEF Behind
  <2>4. own[1] # 0 /\ (Stamp(z) = own \/ Newer(own, Stamp(z)))
    BY <2>1, <2>3, <1>14 DEF Behind
  <2>5. own \in Register /\ Newer(w, own)
    BY <2>4, <1>1, StoreParts
  <2>6. Stamp(z)[1] # 0 /\ SameStamp(w, Stamp(z))
    BY <2>2, <1>2, <1>3 DEF SameStamp
  <2>7. Newer(w, Stamp(z))
    BY <2>2, <2>4, <2>5, <2>6, <1>3, NewerTransitive
  <2> QED BY <2>2, <2>6, <2>7, <1>3, NewerTotal
<1>15. ASSUME NEW c \in Copies PROVE OneWrite(s, c)
  <2>1. OneWrite(rep[n], c)
    BY <1>1 DEF CrdtInv
  <2> QED BY <2>1, <1>8, <1>14 DEF OneWrite
<1>16. OneWrite(s, s)
  <2>1. OneWrite(rep[n], rep[n])
    BY <1>1 DEF CrdtInv
  <2> QED BY <2>1, <1>1, <1>8, <1>14 DEF OneWrite
<1>17. s = rep'[n] /\ \A m \in Node \ {n} : rep'[m] = rep[m]
  BY <1>1
<1> QED BY <1>6, <1>7, <1>9, <1>10, <1>11, <1>12, <1>13, <1>15, <1>16, <1>17, LocalStep

LEMMA SetInv ==
    ASSUME CrdtInv, NEW n \in Node, Local(n), Set(n)
    PROVE  CrdtInv'
<1>1. PICK at \in clock[n] .. MaxTime, v \in Value :
         /\ clock' = [clock EXCEPT ![n] = at]
         /\ rep' = [rep EXCEPT ![n] = [rep[n] EXCEPT
              !.reg = Written(rep[n].reg, <<at, n, v>>),
              !.seen = IF Written(rep[n].reg, <<at, n, v>>) = <<at, n, v>>
                       THEN @ \cup {<<"set", at, n, v>>} ELSE @]]
  BY DEF Set
<1>2. done' = done
  BY DEF Set
<1>3. PICK w : w = <<at, n, v>>
  OBVIOUS
<1>4. /\ rep[n] \in Store /\ rep \in [Node -> Store] /\ CopyInv(rep[n])
      /\ rep[n] = [reg |-> rep[n].reg, inc |-> rep[n].inc, dec |-> rep[n].dec,
                   tags |-> rep[n].tags, tombs |-> rep[n].tombs, seen |-> rep[n].seen]
      /\ rep[n].reg \in Register
  BY StoreParts DEF CrdtInv, TypeOK, Copies
<1>5. CASE rep[n].reg[1] = 0 \/ Newer(w, rep[n].reg)
  <2>1. Written(rep[n].reg, <<at, n, v>>) = w
    BY <1>3, <1>5 DEF Written
  <2>2. PICK q : q = rep[n].seen \cup {<<"set", at, n, v>>}
    OBVIOUS
  <2>a. PICK c : c = rep[n]
    OBVIOUS
  <2>3. PICK s : s = [c EXCEPT !.reg = w, !.seen = q]
    OBVIOUS
  <2>b. s = [reg |-> w, inc |-> rep[n].inc, dec |-> rep[n].dec, tags |-> rep[n].tags,
             tombs |-> rep[n].tombs, seen |-> rep[n].seen \cup {<<"set", at, n, v>>}]
    <3>1. w \in Register /\ <<"set", at, n, v>> \in Update
      <4>1. at \in 1 .. MaxTime
        BY CrdtAssumption DEF CrdtInv, TypeOK
      <4> QED BY <4>1, <1>3 DEF Register, Update, Write
    <3>2. q \in SUBSET Update
      BY <1>4, <2>2, <3>1, StoreParts
    <3>3. c \in Store
      BY <1>4, <2>a
    <3>4. s \in Store
      BY <2>3, <3>1, <3>2, <3>3 DEF Store
    <3>5. /\ s.reg = w /\ s.inc = c.inc /\ s.dec = c.dec /\ s.tags = c.tags
          /\ s.tombs = c.tombs /\ s.seen = q
      BY <2>3, <3>3 DEF Store
    <3> QED BY <3>4, <3>5, <2>2, <2>a, StoreParts
  <2>4. rep' = [rep EXCEPT ![n] = s]
    BY <1>1, <1>3, <2>1, <2>2, <2>3, <2>a
  <2>5. clock' = [clock EXCEPT ![n] = at]
    BY <1>1
  <2> QED BY <1>2, <1>3, <1>5, <2>b, <2>4, <2>5, AcceptedInv
<1>6. CASE ~(rep[n].reg[1] = 0 \/ Newer(w, rep[n].reg))
  <2>1. Written(rep[n].reg, <<at, n, v>>) = rep[n].reg
    BY <1>3, <1>6 DEF Written
  <2>2. rep[n].reg = <<at, n, v>> => <<"set", at, n, v>> \in rep[n].seen
    <3>1. SUFFICES ASSUME rep[n].reg = <<at, n, v>> PROVE <<"set", at, n, v>> \in rep[n].seen
      OBVIOUS
    <3>2. rep[n].reg # Unset
      BY <1>6 DEF Unset
    <3>3. PICK z \in Writes(rep[n]) : rep[n].reg = Stamp(z)
      BY <1>4, <3>2 DEF CopyInv, RegGood
    <3>4. z \in rep[n].seen /\ z = <<"set", z[2], z[3], z[4]>>
      BY <1>4, WriteParts
    <3>5. z[2] = at /\ z[3] = n /\ z[4] = v
      BY <3>1, <3>3 DEF Stamp
    <3> QED BY <3>4, <3>5
  <2>3. (IF rep[n].reg = <<at, n, v>> THEN rep[n].seen \cup {<<"set", at, n, v>>} ELSE rep[n].seen)
          = rep[n].seen
    BY <2>2
  <2>4. PICK c : c = rep[n]
    OBVIOUS
  <2>a. c = [reg |-> c.reg, inc |-> c.inc, dec |-> c.dec, tags |-> c.tags,
             tombs |-> c.tombs, seen |-> c.seen]
    BY <1>4, <2>4
  <2>b. c = [c EXCEPT !.reg = c.reg, !.seen = c.seen]
    BY <2>a
  <2>5. rep' = [rep EXCEPT ![n] = rep[n]]
    BY <1>1, <2>1, <2>3, <2>4, <2>b
  <2>6. rep' = rep
    BY <1>4, <2>5
  <2> QED BY <1>1, <1>2, <2>6, RefusedInv
<1> QED BY <1>5, <1>6

(***************************************************************************)
(* The theorems.                                                           *)
(***************************************************************************)
LEMMA CrdtInvNext ==
    ASSUME CrdtInv, [Next]_vars
    PROVE  CrdtInv'
<1>1. ASSUME NEW n \in Node, Local(n) PROVE CrdtInv'
  BY <1>1, SetInv, IncrementInv, DecrementInv, AddInv, RemoveInv DEF Local
<1>2. ASSUME NEW n \in Node, Send(n) \/ Persist(n) \/ Crash(n) PROVE CrdtInv'
  BY <1>2, SendInv, PersistInv, CrashInv
<1>3. ASSUME NEW n \in Node, NEW m \in Node, Exchange(n, m) PROVE CrdtInv'
  BY <1>3, ExchangeInv
<1>4. ASSUME NEW m \in wire, Lose(m) \/ \E n \in Node : Deliver(n, m) PROVE CrdtInv'
  BY <1>4, LoseInv, DeliverInv
<1>5. CASE UNCHANGED vars
  <2>1. TypeOK' /\ Copies' \subseteq Copies
    BY <1>5 DEF vars, CrdtInv, TypeOK, Copies
  <2> QED BY <2>1, <1>5, CopiesKept DEF vars
<1> QED BY <1>1, <1>2, <1>3, <1>4, <1>5 DEF Next

LEMMA CrdtInvAlways == Spec => []CrdtInv
BY CrdtInvInit, CrdtInvNext, PTL DEF Spec

\* Every store and every snapshot is well formed, whatever the interleaving.
THEOREM CrdtTypeCorrect == Spec => []TypeOK
<1>1. CrdtInv => TypeOK
  BY DEF CrdtInv
<1> QED BY <1>1, CrdtInvAlways, PTL

\* The register of each copy is the newest write the copy has seen.
THEOREM NewestWriteWins == Spec => []RegisterIsNewest
<1>1. CrdtInv => RegisterIsNewest
  BY DEF CrdtInv, CopyInv, RegGood, RegisterIsNewest
<1> QED BY <1>1, CrdtInvAlways, PTL

\* A time and a node name one value.
THEOREM StampsAreUnique == Spec => []OneValuePerStamp
<1>1. ASSUME CrdtInv PROVE OneValuePerStamp
  <2>1. SUFFICES ASSUME NEW s \in Copies, NEW t \in Copies,
                        s.reg[1] = t.reg[1], s.reg[2] = t.reg[2]
                 PROVE  s.reg[3] = t.reg[3]
    BY DEF OneValuePerStamp
  <2>2. s \in Store /\ t \in Store /\ RegGood(s) /\ RegGood(t) /\ OneWrite(s, t)
    BY <1>1, CopyType DEF CrdtInv, CopyInv
  <2>3. s.reg \in Register /\ t.reg \in Register
    BY <2>2, StoreParts
  <2>4. CASE s.reg[1] = 0
    BY <2>1, <2>3, <2>4, RegisterParts
  <2>5. CASE s.reg[1] # 0
    <3>1. s.reg # Unset /\ t.reg # Unset
      BY <2>1, <2>5 DEF Unset
    <3>2. PICK u \in Writes(s) : s.reg = Stamp(u)
      BY <3>1, <2>2 DEF RegGood
    <3>3. PICK w \in Writes(t) : t.reg = Stamp(w)
      BY <3>1, <2>2 DEF RegGood
    <3>4. u = w
      BY <2>1, <2>2, <3>2, <3>3, WriteParts DEF OneWrite
    <3> QED BY <3>2, <3>3, <3>4
  <2> QED BY <2>4, <2>5
<1> QED BY <1>1, CrdtInvAlways, PTL

\* A counter counts what it has seen, each update once.
THEOREM CountsWhatItHasSeen == Spec => []CounterIsOfSeen
<1>1. CrdtInv => CounterIsOfSeen
  BY DEF CrdtInv, CopyInv, CountGood, CounterIsOfSeen
<1> QED BY <1>1, CrdtInvAlways, PTL

\* The set is add-wins.
THEOREM AddsWin == Spec => []AddWins
<1>1. CrdtInv => AddWins
  BY DEF CrdtInv, CopyInv, SetGood, AddWins
<1> QED BY <1>1, CrdtInvAlways, PTL

\* Two copies with the same history have the same register.
LEMMA SameRegister ==
    ASSUME NEW s \in Store, NEW t \in Store, RegGood(s), RegGood(t), s.seen = t.seen
    PROVE  s.reg = t.reg
<1>1. Writes(s) = Writes(t)
  BY DEF Writes
<1>2. CASE Writes(s) = {}
  BY <1>1, <1>2 DEF RegGood
<1>3. CASE Writes(s) # {}
  <2>1. PICK u \in Writes(s) : s.reg = Stamp(u)
    BY <1>3 DEF RegGood
  <2>2. PICK w \in Writes(t) : t.reg = Stamp(w)
    BY <1>1, <1>3 DEF RegGood
  <2>3. /\ t.reg = s.reg \/ Newer(s.reg, t.reg)
        /\ s.reg = t.reg \/ Newer(t.reg, s.reg)
    BY <1>1, <1>3, <2>1, <2>2 DEF RegGood
  <2>4. s.reg \in Register /\ t.reg \in Register /\ s.reg[1] # 0 /\ t.reg[1] # 0
    BY <2>1, <2>2, WriteParts
  <2> QED BY <2>3, <2>4, NewerTotal
<1> QED BY <1>2, <1>3

\* Replicas that have seen the same updates hold the same data.
THEOREM SeenTheSameIsTheSame == Spec => []StrongConvergence
<1>1. ASSUME CrdtInv PROVE StrongConvergence
  <2>1. SUFFICES ASSUME NEW s \in Copies, NEW t \in Copies, s.seen = t.seen
                 PROVE  Content(s) = Content(t)
    BY DEF StrongConvergence
  <2>2. s \in Store /\ t \in Store /\ CopyInv(s) /\ CopyInv(t)
    BY <1>1, CopyType DEF CrdtInv
  <2>3. s.reg = t.reg
    BY <2>1, <2>2, SameRegister DEF CopyInv
  <2>4. s.inc = t.inc /\ s.dec = t.dec
    <3>1. s.inc \in Count /\ t.inc \in Count /\ s.dec \in Count /\ t.dec \in Count
      BY <2>2, StoreParts
    <3>2. ASSUME NEW n \in Node PROVE s.inc[n] = t.inc[n] /\ s.dec[n] = t.dec[n]
      <4>1. /\ s.inc[n] \in 0 .. MaxUpdates /\ t.inc[n] \in 0 .. MaxUpdates
            /\ s.dec[n] \in 0 .. MaxUpdates /\ t.dec[n] \in 0 .. MaxUpdates
        BY <3>1 DEF Count
      <4>2. \A i \in 1 .. MaxUpdates : /\ i <= s.inc[n] <=> i <= t.inc[n]
                                       /\ i <= s.dec[n] <=> i <= t.dec[n]
        BY <2>1, <2>2 DEF CopyInv, CountGood
      <4> QED BY <4>1, <4>2, CrdtAssumption
    <3> QED BY <3>1, <3>2 DEF Count
  <2>5. s.tags = t.tags /\ s.tombs = t.tombs
    <3>1. s.tags \subseteq Tag /\ t.tags \subseteq Tag /\ s.tombs \subseteq Tag /\ t.tombs \subseteq Tag
      BY <2>2, StoreParts
    <3>2. \A x \in Tag : (x \in s.tags <=> x \in t.tags) /\ (x \in s.tombs <=> x \in t.tombs)
      BY <2>1, <2>2 DEF CopyInv, SetGood
    <3> QED BY <3>1, <3>2
  <2> QED BY <2>3, <2>4, <2>5 DEF Content
<1> QED BY <1>1, CrdtInvAlways, PTL

(***************************************************************************)
(* What a step does to a store, and to the increments it counts.           *)
(***************************************************************************)
Keeps(old, new) ==
    /\ old.tags \subseteq new.tags /\ old.tombs \subseteq new.tombs
    /\ \A m \in Node : old.inc[m] <= new.inc[m] /\ old.dec[m] <= new.dec[m]
    /\ new.reg = old.reg \/ old.reg[1] = 0 \/ Newer(new.reg, old.reg)

LEMMA KeepsItself ==
    ASSUME NEW s \in Store
    PROVE  Keeps(s, s)
<1>1. \A m \in Node : s.inc[m] \in Nat /\ s.dec[m] \in Nat
  BY StoreParts, MergeCountType
<1> QED BY <1>1 DEF Keeps

LEMMA MergeKeeps ==
    ASSUME NEW s \in Store, NEW t \in Store
    PROVE  Keeps(s, Merge(s, t))
<1>1. \A m \in Node : s.inc[m] <= MergeCount(s.inc, t.inc)[m] /\ s.dec[m] <= MergeCount(s.dec, t.dec)[m]
  BY StoreParts, MergeCountType
<1>2. LET r == MergeRegister(s.reg, t.reg)
      IN  r = s.reg \/ s.reg[1] = 0 \/ Newer(r, s.reg)
  BY StoreParts, MergeRegisterOnwards
<1> QED BY <1>1, <1>2 DEF Keeps, Merge

\* A local update changes one store, and one field of it besides the history.
LEMMA LocalFields ==
    ASSUME CrdtInv, NEW n \in Node, Local(n)
    PROVE  /\ \A m \in Node \ {n} : rep'[m] = rep[m]
           /\ Keeps(rep[n], rep'[n])
           /\ \A m \in Node : rep'[n].inc[m] - rep[n].inc[m] = done'[m] - done[m]
           /\ \A m \in Node \ {n} : done'[m] = done[m]
<1>1. /\ rep \in [Node -> Store] /\ rep[n] \in Store /\ done \in [Node -> Nat]
      /\ \A m \in Node : rep[n].inc[m] \in Nat /\ rep[n].dec[m] \in Nat
      /\ rep[n].inc \in Count /\ rep[n].dec \in Count
  BY StoreParts, MergeCountType DEF CrdtInv, TypeOK
<1>2. PICK c : c = rep[n]
  OBVIOUS
<1>3. CASE Set(n)
  <2>0. PICK at \in clock[n] .. MaxTime, v \in Value :
           rep' = [rep EXCEPT ![n] =
                     [c EXCEPT !.reg = Written(c.reg, <<at, n, v>>),
                               !.seen = IF Written(c.reg, <<at, n, v>>) = <<at, n, v>>
                                        THEN @ \cup {<<"set", at, n, v>>} ELSE @]]
    BY <1>2, <1>3 DEF Set
  <2>1. PICK q : rep' = [rep EXCEPT ![n] =
                           [c EXCEPT !.reg = Written(c.reg, <<at, n, v>>), !.seen = q]]
    BY <2>0
  <2>2. /\ rep'[n].reg = Written(c.reg, <<at, n, v>>) /\ rep'[n].inc = c.inc
        /\ rep'[n].dec = c.dec /\ rep'[n].tags = c.tags /\ rep'[n].tombs = c.tombs
    BY <1>1, <1>2, <2>1 DEF Store
  <2>3. \A m \in Node \ {n} : rep'[m] = rep[m]
    BY <1>1, <2>1
  <2>4. done' = done
    BY <1>3 DEF Set
  <2> QED BY <1>1, <1>2, <2>2, <2>3, <2>4 DEF Keeps, Written
<1>4. CASE Increment(n)
  <2>1. PICK q : rep' = [rep EXCEPT ![n] = [c EXCEPT !.inc = Up(c.inc, n), !.seen = q]]
    BY <1>2, <1>4 DEF Increment
  <2>2. /\ rep'[n].reg = c.reg /\ rep'[n].inc = Up(c.inc, n)
        /\ rep'[n].dec = c.dec /\ rep'[n].tags = c.tags /\ rep'[n].tombs = c.tombs
    BY <1>1, <1>2, <2>1 DEF Store
  <2>3. \A m \in Node \ {n} : rep'[m] = rep[m]
    BY <1>1, <2>1
  <2>4. \A m \in Node : done'[m] = IF m = n THEN done[m] + 1 ELSE done[m]
    BY <1>1, <1>4 DEF Increment
  <2>5. \A m \in Node : Up(c.inc, n)[m] = IF m = n THEN c.inc[m] + 1 ELSE c.inc[m]
    BY <1>1, <1>2 DEF Up, Count
  <2> QED BY <1>1, <1>2, <2>2, <2>3, <2>4, <2>5 DEF Keeps
<1>5. CASE Decrement(n)
  <2>1. PICK q : rep' = [rep EXCEPT ![n] = [c EXCEPT !.dec = Up(c.dec, n), !.seen = q]]
    BY <1>2, <1>5 DEF Decrement
  <2>2. /\ rep'[n].reg = c.reg /\ rep'[n].inc = c.inc
        /\ rep'[n].dec = Up(c.dec, n) /\ rep'[n].tags = c.tags /\ rep'[n].tombs = c.tombs
    BY <1>1, <1>2, <2>1 DEF Store
  <2>3. \A m \in Node \ {n} : rep'[m] = rep[m]
    BY <1>1, <2>1
  <2>4. done' = done
    BY <1>5 DEF Decrement
  <2>5. \A m \in Node : Up(c.dec, n)[m] = IF m = n THEN c.dec[m] + 1 ELSE c.dec[m]
    BY <1>1, <1>2 DEF Up, Count
  <2> QED BY <1>1, <1>2, <2>2, <2>3, <2>4, <2>5 DEF Keeps
<1>6. CASE \E e \in Element : Add(n, e)
  <2>1. PICK x, q : rep' = [rep EXCEPT ![n] = [c EXCEPT !.tags = c.tags \cup {x}, !.seen = q]]
    BY <1>2, <1>6 DEF Add
  <2>2. /\ rep'[n].reg = c.reg /\ rep'[n].inc = c.inc /\ rep'[n].dec = c.dec
        /\ rep'[n].tags = c.tags \cup {x} /\ rep'[n].tombs = c.tombs
    BY <1>1, <1>2, <2>1 DEF Store
  <2>3. \A m \in Node \ {n} : rep'[m] = rep[m]
    BY <1>1, <2>1
  <2>4. done' = done
    BY <1>6 DEF Add
  <2> QED BY <1>1, <1>2, <2>2, <2>3, <2>4 DEF Keeps
<1>7. CASE \E e \in Element : Remove(n, e)
  <2>1. PICK x, q : rep' = [rep EXCEPT ![n] = [c EXCEPT !.tombs = c.tombs \cup x, !.seen = q]]
    BY <1>2, <1>7 DEF Remove
  <2>2. /\ rep'[n].reg = c.reg /\ rep'[n].inc = c.inc /\ rep'[n].dec = c.dec
        /\ rep'[n].tags = c.tags /\ rep'[n].tombs = c.tombs \cup x
    BY <1>1, <1>2, <2>1 DEF Store
  <2>3. \A m \in Node \ {n} : rep'[m] = rep[m]
    BY <1>1, <2>1
  <2>4. done' = done
    BY <1>7 DEF Remove
  <2> QED BY <1>1, <1>2, <2>2, <2>3, <2>4 DEF Keeps
<1> QED BY <1>3, <1>4, <1>5, <1>6, <1>7 DEF Local

\* Every step but n's own crash keeps what n's store holds.
LEMMA StepKeeps ==
    ASSUME CrdtInv, [Next]_vars, NEW n \in Node, ~Crash(n)
    PROVE  Keeps(rep[n], rep'[n])
<1>1. rep \in [Node -> Store] /\ rep[n] \in Store
  BY DEF CrdtInv, TypeOK
<1>2. ASSUME NEW m \in Node, Local(m) PROVE Keeps(rep[n], rep'[n])
  BY <1>1, <1>2, LocalFields, KeepsItself
<1>3. ASSUME NEW m \in Node, Send(m) \/ Persist(m) PROVE Keeps(rep[n], rep'[n])
  <2>1. rep' = rep
    BY <1>3 DEF Send, Persist
  <2> QED BY <2>1, <1>1, KeepsItself
<1>4. ASSUME NEW m \in Node, Crash(m) PROVE Keeps(rep[n], rep'[n])
  <2>1. m # n
    BY <1>4
  <2>2. rep'[n] = rep[n]
    BY <1>1, <1>4, <2>1 DEF Crash
  <2> QED BY <2>2, <1>1, KeepsItself
<1>5. ASSUME NEW m \in Node, NEW s \in Store, rep' = [rep EXCEPT ![m] = Merge(rep[m], s)]
      PROVE  Keeps(rep[n], rep'[n])
  <2>1. CASE m = n
    <3>1. rep'[n] = Merge(rep[n], s)
      BY <1>1, <1>5, <2>1
    <3> QED BY <3>1, <1>1, MergeKeeps
  <2>2. CASE m # n
    <3>1. rep'[n] = rep[n]
      BY <1>1, <1>5, <2>2
    <3> QED BY <3>1, <1>1, KeepsItself
  <2> QED BY <2>1, <2>2
<1>6. ASSUME NEW m \in Node, NEW k \in Node, Exchange(m, k) PROVE Keeps(rep[n], rep'[n])
  BY <1>1, <1>5, <1>6 DEF Exchange
<1>7. ASSUME NEW s \in wire, NEW m \in Node, Deliver(m, s) PROVE Keeps(rep[n], rep'[n])
  BY <1>5, <1>7 DEF Deliver, CrdtInv, TypeOK
<1>8. ASSUME NEW s \in wire, Lose(s) PROVE Keeps(rep[n], rep'[n])
  BY <1>1, <1>8, KeepsItself DEF Lose
<1>9. CASE UNCHANGED vars
  BY <1>1, <1>9, KeepsItself DEF vars
<1> QED BY <1>2, <1>3, <1>4, <1>6, <1>7, <1>8, <1>9 DEF Next

\* Only a crash makes a replica forget.
THEOREM ReplicasOnlyLearn == Spec => NothingForgotten
<1> DEFINE Kept(n) ==
      /\ rep[n].tags \subseteq rep'[n].tags /\ rep[n].tombs \subseteq rep'[n].tombs
      /\ \A m \in Node : /\ rep[n].inc[m] <= rep'[n].inc[m]
                         /\ rep[n].dec[m] <= rep'[n].dec[m]
      /\ rep'[n].reg = rep[n].reg \/ rep[n].reg[1] = 0 \/ Newer(rep'[n].reg, rep[n].reg)
<1>1. CrdtInv /\ [Next]_vars => [\A n \in Node : ~Crash(n) => Kept(n)]_vars
  BY StepKeeps DEF Keeps
<1> QED BY <1>1, CrdtInvAlways, PTL DEF Spec, NothingForgotten

(***************************************************************************)
(* Increments.                                                             *)
(***************************************************************************)
\* Copies count nothing n was not asked for, unless n lost count itself.
Honest(s, n) == s.inc[n] <= done[n]

LEMMA HonestMerge ==
    ASSUME NEW n \in Node, NEW s \in Store, NEW t \in Store, Honest(s, n), Honest(t, n)
    PROVE  Honest(Merge(s, t), n)
BY StoreParts, MergeCountType DEF Honest, Merge

LEMMA NoIncrementLostNext ==
    ASSUME CrdtInv, NoIncrementLost, [Next]_vars
    PROVE  NoIncrementLost'
<1> SUFFICES ASSUME NEW n \in Node, n \notin forgot'
             PROVE  /\ rep'[n].inc[n] = done'[n]
                    /\ \A s \in Copies' : s.inc[n] <= done'[n]
  BY DEF NoIncrementLost
<1>1. /\ rep \in [Node -> Store] /\ saved \in [Node -> Store] /\ rep[n] \in Store /\ saved[n] \in Store
      /\ done \in [Node -> Nat] /\ done[n] \in Nat
      /\ rep[n].inc[n] \in Nat /\ saved[n].inc[n] \in Nat
  BY StoreParts, MergeCountType DEF CrdtInv, TypeOK
<1>2. n \notin forgot => rep[n].inc[n] = done[n] /\ \A s \in Copies : Honest(s, n)
  BY DEF NoIncrementLost, Honest
<1>3. ASSUME NEW m \in Node, Local(m)
      PROVE  rep'[n].inc[n] = done'[n] /\ \A s \in Copies' : s.inc[n] <= done'[n]
  <2>1. n \notin forgot
    BY <1>3 DEF Local
  <2>2. done' \in [Node -> Nat] /\ done[n] <= done'[n]
    <3>1. CrdtInv'
      BY CrdtInvNext
    <3>2. done'[n] - done[n] = rep'[m].inc[n] - rep[m].inc[n] /\ rep[m].inc[n] <= rep'[m].inc[n]
      BY <1>3, LocalFields DEF Keeps
    <3>3. rep'[m] \in Store /\ rep[m] \in Store
      BY <3>1 DEF CrdtInv, TypeOK
    <3>4. rep'[m].inc[n] \in Nat /\ rep[m].inc[n] \in Nat /\ done'[n] \in Nat
      BY <3>1, <3>3, StoreParts, MergeCountType DEF CrdtInv, TypeOK
    <3> QED BY <3>1, <3>2, <3>4, <1>1 DEF CrdtInv, TypeOK
  <2>3. \A s \in Copies' : s \in Copies \/ s = rep'[m]
    BY <1>3, LocalFields DEF Copies, Local
  <2>4. \A s \in Copies : s.inc[n] \in Nat
    BY CopyType, StoreParts, MergeCountType DEF CrdtInv
  <2>5. rep'[m].inc[n] <= done'[n] /\ rep'[n].inc[n] = done'[n]
    <3>1. rep'[m].inc[n] - rep[m].inc[n] = done'[n] - done[n]
      BY <1>3, LocalFields
    <3>2. rep[m] \in Copies /\ rep[m].inc[n] \in Nat /\ rep'[m].inc[n] \in Nat /\ done'[n] \in Nat
      <4>1. CrdtInv'
        BY CrdtInvNext
      <4>2. rep[m] \in Copies /\ rep'[m] \in Store
        BY <4>1 DEF Copies, CrdtInv, TypeOK
      <4> QED BY <2>4, <4>2, <2>2, StoreParts, MergeCountType
    <3>3. rep[m].inc[n] <= done[n]
      BY <2>1, <1>2, <3>2 DEF Honest
    <3>4. m # n => rep'[n] = rep[n] /\ done'[n] = done[n]
      BY <1>3, LocalFields
    <3> QED BY <3>1, <3>2, <3>3, <3>4, <2>1, <1>1, <1>2
  <2>6. ASSUME NEW s \in Copies' PROVE s.inc[n] <= done'[n]
    BY <2>1, <2>2, <2>3, <2>4, <2>5, <1>1, <1>2 DEF Honest
  <2> QED BY <2>5, <2>6
<1>4. ASSUME Copies' \subseteq Copies, rep' = rep, done' = done, forgot' = forgot
      PROVE  rep'[n].inc[n] = done'[n] /\ \A s \in Copies' : s.inc[n] <= done'[n]
  BY <1>2, <1>4 DEF Honest
<1>5. ASSUME NEW m \in Node, Send(m) \/ Persist(m)
      PROVE  rep'[n].inc[n] = done'[n] /\ \A s \in Copies' : s.inc[n] <= done'[n]
  <2>1. Copies' \subseteq Copies
    BY <1>5 DEF Copies, Send, Persist, CrdtInv, TypeOK
  <2> QED BY <2>1, <1>4, <1>5 DEF Send, Persist
<1>6. ASSUME NEW m \in wire, Lose(m)
      PROVE  rep'[n].inc[n] = done'[n] /\ \A s \in Copies' : s.inc[n] <= done'[n]
  <2>1. Copies' \subseteq Copies
    BY <1>6 DEF Copies, Lose
  <2> QED BY <2>1, <1>4, <1>6 DEF Lose
<1>7. CASE UNCHANGED vars
  <2>1. Copies' \subseteq Copies
    BY <1>7 DEF Copies, vars
  <2> QED BY <2>1, <1>4, <1>7 DEF vars
<1>8. ASSUME NEW m \in Node, NEW t \in Copies, rep' = [rep EXCEPT ![m] = Merge(rep[m], t)],
             saved' = saved, wire' = wire, done' = done, forgot' = forgot
      PROVE  rep'[n].inc[n] = done'[n] /\ \A s \in Copies' : s.inc[n] <= done'[n]
  <2>1. t \in Store /\ rep[m] \in Store /\ rep[m] \in Copies /\ t.inc \in Count
    BY CopyType, StoreParts DEF CrdtInv, TypeOK, Copies
  <2>2. Honest(Merge(rep[m], t), n)
    BY <1>2, <1>8, <2>1, HonestMerge
  <2>3. \A s \in Copies' : s \in Copies \/ s = Merge(rep[m], t)
    BY <1>1, <1>8 DEF Copies
  <2>4. \A s \in Copies' : s.inc[n] <= done'[n]
    BY <1>2, <1>8, <2>2, <2>3 DEF Honest
  <2>5. rep'[n].inc[n] = done[n]
    <3>1. CASE m # n
      BY <1>1, <1>2, <1>8, <3>1
    <3>2. CASE m = n
      <4>1. rep'[n].inc = MergeCount(rep[n].inc, t.inc)
        BY <1>1, <1>8, <3>2 DEF Merge
      <4>2. rep[n].inc[n] = done[n] /\ t.inc[n] <= done[n]
        BY <1>2, <1>8 DEF Honest
      <4>3. rep[n].inc \in Count
        BY <1>1, StoreParts
      <4> QED BY <4>1, <4>2, <4>3, <2>1, <1>1, MergeCountType
    <3> QED BY <3>1, <3>2
  <2> QED BY <2>4, <2>5, <1>8
<1>9. ASSUME NEW m \in Node, NEW k \in Node, Exchange(m, k)
      PROVE  rep'[n].inc[n] = done'[n] /\ \A s \in Copies' : s.inc[n] <= done'[n]
  <2>1. rep[k] \in Copies
    BY DEF Copies
  <2> QED BY <2>1, <1>8, <1>9 DEF Exchange
<1>10. ASSUME NEW t \in wire, NEW m \in Node, Deliver(m, t)
       PROVE  rep'[n].inc[n] = done'[n] /\ \A s \in Copies' : s.inc[n] <= done'[n]
  <2>1. t \in Copies
    BY DEF Copies
  <2> QED BY <2>1, <1>8, <1>10 DEF Deliver
<1>11. ASSUME NEW m \in Node, Crash(m)
       PROVE  rep'[n].inc[n] = done'[n] /\ \A s \in Copies' : s.inc[n] <= done'[n]
  <2>1. n \notin forgot /\ done' = done /\ saved' = saved /\ wire' = wire
    BY <1>11 DEF Crash
  <2>2. saved[m] \in Store /\ saved[m] \in Copies /\ Blank \in Store /\ saved[m].inc \in Count
    BY BlankGood, StoreParts DEF Copies, CrdtInv, TypeOK
  <2>3. \A i \in Node : Restored(m).inc[i] = saved[m].inc[i]
    <3>1. \A i \in Node : Blank.inc[i] = 0 /\ saved[m].inc[i] \in Nat
      BY <2>2, MergeCountType DEF Blank
    <3> QED BY <2>2, <3>1, StoreParts, MergeCountType DEF Restored, Merge
  <2>4. \A s \in Copies' : s \in Copies \/ s = Restored(m)
    BY <1>1, <1>11 DEF Copies, Crash
  <2>5. \A s \in Copies' : s.inc[n] <= done'[n]
    BY <1>2, <2>1, <2>2, <2>3, <2>4 DEF Honest
  <2>6. rep'[n].inc[n] = done[n]
    <3>1. CASE m # n
      BY <1>1, <1>2, <1>11, <2>1, <3>1 DEF Crash
    <3>2. CASE m = n
      <4>1. rep'[n].inc[n] = saved[n].inc[n]
        BY <1>1, <1>11, <2>3, <3>2 DEF Crash
      <4>2. ~(saved[n].inc[n] < rep[n].inc[n])
        BY <1>11, <3>2 DEF Crash
      <4>3. saved[n].inc[n] <= done[n] /\ rep[n].inc[n] = done[n]
        BY <1>2, <2>1, <2>2, <3>2 DEF Honest
      <4> QED BY <4>1, <4>2, <4>3, <1>1
    <3> QED BY <3>1, <3>2
  <2> QED BY <2>1, <2>5, <2>6
<1> QED BY <1>3, <1>5, <1>6, <1>7, <1>9, <1>10, <1>11 DEF Next

\* No increment is lost and none is counted twice, but for increments a crash
\* took before they were persisted.
THEOREM IncrementsAreKept == Spec => []NoIncrementLost
<1>1. Init => NoIncrementLost
  <2>1. ASSUME Init PROVE NoIncrementLost
    <3>1. \A s \in Copies : s = Blank
      BY <2>1 DEF Init, Copies
    <3>2. \A n \in Node : rep[n] = Blank /\ done[n] = 0 /\ Blank.inc[n] = 0
      BY <2>1 DEF Init, Blank
    <3> QED BY <3>1, <3>2 DEF NoIncrementLost
  <2> QED BY <2>1
<1>2. CrdtInv /\ NoIncrementLost /\ [Next]_vars => NoIncrementLost'
  BY NoIncrementLostNext
<1> QED BY <1>1, <1>2, CrdtInvAlways, PTL DEF Spec
=============================================================================
