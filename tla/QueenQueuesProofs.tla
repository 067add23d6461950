------------------------- MODULE QueenQueuesProofs -------------------------
(***************************************************************************)
(* The lists of the Queen coordinator: what inserting and removing does to *)
(* them, and the results that need no more than that -- the order of the   *)
(* queues, that a queued task is held, and the limit of the agent pool.    *)
(***************************************************************************)
EXTENDS QueenTasksProofs

(***************************************************************************)
(* Inserting into and removing from a list                                 *)
(***************************************************************************)
\* RemoveAt closes the gap.
LEMMA RemoveAtParts ==
    ASSUME NEW S, NEW q \in Seq(S), NEW k \in 1 .. Len(q)
    PROVE  LET r == RemoveAt(q, k)
           IN  /\ r \in Seq(S)
               /\ Len(r) = Len(q) - 1
               /\ \A i \in 1 .. Len(q) - 1 : r[i] = IF i < k THEN q[i] ELSE q[i + 1]
<1> DEFINE a == SubSeq(q, 1, k - 1)
           b == SubSeq(q, k + 1, Len(q))
<1>1. Len(q) \in Nat /\ \A i \in 1 .. Len(q) : q[i] \in S
    BY LenProperties, ElementOfSeq
<1>2. /\ a \in Seq(S) /\ Len(a) = k - 1
      /\ \A i \in 1 .. k - 1 : a[i] = q[i]
    <2>1. /\ a \in Seq(S) /\ Len(a) = IF 1 <= k - 1 THEN k - 1 - 1 + 1 ELSE 0
          /\ \A i \in 1 .. k - 1 - 1 + 1 : a[i] = q[1 + i - 1]
        BY <1>1, SubSeqProperties
    <2> HIDE DEF a
    <2>2. ASSUME NEW i \in 1 .. k - 1 PROVE a[i] = q[i]
        <3>1. i \in 1 .. k - 1 - 1 + 1 /\ 1 + i - 1 = i
            BY <1>1
        <3> QED BY <2>1, <3>1
    <2>3. Len(a) = k - 1
        BY <1>1, <2>1
    <2> QED BY <2>1, <2>2, <2>3
<1>3. /\ b \in Seq(S) /\ Len(b) = Len(q) - k
      /\ \A i \in 1 .. Len(q) - k : b[i] = q[k + i]
    <2>1. /\ b \in Seq(S) /\ Len(b) = IF k + 1 <= Len(q) THEN Len(q) - (k + 1) + 1 ELSE 0
          /\ \A i \in 1 .. Len(q) - (k + 1) + 1 : b[i] = q[(k + 1) + i - 1]
        BY <1>1, SubSeqProperties
    <2> HIDE DEF b
    <2>2. ASSUME NEW i \in 1 .. Len(q) - k PROVE b[i] = q[k + i]
        <3>1. i \in 1 .. Len(q) - (k + 1) + 1 /\ (k + 1) + i - 1 = k + i
            BY <1>1
        <3> QED BY <2>1, <3>1
    <2>3. Len(b) = Len(q) - k
        BY <1>1, <2>1
    <2> QED BY <2>1, <2>2, <2>3
<1>4. RemoveAt(q, k) = a \o b
    BY DEF RemoveAt
<1> HIDE DEF a, b
<1>5. /\ a \o b \in Seq(S)
      /\ Len(a \o b) = Len(a) + Len(b)
      /\ \A i \in 1 .. Len(a) + Len(b) :
             (a \o b)[i] = IF i <= Len(a) THEN a[i] ELSE b[i - Len(a)]
    BY <1>2, <1>3, ConcatProperties
<1>6. Len(a) + Len(b) = Len(q) - 1
    BY <1>1, <1>2, <1>3
<1>7. ASSUME NEW i \in 1 .. Len(q) - 1
      PROVE  (a \o b)[i] = IF i < k THEN q[i] ELSE q[i + 1]
    <2>1. CASE i < k
        BY <1>1, <1>2, <1>5, <1>6, <2>1
    <2>2. CASE ~(i < k)
        <3>1. i - Len(a) \in 1 .. Len(q) - k /\ ~(i <= Len(a)) /\ k + (i - Len(a)) = i + 1
            BY <1>1, <1>2, <2>2
        <3> QED BY <1>1, <1>3, <1>5, <1>6, <2>2, <3>1
    <2> QED BY <2>1, <2>2
<1> QED BY <1>4, <1>5, <1>6, <1>7

\* RemoveFirst removes one entry that is equal to the element, if there is one.
LEMMA RemoveFirstParts ==
    ASSUME NEW q \in Seq(Task), NEW t
    PROVE  \/ t \notin Range(q) /\ RemoveFirst(q, t) = q
           \/ \E k \in 1 .. Len(q) : q[k] = t /\ RemoveFirst(q, t) = RemoveAt(q, k)
<1> DEFINE I == {i \in 1 .. Len(q) : q[i] = t}
<1>1. DOMAIN q = 1 .. Len(q) /\ Len(q) \in Nat
    BY LenProperties
<1>2. CASE I = {}
    BY <1>1, <1>2 DEF RemoveFirst, Range
<1>3. CASE I # {}
    <2>1. Min(I) \in I
        <3>1. I \in SUBSET Nat
            BY <1>1
        <3> HIDE DEF I
        <3> QED BY <1>3, <3>1, LeastNatural
    <2>2. RemoveFirst(q, t) = RemoveAt(q, Min(I))
        BY <1>3 DEF RemoveFirst, SelectInSeq
    <2> QED BY <2>1, <2>2
<1> QED BY <1>2, <1>3

\* r is q with e after the first n.
Inserted(r, q, n, e) ==
    /\ Len(r) = Len(q) + 1
    /\ \A i \in 1 .. Len(q) + 1 :
           r[i] = IF i <= n THEN q[i] ELSE IF i = n + 1 THEN e ELSE q[i - 1]

\* InsertAt opens a gap for the element.
LEMMA InsertAtParts ==
    ASSUME NEW S, NEW q \in Seq(S), NEW e \in S, NEW n \in 0 .. Len(q)
    PROVE  InsertAt(q, n + 1, e) \in Seq(S) /\ Inserted(InsertAt(q, n + 1, e), q, n, e)
<1> DEFINE a == SubSeq(q, 1, n)
           b == SubSeq(q, n + 1, Len(q))
           c == <<e>>
<1>1. Len(q) \in Nat /\ \A i \in 1 .. Len(q) : q[i] \in S
    BY LenProperties, ElementOfSeq
<1>2. /\ a \in Seq(S) /\ Len(a) = n
      /\ \A i \in 1 .. n : a[i] = q[i]
    <2>1. /\ a \in Seq(S) /\ Len(a) = IF 1 <= n THEN n - 1 + 1 ELSE 0
          /\ \A i \in 1 .. n - 1 + 1 : a[i] = q[1 + i - 1]
        BY <1>1, SubSeqProperties
    <2> HIDE DEF a
    <2>2. ASSUME NEW i \in 1 .. n PROVE a[i] = q[i]
        <3>1. i \in 1 .. n - 1 + 1 /\ 1 + i - 1 = i
            BY <1>1
        <3> QED BY <2>1, <3>1
    <2>3. Len(a) = n
        BY <1>1, <2>1
    <2> QED BY <2>1, <2>2, <2>3
<1>3. /\ b \in Seq(S) /\ Len(b) = Len(q) - n
      /\ \A i \in 1 .. Len(q) - n : b[i] = q[n + i]
    <2>1. /\ b \in Seq(S) /\ Len(b) = IF n + 1 <= Len(q) THEN Len(q) - (n + 1) + 1 ELSE 0
          /\ \A i \in 1 .. Len(q) - (n + 1) + 1 : b[i] = q[(n + 1) + i - 1]
        BY <1>1, SubSeqProperties
    <2> HIDE DEF b
    <2>2. ASSUME NEW i \in 1 .. Len(q) - n PROVE b[i] = q[n + i]
        <3>1. i \in 1 .. Len(q) - (n + 1) + 1 /\ (n + 1) + i - 1 = n + i
            BY <1>1
        <3> QED BY <2>1, <3>1
    <2>3. Len(b) = Len(q) - n
        BY <1>1, <2>1
    <2> QED BY <2>1, <2>2, <2>3
<1>4. c \in Seq(S) /\ Len(c) = 1 /\ c[1] = e
    BY SingleType
<1>5. InsertAt(q, n + 1, e) = (a \o c) \o b
    <2>1. (n + 1) - 1 = n
        OBVIOUS
    <2> QED BY <2>1 DEF InsertAt
<1> HIDE DEF a, b, c
<1>6. /\ a \o c \in Seq(S)
      /\ Len(a \o c) = n + 1
      /\ \A i \in 1 .. n + 1 : (a \o c)[i] = IF i <= n THEN q[i] ELSE e
    <2>1. /\ a \o c \in Seq(S)
          /\ Len(a \o c) = Len(a) + Len(c)
          /\ \A i \in 1 .. Len(a) + Len(c) :
                 (a \o c)[i] = IF i <= Len(a) THEN a[i] ELSE c[i - Len(a)]
        BY <1>2, <1>4, ConcatProperties
    <2> QED BY <1>1, <1>2, <1>4, <2>1
<1>7. /\ (a \o c) \o b \in Seq(S)
      /\ Len((a \o c) \o b) = Len(a \o c) + Len(b)
      /\ \A i \in 1 .. Len(a \o c) + Len(b) :
             ((a \o c) \o b)[i] = IF i <= Len(a \o c) THEN (a \o c)[i] ELSE b[i - Len(a \o c)]
    BY <1>3, <1>6, ConcatProperties
<1>8. Len(a \o c) + Len(b) = Len(q) + 1
    BY <1>1, <1>3, <1>6
<1>9. ASSUME NEW i \in 1 .. Len(q) + 1
      PROVE  ((a \o c) \o b)[i] =
                 IF i <= n THEN q[i] ELSE IF i = n + 1 THEN e ELSE q[i - 1]
    <2>1. CASE i <= n + 1
        BY <1>1, <1>6, <1>7, <1>8, <2>1
    <2>2. CASE ~(i <= n + 1)
        <3>1. i - (n + 1) \in 1 .. Len(q) - n /\ n + (i - (n + 1)) = i - 1
            BY <1>1, <2>2
        <3>2. ((a \o c) \o b)[i] = b[i - (n + 1)]
            BY <1>6, <1>7, <1>8, <2>2
        <3>3. b[i - (n + 1)] = q[i - 1]
            BY <1>3, <3>1
        <3>4. ~(i <= n) /\ i # n + 1
            BY <1>1, <2>2
        <3> QED BY <3>2, <3>3, <3>4
    <2> QED BY <2>1, <2>2
<1> QED BY <1>5, <1>7, <1>8, <1>9 DEF Inserted

(***************************************************************************)
(* Members, repetitions and order                                          *)
(***************************************************************************)
\* The members of a list, by position.
LEMMA Members ==
    ASSUME NEW S, NEW q \in Seq(S)
    PROVE  /\ Len(q) \in Nat /\ DOMAIN q = 1 .. Len(q)
           /\ \A e : e \in Range(q) <=> \E i \in 1 .. Len(q) : q[i] = e
           /\ IsInjective(q) <=> \A i, j \in 1 .. Len(q) : q[i] = q[j] => i = j
BY LenProperties DEF Range, IsInjective

\* Removing an entry removes that member and no other.
LEMMA RemoveAtMembers ==
    ASSUME NEW S, NEW q \in Seq(S), NEW k \in 1 .. Len(q)
    PROVE  LET r == RemoveAt(q, k)
           IN  /\ Range(r) \subseteq Range(q)
               /\ Range(q) \ {q[k]} \subseteq Range(r)
               /\ IsInjective(q) => IsInjective(r) /\ Range(r) = Range(q) \ {q[k]}
<1> DEFINE r == RemoveAt(q, k)
<1>1. /\ r \in Seq(S)
      /\ Len(r) = Len(q) - 1
      /\ \A i \in 1 .. Len(q) - 1 : r[i] = IF i < k THEN q[i] ELSE q[i + 1]
    BY RemoveAtParts
<1> HIDE DEF r
<1>2. Len(q) \in Nat /\ Len(r) \in Nat
    BY <1>1, Members
<1>3. ASSUME NEW e \in Range(r)
      PROVE  \E i \in 1 .. Len(q) : i # k /\ q[i] = e
    <2>1. PICK i \in 1 .. Len(r) : r[i] = e
        BY <1>1, <1>3, Members
    <2>2. CASE i < k
        BY <1>1, <1>2, <2>1, <2>2
    <2>3. CASE ~(i < k)
        <3>1. i + 1 \in 1 .. Len(q) /\ i + 1 # k /\ q[i + 1] = e
            BY <1>1, <1>2, <2>1, <2>3
        <3> QED BY <3>1
    <2> QED BY <2>2, <2>3
<1>4. Range(r) \subseteq Range(q)
    BY <1>3, Members
<1>5. ASSUME NEW e \in Range(q), e # q[k]
      PROVE  e \in Range(r)
    <2>1. PICK i \in 1 .. Len(q) : q[i] = e
        BY <1>5, Members
    <2>2. CASE i < k
        <3>1. i \in 1 .. Len(r) /\ r[i] = e
            BY <1>1, <1>2, <2>1, <2>2
        <3> QED BY <1>1, <3>1, Members
    <2>3. CASE ~(i < k)
        <3>1. i - 1 \in 1 .. Len(r) /\ r[i - 1] = e
            BY <1>1, <1>2, <1>5, <2>1, <2>3
        <3> QED BY <1>1, <3>1, Members
    <2> QED BY <2>2, <2>3
<1>6. ASSUME IsInjective(q)
      PROVE  IsInjective(r) /\ q[k] \notin Range(r)
    <2>1. \A i, j \in 1 .. Len(q) : q[i] = q[j] => i = j
        BY <1>6, Members
    <2>2. \A i, j \in 1 .. Len(r) : r[i] = r[j] => i = j
        BY <1>1, <1>2, <2>1
    <2>3. q[k] \notin Range(r)
        BY <1>3, <2>1
    <2> QED BY <1>1, <2>2, <2>3, Members
<1>7. Range(q) \ {q[k]} \subseteq Range(r)
    BY <1>5
<1>8. IsInjective(q) => IsInjective(r) /\ Range(r) = Range(q) \ {q[k]}
    BY <1>4, <1>6, <1>7
<1> QED BY <1>4, <1>7, <1>8 DEF r

LEMMA RemoveFirstMembers ==
    ASSUME NEW q \in Seq(Task), NEW t
    PROVE  LET r == RemoveFirst(q, t)
           IN  /\ r \in Seq(Task)
               /\ Range(r) \subseteq Range(q)
               /\ Range(q) \ {t} \subseteq Range(r)
               /\ IsInjective(q) => IsInjective(r) /\ Range(r) = Range(q) \ {t}
<1>1. CASE t \notin Range(q) /\ RemoveFirst(q, t) = q
    BY <1>1
<1>2. CASE \E k \in 1 .. Len(q) : q[k] = t /\ RemoveFirst(q, t) = RemoveAt(q, k)
    BY <1>2, RemoveAtMembers, RemoveFirstType
<1> QED BY <1>1, <1>2, RemoveFirstParts

\* Taking the head is removing the first entry.
LEMMA TailIsRemoval ==
    ASSUME NEW q \in Seq(Task), q # <<>>
    PROVE  Tail(q) = RemoveAt(q, 1) /\ Head(q) = q[1] /\ 1 \in 1 .. Len(q)
<1>1. /\ Tail(q) \in Seq(Task) /\ Len(Tail(q)) = Len(q) - 1
      /\ \A i \in 1 .. Len(Tail(q)) : Tail(q)[i] = q[i + 1]
    BY HeadTailProperties
<1>2. Len(q) \in Nat \ {0}
    BY EmptySeq
<1>3. /\ RemoveAt(q, 1) \in Seq(Task) /\ Len(RemoveAt(q, 1)) = Len(q) - 1
      /\ \A i \in 1 .. Len(q) - 1 :
             RemoveAt(q, 1)[i] = IF i < 1 THEN q[i] ELSE q[i + 1]
    BY <1>2, RemoveAtParts
<1>4. Tail(q) = RemoveAt(q, 1)
    <2>1. \A i \in 1 .. Len(Tail(q)) : Tail(q)[i] = RemoveAt(q, 1)[i]
        BY <1>1, <1>2, <1>3
    <2> QED BY <1>1, <1>3, <2>1, SeqEqual
<1> QED BY <1>2, <1>4

LEMMA TailMembers ==
    ASSUME NEW q \in Seq(Task), q # <<>>
    PROVE  /\ Tail(q) \in Seq(Task)
           /\ Head(q) \in Range(q)
           /\ Range(Tail(q)) \subseteq Range(q)
           /\ Range(q) \ {Head(q)} \subseteq Range(Tail(q))
           /\ IsInjective(q) => /\ IsInjective(Tail(q))
                                /\ Range(Tail(q)) = Range(q) \ {Head(q)}
<1>1. Head(q) \in Range(q)
    BY TailIsRemoval, Members
<1>2. /\ Range(RemoveAt(q, 1)) \subseteq Range(q)
      /\ Range(q) \ {q[1]} \subseteq Range(RemoveAt(q, 1))
      /\ IsInjective(q) => /\ IsInjective(RemoveAt(q, 1))
                           /\ Range(RemoveAt(q, 1)) = Range(q) \ {q[1]}
    BY TailIsRemoval, RemoveAtMembers
<1>3. Tail(q) \in Seq(Task)
    BY HeadTailProperties
<1> QED BY <1>1, <1>2, <1>3, TailIsRemoval

\* What is inserted is a member, beside those that were.
LEMMA InsertAtMembers ==
    ASSUME NEW S, NEW q \in Seq(S), NEW e \in S, NEW n \in 0 .. Len(q)
    PROVE  LET r == InsertAt(q, n + 1, e)
           IN  /\ Range(r) = Range(q) \cup {e}
               /\ IsInjective(q) /\ e \notin Range(q) => IsInjective(r)
<1> DEFINE r == InsertAt(q, n + 1, e)
<1>0. r \in Seq(S) /\ Inserted(r, q, n, e)
    BY InsertAtParts
<1> HIDE DEF r
<1>1. /\ r \in Seq(S)
      /\ Len(r) = Len(q) + 1
      /\ \A i \in 1 .. Len(q) + 1 :
             r[i] = IF i <= n THEN q[i] ELSE IF i = n + 1 THEN e ELSE q[i - 1]
    BY <1>0 DEF Inserted
<1>2. Len(q) \in Nat /\ Len(r) \in Nat
    BY <1>1, Members
<1>3. ASSUME NEW x \in Range(r) PROVE x \in Range(q) \cup {e}
    <2>1. PICK i \in 1 .. Len(r) : r[i] = x
        BY <1>1, <1>3, Members
    <2>2. CASE i = n + 1
        BY <1>1, <1>2, <2>1, <2>2
    <2>3. CASE i # n + 1
        <3>1. \E j \in 1 .. Len(q) : q[j] = x
            BY <1>1, <1>2, <2>1, <2>3
        <3> QED BY <3>1, Members
    <2> QED BY <2>2, <2>3
<1>4. ASSUME NEW x \in Range(q) PROVE x \in Range(r)
    <2>1. PICK i \in 1 .. Len(q) : q[i] = x
        BY <1>4, Members
    <2>2. CASE i <= n
        <3>1. i \in 1 .. Len(r) /\ r[i] = x
            BY <1>1, <1>2, <2>1, <2>2
        <3> QED BY <1>1, <3>1, Members
    <2>3. CASE ~(i <= n)
        <3>1. i + 1 \in 1 .. Len(r) /\ r[i + 1] = x
            BY <1>1, <1>2, <2>1, <2>3
        <3> QED BY <1>1, <3>1, Members
    <2> QED BY <2>2, <2>3
<1>5. e \in Range(r)
    <2>1. n + 1 \in 1 .. Len(r) /\ r[n + 1] = e
        BY <1>1, <1>2
    <2> QED BY <1>1, <2>1, Members
<1>6. ASSUME IsInjective(q), e \notin Range(q) PROVE IsInjective(r)
    <2>1. /\ \A i, j \in 1 .. Len(q) : q[i] = q[j] => i = j
          /\ \A i \in 1 .. Len(q) : q[i] # e
        BY <1>6, Members
    <2>2. ASSUME NEW i \in 1 .. Len(r), NEW j \in 1 .. Len(r), r[i] = r[j]
          PROVE  i = j
        <3> DEFINE at(k) == IF k <= n THEN k ELSE k - 1
        <3>1. \A k \in 1 .. Len(r) : k # n + 1 => at(k) \in 1 .. Len(q) /\ r[k] = q[at(k)]
            BY <1>1, <1>2
        <3>2. r[n + 1] = e
            BY <1>1, <1>2
        <3>3. CASE i = n + 1 \/ j = n + 1
            <4>1. ASSUME NEW k \in 1 .. Len(r), k # n + 1 PROVE r[k] # e
                <5>1. at(k) \in 1 .. Len(q) /\ r[k] = q[at(k)]
                    BY <3>1, <4>1
                <5> HIDE DEF at
                <5> QED BY <2>1, <5>1
            <4> QED BY <2>2, <3>2, <3>3, <4>1
        <3>4. CASE i # n + 1 /\ j # n + 1
            <4>1. at(i) = at(j)
                <5>1. /\ at(i) \in 1 .. Len(q) /\ at(j) \in 1 .. Len(q)
                      /\ r[i] = q[at(i)] /\ r[j] = q[at(j)]
                    BY <3>1, <3>4
                <5> HIDE DEF at
                <5> QED BY <2>1, <2>2, <5>1
            <4> QED BY <1>1, <1>2, <3>4, <4>1
        <3> QED BY <3>3, <3>4
    <2> QED BY <1>1, <2>2, Members
<1>7. Range(r) = Range(q) \cup {e}
    BY <1>3, <1>4, <1>5
<1> QED BY <1>6, <1>7 DEF r

LEMMA InsertMembers ==
    ASSUME NEW q \in Seq(Task), NEW t \in Task
    PROVE  /\ Range(Insert(q, t)) = Range(q) \cup {t}
           /\ IsInjective(q) /\ t \notin Range(q) => IsInjective(Insert(q, t))
<1>1. Cardinality(NoLater(q, t)) \in 0 .. Len(q)
    BY InsertPlace
<1> QED BY <1>1, InsertAtMembers DEF Insert

LEMMA AppendMembers ==
    ASSUME NEW q \in Seq(Task), NEW t \in Task
    PROVE  /\ Range(Append(q, t)) = Range(q) \cup {t}
           /\ IsInjective(q) /\ t \notin Range(q) => IsInjective(Append(q, t))
<1> DEFINE r == Append(q, t)
<1>1. /\ r \in Seq(Task) /\ Len(r) = Len(q) + 1
      /\ \A i \in 1 .. Len(q) : r[i] = q[i]
      /\ r[Len(q) + 1] = t
    BY AppendProperties
<1> HIDE DEF r
<1>2. Len(q) \in Nat
    BY Members
<1>3. \A e : e \in Range(r) <=> e \in Range(q) \/ e = t
    <2>1. \A e : (\E i \in 1 .. Len(r) : r[i] = e) <=> (\E i \in 1 .. Len(q) : q[i] = e) \/ e = t
        BY <1>1, <1>2
    <2> QED BY <1>1, <2>1, Members
<1>4. ASSUME IsInjective(q), t \notin Range(q) PROVE IsInjective(r)
    <2>1. /\ \A i, j \in 1 .. Len(q) : q[i] = q[j] => i = j
          /\ \A i \in 1 .. Len(q) : q[i] # t
        BY <1>4, Members
    <2>2. \A i, j \in 1 .. Len(r) : r[i] = r[j] => i = j
        BY <1>1, <1>2, <2>1
    <2> QED BY <1>1, <2>2, Members
<1> QED BY <1>3, <1>4 DEF r

(***************************************************************************)
(* Oldest first                                                            *)
(***************************************************************************)
Sorted(q) == \A i, j \in 1 .. Len(q) : i < j => q[i] <= q[j]

\* A set of positions that has all positions below each of its own is a prefix.
LEMMA PrefixIsCounted ==
    ASSUME NEW N \in Nat, NEW S \in SUBSET (1 .. N),
           \A i \in S, j \in 1 .. N : j <= i => j \in S
    PROVE  S = 1 .. Cardinality(S)
<1> DEFINE C == (1 .. N + 1) \ S
<1>1. C \in SUBSET Nat /\ N + 1 \in C
    OBVIOUS
<1>2. Min(C) \in C /\ \A y \in C : Min(C) <= y
    <2> HIDE DEF C
    <2> QED BY <1>1, LeastNatural
<1>3. PICK k \in 1 .. N + 1 : k \notin S /\ \A y \in C : k <= y
    BY <1>2
<1>4. S = 1 .. k - 1
    <2>1. ASSUME NEW i \in S PROVE i < k
        <3>1. k <= i => k \in S
            BY <1>3
        <3> QED BY <1>3, <3>1
    <2>2. ASSUME NEW i \in 1 .. k - 1 PROVE i \in S
        BY <1>3
    <2>3. S \subseteq 1 .. k - 1
        BY <1>3, <2>1
    <2>4. 1 .. k - 1 \subseteq S
        BY <2>2
    <2> QED BY <2>3, <2>4
<1>5. Cardinality(1 .. k - 1) = k - 1
    <2> DEFINE m == k - 1
    <2>1. m \in Nat
        BY <1>3
    <2> HIDE DEF m
    <2>2. Cardinality(1 .. m) = m
        BY <2>1, FS_Interval
    <2> QED BY <2>2 DEF m
<1> QED BY <1>4, <1>5

\* binaryInsert with taskComparator keeps a list oldest first.
LEMMA InsertSorted ==
    ASSUME NEW q \in Seq(Task), NEW t \in Task, Sorted(q)
    PROVE  Sorted(Insert(q, t))
<1> DEFINE n == Cardinality(NoLater(q, t))
           r == InsertAt(q, n + 1, t)
<1>1. Len(q) \in Nat /\ DOMAIN q = 1 .. Len(q) /\ n \in 0 .. Len(q)
    BY Members, InsertPlace
<1>2. \A i \in 1 .. Len(q) : q[i] \in Int
    <2>1. \A i \in 1 .. Len(q) : q[i] \in Task
        BY ElementOfSeq
    <2> QED BY <2>1 DEF Task
<1>3. t \in Int
    BY DEF Task
<1>4. \A i \in 1 .. Len(q) : q[i] <= t <=> i <= n
    <2>1. \A i \in NoLater(q, t), j \in 1 .. Len(q) : j <= i => j \in NoLater(q, t)
        BY <1>1, <1>2, <1>3 DEF NoLater, Sorted
    <2>2. NoLater(q, t) \in SUBSET (1 .. Len(q))
        BY <1>1 DEF NoLater
    <2>3. NoLater(q, t) = 1 .. n
        BY <1>1, <2>1, <2>2, PrefixIsCounted
    <2>4. \A i \in 1 .. Len(q) : i \in NoLater(q, t) <=> q[i] <= t
        BY <1>1 DEF NoLater
    <2> HIDE DEF n
    <2> QED BY <1>1, <2>3, <2>4
<1>6. Insert(q, t) = r
    BY DEF Insert
<1> HIDE DEF n
<1>0. r \in Seq(Task) /\ Inserted(r, q, n, t)
    BY <1>1, InsertAtParts
<1> HIDE DEF r
<1>5. /\ r \in Seq(Task)
      /\ Len(r) = Len(q) + 1
      /\ \A i \in 1 .. Len(q) + 1 :
             r[i] = IF i <= n THEN q[i] ELSE IF i = n + 1 THEN t ELSE q[i - 1]
    BY <1>0 DEF Inserted
<1>7. ASSUME NEW i \in 1 .. Len(r), NEW j \in 1 .. Len(r), i < j
      PROVE  r[i] <= r[j]
    <2>1. CASE i = n + 1
        <3>1. r[i] = t /\ r[j] = q[j - 1] /\ j - 1 \in 1 .. Len(q) /\ ~(j - 1 <= n)
            BY <1>1, <1>5, <1>7, <2>1
        <3> QED BY <1>2, <1>3, <1>4, <3>1
    <2>2. CASE j = n + 1
        <3>1. r[j] = t /\ r[i] = q[i] /\ i \in 1 .. Len(q) /\ i <= n
            BY <1>1, <1>5, <1>7, <2>2
        <3> QED BY <1>4, <3>1
    <2>3. CASE i # n + 1 /\ j # n + 1
        <3> DEFINE at(k) == IF k <= n THEN k ELSE k - 1
        <3>1. \A k \in 1 .. Len(r) : k # n + 1 => at(k) \in 1 .. Len(q) /\ r[k] = q[at(k)]
            BY <1>1, <1>5
        <3>2. at(i) < at(j)
            BY <1>1, <1>5, <1>7, <2>3
        <3> QED BY <2>3, <3>1, <3>2 DEF Sorted
    <2> QED BY <2>1, <2>2, <2>3
<1> QED BY <1>6, <1>7 DEF Sorted

\* Removing keeps the order.
LEMMA RemoveAtSorted ==
    ASSUME NEW q \in Seq(Task), NEW k \in 1 .. Len(q), Sorted(q)
    PROVE  Sorted(RemoveAt(q, k))
<1> DEFINE r == RemoveAt(q, k)
           at(i) == IF i < k THEN i ELSE i + 1
<1>1. Len(q) \in Nat /\ Len(r) = Len(q) - 1 /\ \A i \in 1 .. Len(r) : r[i] = q[at(i)]
    <2>1. /\ Len(r) = Len(q) - 1
          /\ \A i \in 1 .. Len(q) - 1 : r[i] = IF i < k THEN q[i] ELSE q[i + 1]
        BY RemoveAtParts
    <2>2. Len(q) \in Nat
        BY Members
    <2> HIDE DEF r
    <2> QED BY <2>1, <2>2
<1> HIDE DEF r
<1>2. \A i, j \in 1 .. Len(r) :
          i < j => at(i) \in 1 .. Len(q) /\ at(j) \in 1 .. Len(q) /\ at(i) < at(j)
    BY <1>1
<1> QED BY <1>1, <1>2 DEF Sorted, r

LEMMA RemoveFirstSorted ==
    ASSUME NEW q \in Seq(Task), NEW t, Sorted(q)
    PROVE  Sorted(RemoveFirst(q, t))
BY RemoveFirstParts, RemoveAtSorted

LEMMA TailSorted ==
    ASSUME NEW q \in Seq(Task), q # <<>>, Sorted(q)
    PROVE  Sorted(Tail(q))
BY TailIsRemoval, RemoveAtSorted

\* A theft takes a task of a domain's list out of the lists and starts to
\* assign it; the rest of the frame but its loops stays.
LEMMA Theft ==
    ASSUME TypeInv, NEW f \in Frame, StealTask(f)
    PROVE  \E t \in Task, d \in Domain, fr \in FrameState :
               /\ t \in Range(domainQueue[d])
               /\ RemoveFromQueues(t)
               /\ Set(f, fr)
               /\ fr.pc = "route" /\ fr.task = t /\ fr.by = frames[f].by
               /\ fr.hired = frames[f].hired
<1> DEFINE fr == frames[f]
<1>1. PICK i \in Loot(f) :
          LET t == domainQueue[Head(fr.victims)][i]
          IN  /\ RemoveFromQueues(t)
              /\ Set(f, [fr EXCEPT !.pc = "route", !.task = t,
                                   !.dom = Head(fr.thieves),
                                   !.thieves = Tail(@), !.left = @ - 1])
    BY Zenon DEF StealTask
<1>2. fr \in FrameState
    BY DEF TypeInv, TypeOK
<1>3. /\ fr.victims \in Seq(Domain) /\ fr.victims # <<>>
      /\ i \in DOMAIN domainQueue[Head(fr.victims)]
    BY <1>1, <1>2 DEF Loot, FrameState
<1> DEFINE d == Head(fr.victims)
           t == domainQueue[d][i]
           next == [fr EXCEPT !.pc = "route", !.task = t, !.dom = Head(fr.thieves),
                              !.thieves = Tail(@), !.left = @ - 1]
<1>4. d \in Domain /\ domainQueue[d] \in Seq(Task)
    BY <1>3, HeadTailProperties DEF TypeInv, TypeOK
<1>5. t \in Task /\ t \in Range(domainQueue[d])
    BY <1>3, <1>4, Members, ElementOfSeq
<1>6. Set(f, next) /\ RemoveFromQueues(t)
    BY <1>1
<1>7. next \in FrameState
    <2>1. TypeInv'
        BY StealType
    <2>2. frames' = [frames EXCEPT ![f] = next] /\ frames \in [Frame -> FrameState]
        BY <1>6 DEF Set, TypeInv, TypeOK
    <2> HIDE DEF next
    <2>3. frames'[f] = next
        BY <2>2
    <2> QED BY <2>1, <2>3 DEF TypeInv, TypeOK
<1>8. next.pc = "route" /\ next.task = t /\ next.by = fr.by /\ next.hired = fr.hired
    BY <1>2 DEF FrameState
<1> QED BY <1>4, <1>5, <1>6, <1>7, <1>8

\* What a step may do to a priority list.
QueueMoves(p) ==
    \/ queue'[p] = queue[p]
    \/ \E t \in Task : queue'[p] = Insert(queue[p], t)
    \/ \E t \in Task : queue'[p] = RemoveFirst(queue[p], t)
    \/ queue[p] # <<>> /\ queue'[p] = RemoveFirst(Tail(queue[p]), Head(queue[p]))

LEMMA QueueSteps ==
    ASSUME TypeInv, [Next]_vars, NEW p \in Priority
    PROVE  QueueMoves(p)
<1>1. queue \in [Priority -> Seq(Task)]
    BY DEF TypeInv, TypeOK
<1>2. ASSUME UNCHANGED queue PROVE QueueMoves(p)
    BY <1>2 DEF QueueMoves
<1>3. ASSUME NEW t \in Task, queue' = [queue EXCEPT ![PriorityOf[t]] = Insert(@, t)]
      PROVE  QueueMoves(p)
    BY <1>1, <1>3 DEF QueueMoves
<1>4. ASSUME NEW t \in Task, queue' = [queue EXCEPT ![PriorityOf[t]] = RemoveFirst(@, t)]
      PROVE  QueueMoves(p)
    BY <1>1, <1>4 DEF QueueMoves
<1>5. ASSUME NEW f \in Frame, Resume(f) PROVE QueueMoves(p)
    <2>1. CASE \/ RouteAccepted(f) \/ RouteBreakerOpen(f) \/ Assign(f) \/ Deliver(f)
               \/ PluginRefuses(f) \/ Refused(f) \/ DrainStops(f) \/ StealMovesOn(f)
        BY <1>2, <2>1, Zenon DEF RouteAccepted, RouteBreakerOpen, Assign, Deliver, PluginRefuses,
                          Refused, DrainStops, StealMovesOn, queueVars
    <2>2. ASSUME NEW r \in Priority, Dequeue(f, r) PROVE QueueMoves(p)
        <3>1. /\ queue[r] # <<>>
              /\ queue' = [queue EXCEPT ![r] = RemoveFirst(Tail(@), Head(queue[r]))]
            BY <2>2 DEF Dequeue, Waiting
        <3> QED BY <1>1, <3>1 DEF QueueMoves
    <2>3. CASE StealTask(f)
        <3>1. PICK t \in Task : RemoveFromQueues(t)
            BY <2>3, Theft
        <3> QED BY <1>4, <3>1 DEF RemoveFromQueues
    <2> QED BY <1>5, <2>1, <2>2, <2>3 DEF Resume
<1>6. ASSUME NEW t \in Task, NEW f \in Frame, Report(t, f) \/ SubmitDirect(t, f)
      PROVE  QueueMoves(p)
    <2>1. UNCHANGED queue \/ Enqueue(t)
        BY <1>6, Zenon DEF Report, SubmitDirect, CallbackReport, TaskCompleted, TaskFailedRetry,
                    TaskFailedForGood, EventUnknown, queueVars
    <2> QED BY <1>2, <1>3, <2>1 DEF Enqueue
<1>7. ASSUME NEW t \in Task,
             SubmitQueued(t) \/ CallbackUnknown(t) \/ CancelTask(t) \/ CleanUp(t)
      PROVE  QueueMoves(p)
    <2>1. UNCHANGED queue \/ Enqueue(t) \/ RemoveFromQueues(t)
        BY <1>7, Zenon DEF SubmitQueued, CallbackUnknown, CancelTask, CleanUp, queueVars
    <2> QED BY <1>2, <1>3, <1>4, <2>1 DEF Enqueue, RemoveFromQueues
<1>8. ASSUME NEW f \in Frame, DomainEvent(f) \/ StartStealing(f) PROVE QueueMoves(p)
    BY <1>2, <1>8 DEF DomainEvent, StartStealing, queueVars
<1>9. CASE UNCHANGED vars
    BY <1>2, <1>9 DEF vars
<1> QED BY <1>5, <1>6, <1>7, <1>8, <1>9 DEF Next

OldestInv == TypeInv /\ \A p \in Priority : Sorted(queue[p])

LEMMA OldestStep == OldestInv /\ [Next]_vars => OldestInv'
<1> SUFFICES ASSUME OldestInv, [Next]_vars PROVE OldestInv'
    OBVIOUS
<1>1. TypeInv /\ TypeInv'
    BY TypeStep DEF OldestInv
<1>2. ASSUME NEW p \in Priority PROVE Sorted(queue'[p])
    <2>1. queue[p] \in Seq(Task) /\ Sorted(queue[p])
        BY DEF OldestInv, TypeInv, TypeOK
    <2>2. queue[p] # <<>> => Tail(queue[p]) \in Seq(Task) /\ Sorted(Tail(queue[p]))
        BY <2>1, TailSorted, HeadTailProperties
    <2> QED BY <1>1, <2>1, <2>2, QueueSteps, InsertSorted, RemoveFirstSorted DEF QueueMoves
<1> QED BY <1>1, <1>2 DEF OldestInv, Sorted

LEMMA OldestInit == Init => OldestInv
BY TypeInit, EmptySeq DEF Init, OldestInv, Sorted

\* Every priority list is in the order of creation, also after retries, thefts
\* and cancellations, and for any configuration of the coordinator.
THEOREM OldestFirstAlways == Spec => []OldestFirst
<1>1. OldestInv => OldestFirst
    BY DEF OldestInv, OldestFirst, Sorted, IsSorted
<1> QED BY <1>1, OldestInit, OldestStep, PTL DEF Spec

(***************************************************************************)
(* A queued task is held                                                   *)
(*                                                                         *)
(* When no breaker is open, no domain unhealthy and every task has a       *)
(* domain to go to, a task whose record says "queued" is in its list, or   *)
(* an invocation is assigning it: no assignment is refused.                *)
(***************************************************************************)
NeverRefused == Faults = FALSE /\ \A t \in Task : Candidates(t) # <<>>

Waits(t) == t \in Range(queue[PriorityOf[t]])

Assigns(fr, t) == fr.task = t /\ fr.pc \in {"route", "spawn"}

HeldInv ==
    /\ TypeInv
    /\ \A f \in Frame : frames[f].pc # "refused"
    /\ \A t \in Task : status[t] = "queued" => Waits(t) \/ \E f \in Frame : Assigns(frames[f], t)

\* What Set does to each frame.
LEMMA SetMeans ==
    ASSUME TypeInv, NEW f \in Frame, NEW fr, Set(f, fr)
    PROVE  \A g \in Frame : frames'[g] = IF g = f THEN fr ELSE frames[g]
BY DEF Set, TypeInv, TypeOK

\* Without faults a task with candidates gets a domain.
LEMMA ChosenIsDomain ==
    ASSUME NeverRefused, NEW t \in Task, NEW healthy \in HealthViews, NEW dq,
           NEW d \in Chosen(t, healthy, dq)
    PROVE  d \in Domain
<1> DEFINE c == Candidates(t)
           fit == {i \in DOMAIN c : c[i] \in healthy}
<1>1. healthy = Domain
    BY DEF NeverRefused, HealthViews
<1>2. c \in Seq(Domain) /\ c # <<>>
    BY QueenAssumption DEF Candidates, NeverRefused
<1>3. 1 \in DOMAIN c /\ \A i \in DOMAIN c : c[i] \in Domain
    BY <1>2, EmptySeq, LenProperties, ElementOfSeq
<1>4. fit # {}
    BY <1>1, <1>3
<1>5. d \in {c[i] : i \in {k \in fit : \A j \in fit :
                 \/ Load(c[k], dq) < Load(c[j], dq)
                 \/ Load(c[k], dq) = Load(c[j], dq) /\ k <= j}}
    BY <1>4 DEF Chosen
<1> HIDE DEF c
<1> QED BY <1>3, <1>5

\* The frames that assignments start and return to, as far as they matter here.
LEMMA FrameShapes ==
    /\ NoFrame.pc = "idle" /\ NoFrame.task = NoTask /\ NoFrame.hired = FALSE
    /\ NoFrame.by = "nobody"
    /\ \A p : /\ Draining(p).pc = "drain" /\ Draining(p).task = NoTask
              /\ Draining(p).hired = FALSE /\ Draining(p).by = "queue"
    /\ \A by, t, p, d : /\ Assigning(by, t, p, d).pc = FirstStop(d)
                        /\ Assigning(by, t, p, d).task = t
                        /\ Assigning(by, t, p, d).by = by
                        /\ Assigning(by, t, p, d).dom = d
                        /\ Assigning(by, t, p, d).hired = FALSE
    /\ \A thieves, victims : /\ Looting(thieves, victims).pc = "steal"
                             /\ Looting(thieves, victims).task = NoTask
                             /\ Looting(thieves, victims).by = "steal"
                             /\ Looting(thieves, victims).hired = FALSE
    /\ \A fr \in FrameState : /\ Returned(fr).pc \in {"idle", "drain", "steal"}
                              /\ Returned(fr).task = NoTask
                              /\ Returned(fr).hired \in {FALSE, fr.hired}
                              /\ Returned(fr).pc = "steal" => Returned(fr).by = "steal"
<1>1. /\ NoFrame.pc = "idle" /\ NoFrame.task = NoTask /\ NoFrame.hired = FALSE
      /\ NoFrame.by = "nobody"
    BY DEF NoFrame
<1>2. ASSUME NEW p
      PROVE  /\ Draining(p).pc = "drain" /\ Draining(p).task = NoTask
             /\ Draining(p).hired = FALSE /\ Draining(p).by = "queue"
    BY DEF NoFrame, Draining
<1>3. ASSUME NEW by, NEW t, NEW p, NEW d
      PROVE  /\ Assigning(by, t, p, d).pc = FirstStop(d)
             /\ Assigning(by, t, p, d).task = t
             /\ Assigning(by, t, p, d).by = by
             /\ Assigning(by, t, p, d).dom = d
             /\ Assigning(by, t, p, d).hired = FALSE
    BY DEF Assigning
<1>4. ASSUME NEW thieves, NEW victims
      PROVE  /\ Looting(thieves, victims).pc = "steal"
             /\ Looting(thieves, victims).task = NoTask
             /\ Looting(thieves, victims).by = "steal"
             /\ Looting(thieves, victims).hired = FALSE
    BY DEF Looting
<1>5. ASSUME NEW fr \in FrameState
      PROVE  /\ Returned(fr).pc \in {"idle", "drain", "steal"}
             /\ Returned(fr).task = NoTask
             /\ Returned(fr).hired \in {FALSE, fr.hired}
             /\ Returned(fr).pc = "steal" => Returned(fr).by = "steal"
    <2>1. CASE fr.by = "queue"
        BY <1>2, <2>1 DEF Returned
    <2>2. CASE fr.by = "steal"
        <3>1. Returned(fr) = [fr EXCEPT !.pc = "steal", !.task = NoTask, !.dom = NoDomain]
            BY <2>2 DEF Returned
        <3> QED BY <2>2, <3>1 DEF FrameState
    <2>3. CASE fr.by \notin {"queue", "steal"}
        BY <1>1, <2>3 DEF Returned
    <2> QED BY <2>1, <2>2, <2>3
<1> QED BY <1>1, <1>2, <1>3, <1>4, <1>5

\* The frames of StealMovesOn.
LEMMA MovesOnShape ==
    ASSUME TypeInv, NEW f \in Frame, StealMovesOn(f)
    PROVE  \E fr : /\ Set(f, fr) /\ fr.pc \in {"idle", "steal"}
                   /\ fr.task \in {NoTask, frames[f].task}
                   /\ fr.hired \in {FALSE, frames[f].hired}
                   /\ fr.pc = "idle" => fr.task = NoTask
                   /\ fr.pc = "steal" => fr.by = frames[f].by
<1> DEFINE fr == frames[f]
<1>1. fr \in FrameState /\ fr.pc = "steal"
    BY Zenon DEF TypeInv, TypeOK, StealMovesOn
<1>2. CASE Set(f, NoFrame)
    BY <1>2, FrameShapes
<1>3. CASE Set(f, [fr EXCEPT !.victims = Tail(@), !.left = Share(fr.victims[2], domainQueue)])
    <2> DEFINE n == Share(fr.victims[2], domainQueue)
               next == [fr EXCEPT !.victims = Tail(@), !.left = n]
    <2>1. Set(f, next)
        BY <1>3
    <2> HIDE DEF n
    <2>2. next.pc = "steal" /\ next.task = fr.task /\ next.hired = fr.hired /\ next.by = fr.by
        BY <1>1 DEF FrameState
    <2> QED BY <2>1, <2>2
<1> QED BY <1>2, <1>3, Zenon DEF StealMovesOn

\* Entering a list keeps the others in theirs.
LEMMA EnqueueKeeps ==
    ASSUME TypeInv, NEW t \in Task, Enqueue(t)
    PROVE  Waits(t)' /\ \A u \in Task : Waits(u) => Waits(u)'
<1>1. PriorityOf \in [Task -> Priority] /\ queue \in [Priority -> Seq(Task)]
    BY QueenAssumption DEF TypeInv, TypeOK
<1>2. queue' = [queue EXCEPT ![PriorityOf[t]] = Insert(@, t)]
    BY DEF Enqueue
<1>3. Range(Insert(queue[PriorityOf[t]], t)) = Range(queue[PriorityOf[t]]) \cup {t}
    BY <1>1, InsertMembers
<1> QED BY <1>1, <1>2, <1>3 DEF Waits

\* Leaving the lists takes nobody else along.
LEMMA RemoveKeeps ==
    ASSUME TypeInv, NEW t \in Task, RemoveFromQueues(t)
    PROVE  \A u \in Task \ {t} : Waits(u) => Waits(u)'
<1>1. PriorityOf \in [Task -> Priority] /\ queue \in [Priority -> Seq(Task)]
    BY QueenAssumption DEF TypeInv, TypeOK
<1>2. queue' = [queue EXCEPT ![PriorityOf[t]] = RemoveFirst(@, t)]
    BY DEF RemoveFromQueues
<1>3. Range(queue[PriorityOf[t]]) \ {t} \subseteq Range(RemoveFirst(queue[PriorityOf[t]], t))
    BY <1>1, RemoveFirstMembers
<1> QED BY <1>1, <1>2, <1>3 DEF Waits

\* A pass takes the head of a list and starts to assign it.
LEMMA DequeueKeeps ==
    ASSUME TypeInv, NEW f \in Frame, NEW p \in Priority, Dequeue(f, p)
    PROVE  \E t \in Task, healthy \in HealthViews : \E d \in Chosen(t, healthy, domainQueue') :
               /\ t \in Range(queue[p])
               /\ Set(f, Assigning("queue", t, p, d))
               /\ domainQueue' = WithoutInDomains(t)
               /\ queue[p] # <<>> /\ t = Head(queue[p])
               /\ queue' = [queue EXCEPT ![p] = RemoveFirst(Tail(@), t)]
               /\ \A u \in Task \ {t} : Waits(u) => Waits(u)'
<1> DEFINE t == Head(queue[p])
<1>1. PriorityOf \in [Task -> Priority] /\ queue \in [Priority -> Seq(Task)]
    BY QueenAssumption DEF TypeInv, TypeOK
<1>2. /\ queue[p] # <<>>
      /\ queue' = [queue EXCEPT ![p] = RemoveFirst(Tail(@), t)]
      /\ domainQueue' = WithoutInDomains(t)
    BY DEF Dequeue, Waiting
<1>3. PICK healthy \in HealthViews : \E d \in Chosen(t, healthy, domainQueue') :
          Set(f, Assigning("queue", t, p, d))
    BY DEF Dequeue
<1>4. /\ Tail(queue[p]) \in Seq(Task) /\ t \in Range(queue[p]) /\ t \in Task
      /\ Range(queue[p]) \ {t} \subseteq Range(Tail(queue[p]))
    BY <1>1, <1>2, TailMembers, HeadTailProperties
<1>5. Range(Tail(queue[p])) \ {t} \subseteq Range(RemoveFirst(Tail(queue[p]), t))
    BY <1>4, RemoveFirstMembers
<1>6. \A u \in Task \ {t} : Waits(u) => Waits(u)'
    BY <1>1, <1>2, <1>4, <1>5 DEF Waits
<1> QED BY <1>2, <1>3, <1>4, <1>6

\* A step of one frame loses no queued task, if it takes over what it removes.
LEMMA HeldByFrame ==
    ASSUME HeldInv, TypeInv', NEW f \in Frame, NEW fr, Set(f, fr), fr.pc # "refused",
           \A u \in Task :
               /\ status'[u] = "queued" => status[u] = "queued" \/ Waits(u)'
               /\ status'[u] = "queued" /\ Assigns(frames[f], u) => Assigns(fr, u) \/ Waits(u)'
               /\ Waits(u) => Waits(u)' \/ Assigns(fr, u)
    PROVE  HeldInv'
<1>1. \A g \in Frame : frames'[g] = IF g = f THEN fr ELSE frames[g]
    BY SetMeans DEF HeldInv
<1>2. \A g \in Frame : frames'[g].pc # "refused"
    BY <1>1 DEF HeldInv
<1>3. ASSUME NEW u \in Task, status'[u] = "queued", ~Waits(u)'
      PROVE  \E g \in Frame : Assigns(frames'[g], u)
    <2>1. CASE Waits(u)
        BY <1>1, <1>3, <2>1
    <2>2. CASE ~Waits(u)
        <3>1. PICK g \in Frame : Assigns(frames[g], u)
            BY <1>3, <2>2 DEF HeldInv
        <3>2. Assigns(frames'[g], u)
            BY <1>1, <1>3, <3>1
        <3> QED BY <3>2
    <2> QED BY <2>1, <2>2
<1> QED BY <1>2, <1>3 DEF HeldInv, Assigns

LEMMA HeldAsBefore ==
    ASSUME HeldInv, TypeInv', UNCHANGED frames,
           \A u \in Task :
               status'[u] = "queued" => (status[u] = "queued" /\ (Waits(u) => Waits(u)')) \/ Waits(u)'
    PROVE  HeldInv'
BY DEF HeldInv, Assigns

LEMMA HeldResume ==
    ASSUME HeldInv, TypeInv', NeverRefused, NEW f \in Frame, Resume(f)
    PROVE  HeldInv'
<1>1. TypeInv /\ frames[f] \in FrameState /\ InRange(frames[f])
    BY DEF HeldInv, TypeInv, TypeOK, FramesInRange
<1>2. UNCHANGED queue => \A u \in Task : Waits(u)' = Waits(u)
    BY DEF Waits
<1>3. CASE RouteAccepted(f)
    <2> DEFINE hired == PoolHasRoom
               fr == [frames[f] EXCEPT !.pc = "spawn", !.hired = hired]
    <2>1. frames[f].pc = "route" /\ Set(f, fr) /\ UNCHANGED status /\ UNCHANGED queue
        BY <1>3, Zenon DEF RouteAccepted, tasksVars, queueVars
    <2> HIDE DEF hired
    <2>2. fr.pc = "spawn" /\ fr.task = frames[f].task
        BY <1>1 DEF FrameState
    <2> HIDE DEF fr
    <2> QED BY <1>2, <2>1, <2>2, HeldByFrame DEF Assigns
<1>4. ~RouteBreakerOpen(f)
    BY DEF NeverRefused, RouteBreakerOpen
<1>5. CASE Assign(f)
    <2> DEFINE fr == [frames[f] EXCEPT !.pc = "announce", !.hired = FALSE]
               t == frames[f].task
    <2>1. /\ frames[f].pc = "spawn" /\ Set(f, fr) /\ UNCHANGED queue
          /\ status' = [status EXCEPT ![t] = "running"]
        BY <1>5, Zenon DEF Assign, queueVars
    <2>2. fr.pc = "announce"
        BY <1>1 DEF FrameState
    <2>3. \A u \in Task : status'[u] = IF u = t THEN "running" ELSE status[u]
        BY <1>1, <2>1 DEF TypeInv, TypeOK
    <2> HIDE DEF fr
    <2> QED BY <1>2, <2>1, <2>2, <2>3, HeldByFrame DEF Assigns
<1>6. CASE Deliver(f)
    <2>1. /\ frames[f].pc = "announce" /\ Set(f, Returned(frames[f]))
          /\ UNCHANGED status /\ UNCHANGED queue
        BY <1>6, Zenon DEF Deliver, tasksVars, queueVars
    <2> QED BY <1>1, <1>2, <2>1, FrameShapes, HeldByFrame DEF Assigns
<1>7. CASE PluginRefuses(f)
    <2> DEFINE fr == [frames[f] EXCEPT !.pc = "rejected"]
               t == frames[f].task
    <2>1. /\ frames[f].pc = "announce" /\ Set(f, fr) /\ UNCHANGED queue
          /\ status' = [status EXCEPT ![t] = "failed"]
        BY <1>7, Zenon DEF PluginRefuses, queueVars
    <2>2. fr.pc = "rejected"
        BY <1>1 DEF FrameState
    <2>3. \A u \in Task : status'[u] = "queued" => status[u] = "queued"
        BY <1>1, <2>1 DEF TypeInv, TypeOK
    <2> HIDE DEF fr
    <2> QED BY <1>2, <2>1, <2>2, <2>3, HeldByFrame DEF Assigns
<1>8. CASE Refused(f)
    <2>1. /\ frames[f].pc \in {"refused", "rejected"} /\ Set(f, Returned(frames[f]))
          /\ UNCHANGED status /\ UNCHANGED queue
        BY <1>8, Zenon DEF Refused, tasksVars, queueVars
    <2> QED BY <1>1, <1>2, <2>1, FrameShapes, HeldByFrame DEF Assigns
<1>9. CASE DrainStops(f)
    <2>1. frames[f].pc = "drain" /\ Set(f, NoFrame) /\ UNCHANGED status /\ UNCHANGED queue
        BY <1>9, Zenon DEF DrainStops, tasksVars, queueVars
    <2> QED BY <1>2, <2>1, FrameShapes, HeldByFrame DEF Assigns
<1>10. ASSUME NEW p \in Priority, Dequeue(f, p) PROVE HeldInv'
    <2>1. frames[f].pc = "drain" /\ UNCHANGED status
        BY <1>10 DEF Dequeue, tasksVars
    <2>2. PICK t \in Task, healthy \in HealthViews : \E d \in Chosen(t, healthy, domainQueue') :
              /\ Set(f, Assigning("queue", t, p, d))
              /\ \A u \in Task \ {t} : Waits(u) => Waits(u)'
        BY <1>1, <1>10, DequeueKeeps
    <2>3. PICK d \in Chosen(t, healthy, domainQueue') : Set(f, Assigning("queue", t, p, d))
        BY <2>2
    <2>4. Assigning("queue", t, p, d).pc = "route" /\ Assigning("queue", t, p, d).task = t
        <3>1. d \in Domain
            BY <2>3, ChosenIsDomain
        <3> QED BY <3>1, FrameShapes, QueenAssumption DEF FirstStop
    <2> QED BY <2>1, <2>2, <2>3, <2>4, HeldByFrame DEF Assigns
<1>11. CASE StealTask(f)
    <2>1. frames[f].pc = "steal" /\ UNCHANGED status
        BY <1>11, Zenon DEF StealTask, tasksVars
    <2>2. PICK t \in Task, d \in Domain, fr \in FrameState :
              /\ RemoveFromQueues(t) /\ Set(f, fr) /\ fr.pc = "route" /\ fr.task = t
        BY <1>1, <1>11, Theft
    <2> QED BY <1>1, <2>1, <2>2, RemoveKeeps, HeldByFrame DEF Assigns
<1>12. CASE StealMovesOn(f)
    <2>1. frames[f].pc = "steal" /\ UNCHANGED status /\ UNCHANGED queue
        BY <1>12, Zenon DEF StealMovesOn, tasksVars, queueVars
    <2>2. PICK fr : Set(f, fr) /\ fr.pc \in {"idle", "steal"}
        BY <1>1, <1>12, MovesOnShape
    <2> QED BY <1>2, <2>1, <2>2, HeldByFrame DEF Assigns
<1> QED BY <1>3, <1>4, <1>5, <1>6, <1>7, <1>8, <1>9, <1>10, <1>11, <1>12 DEF Resume

LEMMA HeldStep == NeverRefused /\ HeldInv /\ [Next]_vars => HeldInv'
<1> SUFFICES ASSUME NeverRefused, HeldInv, [Next]_vars PROVE HeldInv'
    OBVIOUS
<1>1. TypeInv /\ TypeInv' /\ status \in [Task -> Status]
    BY TypeStep DEF HeldInv, TypeInv, TypeOK
<1>2. UNCHANGED queue => \A u \in Task : Waits(u)' = Waits(u)
    BY DEF Waits
<1>3. ASSUME NEW f \in Frame, Resume(f) PROVE HeldInv'
    BY <1>1, <1>3, HeldResume
<1>4. ASSUME NEW t \in Task, NEW f \in Frame, Report(t, f) PROVE HeldInv'
    <2>2. Idle(f) /\ Set(f, Draining(0))
        BY <1>4, Zenon DEF Report, CallbackReport, TaskCompleted, TaskFailedRetry,
                           TaskFailedForGood, EventUnknown, EventTaken
    <2>3. CASE TaskFailedRetry(t, f)
        <3>1. Waits(t)' /\ \A u \in Task : Waits(u) => Waits(u)'
            BY <1>1, <2>3, EnqueueKeeps DEF TaskFailedRetry
        <3>2. \A u \in Task : status'[u] = "queued" => u = t \/ status[u] = "queued"
            BY <1>1, <2>3 DEF TaskFailedRetry
        <3> QED BY <1>1, <2>2, <3>1, <3>2, FrameShapes, HeldByFrame DEF Assigns, Idle
    <2>4. CASE ~TaskFailedRetry(t, f)
        <3>1. \/ UNCHANGED status
              \/ \E s \in Finished : status' = [status EXCEPT ![t] = s]
            BY <1>4, <2>4, Zenon DEF Report, CallbackReport, TaskCompleted, TaskFailedForGood,
                              EventUnknown, tasksVars, Outcomes, Finished
        <3>2. UNCHANGED queue
            BY <1>4, <2>4, Zenon DEF Report, CallbackReport, TaskCompleted, TaskFailedForGood,
                              EventUnknown, queueVars
        <3>3. \A u \in Task : status'[u] = "queued" => status[u] = "queued"
            BY <1>1, <3>1 DEF Finished
        <3> QED BY <1>1, <1>2, <2>2, <3>2, <3>3, FrameShapes, HeldByFrame DEF Assigns, Idle
    <2> QED BY <2>3, <2>4
<1>5. ASSUME NEW t \in Task, NEW f \in Frame, SubmitDirect(t, f) PROVE HeldInv'
    <2>1. Idle(f) /\ UNCHANGED status /\ UNCHANGED queue
        BY <1>5 DEF SubmitDirect, tasksVars, queueVars
    <2>2. PICK healthy \in HealthViews : \E d \in Chosen(t, healthy, domainQueue) :
              Set(f, Assigning("submit", t, 0, d))
        BY <1>5 DEF SubmitDirect
    <2>3. PICK d \in Chosen(t, healthy, domainQueue) : Set(f, Assigning("submit", t, 0, d))
        BY <2>2
    <2>4. Assigning("submit", t, 0, d).pc = "route"
        <3>1. d \in Domain
            BY <2>3, ChosenIsDomain
        <3> QED BY <3>1, FrameShapes, QueenAssumption DEF FirstStop
    <2> QED BY <1>1, <1>2, <2>1, <2>3, <2>4, HeldByFrame DEF Assigns, Idle
<1>6. ASSUME NEW t \in Task, SubmitQueued(t) PROVE HeldInv'
    <2>1. Waits(t)' /\ \A u \in Task : Waits(u) => Waits(u)'
        BY <1>1, <1>6, EnqueueKeeps DEF SubmitQueued
    <2>2. \A u \in Task : status'[u] = "queued" => u = t \/ status[u] = "queued"
        BY <1>1, <1>6 DEF SubmitQueued
    <2> QED BY <1>1, <1>6, <2>1, <2>2, HeldAsBefore DEF SubmitQueued
<1>7. ASSUME NEW t \in Task, CancelTask(t) PROVE HeldInv'
    <2>1. \A u \in Task \ {t} : Waits(u) => Waits(u)'
        BY <1>1, <1>7, RemoveKeeps DEF CancelTask
    <2>2. \A u \in Task : status'[u] = "queued" => u # t /\ status[u] = "queued"
        BY <1>1, <1>7 DEF CancelTask
    <2> QED BY <1>1, <1>7, <2>1, <2>2, HeldAsBefore DEF CancelTask
<1>8. ASSUME NEW t \in Task, CallbackUnknown(t) \/ CleanUp(t) PROVE HeldInv'
    <2>1. \A u \in Task : status'[u] = "queued" => status[u] = "queued"
        BY <1>1, <1>8 DEF CallbackUnknown, CleanUp, tasksVars
    <2> QED BY <1>1, <1>2, <1>8, <2>1, HeldAsBefore DEF CallbackUnknown, CleanUp, queueVars
<1>9. ASSUME NEW f \in Frame, DomainEvent(f) \/ StartStealing(f) PROVE HeldInv'
    <2>1. Idle(f) /\ UNCHANGED status /\ UNCHANGED queue
        BY <1>9 DEF DomainEvent, StartStealing, tasksVars, queueVars
    <2>2. PICK fr : Set(f, fr) /\ fr.pc \in {"drain", "steal"}
        BY <1>9, FrameShapes DEF DomainEvent, StartStealing
    <2> QED BY <1>1, <1>2, <2>1, <2>2, HeldByFrame DEF Assigns, Idle
<1>10. CASE UNCHANGED vars
    BY <1>1, <1>2, <1>10, HeldAsBefore DEF vars
<1> QED BY <1>3, <1>4, <1>5, <1>6, <1>7, <1>8, <1>9, <1>10 DEF Next

LEMMA HeldInit == Init => HeldInv
BY TypeInit, FrameShapes DEF Init, HeldInv

\* No task is dropped from the queue: what is recorded as queued waits in its list
\* or is being assigned, also when tasks are stolen, cancelled, retried, refused
\* by plugins or run twice.
THEOREM QueuedIsHeldAlways ==
    ASSUME NeverRefused
    PROVE  Spec => []QueuedIsHeld
<1>1. HeldInv => QueuedIsHeld
    <2> SUFFICES ASSUME HeldInv, NEW t \in Task, status[t] = "queued"
                 PROVE  Queued(t) \/ InFlight(t)
        BY DEF QueuedIsHeld
    <2>1. queue[PriorityOf[t]] \in Seq(Task)
        BY QueenAssumption DEF HeldInv, TypeInv, TypeOK
    <2>2. Waits(t) => Queued(t)
        BY <2>1, Members DEF Waits, Queued
    <2> QED BY <2>2 DEF HeldInv, InFlight, Assigns
<1> QED BY <1>1, HeldInit, HeldStep, PTL DEF Spec

(***************************************************************************)
(* The agent pool                                                          *)
(***************************************************************************)
Working == {t \in Task : agent[t] = "running"}
Hired   == {f \in Frame : frames[f].hired}

AgentInv == TypeInv /\ Cardinality(Working) + Cardinality(Hired) + orphans <= MaxAgents

LEMMA AgentCounts ==
    /\ IsFiniteSet(Working) /\ Cardinality(Working) \in Nat
    /\ IsFiniteSet(Hired) /\ Cardinality(Hired) \in Nat
    /\ LiveAgents = Cardinality(Working) + Cardinality(Hired) + orphans
    /\ MaxAgents \in Nat
<1>1. IsFiniteSet(Task) /\ IsFiniteSet(Frame)
    BY QueenAssumption, FS_Interval DEF Task
<1>2. Working \in SUBSET Task /\ Hired \in SUBSET Frame
    BY DEF Working, Hired
<1>3. LiveAgents = Cardinality(Working) + Cardinality(Hired) + orphans
    BY DEF LiveAgents, Working, Hired
<1>4. MaxAgents \in Nat
    BY QueenAssumption
<1> QED BY <1>1, <1>2, <1>3, <1>4, FS_Subset, FS_CardinalityType

\* The agents under way after a frame is replaced.
LEMMA HiredAfter ==
    ASSUME AgentInv, NEW f \in Frame, NEW fr, Set(f, fr)
    PROVE  /\ Hired' \subseteq Hired \cup {f}
           /\ fr.hired = FALSE => Hired' \subseteq Hired \ {f}
           /\ fr.hired = frames[f].hired => Hired' \subseteq Hired
<1>1. \A g \in Frame : frames'[g] = IF g = f THEN fr ELSE frames[g]
    BY SetMeans DEF AgentInv
<1>2. Hired' = {g \in Frame : frames'[g].hired}
    BY DEF Hired
<1>3. \A g \in Hired' : g \in Frame /\ (g # f => g \in Hired) /\ (g = f => fr.hired)
    BY <1>1, <1>2 DEF Hired
<1>4. fr.hired = frames[f].hired /\ fr.hired => f \in Hired
    BY DEF Hired
<1> QED BY <1>3, <1>4

\* A step that starts no agent.
LEMMA NoNewAgent ==
    ASSUME AgentInv, TypeInv', Hired' \subseteq Hired, Working' \subseteq Working,
           orphans' = orphans
    PROVE  AgentInv'
<1>1. Cardinality(Hired') \in Nat /\ Cardinality(Hired') <= Cardinality(Hired)
    BY AgentCounts, CountSubset
<1>2. Cardinality(Working') \in Nat /\ Cardinality(Working') <= Cardinality(Working)
    BY AgentCounts, CountSubset
<1>3. orphans \in Nat
    BY DEF AgentInv, TypeInv, TypeOK
<1> QED BY <1>1, <1>2, <1>3, AgentCounts DEF AgentInv

\* A record is dropped: its agent, if at work, goes on without one.
LEMMA AgentOrphaned ==
    ASSUME AgentInv, TypeInv', NEW t \in Task, Working' \subseteq Working \ {t},
           Hired' \subseteq Hired,
           orphans' = IF agent[t] = "running" THEN orphans + 1 ELSE orphans
    PROVE  AgentInv'
<1>1. CASE agent[t] = "running"
    <2>1. t \in Working
        BY <1>1 DEF Working
    <2>2. Cardinality(Working') \in Nat /\ Cardinality(Working') <= Cardinality(Working) - 1
        BY <2>1, AgentCounts, CountLess
    <2>3. Cardinality(Hired') \in Nat /\ Cardinality(Hired') <= Cardinality(Hired)
        BY AgentCounts, CountSubset
    <2>4. orphans' = orphans + 1 /\ orphans \in Nat
        BY <1>1 DEF AgentInv, TypeInv, TypeOK
    <2> QED BY <2>2, <2>3, <2>4, AgentCounts DEF AgentInv
<1>2. CASE agent[t] # "running"
    <2>1. Working' \subseteq Working
        OBVIOUS
    <2> QED BY <1>2, <2>1, NoNewAgent
<1> QED BY <1>1, <1>2

\* The record is written: it names the agent that was hired for it; one that it
\* named before goes on without a record.
LEMMA AgentAssign ==
    ASSUME AgentInv, TypeInv', NEW f \in Frame, Assign(f)
    PROVE  AgentInv'
<1> DEFINE t == frames[f].task
           fr == [frames[f] EXCEPT !.pc = "announce", !.hired = FALSE]
           o == IF agent[t] = "running" THEN orphans + 1 ELSE orphans
<1>1. /\ frames[f] \in FrameState /\ frames[f].pc = "spawn" /\ t \in Task
      /\ agent \in [Task -> {"none", "running", "stopped"}] /\ orphans \in Nat
    BY Zenon DEF AgentInv, TypeInv, TypeOK, FramesInRange, InRange, Assign
<1>2. /\ agent' = [agent EXCEPT ![t] = IF frames[f].hired THEN "running" ELSE "none"]
      /\ orphans' = o
      /\ Set(f, fr)
    BY Zenon DEF Assign
<1>3. fr.hired = FALSE
    BY <1>1 DEF FrameState
<1>4. Hired' \subseteq Hired \ {f}
    <2> HIDE DEF fr
    <2> QED BY <1>2, <1>3, HiredAfter
<1>5. CASE frames[f].hired
    <2>1. f \in Hired
        BY <1>5 DEF Hired
    <2>2. Cardinality(Hired') \in Nat /\ Cardinality(Hired') <= Cardinality(Hired) - 1
        BY <1>4, <2>1, AgentCounts, CountLess
    <2>3. Working' \subseteq Working \cup {t}
        BY <1>1, <1>2 DEF Working
    <2>4. CASE agent[t] = "running"
        <3>1. Working' \subseteq Working
            BY <2>3, <2>4, <1>1 DEF Working
        <3>2. Cardinality(Working') \in Nat /\ Cardinality(Working') <= Cardinality(Working)
            BY <3>1, AgentCounts, CountSubset
        <3> QED BY <1>1, <1>2, <2>2, <2>4, <3>2, AgentCounts DEF AgentInv
    <2>5. CASE agent[t] # "running"
        <3>1. Cardinality(Working') \in Nat /\ Cardinality(Working') <= Cardinality(Working) + 1
            BY <2>3, AgentCounts, CountMore
        <3> QED BY <1>1, <1>2, <2>2, <2>5, <3>1, AgentCounts DEF AgentInv
    <2> QED BY <2>4, <2>5
<1>6. CASE ~frames[f].hired
    <2>1. Working' \subseteq Working \ {t}
        BY <1>1, <1>2, <1>6 DEF Working
    <2>2. Hired' \subseteq Hired
        BY <1>4
    <2> QED BY <1>1, <1>2, <2>1, <2>2, AgentOrphaned
<1> QED BY <1>5, <1>6

\* An agent is only started while the pool has room.
LEMMA AgentHired ==
    ASSUME AgentInv, TypeInv', NEW f \in Frame, RouteAccepted(f)
    PROVE  AgentInv'
<1> DEFINE hired == PoolHasRoom
           fr == [frames[f] EXCEPT !.pc = "spawn", !.hired = hired]
<1>1. Set(f, fr) /\ UNCHANGED agent /\ UNCHANGED orphans /\ frames[f] \in FrameState
    BY Zenon DEF RouteAccepted, tasksVars, AgentInv, TypeInv, TypeOK
<1>2. hired \in BOOLEAN
    BY DEF PoolHasRoom
<1>3. fr.hired = hired
    <2> HIDE DEF hired
    <2> QED BY <1>1 DEF FrameState
<1>4. Working' = Working
    BY <1>1 DEF Working
<1>5. CASE hired
    <2>1. LiveAgents < MaxAgents
        BY <1>5 DEF PoolHasRoom
    <2>2. Hired' \subseteq Hired \cup {f}
        <3> HIDE DEF fr
        <3> QED BY <1>1, HiredAfter
    <2>3. Cardinality(Hired') \in Nat /\ Cardinality(Hired') <= Cardinality(Hired) + 1
        BY <2>2, AgentCounts, CountMore
    <2>4. orphans \in Nat /\ orphans' = orphans
        BY <1>1 DEF AgentInv, TypeInv, TypeOK
    <2> QED BY <1>4, <2>1, <2>3, <2>4, AgentCounts DEF AgentInv
<1>6. CASE ~hired
    <2>1. fr.hired = FALSE
        BY <1>2, <1>3, <1>6
    <2>2. Hired' \subseteq Hired
        <3> HIDE DEF fr
        <3> QED BY <1>1, <2>1, HiredAfter
    <2> QED BY <1>1, <1>4, <2>2, NoNewAgent
<1> QED BY <1>5, <1>6

LEMMA AgentStep == AgentInv /\ [Next]_vars => AgentInv'
<1> SUFFICES ASSUME AgentInv, [Next]_vars PROVE AgentInv'
    OBVIOUS
<1>1. /\ TypeInv /\ TypeInv' /\ frames \in [Frame -> FrameState]
      /\ agent \in [Task -> {"none", "running", "stopped"}]
    BY TypeStep DEF AgentInv, TypeInv, TypeOK
<1>2. /\ UNCHANGED agent => Working' \subseteq Working
      /\ UNCHANGED frames => Hired' \subseteq Hired
    BY DEF Working, Hired
<1>3. ASSUME NEW f \in Frame, NEW fr, Set(f, fr), fr.hired \in {FALSE, frames[f].hired},
             Working' \subseteq Working, UNCHANGED orphans
      PROVE  AgentInv'
    <2>1. Hired' \subseteq Hired
        BY <1>3, HiredAfter
    <2> QED BY <1>1, <1>3, <2>1, NoNewAgent
<1>4. ASSUME NEW f \in Frame, Resume(f) PROVE AgentInv'
    <2>1. CASE RouteAccepted(f)
        BY <1>1, <2>1, AgentHired
    <2>2. CASE Assign(f)
        BY <1>1, <2>2, AgentAssign
    <2>3. CASE StealTask(f)
        <3>1. UNCHANGED <<agent, orphans>>
            BY <2>3, Zenon DEF StealTask, tasksVars
        <3>2. PICK fr \in FrameState : Set(f, fr) /\ fr.hired = frames[f].hired
            BY <1>1, <2>3, Theft
        <3> QED BY <1>2, <1>3, <3>1, <3>2
    <2>4. CASE StealMovesOn(f)
        <3>1. UNCHANGED <<agent, orphans>>
            BY <2>4, Zenon DEF StealMovesOn, tasksVars
        <3>2. PICK fr : Set(f, fr) /\ fr.hired \in {FALSE, frames[f].hired}
            BY <1>1, <2>4, MovesOnShape
        <3> QED BY <1>2, <1>3, <3>1, <3>2
    <2>5. CASE RouteBreakerOpen(f)
        <3> DEFINE fr == [frames[f] EXCEPT !.pc = "refused"]
        <3>1. Set(f, fr) /\ UNCHANGED <<agent, orphans>>
            BY <2>5, Zenon DEF RouteBreakerOpen, tasksVars
        <3>2. fr.hired = frames[f].hired
            BY <1>1 DEF FrameState
        <3> HIDE DEF fr
        <3> QED BY <1>2, <1>3, <3>1, <3>2
    <2>6. CASE PluginRefuses(f)
        <3> DEFINE fr == [frames[f] EXCEPT !.pc = "rejected"]
        <3>1. Set(f, fr) /\ UNCHANGED <<agent, orphans>>
            BY <2>6, Zenon DEF PluginRefuses
        <3>2. fr.hired = frames[f].hired
            BY <1>1 DEF FrameState
        <3> HIDE DEF fr
        <3> QED BY <1>2, <1>3, <3>1, <3>2
    <2>7. CASE Deliver(f) \/ Refused(f)
        <3>1. Set(f, Returned(frames[f])) /\ UNCHANGED <<agent, orphans>>
            BY <2>7, Zenon DEF Deliver, Refused, tasksVars
        <3>2. Returned(frames[f]).hired \in {FALSE, frames[f].hired}
            BY <1>1, FrameShapes
        <3> QED BY <1>2, <1>3, <3>1, <3>2
    <2>8. CASE DrainStops(f)
        BY <1>2, <1>3, <2>8, FrameShapes DEF DrainStops, tasksVars
    <2>9. ASSUME NEW p \in Priority, Dequeue(f, p) PROVE AgentInv'
        <3>1. PICK d : Set(f, Assigning("queue", Head(queue[p]), p, d))
            BY <2>9 DEF Dequeue
        <3>2. Assigning("queue", Head(queue[p]), p, d).hired = FALSE
            BY FrameShapes
        <3>3. UNCHANGED <<agent, orphans>>
            BY <2>9 DEF Dequeue, tasksVars
        <3> QED BY <1>2, <1>3, <3>1, <3>2, <3>3
    <2> QED BY <1>4, <2>1, <2>2, <2>3, <2>4, <2>5, <2>6, <2>7, <2>8, <2>9 DEF Resume
<1>5. ASSUME NEW t \in Task, NEW f \in Frame, Report(t, f) \/ SubmitDirect(t, f)
      PROVE  AgentInv'
    <2>1. UNCHANGED agent \/ StopAgent(t)
        BY <1>5, Zenon DEF Report, CallbackReport, TaskCompleted, TaskFailedRetry,
                           TaskFailedForGood, EventUnknown, SubmitDirect, tasksVars
    <2>2. Working' \subseteq Working
        BY <1>1, <1>2, <2>1 DEF StopAgent, Working
    <2>3. UNCHANGED orphans
        BY <1>5, Zenon DEF Report, CallbackReport, TaskCompleted, TaskFailedRetry,
                           TaskFailedForGood, EventUnknown, SubmitDirect, tasksVars
    <2>4. PICK fr : Set(f, fr) /\ fr.hired = FALSE
        <3>1. Report(t, f) => Set(f, Draining(0))
            BY Zenon DEF Report, CallbackReport, TaskCompleted, TaskFailedRetry,
                         TaskFailedForGood, EventUnknown, EventTaken
        <3>2. SubmitDirect(t, f) => \E d : Set(f, Assigning("submit", t, 0, d))
            BY DEF SubmitDirect
        <3>3. /\ Draining(0).hired = FALSE
              /\ \A d : Assigning("submit", t, 0, d).hired = FALSE
            BY FrameShapes
        <3> QED BY <1>5, <3>1, <3>2, <3>3
    <2> QED BY <1>3, <2>2, <2>3, <2>4
<1>6. ASSUME NEW t \in Task, SubmitQueued(t) \/ CallbackUnknown(t) \/ CancelTask(t)
      PROVE  AgentInv'
    <2>1. Working' \subseteq Working
        BY <1>1, <1>6 DEF SubmitQueued, CallbackUnknown, CancelTask, StopAgent, tasksVars, Working
    <2>2. UNCHANGED frames /\ UNCHANGED orphans
        BY <1>6 DEF SubmitQueued, CallbackUnknown, CancelTask, tasksVars
    <2> QED BY <1>1, <1>2, <2>1, <2>2, NoNewAgent
<1>7. ASSUME NEW t \in Task, CleanUp(t) PROVE AgentInv'
    <2>1. Working' \subseteq Working \ {t}
        BY <1>1, <1>7 DEF CleanUp, Working
    <2> QED BY <1>1, <1>2, <1>7, <2>1, AgentOrphaned DEF CleanUp
<1>8. ASSUME NEW f \in Frame, DomainEvent(f) \/ StartStealing(f) PROVE AgentInv'
    <2>1. PICK fr : Set(f, fr) /\ fr.hired = FALSE
        BY <1>8, FrameShapes DEF DomainEvent, StartStealing
    <2> QED BY <1>2, <1>3, <1>8, <2>1 DEF DomainEvent, StartStealing, tasksVars
<1>9. CASE UNCHANGED vars
    BY <1>1, <1>2, <1>9, NoNewAgent DEF vars
<1> QED BY <1>4, <1>5, <1>6, <1>7, <1>8, <1>9 DEF Next

LEMMA AgentInit == Init => AgentInv
<1> SUFFICES ASSUME Init PROVE AgentInv
    OBVIOUS
<1>1. Working = {} /\ Hired = {}
    BY FrameShapes DEF Init, Working, Hired
<1> QED BY <1>1, TypeInit, FS_EmptySet, QueenAssumption DEF Init, AgentInv

\* The pool's limit is never exceeded, in any configuration: the agents of the
\* execution records, those spawned for a record still to be written, and those
\* whose record was overwritten or cleaned up, are MaxAgents at most.
THEOREM AgentLimitHolds == Spec => []AgentLimit
<1>1. AgentInv => AgentLimit
    BY AgentCounts DEF AgentInv, AgentLimit
<1> QED BY <1>1, AgentInit, AgentStep, PTL DEF Spec
=============================================================================
