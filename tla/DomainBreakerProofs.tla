------------------------ MODULE DomainBreakerProofs -------------------------
(***************************************************************************)
(* Proofs about DomainBreaker: its type invariant, that a closed breaker   *)
(* has fewer failures than the threshold, and that breakers without timers *)
(* implement TimedBreaker, for every number of domains, every              *)
(* configuration and every graph of cascade targets.                       *)
(***************************************************************************)
EXTENDS DomainBreaker, FiniteSetTheorems, SequenceTheorems, TLAPS

(***************************************************************************)
(* The inductive invariant                                                 *)
(***************************************************************************)
\* What a record of breaker b satisfies: beyond its type, successes are counted
\* only while it is half-open, and a closed one has not failed too often.
Good(b, r) ==
    /\ r \in Record
    /\ r.since <= ResetTimeout[b[1]]
    /\ r.successes < SuccessThreshold[b[1]]
    /\ r.state # "half-open" => r.successes = 0
    /\ r.state = "closed" => Len(r.failures) < FailureThreshold[b[1]]

AllGood ==
    /\ breaker \in [Breaker -> Record]
    /\ \A b \in Breaker : Good(b, breaker[b])

\* a breaker that no configureBreaker has created yet is new and unused
Future(b) == b[2] > version[b[1]]

FutureIsNew ==
    \A b \in Breaker : Future(b) => breaker[b].state = "closed" /\ calls[b] = 0

CountersOK ==
    /\ version \in [Domain -> Version]
    /\ calls \in [Breaker -> Nat]
    /\ tasks \in [Domain -> Nat]
    /\ healed \in BOOLEAN
    /\ forced \subseteq Domain

Inv == AllGood /\ FutureIsNew /\ CountersOK

\* The configuration of a breaker is that of its domain.
LEMMA ConfigOf ==
    ASSUME NEW b \in Breaker
    PROVE  /\ b[1] \in Domain
           /\ FailureThreshold[b[1]] \in Nat \ {0}
           /\ ResetTimeout[b[1]] \in Nat \ {0}
           /\ SuccessThreshold[b[1]] \in Nat \ {0}
           /\ FailureWindow[b[1]] \in Nat \ {0}
<1>1. b[1] \in Domain
    BY DEF Breaker
<1> QED BY <1>1, BreakerAssumption

\* The registry always holds one of the domain's breakers, and never a future one.
LEMMA CurrentIsBreaker ==
    ASSUME CountersOK, NEW d \in Domain
    PROVE  /\ Current(d) \in Breaker
           /\ Current(d)[1] = d
           /\ Current(d)[2] = version[d]
           /\ ~Future(Current(d))
<1>1. version[d] \in Version
    BY DEF CountersOK
<1>2. Current(d) \in Breaker /\ Current(d)[1] = d /\ Current(d)[2] = version[d]
    BY <1>1 DEF Current, Breaker
<1>3. version[d] \in Int
    BY <1>1, BreakerAssumption DEF Version
<1> QED BY <1>2, <1>3 DEF Future

\* getState keeps a record good.
LEMMA SeenIsGood ==
    ASSUME AllGood, NEW b \in Breaker
    PROVE  Good(b, Seen(b))
<1>1. Good(b, breaker[b]) /\ SuccessThreshold[b[1]] \in Nat \ {0}
    BY ConfigOf DEF AllGood
<1>2. CASE Expired(b)
    BY <1>1, <1>2 DEF Seen, HalfOpen, Good, Record, BreakerState, Expired
<1>3. CASE ~Expired(b)
    BY <1>1, <1>3 DEF Seen
<1> QED BY <1>2, <1>3

\* An opened record is good, whatever the one it comes from was.
LEMMA OpenedIsGood ==
    ASSUME NEW b \in Breaker, NEW r, r.failures \in Seq(Nat)
    PROVE  Good(b, Opened(r))
    BY ConfigOf DEF Good, Opened, Record, BreakerState

LEMMA ClosedIsGood ==
    ASSUME NEW b \in Breaker, NEW r
    PROVE  Good(b, Closed(r))
<1>1. << >> \in Seq(Nat) /\ Len(<< >>) = 0
    BY EmptySeq
<1> QED BY <1>1, ConfigOf DEF Good, Closed, Record, BreakerState

\* cleanOldFailures keeps a list of ages.
LEMMA RecentIsList ==
    ASSUME AllGood, NEW b \in Breaker
    PROVE  Recent(b) \in Seq(Nat)
<1> DEFINE q == Append(breaker[b].failures, 0)
           n == Len(q)
           k == Cardinality(Young(q, b))
<1>1. q \in Seq(Nat)
    <2>1. breaker[b].failures \in Seq(Nat)
        BY DEF AllGood, Record
    <2> QED BY <2>1, AppendProperties
<1>2. n \in Nat /\ DOMAIN q = 1 .. n /\ Young(q, b) \subseteq 1 .. n
    BY <1>1, LenProperties DEF Young
<1>3. \A i \in 1 .. n : q[i] \in Nat
    BY <1>1, <1>2, ElementOfSeq
<1>4. k \in 0 .. n
    <2> DEFINE Y == Young(q, b)
    <2>1. n \in Nat
        BY <1>2
    <2>2. Y \subseteq 1 .. n
        BY <1>2
    <2> HIDE DEF n, Y, q
    <2>3. IsFiniteSet(1 .. n) /\ Cardinality(1 .. n) = n
        BY <2>1, FS_Interval
    <2>4. Cardinality(Y) <= n /\ Cardinality(Y) \in Nat
        BY <2>2, <2>3, FS_Subset, FS_CardinalityType
    <2> QED BY <2>1, <2>4 DEF Y
<1>5. SubSeq(q, n - k + 1, n) \in Seq(Nat)
    <2> HIDE DEF q, n, k
    <2>1. n = Len(q)
        BY DEF n
    <2> QED BY <1>1, <1>2, <1>3, <1>4, <2>1, SubSeqProperties
<1> QED BY <1>5 DEF Recent

LEMMA FailedIsRecord ==
    ASSUME AllGood, NEW b \in Breaker
    PROVE  /\ Failed(b) \in Record
           /\ Failed(b).failures = Recent(b)
           /\ Failed(b).state = Seen(b).state
           /\ Failed(b).since = Seen(b).since
           /\ Failed(b).successes = Seen(b).successes
<1>1. Seen(b) \in Record
    BY SeenIsGood DEF Good
<1> QED BY <1>1, RecentIsList DEF Failed, Record
(***************************************************************************)
(* The three ways a step changes the breakers                              *)
(***************************************************************************)
LEMMA PutKeepsGood ==
    ASSUME AllGood, NEW b \in Breaker, NEW r, Good(b, r), Put(b, r)
    PROVE  AllGood'
<1>1. breaker' = [breaker EXCEPT ![b] = r] /\ r \in Record
    BY DEF Put, Good
<1>2. breaker' \in [Breaker -> Record]
    BY <1>1 DEF AllGood
<1>3. ASSUME NEW c \in Breaker
      PROVE  Good(c, breaker'[c])
    <2>1. CASE c = b
        BY <1>1, <2>1 DEF AllGood
    <2>2. CASE c # b
        BY <1>1, <2>2 DEF AllGood
    <2> QED BY <2>1, <2>2
<1> QED BY <1>2, <1>3 DEF AllGood, Good

LEMMA OpenKeepsGood ==
    ASSUME AllGood, NEW b \in Breaker, NEW r, r.failures \in Seq(Nat), Open(b, r)
    PROVE  AllGood'
<1>1. ASSUME NEW c \in Breaker
      PROVE  Good(c, breaker'[c])
    <2>1. CASE c = b
        BY <2>1, OpenedIsGood DEF Open
    <2>2. CASE c # b /\ c \in Reached(b)
        <3>1. Seen(c).failures \in Seq(Nat)
            BY SeenIsGood DEF Good, Record
        <3> QED BY <2>2, <3>1, OpenedIsGood DEF Open
    <2>3. CASE c # b /\ c \notin Reached(b)
        BY <2>3 DEF Open, AllGood
    <2> QED BY <2>1, <2>2, <2>3
<1>2. breaker' \in [Breaker -> Record]
    <2>1. \A c \in Breaker : breaker'[c] \in Record
        BY <1>1 DEF Good
    <2> QED BY <2>1 DEF Open
<1> QED BY <1>1, <1>2 DEF AllGood, Good

\* recordSuccess and recordFailure keep the records good.
LEMMA EndsKeepsGood ==
    ASSUME AllGood, NEW b \in Breaker, Ends(b)
    PROVE  AllGood'
<1>1. Good(b, Seen(b))
    BY SeenIsGood
<1>2. CASE RecordSuccess(b)
    <2> DEFINE r == Seen(b)
               counted == [state |-> "half-open", failures |-> r.failures,
                           since |-> r.since, successes |-> r.successes + 1]
    <2>1. CASE r.state # "half-open"
        <3>1. Put(b, r)
            BY <1>2, <2>1 DEF RecordSuccess
        <3> QED BY <1>1, <3>1, PutKeepsGood
    <2>2. CASE r.state = "half-open" /\ r.successes + 1 >= SuccessThreshold[b[1]]
        <3>1. Put(b, Closed(r))
            BY <1>2, <2>2 DEF RecordSuccess
        <3> QED BY <3>1, ClosedIsGood, PutKeepsGood
    <2>3. CASE r.state = "half-open" /\ ~(r.successes + 1 >= SuccessThreshold[b[1]])
        <3>1. Put(b, counted)
            BY <1>2, <2>3 DEF RecordSuccess
        <3>2. Good(b, counted)
            <4>1. r.successes \in Nat /\ r.since \in Nat /\ r.failures \in Seq(Nat)
                BY <1>1 DEF Good, Record
            <4>2. r.since <= ResetTimeout[b[1]] /\ SuccessThreshold[b[1]] \in Nat
                BY <1>1, ConfigOf DEF Good
            <4> HIDE DEF r
            <4> QED BY <2>3, <4>1, <4>2 DEF Good, Record, BreakerState
        <3> HIDE DEF counted
        <3> QED BY <3>1, <3>2, PutKeepsGood
    <2> QED BY <2>1, <2>2, <2>3
<1>3. CASE RecordFailure(b)
    <2>1. Failed(b) \in Record /\ Failed(b).failures \in Seq(Nat)
        BY FailedIsRecord DEF Record
    <2>2. CASE Failed(b).state = "half-open" \/ (Failed(b).state = "closed" /\ TooMany(b))
        <3>1. Open(b, Failed(b))
            BY <1>3, <2>2 DEF RecordFailure
        <3> QED BY <2>1, <3>1, OpenKeepsGood
    <2>3. CASE ~(Failed(b).state = "half-open" \/ (Failed(b).state = "closed" /\ TooMany(b)))
        <3>1. Put(b, Failed(b))
            BY <1>3, <2>3 DEF RecordFailure
        <3>2. Len(Recent(b)) \in Nat
            BY RecentIsList, LenProperties
        <3>3. Good(b, Failed(b))
            BY <1>1, <2>1, <2>3, <3>2, FailedIsRecord, ConfigOf DEF Good, TooMany
        <3> QED BY <3>1, <3>3, PutKeepsGood
    <2> QED BY <2>2, <2>3
<1> QED BY <1>2, <1>3 DEF Ends

\* Getting older keeps the records good.
LEMMA OlderIsGood ==
    ASSUME AllGood, NEW b \in Breaker
    PROVE  Good(b, Older(b))
<1> DEFINE r == breaker[b]
           aged == [i \in DOMAIN r.failures |->
                       IF r.failures[i] < FailureWindow[b[1]]
                       THEN r.failures[i] + 1 ELSE r.failures[i]]
<1>1. Good(b, r)
    BY DEF AllGood
<1>2. r.failures \in Seq(Nat)
    BY <1>1 DEF Good, Record
<1>3. aged \in Seq(Nat) /\ Len(aged) = Len(r.failures)
    <2> DEFINE q == r.failures
               n == Len(q)
    <2>1. q \in Seq(Nat)
        BY <1>2
    <2>2. n \in Nat /\ DOMAIN q = 1 .. n /\ \A i \in 1 .. n : q[i] \in Nat
        BY <2>1, LenProperties, ElementOfSeq
    <2>3. FailureWindow[b[1]] \in Nat
        BY ConfigOf
    <2> DEFINE w == FailureWindow[b[1]]
    <2>4. aged = [i \in 1 .. n |-> IF q[i] < w THEN q[i] + 1 ELSE q[i]]
        BY <2>2
    <2> HIDE DEF aged, q, n, w
    <2>5. aged \in [1 .. n -> Nat]
        BY <2>2, <2>3, <2>4 DEF w
    <2>6. aged \in Seq(Nat)
        BY <2>2, <2>5, SeqDef
    <2>7. DOMAIN aged = 1 .. n /\ DOMAIN aged = 1 .. Len(aged) /\ Len(aged) \in Nat
        BY <2>5, <2>6, LenProperties
    <2>8. Len(aged) = n
        BY <2>2, <2>7
    <2> QED BY <2>6, <2>8 DEF q, n
<1> HIDE DEF aged
<1> QED
    <2>1. Older(b) = [state |-> r.state, failures |-> aged,
                      since |-> IF r.state # "closed" /\ r.since < ResetTimeout[b[1]]
                                THEN r.since + 1 ELSE r.since,
                      successes |-> r.successes]
        BY DEF Older, aged
    <2>2. r \in Record /\ ResetTimeout[b[1]] \in Nat
        BY <1>1, ConfigOf DEF Good
    <2> HIDE DEF r
    <2> QED BY <1>1, <1>3, <2>1, <2>2 DEF Good, Record
(***************************************************************************)
(* The invariant                                                           *)
(***************************************************************************)
\* The step changes at most breaker b and breakers the registry holds.
Touches(b) ==
    \A c \in Breaker : c # b /\ (\A d \in Domain : c # Current(d))
                       => breaker'[c] = breaker[c]

\* A cascade only reaches breakers that the registry holds and that would let
\* work through.
LEMMA ReachedAreCurrent ==
    ASSUME CountersOK, NEW b \in Breaker, NEW c \in Reached(b), c # b
    PROVE  Seen(c).state # "open" /\ \E d \in Domain : c = Current(d)
<1> DEFINE S == {b} \cup {x \in Breaker : /\ Seen(x).state # "open"
                                         /\ \E d \in Domain : x = Current(d)}
<1>1. S \in SUBSET Breaker /\ b \in S
    OBVIOUS
<1>2. \A s \in S : Targets(s) \subseteq S
    BY <1>1, CurrentIsBreaker, BreakerAssumption, ConfigOf DEF Targets
<1>3. c \in S
    BY <1>1, <1>2 DEF Reached
<1> QED BY <1>3

LEMMA PutTouches ==
    ASSUME AllGood, NEW b \in Breaker, NEW r, Put(b, r)
    PROVE  Touches(b)
    BY DEF AllGood, Put, Touches

LEMMA OpenTouches ==
    ASSUME CountersOK, NEW b \in Breaker, NEW r, Open(b, r)
    PROVE  Touches(b)
<1>1. ASSUME NEW c \in Breaker, c # b, \A d \in Domain : c # Current(d)
      PROVE  breaker'[c] = breaker[c]
    <2>1. c \notin Reached(b)
        BY <1>1, ReachedAreCurrent
    <2> QED BY <1>1, <2>1 DEF Open
<1> QED BY <1>1 DEF Touches

LEMMA EndsTouches ==
    ASSUME AllGood, CountersOK, NEW b \in Breaker, Ends(b)
    PROVE  Touches(b)
<1>1. CASE RecordSuccess(b)
    <2>1. \E r : Put(b, r)
        BY <1>1 DEF RecordSuccess
    <2> QED BY <2>1, PutTouches
<1>2. CASE RecordFailure(b)
    <2>1. Open(b, Failed(b)) \/ Put(b, Failed(b))
        BY <1>2 DEF RecordFailure
    <2> QED BY <2>1, PutTouches, OpenTouches
<1> QED BY <1>1, <1>2 DEF Ends

\* A step that touches only breakers in use leaves the future ones new.
LEMMA FutureStaysNew ==
    ASSUME FutureIsNew, CountersOK, NEW b \in Breaker, ~Future(b), Touches(b),
           UNCHANGED version,
           \A c \in Breaker : c # b => calls'[c] = calls[c]
    PROVE  FutureIsNew'
<1>1. ASSUME NEW c \in Breaker, c[2] > version[c[1]]
      PROVE  breaker'[c].state = "closed" /\ calls'[c] = 0
    <2>1. c # b /\ \A d \in Domain : c # Current(d)
        BY <1>1, CurrentIsBreaker DEF Future
    <2>2. breaker'[c] = breaker[c]
        BY <2>1 DEF Touches
    <2> QED BY <1>1, <2>1, <2>2 DEF FutureIsNew, Future
<1> QED BY <1>1 DEF FutureIsNew, Future

LEMMA InvInit == Init => Inv
<1> SUFFICES ASSUME Init
             PROVE  Inv
    OBVIOUS
<1>1. \A b \in Breaker : Good(b, Fresh)
    <2>1. << >> \in Seq(Nat) /\ Len(<< >>) = 0
        BY EmptySeq
    <2> QED BY <2>1, ConfigOf DEF Fresh, Good, Record, BreakerState
<1>2. AllGood
    BY <1>1 DEF Init, AllGood, Good
<1>3. FutureIsNew
    BY DEF Init, FutureIsNew, Fresh
<1>4. CountersOK
    <2>1. 0 \in Version
        BY BreakerAssumption DEF Version
    <2>2. healed \in BOOLEAN /\ forced \subseteq Domain
        BY DEF Init
    <2> QED BY <2>1, <2>2 DEF Init, CountersOK
<1> QED BY <1>2, <1>3, <1>4 DEF Inv
\* Every step keeps the invariant.
LEMMA InvStep == Inv /\ [Next]_vars => Inv'
<1> SUFFICES ASSUME Inv, [Next]_vars
             PROVE  Inv'
    OBVIOUS
<1> USE DEF Inv
<1>1. ASSUME NEW d \in Domain, Admit(d) \/ Execute(d)
      PROVE  Inv'
    <2>1. /\ Current(d) \in Breaker /\ ~Future(Current(d))
          /\ Put(Current(d), Seen(Current(d)))
        BY <1>1, CurrentIsBreaker DEF Admit, Execute
    <2>2. AllGood' /\ Touches(Current(d))
        BY <2>1, SeenIsGood, PutKeepsGood, PutTouches
    <2>3. UNCHANGED version /\ \A c \in Breaker : c # Current(d) => calls'[c] = calls[c]
        BY <1>1 DEF Admit, Execute, CountersOK
    <2>4. FutureIsNew'
        BY <2>1, <2>2, <2>3, FutureStaysNew
    <2>5. CountersOK'
        BY <1>1, <2>1 DEF Admit, Execute, CountersOK
    <2> QED BY <2>2, <2>4, <2>5
<1>2. ASSUME NEW d \in Domain, TaskEnds(d)
      PROVE  Inv'
    <2>1. Current(d) \in Breaker /\ ~Future(Current(d)) /\ Ends(Current(d))
        BY <1>2, CurrentIsBreaker DEF TaskEnds
    <2>2. AllGood' /\ Touches(Current(d))
        BY <2>1, EndsKeepsGood, EndsTouches
    <2>3. UNCHANGED <<version, calls, healed, forced>>
        BY <1>2 DEF TaskEnds
    <2>4. FutureIsNew'
        BY <2>1, <2>2, <2>3, FutureStaysNew
    <2>5. tasks' \in [Domain -> Nat]
        BY <1>2 DEF TaskEnds, CountersOK
    <2>6. CountersOK'
        BY <2>3, <2>5 DEF CountersOK
    <2> QED BY <2>2, <2>4, <2>6
<1>3. ASSUME NEW b \in Breaker, CallEnds(b)
      PROVE  Inv'
    <2>1. Ends(b) /\ ~Future(b)
        BY <1>3 DEF CallEnds, FutureIsNew
    <2>2. AllGood' /\ Touches(b)
        BY <2>1, EndsKeepsGood, EndsTouches
    <2>3. /\ UNCHANGED <<version, tasks, healed, forced>>
          /\ \A c \in Breaker : c # b => calls'[c] = calls[c]
          /\ calls' \in [Breaker -> Nat]
        BY <1>3 DEF CallEnds, CountersOK
    <2>4. FutureIsNew'
        BY <2>1, <2>2, <2>3, FutureStaysNew
    <2>5. CountersOK'
        BY <2>3 DEF CountersOK
    <2> QED BY <2>2, <2>4, <2>5
<1>4. ASSUME NEW d \in Domain, Look(d) \/ Reset(d)
      PROVE  Inv'
    <2>1. /\ Current(d) \in Breaker /\ ~Future(Current(d))
          /\ \/ Put(Current(d), Seen(Current(d)))
             \/ Put(Current(d), Closed(breaker[Current(d)]))
        BY <1>4, CurrentIsBreaker DEF Look, Reset
    <2>2. AllGood' /\ Touches(Current(d))
        BY <2>1, SeenIsGood, ClosedIsGood, PutKeepsGood, PutTouches
    <2>3. UNCHANGED <<version, calls, tasks, healed>> /\ forced' \subseteq Domain
        BY <1>4 DEF Look, Reset, CountersOK
    <2>4. FutureIsNew'
        BY <2>1, <2>2, <2>3, FutureStaysNew
    <2>5. CountersOK'
        BY <2>3 DEF CountersOK
    <2> QED BY <2>2, <2>4, <2>5
<1>5. ASSUME NEW d \in Domain, ForceOpen(d)
      PROVE  Inv'
    <2>1. /\ Current(d) \in Breaker /\ ~Future(Current(d))
          /\ \/ UNCHANGED breaker
             \/ Open(Current(d), breaker[Current(d)])
        BY <1>5, CurrentIsBreaker DEF ForceOpen
    <2>2. breaker[Current(d)].failures \in Seq(Nat)
        BY <2>1 DEF AllGood, Record
    <2>3. AllGood'
        BY <2>1, <2>2, OpenKeepsGood DEF AllGood, Good
    <2>4. Touches(Current(d))
        BY <2>1, OpenTouches DEF Touches
    <2>5. UNCHANGED <<version, calls, tasks, healed>> /\ forced' \subseteq Domain
        BY <1>5 DEF ForceOpen, CountersOK
    <2>6. FutureIsNew'
        BY <2>1, <2>4, <2>5, FutureStaysNew
    <2>7. CountersOK'
        BY <2>5 DEF CountersOK
    <2> QED BY <2>3, <2>6, <2>7
<1>6. ASSUME NEW d \in Domain, Configure(d)
      PROVE  Inv'
    <2>1. /\ UNCHANGED <<breaker, calls, tasks, healed>> /\ forced' \subseteq Domain
          /\ version' = [version EXCEPT ![d] = @ + 1] /\ version[d] < MaxVersion
        BY <1>6 DEF Configure, CountersOK
    <2>2. version[d] + 1 \in Version /\ \A e \in Domain : version[e] \in Int
        BY <2>1, BreakerAssumption DEF CountersOK, Version
    <2>3. version' \in [Domain -> Version] /\ \A e \in Domain : version'[e] >= version[e]
        BY <2>1, <2>2 DEF CountersOK
    <2>4. ASSUME NEW b \in Breaker, b[2] > version'[b[1]]
          PROVE  Future(b)
        <3>1. b[2] \in Int /\ b[1] \in Domain
            BY BreakerAssumption DEF Breaker, Version
        <3>2. version'[b[1]] \in Int
            BY <2>3, <3>1, BreakerAssumption DEF Version
        <3> QED BY <2>2, <2>3, <2>4, <3>1, <3>2 DEF Future
    <2>5. FutureIsNew'
        BY <2>1, <2>4 DEF FutureIsNew, Future
    <2>6. CountersOK'
        BY <2>1, <2>3 DEF CountersOK
    <2>7. AllGood'
        BY <2>1 DEF AllGood, Good
    <2> QED BY <2>5, <2>6, <2>7
<1>7. ASSUME Tick
      PROVE  Inv'
    <2>1. breaker' = [b \in Breaker |-> Older(b)] /\ forced' = {}
          /\ UNCHANGED <<version, calls, tasks, healed>>
        BY <1>7 DEF Tick
    <2>2. AllGood'
        BY <2>1, OlderIsGood DEF AllGood, Good
    <2>3. FutureIsNew'
        BY <2>1 DEF FutureIsNew, Future, Older
    <2>4. CountersOK'
        BY <2>1 DEF CountersOK
    <2> QED BY <2>2, <2>3, <2>4
<1>8. CASE Heals \/ UNCHANGED vars
    <2>1. UNCHANGED <<breaker, version, calls, tasks, forced>>
        BY <1>8 DEF Heals, vars
    <2>2. healed' \in BOOLEAN
        BY <1>8 DEF Heals, vars, CountersOK
    <2>3. AllGood' /\ FutureIsNew'
        BY <2>1 DEF AllGood, Good, FutureIsNew, Future
    <2>4. CountersOK'
        BY <2>1, <2>2 DEF CountersOK
    <2> QED BY <2>3, <2>4
<1> QED BY <1>1, <1>2, <1>3, <1>4, <1>5, <1>6, <1>7, <1>8 DEF Next, DomainStep
LEMMA InvAlways == Spec => []Inv
<1>1. Init => Inv
    BY InvInit
<1>2. Inv /\ [Next]_vars => Inv'
    BY InvStep
<1> QED BY <1>1, <1>2, PTL DEF Spec

\* Type correctness: in particular a half-open breaker never holds as many
\* successes as close it, and no clock runs past its timeout.
THEOREM BreakerTypeCorrect == Spec => []TypeOK
<1>1. Inv => TypeOK
    BY DEF Inv, AllGood, Good, CountersOK, TypeOK
<1> QED BY <1>1, InvAlways, PTL

\* No breaker stays closed with failureThreshold failures in its window.
THEOREM ClosedIsQuietAlways == Spec => []ClosedIsQuiet
<1>1. ASSUME Inv, NEW b \in Breaker, breaker[b].state = "closed"
      PROVE  Cardinality(Young(breaker[b].failures, b)) < FailureThreshold[b[1]]
    <2> DEFINE q == breaker[b].failures
               n == Len(q)
               Y == Young(q, b)
    <2>1. q \in Seq(Nat) /\ n < FailureThreshold[b[1]]
        BY <1>1 DEF Inv, AllGood, Good, Record
    <2>2. n \in Nat /\ Y \subseteq 1 .. n
        BY <2>1, LenProperties DEF Young
    <2>3. FailureThreshold[b[1]] \in Nat
        BY ConfigOf
    <2> HIDE DEF n, Y
    <2>4. n \in Nat
        BY <2>2
    <2>5. IsFiniteSet(1 .. n) /\ Cardinality(1 .. n) = n
        BY <2>4, FS_Interval
    <2>6. Cardinality(Y) <= n /\ Cardinality(Y) \in Nat
        BY <2>2, <2>5, FS_Subset, FS_CardinalityType
    <2>7. Cardinality(Y) < FailureThreshold[b[1]]
        BY <2>1, <2>3, <2>4, <2>6
    <2> QED BY <2>7 DEF Y
<1>2. Inv => ClosedIsQuiet
    BY <1>1 DEF ClosedIsQuiet
<1> QED BY <1>2, InvAlways, PTL

(***************************************************************************)
(* Implementation of TimedBreaker                                          *)
(***************************************************************************)
\* What TimedBreaker sees of domain d does not change.
SameView(d) ==
    StateOf(d)' = StateOf(d) /\ WaitOf(d)' = WaitOf(d) /\ StreakOf(d)' = StreakOf(d)

\* The view of a domain depends on the record of its current breaker alone.
LEMMA UntouchedView ==
    ASSUME NEW d \in Domain, UNCHANGED version,
           breaker'[Current(d)] = breaker[Current(d)]
    PROVE  SameView(d)
<1>1. Current(d)' = Current(d)
    BY DEF Current
<1>2. Seen(Current(d))' = Seen(Current(d))
    BY <1>1 DEF Seen, Expired, HalfOpen
<1> QED BY <1>1, <1>2 DEF SameView, StateOf, WaitOf, StreakOf

\* A record that looks the same but for its failures.
LEMMA SameLooks ==
    ASSUME Inv, NEW d \in Domain, UNCHANGED version, NEW r, Put(Current(d), r),
           r.state = Seen(Current(d)).state, r.since = Seen(Current(d)).since,
           r.successes = Seen(Current(d)).successes
    PROVE  \A e \in Domain : SameView(e)
<1> DEFINE c == Current(d)
<1>1. c \in Breaker /\ Current(d)' = c
    BY CurrentIsBreaker DEF Inv, Current
<1>2. breaker'[c] = r
    BY <1>1 DEF Put, Inv, AllGood
<1>3. ~Expired(c)'
    BY <1>1, <1>2 DEF Expired, Seen, HalfOpen
<1>4. Seen(c)' = r
    BY <1>1, <1>2, <1>3 DEF Seen
<1>5. r.since = breaker[c].since
    BY DEF Seen, HalfOpen
<1>6. SameView(d)
    BY <1>1, <1>2, <1>4, <1>5 DEF SameView, StateOf, WaitOf, StreakOf
<1>7. ASSUME NEW e \in Domain, e # d
      PROVE  SameView(e)
    <2>1. Current(e) # c /\ Current(e) \in Breaker
        BY <1>7, CurrentIsBreaker DEF Inv, Current
    <2>2. breaker'[Current(e)] = breaker[Current(e)]
        BY <2>1 DEF Put, Inv, AllGood
    <2> QED BY <2>2, UntouchedView
<1> QED BY <1>6, <1>7

\* Nothing a replaced breaker records is visible, unless it opens.
LEMMA ReplacedLooks ==
    ASSUME Inv, NEW b \in Breaker, \A d \in Domain : b # Current(d),
           UNCHANGED version, NEW r, Put(b, r)
    PROVE  \A e \in Domain : SameView(e)
<1>1. ASSUME NEW e \in Domain
      PROVE  breaker'[Current(e)] = breaker[Current(e)]
    BY <1>1, CurrentIsBreaker DEF Inv, Put, AllGood
<1> QED BY <1>1, UntouchedView

LEMMA SameViewStutters ==
    ASSUME \A e \in Domain : SameView(e)
    PROVE  UNCHANGED Promise!tvars
    BY DEF SameView, Promise!tvars
\* An opening, with its cascade, is one trip of the domains whose breakers it
\* reaches.
LEMMA OpenTrips ==
    ASSUME Inv, NEW b \in Breaker, NEW r, Open(b, r), UNCHANGED version,
           Seen(b).state # "open"
    PROVE  \E S \in SUBSET Domain : Promise!TTrip(S)
<1> DEFINE S == {d \in Domain : Current(d) \in Reached(b)}
<1>1. S \in SUBSET Domain
    OBVIOUS
<1>2. ASSUME NEW d \in S
      PROVE  StateOf(d) # "open"
    BY <1>2, ReachedAreCurrent DEF Inv, StateOf
<1>3. ASSUME NEW d \in S, NEW e \in CascadeTargets[d] \ {d}
      PROVE  e \in S \/ StateOf(e) = "open"
    <2>1. d \in Domain /\ e \in Domain /\ Current(d)[1] = d /\ Current(e) \in Breaker
        BY BreakerAssumption, CurrentIsBreaker DEF Inv
    <2>2. CASE StateOf(e) # "open"
        <3>1. Current(e) \in Targets(Current(d))
            BY <2>1, <2>2 DEF Targets, StateOf
        <3>2. Current(e) \in Reached(b)
            BY <2>1, <3>1 DEF Reached
        <3> QED BY <2>1, <3>2
    <2> QED BY <2>2
<1>4. ASSUME NEW d \in Domain
      PROVE  /\ Current(d)' = Current(d) /\ Current(d) \in Breaker
             /\ Current(d)[1] = d
    BY CurrentIsBreaker DEF Inv, Current
<1>5. ASSUME NEW d \in S
      PROVE  StateOf(d)' = "open" /\ WaitOf(d)' = ResetTimeout[d] /\ StreakOf(d)' = 0
    <2> DEFINE c == Current(d)
    <2>1. c' = c /\ c \in Breaker /\ c[1] = d /\ c \in Reached(b) /\ d \in Domain
        BY <1>4
    <2>2. breaker'[c] = Opened(r) \/ breaker'[c] = Opened(Seen(c))
        BY <2>1 DEF Open
    <2>3. /\ breaker'[c].state = "open" /\ breaker'[c].since = 0
          /\ breaker'[c].successes = 0
        BY <2>2 DEF Opened
    <2>4. ResetTimeout[d] \in Nat \ {0}
        BY <2>1, BreakerAssumption
    <2>5. Seen(c)' = breaker'[c]
        BY <2>1, <2>3, <2>4 DEF Seen, Expired
    <2> QED BY <2>1, <2>3, <2>4, <2>5 DEF StateOf, WaitOf, StreakOf
<1>6. ASSUME NEW d \in Domain, d \notin S
      PROVE  SameView(d)
    <2>1. Current(d) \in Breaker /\ Current(d) \notin Reached(b)
        BY <1>4, <1>6
    <2>2. Current(d) # b
        BY <2>1 DEF Reached
    <2>3. breaker'[Current(d)] = breaker[Current(d)]
        BY <2>1, <2>2 DEF Open
    <2> QED BY <2>3, UntouchedView
<1> HIDE DEF S
<1>7. Promise!TTrip(S)
    <2>1. \A d \in S : d \in Domain
        BY <1>1
    <2>2. /\ \A d \in S : [x \in Domain |-> StateOf(x)][d] # "open"
          /\ \A d \in S : \A e \in [x \in Domain |-> CascadeTargets[x] \ {x}][d] :
                e \in S \/ [x \in Domain |-> StateOf(x)][e] = "open"
        <3>1. \A d \in Domain : CascadeTargets[d] \subseteq Domain
            BY BreakerAssumption
        <3> QED BY <1>2, <1>3, <2>1, <3>1
    <2>3. /\ [d \in Domain |-> StateOf(d)'] =
                  [d \in Domain |-> IF d \in S THEN "open" ELSE StateOf(d)]
          /\ [d \in Domain |-> WaitOf(d)'] =
                  [d \in Domain |-> IF d \in S THEN ResetTimeout[d] ELSE WaitOf(d)]
          /\ [d \in Domain |-> StreakOf(d)'] =
                  [d \in Domain |-> IF d \in S THEN 0 ELSE StreakOf(d)]
        BY <1>5, <1>6 DEF SameView
    <2> QED BY <2>2, <2>3 DEF Promise!TTrip
<1> QED BY <1>1, <1>7

\* Closing the current breaker of a domain, however it comes about.
LEMMA ClosingCloses ==
    ASSUME Inv, NEW d \in Domain, UNCHANGED version, NEW r,
           Put(Current(d), Closed(r))
    PROVE  Promise!TCloses(d)
<1> DEFINE c == Current(d)
<1>1. c \in Breaker /\ c' = c
    BY CurrentIsBreaker DEF Inv, Current
<1>2. breaker'[c] = Closed(r)
    BY <1>1 DEF Put, Inv, AllGood
<1>3. Seen(c)' = Closed(r)
    BY <1>1, <1>2 DEF Seen, Expired, Closed
<1>4. StateOf(d)' = "closed" /\ WaitOf(d)' = 0 /\ StreakOf(d)' = 0
    BY <1>1, <1>3 DEF StateOf, WaitOf, StreakOf, Closed
<1>5. ASSUME NEW e \in Domain, e # d
      PROVE  SameView(e)
    <2>1. Current(e) # c /\ Current(e) \in Breaker
        BY <1>5, CurrentIsBreaker DEF Inv, Current
    <2>2. breaker'[Current(e)] = breaker[Current(e)]
        BY <2>1 DEF Put, Inv, AllGood
    <2> QED BY <2>2, UntouchedView
<1> QED BY <1>4, <1>5 DEF SameView, Promise!TCloses
\* One more success of a half-open domain, short of the threshold.
LEMMA CountingProbes ==
    ASSUME Inv, NEW d \in Domain, UNCHANGED version, NEW r, Put(Current(d), r),
           StateOf(d) = "half-open", StreakOf(d) + 1 < SuccessThreshold[d],
           r.state = "half-open", r.since = Seen(Current(d)).since,
           r.successes = StreakOf(d) + 1
    PROVE  Promise!TProbe(d)
<1> DEFINE c == Current(d)
<1>1. c \in Breaker /\ c' = c
    BY CurrentIsBreaker DEF Inv, Current
<1>2. breaker'[c] = r
    BY <1>1 DEF Put, Inv, AllGood
<1>3. Seen(c)' = r
    BY <1>1, <1>2 DEF Seen, Expired
<1>4. /\ StateOf(d)' = StateOf(d) /\ WaitOf(d)' = WaitOf(d)
      /\ StreakOf(d)' = StreakOf(d) + 1
    BY <1>1, <1>3 DEF StateOf, WaitOf, StreakOf
<1>5. ASSUME NEW e \in Domain, e # d
      PROVE  SameView(e)
    <2>1. Current(e) # c /\ Current(e) \in Breaker
        BY <1>5, CurrentIsBreaker DEF Inv, Current
    <2>2. breaker'[Current(e)] = breaker[Current(e)]
        BY <2>1 DEF Put, Inv, AllGood
    <2> QED BY <2>2, UntouchedView
<1> QED BY <1>4, <1>5 DEF SameView, Promise!TProbe

\* A report is a probe, a recovery, a trip or nothing that shows.
LEMMA EndsImplements ==
    ASSUME Inv, NEW b \in Breaker, Ends(b), UNCHANGED version
    PROVE  Promise!TNext \/ UNCHANGED Promise!tvars
<1> DEFINE r == Seen(b)
<1>1. Good(b, r)
    BY SeenIsGood DEF Inv
<1>2. CASE RecordSuccess(b) /\ \A d \in Domain : b # Current(d)
    <2>1. \E x : Put(b, x)
        BY <1>2 DEF RecordSuccess
    <2> QED BY <1>2, <2>1, ReplacedLooks, SameViewStutters
<1>3. ASSUME RecordSuccess(b), NEW d \in Domain, b = Current(d)
      PROVE  Promise!TNext \/ UNCHANGED Promise!tvars
    <2>1. b[1] = d
        BY <1>3, CurrentIsBreaker DEF Inv
    <2>2. CASE r.state # "half-open"
        <3>1. Put(b, r)
            BY <1>3, <2>2 DEF RecordSuccess
        <3> QED BY <1>3, <3>1, SameLooks, SameViewStutters
    <2>3. CASE r.state = "half-open" /\ r.successes + 1 >= SuccessThreshold[d]
        <3>1. Put(b, Closed(r))
            BY <1>3, <2>1, <2>3 DEF RecordSuccess
        <3>2. Promise!TCloses(d)
            BY <1>3, <3>1, ClosingCloses
        <3> QED BY <3>2 DEF Promise!TNext, Promise!TReset
    <2>4. CASE r.state = "half-open" /\ ~(r.successes + 1 >= SuccessThreshold[d])
        <3> DEFINE x == [state |-> "half-open", failures |-> r.failures,
                         since |-> r.since, successes |-> r.successes + 1]
        <3>1. Put(b, x)
            BY <1>3, <2>1, <2>4 DEF RecordSuccess
        <3>2. r.successes \in Nat /\ SuccessThreshold[d] \in Nat
            BY <1>1, BreakerAssumption DEF Good, Record
        <3>3. r.successes + 1 < SuccessThreshold[d]
            BY <2>4, <3>2
        <3>4. StateOf(d) = "half-open" /\ StreakOf(d) = r.successes
            BY <1>3, <2>4 DEF StateOf, StreakOf
        <3>5. Promise!TProbe(d)
            BY <1>3, <3>1, <3>3, <3>4, CountingProbes
        <3> QED BY <3>5 DEF Promise!TNext
    <2> QED BY <2>2, <2>3, <2>4
<1>4. CASE RecordFailure(b)
    <2>1. /\ Failed(b).state = r.state /\ Failed(b).since = r.since
          /\ Failed(b).successes = r.successes
        BY FailedIsRecord DEF Inv
    <2>2. CASE Open(b, Failed(b)) /\ r.state # "open"
        <3>1. \E S \in SUBSET Domain : Promise!TTrip(S)
            BY <2>2, OpenTrips
        <3> QED BY <3>1 DEF Promise!TNext
    <2>3. CASE Put(b, Failed(b))
        <3>1. CASE \E d \in Domain : b = Current(d)
            BY <2>1, <2>3, <3>1, SameLooks, SameViewStutters
        <3>2. CASE \A d \in Domain : b # Current(d)
            BY <2>3, <3>2, ReplacedLooks, SameViewStutters
        <3> QED BY <3>1, <3>2
    <2> QED BY <1>4, <2>1, <2>2, <2>3 DEF RecordFailure
<1> QED BY <1>2, <1>3, <1>4 DEF Ends

\* The passing of time, seen through getState, is that of a running timer.
LEMMA TickImplements ==
    ASSUME Inv, Tick
    PROVE  Promise!TTick
<1>1. ASSUME NEW d \in Domain
      PROVE  /\ StateOf(d)' = IF StateOf(d) = "open" /\ WaitOf(d) <= 1
                              THEN "half-open" ELSE StateOf(d)
             /\ WaitOf(d)' = IF WaitOf(d) > 0 THEN WaitOf(d) - 1 ELSE 0
             /\ StreakOf(d)' = StreakOf(d)
    <2> DEFINE c == Current(d)
    <2>1. c \in Breaker /\ c' = c /\ c[1] = d
        BY CurrentIsBreaker DEF Inv, Current, Tick
    <2>2. breaker'[c] = Older(c)
        BY <2>1 DEF Tick
    <2>3. /\ Older(c).state = breaker[c].state
          /\ Older(c).since = IF breaker[c].state # "closed" /\ breaker[c].since < ResetTimeout[d]
                              THEN breaker[c].since + 1 ELSE breaker[c].since
          /\ Older(c).successes = breaker[c].successes
        BY <2>1 DEF Older
    <2>4. /\ breaker[c].since \in Nat /\ breaker[c].since <= ResetTimeout[d]
          /\ ResetTimeout[d] \in Nat \ {0}
          /\ breaker[c].state # "half-open" => breaker[c].successes = 0
        BY <2>1, BreakerAssumption DEF Inv, AllGood, Good, Record
    <2>5. CASE breaker[c].state # "open"
        <3>1. Seen(c) = breaker[c] /\ Seen(c)' = Older(c)
            BY <2>1, <2>2, <2>3, <2>5 DEF Seen, Expired
        <3> QED BY <2>1, <2>3, <2>5, <3>1 DEF StateOf, WaitOf, StreakOf
    <2>6. CASE breaker[c].state = "open" /\ breaker[c].since >= ResetTimeout[d]
        <3>1. Expired(c) /\ Expired(c)'
            BY <2>1, <2>2, <2>3, <2>4, <2>6 DEF Expired
        <3>2. /\ Seen(c).state = "half-open" /\ Seen(c)'.state = "half-open"
              /\ Seen(c).successes = 0 /\ Seen(c)'.successes = 0
            BY <2>1, <3>1 DEF Seen, HalfOpen
        <3> QED BY <2>1, <3>2 DEF StateOf, WaitOf, StreakOf
    <2>7. CASE breaker[c].state = "open" /\ breaker[c].since + 1 = ResetTimeout[d]
        <3>1. ~Expired(c) /\ Expired(c)'
            BY <2>1, <2>2, <2>3, <2>4, <2>7 DEF Expired
        <3>2. /\ Seen(c) = breaker[c] /\ Seen(c)'.state = "half-open"
              /\ Seen(c)'.successes = 0
            BY <2>1, <3>1 DEF Seen, HalfOpen
        <3> QED BY <2>1, <2>4, <2>7, <3>2 DEF StateOf, WaitOf, StreakOf
    <2>8. CASE breaker[c].state = "open" /\ breaker[c].since + 1 < ResetTimeout[d]
        <3>1. ~Expired(c) /\ ~Expired(c)'
            BY <2>1, <2>2, <2>3, <2>4, <2>8 DEF Expired
        <3>2. Seen(c) = breaker[c] /\ Seen(c)' = Older(c)
            BY <2>1, <2>2, <3>1 DEF Seen
        <3>3. Older(c).since = breaker[c].since + 1
            BY <2>3, <2>4, <2>8
        <3>4. /\ StateOf(d) = "open" /\ StateOf(d)' = "open"
              /\ StreakOf(d)' = StreakOf(d)
            BY <2>1, <2>3, <2>8, <3>2 DEF StateOf, StreakOf
        <3>5. WaitOf(d) = ResetTimeout[d] - breaker[c].since
            BY <3>4 DEF WaitOf
        <3>6. WaitOf(d)' = ResetTimeout[d] - (breaker[c].since + 1)
            BY <2>1, <2>2, <3>3, <3>4 DEF WaitOf
        <3>7. /\ WaitOf(d) > 1 /\ WaitOf(d)' = WaitOf(d) - 1
            BY <2>4, <2>8, <3>5, <3>6
        <3> QED BY <2>4, <3>4, <3>5, <3>7
    <2> QED BY <2>4, <2>5, <2>6, <2>7, <2>8
<1> QED BY <1>1 DEF Promise!TTick

LEMMA StepImplements ==
    ASSUME Inv, [Next]_vars
    PROVE  Promise!TNext \/ UNCHANGED Promise!tvars
<1>1. ASSUME NEW d \in Domain, Admit(d) \/ Execute(d) \/ Look(d)
      PROVE  Promise!TNext \/ UNCHANGED Promise!tvars
    <2>1. Put(Current(d), Seen(Current(d))) /\ UNCHANGED version
        BY <1>1 DEF Admit, Execute, Look
    <2> QED BY <2>1, SameLooks, SameViewStutters
<1>2. ASSUME NEW d \in Domain, TaskEnds(d)
      PROVE  Promise!TNext \/ UNCHANGED Promise!tvars
    <2>1. Ends(Current(d)) /\ UNCHANGED version /\ Current(d) \in Breaker
        BY <1>2, CurrentIsBreaker DEF TaskEnds, Inv
    <2> QED BY <2>1, EndsImplements
<1>3. ASSUME NEW b \in Breaker, CallEnds(b)
      PROVE  Promise!TNext \/ UNCHANGED Promise!tvars
    BY <1>3, EndsImplements DEF CallEnds
<1>4. ASSUME NEW d \in Domain, ForceOpen(d)
      PROVE  Promise!TNext \/ UNCHANGED Promise!tvars
    <2>1. UNCHANGED version /\ Current(d) \in Breaker
        BY <1>4, CurrentIsBreaker DEF ForceOpen, Inv
    <2>2. CASE breaker[Current(d)].state = "open"
        <3>1. UNCHANGED breaker
            BY <1>4, <2>2 DEF ForceOpen
        <3> QED BY <2>1, <3>1, UntouchedView, SameViewStutters
    <2>3. CASE breaker[Current(d)].state # "open"
        <3>1. Open(Current(d), breaker[Current(d)])
            BY <1>4, <2>3 DEF ForceOpen
        <3>2. Seen(Current(d)).state # "open"
            BY <2>3 DEF Seen, Expired
        <3>3. \E S \in SUBSET Domain : Promise!TTrip(S)
            BY <2>1, <3>1, <3>2, OpenTrips
        <3> QED BY <3>3 DEF Promise!TNext
    <2> QED BY <2>2, <2>3
<1>5. ASSUME NEW d \in Domain, Reset(d)
      PROVE  Promise!TNext
    <2>1. Put(Current(d), Closed(breaker[Current(d)])) /\ UNCHANGED version
        BY <1>5 DEF Reset
    <2>2. Promise!TCloses(d)
        BY <2>1, ClosingCloses
    <2> QED BY <2>2 DEF Promise!TNext, Promise!TReset
<1>6. ASSUME NEW d \in Domain, Configure(d)
      PROVE  Promise!TNext
    <2> DEFINE n == <<d, version[d] + 1>>
    <2>1. /\ UNCHANGED <<breaker, calls>> /\ version[d] < MaxVersion
          /\ version' = [version EXCEPT ![d] = @ + 1]
        BY <1>6 DEF Configure
    <2>2. version[d] + 1 \in Version /\ version[d] + 1 > version[d]
        BY <2>1, BreakerAssumption DEF Inv, CountersOK, Version
    <2>3. Current(d)' = n /\ n \in Breaker /\ Future(n)
        BY <2>1, <2>2 DEF Current, Breaker, Future, Inv, CountersOK
    <2>4. breaker[n].state = "closed" /\ breaker[n].successes = 0
        BY <2>3 DEF Inv, FutureIsNew, AllGood, Good
    <2>5. Seen(Current(d))' = breaker[n]
        BY <2>1, <2>3, <2>4 DEF Seen, Expired
    <2>6. StateOf(d)' = "closed" /\ WaitOf(d)' = 0 /\ StreakOf(d)' = 0
        BY <2>4, <2>5 DEF StateOf, WaitOf, StreakOf
    <2>7. ASSUME NEW e \in Domain, e # d
          PROVE  SameView(e)
        <3>1. Current(e)' = Current(e)
            BY <2>1, <2>7 DEF Current, Inv, CountersOK
        <3>2. Seen(Current(e))' = Seen(Current(e))
            BY <2>1, <3>1 DEF Seen, Expired, HalfOpen
        <3> QED BY <2>1, <3>1, <3>2 DEF SameView, StateOf, WaitOf, StreakOf
    <2>8. Promise!TCloses(d)
        BY <2>6, <2>7 DEF SameView, Promise!TCloses
    <2> QED BY <2>8 DEF Promise!TNext, Promise!TReset
<1>7. ASSUME Tick
      PROVE  Promise!TNext
    BY <1>7, TickImplements DEF Promise!TNext
<1>8. CASE Heals \/ UNCHANGED vars
    <2>1. UNCHANGED <<breaker, version>>
        BY <1>8 DEF Heals, vars
    <2> QED BY <2>1, UntouchedView, SameViewStutters
<1> QED BY <1>1, <1>2, <1>3, <1>4, <1>5, <1>6, <1>7, <1>8 DEF Next, DomainStep

LEMMA InitImplements == Init => Promise!TInit
<1> SUFFICES ASSUME Init
             PROVE  Promise!TInit
    OBVIOUS
<1>1. ASSUME NEW d \in Domain
      PROVE  StateOf(d) = "closed" /\ WaitOf(d) = 0 /\ StreakOf(d) = 0
    <2>1. Current(d) \in Breaker
        BY InvInit, CurrentIsBreaker DEF Inv
    <2>2. breaker[Current(d)] = Fresh
        BY <2>1 DEF Init
    <2> QED BY <2>2 DEF StateOf, WaitOf, StreakOf, Seen, Expired, Fresh
<1> QED BY <1>1 DEF Promise!TInit

\* Breakers that only change when somebody looks implement breakers with timers,
\* cascades, replaced breakers and late reports included.
THEOREM BreakerImplementsPromise == Spec => KeepsPromise
<1>1. Init => Promise!TInit
    BY InitImplements
<1>2. Inv /\ [Next]_vars => [Promise!TNext]_(Promise!tvars)
    BY StepImplements
<1> QED BY <1>1, <1>2, InvAlways, PTL DEF Spec, KeepsPromise, Promise!TSpec

(***************************************************************************)
(* The blast radius                                                        *)
(***************************************************************************)
\* A breaker that a cascade reaches is the target of another that it reaches.
LEMMA ReachedFrom ==
    ASSUME CountersOK, NEW b \in Breaker, NEW c \in Reached(b), c # b
    PROVE  \E s \in Reached(b) : c \in Targets(s)
<1> SUFFICES ASSUME \A s \in Reached(b) : c \notin Targets(s) PROVE FALSE
    OBVIOUS
<1> DEFINE S == Reached(b) \ {c}
<1>1. S \in SUBSET Breaker /\ b \in S
    BY DEF Reached
<1>2. ASSUME NEW s \in S, NEW t \in Targets(s) PROVE t \in S
    <2>1. t \in Breaker
        BY <1>1, CurrentIsBreaker, BreakerAssumption, ConfigOf DEF Targets
    <2>2. t \in Reached(b)
        BY <2>1 DEF Reached
    <2> QED BY <2>2
<1>3. c \in S
    BY <1>1, <1>2 DEF Reached
<1> QED BY <1>3

LEMMA OpenedLooksOpen ==
    ASSUME NEW b \in Breaker, breaker'[b].state = "open", breaker'[b].since = 0
    PROVE  Seen(b)'.state = "open"
<1>1. ResetTimeout[b[1]] \in Nat \ {0}
    BY ConfigOf
<1> QED BY <1>1 DEF Seen, Expired

\* A cascade opens only targets of what it opens.
LEMMA CascadeTakesTargets ==
    ASSUME Inv, NEW b \in Breaker, NEW r, Open(b, r), UNCHANGED version,
           Seen(b).state # "open", NEW d \in Domain, Current(d) # b, Opens(d)
    PROVE  TakenAlong(d)
<1> DEFINE c == Current(d)
<1>1. c \in Breaker /\ c' = c /\ c[1] = d
    BY CurrentIsBreaker DEF Inv, Current
<1>2. c \in Reached(b)
    <2> SUFFICES ASSUME c \notin Reached(b) PROVE FALSE
        OBVIOUS
    <2>1. breaker'[c] = breaker[c]
        BY <1>1 DEF Open
    <2>2. SameView(d)
        BY <2>1, UntouchedView
    <2> QED BY <2>2 DEF SameView, Opens
<1>3. PICK s \in Reached(b) : c \in Targets(s)
    BY <1>1, <1>2, ReachedFrom DEF Inv
<1>4. s \in Breaker
    BY DEF Reached
<1>5. s[1] # d /\ d \in CascadeTargets[s[1]]
    <2>1. PICK e \in CascadeTargets[s[1]] \ {s[1]} : c = Current(e)
        BY <1>3 DEF Targets
    <2>2. e \in Domain
        BY <1>4, <2>1, ConfigOf, BreakerAssumption
    <2>3. e = d
        BY <1>1, <2>1, <2>2, CurrentIsBreaker DEF Inv
    <2> QED BY <2>1, <2>3
<1>6. Seen(s).state # "open"
    BY ReachedAreCurrent DEF Inv
<1>7. breaker'[s].state = "open" /\ breaker'[s].since = 0
    <2>1. breaker'[s] = Opened(r) \/ breaker'[s] = Opened(Seen(s))
        BY <1>4 DEF Open
    <2> QED BY <2>1 DEF Opened
<1> QED BY <1>4, <1>5, <1>6, <1>7, OpenedLooksOpen DEF TakenAlong, BreakerOpens

\* A breaker that is written opens nothing by itself.
LEMMA PutOpensNothing ==
    ASSUME Inv, NEW b \in Breaker, NEW r, Put(b, r), UNCHANGED version,
           r.state = "open" => Seen(b).state = "open", NEW d \in Domain
    PROVE  ~Opens(d)
<1> DEFINE c == Current(d)
<1>1. c \in Breaker /\ c' = c
    BY CurrentIsBreaker DEF Inv, Current
<1>2. CASE c = b
    <2>1. breaker'[c] = r
        BY <1>1, <1>2 DEF Put, Inv, AllGood
    <2>2. Seen(c)'.state = "open" => r.state = "open"
        BY <1>1, <2>1 DEF Seen, HalfOpen
    <2> QED BY <1>1, <1>2, <2>2 DEF Opens, StateOf
<1>3. CASE c # b
    <2>1. breaker'[c] = breaker[c]
        BY <1>1, <1>3 DEF Put, Inv, AllGood
    <2>2. SameView(d)
        BY <2>1, UntouchedView
    <2> QED BY <2>2 DEF SameView, Opens
<1> QED BY <1>2, <1>3

\* A report of another domain's work, or of work let through by a replaced
\* breaker, opens d as a target only.
LEMMA EndsTakesTargets ==
    ASSUME Inv, NEW b \in Breaker, Ends(b), UNCHANGED version,
           NEW d \in Domain, Current(d) # b, Opens(d)
    PROVE  TakenAlong(d)
<1>1. CASE RecordSuccess(b)
    <2>1. \E r : Put(b, r) /\ (r.state = "open" => Seen(b).state = "open")
        BY <1>1 DEF RecordSuccess, Closed
    <2> QED BY <2>1, PutOpensNothing
<1>2. CASE RecordFailure(b)
    <2>1. Failed(b).state = Seen(b).state
        BY FailedIsRecord DEF Inv
    <2>2. \/ Open(b, Failed(b)) /\ Seen(b).state # "open"
          \/ Put(b, Failed(b))
        BY <1>2, <2>1 DEF RecordFailure
    <2> QED BY <2>1, <2>2, CascadeTakesTargets, PutOpensNothing
<1> QED BY <1>1, <1>2 DEF Ends

LEMMA UnaskedIsTakenAlong ==
    ASSUME Inv, [Next]_vars, NEW d \in Domain, OpensUnasked(d)
    PROVE  TakenAlong(d)
<1>1. Opens(d) /\ Current(d) \in Breaker
    BY CurrentIsBreaker DEF OpensUnasked, Inv
<1>2. /\ tasks \in [Domain -> Nat] /\ calls \in [Breaker -> Nat]
      /\ \A e \in Domain : Current(e) \in Breaker /\ Current(e)[1] = e
    BY CurrentIsBreaker DEF Inv, CountersOK
<1>3. ASSUME NEW e \in Domain, Admit(e) \/ Execute(e) \/ Look(e) PROVE FALSE
    <2>1. Put(Current(e), Seen(Current(e))) /\ UNCHANGED version
        BY <1>3 DEF Admit, Execute, Look
    <2> QED BY <1>1, <1>2, <2>1, PutOpensNothing
<1>4. ASSUME NEW e \in Domain, TaskEnds(e) PROVE TakenAlong(d)
    <2>1. tasks[e] > 0 /\ tasks' = [tasks EXCEPT ![e] = @ - 1] /\ Ends(Current(e))
          /\ UNCHANGED version
        BY <1>4 DEF TaskEnds
    <2>2. e # d
        BY <1>2, <2>1 DEF OpensUnasked
    <2>3. Current(d) # Current(e)
        BY <1>2, <2>2
    <2> QED BY <1>1, <1>2, <2>1, <2>3, EndsTakesTargets
<1>5. ASSUME NEW b \in Breaker, CallEnds(b) PROVE TakenAlong(d)
    <2>1. calls[b] > 0 /\ calls' = [calls EXCEPT ![b] = @ - 1] /\ Ends(b) /\ UNCHANGED version
        BY <1>5 DEF CallEnds
    <2>2. Current(d) # b
        BY <1>2, <2>1 DEF OpensUnasked
    <2> QED BY <1>1, <2>1, <2>2, EndsTakesTargets
<1>6. ASSUME NEW e \in Domain, ForceOpen(e) PROVE TakenAlong(d)
    <2>1. UNCHANGED version /\ forced' = forced \cup {e}
        BY <1>6 DEF ForceOpen
    <2>2. Current(d) # Current(e)
        BY <1>2, <2>1 DEF OpensUnasked
    <2>3. CASE UNCHANGED breaker
        <3>1. SameView(d)
            BY <2>1, <2>3, UntouchedView
        <3> QED BY <1>1, <3>1 DEF SameView, Opens
    <2>4. CASE breaker[Current(e)].state # "open" /\ Open(Current(e), breaker[Current(e)])
        <3>1. Seen(Current(e)).state # "open"
            BY <2>4 DEF Seen, HalfOpen
        <3> QED BY <1>1, <1>2, <2>1, <2>2, <2>4, <3>1, CascadeTakesTargets
    <2> QED BY <1>6, <2>3, <2>4 DEF ForceOpen
<1>7. ASSUME NEW e \in Domain, Reset(e) PROVE FALSE
    <2>1. Put(Current(e), Closed(breaker[Current(e)])) /\ UNCHANGED version
        BY <1>7 DEF Reset
    <2>2. Closed(breaker[Current(e)]).state # "open"
        BY DEF Closed
    <2> QED BY <1>1, <1>2, <2>1, <2>2, PutOpensNothing
<1>8. ASSUME NEW e \in Domain, Configure(e) PROVE FALSE
    <2>1. UNCHANGED breaker /\ version' = [version EXCEPT ![e] = @ + 1] /\ Inv'
        BY <1>8, InvStep DEF Configure
    <2>2. CASE d = e
        <3>1. Current(d)' \in Breaker /\ Current(d)' = <<d, version'[d]>>
            BY <2>1 DEF Inv, CountersOK, Current, Breaker
        <3>2. version[d] \in Int /\ version'[d] = version[d] + 1
            BY <2>1, <2>2, BreakerAssumption DEF Inv, CountersOK, Version
        <3>3. Future(Current(d)')
            BY <3>1, <3>2 DEF Future
        <3>4. breaker[Current(d)'].state = "closed"
            BY <3>1, <3>3 DEF Inv, FutureIsNew
        <3>5. Seen(Current(d))'.state # "open"
            BY <2>1, <3>4 DEF Seen, HalfOpen
        <3> QED BY <1>1, <3>5 DEF Opens, StateOf
    <2>3. CASE d # e
        <3>1. Current(d)' = Current(d)
            BY <2>1, <2>3 DEF Current, Inv, CountersOK
        <3>2. Seen(Current(d))' = Seen(Current(d))
            BY <2>1, <3>1 DEF Seen, Expired, HalfOpen
        <3> QED BY <1>1, <3>2 DEF Opens, StateOf
    <2> QED BY <2>2, <2>3
<1>9. ASSUME Tick PROVE FALSE
    <2> DEFINE c == Current(d)
    <2>1. c' = c /\ breaker'[c] = Older(c) /\ c \in Breaker
        BY <1>2, <1>9 DEF Tick, Current
    <2>2. /\ Older(c).state = breaker[c].state
          /\ Older(c).since = IF breaker[c].state # "closed" /\ breaker[c].since < ResetTimeout[c[1]]
                              THEN breaker[c].since + 1 ELSE breaker[c].since
        BY DEF Older
    <2>3. breaker[c].since \in Nat /\ ResetTimeout[c[1]] \in Nat
        BY <2>1, ConfigOf DEF Inv, AllGood, Good, Record
    <2>4. Seen(c)'.state = "open" => breaker[c].state = "open" /\ ~Expired(c)'
        BY <2>1, <2>2 DEF Seen, HalfOpen
    <2>5. breaker[c].state = "open" /\ ~Expired(c)' => ~Expired(c)
        BY <2>1, <2>2, <2>3 DEF Expired
    <2>6. Seen(c)'.state = "open" => Seen(c).state = "open"
        BY <2>4, <2>5 DEF Seen
    <2> QED BY <1>1, <2>1, <2>6 DEF Opens, StateOf
<1>10. ASSUME Heals \/ UNCHANGED vars PROVE FALSE
    <2>1. UNCHANGED <<breaker, version>>
        BY <1>10 DEF Heals, vars
    <2>2. SameView(d)
        BY <2>1, UntouchedView
    <2> QED BY <1>1, <2>2 DEF SameView, Opens
<1> QED BY <1>3, <1>4, <1>5, <1>6, <1>7, <1>8, <1>9, <1>10 DEF Next, DomainStep

\* The blast radius, replaced breakers included: a domain that opens unasked is
\* the target of a breaker of another domain that opens in the same step.  The
\* breaker may have been replaced: its late reports still cascade.
THEOREM OpeningsAlwaysHaveACause == Spec => OpeningsHaveACause
<1> DEFINE Caused == \A d \in Domain : OpensUnasked(d) => TakenAlong(d)
<1>1. Inv /\ [Next]_vars => [Caused]_vars
    BY UnaskedIsTakenAlong
<1> QED BY <1>1, InvAlways, PTL DEF Spec, OpeningsHaveACause

\* While no breaker is replaced, it is the target of a domain that opens.
THEOREM OnlyTargetsFollowAlways ==
    ASSUME MaxVersion = 0
    PROVE  Spec => OnlyTargetsFollow
<1> DEFINE Follows == \A d \in Domain : OpensUnasked(d) =>
                          \E e \in Domain \ {d} : d \in CascadeTargets[e] /\ Opens(e)
<1>1. ASSUME Inv, [Next]_vars, NEW d \in Domain, OpensUnasked(d)
      PROVE  \E e \in Domain \ {d} : d \in CascadeTargets[e] /\ Opens(e)
    <2>1. PICK b \in Breaker : b[1] # d /\ d \in CascadeTargets[b[1]] /\ BreakerOpens(b)
        BY <1>1, UnaskedIsTakenAlong DEF TakenAlong
    <2>2. b[1] \in Domain /\ b[2] = 0 /\ b = <<b[1], b[2]>>
        BY DEF Breaker, Version
    <2>3. Inv'
        BY <1>1, InvStep
    <2>4. version[b[1]] = 0 /\ version'[b[1]] = 0
        BY <1>1, <2>2, <2>3 DEF Inv, CountersOK, Version
    <2>5. Current(b[1]) = b /\ Current(b[1])' = b
        BY <2>2, <2>4 DEF Current
    <2>6. Opens(b[1])
        BY <2>1, <2>5 DEF Opens, StateOf, BreakerOpens
    <2> QED BY <2>1, <2>2, <2>6
<1>2. Inv /\ [Next]_vars => [Follows]_vars
    BY <1>1
<1> QED BY <1>2, InvAlways, PTL DEF Spec, OnlyTargetsFollow
=============================================================================
