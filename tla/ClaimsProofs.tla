---------------------------- MODULE ClaimsProofs ----------------------------
(***************************************************************************)
(* Proofs about Claims, for every set of claims, claimants and calls and   *)
(* every limit.  Rows are never wrong by themselves: each row that is      *)
(* stored, or was read by a call that is still to write, is good, and what *)
(* a call writes is good again.  Where no call overwrote what it had not   *)
(* read, the write is a step of the lock.                                  *)
(***************************************************************************)
EXTENDS Claims, FiniteSetTheorems, TLAPS

\* A row that makes sense by itself.
GoodRow(r) ==
    /\ r \in Row
    /\ r.holder # Nobody <=> r.status \in Holding
    /\ r.steals <= MaxSteals

\* The claimants of r are among those that h says were given claim c.
Known(h, c, r) == WithHolder(r) \subseteq h[c]

GoodFrame(h, fr) ==
    fr.at = "read" => /\ GoodRow(fr.seen) /\ Known(h, fr.claim, fr.seen)
                      /\ Allowed(fr.op, fr.seen)

\* The inductive invariant.
ClaimsInv ==
    /\ TypeOK
    /\ \A c \in Claim : GoodRow(rows[c]) /\ Known(held, c, rows[c])
    /\ \A f \in Frame : GoodFrame(held, frames[f])
    /\ \A p \in sweep : GoodRow(p[2]) /\ Known(held, p[1], p[2]) /\ p[2].status = "claimed"
    /\ NobodyForgotten

(***************************************************************************)
(* What a call writes                                                      *)
(***************************************************************************)
LEMMA ByCall ==
  ASSUME NEW op \in Ops
  PROVE  \/ op.do \in {"claim", "steal"} /\ op.by \in Claimant
         \/ op.do = "release" /\ op.by \in Claimant
              /\ op.to \in {"available", "completed", "abandoned", "claimed"}
         \/ op.do = "handoff" /\ op.by \in Claimant /\ op.to \in Claimant
         \/ op.do = "status" /\ op.by \in Claimant /\ op.to \in Holding
         \/ op.do = "escalate"
         \/ op.do = "request" /\ op.id \in 1 .. MaxCalls
BY DEF Ops

\* A deadline is a time to come, never the 0 of a claim without one.
LEMMA DeadlineIsTime ==
  ASSUME now \in Nat, NEW a PROVE Deadline(a) \in Nat
BY ClaimsAssumption DEF Deadline

\* What a call writes is a good row, and its claimants are those of the row
\* that was read with the one the claim is given to.
LEMMA UpdatedIsGood ==
  ASSUME now \in Nat, NEW op \in Ops, NEW r, GoodRow(r), Allowed(op, r)
  PROVE  /\ GoodRow(Updated(op, r))
         /\ WithHolder(Updated(op, r)) = WithHolder(r) \cup ({Updated(op, r).holder} \ {Nobody})
<1> USE DEF GoodRow, Row, Status, Holding, Over
<1>1. Nobody \notin Claimant /\ MaxSteals \in Nat /\ MaxPriority \in Nat
  BY ClaimsAssumption
<1>2. CASE op.do = "claim"
  BY <1>1, <1>2, ByCall, DeadlineIsTime DEF Updated, Allowed, Claimed, WithHolder
<1>3. CASE op.do = "steal"
  <2>1. /\ op.by \in Claimant /\ r.status \in {"claimed", "in-progress"}
        /\ r.steals + 1 \in Nat /\ r.steals + 1 <= MaxSteals
    BY <1>1, <1>3, ByCall DEF Allowed, Stealable
  <2>2. Updated(op, r) = Stolen(r, op.by) BY <1>3 DEF Updated
  <2>3. WithHolder(r) \in SUBSET Claimant BY <1>1 DEF WithHolder
  <2>4. Stolen(r, op.by) \in Row BY <2>1, <2>3, DeadlineIsTime DEF Stolen
  <2>5. /\ Stolen(r, op.by).status = "claimed" /\ Stolen(r, op.by).holder = op.by
        /\ Stolen(r, op.by).steals = r.steals + 1 /\ Stolen(r, op.by).past = WithHolder(r)
    BY DEF Stolen
  <2> QED BY <1>1, <2>1, <2>2, <2>4, <2>5 DEF WithHolder
<1>4. CASE op.do = "release"
  <2>1. /\ op.by \in Claimant /\ r.holder = op.by
        /\ op.to \in {"available", "completed", "abandoned", "claimed"}
    BY <1>4, ByCall DEF Allowed, IsClaimant
  <2>2. Updated(op, r) = Released(r, op.to) BY <1>4 DEF Updated
  <2>3. WithHolder(r) \in SUBSET Claimant BY <1>1 DEF WithHolder
  <2>4. op.to \in Status BY <2>1
  <2>5. (IF op.to = "claimed" THEN r.holder ELSE Nobody) \in Claimant \cup {Nobody} BY <1>1
  <2>6. Released(r, op.to) \in Row BY <2>3, <2>4, <2>5 DEF Released
  <2>7. /\ Released(r, op.to).status = op.to /\ Released(r, op.to).steals = r.steals
        /\ Released(r, op.to).past = WithHolder(r)
    BY DEF Released
  <2>8. Released(r, op.to).holder = IF op.to = "claimed" THEN r.holder ELSE Nobody
    BY DEF Released
  <2> QED BY <1>1, <2>1, <2>2, <2>6, <2>7, <2>8 DEF WithHolder
<1>5. CASE op.do = "handoff"
  <2>1. op.by \in Claimant /\ op.to \in Claimant /\ r.holder = op.by
    BY <1>5, ByCall DEF Allowed, IsClaimant
  <2>2. Updated(op, r) = HandedOver(r, op.by, op.to) BY <1>5 DEF Updated
  <2>3. HandedOver(r, op.by, op.to) \in Row BY <2>1, DeadlineIsTime DEF HandedOver
  <2>4. /\ HandedOver(r, op.by, op.to).status = r.status
        /\ HandedOver(r, op.by, op.to).holder = op.to
        /\ HandedOver(r, op.by, op.to).steals = r.steals
        /\ HandedOver(r, op.by, op.to).past = r.past \cup {op.by}
    BY DEF HandedOver
  <2> QED BY <1>1, <2>1, <2>2, <2>3, <2>4 DEF WithHolder
<1>6. CASE op.do = "status"
  BY <1>1, <1>6, ByCall DEF Updated, Allowed, IsClaimant, WithHolder
<1>7. CASE op.do = "escalate"
  BY <1>1, <1>7 DEF Updated, Allowed, Raisable, WithHolder
<1>8. CASE op.do = "request"
  BY <1>1, <1>8 DEF Updated, WithHolder
<1> QED BY <1>2, <1>3, <1>4, <1>5, <1>6, <1>7, <1>8, ByCall

LEMMA LapsedIsGood ==
  ASSUME NEW r, GoodRow(r)
  PROVE  /\ GoodRow(Lapsed(r))
         /\ WithHolder(Lapsed(r)) = WithHolder(r)
         /\ Lapsed(r).holder = Nobody /\ Lapsed(r).status = "expired"
         /\ Lapsed(r).steals = r.steals
BY ClaimsAssumption DEF GoodRow, Row, Status, Holding, Over, Lapsed, WithHolder

(***************************************************************************)
(* A write                                                                 *)
(***************************************************************************)
\* A good row whose claimants are known, or the one it is given to, keeps the
\* part of the invariant that is about rows.
LEMMA WriteKeeps ==
  ASSUME ClaimsInv, NEW c \in Claim, NEW seen, NEW r, NEW who \in Claimant \cup {Nobody},
         Write(c, seen, r, who), GoodRow(seen), Known(held, c, seen), GoodRow(r),
         WithHolder(r) = WithHolder(seen) \cup ({r.holder} \ {Nobody})
  PROVE  /\ rows' \in [Claim -> Row] /\ held' \in [Claim -> SUBSET Claimant]
         /\ mover' \in [Claim -> Claimant \cup {Nobody}] /\ raced' \in SUBSET Claim
         /\ \A d \in Claim : GoodRow(rows'[d])
         /\ \A d \in Claim : held[d] \subseteq held'[d] /\ WithHolder(rows'[d]) \subseteq held'[d]
         /\ NobodyForgotten'
<1>1. /\ rows \in [Claim -> Row] /\ held \in [Claim -> SUBSET Claimant]
      /\ mover \in [Claim -> Claimant \cup {Nobody}] /\ raced \in SUBSET Claim
  BY DEF ClaimsInv, TypeOK
<1>2. r \in Row /\ r.holder \in Claimant \cup {Nobody} BY DEF GoodRow, Row
<1>3. /\ rows' = [rows EXCEPT ![c] = r]
      /\ held' = [held EXCEPT ![c] = held[c] \cup ({r.holder} \ {Nobody})]
      /\ mover' = [mover EXCEPT ![c] = who]
      /\ raced' = IF rows[c] = seen THEN raced ELSE raced \cup {c}
  BY DEF Write
<1>4. rows' \in [Claim -> Row] BY <1>1, <1>2, <1>3
<1>5. held' \in [Claim -> SUBSET Claimant] BY <1>1, <1>2, <1>3
<1>6. mover' \in [Claim -> Claimant \cup {Nobody}] /\ raced' \in SUBSET Claim BY <1>1, <1>3
<1>7. \A d \in Claim : GoodRow(rows[d]) /\ Known(held, d, rows[d]) BY DEF ClaimsInv
<1>8. \A d \in Claim : GoodRow(rows'[d]) BY <1>1, <1>3, <1>7
<1>9. held'[c] = held[c] \cup ({r.holder} \ {Nobody}) /\ rows'[c] = r BY <1>1, <1>3
<1>10. \A d \in Claim \ {c} : held'[d] = held[d] /\ rows'[d] = rows[d] BY <1>1, <1>3
<1>11. ASSUME NEW d \in Claim
       PROVE  held[d] \subseteq held'[d] /\ WithHolder(rows'[d]) \subseteq held'[d]
  BY <1>7, <1>9, <1>10 DEF Known
<1>12. ASSUME NEW d \in Claim, d \notin raced' PROVE held'[d] = WithHolder(rows'[d])
  <2>1. d \notin raced /\ (d = c => rows[c] = seen) BY <1>3, <1>12
  <2>2. held[d] = WithHolder(rows[d]) BY <2>1 DEF ClaimsInv, NobodyForgotten
  <2> QED BY <2>1, <2>2, <1>9, <1>10
<1>13. NobodyForgotten' BY <1>12 DEF NobodyForgotten, WithHolder
<1> QED BY <1>4, <1>5, <1>6, <1>8, <1>11, <1>13

\* A frame keeps what it has read, and what is known of it, while it waits.
LEMMA WaitingKeeps ==
  ASSUME ClaimsInv, NEW f \in Frame, \A c \in Claim : held[c] \subseteq held'[c],
         frames'[f] = frames[f] \/ frames'[f] = Idle
  PROVE  GoodFrame(held', frames'[f])
<1>1. GoodFrame(held, frames[f]) /\ frames[f] \in {Idle} \cup Working \cup Looking
  BY DEF ClaimsInv, TypeOK
<1>2. CASE frames'[f] = Idle
  BY <1>2 DEF GoodFrame, Idle
<1>3. CASE frames'[f] = frames[f]
  <2>1. SUFFICES ASSUME frames[f].at = "read"
                 PROVE  Known(held', frames[f].claim, frames[f].seen)
    BY <1>1, <1>3 DEF GoodFrame
  <2>2. frames[f].claim \in Claim BY <1>1, <2>1 DEF Idle, Working, Looking
  <2> QED BY <1>1, <2>1, <2>2 DEF GoodFrame, Known
<1> QED BY <1>2, <1>3

LEMMA SweepKeeps ==
  ASSUME ClaimsInv, \A c \in Claim : held[c] \subseteq held'[c], sweep' \subseteq sweep
  PROVE  /\ sweep' \in SUBSET (Claim \X Row)
         /\ \A p \in sweep' : /\ GoodRow(p[2]) /\ WithHolder(p[2]) \subseteq held'[p[1]]
                              /\ p[2].status = "claimed"
<1>1. sweep \in SUBSET (Claim \X Row) BY DEF ClaimsInv, TypeOK
<1>2. ASSUME NEW p \in sweep'
      PROVE  /\ GoodRow(p[2]) /\ WithHolder(p[2]) \subseteq held'[p[1]]
             /\ p[2].status = "claimed"
  <2>1. p \in sweep /\ p[1] \in Claim BY <1>1
  <2> QED BY <2>1 DEF ClaimsInv, Known
<1> QED BY <1>1, <1>2

LEMMA InitInv == Init => ClaimsInv
<1> SUFFICES ASSUME Init PROVE ClaimsInv OBVIOUS
<1> USE ClaimsAssumption
<1>1. Fresh \in Row /\ Fresh.holder = Nobody /\ Fresh.status = "available" /\ Fresh.steals = 0
      /\ Fresh.past = {}
  BY DEF Fresh, Row, Status
<1>2. GoodRow(Fresh) /\ WithHolder(Fresh) = {}
  BY <1>1 DEF GoodRow, Holding, WithHolder
<1>3. TypeOK BY <1>1 DEF Init, TypeOK
<1>4. \A c \in Claim : rows[c] = Fresh /\ held[c] = {} BY DEF Init
<1>5. \A f \in Frame : GoodFrame(held, frames[f]) BY DEF Init, GoodFrame, Idle
<1> QED BY <1>2, <1>3, <1>4, <1>5 DEF ClaimsInv, Known, NobodyForgotten, Init

\* A call reads a good row, so it waits with one.
LEMMA ReadsKeeps ==
  ASSUME ClaimsInv, NEW f \in Frame, NEW c \in Claim, NEW op \in Ops, NEW for \in SUBSET Handoff,
         Reads(f, c, op, for), UNCHANGED held
  PROVE  /\ frames' \in [Frame -> {Idle} \cup Working \cup Looking]
         /\ \A g \in Frame : GoodFrame(held', frames'[g])
<1> DEFINE fr == [at |-> "read", claim |-> c, seen |-> rows[c], op |-> op, for |-> for]
<1>1. rows[c] \in Row /\ frames \in [Frame -> {Idle} \cup Working \cup Looking]
  BY DEF ClaimsInv, TypeOK
<1>2. fr \in Working BY <1>1 DEF Working
<1>3. frames' = [frames EXCEPT ![f] = fr] /\ Allowed(op, rows[c]) BY DEF Reads
<1>4. frames' \in [Frame -> {Idle} \cup Working \cup Looking] BY <1>1, <1>2, <1>3
<1>5. GoodRow(rows[c]) /\ Known(held, c, rows[c]) BY DEF ClaimsInv
<1>6. frames'[f] = fr BY <1>1, <1>3
<1>7. GoodFrame(held', frames'[f]) BY <1>3, <1>5, <1>6 DEF GoodFrame
<1>8. ASSUME NEW g \in Frame, g # f PROVE GoodFrame(held', frames'[g])
  <2>1. frames'[g] = frames[g] BY <1>1, <1>3, <1>8
  <2> QED BY <2>1, WaitingKeeps
<1> QED BY <1>4, <1>7, <1>8

(***************************************************************************)
(* The invariant is inductive                                              *)
(***************************************************************************)
LEMMA FinishKeeps == ASSUME ClaimsInv, NEW f \in Frame, Finish(f) PROVE ClaimsInv'
<1> DEFINE c == frames[f].claim  seen == frames[f].seen  op == frames[f].op
           r == Updated(op, seen)
           who == IF Moves(op) THEN op.by ELSE mover[c]
<1>1. /\ frames \in [Frame -> {Idle} \cup Working \cup Looking] /\ pending \in SUBSET Handoff
      /\ now \in 0 .. MaxNow /\ mover \in [Claim -> Claimant \cup {Nobody}]
  BY DEF ClaimsInv, TypeOK
<1>2. frames[f].at = "read" /\ op.do # "request" BY DEF Finish
<1>3. frames[f] \in Working BY <1>1, <1>2 DEF Idle, Looking
<1>4. c \in Claim /\ op \in Ops BY <1>3 DEF Working
<1>5. GoodRow(seen) /\ Known(held, c, seen) /\ Allowed(op, seen)
  BY <1>2 DEF ClaimsInv, GoodFrame
<1>6. now \in Nat BY <1>1, ClaimsAssumption
<1>7. GoodRow(r) /\ WithHolder(r) = WithHolder(seen) \cup ({r.holder} \ {Nobody})
  BY <1>4, <1>5, <1>6, UpdatedIsGood
<1>8. who \in Claimant \cup {Nobody} BY <1>1, <1>4, ByCall DEF Moves
<1>9. Write(c, seen, r, who) BY DEF Finish
<1> HIDE DEF c, seen, op, r, who
<1>10. /\ rows' \in [Claim -> Row] /\ held' \in [Claim -> SUBSET Claimant]
       /\ mover' \in [Claim -> Claimant \cup {Nobody}] /\ raced' \in SUBSET Claim
       /\ \A d \in Claim : GoodRow(rows'[d])
       /\ \A d \in Claim : held[d] \subseteq held'[d] /\ WithHolder(rows'[d]) \subseteq held'[d]
       /\ NobodyForgotten'
  BY <1>4, <1>5, <1>7, <1>8, <1>9, WriteKeeps
<1>11. /\ frames' = [frames EXCEPT ![f] = Idle] /\ pending' \subseteq pending
       /\ UNCHANGED <<sweep, dead, calls, now>>
  BY DEF Finish
<1>12. TypeOK' BY <1>1, <1>10, <1>11 DEF TypeOK, ClaimsInv
<1>13. \A g \in Frame : GoodFrame(held', frames'[g])
  BY <1>1, <1>10, <1>11, WaitingKeeps
<1>14. \A p \in sweep' : GoodRow(p[2]) /\ Known(held', p[1], p[2]) /\ p[2].status = "claimed"
  BY <1>10, <1>11, SweepKeeps DEF Known
<1> QED BY <1>10, <1>12, <1>13, <1>14 DEF ClaimsInv, Known

LEMMA ExpireKeeps == ASSUME ClaimsInv, NEW c, NEW r, Expire(c, r) PROVE ClaimsInv'
<1>1. /\ frames \in [Frame -> {Idle} \cup Working \cup Looking]
      /\ sweep \in SUBSET (Claim \X Row)
  BY DEF ClaimsInv, TypeOK
<1>2. <<c, r>> \in sweep /\ Write(c, r, Lapsed(r), Nobody) BY DEF Expire
<1>3. c \in Claim BY <1>1, <1>2
<1>4. GoodRow(r) /\ Known(held, c, r)
  <2> DEFINE p == <<c, r>>
  <2>1. GoodRow(p[2]) /\ Known(held, p[1], p[2]) BY <1>2 DEF ClaimsInv
  <2> QED BY <2>1
<1>5. GoodRow(Lapsed(r)) /\ WithHolder(Lapsed(r)) = WithHolder(r) \cup ({Lapsed(r).holder} \ {Nobody})
  BY <1>4, LapsedIsGood
<1>6. /\ rows' \in [Claim -> Row] /\ held' \in [Claim -> SUBSET Claimant]
      /\ mover' \in [Claim -> Claimant \cup {Nobody}] /\ raced' \in SUBSET Claim
      /\ \A d \in Claim : GoodRow(rows'[d])
      /\ \A d \in Claim : held[d] \subseteq held'[d] /\ WithHolder(rows'[d]) \subseteq held'[d]
      /\ NobodyForgotten'
  BY <1>2, <1>3, <1>4, <1>5, WriteKeeps
<1>7. UNCHANGED <<frames, pending, dead, calls, now>> /\ sweep' \subseteq sweep BY DEF Expire
<1>8. \A g \in Frame : GoodFrame(held', frames'[g])
  BY <1>6, <1>7, WaitingKeeps
<1>9. /\ sweep' \in SUBSET (Claim \X Row)
      /\ \A p \in sweep' : GoodRow(p[2]) /\ Known(held', p[1], p[2]) /\ p[2].status = "claimed"
  BY <1>6, <1>7, SweepKeeps DEF Known
<1>10. TypeOK' BY <1>6, <1>7, <1>9 DEF TypeOK, ClaimsInv
<1> QED BY <1>6, <1>8, <1>9, <1>10 DEF ClaimsInv, Known

\* A step that leaves the rows alone keeps what is said of them.
LEMMA QuietKeeps ==
  ASSUME ClaimsInv, UNCHANGED <<rows, held, mover, raced>>,
         frames' \in [Frame -> {Idle} \cup Working \cup Looking],
         \A g \in Frame : GoodFrame(held', frames'[g]),
         sweep' \in SUBSET (Claim \X Row),
         \A p \in sweep' : GoodRow(p[2]) /\ Known(held', p[1], p[2]) /\ p[2].status = "claimed",
         pending' \in SUBSET Handoff, dead' \in SUBSET Claimant,
         calls' \in 0 .. MaxCalls, now' \in 0 .. MaxNow
  PROVE  ClaimsInv'
<1>1. TypeOK' BY DEF ClaimsInv, TypeOK
<1>2. \A c \in Claim : GoodRow(rows'[c]) /\ Known(held', c, rows'[c]) BY DEF ClaimsInv
<1>3. NobodyForgotten' BY DEF ClaimsInv, NobodyForgotten, WithHolder
<1> QED BY <1>1, <1>2, <1>3 DEF ClaimsInv

LEMMA StepInv == ClaimsInv /\ [Next]_vars => ClaimsInv'
<1> SUFFICES ASSUME ClaimsInv, [Next]_vars PROVE ClaimsInv' OBVIOUS
<1>1. TypeOK BY DEF ClaimsInv
<1>2. UNCHANGED held => \A c \in Claim : held[c] \subseteq held'[c] OBVIOUS
<1>3. UNCHANGED <<held, frames>> => \A g \in Frame : GoodFrame(held', frames'[g])
  BY <1>2, WaitingKeeps
<1>4. UNCHANGED <<held, sweep>> =>
        /\ sweep' \in SUBSET (Claim \X Row)
        /\ \A p \in sweep' : GoodRow(p[2]) /\ Known(held', p[1], p[2]) /\ p[2].status = "claimed"
  BY <1>2, SweepKeeps DEF Known
<1>5. ASSUME NEW f \in Frame, frames' = [frames EXCEPT ![f] = Idle], UNCHANGED held
      PROVE  /\ frames' \in [Frame -> {Idle} \cup Working \cup Looking]
             /\ \A g \in Frame : GoodFrame(held', frames'[g])
  BY <1>1, <1>2, <1>5, WaitingKeeps DEF TypeOK
<1>6. ASSUME NEW f \in Frame, Finish(f) PROVE ClaimsInv'
  BY <1>6, FinishKeeps
<1>7. ASSUME NEW f \in Frame, Request(f) PROVE ClaimsInv'
  <2>1. frames[f] \in Working /\ frames[f].op \in Ops /\ frames[f].op.do = "request"
    BY <1>1, <1>7 DEF Request, TypeOK, Idle, Looking, Working
  <2>2. GoodRow(frames[f].seen) /\ Allowed(frames[f].op, frames[f].seen)
    BY <1>7 DEF Request, ClaimsInv, GoodFrame
  <2>3. frames[f].op.id \in 1 .. MaxCalls /\ frames[f].claim \in Claim
    BY <2>1, ByCall DEF Working
  <2>4. frames[f].seen.holder \in Claimant
    BY <2>1, <2>2 DEF GoodRow, Row, Allowed
  <2>5. pending' \in SUBSET Handoff
    BY <1>1, <1>7, <2>3, <2>4 DEF Request, TypeOK, Handoff
  <2> QED BY <1>1, <1>4, <1>5, <1>7, <2>5, QuietKeeps DEF Request, TypeOK
<1>8. ASSUME NEW f \in Frame, HandOn(f) PROVE ClaimsInv'
  <2> DEFINE h == frames[f].handoff
             op == [do |-> "handoff", by |-> h.by, to |-> frames[f].to]
  <2>1. frames[f] \in Looking
    BY <1>1, <1>8 DEF HandOn, TypeOK, Idle, Working
  <2>2. h \in Handoff /\ h.claim \in Claim /\ op \in Ops
    BY <2>1 DEF Looking, Handoff, Ops
  <2>3. CASE Reads(f, h.claim, op, {h})
    <3>1. /\ frames' \in [Frame -> {Idle} \cup Working \cup Looking]
          /\ \A g \in Frame : GoodFrame(held', frames'[g])
      <4> HIDE DEF op, h
      <4> QED BY <1>8, <2>2, <2>3, ReadsKeeps DEF HandOn
    <3> QED BY <1>1, <1>4, <1>8, <3>1, QuietKeeps DEF HandOn, TypeOK
  <2>4. CASE frames' = [frames EXCEPT ![f] = Idle]
    BY <1>1, <1>4, <1>5, <1>8, <2>4, QuietKeeps DEF HandOn, TypeOK
  <2> QED BY <1>8, <2>3, <2>4 DEF HandOn
<1>9. ASSUME NEW f \in Frame, NEW c \in Claim, NEW op \in Ops, Call(f, c, op) PROVE ClaimsInv'
  <2>1. /\ frames' \in [Frame -> {Idle} \cup Working \cup Looking]
        /\ \A g \in Frame : GoodFrame(held', frames'[g])
    BY <1>9, ReadsKeeps DEF Call
  <2>2. calls' \in 0 .. MaxCalls BY <1>1, <1>9, ClaimsAssumption DEF Call, TypeOK
  <2> QED BY <1>1, <1>4, <1>9, <2>1, <2>2, QuietKeeps DEF Call, TypeOK
<1>10. ASSUME NEW f \in Frame, NEW h \in pending, NEW b \in Claimant, Answer(f, h, b)
       PROVE  ClaimsInv'
  <2> DEFINE fr == [at |-> "looking", handoff |-> h, to |-> b]
  <2>1. fr \in Looking /\ ~(fr.at = "read")
    BY <1>1 DEF Looking, TypeOK
  <2>2. /\ frames' = [frames EXCEPT ![f] = fr] /\ calls > 0 /\ calls' = calls - 1
        /\ UNCHANGED <<rows, sweep, pending, dead, now, held, mover, raced>>
    BY <1>10 DEF Answer
  <2> HIDE DEF fr
  <2>3. frames' \in [Frame -> {Idle} \cup Working \cup Looking] BY <1>1, <2>1, <2>2 DEF TypeOK
  <2>4. ASSUME NEW g \in Frame PROVE GoodFrame(held', frames'[g])
    <3>1. CASE g = f BY <1>1, <2>1, <2>2, <3>1 DEF GoodFrame, TypeOK
    <3>2. CASE g # f BY <1>1, <1>2, <2>2, <3>2, WaitingKeeps DEF TypeOK
    <3> QED BY <3>1, <3>2
  <2>5. calls' \in 0 .. MaxCalls BY <1>1, <2>2, ClaimsAssumption DEF TypeOK
  <2> QED BY <1>1, <1>4, <2>2, <2>3, <2>4, <2>5, QuietKeeps DEF TypeOK
<1>11. ASSUME NEW h \in pending, Drop(h) PROVE ClaimsInv'
  BY <1>1, <1>3, <1>4, <1>11, QuietKeeps DEF Drop, TypeOK
<1>12. CASE Tick
  <2>1. now' \in 0 .. MaxNow BY <1>1, <1>12, ClaimsAssumption DEF Tick, TypeOK
  <2> QED BY <1>1, <1>3, <1>4, <1>12, <2>1, QuietKeeps DEF Tick, TypeOK
<1>13. ASSUME NEW a \in Agent, Crash(a) PROVE ClaimsInv'
  BY <1>1, <1>3, <1>4, <1>13, QuietKeeps DEF Crash, TypeOK, Claimant
<1>14. CASE Sweep
  <2>1. ASSUME NEW p \in sweep'
        PROVE  /\ p \in Claim \X Row /\ GoodRow(p[2]) /\ Known(held', p[1], p[2])
               /\ p[2].status = "claimed"
    <3>1. PICK c \in Claim : p = <<c, rows[c]>> /\ Expired(rows[c]) BY <1>14 DEF Sweep
    <3> QED BY <1>1, <1>14, <3>1 DEF Sweep, ClaimsInv, TypeOK, Expired
  <2> QED BY <1>1, <1>3, <1>14, <2>1, QuietKeeps DEF Sweep, TypeOK
<1>15. ASSUME NEW p \in sweep, Expire(p[1], p[2]) PROVE ClaimsInv'
  BY <1>15, ExpireKeeps
<1>16. CASE UNCHANGED vars
  BY <1>1, <1>3, <1>4, <1>16, QuietKeeps DEF vars, TypeOK
<1> QED
  BY <1>6, <1>7, <1>8, <1>9, <1>10, <1>11, <1>12, <1>13, <1>14, <1>15, <1>16 DEF Next

LEMMA AlwaysInv == Spec => []ClaimsInv
<1>1. ClaimsInv /\ [Next]_vars => ClaimsInv' BY StepInv
<1> QED BY <1>1, InitInv, PTL DEF Spec

\* Every reachable state is well typed.
THEOREM ClaimsTypeCorrect == Spec => []TypeOK
<1>1. ClaimsInv => TypeOK BY DEF ClaimsInv
<1> QED BY <1>1, AlwaysInv, PTL

\* No overlap of calls ever stores a row with a holder it should not have.
THEOREM RowsMakeSense == Spec => []HolderIffHeld
<1>1. ClaimsInv => HolderIffHeld BY DEF ClaimsInv, HolderIffHeld, GoodRow
<1> QED BY <1>1, AlwaysInv, PTL

\* No overlap of thefts ever stores a count above the limit.
THEOREM StealsAreLimited == Spec => []StealLimit
<1>1. ClaimsInv => StealLimit BY DEF ClaimsInv, StealLimit, GoodRow
<1> QED BY <1>1, AlwaysInv, PTL

\* Without a lost write, the history of a claim is complete.
THEOREM HistoryIsComplete == Spec => []NobodyForgotten
<1>1. ClaimsInv => NobodyForgotten BY DEF ClaimsInv
<1> QED BY <1>1, AlwaysInv, PTL

(***************************************************************************)
(* Handoffs                                                                *)
(***************************************************************************)
PendingInv == IsFiniteSet(pending) /\ PendingHandoffs

\* Fewer handoffs are within the limit, too.
LEMMA FewerHandoffs ==
  ASSUME ClaimsInv, PendingInv, pending' \subseteq pending,
         \A c \in Claim : held[c] \subseteq held'[c]
  PROVE  PendingInv'
<1>1. IsFiniteSet(pending') BY FS_Subset DEF PendingInv
<1>2. ASSUME NEW c \in Claim
      PROVE  /\ Cardinality(PendingFor(c)') <= MaxPending
             /\ \A h \in PendingFor(c)' : h.by \in held'[c]
  <2>1. PendingFor(c)' \subseteq PendingFor(c) /\ PendingFor(c) \subseteq pending
    BY DEF PendingFor
  <2>2. IsFiniteSet(PendingFor(c)) BY <2>1, FS_Subset DEF PendingInv
  <2>3. IsFiniteSet(PendingFor(c)') /\ Cardinality(PendingFor(c)') <= Cardinality(PendingFor(c))
    BY <2>1, <2>2, FS_Subset
  <2>4. Cardinality(PendingFor(c)) \in Nat /\ Cardinality(PendingFor(c)') \in Nat
    BY <2>2, <2>3, FS_CardinalityType
  <2>5. Cardinality(PendingFor(c)) <= MaxPending /\ \A h \in PendingFor(c) : h.by \in held[c]
    BY DEF PendingInv, PendingHandoffs
  <2> QED BY <2>1, <2>3, <2>4, <2>5, ClaimsAssumption
<1> QED BY <1>1, <1>2 DEF PendingInv, PendingHandoffs, PendingFor

\* A request counts and adds in one step.
LEMMA RequestWithinLimit ==
  ASSUME ClaimsInv, PendingInv, NEW f \in Frame, Request(f)
  PROVE  PendingInv'
<1> DEFINE c == frames[f].claim
           h == [id |-> frames[f].op.id, claim |-> c, by |-> frames[f].seen.holder]
<1>1. CASE ~RoomFor(c)
  BY <1>1, FewerHandoffs DEF Request
<1>2. CASE RoomFor(c)
  <2>1. pending' = pending \cup {h} /\ UNCHANGED held BY <1>2 DEF Request
  <2>2. frames[f] \in Working
    BY DEF Request, ClaimsInv, TypeOK, Idle, Looking
  <2>3. c \in Claim BY <2>2 DEF Working
  <2>4. h.by \in held[c]
    <3>1. /\ GoodRow(frames[f].seen) /\ Allowed(frames[f].op, frames[f].seen)
          /\ Known(held, c, frames[f].seen)
      BY DEF Request, ClaimsInv, GoodFrame
    <3>2. frames[f].seen.holder # Nobody BY <3>1 DEF Request, Allowed
    <3> QED BY <3>1, <3>2 DEF Known, WithHolder
  <2> HIDE DEF c
  <2>5. h.claim = c OBVIOUS
  <2> HIDE DEF h
  <2>6. IsFiniteSet(pending') BY <2>1, FS_AddElement DEF PendingInv
  <2>7. ASSUME NEW d \in Claim
        PROVE  /\ Cardinality(PendingFor(d)') <= MaxPending
               /\ \A g \in PendingFor(d)' : g.by \in held'[d]
    <3>1. PendingFor(d) \subseteq pending /\ IsFiniteSet(PendingFor(d))
      BY FS_Subset DEF PendingFor, PendingInv
    <3>2. Cardinality(PendingFor(d)) \in Nat /\ Cardinality(PendingFor(d)) <= MaxPending
          /\ \A g \in PendingFor(d) : g.by \in held[d]
      BY <3>1, FS_CardinalityType DEF PendingInv, PendingHandoffs
    <3>3. CASE d # c
      <4>1. PendingFor(d)' = PendingFor(d) BY <2>1, <2>5, <3>3 DEF PendingFor
      <4> QED BY <2>1, <3>2, <4>1
    <3>4. CASE d = c
      <4>1. PendingFor(d)' = PendingFor(d) \cup {h} BY <2>1, <2>5, <3>4 DEF PendingFor
      <4>2. Cardinality(PendingFor(d)) < MaxPending BY <1>2, <3>4 DEF RoomFor
      <4>3. Cardinality(PendingFor(d)') <= Cardinality(PendingFor(d)) + 1
        BY <3>1, <3>2, <4>1, FS_AddElement
      <4>4. IsFiniteSet(PendingFor(d)') BY <3>1, <4>1, FS_AddElement
      <4>5. Cardinality(PendingFor(d)') \in Nat BY <4>4, FS_CardinalityType
      <4> QED BY <2>1, <2>4, <3>2, <3>4, <4>1, <4>2, <4>3, <4>5, ClaimsAssumption
    <3> QED BY <3>3, <3>4
  <2> QED BY <2>6, <2>7 DEF PendingInv, PendingHandoffs, PendingFor
<1> QED BY <1>1, <1>2

\* At most maxPendingPerClaim handoffs of a claim wait, however many requests
\* overlap, and each was asked for by somebody who had the claim.
THEOREM HandoffsAreLimited == Spec => []PendingHandoffs
<1>1. Init => PendingInv
  <2> SUFFICES ASSUME Init PROVE PendingInv OBVIOUS
  <2>1. pending = {} /\ \A c \in Claim : PendingFor(c) = {} BY DEF Init, PendingFor
  <2> QED BY <2>1, FS_EmptySet, ClaimsAssumption DEF PendingInv, PendingHandoffs
<1>2. ClaimsInv /\ PendingInv /\ [Next]_vars => PendingInv'
  <2> SUFFICES ASSUME ClaimsInv, PendingInv, [Next]_vars PROVE PendingInv' OBVIOUS
  <2>1. ASSUME NEW f \in Frame, Request(f) PROVE PendingInv'
    BY <2>1, RequestWithinLimit
  <2>2. ASSUME NEW c, NEW seen, NEW r, NEW who, Write(c, seen, r, who)
        PROVE  \A d \in Claim : held[d] \subseteq held'[d]
    BY <2>2 DEF Write, ClaimsInv, TypeOK
  <2>3. ASSUME NEW f \in Frame, Finish(f) PROVE PendingInv'
    <3>1. pending' \subseteq pending /\ \A d \in Claim : held[d] \subseteq held'[d]
      BY <2>2, <2>3 DEF Finish
    <3> QED BY <3>1, FewerHandoffs
  <2>4. ASSUME NEW p \in sweep, Expire(p[1], p[2]) PROVE PendingInv'
    <3>1. pending' \subseteq pending /\ \A d \in Claim : held[d] \subseteq held'[d]
      BY <2>2, <2>4 DEF Expire
    <3> QED BY <3>1, FewerHandoffs
  <2>5. pending' \subseteq pending /\ UNCHANGED held => PendingInv'
    BY FewerHandoffs
  <2>6. ASSUME NEW f \in Frame, HandOn(f) PROVE PendingInv' BY <2>5, <2>6 DEF HandOn
  <2>7. ASSUME NEW f \in Frame, NEW c \in Claim, NEW op \in Ops, Call(f, c, op) PROVE PendingInv'
    BY <2>5, <2>7 DEF Call
  <2>8. ASSUME NEW f \in Frame, NEW h \in pending, NEW b \in Claimant, Answer(f, h, b)
        PROVE  PendingInv'
    BY <2>5, <2>8 DEF Answer
  <2>9. ASSUME NEW h \in pending, Drop(h) PROVE PendingInv' BY <2>5, <2>9 DEF Drop
  <2>10. CASE Tick BY <2>5, <2>10 DEF Tick
  <2>11. ASSUME NEW a \in Agent, Crash(a) PROVE PendingInv' BY <2>5, <2>11 DEF Crash
  <2>12. CASE Sweep BY <2>5, <2>12 DEF Sweep
  <2>13. CASE UNCHANGED vars BY <2>5, <2>13 DEF vars
  <2> QED
    BY <2>1, <2>3, <2>4, <2>6, <2>7, <2>8, <2>9, <2>10, <2>11, <2>12, <2>13 DEF Next
<1>3. PendingInv => PendingHandoffs BY DEF PendingInv
<1> QED BY <1>1, <1>2, <1>3, AlwaysInv, PTL DEF Spec

(***************************************************************************)
(* The lock                                                                *)
(***************************************************************************)
\* A write over something its call had not read spoils the claim.
LEMMA BlindWriteSpoils ==
  ASSUME TypeOK, NEW c \in Claim, NEW seen, NEW r, NEW who, Write(c, seen, r, who), c \in raced'
  PROVE  Lock!Spoil(c)
<1>1. raced' \subseteq raced \cup {c} /\ raced \subseteq raced' BY DEF Write
<1>2. \A d \in Claim \ {c} : rows'[d] = rows[d] /\ mover'[d] = mover[d]
  BY DEF Write, TypeOK
<1>3. LockOwner' = [LockOwner EXCEPT ![c] = "spoilt"] BY <1>1, <1>2 DEF LockOwner, OwnerOf
<1>4. LockThefts' = [LockThefts EXCEPT ![c] = 0] BY <1>1, <1>2 DEF LockThefts
<1>5. LockMover' = [LockMover EXCEPT ![c] = Nobody] BY <1>1, <1>2 DEF LockMover
<1> QED BY <1>3, <1>4, <1>5 DEF Lock!Spoil, Lock!Becomes

\* Any other write replaces the row that was read.
LEMMA FairWriteMoves ==
  ASSUME TypeOK, NEW c \in Claim, NEW seen, NEW r, NEW who, Write(c, seen, r, who), c \notin raced'
  PROVE  /\ LockOwner[c] = OwnerOf(seen) /\ LockThefts[c] = seen.steals
         /\ LockMover[c] = mover[c]
         /\ LockOwner' = [LockOwner EXCEPT ![c] = OwnerOf(r)]
         /\ LockThefts' = [LockThefts EXCEPT ![c] = r.steals]
         /\ LockMover' = [LockMover EXCEPT ![c] = who]
<1>1. raced' = raced /\ rows[c] = seen /\ c \notin raced BY DEF Write
<1>2. rows' = [rows EXCEPT ![c] = r] /\ mover' = [mover EXCEPT ![c] = who] BY DEF Write
<1>3. rows \in [Claim -> Row] /\ mover \in [Claim -> Claimant \cup {Nobody}] BY DEF TypeOK
<1>4. rows'[c] = r /\ mover'[c] = who
      /\ \A d \in Claim \ {c} : rows'[d] = rows[d] /\ mover'[d] = mover[d]
  BY <1>2, <1>3
<1>5. LockOwner' = [LockOwner EXCEPT ![c] = OwnerOf(r)] BY <1>1, <1>4 DEF LockOwner, OwnerOf
<1>6. LockThefts' = [LockThefts EXCEPT ![c] = r.steals] BY <1>1, <1>4 DEF LockThefts
<1>7. LockMover' = [LockMover EXCEPT ![c] = who] BY <1>1, <1>4 DEF LockMover
<1> QED BY <1>1, <1>5, <1>6, <1>7 DEF LockOwner, LockThefts, LockMover

\* Who has a good row.
LEMMA OwnerOfGood ==
  ASSUME NEW r, GoodRow(r)
  PROVE  /\ r.status = "available" => OwnerOf(r) = "free"
         /\ r.status \in Holding => OwnerOf(r) = r.holder /\ r.holder \in Claimant
         /\ r.status \in Over => OwnerOf(r) = "over"
         /\ r.holder \in Claimant => r.status \in Holding
         /\ r.steals \in Nat
BY ClaimsAssumption DEF GoodRow, Row, Status, Holding, Over, OwnerOf

\* What each call does to the status, the holder and the count of a row.
LEMMA UpdatedParts ==
  ASSUME NEW op, NEW r, r \in Row
  PROVE  LET u == Updated(op, r) IN
         /\ op.do = "claim" => u.status = "claimed" /\ u.holder = op.by /\ u.steals = r.steals
         /\ op.do = "steal" => u.status = "claimed" /\ u.holder = op.by /\ u.steals = r.steals + 1
         /\ op.do = "release" => /\ u.status = op.to /\ u.steals = r.steals
                                 /\ u.holder = IF op.to = "claimed" THEN r.holder ELSE Nobody
         /\ op.do = "handoff" => u.status = r.status /\ u.holder = op.to /\ u.steals = r.steals
         /\ op.do = "status" => u.status = op.to /\ u.holder = r.holder /\ u.steals = r.steals
         /\ op.do = "escalate" => u.status = r.status /\ u.holder = r.holder /\ u.steals = r.steals
<1>1. op.do = "claim" => Updated(op, r) = Claimed(r, op.by) BY DEF Updated
<1>2. op.do = "steal" => Updated(op, r) = Stolen(r, op.by) BY DEF Updated
<1>3. op.do = "release" => Updated(op, r) = Released(r, op.to) BY DEF Updated
<1>4. op.do = "handoff" => Updated(op, r) = HandedOver(r, op.by, op.to) BY DEF Updated
<1>5. op.do = "status" => Updated(op, r) = [r EXCEPT !.status = op.to] BY DEF Updated
<1>6. op.do = "escalate" => Updated(op, r) = [r EXCEPT !.prio = r.prio + 1] BY DEF Updated
<1>7. CASE op.do = "claim" BY <1>1, <1>7 DEF Claimed, Row
<1>8. CASE op.do = "steal" BY <1>2, <1>8 DEF Stolen, Row
<1>9. CASE op.do = "release" BY <1>3, <1>9 DEF Released, Row
<1>10. CASE op.do = "handoff" BY <1>4, <1>10 DEF HandedOver, Row
<1>11. CASE op.do = "status" BY <1>5, <1>11 DEF Row
<1>12. CASE op.do = "escalate" BY <1>6, <1>12 DEF Row
<1> QED BY <1>7, <1>8, <1>9, <1>10, <1>11, <1>12

\* A call that overwrites nothing is a step of the lock, or one it does not see.
LEMMA CallMovesLock ==
  ASSUME ClaimsInv, NEW f \in Frame, Finish(f)
  PROVE  [Lock!LockNext]_<<LockOwner, LockThefts, LockMover>>
<1> DEFINE c == frames[f].claim  seen == frames[f].seen  op == frames[f].op
           u == Updated(op, seen)
           who == IF Moves(op) THEN op.by ELSE mover[c]
<1>1. frames[f] \in Working /\ op.do # "request"
  BY DEF Finish, ClaimsInv, TypeOK, Idle, Looking
<1>2. c \in Claim /\ op \in Ops BY <1>1 DEF Working
<1>3. GoodRow(seen) /\ Allowed(op, seen) BY DEF Finish, ClaimsInv, GoodFrame
<1>4. TypeOK /\ now \in Nat BY ClaimsAssumption DEF ClaimsInv, TypeOK
<1>5. GoodRow(u) BY <1>2, <1>3, <1>4, UpdatedIsGood
<1>6. Write(c, seen, u, who) BY DEF Finish
<1>7. seen \in Row BY <1>3 DEF GoodRow
<1> HIDE DEF c, seen, op, u, who
<1>8. CASE c \in raced'
  BY <1>2, <1>4, <1>6, <1>8, BlindWriteSpoils DEF Lock!LockNext
<1>9. CASE c \notin raced'
  <2>1. /\ LockOwner[c] = OwnerOf(seen) /\ LockThefts[c] = seen.steals
        /\ LockMover[c] = mover[c]
        /\ LockOwner' = [LockOwner EXCEPT ![c] = OwnerOf(u)]
        /\ LockThefts' = [LockThefts EXCEPT ![c] = u.steals]
        /\ LockMover' = [LockMover EXCEPT ![c] = who]
    BY <1>2, <1>4, <1>6, <1>9, FairWriteMoves
  <2>2. u.steals = seen.steals => LockThefts' = LockThefts
    BY <2>1 DEF LockThefts
  <2>3. CASE op.do = "claim"
    <3>1. op.by \in Claimant /\ who = op.by BY <1>2, <2>3, ByCall DEF who, Moves
    <3>2. OwnerOf(seen) = "free" BY <1>3, <2>3, OwnerOfGood DEF Allowed
    <3>3. OwnerOf(u) = op.by /\ u.steals = seen.steals
      BY <1>5, <1>7, <2>3, UpdatedParts, OwnerOfGood DEF u, Holding
    <3>4. Lock!Take(c, op.by) BY <2>1, <2>2, <3>1, <3>2, <3>3 DEF Lock!Take, Lock!Becomes
    <3> QED BY <1>2, <3>1, <3>4 DEF Lock!LockNext
  <2>4. CASE op.do = "steal"
    <3>1. op.by \in Claimant /\ who = op.by BY <1>2, <2>4, ByCall DEF who, Moves
    <3>2. OwnerOf(seen) \in Claimant /\ seen.steals < MaxSteals
      BY <1>3, <2>4, OwnerOfGood DEF Allowed, Stealable, Holding
    <3>3. OwnerOf(u) = op.by /\ u.steals = seen.steals + 1
      BY <1>5, <1>7, <2>4, UpdatedParts, OwnerOfGood DEF u, Holding
    <3>4. Lock!StealIt(c, op.by) BY <2>1, <3>1, <3>2, <3>3 DEF Lock!StealIt, Lock!Becomes
    <3> QED BY <1>2, <3>1, <3>4 DEF Lock!LockNext
  <2>5. CASE op.do \in {"release", "handoff", "status"}
    <3>1. op.by \in Claimant /\ seen.holder = op.by
      BY <1>2, <1>3, <2>5, ByCall DEF Allowed, IsClaimant
    <3>2. OwnerOf(seen) = op.by BY <1>3, <3>1, OwnerOfGood
    <3>3. CASE op.do = "release" /\ op.to = "available"
      <4>1. OwnerOf(u) = "free" /\ u.steals = seen.steals /\ who = op.by
        BY <1>5, <1>7, <3>3, UpdatedParts, OwnerOfGood DEF u, who, Moves
      <4>2. Lock!GiveBack(c, op.by) BY <2>1, <2>2, <3>2, <4>1 DEF Lock!GiveBack, Lock!Becomes
      <4> QED BY <1>2, <3>1, <4>2 DEF Lock!LockNext
    <3>4. CASE op.do = "release" /\ op.to \in {"completed", "abandoned"}
      <4>1. OwnerOf(u) = "over" /\ u.steals = seen.steals /\ who = op.by
        BY <1>5, <1>7, <3>4, UpdatedParts, OwnerOfGood DEF u, who, Moves, Over
      <4>2. Lock!EndIt(c, op.by) BY <2>1, <2>2, <3>2, <4>1 DEF Lock!EndIt, Lock!Becomes
      <4> QED BY <1>2, <3>1, <4>2 DEF Lock!LockNext
    <3>5. CASE op.do = "handoff"
      <4>1. op.to \in Claimant /\ who = op.by BY <1>2, <3>5, ByCall DEF who, Moves
      <4>2. OwnerOf(u) = op.to /\ u.steals = seen.steals
        BY <1>5, <1>7, <3>5, <4>1, UpdatedParts, OwnerOfGood DEF u
      <4>3. Lock!HandOver(c, op.by, op.to)
        BY <2>1, <2>2, <3>2, <4>1, <4>2 DEF Lock!HandOver, Lock!Becomes
      <4> QED BY <1>2, <3>1, <4>1, <4>3 DEF Lock!LockNext
    <3>6. CASE \/ op.do = "release" /\ op.to = "claimed"
               \/ op.do = "status"
      <4>1. u.holder = seen.holder /\ u.steals = seen.steals /\ who = mover[c]
        BY <1>7, <3>6, UpdatedParts DEF u, who, Moves
      <4>2. OwnerOf(u) = OwnerOf(seen) BY <1>5, <3>1, <3>2, <4>1, OwnerOfGood
      <4> QED BY <2>1, <2>2, <4>1, <4>2 DEF LockOwner, LockMover
    <3> QED BY <1>2, <2>5, <3>3, <3>4, <3>5, <3>6, ByCall
  <2>6. CASE op.do = "escalate"
    <3>1. u.holder = seen.holder /\ u.status = seen.status /\ u.steals = seen.steals
          /\ who = mover[c]
      BY <1>7, <2>6, UpdatedParts DEF u, who, Moves
    <3>2. OwnerOf(u) = OwnerOf(seen) BY <3>1 DEF OwnerOf
    <3> QED BY <2>1, <2>2, <3>1, <3>2 DEF LockOwner, LockMover
  <2> QED BY <1>1, <1>2, <2>3, <2>4, <2>5, <2>6, ByCall DEF op
<1> QED BY <1>8, <1>9

\* So is an expiry that overwrites nothing.
LEMMA ExpiryMovesLock ==
  ASSUME ClaimsInv, NEW c, NEW r, Expire(c, r)
  PROVE  Lock!LockNext
<1>1. <<c, r>> \in sweep /\ Write(c, r, Lapsed(r), Nobody) BY DEF Expire
<1>2. TypeOK /\ c \in Claim BY <1>1 DEF ClaimsInv, TypeOK
<1>3. GoodRow(r) /\ r.status = "claimed"
  <2> DEFINE p == <<c, r>>
  <2>1. GoodRow(p[2]) /\ p[2].status = "claimed" BY <1>1 DEF ClaimsInv
  <2> QED BY <2>1
<1>4. CASE c \in raced'
  BY <1>1, <1>2, <1>4, BlindWriteSpoils DEF Lock!LockNext
<1>5. CASE c \notin raced'
  <2>1. OwnerOf(r) \in Claimant BY <1>3, OwnerOfGood DEF Holding
  <2>2. OwnerOf(Lapsed(r)) = "over" /\ Lapsed(r).steals = r.steals
    BY <1>3, LapsedIsGood, OwnerOfGood DEF Over
  <2>3. /\ LockOwner[c] = OwnerOf(r) /\ LockThefts[c] = r.steals
        /\ LockOwner' = [LockOwner EXCEPT ![c] = "over"]
        /\ LockThefts' = [LockThefts EXCEPT ![c] = r.steals]
        /\ LockMover' = [LockMover EXCEPT ![c] = Nobody]
    BY <1>1, <1>2, <1>5, <2>2, FairWriteMoves
  <2>4. LockThefts' = LockThefts BY <2>3 DEF LockThefts
  <2>5. Lock!TimeOut(c) BY <2>1, <2>3, <2>4 DEF Lock!TimeOut, Lock!Becomes
  <2> QED BY <1>2, <2>5 DEF Lock!LockNext
<1> QED BY <1>4, <1>5

LEMMA StepMovesLock ==
  ASSUME ClaimsInv, [Next]_vars
  PROVE  [Lock!LockNext]_<<LockOwner, LockThefts, LockMover>>
<1>1. UNCHANGED <<rows, mover, raced>> => UNCHANGED <<LockOwner, LockThefts, LockMover>>
  BY DEF LockOwner, LockThefts, LockMover, OwnerOf
<1>2. ASSUME NEW f \in Frame, Finish(f)
      PROVE  [Lock!LockNext]_<<LockOwner, LockThefts, LockMover>>
  BY <1>2, CallMovesLock
<1>3. ASSUME NEW p \in sweep, Expire(p[1], p[2]) PROVE Lock!LockNext
  BY <1>3, ExpiryMovesLock
<1>4. ASSUME NEW f \in Frame, Request(f) PROVE UNCHANGED <<rows, mover, raced>>
  BY <1>4 DEF Request
<1>5. ASSUME NEW f \in Frame, HandOn(f) PROVE UNCHANGED <<rows, mover, raced>>
  BY <1>5 DEF HandOn
<1>6. ASSUME NEW f \in Frame, NEW c \in Claim, NEW op \in Ops, Call(f, c, op)
      PROVE  UNCHANGED <<rows, mover, raced>>
  BY <1>6 DEF Call
<1>7. ASSUME NEW f \in Frame, NEW h \in pending, NEW b \in Claimant, Answer(f, h, b)
      PROVE  UNCHANGED <<rows, mover, raced>>
  BY <1>7 DEF Answer
<1>8. ASSUME NEW h \in pending, Drop(h) PROVE UNCHANGED <<rows, mover, raced>> BY <1>8 DEF Drop
<1>9. CASE Tick BY <1>1, <1>9 DEF Tick
<1>10. ASSUME NEW a \in Agent, Crash(a) PROVE UNCHANGED <<rows, mover, raced>> BY <1>10 DEF Crash
<1>11. CASE Sweep BY <1>1, <1>11 DEF Sweep
<1>12. CASE UNCHANGED vars BY <1>1, <1>12 DEF vars
<1> QED
  BY <1>1, <1>2, <1>3, <1>4, <1>5, <1>6, <1>7, <1>8, <1>9, <1>10, <1>11, <1>12 DEF Next

\* The service implements the lock: a claim on which no call overwrote what it
\* had not read has one claimant at a time, is handed on, given back and
\* completed only by its holder, is stolen only so often and never comes back.
THEOREM ClaimsAreLocks == Spec => IsALock
<1>1. Init => Lock!LockInit
  <2> SUFFICES ASSUME Init PROVE Lock!LockInit OBVIOUS
  <2>1. LockOwner = [c \in Claim |-> "free"]
    BY DEF Init, LockOwner, OwnerOf, Fresh, Over
  <2>2. LockThefts = [c \in Claim |-> 0] BY DEF Init, LockThefts, Fresh
  <2>3. LockMover = [c \in Claim |-> Nobody] BY DEF Init, LockMover
  <2> QED BY <2>1, <2>2, <2>3 DEF Lock!LockInit
<1>2. ClaimsInv /\ [Next]_vars => [Lock!LockNext]_(Lock!lockVars)
  BY StepMovesLock DEF Lock!lockVars
<1> QED BY <1>1, <1>2, AlwaysInv, PTL DEF Spec, IsALock, Lock!LockSpec
=============================================================================
