------------------------------- MODULE Claims -------------------------------
(***************************************************************************)
(* Claims on pieces of test work (coordination/claims): the service, its   *)
(* repository and the handoff manager.                                     *)
(*                                                                         *)
(* Every call of the service reads the row of its claim, awaits, checks    *)
(* what it read, and writes the whole row back; nothing looks at the row   *)
(* again in between.  Calls of several claimants overlap, and the expiry   *)
(* timer writes rows it read a while ago.                                  *)
(***************************************************************************)
EXTENDS Naturals, FiniteSets

CONSTANTS
    Claim,       \* claims, made by createClaim
    Agent,       \* claimants of type 'agent'
    Human,       \* claimants of type 'human'
    Nobody,      \* undefined, as a claimant
    Frame,       \* calls that can be under way at once
    MaxSteals,   \* config.expiry.maxStealCount
    MaxPending,  \* config.maxPendingPerClaim
    MaxPriority, \* escalatePriority stops there ('p0')
    AgentTtl,    \* config.expiry.defaultAgentTtlMs
    HumanTtl,    \* config.expiry.defaultHumanTtlMs
    MaxCalls,    \* bound on calls
    MaxNow       \* bound on the clock

Claimant == Agent \cup Human

ASSUME ClaimsAssumption ==
    /\ Agent \cap Human = {} /\ Nobody \notin Claimant
    /\ {"free", "over", "spoilt"} \cap Claimant = {}
    /\ IsFiniteSet(Claim)
    /\ MaxSteals \in Nat /\ MaxPending \in Nat /\ MaxPriority \in Nat
    /\ AgentTtl \in Nat \ {0} /\ HumanTtl \in Nat \ {0}
    /\ MaxCalls \in Nat /\ MaxNow \in Nat

VARIABLES
    rows,     \* the repository
    frames,   \* the calls under way
    sweep,    \* what expireStale still has to write: pairs of a claim and its row
    pending,  \* pendingHandoffs
    dead,     \* claimants that crashed
    calls,    \* calls still to come
    now,      \* the clock
    held,     \* claimants each claim was ever given to
    mover,    \* on whose word each claim last changed hands; Nobody: the timer's
    raced     \* claims where a write overwrote a row its call had not read

vars == <<rows, frames, sweep, pending, dead, calls, now, held, mover, raced>>

Holding == {"claimed", "in-progress", "blocked"}
Over    == {"completed", "abandoned", "expired"}
Status  == {"available"} \cup Holding \cup Over

\* `due`: expiresAt, 0 when unset.
Row == [status : Status, holder : Claimant \cup {Nobody}, due : Nat,
        steals : Nat, past : SUBSET Claimant, prio : 0 .. MaxPriority]

\* The calls: what they do, for whom, and their other argument.
Ops == [do : {"claim", "steal"}, by : Claimant]
       \cup [do : {"release"}, by : Claimant, to : {"available", "completed", "abandoned", "claimed"}]
       \cup [do : {"handoff"}, by : Claimant, to : Claimant]
       \cup [do : {"status"}, by : Claimant, to : Holding]
       \cup [do : {"escalate"}] \cup [do : {"request"}, id : 1 .. MaxCalls]

Handoff == [id : 1 .. MaxCalls, claim : Claim, by : Claimant]

\* A call that awaits the row it asked for; one that is answering a handoff
\* first looks whether the claim exists.
Idle    == [at |-> "idle"]
Working == [at : {"read"}, claim : Claim, seen : Row, op : Ops, for : SUBSET Handoff]
Looking == [at : {"looking"}, handoff : Handoff, to : Claimant]

TypeOK ==
    /\ rows \in [Claim -> Row]
    /\ frames \in [Frame -> {Idle} \cup Working \cup Looking]
    /\ sweep \in SUBSET (Claim \X Row)
    /\ pending \in SUBSET Handoff
    /\ dead \in SUBSET Claimant
    /\ calls \in 0 .. MaxCalls /\ now \in 0 .. MaxNow
    /\ held \in [Claim -> SUBSET Claimant]
    /\ mover \in [Claim -> Claimant \cup {Nobody}]
    /\ raced \in SUBSET Claim

\* createClaim.
Fresh == [status |-> "available", holder |-> Nobody, due |-> 0,
          steals |-> 0, past |-> {}, prio |-> 0]

Init ==
    /\ rows = [c \in Claim |-> Fresh]
    /\ frames = [f \in Frame |-> Idle]
    /\ sweep = {} /\ pending = {} /\ dead = {}
    /\ calls = MaxCalls /\ now = 0
    /\ held = [c \in Claim |-> {}]
    /\ mover = [c \in Claim |-> Nobody]
    /\ raced = {}

(***************************************************************************)
(* claim-service.ts: the check of each method and the row it writes        *)
(***************************************************************************)
\* Mutant: anybody may release or hand over what is held.
IsClaimantAny(a, r) == r.holder # Nobody

Stealable(r)     == r.status \in {"claimed", "in-progress"} /\ r.steals < MaxSteals
Raisable(r)      == r.prio < MaxPriority
IsClaimant(a, r) == r.holder = a

Allowed(op, r) ==
    \/ op.do = "claim" /\ r.status = "available"
    \/ op.do = "steal" /\ Stealable(r)
    \/ op.do \in {"release", "handoff", "status"} /\ IsClaimant(op.by, r)
    \/ op.do = "escalate" /\ Raisable(r)
    \/ op.do = "request" /\ r.holder # Nobody

\* previousClaimants with the holder of r.
WithHolder(r) == r.past \cup ({r.holder} \ {Nobody})

Deadline(a) == now + IF a \in Agent THEN AgentTtl ELSE HumanTtl

Claimed(r, a) == [r EXCEPT !.status = "claimed", !.holder = a, !.due = Deadline(a)]

\* Mutant: the thief's victim is forgotten.
StolenForgotten(r, a) == [Claimed(r, a) EXCEPT !.steals = r.steals + 1]

\* The reasons 'handoff' and 'stolen' leave the claim with its claimant.
Released(r, to) ==
    [r EXCEPT !.status = to, !.holder = IF to = "claimed" THEN r.holder ELSE Nobody,
              !.due = 0, !.past = WithHolder(r)]

Stolen(r, a) ==
    [r EXCEPT !.status = "claimed", !.holder = a, !.due = Deadline(a),
              !.steals = r.steals + 1, !.past = WithHolder(r)]

HandedOver(r, a, b) == [r EXCEPT !.holder = b, !.due = Deadline(b), !.past = r.past \cup {a}]

Updated(op, r) ==
    CASE op.do = "claim"    -> Claimed(r, op.by)
      [] op.do = "release"  -> Released(r, op.to)
      [] op.do = "steal"    -> Stolen(r, op.by)
      [] op.do = "handoff"  -> HandedOver(r, op.by, op.to)
      [] op.do = "status"   -> [r EXCEPT !.status = op.to]
      [] op.do = "escalate" -> [r EXCEPT !.prio = r.prio + 1]
      [] OTHER              -> r

\* Calls that decide who has the claim.
Moves(op) ==
    \/ op.do \in {"claim", "steal", "handoff"}
    \/ op.do = "release" /\ op.to # "claimed"

\* repository.update, after `seen` was read.
Write(c, seen, r, who) ==
    /\ rows' = [rows EXCEPT ![c] = r]
    /\ mover' = [mover EXCEPT ![c] = who]
    /\ held' = [held EXCEPT ![c] = @ \cup ({r.holder} \ {Nobody})]
    /\ raced' = IF rows[c] = seen THEN raced ELSE raced \cup {c}

(***************************************************************************)
(* A call, from its read to its write                                      *)
(***************************************************************************)
Reads(f, c, op, for) ==
    /\ Allowed(op, rows[c])
    /\ frames' = [frames EXCEPT ![f] =
                    [at |-> "read", claim |-> c, seen |-> rows[c], op |-> op, for |-> for]]

\* A call whose check fails throws and changes nothing.
Call(f, c, op) ==
    /\ frames[f] = Idle /\ calls > 0
    /\ op.do \in {"claim", "release", "handoff", "status"} => op.by \notin dead
    /\ op.do = "request" => op.id = calls
    /\ Reads(f, c, op, {})
    /\ calls' = calls - 1
    /\ UNCHANGED <<rows, sweep, pending, dead, now, held, mover, raced>>

\* Answered handoffs leave the manager.
Finish(f) ==
    /\ frames[f].at = "read" /\ frames[f].op.do # "request"
    /\ LET c == frames[f].claim  op == frames[f].op
       IN  Write(c, frames[f].seen, Updated(op, frames[f].seen),
                 IF Moves(op) THEN op.by ELSE mover[c])
    /\ pending' = pending \ frames[f].for
    /\ frames' = [frames EXCEPT ![f] = Idle]
    /\ UNCHANGED <<sweep, dead, calls, now>>

(***************************************************************************)
(* handoff-manager.ts                                                      *)
(***************************************************************************)
PendingFor(c) == {h \in pending : h.claim = c}

\* Mutant: one too many.
RoomForOneMore(c) == Cardinality(PendingFor(c)) <= MaxPending

RoomFor(c) == Cardinality(PendingFor(c)) < MaxPending

\* requestHumanReview, requestAgentAssist: counted and added without an await
\* in between.
Request(f) ==
    /\ frames[f].at = "read" /\ frames[f].op.do = "request"
    /\ frames' = [frames EXCEPT ![f] = Idle]
    /\ LET c == frames[f].claim
           h == [id |-> frames[f].op.id, claim |-> c, by |-> frames[f].seen.holder]
       IN  pending' = IF RoomFor(c) THEN pending \cup {h} ELSE pending
    /\ UNCHANGED <<rows, sweep, dead, calls, now, held, mover, raced>>

Other(a) == IF a \in Agent THEN Human ELSE Agent

\* completeHandoff: first it looks for the claim, then it calls handoff().
Answer(f, h, b) ==
    /\ frames[f] = Idle /\ calls > 0
    /\ h \in pending /\ b \in Other(h.by) \ dead
    /\ frames' = [frames EXCEPT ![f] = [at |-> "looking", handoff |-> h, to |-> b]]
    /\ calls' = calls - 1
    /\ UNCHANGED <<rows, sweep, pending, dead, now, held, mover, raced>>

HandOn(f) ==
    /\ frames[f].at = "looking"
    /\ LET h == frames[f].handoff
           op == [do |-> "handoff", by |-> h.by, to |-> frames[f].to]
       IN  \/ Reads(f, h.claim, op, {h})
           \/ ~Allowed(op, rows[h.claim]) /\ frames' = [frames EXCEPT ![f] = Idle]
    /\ UNCHANGED <<rows, sweep, pending, dead, calls, now, held, mover, raced>>

\* cancelHandoff, cleanupExpiredHandoffs.
Drop(h) ==
    /\ h \in pending
    /\ pending' = pending \ {h}
    /\ UNCHANGED <<rows, frames, sweep, dead, calls, now, held, mover, raced>>

(***************************************************************************)
(* Time, crashes, expiry                                                   *)
(***************************************************************************)
Tick ==
    /\ now < MaxNow
    /\ now' = now + 1
    /\ UNCHANGED <<rows, frames, sweep, pending, dead, calls, held, mover, raced>>

Crash(a) ==
    /\ a \in Agent \ dead
    /\ dead' = dead \cup {a}
    /\ UNCHANGED <<rows, frames, sweep, pending, calls, now, held, mover, raced>>

Past(r) == r.due # 0 /\ r.due < now

\* Mutant: claims in work only.
ExpiredWorking(r) == r.status = "in-progress" /\ Past(r)

\* findExpired.
Expired(r) == r.status = "claimed" /\ Past(r)

\* expireStale reads all rows at once and writes them one at a time; a round
\* is over long before the timer starts the next.
Sweep ==
    /\ sweep = {}
    /\ \E c \in Claim : Expired(rows[c])
    /\ sweep' = {<<c, rows[c]>> : c \in {d \in Claim : Expired(rows[d])}}
    /\ UNCHANGED <<rows, frames, pending, dead, calls, now, held, mover, raced>>

Lapsed(r) == [r EXCEPT !.status = "expired", !.holder = Nobody, !.due = 0, !.past = WithHolder(r)]

Expire(c, r) ==
    /\ <<c, r>> \in sweep
    /\ sweep' = sweep \ {<<c, r>>}
    /\ Write(c, r, Lapsed(r), Nobody)
    /\ UNCHANGED <<frames, pending, dead, calls, now>>

Next ==
    \/ \E f \in Frame :
        \/ Finish(f) \/ Request(f) \/ HandOn(f)
        \/ \E c \in Claim, op \in Ops : Call(f, c, op)
        \/ \E h \in pending, b \in Claimant : Answer(f, h, b)
    \/ \E h \in pending : Drop(h)
    \/ Tick
    \/ \E a \in Agent : Crash(a)
    \/ Sweep
    \/ \E p \in sweep : Expire(p[1], p[2])

Spec == Init /\ [][Next]_vars

\* Timers fire and calls come to an end.
FairSpec ==
    /\ Spec
    /\ WF_vars(Sweep) /\ WF_vars(\E p \in sweep : Expire(p[1], p[2]))
    /\ \A f \in Frame : WF_vars(Finish(f) \/ HandOn(f))

(***************************************************************************)
(* Properties                                                              *)
(***************************************************************************)
\* A row names a claimant exactly while the claim is held, whatever overwrote
\* whatever.
HolderIffHeld == \A c \in Claim : rows[c].holder # Nobody <=> rows[c].status \in Holding

\* No row ever shows more thefts than the configuration allows.
StealLimit == \A c \in Claim : rows[c].steals <= MaxSteals

\* previousClaimants forgets nobody: who ever had the claim is in it, or has
\* the claim now.
NobodyForgotten ==
    \A c \in Claim \ raced : held[c] = WithHolder(rows[c])

\* At most maxPendingPerClaim handoffs wait, however requests interleave, and
\* whoever asked had the claim.
PendingHandoffs ==
    \A c \in Claim :
        /\ Cardinality(PendingFor(c)) <= MaxPending
        /\ \A h \in PendingFor(c) : h.by \in held[c]

OwnerOf(r) ==
    IF r.status \in Over THEN "over" ELSE IF r.holder = Nobody THEN "free" ELSE r.holder

LockOwner == [c \in Claim |-> IF c \in raced THEN "spoilt" ELSE OwnerOf(rows[c])]

LockThefts == [c \in Claim |-> IF c \in raced THEN 0 ELSE rows[c].steals]

LockMover == [c \in Claim |-> IF c \in raced THEN Nobody ELSE mover[c]]

Lock == INSTANCE ClaimLock WITH owner <- LockOwner, thefts <- LockThefts, mover <- LockMover

\* A claim whose calls did not overwrite each other is a lock: one claimant at
\* a time, taken only when free, handed on, given back and completed only by
\* its holder, stolen only so often, and never back once it is over.
IsALock == Lock!LockSpec

\* The claims of a crashed agent come free of it when they expire.
ExpiryTakesFromTheDead ==
    \A c \in Claim, a \in Agent :
        (a \in dead /\ rows[c].holder = a /\ rows[c].status = "claimed" /\ Past(rows[c]))
            ~> (rows[c].holder # a \/ rows[c].status # "claimed" \/ ~Past(rows[c]))

\* "Need claim system to prevent duplicate work": a call that succeeds passes its
\* check on the row it overwrites: a claim() finds the claim available, a
\* release() finds it with whoever releases it, and so on.
ChecksStillHold ==
    [][\A f \in Frame : Finish(f) => Allowed(frames[f].op, rows[frames[f].claim])]_vars
=============================================================================
