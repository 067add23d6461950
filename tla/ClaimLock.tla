----------------------------- MODULE ClaimLock -----------------------------
(***************************************************************************)
(* What the claim system promises of a claim: it is free, held by one      *)
(* claimant, or over for good.  Its holder alone hands it on, gives it     *)
(* back or ends it; others can steal it only so often; and a timer ends    *)
(* it.  A claim on which calls overwrote each other is spoilt: nothing is  *)
(* promised of it any more.                                                *)
(***************************************************************************)
EXTENDS Naturals

CONSTANTS
    Claim,      \* claims
    Claimant,   \* agents and humans
    Nobody,     \* the timer, as a mover
    MaxSteals   \* config.expiry.maxStealCount

VARIABLES
    owner,   \* a claimant, "free", "over" or "spoilt"
    thefts,  \* how often each claim was stolen
    mover    \* who made each claim what it is

lockVars == <<owner, thefts, mover>>

LockInit ==
    /\ owner = [c \in Claim |-> "free"]
    /\ thefts = [c \in Claim |-> 0]
    /\ mover = [c \in Claim |-> Nobody]

Becomes(c, o, a) ==
    /\ owner' = [owner EXCEPT ![c] = o]
    /\ mover' = [mover EXCEPT ![c] = a]

Take(c, a)        == owner[c] = "free" /\ Becomes(c, a, a) /\ UNCHANGED thefts
GiveBack(c, a)    == owner[c] = a /\ Becomes(c, "free", a) /\ UNCHANGED thefts
EndIt(c, a)       == owner[c] = a /\ Becomes(c, "over", a) /\ UNCHANGED thefts
HandOver(c, a, b) == owner[c] = a /\ Becomes(c, b, a) /\ UNCHANGED thefts
TimeOut(c)        == owner[c] \in Claimant /\ Becomes(c, "over", Nobody) /\ UNCHANGED thefts
Spoil(c)          == Becomes(c, "spoilt", Nobody) /\ thefts' = [thefts EXCEPT ![c] = 0]

StealIt(c, b) ==
    /\ owner[c] \in Claimant /\ thefts[c] < MaxSteals
    /\ Becomes(c, b, b)
    /\ thefts' = [thefts EXCEPT ![c] = @ + 1]

LockNext ==
    \E c \in Claim :
        \/ TimeOut(c) \/ Spoil(c)
        \/ \E a \in Claimant :
            \/ Take(c, a) \/ GiveBack(c, a) \/ EndIt(c, a) \/ StealIt(c, a)
            \/ \E b \in Claimant : HandOver(c, a, b)

LockSpec == LockInit /\ [][LockNext]_lockVars
=============================================================================
