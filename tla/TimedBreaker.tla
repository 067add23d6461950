---------------------------- MODULE TimedBreaker ----------------------------
(***************************************************************************)
(* What the domain circuit breakers promise: the state machine of ADR-064  *)
(* with a timer that fires by itself.  An open domain lets nothing through *)
(* for its whole timeout, a half-open one closes after enough successes    *)
(* in a row, and a domain never opens without the domains that depend on   *)
(* it being open as well.                                                  *)
(***************************************************************************)
EXTENDS Naturals

CONSTANTS
    Domain,
    ResetTimeout,       \* [Domain -> Nat \ {0}]
    SuccessThreshold,   \* [Domain -> Nat \ {0}]
    Dependents          \* [Domain -> SUBSET Domain]: they open with the domain

VARIABLES
    mode,    \* [Domain -> {"closed", "open", "half-open"}]
    wait,    \* what is left of the timeout of an open domain
    streak   \* successes in a row of a half-open domain

tvars == <<mode, wait, streak>>

TInit ==
    /\ mode = [d \in Domain |-> "closed"]
    /\ wait = [d \in Domain |-> 0]
    /\ streak = [d \in Domain |-> 0]

\* time passes; a timeout that ends makes its domain half-open
TTick ==
    /\ wait' = [d \in Domain |-> IF wait[d] > 0 THEN wait[d] - 1 ELSE 0]
    /\ mode' = [d \in Domain |-> IF mode[d] = "open" /\ wait[d] <= 1
                                 THEN "half-open" ELSE mode[d]]
    /\ UNCHANGED streak

\* The domains of S open together; each of their dependents opens with them
\* unless it is open already.
TTrip(S) ==
    /\ \A d \in S : mode[d] # "open"
    /\ \A d \in S : \A e \in Dependents[d] : e \in S \/ mode[e] = "open"
    /\ mode' = [d \in Domain |-> IF d \in S THEN "open" ELSE mode[d]]
    /\ wait' = [d \in Domain |-> IF d \in S THEN ResetTimeout[d] ELSE wait[d]]
    /\ streak' = [d \in Domain |-> IF d \in S THEN 0 ELSE streak[d]]

\* a success of a half-open domain, short of the threshold
TProbe(d) ==
    /\ mode[d] = "half-open"
    /\ streak[d] + 1 < SuccessThreshold[d]
    /\ streak' = [streak EXCEPT ![d] = @ + 1]
    /\ UNCHANGED <<mode, wait>>

TCloses(d) ==
    /\ mode' = [mode EXCEPT ![d] = "closed"]
    /\ wait' = [wait EXCEPT ![d] = 0]
    /\ streak' = [streak EXCEPT ![d] = 0]

\* the success that reaches the threshold
TRecover(d) ==
    /\ mode[d] = "half-open"
    /\ streak[d] + 1 = SuccessThreshold[d]
    /\ TCloses(d)

\* an operator resets the domain, or configures it anew
TReset(d) == TCloses(d)

TNext ==
    \/ TTick
    \/ \E S \in SUBSET Domain : TTrip(S)
    \/ \E d \in Domain : TProbe(d) \/ TRecover(d) \/ TReset(d)

TSpec == TInit /\ [][TNext]_tvars
=============================================================================
