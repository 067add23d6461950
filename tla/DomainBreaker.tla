---------------------------- MODULE DomainBreaker ---------------------------
(***************************************************************************)
(* The circuit breakers of the domains and their registry                  *)
(* (src/src/coordination/circuit-breaker).                                 *)
(*                                                                         *)
(* A breaker has no timer: getState makes an expired "open" half-open when *)
(* somebody looks.  Opening calls the state change handlers at once, so a  *)
(* cascade through the registry ends within the call that opened the first *)
(* breaker.  Time is kept as ages: how long ago a breaker opened and each  *)
(* failure happened.                                                       *)
(***************************************************************************)
EXTENDS Integers, Sequences, FiniteSets

CONSTANTS
    Domain,
    MaxVersion,         \* configureBreaker calls for one domain (a bound)
    FailureThreshold,   \* [Domain -> Nat \ {0}]: config.failureThreshold
    ResetTimeout,       \* [Domain -> Nat \ {0}]: config.resetTimeoutMs
    SuccessThreshold,   \* [Domain -> Nat \ {0}]: config.halfOpenSuccessThreshold
    FailureWindow,      \* [Domain -> Nat \ {0}]: config.failureWindowMs
    CascadeTargets,     \* [Domain -> SUBSET Domain]: {} when cascadeEnabled is off
    MaxTasks,           \* [Domain -> Nat]: its tasks under way at once (a bound)
    MaxCalls,           \* [Domain -> Nat]: calls under way in one breaker (a bound)
    Operated            \* domains somebody forces open, resets and configures

ASSUME BreakerAssumption ==
    /\ MaxVersion \in Nat
    /\ FailureThreshold \in [Domain -> Nat \ {0}]
    /\ ResetTimeout \in [Domain -> Nat \ {0}]
    /\ SuccessThreshold \in [Domain -> Nat \ {0}]
    /\ FailureWindow \in [Domain -> Nat \ {0}]
    /\ CascadeTargets \in [Domain -> SUBSET Domain]
    /\ MaxTasks \in [Domain -> Nat]
    /\ MaxCalls \in [Domain -> Nat]
    /\ Operated \subseteq Domain

VARIABLES
    breaker,   \* [Breaker -> record]: the objects, replaced ones included
    version,   \* [Domain -> Version]: which of them the registry holds
    calls,     \* [Breaker -> Nat]: fn's under way in execute
    tasks,     \* [Domain -> Nat]: tasks let through by canExecuteInDomain
    healed,    \* no work fails any more and no operator opens a breaker
    forced     \* domains forced open at this instant (a history variable)

vars == <<breaker, version, calls, tasks, healed, forced>>

Version == 0 .. MaxVersion
Breaker == Domain \X Version
BreakerState == {"closed", "open", "half-open"}

Record ==
    [state : BreakerState, failures : Seq(Nat), since : Nat, successes : Nat]

\* since: Date.now() - openedAt, up to the timeout; failures: their ages
Fresh == [state |-> "closed", failures |-> <<>>, since |-> 0, successes |-> 0]

TypeOK ==
    /\ breaker \in [Breaker -> Record]
    /\ \A b \in Breaker : /\ breaker[b].since <= ResetTimeout[b[1]]
                          /\ breaker[b].successes < SuccessThreshold[b[1]]
    /\ version \in [Domain -> Version]
    /\ calls \in [Breaker -> Nat]
    /\ tasks \in [Domain -> Nat]
    /\ healed \in BOOLEAN
    /\ forced \subseteq Domain

Init ==
    /\ breaker = [b \in Breaker |-> Fresh]
    /\ version = [d \in Domain |-> 0]
    /\ calls = [b \in Breaker |-> 0]
    /\ tasks = [d \in Domain |-> 0]
    /\ healed = FALSE
    /\ forced = {}

\* breakers.get(domain)
Current(d) == <<d, version[d]>>

(***************************************************************************)
(* getState and transitionTo                                               *)
(***************************************************************************)
Expired(b) == breaker[b].state = "open" /\ breaker[b].since >= ResetTimeout[b[1]]

HalfOpen(r) ==
    [state |-> "half-open", failures |-> r.failures, since |-> r.since,
     successes |-> 0]

\* the record once getState has run
Seen(b) == IF Expired(b) THEN HalfOpen(breaker[b]) ELSE breaker[b]

OpenedWithoutClock(r) ==
    [state |-> "open", failures |-> r.failures, since |-> r.since, successes |-> 0]

Opened(r) ==
    [state |-> "open", failures |-> r.failures, since |-> 0, successes |-> 0]

ClosedWithFailures(r) ==
    [state |-> "closed", failures |-> r.failures, since |-> 0, successes |-> 0]

\* also what reset does
Closed(r) ==
    [state |-> "closed", failures |-> <<>>, since |-> 0, successes |-> 0]

(***************************************************************************)
(* propagateCascade                                                        *)
(***************************************************************************)
TargetsAgainstTheArrow(b) ==
    {Current(d) : d \in {e \in Domain \ {b[1]} : b[1] \in CascadeTargets[e]}}

\* the breakers that an opening of b's domain forces open
Targets(b) ==
    {Current(d) : d \in {e \in CascadeTargets[b[1]] \ {b[1]} :
                            Seen(Current(e)).state # "open"}}

\* b, the breakers it forces open, those that these force open, and so on
Reached(b) ==
    {c \in Breaker : \A S \in SUBSET Breaker :
        (b \in S /\ \A s \in S : Targets(s) \subseteq S) => c \in S}

\* b, whose record has become r, opens, and the cascade runs
Open(b, r) ==
    breaker' = [c \in Breaker |-> IF c = b THEN Opened(r)
                                  ELSE IF c \in Reached(b) THEN Opened(Seen(c))
                                  ELSE breaker[c]]

Put(b, r) == breaker' = [breaker EXCEPT ![b] = r]

(***************************************************************************)
(* recordSuccess and recordFailure                                         *)
(***************************************************************************)
RecordSuccessOneMore(b) ==
    LET r == Seen(b)
    IN  Put(b, IF r.state # "half-open" THEN r
               ELSE IF r.successes >= SuccessThreshold[b[1]] THEN Closed(r)
               ELSE [state |-> "half-open", failures |-> r.failures,
                     since |-> r.since, successes |-> r.successes + 1])

RecordSuccess(b) ==
    LET r == Seen(b)
    IN  Put(b, IF r.state # "half-open" THEN r
               ELSE IF r.successes + 1 >= SuccessThreshold[b[1]] THEN Closed(r)
               ELSE [state |-> "half-open", failures |-> r.failures,
                     since |-> r.since, successes |-> r.successes + 1])

Young(q, b) == {i \in DOMAIN q : q[i] < FailureWindow[b[1]]}

\* the new failure is pushed, then cleanOldFailures: the list is in the order of
\* time, so that what it keeps are the last ones
Recent(b) ==
    LET q == Append(breaker[b].failures, 0)
    IN  SubSeq(q, Len(q) - Cardinality(Young(q, b)) + 1, Len(q))

Failed(b) ==
    [state |-> Seen(b).state, failures |-> Recent(b), since |-> Seen(b).since,
     successes |-> Seen(b).successes]

TooMany(b) == Len(Recent(b)) >= FailureThreshold[b[1]]

RecordFailure(b) ==
    IF \/ Failed(b).state = "half-open"
       \/ Failed(b).state = "closed" /\ TooMany(b)
    THEN Open(b, Failed(b))
    ELSE Put(b, Failed(b))

(***************************************************************************)
(* Requests                                                                *)
(***************************************************************************)
LetsThroughClosed(b) == Seen(b).state = "closed"

\* canExecute: closed or half-open
LetsThrough(b) == Seen(b).state # "open"

\* assignTaskToDomain asks canExecuteInDomain; the result of the task is
\* recorded with whatever breaker the registry holds by then
Admit(d) ==
    /\ LetsThrough(Current(d))
    /\ tasks[d] < MaxTasks[d]
    /\ Put(Current(d), Seen(Current(d)))
    /\ tasks' = [tasks EXCEPT ![d] = @ + 1]
    /\ UNCHANGED <<version, calls, healed, forced>>

\* executeInDomain: the result is recorded with the breaker that let it through
Execute(d) ==
    /\ LetsThrough(Current(d))
    /\ calls[Current(d)] < MaxCalls[d]
    /\ Put(Current(d), Seen(Current(d)))
    /\ calls' = [calls EXCEPT ![Current(d)] = @ + 1]
    /\ UNCHANGED <<version, tasks, healed, forced>>

Ends(b) == RecordSuccess(b) \/ (~healed /\ RecordFailure(b))

TaskEnds(d) ==
    /\ tasks[d] > 0
    /\ tasks' = [tasks EXCEPT ![d] = @ - 1]
    /\ Ends(Current(d))
    /\ UNCHANGED <<version, calls, healed, forced>>

CallEnds(b) ==
    /\ calls[b] > 0
    /\ calls' = [calls EXCEPT ![b] = @ - 1]
    /\ Ends(b)
    /\ UNCHANGED <<version, tasks, healed, forced>>

(***************************************************************************)
(* Observers and operators                                                 *)
(***************************************************************************)
\* getStats, getHealthSummary, getOpenDomains ... look, and so make half-open
Look(d) ==
    /\ Expired(Current(d))
    /\ Put(Current(d), Seen(Current(d)))
    /\ UNCHANGED <<version, calls, tasks, healed, forced>>

\* forceOpen looks at the raw state: an open breaker stays as it is
ForceOpen(d) ==
    /\ d \in Operated /\ ~healed
    /\ IF breaker[Current(d)].state = "open" THEN UNCHANGED breaker
       ELSE Open(Current(d), breaker[Current(d)])
    /\ forced' = forced \cup {d}
    /\ UNCHANGED <<version, calls, tasks, healed>>

Reset(d) ==
    /\ d \in Operated
    /\ Put(Current(d), Closed(breaker[Current(d)]))
    /\ forced' = forced \ {d}
    /\ UNCHANGED <<version, calls, tasks, healed>>

\* configureBreaker: a new breaker takes the place of the old one, which the
\* calls under way still hold
Configure(d) ==
    /\ d \in Operated
    /\ version[d] < MaxVersion
    /\ version' = [version EXCEPT ![d] = @ + 1]
    /\ forced' = forced \ {d}
    /\ UNCHANGED <<breaker, calls, tasks, healed>>

(***************************************************************************)
(* The world                                                               *)
(***************************************************************************)
Older(b) ==
    LET r == breaker[b]
    IN  [state |-> r.state,
         failures |-> [i \in DOMAIN r.failures |->
                         IF r.failures[i] < FailureWindow[b[1]]
                         THEN r.failures[i] + 1 ELSE r.failures[i]],
         since |-> IF r.state # "closed" /\ r.since < ResetTimeout[b[1]]
                   THEN r.since + 1 ELSE r.since,
         successes |-> r.successes]

Tick ==
    /\ breaker' = [b \in Breaker |-> Older(b)]
    /\ forced' = {}
    /\ UNCHANGED <<version, calls, tasks, healed>>

Heals ==
    /\ healed' = TRUE
    /\ UNCHANGED <<breaker, version, calls, tasks, forced>>

(***************************************************************************)
(* Specification                                                           *)
(***************************************************************************)
DomainStep(d) ==
    \/ Admit(d)
    \/ Execute(d)
    \/ TaskEnds(d)
    \/ Look(d)
    \/ ForceOpen(d)
    \/ Reset(d)
    \/ Configure(d)

Next ==
    \/ \E d \in Domain : DomainStep(d)
    \/ \E b \in Breaker : CallEnds(b)
    \/ Tick
    \/ Heals

Spec == Init /\ [][Next]_vars

\* Time passes, work keeps coming while the breaker lets it, and it ends.
Fairness ==
    /\ WF_vars(Tick)
    /\ \A d \in Domain : SF_vars(Admit(d)) /\ WF_vars(TaskEnds(d))
    /\ \A b \in Breaker : WF_vars(CallEnds(b))

FairSpec == Spec /\ Fairness

(***************************************************************************)
(* Properties                                                              *)
(***************************************************************************)
StateOf(d)  == Seen(Current(d)).state
WaitOf(d)   == IF StateOf(d) = "open"
               THEN ResetTimeout[d] - breaker[Current(d)].since ELSE 0
StreakOf(d) == Seen(Current(d)).successes

\* The promise of TimedBreaker, although no timer runs: what getState would
\* answer behaves as if one did.
Promise ==
    INSTANCE TimedBreaker WITH
        Dependents <- [d \in Domain |-> CascadeTargets[d] \ {d}],
        mode <- [d \in Domain |-> StateOf(d)],
        wait <- [d \in Domain |-> WaitOf(d)],
        streak <- [d \in Domain |-> StreakOf(d)]

KeepsPromise == Promise!TSpec

\* No breaker stays closed once failureThreshold failures lie in its window;
\* in particular it forgets the failures of before when it closes.
ClosedIsQuiet ==
    \A b \in Breaker :
        breaker[b].state = "closed" =>
            Cardinality(Young(breaker[b].failures, b)) < FailureThreshold[b[1]]

Opens(d) == StateOf(d) # "open" /\ StateOf(d)' = "open"

BreakerOpens(b) == Seen(b).state # "open" /\ Seen(b)'.state = "open"

\* d opens although no work of its own failed and no operator opened it.
OpensUnasked(d) ==
    /\ Opens(d) /\ tasks'[d] >= tasks[d]
    /\ calls'[Current(d)] >= calls[Current(d)] /\ d \notin forced'

\* A breaker of another domain, perhaps replaced, opens and has d as its target.
TakenAlong(d) ==
    \E b \in Breaker : b[1] # d /\ d \in CascadeTargets[b[1]] /\ BreakerOpens(b)

\* The blast radius: a domain that opens without a failure of its own work or
\* an operator is the cascade target of a domain that opens in the same step.
OnlyTargetsFollow ==
    [][\A d \in Domain : OpensUnasked(d) =>
          \E e \in Domain \ {d} : d \in CascadeTargets[e] /\ Opens(e)]_vars

\* With replaced breakers, whose late reports cascade too (configureBreaker wires
\* every breaker to the registry for good), it is the target of some breaker
\* that opens in the same step.
OpeningsHaveACause == [][\A d \in Domain : OpensUnasked(d) => TakenAlong(d)]_vars

\* Once no work fails any more, every breaker closes and stays closed.
Recovers == \A d \in Domain : healed ~> [](StateOf(d) = "closed")
=============================================================================
