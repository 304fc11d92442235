----------------------------- MODULE TaskFuture -----------------------------
(***************************************************************************)
(* What delegate_task and wait_task promise a requester, whatever happens  *)
(* to the target pane: a task ends at most once, its outcome never changes *)
(* afterwards, its channel is closed exactly once, and a wait on a task    *)
(* that has ended is answered with that outcome.                           *)
(***************************************************************************)
EXTENDS Naturals

CONSTANT Tasks

VARIABLES
    outcome,     \* [Tasks -> "unborn", "open", or how the task ended]
    closes,      \* [Tasks -> how often its channel was closed]
    answer       \* [Tasks -> where the wait on it is, or what it was told]

futureVars == <<outcome, closes, answer>>

Outcomes == {"done", "failed", "timeout"}

FutureInit ==
    /\ outcome = [t \in Tasks |-> "unborn"]
    /\ closes = [t \in Tasks |-> 0]
    /\ answer = [t \in Tasks |-> "none"]

Create(t) ==
    /\ outcome[t] = "unborn"
    /\ outcome' = [outcome EXCEPT ![t] = "open"]
    /\ UNCHANGED <<closes, answer>>

\* A pane that goes takes every task aimed at it.
End(S, o) ==
    /\ \A t \in S : outcome[t] = "open"
    /\ outcome' = [t \in Tasks |-> IF t \in S THEN o ELSE outcome[t]]
    /\ closes' = [t \in Tasks |-> IF t \in S THEN 1 ELSE closes[t]]
    /\ UNCHANGED answer

Ask(t) ==
    /\ outcome[t] # "unborn" /\ answer[t] = "none"
    /\ answer' = [answer EXCEPT ![t] = "parked"]
    /\ UNCHANGED <<outcome, closes>>

Answer(t) ==
    /\ answer[t] = "parked" /\ outcome[t] \in Outcomes
    /\ answer' = [answer EXCEPT ![t] = outcome[t]]
    /\ UNCHANGED <<outcome, closes>>

\* The wait's own timeout, or its connection, ends it without an outcome.
GiveUp(t) ==
    /\ answer[t] = "parked"
    /\ answer' = [answer EXCEPT ![t] = "gaveup"]
    /\ UNCHANGED <<outcome, closes>>

FutureNext ==
    \/ \E t \in Tasks : Create(t) \/ Ask(t) \/ Answer(t) \/ GiveUp(t)
    \/ \E S \in SUBSET Tasks, o \in Outcomes : End(S, o)

FutureSpec ==
    /\ FutureInit /\ [][FutureNext]_futureVars
    /\ WF_futureVars(\E t \in Tasks : Answer(t) \/ GiveUp(t))
=============================================================================
