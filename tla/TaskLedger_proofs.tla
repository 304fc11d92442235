-------------------------- MODULE TaskLedger_proofs --------------------------
(***************************************************************************)
(* What TaskLedger keeps for every set of tasks, emitters and settlers,    *)
(* and that each of its steps is a step of TaskFuture.                     *)
(*                                                                         *)
(* Every outcome is written by Ended, so most of the argument is one lemma *)
(* about it.  The rest is who may decide a completion: IInv says that no   *)
(* completion of a doomed task is decided, and that the ledger stays       *)
(* aborted as long as there is one.                                        *)
(***************************************************************************)
EXTENDS TaskLedger, FiniteSetTheorems, TLAPS

SeesCases == {"exit", "complete", "working", "fell"}

EmitterStates ==
    {Free} \cup [pc : {"observe"}, sees : SeesCases]
           \cup [pc : {"loop"}, sees : SeesCases, todo : SUBSET Tasks]
           \cup [pc : {"complete"}, sees : SeesCases, task : Tasks, todo : SUBSET Tasks]

SettlerStates ==
    {Free, [pc |-> "fired"]} \cup [pc : {"run"}, subs : SUBSET Tasks]

\* What TypeOK leaves open of the goroutines' records.
Shapes ==
    /\ emitter \in [Emitters -> EmitterStates]
    /\ settler \in [Settlers -> SettlerStates]

\* addLive lets one task of a pane be open at a time.
OneLive == \A t, u \in Tasks : Live(t) /\ Live(u) => t = u

\* task.done is closed by the step that ends the task, and by no other.
ClosedAtEnd == \A t \in Tasks : closes[t] = IF state[t] \in Terminal THEN 1 ELSE 0

\* A task is registered by its own call, once.
AddedOnce ==
    \A t \in Tasks : call[t] \in {"idle", "resolved"} => state[t] = "none"

\* Only a plain terminal's command ends its tasks by completing.
AgentsNeverComplete ==
    agent => \A e \in Emitters :
        emitter[e].pc \in {"observe", "loop", "complete"} => emitter[e].sees # "complete"

\* After an exit the ledger stays aborted, and nothing decides a completion for
\* a task that was open then.
DoomedUndecided ==
    agent => /\ doomed # {} => ledger.aborted
             /\ doomed \cap Decided = {}
             /\ \A t \in doomed : state[t] \notin {"none", "done"}

IInv ==
    /\ TypeOK /\ Shapes
    /\ OneLive /\ ClosedAtEnd /\ AddedOnce
    /\ AgentsNeverComplete /\ DoomedUndecided

----------------------------------------------------------------------------
(* What the operators do *)

LEMMA DecidedWhere ==
    ASSUME NEW t
    PROVE  t \in Decided <=>
             \/ \E e \in Emitters : emitter[e].pc = "complete" /\ emitter[e].task = t
             \/ \E s \in Settlers : settler[s].pc = "run" /\ t \in settler[s].subs
  BY DEF Decided

LEMMA DecidedWhereNext ==
    ASSUME NEW t
    PROVE  t \in Decided' <=>
             \/ \E e \in Emitters : emitter'[e].pc = "complete" /\ emitter'[e].task = t
             \/ \E s \in Settlers : settler'[s].pc = "run" /\ t \in settler'[s].subs
  BY DEF Decided

\* The ledger keeps its shape; its depth of subagents, its bound.
LEMMA AppliedType ==
    ASSUME TypeOK, NEW k, k = "substart" => ledger.sub < MaxSub
    PROVE  /\ Applied(ledger, k) \in [seen : BOOLEAN, turn : BOOLEAN, sub : 0 .. MaxSub,
                                       blocked : BOOLEAN, aborted : BOOLEAN]
           /\ ledger.aborted /\ k # "start" => Applied(ledger, k).aborted
           /\ k = "exit" => Applied(ledger, k).aborted
<1> USE DEF TypeOK
<1>a. MaxSub \in Nat /\ ledger.sub \in 0 .. MaxSub
  BY TaskLedgerAssumption
<1>b. /\ 0 \in 0 .. MaxSub /\ LessOne(ledger.sub) \in 0 .. MaxSub
      /\ ledger.sub < MaxSub => ledger.sub + 1 \in 0 .. MaxSub
  BY <1>a DEF LessOne
<1>1. CASE k = "start"
  BY <1>1 DEF Applied
<1>2. CASE k = "substart"
  BY <1>2, <1>b DEF Applied
<1>3. CASE k = "substop"
  BY <1>3, <1>b DEF Applied
<1>4. CASE k = "stop"
  BY <1>4 DEF Applied
<1>5. CASE k = "stopfinal"
  BY <1>5, <1>b DEF Applied
<1>6. CASE k = "park"
  BY <1>6 DEF Applied
<1>7. CASE k = "exit"
  BY <1>7, <1>b DEF Applied
<1>8. CASE k \notin {"start", "substart", "substop", "stop", "stopfinal", "park", "exit"}
  BY <1>8 DEF Applied
<1> QED
  BY <1>1, <1>2, <1>3, <1>4, <1>5, <1>6, <1>7, <1>8

\* Ending tasks writes the outcome of the open ones and closes each one's
\* channel, and touches no other.
LEMMA EndedWrites ==
    ASSUME TypeOK, ClosedAtEnd, NEW S \in SUBSET Tasks, NEW o \in Terminal, Ended(S, o)
    PROVE  /\ state' \in [Tasks -> {"none", "sent", "working"} \cup Terminal]
           /\ timer' \in [Tasks -> {"none", "armed"}]
           /\ closes' \in [Tasks -> Nat]
           /\ ClosedAtEnd'
           /\ \A t \in Tasks : state'[t] = IF t \in S /\ Live(t) THEN o ELSE state[t]
           /\ \A t \in Tasks : Live(t)' => Live(t)
           /\ \A t \in Tasks : state'[t] = "none" <=> state[t] = "none"
           /\ OneLive => OneLive'
<1> USE DEF TypeOK, Ended, Live, Terminal
<1>1. \A t \in Tasks : state'[t] = IF t \in S /\ Live(t) THEN o ELSE state[t]
  OBVIOUS
<1>2. \A t \in Tasks : closes'[t] = IF t \in S /\ Live(t) THEN closes[t] + 1 ELSE closes[t]
  OBVIOUS
<1>3. /\ state' \in [Tasks -> {"none", "sent", "working"} \cup Terminal]
      /\ timer' \in [Tasks -> {"none", "armed"}]
      /\ closes' \in [Tasks -> Nat]
  OBVIOUS
<1>4. \A t \in Tasks : Live(t)' => Live(t)
  BY <1>1
<1>5. ClosedAtEnd'
  BY <1>1, <1>2 DEF ClosedAtEnd
<1> QED
  BY <1>1, <1>3, <1>4, <1>5 DEF OneLive

\* Advancing one moves an open task only.
LEMMA AdvanceWrites ==
    ASSUME TypeOK, ClosedAtEnd, NEW t \in Tasks, Advance(t)
    PROVE  /\ state' \in [Tasks -> {"none", "sent", "working"} \cup Terminal]
           /\ \A u \in Tasks : state'[u] = "none" <=> state[u] = "none"
           /\ \A u \in Tasks : state'[u] = "done" <=> state[u] = "done"
           /\ ClosedAtEnd'
           /\ OneLive => OneLive'
<1> USE DEF Live, Terminal
<1>1. \A u \in Tasks : state'[u] = IF u = t /\ state[u] = "sent" THEN "working" ELSE state[u]
  BY DEF TypeOK, Advance
<1>2. /\ \A u \in Tasks : Live(u)' <=> Live(u)
      /\ \A u \in Tasks : state'[u] = "none" <=> state[u] = "none"
      /\ \A u \in Tasks : state'[u] = "done" <=> state[u] = "done"
  BY <1>1
<1>3. state' \in [Tasks -> {"none", "sent", "working"} \cup Terminal]
  BY DEF TypeOK, Advance
<1>4. ClosedAtEnd'
  BY <1>1 DEF ClosedAtEnd, Advance
<1>5. OneLive => OneLive'
  BY <1>2 DEF OneLive
<1> QED
  BY <1>2, <1>3, <1>4, <1>5

LEMMA LoopShape ==
    ASSUME NEW sees \in SeesCases, NEW todo \in SUBSET Tasks
    PROVE  /\ Loop(sees, todo) \in EmitterStates
           /\ Loop(sees, todo).pc \in {"free", "loop"}
           /\ Loop(sees, todo).pc = "loop" => Loop(sees, todo).sees = sees
  BY DEF Loop, Free, EmitterStates

----------------------------------------------------------------------------
(* The invariant is inductive. *)

LEMMA InitIInv == Init => IInv
<1> SUFFICES ASSUME Init PROVE IInv
  OBVIOUS
<1> USE TaskLedgerAssumption DEF Init
<1>a. MaxSub \in Nat /\ MaxEvents \in Nat
  OBVIOUS
<1>b. ledger \in [seen : BOOLEAN, turn : BOOLEAN, sub : 0 .. MaxSub,
                  blocked : BOOLEAN, aborted : BOOLEAN]
  <2>1. ledger = NewLedger \/ ledger = MidTurn
    OBVIOUS
  <2>2. 0 \in 0 .. MaxSub
    BY <1>a
  <2> HIDE DEF Init
  <2>3. CASE ledger = NewLedger
    BY <2>2, <2>3 DEF NewLedger
  <2>4. CASE ledger = MidTurn
    BY <2>2, <2>4 DEF NewLedger, MidTurn
  <2> QED
    BY <2>1, <2>3, <2>4
<1>1. TypeOK
  BY <1>a, <1>b DEF TypeOK, Terminal, Free
<1>2. Shapes
  BY DEF Shapes, EmitterStates, SettlerStates
<1>3. OneLive /\ ClosedAtEnd /\ AddedOnce
  BY DEF OneLive, ClosedAtEnd, AddedOnce, Live, Terminal
<1>4. AgentsNeverComplete /\ DoomedUndecided
  BY DEF AgentsNeverComplete, DoomedUndecided, Free
<1> QED
  BY <1>1, <1>2, <1>3, <1>4 DEF IInv

LEMMA EmitKeeps ==
    ASSUME IInv, NEW e \in Emitters, NEW k \in AgentEvents \cup ShellEvents, Emit(e, k)
    PROVE  IInv'
<1> DEFINE new == Applied(ledger, k)
           fell == Busy(ledger) /\ ~Busy(new) /\ k # "exit"
           sees == Sees(k, LedgerState(new), fell)
<1> USE DEF IInv
<1>1. /\ new \in [seen : BOOLEAN, turn : BOOLEAN, sub : 0 .. MaxSub,
                   blocked : BOOLEAN, aborted : BOOLEAN]
      /\ ledger.aborted /\ k # "start" => new.aborted
      /\ k = "exit" => new.aborted
  BY AppliedType DEF Emit
<1>2. sees \in SeesCases \cup {"nothing"} /\ (agent => sees # "complete")
  BY DEF Sees, SeesCases
<1>3. /\ emitter[e].pc = "free"
      /\ emitter' = [emitter EXCEPT ![e] =
             IF sees = "nothing" THEN Free ELSE [pc |-> "observe", sees |-> sees]]
      /\ ledger' = new /\ settler' = settler
  BY DEF Emit
<1>4. idleTimer' \in {"nil", "armed", "fired"} /\ loose' \in Nat
  BY DEF Emit, Window, WindowStopped, TypeOK
<1>5. /\ agent' = agent /\ agent' \in BOOLEAN
      /\ pane' \in {"up", "dead", "down", "gone"}
      /\ teardown' = teardown /\ subs' \subseteq Tasks
      /\ state' = state /\ closes' = closes /\ timer' = timer /\ call' = call
      /\ wait' = wait /\ doomed' \subseteq Tasks
  BY DEF Emit, TypeOK, taskVars, callVars
<1>6. events' \in 0 .. MaxEvents
  BY TaskLedgerAssumption DEF Emit, TypeOK
<1>7. /\ k = "exit" => doomed' = {t \in Tasks \ Decided : Live(t)}
      /\ k = "start" => doomed' = {}
      /\ k \notin {"exit", "start"} => doomed' = doomed
  BY DEF Emit
<1> HIDE DEF new, fell, sees
<1>8. Shapes'
  BY <1>2, <1>3 DEF Shapes, EmitterStates, Free
<1>9. \A f \in Emitters :
        /\ emitter'[f].pc \in {"free", "observe", "loop", "complete"}
        /\ emitter'[f].pc = "complete" => emitter'[f] = emitter[f]
        /\ emitter'[f] # emitter[f] => emitter'[f].pc = "free" \/ emitter'[f].sees = sees
  BY <1>3 DEF Shapes, TypeOK, Free
<1>10. TypeOK'
  BY <1>1, <1>3, <1>4, <1>5, <1>6, <1>9 DEF TypeOK
<1>11. OneLive' /\ ClosedAtEnd' /\ AddedOnce'
  BY <1>5 DEF OneLive, ClosedAtEnd, AddedOnce, Live
<1>12. AgentsNeverComplete'
  BY <1>2, <1>5, <1>9 DEF AgentsNeverComplete
<1>13. \A t : t \in Decided' => t \in Decided
  BY <1>3, <1>9, DecidedWhere, DecidedWhereNext
<1>14. DoomedUndecided'
  BY <1>1, <1>3, <1>5, <1>7, <1>13 DEF DoomedUndecided, Live
<1> QED
  BY <1>8, <1>10, <1>11, <1>12, <1>14

\* What a step keeps when it moves the goroutines only.
LEMMA TasksUntouched ==
    ASSUME IInv, UNCHANGED <<state, closes, call>>
    PROVE  OneLive' /\ ClosedAtEnd' /\ AddedOnce'
  BY DEF IInv, OneLive, ClosedAtEnd, AddedOnce, Live

LEMMA ObserveAllKeeps ==
    ASSUME IInv, NEW e \in Emitters, ObserveAll(e)
    PROVE  IInv'
<1> DEFINE next == Loop(emitter[e].sees, {t \in Tasks : Live(t)})
<1> USE DEF IInv
<1>1. /\ emitter[e].pc = "observe"
      /\ emitter' = [emitter EXCEPT ![e] = next]
      /\ UNCHANGED <<paneVars, ledgerVars, settler, taskVars, callVars, events, doomed>>
  BY DEF ObserveAll
<1>2. emitter[e].sees \in SeesCases
  BY <1>1 DEF Shapes, EmitterStates, Free
<1>3. /\ next \in EmitterStates /\ next.pc \in {"free", "loop"}
      /\ next.pc = "loop" => next.sees = emitter[e].sees
  BY <1>2, LoopShape
<1> HIDE DEF next
<1>4. \A f \in Emitters : emitter'[f] = IF f = e THEN next ELSE emitter[f]
  BY <1>1 DEF Shapes
<1>5. Shapes'
  BY <1>1, <1>3 DEF Shapes
<1>6. TypeOK'
  BY <1>1, <1>3, <1>4 DEF TypeOK, paneVars, ledgerVars, taskVars, callVars
<1>7. AgentsNeverComplete'
  BY <1>1, <1>3, <1>4 DEF AgentsNeverComplete, paneVars
<1>8. \A t : t \in Decided' => t \in Decided
  BY <1>1, <1>3, <1>4, DecidedWhere, DecidedWhereNext
<1>9. DoomedUndecided'
  BY <1>1, <1>8 DEF DoomedUndecided, paneVars, ledgerVars, taskVars
<1> QED
  BY <1>1, <1>5, <1>6, <1>7, <1>9, TasksUntouched DEF taskVars, callVars

\* onPaneIdle, for a fall: it decides a completion only when the child lives.
LEMMA OnPaneIdleKeeps ==
    ASSUME IInv, NEW e \in Emitters, NEW t \in Tasks, emitter[e].pc = "loop",
           emitter[e].sees = "fell",
           OnPaneIdle(e, t, Loop(emitter[e].sees, emitter[e].todo \ {t})),
           UNCHANGED <<paneVars, ledger, idleTimer, loose, settler, taskVars, callVars,
                       events, doomed>>
    PROVE  IInv'
<1> DEFINE todo == emitter[e].todo \ {t}
           next == Loop("fell", todo)
           done == [pc |-> "complete", sees |-> "fell", task |-> t, todo |-> todo]
<1> USE DEF IInv
<1>1. todo \in SUBSET Tasks
  BY DEF Shapes, EmitterStates, Free
<1>2. /\ next \in EmitterStates /\ next.pc \in {"free", "loop"}
      /\ next.pc = "loop" => next.sees = "fell"
  BY <1>1, LoopShape DEF SeesCases
<1>3. /\ \/ emitter' = [emitter EXCEPT ![e] = next]
         \/ ~ledger.aborted /\ emitter' = [emitter EXCEPT ![e] = done]
      /\ subs' \subseteq Tasks
  BY DEF OnPaneIdle, IdleNow, TypeOK
<1>4. done \in EmitterStates
  BY <1>1 DEF EmitterStates, SeesCases
<1> HIDE DEF next
<1>5. Shapes'
  BY <1>2, <1>3, <1>4 DEF Shapes
<1>6. /\ \A f \in Emitters \ {e} : emitter'[f] = emitter[f]
      /\ \/ emitter'[e] = next
         \/ ~ledger.aborted /\ emitter'[e] = done
  BY <1>3 DEF Shapes
<1>7. TypeOK'
  BY <1>2, <1>3, <1>6 DEF TypeOK, paneVars, taskVars, callVars
<1>8. AgentsNeverComplete'
  BY <1>2, <1>6 DEF AgentsNeverComplete, paneVars
<1>9. ledger.aborted => \A u : u \in Decided' => u \in Decided
  BY <1>2, <1>6, DecidedWhere, DecidedWhereNext
<1>10. DoomedUndecided'
  BY <1>9 DEF DoomedUndecided, paneVars, taskVars
<1> QED
  BY <1>5, <1>7, <1>8, <1>10, TasksUntouched DEF taskVars, callVars

\* The other cases of taskObserve write the task.
LEMMA ObservedKeeps ==
    ASSUME IInv, NEW e \in Emitters, NEW t \in Tasks, ObserveTask(e, t),
           emitter[e].sees # "fell"
    PROVE  IInv'
<1> DEFINE next == Loop(emitter[e].sees, emitter[e].todo \ {t})
<1> USE DEF IInv
<1>1. /\ emitter[e].pc = "loop"
      /\ emitter' = [emitter EXCEPT ![e] = next]
      /\ UNCHANGED <<paneVars, ledgerVars, settler, call, wait, events, doomed>>
  BY DEF ObserveTask, ledgerVars
<1>2. emitter[e].todo \in SUBSET Tasks /\ emitter[e].sees \in SeesCases
  BY <1>1 DEF Shapes, EmitterStates, Free
<1>3. /\ next \in EmitterStates /\ next.pc \in {"free", "loop"}
      /\ next.pc = "loop" => next.sees = emitter[e].sees
  BY <1>2, LoopShape
<1> HIDE DEF next
<1>4. \A f \in Emitters : emitter'[f] = IF f = e THEN next ELSE emitter[f]
  BY <1>1 DEF Shapes
<1>5. /\ state' \in [Tasks -> {"none", "sent", "working"} \cup Terminal]
      /\ timer' \in [Tasks -> {"none", "armed"}] /\ closes' \in [Tasks -> Nat]
      /\ OneLive' /\ ClosedAtEnd'
      /\ \A u \in Tasks : state'[u] = "none" <=> state[u] = "none"
      /\ agent => \A u \in Tasks : state'[u] = "done" => state[u] = "done"
  <2>1. CASE emitter[e].sees = "exit" /\ Ended({t}, "failed")
    <3>1. {t} \in SUBSET Tasks /\ "failed" \in Terminal
      BY DEF Terminal
    <3>2. TypeOK /\ ClosedAtEnd /\ OneLive
      OBVIOUS
    <3> HIDE DEF IInv
    <3>3. /\ state' \in [Tasks -> {"none", "sent", "working"} \cup Terminal]
          /\ timer' \in [Tasks -> {"none", "armed"}] /\ closes' \in [Tasks -> Nat]
          /\ OneLive' /\ ClosedAtEnd'
          /\ \A u \in Tasks : state'[u] = "none" <=> state[u] = "none"
          /\ \A u \in Tasks : state'[u] = IF u \in {t} /\ Live(u) THEN "failed" ELSE state[u]
      BY <2>1, <3>1, <3>2, EndedWrites
    <3>4. \A u \in Tasks : state'[u] = "done" => state[u] = "done"
      BY <3>3
    <3> QED
      BY <2>1, <3>1, <3>3, <3>4
  <2>2. CASE emitter[e].sees = "complete" /\ Ended({t}, "done")
    <3>1. {t} \in SUBSET Tasks /\ "done" \in Terminal /\ ~agent
      BY <1>1, <2>2 DEF Terminal, AgentsNeverComplete
    <3> QED
      BY <2>2, <3>1, EndedWrites
  <2>3. CASE emitter[e].sees = "working" /\ Advance(t)
    <3>1. timer' \in [Tasks -> {"none", "armed"}] /\ closes' \in [Tasks -> Nat]
      BY <2>3 DEF Advance, TypeOK
    <3>2. /\ state' \in [Tasks -> {"none", "sent", "working"} \cup Terminal]
          /\ OneLive' /\ ClosedAtEnd'
          /\ \A u \in Tasks : state'[u] = "none" <=> state[u] = "none"
          /\ \A u \in Tasks : state'[u] = "done" <=> state[u] = "done"
      BY <2>3, AdvanceWrites
    <3> QED
      BY <3>1, <3>2
  <2> QED
    BY <2>1, <2>2, <2>3 DEF ObserveTask
<1>6. Shapes'
  BY <1>1, <1>3 DEF Shapes
<1>7. TypeOK'
  BY <1>1, <1>3, <1>4, <1>5 DEF TypeOK, paneVars, ledgerVars
<1>8. AgentsNeverComplete'
  BY <1>1, <1>3, <1>4 DEF AgentsNeverComplete, paneVars
<1>9. AddedOnce'
  BY <1>1, <1>5 DEF AddedOnce
<1>10. \A u : u \in Decided' => u \in Decided
  BY <1>1, <1>3, <1>4, DecidedWhere, DecidedWhereNext
<1>11. DoomedUndecided'
  BY <1>1, <1>5, <1>10 DEF DoomedUndecided, paneVars, ledgerVars, TypeOK
<1> QED
  BY <1>5, <1>6, <1>7, <1>8, <1>9, <1>11

LEMMA ObserveTaskKeeps ==
    ASSUME IInv, NEW e \in Emitters, NEW t \in Tasks, ObserveTask(e, t)
    PROVE  IInv'
<1>1. CASE emitter[e].sees = "fell"
  BY <1>1, OnPaneIdleKeeps DEF ObserveTask, callVars
<1>2. CASE emitter[e].sees # "fell"
  BY <1>2, ObservedKeeps
<1> QED
  BY <1>1, <1>2

LEMMA CompleteKeeps ==
    ASSUME IInv, NEW e \in Emitters, Complete(e)
    PROVE  IInv'
<1> DEFINE next == Loop(emitter[e].sees, emitter[e].todo)
           t == emitter[e].task
<1> USE DEF IInv
<1>1. /\ emitter[e].pc = "complete" /\ Ended({t}, "done")
      /\ emitter' = [emitter EXCEPT ![e] = next]
      /\ UNCHANGED <<paneVars, ledgerVars, settler, call, wait, events, doomed>>
  BY DEF Complete
<1>2. emitter[e].todo \in SUBSET Tasks /\ emitter[e].sees \in SeesCases /\ t \in Tasks
  BY <1>1 DEF Shapes, EmitterStates, Free
<1>3. /\ next \in EmitterStates /\ next.pc \in {"free", "loop"}
      /\ next.pc = "loop" => next.sees = emitter[e].sees
  BY <1>2, LoopShape
<1>4. t \in Decided
  BY <1>1, DecidedWhere
<1> HIDE DEF next, t
<1>5. \A f \in Emitters : emitter'[f] = IF f = e THEN next ELSE emitter[f]
  BY <1>1 DEF Shapes
<1>6. /\ state' \in [Tasks -> {"none", "sent", "working"} \cup Terminal]
      /\ timer' \in [Tasks -> {"none", "armed"}] /\ closes' \in [Tasks -> Nat]
      /\ OneLive' /\ ClosedAtEnd'
      /\ \A u \in Tasks : state'[u] = "none" <=> state[u] = "none"
      /\ \A u \in Tasks \ {t} : state'[u] = state[u]
  <2>1. {t} \in SUBSET Tasks /\ "done" \in Terminal
    BY <1>2 DEF Terminal
  <2> QED
    BY <1>1, <2>1, EndedWrites
<1>7. Shapes'
  BY <1>1, <1>3 DEF Shapes
<1>8. TypeOK'
  BY <1>1, <1>3, <1>5, <1>6 DEF TypeOK, paneVars, ledgerVars
<1>9. AgentsNeverComplete'
  BY <1>1, <1>3, <1>5 DEF AgentsNeverComplete, paneVars
<1>10. AddedOnce'
  BY <1>1, <1>6 DEF AddedOnce
<1>11. \A u : u \in Decided' => u \in Decided
  BY <1>1, <1>3, <1>5, DecidedWhere, DecidedWhereNext
<1>12. DoomedUndecided'
  BY <1>1, <1>4, <1>6, <1>11 DEF DoomedUndecided, paneVars, ledgerVars, TypeOK
<1> QED
  BY <1>6, <1>7, <1>8, <1>9, <1>10, <1>12

\* The settle window elapses, decides and runs its subscribers; settleIdle
\* decides nothing for an aborted pane.
LEMMA SettlingKeeps ==
    ASSUME IInv, NEW s \in Settlers, Settling(s) \/ WindowElapses(s)
    PROVE  IInv'
<1> USE DEF IInv
<1>1. CASE WindowElapses(s)
  <2>1. UNCHANGED <<paneVars, ledger, subs, emitter, taskVars, callVars, events, doomed>>
    BY <1>1 DEF WindowElapses
  <2>2. /\ settler' = [settler EXCEPT ![s] = [pc |-> "fired"]]
        /\ idleTimer' \in {"nil", "armed", "fired"} /\ loose' \in Nat
    BY <1>1 DEF WindowElapses, TypeOK
  <2>3. \A r \in Settlers : settler'[r] = IF r = s THEN [pc |-> "fired"] ELSE settler[r]
    BY <2>2 DEF Shapes
  <2>4. Shapes'
    BY <2>1, <2>2 DEF Shapes, SettlerStates
  <2>5. TypeOK'
    BY <2>1, <2>2, <2>3 DEF TypeOK, paneVars, taskVars, callVars
  <2>6. \A u : u \in Decided' => u \in Decided
    BY <2>1, <2>3, DecidedWhere, DecidedWhereNext
  <2>7. AgentsNeverComplete' /\ DoomedUndecided'
    BY <2>1, <2>6 DEF AgentsNeverComplete, DoomedUndecided, paneVars, taskVars
  <2> QED
    BY <2>1, <2>4, <2>5, <2>7, TasksUntouched DEF taskVars, callVars
<1>2. CASE Settle(s)
  <2> DEFINE run == [pc |-> "run", subs |-> subs]
  <2>1. UNCHANGED <<paneVars, ledger, emitter, taskVars, callVars, events, doomed>>
    BY <1>2 DEF Settle
  <2>a. /\ idleTimer' \in {"nil", "armed", "fired"} /\ loose' \in Nat
        /\ subs' \subseteq Tasks
    BY <1>2 DEF Settle, TypeOK
  <2>b. \/ settler' = [settler EXCEPT ![s] = Free]
        \/ settler' = [settler EXCEPT ![s] = run] /\ ~ledger.aborted
    <3>1. CASE LedgerState(ledger) = "idle" /\ ~ledger.aborted
      BY <1>2, <3>1 DEF Settle
    <3>2. CASE ~(LedgerState(ledger) = "idle" /\ ~ledger.aborted)
      BY <1>2, <3>2 DEF Settle
    <3> QED
      BY <3>1, <3>2
  <2>2. /\ \/ settler' = [settler EXCEPT ![s] = Free]
           \/ settler' = [settler EXCEPT ![s] = run] /\ ~ledger.aborted
        /\ idleTimer' \in {"nil", "armed", "fired"} /\ loose' \in Nat
        /\ subs' \subseteq Tasks
    BY <2>a, <2>b
  <2>3. run \in SettlerStates
    BY DEF SettlerStates, TypeOK
  <2>4. /\ \A r \in Settlers \ {s} : settler'[r] = settler[r]
        /\ settler'[s] = Free \/ (settler'[s] = run /\ ~ledger.aborted)
    BY <2>2 DEF Shapes
  <2>5. Shapes'
    BY <2>1, <2>2, <2>3 DEF Shapes, SettlerStates
  <2>6. TypeOK'
    <3>1. \A r \in Settlers : settler'[r].pc \in {"free", "fired", "run"}
      BY <2>4 DEF TypeOK, Free
    <3> QED
      BY <2>1, <2>2, <3>1 DEF TypeOK, paneVars, taskVars, callVars
  <2>7. ledger.aborted => \A u : u \in Decided' => u \in Decided
    BY <2>1, <2>4, DecidedWhere, DecidedWhereNext DEF Free
  <2>8. AgentsNeverComplete' /\ DoomedUndecided'
    BY <2>1, <2>7 DEF AgentsNeverComplete, DoomedUndecided, paneVars, taskVars
  <2> QED
    BY <2>1, <2>5, <2>6, <2>8, TasksUntouched DEF taskVars, callVars
<1>3. CASE SettleGone(s)
  <2>1. /\ UNCHANGED <<paneVars, ledgerVars, emitter, taskVars, callVars, events, doomed>>
        /\ settler' = [settler EXCEPT ![s] = Free]
    BY <1>3 DEF SettleGone
  <2>2. \A r \in Settlers : settler'[r] = IF r = s THEN Free ELSE settler[r]
    BY <2>1 DEF Shapes
  <2>3. Shapes'
    BY <2>1 DEF Shapes, SettlerStates
  <2>4. TypeOK'
    BY <2>1, <2>2 DEF TypeOK, paneVars, ledgerVars, taskVars, callVars, Free
  <2>5. \A u : u \in Decided' => u \in Decided
    BY <2>1, <2>2, DecidedWhere, DecidedWhereNext DEF Free
  <2>6. AgentsNeverComplete' /\ DoomedUndecided'
    BY <2>1, <2>5
    DEF AgentsNeverComplete, DoomedUndecided, paneVars, ledgerVars, taskVars
  <2> QED
    BY <2>1, <2>3, <2>4, <2>6, TasksUntouched DEF taskVars, callVars
<1>4. ASSUME SettleRun(s), settler[s].subs = {}, settler' = [settler EXCEPT ![s] = Free],
             UNCHANGED <<taskVars, timer>>
      PROVE  IInv'
  <2>1. UNCHANGED <<paneVars, ledgerVars, emitter, taskVars, callVars, events, doomed>>
    BY <1>4 DEF SettleRun, callVars
  <2>2. \A r \in Settlers : settler'[r] = IF r = s THEN Free ELSE settler[r]
    BY <1>4 DEF Shapes
  <2>3. Shapes'
    BY <1>4, <2>1 DEF Shapes, SettlerStates
  <2>4. TypeOK'
    BY <2>1, <2>2 DEF TypeOK, paneVars, ledgerVars, taskVars, callVars, Free
  <2>5. \A u : u \in Decided' => u \in Decided
    BY <2>1, <2>2, DecidedWhere, DecidedWhereNext DEF Free
  <2>6. AgentsNeverComplete' /\ DoomedUndecided'
    BY <2>1, <2>5
    DEF AgentsNeverComplete, DoomedUndecided, paneVars, ledgerVars, taskVars
  <2> QED
    BY <2>1, <2>3, <2>4, <2>6, TasksUntouched DEF taskVars, callVars
<1>5. ASSUME SettleRun(s), NEW t \in settler[s].subs, Ended({t}, "done"),
             settler' = [settler EXCEPT ![s].subs = @ \ {t}]
      PROVE  IInv'
  <2>1. /\ settler[s].pc = "run"
        /\ UNCHANGED <<paneVars, ledgerVars, emitter, call, wait, events, doomed>>
    BY <1>5 DEF SettleRun
  <2>2. /\ settler[s] \in [pc : {"run"}, subs : SUBSET Tasks]
        /\ t \in Tasks /\ t \in Decided
    BY <1>5, <2>1, DecidedWhere DEF Shapes, SettlerStates, Free
  <2>3. /\ settler'[s] \in [pc : {"run"}, subs : SUBSET Tasks]
        /\ settler'[s].subs \subseteq settler[s].subs
        /\ settler' \in [Settlers -> SettlerStates]
        /\ \A r \in Settlers \ {s} : settler'[r] = settler[r]
    BY <1>5, <2>2 DEF Shapes, SettlerStates
  <2>4. /\ state' \in [Tasks -> {"none", "sent", "working"} \cup Terminal]
        /\ timer' \in [Tasks -> {"none", "armed"}] /\ closes' \in [Tasks -> Nat]
        /\ OneLive' /\ ClosedAtEnd'
        /\ \A u \in Tasks : state'[u] = "none" <=> state[u] = "none"
        /\ \A u \in Tasks \ {t} : state'[u] = state[u]
    <3>1. {t} \in SUBSET Tasks /\ "done" \in Terminal
      BY <2>2 DEF Terminal
    <3> QED
      BY <1>5, <3>1, EndedWrites
  <2>5. Shapes'
    BY <2>1, <2>3 DEF Shapes
  <2>6. TypeOK'
    BY <2>1, <2>3, <2>4 DEF TypeOK, paneVars, ledgerVars
  <2>7. \A u : u \in Decided' => u \in Decided
    BY <2>1, <2>3, DecidedWhere, DecidedWhereNext
  <2>8. AgentsNeverComplete'
    BY <2>1 DEF AgentsNeverComplete, paneVars
  <2>9. DoomedUndecided'
    BY <2>1, <2>2, <2>4, <2>7 DEF DoomedUndecided, paneVars, ledgerVars, TypeOK
  <2>10. AddedOnce'
    BY <2>1, <2>4 DEF AddedOnce
  <2> QED
    BY <2>4, <2>5, <2>6, <2>8, <2>9, <2>10
<1>6. CASE SettleRun(s)
  BY <1>4, <1>5, <1>6 DEF SettleRun
<1> QED
  BY <1>1, <1>2, <1>3, <1>6 DEF Settling

\* Tasks that fail or time out disturb nothing else.
LEMMA EndedKeeps ==
    ASSUME IInv, NEW S \in SUBSET Tasks, NEW o \in {"failed", "timeout"}, Ended(S, o),
           UNCHANGED <<agent, ledger, doomed, emitter, settler>>
    PROVE  /\ state' \in [Tasks -> {"none", "sent", "working"} \cup Terminal]
           /\ timer' \in [Tasks -> {"none", "armed"}] /\ closes' \in [Tasks -> Nat]
           /\ Shapes' /\ OneLive' /\ ClosedAtEnd'
           /\ \A t \in Tasks : state'[t] = "none" <=> state[t] = "none"
           /\ AgentsNeverComplete' /\ DoomedUndecided'
<1> USE DEF IInv
<1>1. /\ state' \in [Tasks -> {"none", "sent", "working"} \cup Terminal]
      /\ timer' \in [Tasks -> {"none", "armed"}] /\ closes' \in [Tasks -> Nat]
      /\ OneLive' /\ ClosedAtEnd'
      /\ \A t \in Tasks : state'[t] = "none" <=> state[t] = "none"
      /\ \A t \in Tasks : state'[t] = "done" => state[t] = "done"
  <2>1. o \in Terminal /\ o # "done"
    BY DEF Terminal
  <2> QED
    BY <2>1, EndedWrites
<1>2. Shapes' /\ AgentsNeverComplete'
  BY DEF Shapes, AgentsNeverComplete
<1>3. \A t : t \in Decided' => t \in Decided
  BY DecidedWhere, DecidedWhereNext
<1>4. DoomedUndecided'
  BY <1>1, <1>3 DEF DoomedUndecided, TypeOK
<1> QED
  BY <1>1, <1>2, <1>4

\* A step that moves neither a task's state nor the goroutines.
LEMMA CallsKeep ==
    ASSUME IInv, UNCHANGED <<agent, ledger, doomed, emitter, settler, state, closes>>
    PROVE  /\ Shapes' /\ OneLive' /\ ClosedAtEnd'
           /\ AgentsNeverComplete' /\ DoomedUndecided'
<1> USE DEF IInv
<1>1. Shapes' /\ AgentsNeverComplete' /\ OneLive' /\ ClosedAtEnd'
  BY DEF Shapes, AgentsNeverComplete, OneLive, ClosedAtEnd, Live
<1>2. \A t : t \in Decided' => t \in Decided
  BY DecidedWhere, DecidedWhereNext
<1>3. DoomedUndecided'
  BY <1>2 DEF DoomedUndecided
<1> QED
  BY <1>1, <1>3

\* delegateTask, the timeouts and wait_task.
LEMMA TaskStepKeeps ==
    ASSUME IInv, NEW t \in Tasks,
           Delegating(t) \/ TimerFires(t) \/ WaitTask(t) \/ WaitEnds(t)
    PROVE  IInv'
<1> USE DEF IInv
<1>1. CASE Resolve(t) \/ Refuse(t) \/ Arm(t) \/ NoTimeout(t)
  <2>1. /\ UNCHANGED <<paneVars, ledgerVars, emitter, settler, taskVars, wait, events, doomed>>
        /\ timer' \in [Tasks -> {"none", "armed"}]
        /\ \/ call[t] = "idle" /\ call' = [call EXCEPT ![t] = "resolved"]
           \/ call' = [call EXCEPT ![t] = "replied"]
    BY <1>1 DEF Resolve, Refuse, Arm, NoTimeout, TypeOK
  <2>2. TypeOK'
    BY <2>1 DEF TypeOK, paneVars, ledgerVars, taskVars
  <2>3. AddedOnce'
    BY <2>1 DEF AddedOnce, TypeOK, taskVars
  <2> QED
    BY <2>1, <2>2, <2>3, CallsKeep DEF paneVars, ledgerVars, taskVars
<1>2. CASE AddLive(t)
  <2>1. /\ UNCHANGED <<paneVars, ledgerVars, emitter, settler, closes, timer, wait,
                       events, doomed>>
        /\ call[t] = "resolved" /\ call' = [call EXCEPT ![t] = "added"]
        /\ state' = [state EXCEPT ![t] = "sent"]
        /\ \A u \in Tasks : ~Live(u)
    BY <1>2 DEF AddLive, PaneTaken
  <2>2. state[t] = "none"
    BY <2>1 DEF AddedOnce
  <2>3. TypeOK'
    BY <2>1 DEF TypeOK, paneVars, ledgerVars
  <2>4. Shapes' /\ AgentsNeverComplete'
    BY <2>1 DEF Shapes, AgentsNeverComplete, paneVars
  <2>5. \A u \in Tasks : state'[u] = IF u = t THEN "sent" ELSE state[u]
    BY <2>1 DEF TypeOK
  <2>6. OneLive' /\ ClosedAtEnd' /\ AddedOnce'
    BY <2>1, <2>2, <2>5 DEF OneLive, ClosedAtEnd, AddedOnce, Live, TypeOK, Terminal
  <2>7. \A u : u \in Decided' => u \in Decided
    BY <2>1, DecidedWhere, DecidedWhereNext
  <2>8. DoomedUndecided'
    BY <2>1, <2>5, <2>7 DEF DoomedUndecided, paneVars, ledgerVars, TypeOK
  <2> QED
    BY <2>3, <2>4, <2>6, <2>8
<1>3. CASE DeliverFails(t) \/ (TimerFires(t) /\ Live(t))
  <2>1. PICK o \in {"failed", "timeout"} : Ended({t}, o)
    BY <1>3 DEF DeliverFails, TimerFires
  <2>2. /\ UNCHANGED <<paneVars, ledgerVars, emitter, settler, wait, events, doomed>>
        /\ call' = call \/ call' = [call EXCEPT ![t] = "replied"]
    BY <1>3 DEF DeliverFails, TimerFires
  <2>3. {t} \in SUBSET Tasks
    OBVIOUS
  <2>4. UNCHANGED <<agent, ledger, doomed, emitter, settler>>
    BY <2>2 DEF paneVars, ledgerVars
  <2>5. /\ state' \in [Tasks -> {"none", "sent", "working"} \cup Terminal]
        /\ timer' \in [Tasks -> {"none", "armed"}] /\ closes' \in [Tasks -> Nat]
        /\ Shapes' /\ OneLive' /\ ClosedAtEnd'
        /\ \A u \in Tasks : state'[u] = "none" <=> state[u] = "none"
        /\ AgentsNeverComplete' /\ DoomedUndecided'
    BY <2>1, <2>3, <2>4, EndedKeeps
  <2>6. TypeOK'
    BY <2>2, <2>5 DEF TypeOK, paneVars, ledgerVars
  <2>7. AddedOnce'
    BY <2>2, <2>5 DEF AddedOnce, TypeOK
  <2> QED
    BY <2>5, <2>6, <2>7
<1>4. CASE (TimerFires(t) /\ ~Live(t)) \/ WaitTask(t) \/ WaitEnds(t)
  <2>1. /\ UNCHANGED <<paneVars, ledgerVars, emitter, settler, taskVars, call, events, doomed>>
        /\ timer' \in [Tasks -> {"none", "armed"}]
        /\ wait' \in [Tasks -> {"none", "parked", "gaveup", "sent", "working"} \cup Terminal]
    <3>1. CASE TimerFires(t) /\ ~Live(t)
      BY <3>1 DEF TimerFires, TypeOK
    <3>2. CASE WaitTask(t)
      BY <3>2 DEF WaitTask, TypeOK
    <3>3. CASE WaitEnds(t)
      <4>1. closes[t] > 0 => state[t] \in Terminal
        BY DEF ClosedAtEnd
      <4> QED
        BY <3>3, <4>1 DEF WaitEnds, TypeOK
    <3> QED
      BY <1>4, <3>1, <3>2, <3>3
  <2>2. TypeOK' /\ AddedOnce'
    BY <2>1 DEF TypeOK, AddedOnce, paneVars, ledgerVars, taskVars
  <2> QED
    BY <2>1, <2>2, CallsKeep DEF paneVars, ledgerVars, taskVars
<1>5. \/ Resolve(t) \/ Refuse(t) \/ Arm(t) \/ NoTimeout(t)
      \/ AddLive(t)
      \/ DeliverFails(t) \/ (TimerFires(t) /\ Live(t))
      \/ (TimerFires(t) /\ ~Live(t)) \/ WaitTask(t) \/ WaitEnds(t)
  BY DEF Delegating
<1> HIDE DEF IInv
<1> QED
  BY <1>1, <1>2, <1>3, <1>4, <1>5

LEMMA TearingDownKeeps ==
    ASSUME IInv, TearingDown
    PROVE  IInv'
<1> USE DEF IInv
<1>1. CASE DestroyCleanup \/ RestartFail
  <2>1. /\ Ended(Tasks, "failed")
        /\ UNCHANGED <<agent, ledgerVars, emitter, settler, call, wait, events, doomed>>
        /\ pane' \in {"up", "dead", "down", "gone"}
        /\ teardown' \in {"none", "unlist", "reset"}
    BY <1>1 DEF DestroyCleanup, RestartFail, FailTasks
  <2>2. Tasks \in SUBSET Tasks
    OBVIOUS
  <2>3. UNCHANGED <<agent, ledger, doomed, emitter, settler>>
    BY <2>1 DEF ledgerVars
  <2>4. /\ state' \in [Tasks -> {"none", "sent", "working"} \cup Terminal]
        /\ timer' \in [Tasks -> {"none", "armed"}] /\ closes' \in [Tasks -> Nat]
        /\ Shapes' /\ OneLive' /\ ClosedAtEnd'
        /\ \A u \in Tasks : state'[u] = "none" <=> state[u] = "none"
        /\ AgentsNeverComplete' /\ DoomedUndecided'
    BY <2>1, <2>2, <2>3, EndedKeeps
  <2>5. TypeOK'
    BY <2>1, <2>4 DEF TypeOK, ledgerVars
  <2>6. AddedOnce'
    BY <2>1, <2>4 DEF AddedOnce
  <2> QED
    BY <2>4, <2>5, <2>6
<1>2. CASE DestroyPane
  <2>1. /\ UNCHANGED <<agent, ledgerVars, emitter, settler, taskVars, callVars, events, doomed>>
        /\ pane' = "gone" /\ teardown' = "none"
    BY <1>2 DEF DestroyPane
  <2>2. TypeOK' /\ AddedOnce'
    BY <2>1 DEF TypeOK, AddedOnce, ledgerVars, taskVars, callVars
  <2> QED
    BY <2>1, <2>2, CallsKeep DEF ledgerVars, taskVars
<1>3. CASE RestartReset
  <2>1. /\ UNCHANGED <<agent, emitter, settler, taskVars, callVars, events>>
        /\ idleTimer' = "nil" /\ loose' = loose
        /\ ledger' = NewLedger /\ subs' = {} /\ doomed' = {}
        /\ pane' = "up" /\ teardown' = "none"
    BY <1>3 DEF RestartReset, WindowStopped
  <2>2. 0 \in 0 .. MaxSub
    BY TaskLedgerAssumption
  <2>3. NewLedger \in [seen : BOOLEAN, turn : BOOLEAN, sub : 0 .. MaxSub,
                      blocked : BOOLEAN, aborted : BOOLEAN]
    BY <2>2 DEF NewLedger
  <2>4. TypeOK'
    BY <2>1, <2>3 DEF TypeOK, taskVars, callVars
  <2>5. Shapes' /\ AgentsNeverComplete' /\ DoomedUndecided'
    BY <2>1 DEF Shapes, AgentsNeverComplete, DoomedUndecided
  <2> QED
    BY <2>1, <2>4, <2>5, TasksUntouched DEF taskVars, callVars
<1> QED
  BY <1>1, <1>2, <1>3 DEF TearingDown

LEMMA NextKeeps == IInv /\ [Next]_vars => IInv'
<1> SUFFICES ASSUME IInv, [Next]_vars PROVE IInv'
  OBVIOUS
<1>1. ASSUME NEW e \in Emitters, Observing(e) PROVE IInv'
  BY <1>1, ObserveAllKeeps, ObserveTaskKeeps, CompleteKeeps DEF Observing
<1>2. ASSUME NEW e \in Emitters, NEW k \in AgentEvents \cup ShellEvents, Emit(e, k)
      PROVE  IInv'
  BY <1>2, EmitKeeps
<1>3. ASSUME NEW s \in Settlers, Settling(s) \/ WindowElapses(s) PROVE IInv'
  BY <1>3, SettlingKeeps
<1>4. ASSUME NEW t \in Tasks, Delegating(t) \/ TimerFires(t) \/ WaitTask(t) \/ WaitEnds(t)
      PROVE  IInv'
  BY <1>4, TaskStepKeeps
<1>5. CASE TearingDown
  BY <1>5, TearingDownKeeps
<1>6. CASE UNCHANGED vars
  <2>1. UNCHANGED <<agent, pane, teardown, ledger, idleTimer, loose, subs, emitter, settler,
                    state, closes, timer, call, wait, events, doomed>>
    BY <1>6 DEF vars, paneVars, ledgerVars, taskVars, callVars
  <2>2. TypeOK' /\ AddedOnce'
    BY <2>1 DEF IInv, TypeOK, AddedOnce
  <2> QED
    BY <2>1, <2>2, CallsKeep DEF IInv
<1> QED
  BY <1>1, <1>2, <1>3, <1>4, <1>5, <1>6 DEF Next

\* The invariant, in every reachable state.
THEOREM LedgerInvariance == Spec => []IInv
  BY InitIInv, NextKeeps, PTL DEF Spec

----------------------------------------------------------------------------
(* The properties *)

\* The types, and no two open tasks an idle could speak for: the pane has one
\* open task at most, whatever the closures and the decided completions name.
THEOREM LedgerAlwaysSound == Spec => []LedgerSound
<1>1. ASSUME IInv PROVE LedgerSound
  <2> DEFINE S == {t \in Tasks : Live(t)} \cap (subs \cup Decided)
  <2>1. \A t, u \in S : t = u
    BY <1>1 DEF IInv, OneLive
  <2>2. Cardinality(S) <= 1
    <3>1. CASE S = {}
      BY <3>1, FS_EmptySet
    <3>2. CASE S # {}
      <4>1. PICK t \in S : S = {t}
        BY <2>1, <3>2
      <4>2. Cardinality({t}) = 1
        BY FS_Singleton
      <4> HIDE DEF S
      <4> QED
        BY <4>1, <4>2
    <3> QED
      BY <3>1, <3>2
  <2> QED
    BY <1>1, <2>2 DEF IInv, LedgerSound, OneTaskPerIdle
<1> QED
  BY <1>1, LedgerInvariance, PTL

\* An agent's task that was open when its process exited, its completion not
\* yet decided, is never written done: a crash beats a completion.
THEOREM CrashBeatsCompletion == Spec => []DeadNeverDone
<1>1. IInv => DeadNeverDone
  BY DEF IInv, DoomedUndecided, DeadNeverDone
<1> QED
  BY <1>1, LedgerInvariance, PTL

\* A pane has one open task at most, whoever delegates, and a task's channel is
\* closed exactly when the task has ended, and once.
THEOREM OneOpenTaskClosedOnce == Spec => [](OneLive /\ ClosedAtEnd)
<1>1. IInv => OneLive /\ ClosedAtEnd
  BY DEF IInv
<1> QED
  BY <1>1, LedgerInvariance, PTL

----------------------------------------------------------------------------
(* Every step is a step of TaskFuture. *)

LEMMA FutureStutters ==
    ASSUME TypeOK, UNCHANGED <<closes, wait>>,
           \A t \in Tasks : Live(t)' <=> Live(t),
           \A t \in Tasks : ~Live(t) => state'[t] = state[t]
    PROVE  UNCHANGED Future!futureVars
<1> DEFINE out == [t \in Tasks |-> CASE state[t] = "none" -> "unborn"
                                     [] Live(t) -> "open"
                                     [] OTHER -> state[t]]
<1>1. \A t \in Tasks : out'[t] = out[t]
  BY DEF Live
<1>2. out' = out
  BY <1>1
<1> QED
  BY <1>2 DEF Future!futureVars

LEMMA EndedIsEnd ==
    ASSUME IInv, NEW S \in SUBSET Tasks, NEW o \in Terminal, Ended(S, o), wait' = wait
    PROVE  Future!FutureNext
<1> DEFINE out == [t \in Tasks |-> CASE state[t] = "none" -> "unborn"
                                     [] Live(t) -> "open"
                                     [] OTHER -> state[t]]
           open == {t \in S : Live(t)}
<1>1. \A t \in Tasks : state'[t] = IF t \in open THEN o ELSE state[t]
  BY EndedWrites DEF IInv
<1>2. \A t \in open : out[t] = "open"
  BY DEF Live
<1>3. out' = [t \in Tasks |-> IF t \in open THEN o ELSE out[t]]
  BY <1>1 DEF Live, Terminal
<1>4. closes' = [t \in Tasks |-> IF t \in open THEN 1 ELSE closes[t]]
  BY DEF Ended, IInv, ClosedAtEnd, Live, Terminal
<1>5. open \in SUBSET Tasks /\ o \in {"done", "failed", "timeout"}
  BY DEF Terminal
<1>6. Future!End(open, o)
  <2> HIDE DEF open
  <2> QED
    BY <1>2, <1>3, <1>4 DEF Future!End
<1> QED
  BY <1>5, <1>6 DEF Future!FutureNext, Future!Outcomes

\* The initial states are TaskFuture's.
LEMMA InitSimulates == Init => Future!FutureInit
<1> SUFFICES ASSUME Init PROVE Future!FutureInit
  OBVIOUS
<1>1. \A t \in Tasks : state[t] = "none"
  BY DEF Init
<1>2. /\ closes = [t \in Tasks |-> 0]
      /\ wait = [t \in Tasks |-> "none"]
  BY DEF Init
<1> QED
  BY <1>1, <1>2 DEF Future!FutureInit, Live

\* Every step ends tasks together, creates one, asks, answers or gives up, or
\* is none of the requester's business.
LEMMA StepSimulates ==
    ASSUME IInv, [Next]_vars
    PROVE  [Future!FutureNext]_(Future!futureVars)
<1> USE DEF IInv
<1>1. ASSUME UNCHANGED <<state, closes, wait>> PROVE UNCHANGED Future!futureVars
  BY <1>1 DEF Future!futureVars, Live
<1>2. ASSUME NEW e \in Emitters, Observing(e)
      PROVE  [Future!FutureNext]_(Future!futureVars)
  <2>1. CASE ObserveAll(e)
    BY <1>1, <2>1 DEF ObserveAll, taskVars, callVars
  <2>2. CASE Complete(e)
    <3>1. {emitter[e].task} \in SUBSET Tasks /\ "done" \in Terminal
      BY <2>2 DEF Complete, Shapes, EmitterStates, Free, Terminal
    <3> QED
      BY <2>2, <3>1, EndedIsEnd DEF Complete
  <2>3. ASSUME NEW t \in Tasks, ObserveTask(e, t)
        PROVE  [Future!FutureNext]_(Future!futureVars)
    <3>1. wait' = wait
      BY <2>3 DEF ObserveTask
    <3>2. {t} \in SUBSET Tasks /\ {"done", "failed"} \subseteq Terminal
      BY DEF Terminal
    <3>3. CASE Ended({t}, "failed") \/ Ended({t}, "done")
      BY <3>1, <3>2, <3>3, EndedIsEnd
    <3>4. CASE Advance(t)
      <4>1. /\ closes' = closes
            /\ \A u \in Tasks : Live(u)' <=> Live(u)
            /\ \A u \in Tasks : ~Live(u) => state'[u] = state[u]
        BY <3>4 DEF Advance, Live, TypeOK
      <4> QED
        BY <3>1, <4>1, FutureStutters
    <3>5. CASE UNCHANGED <<taskVars, timer>>
      BY <1>1, <3>1, <3>5 DEF taskVars
    <3> QED
      BY <2>3, <3>3, <3>4, <3>5 DEF ObserveTask
  <2> QED
    BY <1>2, <2>1, <2>2, <2>3 DEF Observing
<1>3. ASSUME NEW s \in Settlers, Settling(s) \/ WindowElapses(s)
      PROVE  [Future!FutureNext]_(Future!futureVars)
  <2>1. CASE WindowElapses(s) \/ Settle(s) \/ SettleGone(s)
    BY <1>1, <2>1 DEF WindowElapses, Settle, SettleGone, taskVars, callVars
  <2>2. CASE SettleRun(s)
    <3>1. wait' = wait
      BY <2>2 DEF SettleRun
    <3>2. CASE UNCHANGED <<taskVars, timer>>
      BY <1>1, <3>1, <3>2 DEF taskVars
    <3>3. ASSUME NEW t \in settler[s].subs, Ended({t}, "done")
          PROVE  Future!FutureNext
      <4>1. {t} \in SUBSET Tasks /\ "done" \in Terminal
        BY <2>2 DEF SettleRun, Shapes, SettlerStates, Free, Terminal
      <4> QED
        BY <3>1, <3>3, <4>1, EndedIsEnd
    <3> QED
      BY <2>2, <3>2, <3>3 DEF SettleRun
  <2> QED
    BY <1>3, <2>1, <2>2 DEF Settling
<1>4. ASSUME NEW t \in Tasks, Delegating(t) \/ TimerFires(t) \/ WaitTask(t) \/ WaitEnds(t)
      PROVE  [Future!FutureNext]_(Future!futureVars)
  <2> DEFINE out == [u \in Tasks |-> CASE state[u] = "none" -> "unborn"
                                       [] Live(u) -> "open"
                                       [] OTHER -> state[u]]
  <2>1. CASE Resolve(t) \/ Refuse(t) \/ Arm(t) \/ NoTimeout(t)
    BY <1>1, <2>1 DEF Resolve, Refuse, Arm, NoTimeout, taskVars
  <2>2. CASE AddLive(t)
    <3>1. /\ UNCHANGED <<closes, wait>> /\ call[t] = "resolved"
          /\ state' = [state EXCEPT ![t] = "sent"]
      BY <2>2 DEF AddLive
    <3>a. state[t] = "none"
      BY <3>1 DEF AddedOnce
    <3>2. out[t] = "unborn"
      BY <3>a DEF Live
    <3>3. out' = [out EXCEPT ![t] = "open"]
      BY <3>1 DEF TypeOK, Live
    <3>4. Future!Create(t)
      BY <3>1, <3>2, <3>3 DEF Future!Create
    <3> QED
      BY <3>4 DEF Future!FutureNext
  <2>3. CASE DeliverFails(t) \/ (TimerFires(t) /\ Live(t))
    <3>1. PICK o \in Terminal : Ended({t}, o)
      BY <2>3 DEF DeliverFails, TimerFires, Terminal
    <3>2. wait' = wait /\ {t} \in SUBSET Tasks
      BY <2>3 DEF DeliverFails, TimerFires
    <3> QED
      BY <3>1, <3>2, EndedIsEnd
  <2>4. CASE TimerFires(t) /\ ~Live(t)
    BY <1>1, <2>4 DEF TimerFires, taskVars
  <2>5. CASE WaitTask(t)
    <3>1. /\ UNCHANGED <<state, closes>>
          /\ state[t] # "none" /\ wait[t] = "none"
          /\ wait' = [wait EXCEPT ![t] = "parked"]
      BY <2>5 DEF WaitTask, taskVars
    <3>2. out' = out /\ out[t] # "unborn"
      BY <3>1 DEF Live, TypeOK, Terminal
    <3>3. Future!Ask(t)
      BY <3>1, <3>2 DEF Future!Ask
    <3> QED
      BY <3>3 DEF Future!FutureNext
  <2>6. CASE WaitEnds(t)
    <3>1. /\ UNCHANGED <<state, closes>> /\ wait[t] = "parked"
          /\ \/ closes[t] > 0 /\ wait' = [wait EXCEPT ![t] = state[t]]
             \/ wait' = [wait EXCEPT ![t] = "gaveup"]
      BY <2>6 DEF WaitEnds, taskVars
    <3>2. out' = out
      BY <3>1 DEF Live
    <3>3. CASE wait' = [wait EXCEPT ![t] = "gaveup"]
      <4>1. Future!GiveUp(t)
        BY <3>1, <3>2, <3>3 DEF Future!GiveUp
      <4> QED
        BY <4>1 DEF Future!FutureNext
    <3>4. CASE closes[t] > 0 /\ wait' = [wait EXCEPT ![t] = state[t]]
      <4>1. state[t] \in Terminal /\ out[t] = state[t]
        BY <3>4 DEF ClosedAtEnd, Live, Terminal
      <4>2. Future!Answer(t)
        BY <3>1, <3>2, <3>4, <4>1 DEF Future!Answer, Future!Outcomes, Terminal
      <4> QED
        BY <4>2 DEF Future!FutureNext
    <3> QED
      BY <3>1, <3>3, <3>4
  <2> QED
    BY <1>4, <2>1, <2>2, <2>3, <2>4, <2>5, <2>6 DEF Delegating
<1>5. CASE TearingDown
  <2>1. CASE DestroyCleanup \/ RestartFail
    <3>1. Tasks \in SUBSET Tasks /\ "failed" \in Terminal
      BY DEF Terminal
    <3> QED
      BY <2>1, <3>1, EndedIsEnd DEF DestroyCleanup, RestartFail, FailTasks
  <2>2. CASE DestroyPane \/ RestartReset
    BY <1>1, <2>2 DEF DestroyPane, RestartReset, taskVars, callVars
  <2> QED
    BY <1>5, <2>1, <2>2 DEF TearingDown
<1>6. ASSUME NEW e \in Emitters, NEW k, Emit(e, k) PROVE UNCHANGED Future!futureVars
  BY <1>1, <1>6 DEF Emit, taskVars, callVars
<1>7. CASE UNCHANGED vars
  BY <1>1, <1>7 DEF vars, taskVars, callVars
<1> HIDE DEF IInv
<1> QED
  BY <1>2, <1>3, <1>4, <1>5, <1>6, <1>7 DEF Next

\* Every behaviour is one of the abstract promise: an outcome is written once
\* and never changes, its channel is closed once, and a wait is told that
\* outcome.
THEOREM SafelyImplementsFuture ==
    Spec => Future!FutureInit /\ [][Future!FutureNext]_(Future!futureVars)
  BY InitSimulates, StepSimulates, LedgerInvariance, PTL DEF Spec
=============================================================================
