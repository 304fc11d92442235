----------------------------- MODULE TaskLedger -----------------------------
(***************************************************************************)
(* Tasks delegated to one pane (internal/daemon/task.go), and the work     *)
(* ledger and settle window that decide when they are done                 *)
(* (internal/daemon/workstate.go, internal/hookevents/ledger.go).          *)
(*                                                                         *)
(* Every goroutine that emits an event of the pane applies it to the       *)
(* ledger, then observes it for tasks, in separate steps; a settle window  *)
(* that has elapsed is a goroutine of its own.  Subagents are one name     *)
(* with a count.  Requests do not ask for a notify-back, which would type  *)
(* into another pane.  A closure run with aborted = TRUE returns at once,  *)
(* so running one is left out; the events finishTask and settleIdle emit   *)
(* are "other" events of Emit.  The registry's eviction of ended tasks is   *)
(* left out: nothing moves an ended task.                                  *)
(***************************************************************************)
EXTENDS Integers, FiniteSets

CONSTANTS
    Tasks,
    Emitters,    \* goroutines in emitEvent
    Settlers,    \* goroutines in settleIdle
    Teardowns,   \* what clients may do to the pane: "destroy", "restart"
    Timed,       \* tasks delegated with a timeout; the others have none
    Waited,      \* tasks a client calls wait_task on
    MaxSub,      \* bound: subagents counted at once
    MaxEvents    \* bound: events emitted for the pane

ASSUME TaskLedgerAssumption ==
    /\ {MaxSub, MaxEvents} \subseteq Nat \ {0}
    /\ Teardowns \subseteq {"destroy", "restart"} /\ Timed \cup Waited \subseteq Tasks

VARIABLES
    agent,       \* whether the pane runs an agent, a plain terminal otherwise
    pane,        \* "up", "dead" (exited), "down" (restart, PTY nil), or "gone"
    teardown,    \* where a destroy or a restart of the pane is
    ledger,      \* the pane's WorkLedger
    idleTimer,   \* pane.idleTimer: "nil", "armed", or "fired" (not reset yet)
    loose,       \* armed windows pane.idleTimer no longer points to
    subs,        \* tasks whose completion closure is in pane.idleSubs
    emitter,     \* [Emitters -> what the goroutine holds]
    settler,     \* [Settlers -> what the goroutine holds]
    state,       \* [Tasks -> task.state, "none" before addLive]
    timer,       \* [Tasks -> task.timer]
    call,        \* [Tasks -> where its delegateTask call is]
    closes,      \* [Tasks -> how often task.done was closed]
    wait,        \* [Tasks -> where the wait_task on it is]
    events,      \* events emitted so far
    doomed       \* history: open at an exit, no start edge or restart since

paneVars == <<agent, pane, teardown>>
ledgerVars == <<ledger, idleTimer, loose, subs>>
taskVars == <<state, closes>>
callVars == <<timer, call, wait>>
vars == <<paneVars, ledgerVars, emitter, settler, taskVars, callVars, events, doomed>>

Terminal == {"done", "failed", "timeout"}
Live(t) == state[t] \in {"sent", "working"}

Free == [pc |-> "free"]
NewLedger == [seen |-> FALSE, turn |-> FALSE, sub |-> 0,
              blocked |-> FALSE, aborted |-> FALSE]
MidTurn == [NewLedger EXCEPT !.seen = TRUE, !.turn = TRUE]
AgentEvents == {"start", "substart", "substop", "stop", "stopfinal", "park",
                "exit", "other"}
ShellEvents == {"command_complete", "exit", "other"}

TypeOK ==
    /\ agent \in BOOLEAN
    /\ pane \in {"up", "dead", "down", "gone"}
    /\ teardown \in {"none", "unlist", "reset"}
    /\ ledger \in [seen : BOOLEAN, turn : BOOLEAN, sub : 0 .. MaxSub,
                   blocked : BOOLEAN, aborted : BOOLEAN]
    /\ idleTimer \in {"nil", "armed", "fired"}
    /\ loose \in Nat
    /\ subs \subseteq Tasks
    /\ \A e \in Emitters :
         emitter[e].pc \in {"free", "observe", "loop", "complete"}
    /\ \A s \in Settlers : settler[s].pc \in {"free", "fired", "run"}
    /\ state \in [Tasks -> {"none", "sent", "working"} \cup Terminal]
    /\ timer \in [Tasks -> {"none", "armed"}]
    /\ call \in [Tasks -> {"idle", "resolved", "added", "replied"}]
    /\ closes \in [Tasks -> Nat]
    /\ wait \in [Tasks -> {"none", "parked", "gaveup", "sent", "working"}
                          \cup Terminal]
    /\ events \in 0 .. MaxEvents
    /\ doomed \subseteq Tasks

Init ==
    /\ agent \in BOOLEAN
    /\ pane = "up" /\ teardown = "none"
    /\ ledger \in IF agent THEN {NewLedger, MidTurn} ELSE {NewLedger}
    /\ idleTimer = "nil" /\ loose = 0 /\ subs = {}
    /\ emitter = [e \in Emitters |-> Free]
    /\ settler = [s \in Settlers |-> Free]
    /\ state = [t \in Tasks |-> "none"]
    /\ timer = [t \in Tasks |-> "none"]
    /\ call = [t \in Tasks |-> "idle"]
    /\ closes = [t \in Tasks |-> 0]
    /\ wait = [t \in Tasks |-> "none"]
    /\ events = 0 /\ doomed = {}

-----------------------------------------------------------------------------
(* The work ledger. *)

Busy(l) == l.turn \/ l.sub > 0

LedgerState(l) ==
    CASE ~l.seen -> "unknown"
      [] l.seen /\ l.blocked -> "blocked"
      [] l.seen /\ ~l.blocked /\ Busy(l) -> "working"
      [] OTHER -> "idle"

\* Fault: a stop nobody's start paired with is counted all the same.
LessOne_NoFloor(n) == n - 1
LessOne(n) == IF n = 0 THEN 0 ELSE n - 1

Applied(l, k) ==
    CASE k = "start" ->
           [l EXCEPT !.seen = TRUE, !.turn = TRUE, !.blocked = FALSE, !.aborted = FALSE]
      [] k = "substart" -> [l EXCEPT !.seen = TRUE, !.sub = l.sub + 1]
      [] k = "substop" -> [l EXCEPT !.seen = TRUE, !.sub = LessOne(l.sub)]
      [] k = "stop" -> [l EXCEPT !.seen = TRUE, !.turn = FALSE, !.blocked = FALSE]
      [] k = "stopfinal" ->
           [l EXCEPT !.seen = TRUE, !.turn = FALSE, !.blocked = FALSE, !.sub = 0]
      [] k = "park" -> [l EXCEPT !.seen = TRUE, !.blocked = TRUE]
      [] k = "exit" ->
           [seen |-> TRUE, turn |-> FALSE, sub |-> 0, blocked |-> FALSE, aborted |-> TRUE]
      [] OTHER -> l

\* Timer.Stop on pane.idleTimer followed by forgetting it: a window that has
\* fired is past stopping and keeps its settler.
WindowStopped == idleTimer' = "nil" /\ UNCHANGED loose

Window(now, fell, k) ==
    CASE fell -> idleTimer' = "armed" /\ UNCHANGED loose
      [] ~fell /\ (k = "exit" \/ now = "working") -> WindowStopped
      [] OTHER -> UNCHANGED <<idleTimer, loose>>

\* Fault: an exit counts as the fall it causes.
Sees_NoExitCase(k, now, fell) ==
    CASE ~agent /\ k = "command_complete" -> "complete"
      [] agent /\ now = "working" -> "working"
      [] agent /\ now # "working" /\ fell -> "fell"
      [] OTHER -> "nothing"
\* The case taskObserve takes for a task, when the pane is the kind it is.
Sees(k, now, fell) ==
    CASE k = "exit" -> "exit"
      [] ~agent /\ k = "command_complete" -> "complete"
      [] agent /\ k # "exit" /\ now = "working" -> "working"
      [] agent /\ k # "exit" /\ now # "working" /\ fell -> "fell"
      [] OTHER -> "nothing"

\* Tasks whose completion has been decided and not yet written.
Decided == UNION ({{emitter[e].task} : e \in {e \in Emitters : emitter[e].pc = "complete"}}
                  \cup {settler[s].subs : s \in {s \in Settlers : settler[s].pc = "run"}})

\* applyWorkEvent, for an event of a pane the session holds.
Emit(e, k) ==
    LET new == Applied(ledger, k)
        fell == Busy(ledger) /\ ~Busy(new) /\ k # "exit"
    IN  /\ emitter[e].pc = "free" /\ events < MaxEvents /\ pane # "gone"
        /\ k \in IF agent THEN AgentEvents ELSE ShellEvents
        /\ k = "substart" => ledger.sub < MaxSub
        /\ k = "exit" => pane \in {"up", "down"}
        /\ events' = events + 1
        /\ ledger' = new
        /\ Window(LedgerState(new), fell, k)
        /\ subs' = IF k = "exit" THEN {} ELSE subs
        /\ emitter' = [emitter EXCEPT ![e] =
             IF Sees(k, LedgerState(new), fell) = "nothing" THEN Free
             ELSE [pc |-> "observe", sees |-> Sees(k, LedgerState(new), fell)]]
        /\ pane' = IF k = "exit" /\ pane = "up" THEN "dead" ELSE pane
        /\ doomed' = CASE k = "exit" -> {t \in Tasks \ Decided : Live(t)}
                       [] k = "start" -> {}
                       [] OTHER -> doomed
        /\ UNCHANGED <<agent, teardown, settler, taskVars, callVars>>

-----------------------------------------------------------------------------
\* What finishTask writes under the registry's lock.
Ended(S, outcome) ==
    LET open == {t \in S : Live(t)}
    IN  /\ state' = [t \in Tasks |-> IF t \in open THEN outcome ELSE state[t]]
        /\ closes' = [t \in Tasks |-> IF t \in open THEN closes[t] + 1 ELSE closes[t]]
        /\ timer' = [t \in Tasks |->
                       IF t \in open /\ timer[t] = "armed" THEN "none" ELSE timer[t]]

\* Fault: the write does not compare the state it replaces.
Advance_Overwrites(t) ==
    /\ state' = [state EXCEPT ![t] = "working"]
    /\ UNCHANGED <<closes, timer>>
Advance(t) ==
    /\ state' = [state EXCEPT ![t] = IF @ = "sent" THEN "working" ELSE @]
    /\ UNCHANGED <<closes, timer>>

-----------------------------------------------------------------------------
(* taskObserve. *)

Loop(sees, todo) ==
    IF todo = {} THEN Free ELSE [pc |-> "loop", sees |-> sees, todo |-> todo]

\* reg.all, of which only open tasks go on to the switch.
ObserveAll(e) ==
    /\ emitter[e].pc = "observe"
    /\ emitter' = [emitter EXCEPT ![e] = Loop(@.sees, {t \in Tasks : Live(t)})]
    /\ UNCHANGED <<paneVars, ledgerVars, settler, taskVars, callVars, events, doomed>>

\* Fault: it asks only what the ledger says, not whether the child died.
IdleNow_Crashed(l) == LedgerState(l) = "idle" /\ idleTimer = "nil"
\* onPaneIdle's immediate case.
IdleNow(l) == ~l.aborted /\ LedgerState(l) = "idle" /\ idleTimer = "nil"

\* onPaneIdle, called for a fall: at once when the pane is idle and no window
\* is open, otherwise with the settle window.
OnPaneIdle(e, t, next) ==
    LET now == IdleNow(ledger)
    IN  /\ emitter' = [emitter EXCEPT ![e] =
             IF pane # "gone" /\ now
               THEN [pc |-> "complete", sees |-> "fell", task |-> t, todo |-> @.todo \ {t}]
               ELSE next]
        /\ subs' = IF pane # "gone" /\ ~now /\ ~ledger.aborted THEN subs \cup {t} ELSE subs

ObserveTask(e, t) ==
    LET sees == emitter[e].sees
        next == Loop(sees, emitter[e].todo \ {t})
    IN  /\ emitter[e].pc = "loop" /\ t \in emitter[e].todo
        /\ \/ sees = "exit" /\ Ended({t}, "failed")
           \/ sees = "complete" /\ Ended({t}, "done")
           \/ sees = "working" /\ Advance(t)
           \/ sees = "fell" /\ UNCHANGED <<taskVars, timer>>
        /\ IF sees = "fell" THEN OnPaneIdle(e, t, next)
           ELSE emitter' = [emitter EXCEPT ![e] = next] /\ UNCHANGED subs
        /\ UNCHANGED <<paneVars, ledger, idleTimer, loose, settler, call, wait,
                       events, doomed>>

Complete(e) ==
    /\ emitter[e].pc = "complete"
    /\ Ended({emitter[e].task}, "done")
    /\ emitter' = [emitter EXCEPT ![e] = Loop(@.sees, @.todo)]
    /\ UNCHANGED <<paneVars, ledgerVars, settler, call, wait, events, doomed>>

-----------------------------------------------------------------------------
(* The settle window. *)

WindowElapses(s) ==
    /\ settler[s].pc = "free"
    /\ \/ idleTimer = "armed" /\ idleTimer' = "fired" /\ UNCHANGED loose
       \/ loose > 0 /\ loose' = loose - 1 /\ UNCHANGED idleTimer
    /\ settler' = [settler EXCEPT ![s] = [pc |-> "fired"]]
    /\ UNCHANGED <<paneVars, ledger, subs, emitter, taskVars, callVars, events, doomed>>

\* settleIdle up to its unlock.  It forgets pane.idleTimer, whichever window
\* that points to by then.
Settle(s) ==
    LET idle == LedgerState(ledger) = "idle"
    IN  /\ settler[s].pc = "fired" /\ pane # "gone"
        /\ idleTimer' = "nil"
        /\ loose' = IF idleTimer = "armed" THEN loose + 1 ELSE loose
        /\ subs' = IF idle THEN {} ELSE subs
        /\ settler' = [settler EXCEPT ![s] =
             IF idle /\ ~ledger.aborted THEN [pc |-> "run", subs |-> subs] ELSE Free]
        /\ UNCHANGED <<paneVars, ledger, emitter, taskVars, callVars, events, doomed>>

SettleGone(s) ==
    /\ settler[s].pc = "fired" /\ pane = "gone"
    /\ settler' = [settler EXCEPT ![s] = Free]
    /\ UNCHANGED <<paneVars, ledgerVars, emitter, taskVars, callVars, events, doomed>>

\* The subscribers run, one after the other, outside the lock.
SettleRun(s) ==
    /\ settler[s].pc = "run"
    /\ \/ /\ settler[s].subs = {}
          /\ settler' = [settler EXCEPT ![s] = Free]
          /\ UNCHANGED <<taskVars, timer>>
       \/ \E t \in settler[s].subs :
            /\ Ended({t}, "done")
            /\ settler' = [settler EXCEPT ![s].subs = @ \ {t}]
    /\ UNCHANGED <<paneVars, ledgerVars, emitter, call, wait, events, doomed>>

-----------------------------------------------------------------------------
(* delegateTask, a task's timeout, and wait_task. *)

Resolve(t) ==
    /\ call[t] = "idle" /\ pane \in {"up", "dead"}
    /\ call' = [call EXCEPT ![t] = "resolved"]
    /\ UNCHANGED <<paneVars, ledgerVars, emitter, settler, taskVars, timer, wait,
                   events, doomed>>

\* Fault: the pane's other tasks are not looked through.
PaneTaken_Never == FALSE
PaneTaken == \E u \in Tasks : Live(u)

Refuse(t) ==
    /\ call[t] = "resolved" /\ PaneTaken
    /\ call' = [call EXCEPT ![t] = "replied"]
    /\ UNCHANGED <<paneVars, ledgerVars, emitter, settler, taskVars, timer, wait,
                   events, doomed>>

AddLive(t) ==
    /\ call[t] = "resolved" /\ ~PaneTaken
    /\ state' = [state EXCEPT ![t] = "sent"]
    /\ call' = [call EXCEPT ![t] = "added"]
    /\ UNCHANGED <<paneVars, ledgerVars, emitter, settler, closes, timer, wait,
                   events, doomed>>

\* The pane's input queue is full.
DeliverFails(t) ==
    /\ call[t] = "added"
    /\ Ended({t}, "failed")
    /\ call' = [call EXCEPT ![t] = "replied"]
    /\ UNCHANGED <<paneVars, ledgerVars, emitter, settler, wait, events, doomed>>

\* The prompt is queued, and the timeout armed unless the task has ended since.
Arm(t) ==
    /\ call[t] = "added" /\ t \in Timed
    /\ timer' = [timer EXCEPT ![t] = IF Live(t) THEN "armed" ELSE @]
    /\ call' = [call EXCEPT ![t] = "replied"]
    /\ UNCHANGED <<paneVars, ledgerVars, emitter, settler, taskVars, wait, events, doomed>>

NoTimeout(t) ==
    /\ call[t] = "added" /\ t \notin Timed
    /\ call' = [call EXCEPT ![t] = "replied"]
    /\ UNCHANGED <<paneVars, ledgerVars, emitter, settler, taskVars, timer, wait,
                   events, doomed>>

\* The callback re-reads the task by id: a Stop that came too late for it
\* leaves nothing to do, so firing and running are one step.
TimerFires(t) ==
    /\ timer[t] = "armed"
    /\ IF Live(t)
          THEN Ended({t}, "timeout")
          ELSE timer' = [timer EXCEPT ![t] = "none"] /\ UNCHANGED taskVars
    /\ UNCHANGED <<paneVars, ledgerVars, emitter, settler, call, wait, events, doomed>>

WaitTask(t) ==
    /\ t \in Waited
    /\ wait[t] = "none" /\ call[t] = "replied" /\ state[t] # "none"
    /\ wait' = [wait EXCEPT ![t] = "parked"]
    /\ UNCHANGED <<paneVars, ledgerVars, emitter, settler, taskVars, timer, call,
                   events, doomed>>

WaitEnds(t) ==
    /\ wait[t] = "parked"
    /\ \/ closes[t] > 0 /\ wait' = [wait EXCEPT ![t] = state[t]]
       \/ wait' = [wait EXCEPT ![t] = "gaveup"]
    /\ UNCHANGED <<paneVars, ledgerVars, emitter, settler, taskVars, timer, call,
                   events, doomed>>

-----------------------------------------------------------------------------
(* The pane is destroyed, or restarted in place. *)

\* failTasksForPane, called by both.
FailTasks == Ended(Tasks, "failed")

DestroyCleanup ==
    /\ "destroy" \in Teardowns
    /\ teardown = "none" /\ pane \in {"up", "dead"}
    /\ FailTasks
    /\ teardown' = "unlist"
    /\ UNCHANGED <<agent, pane, ledgerVars, emitter, settler, call, wait, events, doomed>>

DestroyPane ==
    /\ teardown = "unlist"
    /\ pane' = "gone" /\ teardown' = "none"
    /\ UNCHANGED <<agent, ledgerVars, emitter, settler, taskVars, callVars, events, doomed>>

\* The PTY is swapped out before the tasks fail, and nothing resolves the pane
\* until it is back.
RestartFail ==
    /\ "restart" \in Teardowns
    /\ teardown = "none" /\ pane \in {"up", "dead"}
    /\ FailTasks
    /\ pane' = "down" /\ teardown' = "reset"
    /\ UNCHANGED <<agent, ledgerVars, emitter, settler, call, wait, events, doomed>>

RestartReset ==
    /\ teardown = "reset"
    /\ WindowStopped
    /\ ledger' = NewLedger /\ subs' = {} /\ doomed' = {}
    /\ pane' = "up" /\ teardown' = "none"
    /\ UNCHANGED <<agent, emitter, settler, taskVars, callVars, events>>

-----------------------------------------------------------------------------
Observing(e) == ObserveAll(e) \/ Complete(e) \/ \E t \in Tasks : ObserveTask(e, t)

Settling(s) == Settle(s) \/ SettleGone(s) \/ SettleRun(s)

Delegating(t) ==
    Resolve(t) \/ Refuse(t) \/ AddLive(t) \/ DeliverFails(t) \/ Arm(t)
        \/ NoTimeout(t)

TearingDown ==
    DestroyCleanup \/ DestroyPane \/ RestartFail \/ RestartReset

Next ==
    \/ \E e \in Emitters : Observing(e) \/ \E k \in AgentEvents \cup ShellEvents : Emit(e, k)
    \/ \E s \in Settlers : Settling(s) \/ WindowElapses(s)
    \/ \E t \in Tasks : Delegating(t) \/ TimerFires(t)
                         \/ WaitTask(t) \/ WaitEnds(t)
    \/ TearingDown

Spec == Init /\ [][Next]_vars

\* Goroutines and timers run; nobody has to emit an event, delegate, wait,
\* restart or destroy.
Fairness ==
    /\ \A e \in Emitters : WF_vars(Observing(e))
    /\ \A s \in Settlers : WF_vars(Settling(s) \/ WindowElapses(s))
    /\ WF_vars(\E t \in Tasks : TimerFires(t))
    /\ WF_vars(\E t \in Waited : WaitEnds(t))

FairSpec == Spec /\ Fairness

-----------------------------------------------------------------------------
(* Properties. *)

\* An exit applied to the ledger while a task is open, and its completion not
\* yet decided, keeps an agent's task from ever being reported done, in whatever order
\* the emitting goroutines apply and observe, until a start edge or a restart
\* shows a live child (onPaneIdle and settleIdle's aborted checks, "a crash always beats a
\* completion").
DeadNeverDone == agent => \A t \in doomed : state[t] # "done"

\* The settled idle of a pane speaks for one task: no completion is decided, by
\* a closure or at once, for two open tasks (addLive's one task per target).
OneTaskPerIdle == Cardinality({t \in Tasks : Live(t)} \cap (subs \cup Decided)) <= 1

\* A task open when its pane's process exits ends, whether or not a timeout was
\* set and whatever its ledger says by then (taskObserve's process_exit case).
ExitEndsTask == \A t \in Tasks : (t \in doomed) ~> (state[t] \in Terminal)

\* Every outcome is written once, its channel is closed once, and a wait on it
\* is told that outcome (taskRegistry, finishTask, handleWaitTaskReq).
Future == INSTANCE TaskFuture WITH
    outcome <- [t \in Tasks |-> CASE state[t] = "none" -> "unborn"
                                  [] Live(t) -> "open"
                                  [] OTHER -> state[t]],
    closes <- closes,
    answer <- wait
ImplementsFuture == Future!FutureSpec

\* What onPaneIdle's comment promises (workstate.go:121): "a subscriber must not
\* wait for an edge that already happened".  An idle, unaborted pane with a task
\* still waiting for it has a settle window open or elapsing.
WaitingHasWindow ==
    \A t \in subs : Live(t) /\ LedgerState(ledger) = "idle" =>
        \/ idleTimer # "nil" \/ loose > 0
        \/ \E s \in Settlers : settler[s].pc = "fired"

\* The types, and one open task at most for an idle to speak for.
LedgerSound == TypeOK /\ OneTaskPerIdle
=============================================================================
