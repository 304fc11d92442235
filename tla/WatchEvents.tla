----------------------------- MODULE WatchEvents -----------------------------
(***************************************************************************)
(* Watching for notifications: the event queue of internal/daemon/event.go *)
(* with emitEvent and handleWatchNotificationsReq of                       *)
(* internal/daemon/daemon.go, and the cap on parked requests of            *)
(* internal/daemon/rights.go.                                              *)
(*                                                                         *)
(* One agent on one connection follows the protocol of the MCP tool: each  *)
(* watch passes the time of the last event it handled, for events of any   *)
(* pane; it may give a call up and make the next.  An event is known by    *)
(* its source, a pane and a title, and by its time.  Its other requests    *)
(* that park a goroutine only count.  Muted panes, work-state-only events  *)
(* and dismissals are left out.                                            *)
(***************************************************************************)
EXTENDS Naturals, Sequences, FiniteSets, SequencesExt

CONSTANTS
    Sources,      \* panes with a title
    Emitters,     \* goroutines that emit
    MaxQueue,     \* eventQueue.max
    MaxParked,    \* maxParkedPerConn
    MaxEvents,    \* bound: events emitted
    MaxWatches,   \* bound: watches asked for
    MaxTime       \* bound: the clock

ASSUME WatchEventsAssumption ==
    {MaxQueue, MaxParked, MaxEvents, MaxWatches, MaxTime} \subseteq Nat \ {0}

VARIABLES
    now,
    emitter,    \* [Emitters -> the event it is about to push, or NoEvent]
    emitted,    \* events stamped so far
    events,     \* eventQueue.events, newest first
    watchers,   \* watches in eventQueue.watchers
    watch,      \* [watch -> where it is, what it got, and since when it looks]
    asked,      \* watches asked for so far
    waits,      \* AuthState.parked: other requests that park
    conn,       \* "open", "closed", "gone"
    since,      \* the agent's marker
    handled,    \* the events it handled, by number
    pushed,     \* history: every event pushed, in order
    window,     \* history: events pushed between a watch's look and its registration
    dropped     \* history: events that left the queue, pushed out or aggregated

queueVars == <<now, emitter, emitted, events>>
histVars == <<pushed, window, dropped>>
vars == <<queueVars, watchers, watch, asked, waits, conn, since, handled, histVars>>

NoEvent == [id |-> 0]
Events == [id : 1 .. MaxEvents, source : Sources, time : 1 .. MaxTime]
Watches == 1 .. MaxWatches
WatchPCs == {"none", "look", "evict", "add", "wait", "remove", "ended"}

TypeOK ==
    /\ now \in 1 .. MaxTime /\ emitted \in 0 .. MaxEvents
    /\ emitter \in [Emitters -> Events \cup {NoEvent}]
    /\ events \in Seq(Events) /\ Len(events) <= MaxQueue
    /\ watchers \subseteq Watches
    /\ \A w \in Watches : watch[w].pc \in WatchPCs /\ watch[w].since \in 0 .. MaxTime
    /\ asked \in 0 .. MaxWatches /\ waits \in 0 .. MaxParked
    /\ conn \in {"open", "closed", "gone"}
    /\ since \in 1 .. MaxTime /\ handled \subseteq 1 .. MaxEvents
    /\ pushed \in Seq(Events) /\ {window, dropped} \subseteq SUBSET Events

NoWatch == [pc |-> "none", since |-> 0, ch |-> "empty", got |-> NoEvent]

\* The agent has handled an event at time 1.
Init ==
    /\ now = 1
    /\ emitter = [e \in Emitters |-> NoEvent] /\ emitted = 0
    /\ events = <<>>
    /\ watchers = {} /\ watch = [w \in Watches |-> NoWatch] /\ asked = 0
    /\ waits = 0 /\ conn = "open"
    /\ since = 1 /\ handled = {}
    /\ pushed = <<>> /\ window = {} /\ dropped = {}

Goto(w, pc) == watch' = [watch EXCEPT ![w].pc = pc]
At(w, pc) == watch[w].pc = pc

-----------------------------------------------------------------------------
(* Events. *)

Tick ==
    /\ now < MaxTime
    /\ now' = now + 1
    /\ UNCHANGED <<emitter, emitted, events, watchers, watch, asked, waits, conn, since,
                   handled, histVars>>

\* The event gets its time where it is made, before emitEvent.
Stamp(g, s) ==
    /\ emitter[g] = NoEvent /\ emitted < MaxEvents
    /\ emitted' = emitted + 1
    /\ emitter' = [emitter EXCEPT ![g] = [id |-> emitted + 1, source |-> s, time |-> now]]
    /\ UNCHANGED <<now, events, watchers, watch, asked, waits, conn, since, handled, histVars>>

\* The queue without the first event of e's source.
Others(e) ==
    LET same == {i \in 1 .. Len(events) : events[i].source = e.source}
    IN  IF same = {} THEN events ELSE RemoveAt(events, Min(same))

\* Fault: nothing falls off.
Queued_NoLimit(e) == <<e>> \o Others(e)
\* A repeat replaces its forerunner and goes to the front; the oldest falls off.
Queued(e) ==
    SubSeq(<<e>> \o Others(e), 1,
           IF Len(Others(e)) < MaxQueue THEN Len(Others(e)) + 1 ELSE MaxQueue)

\* Fault: a watcher that was woken stays listed.
Woken_Kept(e) == watchers
\* Every watcher matches, and is consumed.
Woken(e) == {}

Push(g) ==
    LET e == emitter[g] IN
    /\ e # NoEvent
    /\ emitter' = [emitter EXCEPT ![g] = NoEvent]
    /\ events' = Queued(e)
    /\ watch' = [w \in Watches |->
         IF w \in watchers /\ watch[w].ch = "empty"
           THEN [watch[w] EXCEPT !.ch = "event", !.got = e] ELSE watch[w]]
    /\ watchers' = Woken(e)
    /\ pushed' = Append(pushed, e)
    /\ window' = IF \E w \in Watches : At(w, "evict") \/ At(w, "add") THEN window \cup {e} ELSE window
    /\ dropped' = dropped \cup (ToSet(events) \ ToSet(Queued(e)))
    /\ UNCHANGED <<now, emitted, asked, waits, conn, since, handled>>

-----------------------------------------------------------------------------
(* The agent's requests, dispatched one at a time. *)

Dispatching == \E w \in Watches : watch[w].pc \in {"look", "evict", "add"}

\* Fault: a wait does not leave room for the watcher.
WaitLimit_Full == MaxParked
\* admitParked for the other requests.
WaitLimit == IF watchers # {} THEN MaxParked - 1 ELSE MaxParked

Wait ==
    /\ conn = "open" /\ ~Dispatching /\ waits < WaitLimit
    /\ waits' = waits + 1
    /\ UNCHANGED <<queueVars, watchers, watch, asked, conn, since, handled, histVars>>

WaitEnds ==
    /\ waits > 0
    /\ waits' = waits - 1
    /\ UNCHANGED <<queueVars, watchers, watch, asked, conn, since, handled, histVars>>

\* Admitted when there is room for one more; a refusal leaves the agent where
\* it was.
Watch ==
    /\ conn = "open" /\ ~Dispatching /\ asked < MaxWatches /\ waits < MaxParked
    /\ asked' = asked + 1
    /\ watch' = [watch EXCEPT ![asked + 1] = [NoWatch EXCEPT !.pc = "look", !.since = since]]
    /\ UNCHANGED <<queueVars, watchers, waits, conn, since, handled, histVars>>

\* The agent takes an answer to the call it waits for.
Handle(w, e) ==
    IF w = asked /\ conn = "open"
      THEN since' = e.time /\ handled' = handled \cup {e.id}
      ELSE UNCHANGED <<since, handled>>

Newer(w) == {i \in 1 .. Len(events) : events[i].time > watch[w].since}

\* Fault: the newest event is returned.
Found_Newest(w) == IF Newer(w) = {} THEN NoEvent ELSE events[Min(Newer(w))]
\* FindSince: the oldest that is newer than the marker.
Found(w) == IF Newer(w) = {} THEN NoEvent ELSE events[Max(Newer(w))]

LookFinds(w) ==
    /\ At(w, "look") /\ Found(w) # NoEvent
    /\ Handle(w, Found(w))
    /\ Goto(w, "ended")
    /\ UNCHANGED <<queueVars, watchers, asked, waits, conn, histVars>>

Look(w) ==
    /\ At(w, "look") /\ Found(w) = NoEvent
    /\ Goto(w, "evict")
    /\ UNCHANGED <<queueVars, watchers, asked, waits, conn, since, handled, histVars>>

\* Fault: the channels are closed and the watchers stay listed.
Unlisted_Kept == watchers
\* RemoveWatchersByConn: every watcher is this connection's.
Unlisted == {}

Closing(f) == [w \in Watches |-> IF w \in watchers THEN [f[w] EXCEPT !.ch = "closed"] ELSE f[w]]

Evict(w) ==
    /\ At(w, "evict")
    /\ watch' = Closing([watch EXCEPT ![w].pc = "add"])
    /\ watchers' = Unlisted
    /\ UNCHANGED <<queueVars, asked, waits, conn, since, handled, histVars>>

AddWatcher(w) ==
    /\ At(w, "add")
    /\ watchers' = watchers \cup {w}
    /\ Goto(w, "wait")
    /\ UNCHANGED <<queueVars, asked, waits, conn, since, handled, histVars>>

-----------------------------------------------------------------------------
(* The goroutine of a watch, and the end of the connection. *)

Wakes(w) ==
    /\ At(w, "wait") /\ watch[w].ch = "event"
    /\ Handle(w, watch[w].got)
    /\ Goto(w, "ended")
    /\ UNCHANGED <<queueVars, watchers, asked, waits, conn, histVars>>

Evicted(w) ==
    /\ At(w, "wait") /\ watch[w].ch = "closed"
    /\ Goto(w, "ended")
    /\ UNCHANGED <<queueVars, watchers, asked, waits, conn, since, handled, histVars>>

\* The timer may win over an event that is there.
TimerFires(w) ==
    /\ At(w, "wait")
    /\ Goto(w, "remove")
    /\ UNCHANGED <<queueVars, watchers, asked, waits, conn, since, handled, histVars>>

\* RemoveWatcher, then the answer that it timed out.
TimedOut(w) ==
    /\ At(w, "remove")
    /\ watchers' = watchers \ {w}
    /\ Goto(w, "ended")
    /\ UNCHANGED <<queueVars, asked, waits, conn, since, handled, histVars>>

Disconnect ==
    /\ conn = "open"
    /\ conn' = "closed"
    /\ UNCHANGED <<queueVars, watchers, watch, asked, waits, since, handled, histVars>>

\* onClientDisconnect, on the connection's dispatch goroutine.
Disconnected ==
    /\ conn = "closed" /\ ~Dispatching
    /\ conn' = "gone"
    /\ watch' = Closing(watch)
    /\ watchers' = Unlisted
    /\ UNCHANGED <<queueVars, asked, waits, since, handled, histVars>>

-----------------------------------------------------------------------------
Dispatch(w) == LookFinds(w) \/ Look(w) \/ Evict(w) \/ AddWatcher(w)
Waiting(w) == Wakes(w) \/ Evicted(w) \/ TimerFires(w) \/ TimedOut(w)

Next ==
    \/ Tick \/ Wait \/ WaitEnds \/ Watch \/ Disconnect \/ Disconnected
    \/ \E g \in Emitters : Push(g) \/ \E s \in Sources : Stamp(g, s)
    \/ \E w \in Watches : Dispatch(w) \/ Waiting(w)

Spec == Init /\ [][Next]_vars

-----------------------------------------------------------------------------
(* Properties. *)

\* Events the agent will never be given: it did not handle them and its marker
\* is past them.
Skipped == {e \in ToSet(pushed) : e.id \notin handled /\ e.time <= since}

\* The marker cannot tell e from another event: it has the same time, also that
\* of the event the agent began with, or was pushed behind one stamped later.
Indistinct(e) ==
    \/ e.time = 1
    \/ \E i, j \in 1 .. Len(pushed) :
         /\ pushed[i] = e /\ i # j
         /\ pushed[j].time = e.time \/ (j < i /\ pushed[j].time > e.time)

\* An agent that follows the protocol is given every event in order, or can
\* still ask for it; it skips only what was aggregated or pushed out, what
\* shares a millisecond with another, and what came in the moment between a
\* watch's look and its registration (FindSince goes oldest first, a woken or
\* timed-out watch leaves the event queued).
SkipsAreKnown == \A e \in Skipped : e \in window \/ e \in dropped \/ Indistinct(e)

\* The same without that moment, as handleWatchNotificationsReq's comment says
\* of the look: it "closes the race-on-registration window".
WindowIsClosed == \A e \in Skipped : e \in dropped \/ Indistinct(e)

\* A connection never has more goroutines parked than the cap, counting its
\* watcher, whatever order waits, watches, wakes and timeouts come in.
ParkedWithinCap == waits + Cardinality(watchers) <= MaxParked

\* Push sends on no closed channel, and none is closed twice: a listed watcher's
\* channel is open and empty.
ListedIsOpen == \A w \in watchers : watch[w].ch = "empty"

\* No watcher outlives its connection.
NoWatcherOfGone == conn = "gone" => watchers = {}

\* The types, with the queue inside its limit, and the cap on parked requests.
QueueSound == TypeOK /\ ParkedWithinCap

\* The list of watchers has only live ones: their channels open, their
\* connection there.
WatchersLive == ListedIsOpen /\ NoWatcherOfGone
=============================================================================
