----------------------------- MODULE AttachHold -----------------------------
(***************************************************************************)
(* One client attaching while panes write (internal/daemon/outputhold.go,  *)
(* handleAttach and flushPaneOutputGeneration in daemon.go, over the two   *)
(* queues of ipc.Conn).                                                    *)
(*                                                                         *)
(* A byte is its position in its pane's stream, and a flush carries one    *)
(* byte.  A pane's replay is sent one byte a frame, so that other frames   *)
(* may land between its frames.  OutputBuf is the whole stream so far (the *)
(* ring's eviction is left out).  holdGate is readers only: a writer's     *)
(* critical section is one step, enabled when no flush is inside.          *)
(***************************************************************************)
EXTENDS Integers, Sequences, FiniteSets

CONSTANTS
    Panes,
    Blank,       \* panes with no replay: ghost_buffer off or alternate screen
    Mortal,      \* panes whose program may end
    MaxPos,      \* [Panes -> bound on the bytes it writes]
    HoldLimit,   \* outputHoldLimit, in chunks
    OutCap,      \* capacity of the droppable queue
    Headroom     \* depth of the critical queue SendBlocking waits for

NoPane == "none"

ASSUME AttachHoldAssumption ==
    /\ NoPane \notin Panes
    /\ Blank \subseteq Panes /\ Mortal \subseteq Panes
    /\ MaxPos \in [Panes -> Nat \ {0}]
    /\ {HoldLimit, OutCap, Headroom} \subseteq Nat \ {0}

VARIABLES
    viewer,      \* whether the attaching client is read-only
    outPos,      \* [Panes -> position], the pane's stream length (and OutputBuf)
    flush,       \* [Panes -> where its flush is], "out" outside holdGate
    flag,        \* conn.holdPaneOutput
    held,        \* whether the conn has a hold in d.holds
    chunks,      \* the hold's chunks
    lost,        \* the hold's lost panes
    pc,          \* where handleAttach is
    todo,        \* panes still to replay
    end,         \* [Panes -> end of the pane's replay], 0 when none was sent
    sending,     \* frames the handler still has to SendBlocking
    kicks,       \* lost panes of the batch in hand, to be kicked after it
    critCh, outCh,
    loop,        \* sendLoop: at its "first" or its "second" select, or "gone"
    conn,        \* "open" or "closed"
    stopping,    \* d.shutdown is closed
    exited,      \* panes whose program has ended
    got,         \* history: frames the client has applied since its state frame
    shed,        \* history: live bytes dropped on a full droppable queue
    jumped,      \* history: live frames sent while a critical one waited
    kicked,      \* history: <<pane, why>> for every repaint kick
    silent,      \* history: panes not kicked because they had exited
    since,       \* history: outPos when the hold began
    lapsed       \* history: the drain wait timed out

paneVars == <<outPos, flush>>
holdVars == <<flag, held, chunks, lost>>
handlerVars == <<pc, todo, end, sending, kicks>>
queueVars == <<critCh, outCh>>
downVars == <<conn, stopping, exited>>
recordVars == <<shed, jumped, kicked, silent, since, lapsed>>
attachVars == <<viewer, paneVars, holdVars, handlerVars, queueVars, loop, downVars, got,
          recordVars>>

Frame(k, p, i) == [kind |-> k, pane |-> p, pos |-> i]
State == Frame("state", NoPane, 0)
Frames == [kind : {"replay", "held", "live"}, pane : Panes, pos : Nat]
             \cup {State}
Hole == Frame("hole", NoPane, 0)    \* what dropPane leaves of a chunk
AttachPCs == {"detached", "drain", "state", "replay", "sending", "take",
              "held", "finish", "attached", "aborted"}

AttachTypeOK ==
    /\ viewer \in BOOLEAN
    /\ outPos \in [Panes -> Nat] /\ \A p \in Panes : outPos[p] <= MaxPos[p]
    /\ flush \in [Panes -> {"out", "published", "appended"}]
    /\ flag \in BOOLEAN /\ held \in BOOLEAN
    /\ chunks \in Seq(Frames \cup {Hole}) /\ lost \subseteq Panes
    /\ pc \in AttachPCs /\ todo \subseteq Panes
    /\ end \in [Panes -> Nat]
    /\ sending \in Seq(Frames \cup {Hole}) /\ kicks \subseteq Panes
    /\ critCh \in Seq(Frames)
    /\ outCh \in Seq(Frames) /\ Len(outCh) <= OutCap
    /\ loop \in {"first", "second", "gone"}
    /\ conn \in {"open", "closed"} /\ stopping \in BOOLEAN /\ exited \subseteq Panes
    /\ got \in Seq(Frames) /\ shed \subseteq Frames
    /\ jumped \subseteq Frames
    /\ kicked \subseteq Panes \X {"blank", "lost"} /\ silent \subseteq Panes
    /\ since \in [Panes -> Nat] /\ lapsed \in BOOLEAN

AttachInit ==
    /\ viewer \in BOOLEAN
    /\ outPos = [p \in Panes |-> 0] /\ flush = [p \in Panes |-> "out"]
    /\ flag = FALSE /\ held = FALSE /\ chunks = <<>> /\ lost = {}
    /\ pc = "detached" /\ todo = Panes /\ end = [p \in Panes |-> 0]
    /\ sending = <<>> /\ kicks = {}
    /\ critCh = <<>> /\ outCh = <<>> /\ loop = "first"
    /\ conn = "open" /\ stopping = FALSE /\ exited = {}
    /\ got = <<>> /\ shed = {} /\ jumped = {} /\ kicked = {} /\ silent = {} /\ lapsed = FALSE
    /\ since = [p \in Panes |-> 0]

----------------------------------------------------------------------------
(* flushPaneOutputGeneration: three steps inside one read lock of holdGate *)

GateFree == \A p \in Panes : flush[p] = "out"

\* OutputBuf and outPos advance together, under the pane's PluginMu.
Publish(p) ==
    /\ flush[p] = "out" /\ p \notin exited /\ outPos[p] < MaxPos[p]
    /\ outPos' = [outPos EXCEPT ![p] = @ + 1]
    /\ flush' = [flush EXCEPT ![p] = "published"]
    /\ UNCHANGED <<viewer, holdVars, handlerVars, queueVars, loop, downVars, got, recordVars>>

\* dropPane, which moves the chunks it keeps together; here the others leave
\* holes, which count for nothing and are skipped.
Dropped(s, p) == [i \in DOMAIN s |-> IF s[i].pane = p THEN Hole ELSE s[i]]
HeldSize == Cardinality({i \in DOMAIN chunks : chunks[i] # Hole})

\* holdOutput: append, or past the limit drop all the pane holds.
HoldOutput(p) ==
    /\ flush[p] = "published"
    /\ flush' = [flush EXCEPT ![p] = "appended"]
    /\ IF ~held \/ p \in lost THEN UNCHANGED <<chunks, lost>>
       ELSE IF HeldSize < HoldLimit
       THEN /\ chunks' = Append(chunks, Frame("held", p, outPos[p] - 1))
            /\ UNCHANGED lost
       ELSE /\ chunks' = Dropped(chunks, p)
            /\ lost' = lost \cup {p}
    /\ UNCHANGED <<viewer, outPos, flag, held, handlerVars, queueVars, loop, downVars,
                   got, recordVars>>

\* wantsFrame, for this connection.
Wanted == conn = "open" /\ ~flag

\* Fault: the droppable queue takes one frame too many.
RoomForLive_OffByOne == Len(outCh) <= OutCap

RoomForLive == Len(outCh) < OutCap

\* Broadcast: a held conn is skipped, a full droppable queue sheds.
Broadcast(p) ==
    /\ flush[p] = "appended"
    /\ flush' = [flush EXCEPT ![p] = "out"]
    /\ LET live == Frame("live", p, outPos[p] - 1) IN
       IF ~Wanted THEN UNCHANGED <<outCh, shed>>
       ELSE IF RoomForLive
       THEN outCh' = Append(outCh, live) /\ UNCHANGED shed
       ELSE shed' = shed \cup {live} /\ UNCHANGED outCh
    /\ UNCHANGED <<viewer, outPos, holdVars, handlerVars, critCh, loop, downVars, got,
                   jumped, kicked, silent, since, lapsed>>

\* onPaneExitGeneration, on the goroutine that has flushed the last of the
\* pane's output.
Exits(p) ==
    /\ p \in Mortal \ exited /\ flush[p] = "out"
    /\ exited' = exited \cup {p}
    /\ UNCHANGED <<viewer, paneVars, holdVars, handlerVars, queueVars, loop, conn, stopping,
                   got, recordVars>>

----------------------------------------------------------------------------
(* handleAttach *)

\* The write-locked half of beginOutputHold.
BeginHold ==
    /\ pc = "detached" /\ GateFree
    /\ flag' = TRUE /\ held' = TRUE /\ chunks' = <<>> /\ lost' = {}
    /\ since' = outPos
    /\ pc' = "drain"
    /\ UNCHANGED <<viewer, paneVars, todo, end, sending, kicks, queueVars, loop,
                   downVars, got, shed, jumped, kicked, silent, lapsed>>

\* Fault: the hold begins without waiting for frames already queued.
Drained_NoWait == TRUE

Drained == outCh = <<>>

\* Its wait: the queue drained, the conn died, shutdown, or holdDrainTimeout.
DrainWait ==
    /\ pc = "drain"
    /\ pc' = "state"
    /\ lapsed' = (lapsed \/ ~Drained)
    /\ UNCHANGED <<viewer, paneVars, holdVars, todo, end, sending, kicks, queueVars,
                   loop, downVars, got, shed, jumped, kicked, silent, since>>

\* conn.Send of the workspace state.
SendState ==
    /\ pc = "state"
    /\ critCh' = IF conn = "open" THEN Append(critCh, State) ELSE critCh
    /\ pc' = "replay"
    /\ UNCHANGED <<viewer, paneVars, holdVars, todo, end, sending, kicks, outCh, loop,
                   downVars, got, recordVars>>

\* One PluginMu span reads the buffer and outPos together.  A pane with
\* nothing to replay is asked to repaint instead if it runs, except for a
\* viewer.
Snapshot(p) ==
    /\ pc = "replay" /\ p \in todo
    /\ todo' = todo \ {p}
    /\ IF p \in Blank \/ outPos[p] = 0
       THEN /\ kicked' = IF viewer \/ p \in exited THEN kicked ELSE kicked \cup {<<p, "blank">>}
            /\ UNCHANGED <<end, sending, pc>>
       ELSE /\ end' = [end EXCEPT ![p] = outPos[p]]
            /\ sending' = [i \in 1 .. outPos[p] |-> Frame("replay", p, i - 1)]
            /\ pc' = "sending"
            /\ UNCHANGED kicked
    /\ UNCHANGED <<viewer, paneVars, holdVars, kicks, queueVars, loop, downVars, got,
                   shed, jumped, silent, since, lapsed>>

\* SendBlocking waits for headroom; only the wait sees the shutdown.
PutCritical(f) ==
    /\ conn = "open" /\ Len(critCh) < Headroom
    /\ critCh' = Append(critCh, f)

Refused == conn = "closed" \/ (stopping /\ Len(critCh) >= Headroom)

\* sendGhostChunked: one frame, or giving up on this pane.  Its pause between
\* frames sees the shutdown too.
SendReplay ==
    /\ pc = "sending"
    /\ \/ /\ PutCritical(Head(sending))
          /\ sending' = Tail(sending)
       \/ /\ conn = "closed" \/ stopping
          /\ sending' = <<>> /\ UNCHANGED critCh
    /\ pc' = IF sending' = <<>> THEN "replay" ELSE "sending"
    /\ UNCHANGED <<viewer, paneVars, holdVars, todo, end, kicks, outCh, loop, downVars,
                   got, recordVars>>

ReplayDone ==
    /\ pc = "replay" /\ todo = {}
    /\ pc' = "take"
    /\ UNCHANGED <<viewer, paneVars, holdVars, todo, end, sending, kicks, queueVars,
                   loop, downVars, got, recordVars>>

\* The dedupe against the replay, for one held chunk (fault: none).
Replayed_Never(f) == FALSE

Replayed(f) == f.pos < end[f.pane]

Due(f) == f # Hole /\ ~Replayed(f)

\* releaseOutputHold takes a batch under holdMu.
TakeBatch ==
    /\ pc = "take"
    /\ sending' = chunks
    /\ kicks' = lost
    /\ chunks' = <<>> /\ lost' = {}
    /\ pc' = IF chunks = <<>> /\ lost = {} THEN "finish" ELSE "held"
    /\ UNCHANGED <<viewer, paneVars, flag, held, todo, end, queueVars, loop, downVars,
                   got, recordVars>>

\* The loop over the batch, and its `continue`.
SkipReplayed ==
    /\ pc = "held" /\ sending # <<>> /\ ~Due(Head(sending))
    /\ sending' = Tail(sending)
    /\ UNCHANGED <<viewer, paneVars, holdVars, pc, todo, end, kicks, queueVars, loop,
                   downVars, got, recordVars>>

SendHeld ==
    /\ pc = "held" /\ sending # <<>> /\ Due(Head(sending))
    /\ PutCritical(Head(sending))
    /\ sending' = Tail(sending)
    /\ UNCHANGED <<viewer, paneVars, holdVars, pc, todo, end, kicks, outCh, loop,
                   downVars, got, recordVars>>

\* Fault: the hold is deleted and the flag stays set.
EndHold_FlagStays ==
    /\ GateFree
    /\ held' = FALSE /\ flag' = flag

EndHold ==
    /\ GateFree
    /\ held' = FALSE /\ flag' = FALSE

\* SendBlocking failed: dropOutputHold.
DropHold ==
    /\ pc = "held" /\ sending # <<>> /\ Due(Head(sending)) /\ Refused
    /\ EndHold
    /\ chunks' = <<>> /\ lost' = {} /\ sending' = <<>> /\ kicks' = {}
    /\ pc' = "aborted"
    /\ UNCHANGED <<viewer, paneVars, todo, end, queueVars, loop, downVars, got, recordVars>>

\* The batch is out: kick what it lost and still runs, unless the client only
\* watches.
KickLost ==
    /\ pc = "held" /\ sending = <<>>
    /\ IF viewer THEN UNCHANGED <<kicked, silent>>
       ELSE /\ kicked' = kicked \cup ((kicks \ exited) \X {"lost"})
            /\ silent' = silent \cup (kicks \cap exited)
    /\ kicks' = {}
    /\ pc' = "take"
    /\ UNCHANGED <<viewer, paneVars, holdVars, todo, end, sending, queueVars, loop,
                   downVars, got, shed, jumped, since, lapsed>>

\* Fault: the hold ends without the recheck.
NothingHeld_NoRecheck == TRUE

NothingHeld == chunks = <<>> /\ lost = {}

\* finishOutputHold: the recheck under the gate.
FinishHold ==
    /\ pc = "finish" /\ GateFree
    /\ IF NothingHeld
       THEN EndHold /\ chunks' = <<>> /\ lost' = {} /\ pc' = "attached"
       ELSE UNCHANGED holdVars /\ pc' = "take"
    /\ UNCHANGED <<viewer, paneVars, todo, end, sending, kicks, queueVars, loop,
                   downVars, got, recordVars>>

----------------------------------------------------------------------------
(* The connection and the client *)

\* A written frame reaches the client, which applies output only to panes it
\* knows: those of the state frame that answered its attach.
Deliver(f) ==
    got' = IF got = <<>> /\ f # State THEN <<>> ELSE Append(got, f)

TakeCritical ==
    /\ critCh # <<>>
    /\ Deliver(Head(critCh)) /\ critCh' = Tail(critCh)
    /\ loop' = "first" /\ UNCHANGED <<outCh, jumped>>

TakeLive ==
    /\ outCh # <<>>
    /\ Deliver(Head(outCh)) /\ outCh' = Tail(outCh)
    /\ jumped' = IF critCh = <<>> THEN jumped ELSE jumped \cup {Head(outCh)}
    /\ loop' = "first" /\ UNCHANGED critCh

TakeDone ==
    /\ conn = "closed"
    /\ loop' = "gone" /\ UNCHANGED <<queueVars, got, jumped>>

\* Fault: one select without priority.
NothingUrgent_NoPriority == conn = "open"

NothingUrgent == critCh = <<>> /\ conn = "open"

FirstSelect ==
    /\ loop = "first"
    /\ \/ TakeCritical
       \/ TakeDone
       \/ /\ NothingUrgent
          /\ loop' = "second" /\ UNCHANGED <<queueVars, got, jumped>>
    /\ UNCHANGED <<viewer, paneVars, holdVars, handlerVars, downVars, shed, kicked,
                   silent, since, lapsed>>

SecondSelect ==
    /\ loop = "second"
    /\ TakeCritical \/ TakeLive \/ TakeDone
    /\ UNCHANGED <<viewer, paneVars, holdVars, handlerVars, downVars, shed, kicked,
                   silent, since, lapsed>>

\* The peer goes away, or its write deadline passes.
ConnDies ==
    /\ conn = "open" /\ conn' = "closed"
    /\ UNCHANGED <<viewer, paneVars, holdVars, handlerVars, queueVars, loop, stopping,
                   exited, got, recordVars>>

Shutdown ==
    /\ ~stopping /\ stopping' = TRUE
    /\ UNCHANGED <<viewer, paneVars, holdVars, handlerVars, queueVars, loop, conn,
                   exited, got, recordVars>>

HandlerStep ==
    \/ BeginHold \/ DrainWait \/ SendState
    \/ \E p \in Panes : Snapshot(p)
    \/ SendReplay \/ ReplayDone \/ TakeBatch \/ SkipReplayed \/ SendHeld \/ DropHold
    \/ KickLost \/ FinishHold

FlushStep(p) == Publish(p) \/ HoldOutput(p) \/ Broadcast(p)

AttachNext ==
    \/ HandlerStep
    \/ \E p \in Panes : FlushStep(p) \/ Exits(p)
    \/ FirstSelect \/ SecondSelect
    \/ ConnDies \/ Shutdown

\* A goroutine that can run does, and a flush that started ends.  Panes need
\* not write, and nothing closes the connection or the daemon.
AttachFairness ==
    /\ WF_attachVars(HandlerStep)
    /\ WF_attachVars(FirstSelect \/ SecondSelect)
    /\ \A p \in Panes : WF_attachVars(HoldOutput(p) \/ Broadcast(p))

AttachSpec == AttachInit /\ [][AttachNext]_attachVars
AttachFairSpec == AttachSpec /\ AttachFairness

----------------------------------------------------------------------------
(* Properties *)

\* A byte of a pane reaches the attaching client at most once, by replay, by
\* hold or live, unless the drain wait gave up (the accepted degradation).
AppliedOnce ==
    ~lapsed => \A i, j \in DOMAIN got :
        got[i].pane = got[j].pane /\ got[i].pos = got[j].pos => i = j

\* What an attach sends of a pane, replay then held output, is one increasing
\* run: the replay ends where the held bytes begin and repeats none of them.
ReplayThenHeld ==
    \A i, j \in DOMAIN got :
        /\ i < j /\ got[i].pane = got[j].pane
        /\ {got[i].kind, got[j].kind} \subseteq {"replay", "held"}
        => got[i].pos < got[j].pos

\* The second select can let a live frame pass the last of what the attach
\* queued, but one frame is all: the priority select then drains the rest.
OneJumpAtMost == ~lapsed => Cardinality(jumped) <= 1

Settled ==
    /\ pc = "attached" /\ conn = "open" /\ ~stopping
    /\ GateFree /\ critCh = <<>> /\ outCh = <<>>

Seen(p) == {got[i].pos : i \in {j \in DOMAIN got : got[j].pane = p}}
Shed(p) == {f.pos : f \in {g \in shed : g.pane = p}}
Jumped(p) == {f.pos : f \in {g \in jumped : g.pane = p}}
Since(p) == IF end[p] > 0 THEN 0 ELSE since[p]
Whole(p) == Since(p) .. (outPos[p] - 1) \subseteq Seen(p) \cup Shed(p) \cup Jumped(p)

\* Once an attach is through and the queues are empty, the client has every
\* byte of every pane, save live frames its full queue shed, live frames that
\* overtook the state frame, and panes whose held output overflowed: each of
\* these was asked to repaint, or had exited by then (redrawKickPane).
NothingMissing ==
    Settled /\ ~viewer => \A p \in Panes :
        <<p, "lost">> \in kicked \/ p \in silent \/ Whole(p)

\* What the comment of outputHoldLimit says: a pane that passes the limit
\* "loses them all and gets a repaint kick at release instead".  One that has
\* exited by the release gets neither.
LostIsRepainted ==
    Settled /\ ~viewer => \A p \in Panes : <<p, "lost">> \in kicked \/ Whole(p)

\* A client held off live output is let back on it, however its attach ends:
\* sent, refused half way by a dead peer, or cut short by the shutdown.
HoldEnds == flag ~> ~flag

\* A byte reaches the client once, and in the order of its pane's stream but
\* for one live frame.
OnceInOrder == AppliedOnce /\ ReplayThenHeld /\ OneJumpAtMost
=============================================================================
