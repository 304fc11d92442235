------------------------------ MODULE IpcConn ------------------------------
(***************************************************************************)
(* One server-side IPC connection (internal/ipc/server.go, type Conn).     *)
(*                                                                         *)
(* Any number of goroutines put frames on two bounded queues, one          *)
(* goroutine (sendLoop) drains them into the socket.  The critical queue   *)
(* is must-deliver: a Send that finds it full retires the connection.  The *)
(* droppable queue sheds.  SendBlocking waits for headroom instead of      *)
(* overflowing, and Flush waits for a counter kept beside the queue.       *)
(*                                                                         *)
(* A frame is <<sender, n>>, its payload is left out.  Live frames are     *)
(* interchangeable, so the droppable queue is its length.  Every step      *)
(* between two accesses to shared memory is a step of its own: the         *)
(* closed/overflow test, the channel operation, the counter update.        *)
(***************************************************************************)
EXTENDS Integers, Sequences, FiniteSets

CONSTANTS
    Senders,     \* goroutines calling Send: broadcasts, responses
    Bulk,        \* goroutines calling SendBlocking: ghost and event replay
    Flushers,    \* goroutines calling Flush
    Cap,         \* sendBufSize, the capacity of either queue
    Headroom,    \* sendHeadroom, the depth a SendBlocking waits for
    MaxSends     \* bound: calls per sending goroutine

ASSUME IpcConnAssumption ==
    /\ Senders \cap Bulk = {}
    /\ IsFiniteSet(Senders \cup Bulk)
    /\ Cap \in Nat /\ Headroom \in 1 .. Cap
    /\ MaxSends \in Nat

Procs == Senders \cup Bulk
Frames == Procs \X (1 .. MaxSends)
Live == <<"live", 0>>    \* stands for any droppable frame
None == <<"none", 0>>

VARIABLES
    critCh,      \* the must-deliver queue
    outCh,       \* number of frames on the droppable queue
    pending,     \* the counter Flush reads
    closed,      \* closed flag and done channel, set together by markDead
    overflow,    \* the overflow flag
    closing,     \* a spawned `go c.Close()` that has not run yet
    loopPC,      \* where sendLoop is
    cur,         \* the frame sendLoop holds between its select and its write
    spc,         \* where each sending goroutine is
    nsent,       \* calls each sending goroutine has made
    fpc,         \* each flusher: idle, polling, or the answer it returned
    accepted,    \* history: frames put on the must-deliver queue, in order
    wire,        \* history: must-deliver frames written to the socket
    overtaken,   \* history: live frames taken since a critical frame waits
    owed         \* history: frames whose Send had returned when Flush began

connVars == <<closed, overflow, closing>>
loopVars == <<loopPC, cur>>
sendVars == <<spc, nsent>>
flushVars == <<fpc, owed>>
vars == <<critCh, outCh, pending, connVars, loopVars, sendVars, flushVars,
          accepted, wire, overtaken>>

LoopPCs == {"first", "second", "write", "count", "uncount", "exiting", "gone"}

TypeOK ==
    /\ critCh \in Seq(Frames) /\ Len(critCh) <= Cap
    /\ outCh \in 0 .. Cap
    /\ pending \in Int
    /\ closed \in BOOLEAN /\ overflow \in BOOLEAN /\ closing \in BOOLEAN
    /\ loopPC \in LoopPCs
    /\ cur \in Frames \cup {Live, None}
    /\ spc \in [Procs -> {"idle", "waiting", "checked", "queued"}]
    /\ nsent \in [Procs -> 0 .. MaxSends]
    /\ fpc \in [Flushers -> {"idle", "polling", "drained", "gaveup"}]
    /\ accepted \in Seq(Frames) /\ wire \in Seq(Frames)
    /\ overtaken \in Nat
    /\ owed \in [Flushers -> SUBSET Frames]

Init ==
    /\ critCh = <<>> /\ outCh = 0 /\ pending = 0
    /\ closed = FALSE /\ overflow = FALSE /\ closing = FALSE
    /\ loopPC = "first" /\ cur = None
    /\ spc = [p \in Procs |-> "idle"] /\ nsent = [p \in Procs |-> 0]
    /\ fpc = [f \in Flushers |-> "idle"] /\ owed = [f \in Flushers |-> {}]
    /\ accepted = <<>> /\ wire = <<>> /\ overtaken = 0

----------------------------------------------------------------------------
(* Sending *)

Dead == closed \/ overflow

\* Fault: write reports the failure and leaves the conn open, as before the
\* incident its comment describes.
MarkDead_Forgotten == closed' = closed

MarkDead == closed' = TRUE

\* The channel send both paths share.  The counter comes later (Count).
PutCritical(p) ==
    /\ critCh' = Append(critCh, <<p, nsent[p]>>)
    /\ accepted' = Append(accepted, <<p, nsent[p]>>)
    /\ spc' = [spc EXCEPT ![p] = "queued"]

\* Send, up to enqueue's closed/overflow test.  A dead conn answers the error.
SendCheck(p) ==
    /\ p \in Senders /\ spc[p] = "idle" /\ nsent[p] < MaxSends
    /\ nsent' = [nsent EXCEPT ![p] = @ + 1]
    /\ spc' = [spc EXCEPT ![p] = IF Dead THEN "idle" ELSE "checked"]
    /\ UNCHANGED <<critCh, outCh, pending, connVars, loopVars, flushVars,
                   accepted, wire, overtaken>>

\* Fault: the queue takes one frame too many.
HasRoom_OffByOne == Len(critCh) <= Cap

HasRoom == Len(critCh) < Cap

\* enqueue's must-deliver select when there is room.
SendQueue(p) ==
    /\ p \in Senders /\ spc[p] = "checked" /\ HasRoom
    /\ PutCritical(p)
    /\ UNCHANGED <<outCh, pending, connVars, loopVars, nsent, flushVars, wire,
                   overtaken>>

\* Fault: the overflow flag is set and nobody closes.
SpawnClose_Forgotten == closing' = closing

SpawnClose == closing' = (closing \/ ~overflow)

\* The default branch: only the sender whose CAS wins spawns the close.
SendOverflow(p) ==
    /\ p \in Senders /\ spc[p] = "checked" /\ ~HasRoom
    /\ overflow' = TRUE
    /\ SpawnClose
    /\ spc' = [spc EXCEPT ![p] = "idle"]
    /\ UNCHANGED <<critCh, outCh, pending, closed, loopVars, nsent, flushVars,
                   accepted, wire, overtaken>>

\* Fault: SendBlocking queues without counting.
CountedUp_SendOnly(p) == IF p \in Bulk THEN pending ELSE pending + 1

CountedUp(p) == pending + 1

\* pending.Add(1), after the frame is already visible to sendLoop.
Count(p) ==
    /\ spc[p] = "queued"
    /\ pending' = CountedUp(p)
    /\ spc' = [spc EXCEPT ![p] = "idle"]
    /\ UNCHANGED <<critCh, outCh, connVars, loopVars, nsent, flushVars,
                   accepted, wire, overtaken>>

\* Fault: bulk senders wait for room, not for headroom.
HasHeadroom_AnyRoom == Len(critCh) < Cap

HasHeadroom == Len(critCh) < Headroom

\* SendBlocking is entered.
BulkCall(p) ==
    /\ p \in Bulk /\ spc[p] = "idle" /\ nsent[p] < MaxSends
    /\ nsent' = [nsent EXCEPT ![p] = @ + 1]
    /\ spc' = [spc EXCEPT ![p] = "waiting"]
    /\ UNCHANGED <<critCh, outCh, pending, connVars, loopVars, flushVars,
                   accepted, wire, overtaken>>

\* One turn of its loop finds the conn dead, or done fires.
BulkRefused(p) ==
    /\ p \in Bulk /\ spc[p] = "waiting" /\ Dead
    /\ spc' = [spc EXCEPT ![p] = "idle"]
    /\ UNCHANGED <<critCh, outCh, pending, connVars, loopVars, nsent,
                   flushVars, accepted, wire, overtaken>>

\* cancel fires while it waits (daemon shutdown).
BulkCanceled(p) ==
    /\ p \in Bulk /\ spc[p] = "waiting"
    /\ spc' = [spc EXCEPT ![p] = "idle"]
    /\ UNCHANGED <<critCh, outCh, pending, connVars, loopVars, nsent,
                   flushVars, accepted, wire, overtaken>>

\* One turn of its loop reads a depth below the headroom.
BulkCheck(p) ==
    /\ p \in Bulk /\ spc[p] = "waiting" /\ ~Dead /\ HasHeadroom
    /\ spc' = [spc EXCEPT ![p] = "checked"]
    /\ UNCHANGED <<critCh, outCh, pending, connVars, loopVars, nsent,
                   flushVars, accepted, wire, overtaken>>

\* The select after that test, on a queue others may have filled meanwhile.
BulkQueue(p) ==
    /\ p \in Bulk /\ spc[p] = "checked" /\ HasRoom
    /\ PutCritical(p)
    /\ UNCHANGED <<outCh, pending, connVars, loopVars, nsent, flushVars, wire,
                   overtaken>>

BulkLostRace(p) ==
    /\ p \in Bulk /\ spc[p] = "checked" /\ ~HasRoom
    /\ spc' = [spc EXCEPT ![p] = "waiting"]
    /\ UNCHANGED <<critCh, outCh, pending, connVars, loopVars, nsent,
                   flushVars, accepted, wire, overtaken>>

\* A live frame: queued while there is room, shed silently otherwise.
SendDroppable ==
    /\ ~Dead /\ outCh < Cap
    /\ outCh' = outCh + 1
    /\ UNCHANGED <<critCh, pending, connVars, loopVars, sendVars, flushVars,
                   accepted, wire, overtaken>>

----------------------------------------------------------------------------
(* sendLoop *)

TakeCritical ==
    /\ critCh # <<>>
    /\ cur' = Head(critCh) /\ critCh' = Tail(critCh)
    /\ loopPC' = "write" /\ overtaken' = 0
    /\ UNCHANGED outCh

TakeLive ==
    /\ outCh > 0
    /\ cur' = Live /\ outCh' = outCh - 1
    /\ loopPC' = "write"
    /\ overtaken' = IF critCh = <<>> THEN 0 ELSE overtaken + 1
    /\ UNCHANGED critCh

TakeDone ==
    /\ closed
    /\ loopPC' = "exiting"
    /\ UNCHANGED <<critCh, outCh, cur, overtaken>>

\* Fault: a single select without priority.
NothingUrgent_NoPriority == ~closed

NothingUrgent == critCh = <<>> /\ ~closed

\* The priority select: its default runs only when nothing else can.
FirstSelect ==
    /\ loopPC = "first"
    /\ \/ TakeCritical
       \/ TakeDone
       \/ /\ NothingUrgent
          /\ loopPC' = "second"
          /\ UNCHANGED <<critCh, outCh, cur, overtaken>>
    /\ UNCHANGED <<pending, connVars, sendVars, flushVars, accepted, wire>>

\* The blocking select picks at random among the cases that are ready.
SecondSelect ==
    /\ loopPC = "second"
    /\ TakeCritical \/ TakeLive \/ TakeDone
    /\ UNCHANGED <<pending, connVars, sendVars, flushVars, accepted, wire>>

\* c.write returned true.
WriteOk ==
    /\ loopPC = "write"
    /\ loopPC' = IF cur = Live THEN "first" ELSE "count"
    /\ wire' = IF cur = Live THEN wire ELSE Append(wire, cur)
    /\ cur' = None
    /\ UNCHANGED <<critCh, outCh, pending, connVars, sendVars, flushVars,
                   accepted, overtaken>>

\* c.write failed, or its deadline passed with no byte moved: the conn is
\* retired before sendLoop looks at the answer.
WriteFail ==
    /\ loopPC = "write"
    /\ MarkDead
    /\ loopPC' = IF cur = Live THEN "exiting" ELSE "uncount"
    /\ cur' = None
    /\ UNCHANGED <<critCh, outCh, pending, overflow, closing, sendVars,
                   flushVars, accepted, wire, overtaken>>

\* pending.Add(-1) follows a write of a must-deliver frame, failed or not.
Discount ==
    /\ loopPC \in {"count", "uncount"}
    /\ pending' = pending - 1
    /\ loopPC' = IF loopPC = "count" THEN "first" ELSE "exiting"
    /\ UNCHANGED <<critCh, outCh, connVars, cur, sendVars, flushVars, accepted,
                   wire, overtaken>>

\* The deferred markDead.
LoopExit ==
    /\ loopPC = "exiting"
    /\ MarkDead
    /\ loopPC' = "gone"
    /\ UNCHANGED <<critCh, outCh, pending, overflow, closing, cur, sendVars,
                   flushVars, accepted, wire, overtaken>>

----------------------------------------------------------------------------
(* Closing and flushing *)

\* The goroutine the overflow spawned.
CloseOverflowed ==
    /\ closing
    /\ MarkDead /\ closing' = FALSE
    /\ UNCHANGED <<critCh, outCh, pending, overflow, loopVars, sendVars,
                   flushVars, accepted, wire, overtaken>>

\* Close from anywhere else: the reader saw the peer go, or Server.Stop.
CloseElsewhere ==
    /\ ~closed /\ MarkDead
    /\ UNCHANGED <<critCh, outCh, pending, overflow, closing, loopVars,
                   sendVars, flushVars, accepted, wire, overtaken>>

Uncounted == {p \in Procs : spc[p] = "queued"}

FlushCall(f) ==
    /\ fpc[f] = "idle"
    /\ fpc' = [fpc EXCEPT ![f] = "polling"]
    /\ owed' = [owed EXCEPT ![f] =
          {accepted[i] : i \in DOMAIN accepted}
             \ {<<p, nsent[p]>> : p \in Uncounted}]
    /\ UNCHANGED <<critCh, outCh, pending, connVars, loopVars, sendVars,
                   accepted, wire, overtaken>>

\* One turn of Flush's loop; the timeout may pass at any turn.
FlushPoll(f) ==
    /\ fpc[f] = "polling"
    /\ fpc' = [fpc EXCEPT ![f] = IF pending <= 0 THEN "drained" ELSE "gaveup"]
    /\ UNCHANGED <<critCh, outCh, pending, connVars, loopVars, sendVars, owed,
                   accepted, wire, overtaken>>

----------------------------------------------------------------------------

SenderStep(p) ==
    SendCheck(p) \/ SendQueue(p) \/ SendOverflow(p) \/ Count(p)

BulkStep(p) ==
    BulkCall(p) \/ BulkRefused(p) \/ BulkCanceled(p) \/ BulkCheck(p)
       \/ BulkQueue(p) \/ BulkLostRace(p) \/ Count(p)

LoopStep ==
    FirstSelect \/ SecondSelect \/ WriteOk \/ WriteFail \/ Discount \/ LoopExit

Next ==
    \/ \E p \in Senders : SenderStep(p)
    \/ \E p \in Bulk : BulkStep(p)
    \/ SendDroppable
    \/ LoopStep
    \/ CloseOverflowed \/ CloseElsewhere
    \/ \E f \in Flushers : FlushCall(f) \/ FlushPoll(f)

\* What the scheduler owes a goroutine that can run.  A write ends because the
\* write deadline ends it; nothing makes a peer read, a caller call, cancel
\* fire or the other side hang up.
Fairness ==
    /\ WF_vars(LoopStep)
    /\ WF_vars(CloseOverflowed)
    /\ \A p \in Procs : WF_vars(Count(p))
    /\ \A p \in Senders : WF_vars(SendQueue(p) \/ SendOverflow(p))
    /\ \A p \in Bulk : WF_vars(BulkRefused(p) \/ BulkCheck(p) \/ BulkQueue(p)
                                 \/ BulkLostRace(p))
    /\ \A f \in Flushers : WF_vars(FlushPoll(f))

Spec == Init /\ [][Next]_vars
FairSpec == Spec /\ Fairness

----------------------------------------------------------------------------
(* Properties *)

InWrite == IF loopPC = "write" /\ cur # Live THEN 1 ELSE 0
Undiscounted == IF loopPC \in {"count", "uncount"} THEN 1 ELSE 0

\* The counter Flush trusts counts exactly the must-deliver frames that are
\* queued, being written, or written and not discounted, less the ones whose
\* sender has not reached pending.Add yet.  A path that queues without counting
\* drives it negative for good and makes every later Flush lie.
PendingAccounting ==
    pending = Len(critCh) + InWrite + Undiscounted - Cardinality(Uncounted)

InHand == IF loopPC = "write" /\ cur # Live THEN <<cur>> ELSE <<>>

\* While the connection is open, what was accepted is on the wire, in sendLoop's
\* hand or queued, in the order it was accepted: no must-deliver frame is lost
\* or reordered by any mix of senders, live traffic and write results.
AcceptedInOrder ==
    ~closed => accepted = wire \o InHand \o critCh

BulkQueued == Cardinality({i \in DOMAIN critCh : critCh[i][1] \in Bulk})

\* SendBlocking tests the depth and queues in two steps, so bulk senders can
\* pass the headroom, but only by one frame each: what fills the queue to its
\* overflow close is traffic of others (the promise at sendHeadroom).
BulkLeavesRoom ==
    BulkQueued <= Headroom - 1 + Cardinality(Bulk)

\* "The send loop drains critical first": an output flood delays a waiting
\* must-deliver frame by one live frame at most, the one the second select may
\* pick at random.
OvertakenAtMostOnce == overtaken <= 1

\* An overflow always ends in a closed conn, though no sender closes it itself.
OverflowCloses == overflow ~> closed

\* A SendBlocking caller left behind by sendLoop returns instead of polling a
\* queue that nobody drains.
StrandedSenderReturns ==
    \A p \in Bulk : (loopPC = "gone" /\ spc[p] = "waiting") ~> spc[p] # "waiting"

\* Flush's contract: "waits until every must-deliver frame accepted by Send has
\* reached the socket ... Returns true if the queue drained."  On a connection
\* that never failed, where no error excuses it, an answer of "drained" means
\* that the frames whose Send had returned before the call are out.
FlushTruthfulOpen ==
    ~closed => \A f \in Flushers : fpc[f] = "drained" =>
                   owed[f] \subseteq {wire[i] : i \in DOMAIN wire}

\* The types, with the queues inside their capacities, and the counter.
QueueSound == TypeOK /\ PendingAccounting

\* What a must-deliver frame is promised while the connection is open: its
\* place in the order of acceptance, at most one live frame late (enqueue,
\* sendLoop's two selects).
OrderKept == AcceptedInOrder /\ OvertakenAtMostOnce

\* A connection that lost its drainer, or overflowed, is retired and lets its
\* senders go (write's close on failure, enqueue's spawned close).
SendersReleased == OverflowCloses /\ StrandedSenderReturns
=============================================================================
