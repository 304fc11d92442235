------------------------------ MODULE PaneSize ------------------------------
(***************************************************************************)
(* The size of one pane: applyResizes in internal/daemon/daemon.go, the    *)
(* restart that swaps the PTY under it, the state frames that carry the    *)
(* recorded size, and the TUI's adoptDaemonSize (internal/tui/pane.go).    *)
(*                                                                         *)
(* Each connection has one dispatch goroutine, so at most one batch at a   *)
(* time; a batch is one pane, whose fields change under PluginMu and whose *)
(* PTY is resized outside it.  Sizes a client could not paint, which the   *)
(* daemon refuses, are not sent.  What a client learns is a size with its  *)
(* number, from a pane_sizes frame or from a state frame; frames reach a   *)
(* client in the order they are queued.                                    *)
(*                                                                         *)
(* resizeKick resizes the same PTY, also outside the lock, for an attach,  *)
(* the release of held output, or the first output of a PTY.  A kick of a  *)
(* PTY that was replaced before the kick read does nothing to the pane.    *)
(***************************************************************************)
EXTENDS Naturals, Sequences, FiniteSets

CONSTANTS
    Clients,
    Sizers,       \* the clients that send sizes and take control
    Sizes,        \* the sizes they ask for
    Kickers,      \* the goroutines that kick the pane
    First,        \* the size the pane was spawned with
    NoSize,       \* no size applied to this PTY yet
    Jiggled,      \* a size one column short, which nobody asks for
    NoMaster,
    Masters,      \* who may hold the slot at first, NoMaster for nobody
    MaxRequests,  \* bound: batches that were let in
    MaxTakes,     \* bound: take_control
    MaxCasts,     \* bound: state frames built
    MaxFaults,    \* bound: resizes that fail on a live PTY
    MaxRestarts,  \* bound: restarts of the pane
    MaxKicks      \* bound: kicks

ASSUME PaneSizeAssumption ==
    /\ Sizers \subseteq Clients /\ NoMaster \notin Clients
    /\ Masters \subseteq Clients \cup {NoMaster}
    /\ First \notin Sizes /\ {NoSize, Jiggled} \cap (Sizes \cup {First}) = {}
    /\ {"none", "down"} \cap (Sizes \cup {First}) = {}
    /\ {MaxRequests, MaxTakes, MaxCasts, MaxFaults, MaxRestarts, MaxKicks} \subseteq Nat

VARIABLES
    master,     \* the size master's client, or NoMaster with the slot open
    pty,        \* pane.PTY: which one (0 for nil), and the size it has
    ptys,       \* PTYs opened so far
    size,       \* pane.Cols and Rows
    colsSeq, sizeSeq,
    applied,    \* pane.appliedCols and Rows
    batch,      \* [Clients -> where its applyResizes is]
    restart,    \* "none", "down" (PTY nil), or the size of the new session
    kick,       \* [Kickers -> where its resizeKick is]
    cast,       \* the state frame built and not queued yet
    inbox,      \* [Clients -> frames queued for it]
    held,       \* [Clients -> the size and number its pane has]
    budget,     \* what is left of each bound
    overlapped, \* history: two at work on the pane at once
    strayed,    \* history: a kick met a batch at work, or failed
    deposed,    \* history: control was taken with a batch at work
    failed,     \* history: a resize failed
    bare,       \* history: a resize failed with nothing to go back to
    announced   \* history: [number -> size announced under it]

paneVars == <<pty, ptys, size, colsSeq, sizeSeq, applied>>
frameVars == <<cast, inbox>>
kickVars == <<kick, strayed>>
histVars == <<overlapped, deposed, failed, bare>>
vars == <<master, paneVars, batch, restart, frameVars, held, budget, histVars, announced,
          kickVars>>

AllSizes == Sizes \cup {First}
NoFrame == [size |-> NoSize, seq |-> 0]
Working == {"number", "announce", "resize", "record", "undo", "tellback"}
Seqs == 1 .. 1 + 2 * MaxRequests

\* What applyResizes has in hand of its pane: the size asked for, the PTY and
\* the size applied when it looked, the number it took and whom it told.
Batches == [pc : {"idle", "read"} \cup Working, want : AllSizes \cup {NoSize},
            pty : 0 .. 1 + MaxRestarts, prev : AllSizes \cup {NoSize},
            seq : Seqs \cup {0}, to : SUBSET Clients]
Kicks == [pc : {"idle", "jiggle", "apply"}, pty : 0 .. 1 + MaxRestarts,
          size : AllSizes \cup {NoSize}]
NoKick == [pc |-> "idle", pty |-> 0, size |-> NoSize]
NoBatch == [pc |-> "idle", want |-> NoSize, pty |-> 0, prev |-> NoSize, seq |-> 0, to |-> {}]

TypeOK ==
    /\ master \in Clients \cup {NoMaster}
    /\ pty \in [id : 0 .. 1 + MaxRestarts, size : AllSizes \cup {Jiggled}]
    /\ ptys \in 1 .. 1 + MaxRestarts
    /\ size \in AllSizes /\ applied \in AllSizes \cup {NoSize}
    /\ colsSeq \in Seqs /\ sizeSeq \in Seqs /\ colsSeq <= sizeSeq
    /\ batch \in [Clients -> Batches]
    /\ restart \in {"none", "down"} \cup AllSizes
    /\ kick \in [Kickers -> Kicks]
    /\ cast \in [size : AllSizes, seq : Seqs] \cup {NoFrame}
    /\ inbox \in [Clients -> Seq([size : AllSizes, seq : Seqs])]
    /\ held \in [Clients -> [size : AllSizes, seq : Seqs]]
    /\ {overlapped, strayed, deposed, failed, bare} \subseteq BOOLEAN
    /\ DOMAIN announced \subseteq Seqs

\* A pane whose spawn size every client has; a client may have sized it since.
Init ==
    /\ master \in Masters
    /\ pty = [id |-> 1, size |-> First] /\ ptys = 1
    /\ size = First /\ colsSeq = 1 /\ sizeSeq = 1
    /\ applied \in {First, NoSize}
    /\ batch = [c \in Clients |-> NoBatch]
    /\ restart = "none"
    /\ kick = [k \in Kickers |-> NoKick] /\ strayed = FALSE
    /\ cast = NoFrame
    /\ inbox = [c \in Clients |-> <<>>]
    /\ held = [c \in Clients |-> [size |-> First, seq |-> 1]]
    /\ budget = [requests |-> MaxRequests, takes |-> MaxTakes, casts |-> MaxCasts,
                 faults |-> MaxFaults, restarts |-> MaxRestarts, kicks |-> MaxKicks]
    /\ overlapped = FALSE /\ deposed = FALSE /\ failed = FALSE /\ bare = FALSE
    /\ announced = [n \in {1} |-> First]

Spend(what) == budget[what] > 0 /\ budget' = [budget EXCEPT ![what] = @ - 1]
At(c, pc) == batch[c].pc = pc
Become(c, b) == batch' = [batch EXCEPT ![c] = b]
Goto(c, pc) == Become(c, [batch[c] EXCEPT !.pc = pc])
EndBatch(c) == Become(c, NoBatch)
AtWork == {c \in Clients : batch[c].pc \in Working}
AtKick == {k \in Kickers : kick[k].pc # "idle" /\ kick[k].pty = pty.id}

\* Send: one frame on each queue, in no order that matters between clients.
QueueFor(to, frame) ==
    inbox' = [c \in Clients |-> IF c \in to THEN Append(inbox[c], frame) ELSE inbox[c]]

-----------------------------------------------------------------------------
(* applyResizes. *)

MaySize(c) == master \in {c, NoMaster}

Request(c, s) ==
    /\ At(c, "idle") /\ MaySize(c)
    /\ Spend("requests")
    /\ Become(c, [NoBatch EXCEPT !.pc = "read", !.want = s])
    /\ UNCHANGED <<master, paneVars, restart, frameVars, held, histVars, announced, kickVars>>

\* The same-size guard.
Skipped(c) == pty.id = 0 \/ applied = batch[c].want

Collect(c) ==
    /\ At(c, "read")
    /\ IF Skipped(c)
         THEN EndBatch(c) /\ UNCHANGED <<overlapped, strayed>>
         ELSE /\ Become(c, [batch[c] EXCEPT !.pc = "number", !.pty = pty.id, !.prev = applied])
              /\ overlapped' = (overlapped \/ AtWork # {} \/ restart # "none")
              /\ strayed' = (strayed \/ AtKick # {})
    /\ UNCHANGED <<master, paneVars, restart, frameVars, held, budget, deposed, failed, bare,
                   announced, kick>>

\* sizeSeq++ under PluginMu.
Numbered(c, s) ==
    /\ sizeSeq' = sizeSeq + 1
    /\ announced' = [n \in DOMAIN announced \cup {sizeSeq + 1} |->
                        IF n = sizeSeq + 1 THEN s ELSE announced[n]]

Number(c) ==
    /\ At(c, "number")
    /\ Numbered(c, batch[c].want)
    /\ Become(c, [batch[c] EXCEPT !.pc = "announce", !.seq = sizeSeq + 1])
    /\ UNCHANGED <<master, pty, ptys, size, colsSeq, applied, restart, frameVars, held,
                   budget, histVars, kickVars>>

Followers(except) == Clients \ {except, master}

\* sendPaneSizes.
Announce(c) ==
    /\ At(c, "announce")
    /\ QueueFor(Followers(c), [size |-> batch[c].want, seq |-> batch[c].seq])
    /\ Become(c, [batch[c] EXCEPT !.pc = "resize", !.to = Followers(c)])
    /\ UNCHANGED <<master, paneVars, restart, cast, held, budget, histVars,
                   announced, kickVars>>

\* The resize itself.  On a PTY that is being closed it may still work, to no
\* effect on the pane.
Resize(c) ==
    /\ At(c, "resize")
    /\ pty' = IF batch[c].pty = pty.id THEN [pty EXCEPT !.size = batch[c].want] ELSE pty
    /\ Goto(c, "record")
    /\ UNCHANGED <<master, ptys, size, colsSeq, sizeSeq, applied, restart, frameVars, held,
                   budget, histVars, announced, kickVars>>

\* Fault: the size is recorded all the same.
ResizeFails_Recorded(c) ==
    /\ At(c, "resize")
    /\ IF batch[c].pty = pty.id THEN Spend("faults") ELSE UNCHANGED budget
    /\ failed' = TRUE
    /\ Goto(c, "record")
    /\ UNCHANGED <<master, paneVars, restart, frameVars, held, overlapped, deposed, bare,
                   announced, kickVars>>
\* Nothing is recorded, and a size that was announced is taken back.
ResizeFails(c) ==
    /\ At(c, "resize")
    /\ IF batch[c].pty = pty.id THEN Spend("faults") ELSE UNCHANGED budget
    /\ failed' = TRUE
    /\ IF batch[c].prev = NoSize
         THEN EndBatch(c) /\ bare' = TRUE
         ELSE Goto(c, "undo") /\ UNCHANGED bare
    /\ UNCHANGED <<master, paneVars, restart, frameVars, held, overlapped, deposed,
                   announced, kickVars>>

Later(m, n) == IF m > n THEN m ELSE n

\* Fault: the number recorded is this batch's, also when it is older.
Record_OwnNumber(c) ==
    /\ At(c, "record")
    /\ applied' = batch[c].want /\ size' = batch[c].want
    /\ colsSeq' = batch[c].seq
    /\ EndBatch(c)
    /\ UNCHANGED <<master, pty, ptys, sizeSeq, restart, frameVars, held, budget, histVars,
                   announced, kickVars>>
\* One hold of PluginMu, after the resize.
Record(c) ==
    /\ At(c, "record")
    /\ applied' = batch[c].want /\ size' = batch[c].want
    /\ colsSeq' = Later(colsSeq, batch[c].seq)
    /\ EndBatch(c)
    /\ UNCHANGED <<master, pty, ptys, sizeSeq, restart, frameVars, held, budget, histVars,
                   announced, kickVars>>

Undo(c) ==
    /\ At(c, "undo")
    /\ Numbered(c, batch[c].prev)
    /\ Become(c, [batch[c] EXCEPT !.pc = "tellback", !.seq = sizeSeq + 1])
    /\ UNCHANGED <<master, pty, ptys, size, colsSeq, applied, restart, frameVars, held,
                   budget, histVars, kickVars>>

TellBack(c) ==
    /\ At(c, "tellback")
    /\ QueueFor(Followers(c), [size |-> batch[c].prev, seq |-> batch[c].seq])
    /\ EndBatch(c)
    /\ UNCHANGED <<master, paneVars, restart, cast, held, budget, histVars,
                   announced, kickVars>>

-----------------------------------------------------------------------------
(* resizeKick. *)

\* The PTY and the size recorded, read in one hold of PluginMu.
KickRead(k) ==
    /\ kick[k].pc = "idle" /\ pty.id # 0 /\ Spend("kicks")
    /\ kick' = [kick EXCEPT ![k] = [pc |-> "jiggle", pty |-> pty.id, size |-> size]]
    /\ strayed' = (strayed \/ AtWork # {})
    /\ UNCHANGED <<master, paneVars, batch, restart, frameVars, held, histVars, announced>>

Kicked(k, s) == pty' = IF k \in AtKick THEN [pty EXCEPT !.size = s] ELSE pty

\* One column less, for which the child gets its event.  With one column only
\* it is left out, and a failure is only logged.
KickJiggle(k) ==
    /\ kick[k].pc = "jiggle"
    /\ Kicked(k, Jiggled) \/ UNCHANGED pty
    /\ kick' = [kick EXCEPT ![k].pc = "apply"]
    /\ UNCHANGED <<master, ptys, size, colsSeq, sizeSeq, applied, batch, restart, frameVars,
                   held, budget, histVars, announced, strayed>>

\* The size read, whatever was recorded since.
KickApply(k) ==
    /\ kick[k].pc = "apply"
    /\ \/ Kicked(k, kick[k].size) /\ UNCHANGED <<strayed, budget>>
       \/ k \in AtKick /\ Spend("faults") /\ strayed' = TRUE /\ UNCHANGED pty
    /\ kick' = [kick EXCEPT ![k] = NoKick]
    /\ UNCHANGED <<master, ptys, size, colsSeq, sizeSeq, applied, batch, restart, frameVars,
                   held, histVars, announced>>

-----------------------------------------------------------------------------
(* take_control, restart, and the state frames. *)

TakeControl(c) ==
    /\ master # c /\ Spend("takes")
    /\ master' = c
    /\ deposed' = (deposed \/ AtWork # {})
    /\ UNCHANGED <<paneVars, batch, restart, frameVars, held, overlapped, failed, bare,
                   announced, kickVars>>

\* restartPaneInPlace: the PTY goes, a session is made at the recorded size,
\* and its installation forgets the size applied.
RestartDown ==
    /\ restart = "none" /\ Spend("restarts")
    /\ pty' = [pty EXCEPT !.id = 0]
    /\ restart' = "down"
    /\ overlapped' = (overlapped \/ AtWork # {})
    /\ UNCHANGED <<master, ptys, size, colsSeq, sizeSeq, applied, batch, frameVars, held,
                   deposed, failed, bare, announced, kickVars>>

RestartSession ==
    /\ restart = "down"
    /\ restart' = size
    /\ UNCHANGED <<master, paneVars, batch, frameVars, held, budget, histVars,
                   announced, kickVars>>

RestartInstall ==
    /\ restart \in AllSizes
    /\ ptys' = ptys + 1
    /\ pty' = [id |-> ptys + 1, size |-> restart]
    /\ applied' = NoSize
    /\ restart' = "none"
    /\ UNCHANGED <<master, size, colsSeq, sizeSeq, batch, frameVars, held, budget, histVars,
                   announced, kickVars>>

\* Fault: the frame's size goes out under the newest number.
Frame_LastNumber == [size |-> size, seq |-> sizeSeq]
\* Fault: the frame carries no number.
Frame_Unnumbered == [size |-> size, seq |-> 0]
\* The size with the number it was recorded under, read in one hold.
Frame == [size |-> size, seq |-> colsSeq]

BuildState ==
    /\ cast = NoFrame /\ Spend("casts")
    /\ cast' = Frame
    /\ UNCHANGED <<master, paneVars, batch, restart, inbox, held, histVars,
                   announced, kickVars>>

QueueState ==
    /\ cast # NoFrame
    /\ QueueFor(Clients, cast)
    /\ cast' = NoFrame
    /\ UNCHANGED <<master, paneVars, batch, restart, held, budget, histVars,
                   announced, kickVars>>

\* Fault: whatever comes is taken.
Adopts_Any(c, frame) == TRUE
\* adoptDaemonSize.
Adopts(c, frame) == frame.seq >= held[c].seq

Receive(c) ==
    /\ inbox[c] # <<>>
    /\ inbox' = [inbox EXCEPT ![c] = Tail(@)]
    /\ held' = IF Adopts(c, Head(inbox[c])) THEN [held EXCEPT ![c] = Head(inbox[c])] ELSE held
    /\ UNCHANGED <<master, paneVars, batch, restart, cast, budget, histVars,
                   announced, kickVars>>

-----------------------------------------------------------------------------
Batching(c) ==
    Collect(c) \/ Number(c) \/ Announce(c) \/ Resize(c) \/ ResizeFails(c) \/ Record(c)
        \/ Undo(c) \/ TellBack(c)

Kicking(k) == KickRead(k) \/ KickJiggle(k) \/ KickApply(k)

Restarting == RestartDown \/ RestartSession \/ RestartInstall

Next ==
    \/ \E c \in Sizers : Batching(c) \/ TakeControl(c) \/ \E s \in Sizes : Request(c, s)
    \/ Restarting \/ BuildState \/ QueueState
    \/ \E c \in Clients : Receive(c)
    \/ \E k \in Kickers : Kicking(k)

Spec == Init /\ [][Next]_vars

-----------------------------------------------------------------------------
(* Properties. *)

\* Nobody is at work on the pane.
Quiet == restart = "none" /\ \A c \in Clients : At(c, "idle")

\* A follower that has read its frames holds the recorded size or can still be
\* told it: no state frame of the present would be refused as older than what
\* the follower has (Pane.colsSeq never goes backwards, adoptDaemonSize).
InReach ==
    \A c \in Clients \ {master} :
        inbox[c] = <<>> => held[c].size = size \/ held[c].seq <= colsSeq

\* Nobody is left out of reach of the state frames by batches of two clients
\* and a restart, in any order, nor by one failed resize on its own, which is
\* taken back.  A failure that overlaps other work or a change of master, or
\* has nothing to go back to, is excepted.
FramesCorrect ==
    Quiet /\ ~bare /\ ~(failed /\ (overlapped \/ deposed)) => InReach

\* A size that was announced and refused by the PTY is taken back rightly,
\* whatever else happens to the pane.  The code does not hold to it.
TakenBackRight == Quiet /\ ~bare => InReach

NoKicks == \A k \in Kickers : kick[k] = NoKick

\* What is recorded is the PTY's size once the work is done, however kicks
\* meet kicks and restarts, when batches overlap neither a restart nor a kick
\* of the same PTY and no kick failed (applyResizes records only after a
\* success, resizeKick goes back to the size recorded).
LoneRecordIsReal == Quiet /\ NoKicks /\ ~overlapped /\ ~strayed => size = pty.size

\* What redrawKick says of applying the previous client's size just before a
\* resize: "transient rather than stuck".  A resize done between the kick's
\* read and its last step is undone, and stays so.
KickIsTransient == Quiet /\ NoKicks /\ ~overlapped /\ ~failed => size = pty.size

\* What a comment of applyResizes says of overlapping batches: the one recorded
\* last "still ran LAST, so Cols/Rows above are the PTY's real size".
RecordIsReal == Quiet /\ NoKicks => size = pty.size

\* A follower never holds one announcement's size under another's number, so a
\* state frame built before a batch was recorded cannot undo its pane_sizes
\* frame (Pane.sizeSeq, Pane.colsSeq).
HeldIsAnnounced ==
    ~overlapped => \A c \in Clients : held[c].size = announced[held[c].seq]

\* The PTY has a new size only when every follower of the batch has it or is
\* about to read it, so the child's repaint finds the size it was made for
\* (applyResizes announces before it resizes).
AnnouncedFirst ==
    ~overlapped => \A c \in Sizers : At(c, "record") =>
        \A f \in batch[c].to :
            \/ held[f].size = batch[c].want
            \/ \E i \in DOMAIN inbox[f] : inbox[f][i].seq = batch[c].seq

\* The types, the pairing of sizes with their numbers, and the announcement
\* before the resize.
SizesSound == TypeOK /\ HeldIsAnnounced /\ AnnouncedFirst
=============================================================================
