----------------------------- MODULE LayoutSync -----------------------------
(***************************************************************************)
(* Several TUIs editing one tab's layout tree: the daemon's compare-and-   *)
(* store on layout_rev (session.go, layout_tree.go), the coalesced and     *)
(* numbered workspace-state broadcast (broadcast_coalesce.go,              *)
(* buildWorkspaceState) and each client's side of it (tui/layoutsync.go,   *)
(* tui/staterev.go, rebuildTabs in tui/model.go).                          *)
(*                                                                         *)
(* A tree is the last drag it holds and the panes it names, each with who  *)
(* placed it there: two trees differ exactly when one of these does.       *)
(* Left out: reservations (replace, worktree), moves between tabs,         *)
(* templates, overlays, and a tab with no stored tree or no pane.  A frame *)
(* of an old connection or daemon run never reaches a client, so run_id is *)
(* not represented.                                                        *)
(***************************************************************************)
EXTENDS Integers, Sequences, FiniteSets, SequencesExt

CONSTANTS
    Clients,
    First,       \* panes the tab starts with
    Later,       \* panes a script may create with a plain create_pane
    Closable,    \* panes a user may close; one pane always stays
    MaxActs      \* bound: drags, closes, creates and lost connections, together

ASSUME LayoutSyncAssumption ==
    /\ IsFiniteSet(Clients) /\ Clients # {}
    /\ IsFiniteSet(First \cup Later) /\ First \cap Later = {}
    /\ Closable \subseteq First \cup Later
    /\ First \ Closable # {}
    /\ MaxActs \in Nat

VARIABLES
    panes,       \* the tab's live panes in the session
    stored,      \* Tab.Layout
    lrev,        \* Tab.LayoutRev
    rev,         \* Daemon.stateRev
    armed,       \* broadcastTimerStop is set
    due,         \* goroutines that changed something and have not built yet
    casts,       \* frames built, and the connections still to queue them on
    tab,         \* [Clients -> the client's TabModel]
    mark,        \* [Clients -> stateSeen's rev], 0 for none
    closeRequested,  \* [Clients -> panes asked to close, not seen gone]
    out,         \* [Clients -> set of messages on their way to the daemon]
    in,          \* [Clients -> frames on their way to the client]
    edits,       \* drags so far
    asks,        \* closes asked for so far
    churn,       \* creates and connections lost so far
    lost,        \* history: a connection was lost
    unborn,      \* panes not created yet
    lastEdit,    \* history: [Clients -> the client's last drag], 0 for none
    wrote,       \* history: clients whose tree was stored
    seen         \* history: [Clients -> layout_rev of the last frame accepted]

daemonVars == <<panes, stored, lrev>>
castVars == <<rev, armed, due, casts>>
clientVars == <<tab, mark, closeRequested>>
boundVars == <<edits, asks, churn, lost, unborn>>
histVars == <<lastEdit, wrote, seen>>
layoutVars == <<daemonVars, castVars, clientVars, out, in, boundVars, histVars>>

Daemon == "daemon"
Timer == "timer"
Script == "script"
Builders == Clients \cup {Timer, Script}

NoTree == [edit |-> 0, at |-> <<>>]
FirstTree == [edit |-> 0, at |-> [p \in First |-> Daemon]]

Ids(tree) == DOMAIN tree.at
Keeping(tree, ps) == [tree EXCEPT !.at = Restrict(@, Ids(tree) \cap ps)]
Placing(tree, ps, who) ==
    [tree EXCEPT !.at = [p \in Ids(tree) \cup ps |->
                            IF p \in Ids(tree) THEN @[p] ELSE who]]

Write(tree, base) == [kind |-> "layout", tree |-> tree, base |-> base]
Close(p) == [kind |-> "close", pane |-> p]
Attach == [kind |-> "attach"]

\* A tab every client has adopted at revision 1, nothing in flight.
LayoutInit ==
    /\ panes = First /\ stored = FirstTree /\ lrev = 1
    /\ rev = 1 /\ armed = FALSE /\ due = {} /\ casts = {}
    /\ tab = [c \in Clients |->
                 [rev |-> 1, tree |-> FirstTree, dirty |-> FALSE,
                  sent |-> NoTree, resend |-> FALSE, placed |-> {},
                  gone |-> {}, adopt |-> FALSE]]
    /\ mark = [c \in Clients |-> 1]
    /\ closeRequested = [c \in Clients |-> {}]
    /\ out = [c \in Clients |-> {}]
    /\ in = [c \in Clients |-> <<>>]
    /\ edits = 0 /\ asks = 0 /\ churn = 0 /\ lost = FALSE /\ unborn = Later
    /\ lastEdit = [c \in Clients |-> 0]
    /\ wrote = {}
    /\ seen = [c \in Clients |-> 1]

-----------------------------------------------------------------------------
(* A client's tab *)

\* Fault: the client counts its write as stored when it sends it.
Marked_CountsAhead(t) ==
    IF t.dirty THEN [t EXCEPT !.resend = TRUE]
    ELSE [t EXCEPT !.dirty = TRUE, !.sent = t.tree, !.resend = FALSE,
                   !.placed = {}, !.gone = {}, !.rev = @ + 1]
\* What markLayoutChanged makes of the tab, and the write it sends.
Marked(t) ==
    IF t.dirty THEN [t EXCEPT !.resend = TRUE]
    ELSE [t EXCEPT !.dirty = TRUE, !.sent = t.tree, !.resend = FALSE,
                   !.placed = {}, !.gone = {}]
Sent(t) == IF t.dirty THEN {} ELSE {Write(t.tree, t.rev)}

MarkLayoutChanged(c, t) ==
    /\ tab' = [tab EXCEPT ![c] = Marked(t)]
    /\ out' = [out EXCEPT ![c] = @ \cup Sent(t)]

\* The three cases of syncTabLayout for tab t and frame f.
Newer(t, f) == f.lrev > t.rev \/ t.adopt
Held(t, f) == ~Newer(t, f) /\ (f.lrev < t.rev \/ t.dirty)
\* Fault: our own write coming back is not told from somebody else's.
Echo_Never(t, f) == FALSE
Echo(t, f) == t.dirty /\ f.tree = t.sent
Adopts(t, f) == Newer(t, f) /\ ~Echo(t, f) /\ f.tree # t.tree

\* Fault: the write in flight is settled by its own echo only.
Noted_EchoOnly(t, f) ==
    IF ~Newer(t, f) THEN t
    ELSE IF t.dirty /\ ~Echo(t, f) THEN [t EXCEPT !.rev = f.lrev, !.adopt = FALSE]
    ELSE [t EXCEPT !.rev = f.lrev, !.adopt = FALSE, !.dirty = FALSE,
                   !.sent = NoTree, !.resend = FALSE]
Noted(t, f) ==
    IF Newer(t, f)
    THEN [t EXCEPT !.rev = f.lrev, !.adopt = FALSE, !.dirty = FALSE,
                   !.sent = NoTree, !.resend = FALSE]
    ELSE t

\* The stored tree has not caught up with what was placed or pruned here.
Missed(t, f) ==
    \/ (t.placed \cap f.panes) \ Ids(f.tree) # {}
    \/ (t.gone \ f.panes) \cap Ids(f.tree) # {}

Synced(t, f, asked) ==
    IF Held(t, f) THEN t
    ELSE IF Adopts(t, f)
    THEN [Noted(t, f) EXCEPT !.tree = Keeping(f.tree, f.panes),
                             !.placed = {}, !.gone = (Ids(f.tree) \ f.panes) \ asked]
    ELSE [Noted(t, f) EXCEPT !.placed = {}, !.gone = {}]

SyncSends(t, f, asked) ==
    IF Adopts(t, f) THEN (Ids(f.tree) \ f.panes) \cap asked # {}
    ELSE \/ Newer(t, f) /\ Echo(t, f) /\ t.resend
         \/ ~Held(t, f) /\ Missed(t, f)

\* The reconcile loops that follow: prune what the daemon removed, place what
\* the tree lacks.
Pruned(t, f) == Ids(t.tree) \ f.panes
Arrived(t, f) == f.panes \ Ids(t.tree)
Reconciled(c, t, f, asked) ==
    [t EXCEPT !.tree = Placing(Keeping(@, f.panes), Arrived(t, f), c),
              !.gone = @ \cup (Pruned(t, f) \ asked),
              !.placed = @ \cup Arrived(t, f)]

-----------------------------------------------------------------------------
(* What users and scripts do *)

Acts == edits + asks + churn
Churn == Acts < MaxActs /\ churn' = churn + 1

\* A split-drag released: there is a border between two panes.
Edit(c) ==
    /\ Cardinality(Ids(tab[c].tree)) > 1
    /\ Acts < MaxActs
    /\ edits' = edits + 1
    /\ lastEdit' = [lastEdit EXCEPT ![c] = edits + 1]
    /\ MarkLayoutChanged(c, [tab[c] EXCEPT !.tree.edit = edits + 1])
    /\ UNCHANGED <<daemonVars, castVars, mark, closeRequested, in, asks, churn,
                   lost, unborn, wrote, seen>>

ConfirmClose(c, p) ==
    /\ p \in Ids(tab[c].tree) \cap Closable
    /\ p \notin closeRequested[c]
    /\ Acts < MaxActs
    /\ asks' = asks + 1
    /\ closeRequested' = [closeRequested EXCEPT ![c] = @ \cup {p}]
    /\ out' = [out EXCEPT ![c] = @ \cup {Close(p)}]
    /\ UNCHANGED <<daemonVars, castVars, tab, mark, in, edits, churn, lost,
                   unborn, histVars>>

Busy(b) == b \in due \/ \E k \in casts : k.by = b

\* PublishPane's default slot: the pane joins the tab, its stored tree stays.
Create(p) ==
    /\ p \in unborn
    /\ ~Busy(Script)
    /\ Churn
    /\ panes' = panes \cup {p}
    /\ unborn' = unborn \ {p}
    /\ due' = due \cup {Script}
    /\ UNCHANGED <<stored, lrev, rev, armed, casts, clientVars, out, in, edits,
                   asks, lost, histVars>>

-----------------------------------------------------------------------------
(* The daemon *)

\* Fault: the client's tree is stored as it came.
Valid_AsSent(tree) == tree
\* validLayoutLocked: dead leaves go, missing panes are placed.
Valid(tree) == Placing(Keeping(tree, panes), panes, Daemon)

\* A client sends from commands on goroutines of their own, in any order; only
\* the attach comes first.
Delivered(c, m, kind) ==
    /\ m \in out[c] /\ m.kind = kind
    /\ m = Attach \/ Attach \notin out[c]
    /\ ~Busy(c)
    /\ out' = [out EXCEPT ![c] = @ \ {m}]

\* Fault: base_rev is not compared.
BaseCurrent_Always(m) == TRUE
BaseCurrent(m) == m.base = lrev

\* requestBroadcast: a call inside an open window rides its timer.
RequestBroadcast == armed' = TRUE

HandleUpdateLayout(c, m) ==
    /\ Delivered(c, m, "layout")
    /\ IF BaseCurrent(m)
       THEN /\ stored' = Valid(m.tree)
            /\ lrev' = lrev + 1
            /\ RequestBroadcast
            /\ wrote' = wrote \cup {c}
       ELSE UNCHANGED <<stored, lrev, armed, wrote>>
    /\ UNCHANGED <<panes, rev, due, casts, clientVars, in, boundVars, lastEdit,
                   seen>>

\* DestroyPane prunes the tree in the hold that removes the pane.  A pane
\* already gone is broadcast all the same.
HandleDestroyPane(c, m) ==
    /\ Delivered(c, m, "close")
    /\ panes' = panes \ {m.pane}
    /\ stored' = Keeping(stored, panes')
    /\ lrev' = IF m.pane \in Ids(stored) THEN lrev + 1 ELSE lrev
    /\ due' = due \cup {c}
    /\ UNCHANGED <<rev, armed, casts, clientVars, in, boundVars, histVars>>

Frame == [rev |-> rev + 1, panes |-> panes, tree |-> stored, lrev |-> lrev]

\* buildWorkspaceState reads and numbers in one hold of stateMu; the frame is
\* queued connection by connection after the hold.
Build(b, to) ==
    /\ rev' = rev + 1
    /\ casts' = casts \cup {[by |-> b, frame |-> Frame, todo |-> to]}

BroadcastState(b) ==
    /\ b \in due
    /\ due' = due \ {b}
    /\ Build(b, SetToSeq(Clients))
    /\ UNCHANGED <<daemonVars, armed, clientVars, out, in, boundVars, histVars>>

HandleAttach(c) ==
    /\ Delivered(c, Attach, "attach")
    /\ Build(c, <<c>>)
    /\ UNCHANGED <<daemonVars, armed, due, clientVars, in, boundVars, histVars>>

\* fireCoalescedBroadcast clears the marker, then builds.  One at a time: its
\* predecessor finished a window ago.
FireCoalesced ==
    /\ armed
    /\ ~Busy(Timer)
    /\ armed' = FALSE
    /\ due' = due \cup {Timer}
    /\ UNCHANGED <<daemonVars, rev, casts, clientVars, out, in, boundVars,
                   histVars>>

\* One conn.Send of a broadcast, in the order of the connection list.
Queue(k) ==
    /\ in' = [in EXCEPT ![Head(k.todo)] = Append(@, k.frame)]
    /\ casts' = (casts \ {k}) \cup
                {j \in {[k EXCEPT !.todo = Tail(@)]} : j.todo # <<>>}
    /\ UNCHANGED <<daemonVars, rev, armed, due, clientVars, out, boundVars,
                   histVars>>

-----------------------------------------------------------------------------
(* A client *)

\* Fault: a frame is applied whatever its number.
AcceptStateRev_Any(c, f) == TRUE
AcceptStateRev(c, f) == f.rev > mark[c]

Receive(c) ==
    /\ in[c] # <<>>
    /\ in' = [in EXCEPT ![c] = Tail(@)]
    /\ LET f == Head(in[c])
           t == tab[c]
           s == Synced(t, f, closeRequested[c])
           r == Reconciled(c, s, f, closeRequested[c])
           removed == Pruned(s, f) \cup
                      (IF Adopts(t, f) THEN Ids(f.tree) \ f.panes ELSE {})
       IN IF AcceptStateRev(c, f)
          THEN /\ mark' = [mark EXCEPT ![c] = f.rev]
               /\ seen' = [seen EXCEPT ![c] = f.lrev]
               /\ closeRequested' = [closeRequested EXCEPT ![c] = @ \ removed]
               /\ IF \/ SyncSends(t, f, closeRequested[c])
                     \/ Pruned(s, f) \cap closeRequested[c] # {}
                  THEN MarkLayoutChanged(c, r)
                  ELSE tab' = [tab EXCEPT ![c] = r] /\ out' = out
          ELSE UNCHANGED <<mark, seen, closeRequested, tab, out>>
    /\ UNCHANGED <<daemonVars, castVars, boundVars, lastEdit, wrote>>

\* The connection is lost and made again: what was in flight is gone, and
\* armReattachReset forgets both numbers before the attach is sent.
Reconnect(c) ==
    /\ Churn
    /\ lost' = TRUE
    /\ tab' = [tab EXCEPT ![c].rev = 0, ![c].adopt = TRUE, ![c].dirty = FALSE,
                          ![c].sent = NoTree, ![c].resend = FALSE,
                          ![c].placed = {}, ![c].gone = {}]
    /\ mark' = [mark EXCEPT ![c] = 0]
    /\ closeRequested' = [closeRequested EXCEPT ![c] = {}]
    /\ in' = [in EXCEPT ![c] = <<>>]
    /\ out' = [out EXCEPT ![c] = {Attach}]
    /\ casts' = {k \in {[k EXCEPT !.todo = RemoveFirst(@, c)] : k \in casts} :
                   k.todo # <<>>}
    /\ UNCHANGED <<daemonVars, rev, armed, due, edits, asks, unborn, histVars>>

-----------------------------------------------------------------------------
Dispatching(c) ==
    \/ \E m \in out[c] : HandleUpdateLayout(c, m) \/ HandleDestroyPane(c, m)
    \/ HandleAttach(c)

LayoutNext ==
    \/ \E c \in Clients :
          \/ Edit(c) \/ Dispatching(c) \/ Receive(c) \/ Reconnect(c)
          \/ \E p \in Closable : ConfirmClose(c, p)
    \/ \E p \in Later : Create(p)
    \/ \E b \in Builders : BroadcastState(b)
    \/ FireCoalesced
    \/ \E k \in casts : Queue(k)

LayoutSpec == LayoutInit /\ [][LayoutNext]_layoutVars

\* Goroutines run, the 50 ms timer fires, both ends read what was sent to
\* them.  Users, scripts and connections owe nothing.
LayoutFairness ==
    /\ \A c \in Clients : WF_layoutVars(Dispatching(c)) /\ WF_layoutVars(Receive(c))
    /\ \A b \in Builders : WF_layoutVars(BroadcastState(b))
    /\ WF_layoutVars(FireCoalesced)
    /\ WF_layoutVars(\E k \in casts : Queue(k))

LayoutFairSpec == LayoutSpec /\ LayoutFairness

-----------------------------------------------------------------------------
(* Properties *)

IsTree(tree) ==
    /\ tree.edit \in 0 .. MaxActs
    /\ Ids(tree) \subseteq First \cup Later
    /\ Range(tree.at) \subseteq Clients \cup {Daemon}

\* Every variable stays in its domain, and what a client shows is at least one
\* pane.
LayoutTypeOK ==
    /\ panes \subseteq First \cup Later /\ panes # {}
    /\ IsTree(stored) /\ lrev \in Nat \ {0} /\ rev \in Nat \ {0}
    /\ armed \in BOOLEAN /\ due \subseteq Builders
    /\ \A k \in casts : k.by \in Builders /\ k.todo \in Seq(Clients) \ {<<>>}
    /\ \A c \in Clients :
          /\ IsTree(tab[c].tree) /\ Ids(tab[c].tree) # {}
          /\ IsTree(tab[c].sent)
          /\ {tab[c].dirty, tab[c].resend, tab[c].adopt} \subseteq BOOLEAN
          /\ tab[c].placed \cup tab[c].gone \subseteq First \cup Later
          /\ tab[c].rev \in 0 .. lrev /\ mark[c] \in 0 .. rev

\* The stored tree names live panes only: a write that crossed a close on its
\* way cannot bring the closed pane back (validLayoutLocked, pruneTreeLocked).
StoredTreeIsLive == Ids(stored) \subseteq panes

\* A drag a client shows is undone only by another client: while nobody else's
\* tree was stored, no pane came or went and its connection held, a client
\* shows the last drag its user made, also one deferred behind a write in
\* flight (markLayoutChanged, syncTabLayout).
EditLostOnlyToOthers ==
    (~lost /\ unborn = Later /\ panes = First) =>
        \A c \in Clients : wrote \subseteq {c} => tab[c].tree.edit = lastEdit[c]

\* Likewise when panes come and go: the deferred resend carries what was done
\* since the write that comes back.  The code does not hold to it.
DeferredEditKept ==
    ~lost =>
        \A c \in Clients : wrote \subseteq {c} => tab[c].tree.edit = lastEdit[c]

\* A client never applies a state older than one it applied before on the same
\* connection, in whatever order the broadcasting goroutines queued the frames
\* (buildWorkspaceState under stateMu, acceptStateRev).
StateForward ==
    [][\A c \in Clients :
          mark[c] # 0 /\ mark'[c] # 0 => seen'[c] >= seen[c]]_layoutVars

\* Clients do not answer each other's trees forever: every stored revision is
\* owed to a drag, a close a user asked for, a pane that came or one that went
\* (base_rev in handleUpdateLayout, syncTabLayout, the reconcile loops).
Closed == Cardinality((First \cup Later) \ (panes \cup unborn))
Created == Cardinality(Later \ unborn)
NoEchoStorm == lrev <= 1 + edits + asks + Created + Closed

\* Once users and scripts stop, every client comes to hold the stored revision
\* with nothing in flight and shows the live panes; its tree is the stored one,
\* except for placements it still waits for the requester to store.
Agreed ==
    \A c \in Clients :
        /\ in[c] = <<>> /\ out[c] = {} /\ ~tab[c].dirty
        /\ tab[c].rev = lrev /\ Ids(tab[c].tree) = panes
        /\ \/ tab[c].tree = stored
           \/ tab[c].placed \cup tab[c].gone # {}
Converges == <>[]Agreed

\* The types, and a stored tree of live panes.
TreesSound == LayoutTypeOK /\ StoredTreeIsLive
=============================================================================
