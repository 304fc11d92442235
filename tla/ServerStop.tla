----------------------------- MODULE ServerStop -----------------------------
(***************************************************************************)
(* How the daemon stops under its clients: the accept loops, handleConn,   *)
(* StartTCP, Stop and WaitConns of internal/ipc/server.go, and what        *)
(* Daemon.Stop (internal/daemon/daemon.go) does before and after them.     *)
(*                                                                         *)
(* A connection is of one listener and comes once.  What its client asks   *)
(* is one change of the workspace, answered on the same connection, and    *)
(* over TCP a login before it.  A handler stands for the goroutine of one  *)
(* connection.  Accept errors other than a closed listener, and the        *)
(* refusal log, are left out.                                              *)
(***************************************************************************)
EXTENDS Naturals, FiniteSets

CONSTANTS
    Local, Remote,   \* connections over the Unix socket and over TCP
    None,            \* no connection in an accept loop's hand
    MaxPendingTCP,
    MaxDials         \* bound: connections that ever dial

ASSUME ServerStopAssumption ==
    /\ Local \cap Remote = {} /\ None \notin Local \cup Remote
    /\ IsFiniteSet(Local) /\ IsFiniteSet(Remote)
    /\ {MaxPendingTCP, MaxDials} \subseteq Nat \ {0}

Conns == Local \cup Remote
Listeners == {"unix", "tcp"}

VARIABLES
    done,       \* s.done is closed
    listener,   \* [Listeners -> "none", "open", "closed"]
    accept,     \* [Listeners -> where its accept loop is]
    hand,       \* [Listeners -> the connection it is working on]
    raw,        \* [Conns -> "none", "backlog", "open", "closed"], the socket
    conns,      \* s.conns
    handling,   \* s.handling
    pendingTCP, \* s.pendingTCP
    slots,      \* TCP connections whose pendingOnce has not run
    authed,     \* connections that may send requests
    handler,    \* [Conns -> where its handleConn is]
    stop,       \* where Daemon.Stop is
    changed,    \* connections whose change is in the workspace
    saved,      \* history: changes in the final snapshot
    acked,      \* history: connections whose answer was accepted by Send
    closedList, \* history: connections that Stop found in s.conns
    refused,    \* history: TCP connections turned away at accept
    counted,    \* history: connections counted before WaitConns answered
    waited      \* history: WaitConns has answered true

acceptVars == <<accept, hand>>
connVars == <<raw, conns, slots, authed>>
countVars == <<handling, pendingTCP>>
histVars == <<saved, acked, closedList, refused, counted, waited>>
vars == <<done, listener, acceptVars, connVars, countVars, handler, stop, changed, histVars>>

AcceptPCs == {"off", "accept", "admit", "list", "count", "spawn", "exited"}
HandlerPCs == {"none", "receive", "handle", "answer", "close", "release", "remove",
               "callback", "uncount", "returned"}
StopPCs == {"running", "done", "conns", "tcp", "unix", "snapshot", "wait", "auth", "stopped"}

TypeOK ==
    /\ done \in BOOLEAN /\ waited \in BOOLEAN
    /\ listener \in [Listeners -> {"none", "open", "closed"}]
    /\ accept \in [Listeners -> AcceptPCs]
    /\ hand \in [Listeners -> Conns \cup {None}]
    /\ raw \in [Conns -> {"none", "backlog", "open", "closed"}]
    /\ handling \in 0 .. Cardinality(Conns)
    /\ pendingTCP \in 0 .. MaxPendingTCP
    /\ slots \subseteq Remote
    /\ handler \in [Conns -> HandlerPCs] /\ stop \in StopPCs
    /\ UNION {conns, authed, changed, saved, acked, closedList, refused, counted}
         \subseteq Conns

\* NewServer and Start; StartTCP comes when it does.
Init ==
    /\ done = FALSE
    /\ listener = [l \in Listeners |-> IF l = "unix" THEN "open" ELSE "none"]
    /\ accept = [l \in Listeners |-> IF l = "unix" THEN "accept" ELSE "off"]
    /\ hand = [l \in Listeners |-> None]
    /\ raw = [c \in Conns |-> "none"]
    /\ conns = {} /\ slots = {} /\ authed = {}
    /\ handling = 0 /\ pendingTCP = 0
    /\ handler = [c \in Conns |-> "none"]
    /\ stop = "running"
    /\ changed = {} /\ saved = {} /\ acked = {} /\ closedList = {} /\ refused = {}
    /\ counted = {} /\ waited = FALSE

ListenerOf(c) == IF c \in Local THEN "unix" ELSE "tcp"
Goto(c, pc) == handler' = [handler EXCEPT ![c] = pc]
Step(l, from, to) == accept[l] = from /\ accept' = [accept EXCEPT ![l] = to]

-----------------------------------------------------------------------------
(* The listeners and their accept loops. *)

\* Fault: a call after Stop is let through.
MayListen_Always == TRUE
\* Checked under s.mu, which Stop takes between closing done and reading the
\* listener to close.
MayListen == ~done

StartTCP ==
    /\ listener["tcp"] = "none" /\ MayListen
    /\ listener' = [listener EXCEPT !["tcp"] = "open"]
    /\ Step("tcp", "off", "accept")
    /\ UNCHANGED <<done, hand, connVars, countVars, handler, stop, changed, histVars>>

\* A client connects: the system completes it before the daemon accepts it.
Dial(c) ==
    /\ raw[c] = "none" /\ listener[ListenerOf(c)] = "open"
    /\ Cardinality({d \in Conns : raw[d] # "none"}) < MaxDials
    /\ raw' = [raw EXCEPT ![c] = "backlog"]
    /\ UNCHANGED <<done, listener, acceptVars, conns, slots, authed, countVars, handler, stop,
                   changed, histVars>>

\* Fault: the bound is compared too late by one.
Full_OffByOne == pendingTCP > MaxPendingTCP
Full == pendingTCP >= MaxPendingTCP

Accept(c) ==
    LET l == ListenerOf(c) IN
    /\ raw[c] = "backlog" /\ listener[l] = "open"
    /\ Step(l, "accept", IF l = "tcp" THEN "admit" ELSE "list")
    /\ raw' = [raw EXCEPT ![c] = "open"]
    /\ hand' = [hand EXCEPT ![l] = c]
    /\ UNCHANGED <<done, listener, conns, slots, authed, countVars, handler, stop, changed,
                   histVars>>

\* The listener is closed: both loops return, by done or by net.ErrClosed.
AcceptFails(l) ==
    /\ listener[l] = "closed"
    /\ Step(l, "accept", "exited")
    /\ UNCHANGED <<done, listener, hand, connVars, countVars, handler, stop, changed, histVars>>

Refuse ==
    /\ Full /\ Step("tcp", "admit", "accept")
    /\ raw' = [raw EXCEPT ![hand["tcp"]] = "closed"]
    /\ refused' = refused \cup {hand["tcp"]}
    /\ hand' = [hand EXCEPT !["tcp"] = None]
    /\ UNCHANGED <<done, listener, conns, slots, authed, countVars, handler, stop, changed,
                   saved, acked, closedList, counted, waited>>

Admit ==
    /\ ~Full /\ Step("tcp", "admit", "list")
    /\ pendingTCP' = pendingTCP + 1
    /\ slots' = slots \cup {hand["tcp"]}
    /\ UNCHANGED <<done, listener, hand, raw, conns, authed, handling, handler, stop, changed,
                   histVars>>

\* Under s.mu, which Stop holds while it closes what is on the list.
List(l) ==
    /\ Step(l, "list", "count")
    /\ conns' = conns \cup {hand[l]}
    /\ authed' = authed \cup ({hand[l]} \cap Local)
    /\ UNCHANGED <<done, listener, hand, raw, slots, countVars, handler, stop, changed, histVars>>

Count(l) ==
    /\ Step(l, "count", "spawn")
    /\ handling' = handling + 1
    /\ counted' = IF waited THEN counted ELSE counted \cup {hand[l]}
    /\ UNCHANGED <<done, listener, hand, connVars, pendingTCP, handler, stop, changed, saved,
                   acked, closedList, refused, waited>>

Spawn(l) ==
    /\ Step(l, "spawn", "accept")
    /\ Goto(hand[l], "receive")
    /\ hand' = [hand EXCEPT ![l] = None]
    /\ UNCHANGED <<done, listener, connVars, countVars, stop, changed, histVars>>

-----------------------------------------------------------------------------
(* handleConn. *)

Asked(c) == raw[c] = "open" /\ c \notin changed

Receive(c) ==
    /\ handler[c] = "receive" /\ c \in authed /\ Asked(c)
    /\ Goto(c, "handle")
    /\ UNCHANGED <<done, listener, acceptVars, connVars, countVars, stop, changed, histVars>>

\* Fault: the slot is given back at every release, not once.
Released_EachTime(c) == pendingTCP' = pendingTCP - 1 /\ slots' = slots \ {c}
\* releasePendingSlot.
Released(c) ==
    IF c \in slots
      THEN pendingTCP' = pendingTCP - 1 /\ slots' = slots \ {c}
      ELSE UNCHANGED <<pendingTCP, slots>>

\* The proof of a login is right: handled like any request of the connection.
MarkAuthenticated(c) ==
    /\ handler[c] = "receive" /\ c \in Remote \ authed /\ Asked(c)
    /\ authed' = authed \cup {c}
    /\ Released(c)
    /\ UNCHANGED <<done, listener, acceptVars, raw, conns, handling, handler, stop, changed,
                   histVars>>

Handle(c) ==
    /\ handler[c] = "handle"
    /\ changed' = changed \cup {c}
    /\ Goto(c, "answer")
    /\ UNCHANGED <<done, listener, acceptVars, connVars, countVars, stop, histVars>>

\* Fault: an answer counts also when the connection is closed.
Sends_Closed(c) == TRUE
\* Send refuses on a connection that is closed.
Sends(c) == raw[c] = "open"

Answer(c) ==
    /\ handler[c] = "answer"
    /\ acked' = IF Sends(c) THEN acked \cup {c} ELSE acked
    /\ Goto(c, "receive")
    /\ UNCHANGED <<done, listener, acceptVars, connVars, countVars, stop, changed, saved,
                   closedList, refused, counted, waited>>

\* The peer goes, or a login is refused.
Hangup(c) ==
    /\ raw[c] = "open" /\ handler[c] = "receive"
    /\ raw' = [raw EXCEPT ![c] = "closed"]
    /\ UNCHANGED <<done, listener, acceptVars, conns, slots, authed, countVars, handler, stop,
                   changed, histVars>>

ReceiveFails(c) ==
    /\ handler[c] = "receive" /\ raw[c] = "closed"
    /\ Goto(c, "release")
    /\ UNCHANGED <<done, listener, acceptVars, connVars, countVars, stop, changed, histVars>>

Release(c) ==
    /\ handler[c] = "release"
    /\ Released(c)
    /\ Goto(c, "remove")
    /\ UNCHANGED <<done, listener, acceptVars, raw, conns, authed, handling, stop, changed,
                   histVars>>

RemoveConn(c) ==
    /\ handler[c] = "remove"
    /\ conns' = conns \ {c}
    /\ Goto(c, "callback")
    /\ UNCHANGED <<done, listener, acceptVars, raw, slots, authed, countVars, stop, changed,
                   histVars>>

\* onDisconnect, which writes to the audit log.
Callback(c) ==
    /\ handler[c] = "callback"
    /\ Goto(c, "uncount")
    /\ UNCHANGED <<done, listener, acceptVars, connVars, countVars, stop, changed, histVars>>

Uncount(c) ==
    /\ handler[c] = "uncount"
    /\ handling' = handling - 1
    /\ Goto(c, "returned")
    /\ UNCHANGED <<done, listener, acceptVars, connVars, pendingTCP, stop, changed, histVars>>
-----------------------------------------------------------------------------
(* Server.Stop and Daemon.Stop around it. *)

StopStep(from, to) == stop = from /\ stop' = to

StopBegin ==
    /\ StopStep("running", "done")
    /\ done' = TRUE
    /\ UNCHANGED <<listener, acceptVars, connVars, countVars, handler, changed, histVars>>

\* Fault: a connection before its login is not closed.
ToClose_LoggedIn == conns \cap authed
ToClose == conns

\* Under s.mu.
StopConns ==
    /\ StopStep("done", "tcp")
    /\ raw' = [c \in Conns |-> IF c \in ToClose THEN "closed" ELSE raw[c]]
    /\ closedList' = conns
    /\ UNCHANGED <<done, listener, acceptVars, conns, slots, authed, countVars, handler,
                   changed, saved, acked, refused, counted, waited>>

\* What the system had completed and nobody accepted is reset.
Closed(l) ==
    /\ listener' = [listener EXCEPT ![l] = IF @ = "open" THEN "closed" ELSE @]
    /\ raw' = [c \in Conns |->
         IF raw[c] = "backlog" /\ ListenerOf(c) = l THEN "closed" ELSE raw[c]]

\* Fault: the TCP listener is forgotten.
StopTCP_Forgotten ==
    /\ StopStep("tcp", "unix")
    /\ UNCHANGED <<done, listener, acceptVars, connVars, countVars, handler, changed, histVars>>
StopTCP ==
    /\ StopStep("tcp", "unix")
    /\ Closed("tcp")
    /\ UNCHANGED <<done, acceptVars, conns, slots, authed, countVars, handler, changed, histVars>>

StopUnix ==
    /\ StopStep("unix", "snapshot")
    /\ Closed("unix")
    /\ UNCHANGED <<done, acceptVars, conns, slots, authed, countVars, handler, changed, histVars>>

FinalSnapshot ==
    /\ StopStep("snapshot", "wait")
    /\ saved' = changed
    /\ UNCHANGED <<done, listener, acceptVars, connVars, countVars, handler, changed, acked,
                   closedList, refused, counted, waited>>

\* Fault: the list of connections is asked instead of the count.
AllReturned_NoConns == conns = {}
AllReturned == handling = 0

WaitConns ==
    /\ StopStep("wait", "auth")
    /\ AllReturned /\ waited' = TRUE
    /\ UNCHANGED <<done, listener, acceptVars, connVars, countVars, handler, changed, saved,
                   acked, closedList, refused, counted>>

WaitTimesOut ==
    /\ StopStep("wait", "auth")
    /\ ~AllReturned
    /\ UNCHANGED <<done, listener, acceptVars, connVars, countVars, handler, changed, histVars>>

\* closeAuth closes the audit log.
CloseAuth ==
    /\ StopStep("auth", "stopped")
    /\ UNCHANGED <<done, listener, acceptVars, connVars, countVars, handler, changed, histVars>>

-----------------------------------------------------------------------------
Accepting(l) ==
    \/ AcceptFails(l) \/ List(l) \/ Count(l) \/ Spawn(l)
    \/ l = "tcp" /\ (Refuse \/ Admit)
    \/ \E c \in Conns : ListenerOf(c) = l /\ Accept(c)

Handling(c) ==
    Handle(c) \/ Answer(c) \/ ReceiveFails(c) \/ Release(c) \/ RemoveConn(c)
        \/ Callback(c) \/ Uncount(c)

Client(c) == Dial(c) \/ Receive(c) \/ MarkAuthenticated(c) \/ Hangup(c)

Stopping ==
    StopConns \/ StopTCP \/ StopUnix \/ FinalSnapshot \/ WaitConns \/ WaitTimesOut \/ CloseAuth

Next ==
    \/ StartTCP \/ StopBegin \/ Stopping
    \/ \E l \in Listeners : Accepting(l)
    \/ \E c \in Conns : Handling(c) \/ Client(c)

Spec == Init /\ [][Next]_vars

\* Goroutines run.  Clients owe nothing, and nobody has to stop the daemon.
Fairness ==
    /\ WF_vars(Stopping)
    /\ \A l \in Listeners : WF_vars(Accepting(l))
    /\ \A c \in Conns : WF_vars(Handling(c))

FairSpec == Spec /\ Fairness

-----------------------------------------------------------------------------
(* Properties. *)

\* Connections let in that have neither logged in nor been torn down.
LoginsPending ==
    {c \in Remote :
        /\ raw[c] \in {"open", "closed"} /\ c \notin refused /\ c \notin authed
        /\ handler[c] \notin {"remove", "callback", "uncount", "returned"}
        /\ ~(accept["tcp"] = "admit" /\ hand["tcp"] = c)
        /\ \/ handler[c] # "none" \/ hand["tcp"] = c}

\* The places for logins add up, however logins, hangups and the stop fall
\* together: none is given back twice or kept (Conn.pendingOnce,
\* Server.pendingTCP).
SlotsAddUp == pendingTCP = Cardinality(LoginsPending)

\* What a client was told is done is in the final snapshot, for every connection
\* that Stop found on its list (Daemon.Stop stops the server first).
ListedAckIsSaved == stop \in {"wait", "auth", "stopped"} => closedList \cap acked \subseteq saved

\* The same for every client, as the comment in Daemon.Stop says: no handler
\* can "ACK a pane create/destroy to the client that the on-disk snapshot has
\* already missed".  A connection accepted between Stop's two halves can.
AckIsSaved == stop \in {"wait", "auth", "stopped"} => acked \subseteq saved

\* When WaitConns says that every handler has returned, no counted connection
\* still has its disconnect callback to run, so the audit log closes behind the
\* last of them (handleConn's deferred count, WaitConns).
CountedHaveReturned == waited => \A c \in counted : handler[c] = "returned"

\* The same for every connection Stop closed, as acceptTCP's comment says:
\* "WaitConns must not report 'every handler returned' for a conn whose handler
\* ... has yet to run".  A connection listed and not yet counted is missed.
ClosedHaveReturned == waited => \A c \in closedList : handler[c] = "returned"

\* After Server.Stop nobody is left listening, also when StartTCP races it.
NobodyListens == stop \in {"snapshot", "wait", "auth", "stopped"} =>
    \A l \in Listeners : listener[l] # "open"

\* Every connection Stop closed is torn down, and its callback run, in the end.
ClosedAreTornDown ==
    \A c \in Conns : c \in closedList ~> handler[c] = "returned"

\* The accept loops end with the stop.
LoopsEnd == \A l \in Listeners : stop = "stopped" ~> accept[l] \in {"off", "exited"}

\* The types, and the places for logins.
ServerSound == TypeOK /\ SlotsAddUp

\* What the stop began comes to its end: the connections it closed are torn
\* down, and neither a listener nor an accept loop is left.
StopEnds == []NobodyListens /\ ClosedAreTornDown /\ LoopsEnd
=============================================================================
