--------------------- MODULE ServerStop_AttachHold_proofs ---------------------
(***************************************************************************)
(* What ServerStop keeps for every number of connections, every bound on   *)
(* logins and every order of accepts, logins, hangups and the stop, and,   *)
(* in the second half, what AttachHold keeps for every set of panes and    *)
(* every bound on the hold and the queues.  The two share no variable.     *)
(*                                                                         *)
(* ServerStop.  Both counters count a set: the places for logins are held  *)
(* by those who have neither logged in nor gone, and the wait group counts *)
(* those whose goroutine is spawned or about to be.  That the answers of a *)
(* listed connection are saved rests on its socket: once closed it stays   *)
(* closed, and nothing more is accepted for it.                            *)
(***************************************************************************)
EXTENDS ServerStop, AttachHold, FiniteSetTheorems, SequenceTheorems, TLAPS

Holding == {"admit", "list", "count", "spawn"}
Ending == {"remove", "callback", "uncount", "returned"}

\* The types, but for the two counters.
Types ==
    /\ done \in BOOLEAN /\ waited \in BOOLEAN
    /\ listener \in [Listeners -> {"none", "open", "closed"}]
    /\ accept \in [Listeners -> AcceptPCs]
    /\ hand \in [Listeners -> Conns \cup {None}]
    /\ raw \in [Conns -> {"none", "backlog", "open", "closed"}]
    /\ handler \in [Conns -> HandlerPCs] /\ stop \in StopPCs
    /\ slots \subseteq Remote
    /\ conns \subseteq Conns /\ authed \subseteq Conns /\ changed \subseteq Conns
    /\ saved \subseteq Conns /\ acked \subseteq Conns /\ closedList \subseteq Conns
    /\ refused \subseteq Conns /\ counted \subseteq Conns

\* A connection comes once: it waits in the backlog, is in the hand of its
\* accept loop, and is then its handler's.
Places ==
    /\ accept["unix"] # "admit"
    /\ \A l \in Listeners : hand[l] # None <=> accept[l] \in Holding
    /\ \A l \in Listeners : hand[l] # None =>
         /\ ListenerOf(hand[l]) = l /\ raw[hand[l]] \in {"open", "closed"}
         /\ handler[hand[l]] = "none" /\ hand[l] \notin refused
    /\ \A c \in Conns : handler[c] # "none" => raw[c] \in {"open", "closed"} /\ c \notin refused
    /\ \A c \in Conns : c \in refused => raw[c] = "closed"
    /\ \A c \in Remote : c \in authed => handler[c] # "none"

\* The places for logins are held by those who owe one.
SlotsKept ==
    /\ slots = LoginsPending /\ pendingTCP = Cardinality(slots)
    /\ pendingTCP <= MaxPendingTCP

\* Connections the wait group counts.
Active ==
    {c \in Conns :
        \/ handler[c] \notin {"none", "returned"}
        \/ \E l \in Listeners : accept[l] = "spawn" /\ hand[l] = c}

HandlingKept == handling = Cardinality(Active)

CountedKept ==
    /\ \A c \in counted : c \in Active \/ handler[c] = "returned"
    /\ waited => \A c \in counted : handler[c] = "returned"

\* An answer is of a change that is made; Stop's list is of closed sockets.
AcksKept ==
    /\ acked \subseteq changed
    /\ \A c \in Conns : handler[c] = "answer" => c \in changed
    /\ stop \in {"running", "done"} => closedList = {}
    /\ \A c \in closedList : raw[c] = "closed"
    /\ ListedAckIsSaved

\* The listeners are closed one after the other, and none opens behind that.
ListenersKept ==
    /\ stop # "running" => done
    /\ stop \notin {"running", "done", "tcp"} => listener["tcp"] # "open"
    /\ stop \notin {"running", "done", "tcp", "unix"} => listener["unix"] # "open"

IInv ==
    /\ Types /\ Places /\ SlotsKept /\ HandlingKept /\ CountedKept /\ AcksKept
    /\ ListenersKept

----------------------------------------------------------------------------
LEMMA ConnTypes ==
    /\ Local \subseteq Conns /\ Remote \subseteq Conns /\ Local \cap Remote = {}
    /\ IsFiniteSet(Conns) /\ IsFiniteSet(Remote) /\ None \notin Conns
    /\ MaxPendingTCP \in Nat \ {0}
<1>1. IsFiniteSet(Conns)
  BY FS_Union, ServerStopAssumption DEF Conns
<1> QED
  BY <1>1, ServerStopAssumption DEF Conns

LEMMA ListenerOfTypes ==
    \A c \in Conns : /\ ListenerOf(c) \in Listeners
                     /\ ListenerOf(c) = "tcp" <=> c \in Remote
  BY ServerStopAssumption DEF ListenerOf, Listeners, Conns

\* One more and one less of a finite set.
LEMMA CountOneMore ==
    ASSUME NEW S, IsFiniteSet(S), NEW x, x \notin S
    PROVE  Cardinality(S \cup {x}) = Cardinality(S) + 1
  BY FS_AddElement

LEMMA CountOneLess ==
    ASSUME NEW S, IsFiniteSet(S), NEW x \in S
    PROVE  Cardinality(S \ {x}) = Cardinality(S) - 1 /\ Cardinality(S) \in Nat \ {0}
<1>1. Cardinality(S \ {x}) = Cardinality(S) - 1
  BY FS_RemoveElement
<1>2. Cardinality(S) \in Nat /\ Cardinality(S) # 0
  BY FS_CardinalityType, FS_EmptySet
<1> QED
  BY <1>1, <1>2

----------------------------------------------------------------------------
(* Types and places *)

LEMMA InitInv == Init => IInv
<1> SUFFICES ASSUME Init PROVE IInv
  OBVIOUS
<1> USE DEF Init
<1>1. Types
  BY ServerStopAssumption DEF Types, Listeners, AcceptPCs, HandlerPCs, StopPCs
<1>2. Places
  BY DEF Places, Listeners, Holding
<1>3. LoginsPending = {}
  BY ConnTypes DEF LoginsPending
<1>4. SlotsKept
  BY <1>3, FS_EmptySet, ConnTypes DEF SlotsKept
<1>5. Active = {}
  BY DEF Active, Listeners
<1>6. HandlingKept
  BY <1>5, FS_EmptySet DEF HandlingKept
<1> QED
  BY <1>1, <1>2, <1>4, <1>6
  DEF IInv, CountedKept, AcksKept, ListedAckIsSaved, ListenersKept

LEMMA AcceptingKeepsTypes ==
    ASSUME Types, Places, StartTCP \/ \E l \in Listeners : Accepting(l)
    PROVE  Types'
<1> USE DEF Types
<1>0. "tcp" \in Listeners /\ "accept" \in AcceptPCs /\ "admit" \in AcceptPCs
      /\ "list" \in AcceptPCs /\ "count" \in AcceptPCs /\ "spawn" \in AcceptPCs
      /\ "exited" \in AcceptPCs /\ "receive" \in HandlerPCs
  BY DEF Listeners, AcceptPCs, HandlerPCs
<1>1. CASE StartTCP
  BY <1>0, <1>1 DEF StartTCP, Step, connVars, countVars, histVars
<1>2. ASSUME NEW l \in Listeners, Accepting(l) PROVE Types'
  <2>a. accept[l] \in Holding => hand[l] \in Conns
    BY DEF Places
  <2>1. CASE AcceptFails(l)
    BY <1>0, <2>1 DEF AcceptFails, Step, connVars, countVars, histVars
  <2>2. CASE List(l)
    <3>1. hand[l] \in Conns
      BY <2>a, <2>2 DEF List, Step, Holding
    <3> QED
      BY <1>0, <2>2, <3>1 DEF List, Step, countVars, histVars
  <2>3. CASE Count(l)
    <3>1. hand[l] \in Conns
      BY <2>a, <2>3 DEF Count, Step, Holding
    <3> QED
      BY <1>0, <2>3, <3>1 DEF Count, Step, connVars
  <2>4. CASE Spawn(l)
    BY <1>0, <2>4 DEF Spawn, Step, Goto, connVars, countVars, histVars
  <2>5. CASE Refuse
    <3>1. hand["tcp"] \in Conns
      BY <1>0, <2>5 DEF Refuse, Step, Holding, Places
    <3> QED
      BY <1>0, <2>5, <3>1 DEF Refuse, Step, countVars
  <2>6. CASE Admit
    <3>1. hand["tcp"] \in Remote
      BY <1>0, <2>6, ListenerOfTypes DEF Admit, Step, Holding, Places
    <3> QED
      BY <1>0, <2>6, <3>1 DEF Admit, Step, histVars
  <2>7. ASSUME NEW c \in Conns, Accept(c) PROVE Types'
    <3>1. ListenerOf(c) \in Listeners
      BY ListenerOfTypes
    <3> QED
      BY <1>0, <2>7, <3>1 DEF Accept, Step, countVars, histVars
  <2> QED
    BY <1>2, <2>1, <2>2, <2>3, <2>4, <2>5, <2>6, <2>7 DEF Accepting
<1> QED
  BY <1>1, <1>2

LEMMA HandlingKeepsTypes ==
    ASSUME Types, NEW c \in Conns, Handling(c) \/ Client(c)
    PROVE  Types'
<1> USE DEF Types
<1>1. CASE Receive(c) \/ Handle(c) \/ Answer(c) \/ ReceiveFails(c) \/ Callback(c) \/ Uncount(c)
  BY <1>1 DEF Receive, Handle, Answer, ReceiveFails, Callback, Uncount, Goto, HandlerPCs,
              acceptVars, connVars, countVars, histVars
<1>2. CASE Release(c)
  BY <1>2 DEF Release, Released, Goto, HandlerPCs, acceptVars, histVars
<1>3. CASE RemoveConn(c)
  BY <1>3 DEF RemoveConn, Goto, HandlerPCs, acceptVars, countVars, histVars
<1>4. CASE MarkAuthenticated(c)
  BY <1>4 DEF MarkAuthenticated, Released, acceptVars, histVars
<1>5. CASE Dial(c) \/ Hangup(c)
  BY <1>5 DEF Dial, Hangup, acceptVars, countVars, histVars
<1> QED
  BY <1>1, <1>2, <1>3, <1>4, <1>5 DEF Handling, Client

LEMMA StopKeepsTypes ==
    ASSUME Types, StopBegin \/ Stopping \/ UNCHANGED vars
    PROVE  Types'
<1> USE DEF Types
<1>0. StopPCs = {"running", "done", "conns", "tcp", "unix", "snapshot", "wait", "auth", "stopped"}
  BY DEF StopPCs
<1>1. CASE StopConns
  BY <1>0, <1>1 DEF StopConns, StopStep, ToClose, acceptVars, countVars
<1>2. CASE StopTCP \/ StopUnix
  BY <1>0, <1>2 DEF StopTCP, StopUnix, StopStep, Closed, acceptVars, countVars, histVars
<1>3. CASE StopBegin \/ FinalSnapshot \/ WaitConns \/ WaitTimesOut \/ CloseAuth
  BY <1>0, <1>3 DEF StopBegin, FinalSnapshot, WaitConns, WaitTimesOut, CloseAuth, StopStep,
                    acceptVars, connVars, countVars, histVars
<1>4. CASE UNCHANGED vars
  BY <1>4 DEF vars, acceptVars, connVars, countVars, histVars
<1> QED
  BY <1>1, <1>2, <1>3, <1>4 DEF Stopping

LEMMA StepKeepsTypes ==
    ASSUME Types, Places, [Next]_vars
    PROVE  Types'
  BY AcceptingKeepsTypes, HandlingKeepsTypes, StopKeepsTypes DEF Next

\* What a handler's steps do to the handlers.
LEMMA HandlerMoves ==
    ASSUME Types, Places, NEW c \in Conns, Handling(c) \/ Client(c)
    PROVE  /\ \A d \in Conns \ {c} : handler'[d] = handler[d] /\ raw'[d] = raw[d]
           /\ handler'[c] = "none" <=> handler[c] = "none"
           /\ handler[c] = "returned" => handler'[c] = "returned"
           /\ handler[c] = "none" => handler'[c] = "none" /\ raw[c] = "none" /\ raw'[c] = "backlog"
           /\ handler[c] # "none" => raw'[c] = raw[c] \/ (raw[c] = "open" /\ raw'[c] = "closed")
           /\ authed' \in {authed, authed \cup {c}}
           /\ handler[c] = "none" => authed' = authed
           /\ UNCHANGED <<done, listener, accept, hand, stop, refused, counted, closedList, waited, saved>>
<1> USE DEF Types
<1>1. CASE Receive(c) \/ Handle(c) \/ Answer(c) \/ ReceiveFails(c) \/ Callback(c) \/ Uncount(c)
             \/ Release(c) \/ RemoveConn(c)
  BY <1>1 DEF Receive, Handle, Answer, ReceiveFails, Callback, Uncount, Release, RemoveConn, Goto,
              acceptVars, connVars, countVars, histVars
<1>2. CASE MarkAuthenticated(c)
  BY <1>2 DEF MarkAuthenticated, acceptVars, histVars
<1>3. CASE Hangup(c)
  BY <1>3 DEF Hangup, acceptVars, countVars, histVars
<1>4. CASE Dial(c)
  BY <1>4 DEF Dial, Places, acceptVars, countVars, histVars
<1> QED
  BY <1>1, <1>2, <1>3, <1>4 DEF Handling, Client

LEMMA HandlingKeepsPlaces ==
    ASSUME Types, Places, NEW c \in Conns, Handling(c) \/ Client(c)
    PROVE  Places'
<1>1. /\ \A d \in Conns \ {c} : handler'[d] = handler[d] /\ raw'[d] = raw[d]
      /\ handler'[c] = "none" <=> handler[c] = "none"
      /\ handler[c] = "none" => raw[c] = "none" /\ raw'[c] = "backlog"
      /\ handler[c] # "none" => raw'[c] = raw[c] \/ (raw[c] = "open" /\ raw'[c] = "closed")
      /\ authed' \in {authed, authed \cup {c}}
      /\ handler[c] = "none" => authed' = authed
      /\ UNCHANGED <<accept, hand, refused>>
  BY HandlerMoves
<1>2. \A l \in Listeners : hand[l] # None => hand[l] \in Conns \ {c} \/ handler[c] # "none"
  BY <1>1 DEF Types, Places
<1>3. \A l \in Listeners : hand[l] # None =>
         /\ ListenerOf(hand[l]) = l /\ raw'[hand[l]] \in {"open", "closed"}
         /\ handler'[hand[l]] = "none" /\ hand[l] \notin refused
  <2> SUFFICES ASSUME NEW l \in Listeners, hand[l] # None
               PROVE  /\ ListenerOf(hand[l]) = l /\ raw'[hand[l]] \in {"open", "closed"}
                      /\ handler'[hand[l]] = "none" /\ hand[l] \notin refused
    OBVIOUS
  <2>1. /\ ListenerOf(hand[l]) = l /\ raw[hand[l]] \in {"open", "closed"}
        /\ handler[hand[l]] = "none" /\ hand[l] \notin refused /\ hand[l] \in Conns
    BY DEF Places, Types
  <2>2. hand[l] # c
    BY <1>1, <2>1
  <2> QED
    BY <1>1, <2>1, <2>2
<1>4. \A d \in Conns : handler'[d] # "none" => raw'[d] \in {"open", "closed"} /\ d \notin refused
  BY <1>1 DEF Places
<1>5. \A d \in Conns : d \in refused => raw'[d] = "closed"
  BY <1>1 DEF Places
<1>6. \A d \in Remote : d \in authed' => handler'[d] # "none"
  BY <1>1, ConnTypes DEF Places
<1>7. accept' = accept /\ hand' = hand /\ refused' = refused
  BY <1>1
<1>8. accept["unix"] # "admit" /\ \A l \in Listeners : hand[l] # None <=> accept[l] \in Holding
  BY DEF Places
<1> QED
  BY <1>3, <1>4, <1>5, <1>6, <1>7, <1>8 DEF Places, ListenerOf

LEMMA AcceptingKeepsPlaces ==
    ASSUME Types, Places, StartTCP \/ \E l \in Listeners : Accepting(l)
    PROVE  Places'
<1> USE DEF Types
<1>0. "tcp" \in Listeners /\ "unix" \in Listeners /\ "tcp" # "unix"
      /\ \A l \in Listeners : l = "tcp" \/ l = "unix"
  BY DEF Listeners
<1>1. CASE StartTCP
  BY <1>0, <1>1 DEF StartTCP, Step, Places, Holding, ListenerOf, connVars, countVars, histVars
<1>2. ASSUME NEW l \in Listeners, Accepting(l) PROVE Places'
  <2>a. /\ accept[l] \in Holding => hand[l] \in Conns
        /\ \A m \in Listeners \ {l} : hand[m] # None => hand[m] # hand[l]
    BY DEF Places
  <2>1. CASE AcceptFails(l)
    BY <1>0, <2>1 DEF AcceptFails, Step, Places, Holding, ListenerOf, connVars, countVars, histVars
  <2>2. CASE List(l)
    <3>1. /\ accept' = [accept EXCEPT ![l] = "count"] /\ accept[l] = "list"
          /\ authed' = authed \cup ({hand[l]} \cap Local)
          /\ UNCHANGED <<hand, raw, handler, refused>>
      BY <2>2 DEF List, Step, histVars
    <3>2. \A c \in Remote : c \in authed' => c \in authed
      BY <3>1, ConnTypes
    <3> QED
      BY <1>0, <3>1, <3>2 DEF Places, Holding, ListenerOf
  <2>3. CASE Count(l)
    BY <1>0, <2>3 DEF Count, Step, Places, Holding, ListenerOf, connVars
  <2>4. CASE Spawn(l)
    <3>1. /\ accept' = [accept EXCEPT ![l] = "accept"] /\ accept[l] = "spawn"
          /\ handler' = [handler EXCEPT ![hand[l]] = "receive"]
          /\ hand' = [hand EXCEPT ![l] = None]
          /\ UNCHANGED <<raw, authed, refused>>
      BY <2>4 DEF Spawn, Step, Goto, connVars, histVars
    <3>2. hand[l] \in Conns /\ raw[hand[l]] \in {"open", "closed"} /\ hand[l] \notin refused
      BY <2>a, <3>1 DEF Places, Holding
    <3> QED
      BY <1>0, <2>a, <3>1, <3>2, ConnTypes DEF Places, Holding, ListenerOf
  <2>5. CASE Refuse
    <3> DEFINE c == hand["tcp"]
    <3>1. /\ accept' = [accept EXCEPT !["tcp"] = "accept"] /\ accept["tcp"] = "admit"
          /\ raw' = [raw EXCEPT ![c] = "closed"] /\ refused' = refused \cup {c}
          /\ hand' = [hand EXCEPT !["tcp"] = None]
          /\ UNCHANGED <<handler, authed>>
      BY <2>5 DEF Refuse, Step
    <3>2. c \in Conns /\ handler[c] = "none" /\ ListenerOf(c) = "tcp"
      BY <1>0, <3>1 DEF Places, Holding
    <3>3. hand["unix"] # c
      BY <1>0, <3>2, ConnTypes DEF Places
    <3> HIDE DEF c
    <3>4. /\ accept'["tcp"] = "accept" /\ accept'["unix"] = accept["unix"]
          /\ hand'["tcp"] = None /\ hand'["unix"] = hand["unix"]
          /\ raw'[c] = "closed" /\ \A d \in Conns \ {c} : raw'[d] = raw[d]
      BY <1>0, <3>1, <3>2
    <3>5. \A m \in Listeners : hand'[m] # None =>
            /\ ListenerOf(hand'[m]) = m /\ raw'[hand'[m]] \in {"open", "closed"}
            /\ handler'[hand'[m]] = "none" /\ hand'[m] \notin refused'
      <4> SUFFICES ASSUME hand["unix"] # None
          PROVE /\ ListenerOf(hand["unix"]) = "unix" /\ raw'[hand["unix"]] \in {"open", "closed"}
                /\ handler[hand["unix"]] = "none" /\ hand["unix"] \notin refused'
        BY <1>0, <3>1, <3>4
      <4>1. hand["unix"] \in Conns
        BY <1>0
      <4> QED
        BY <1>0, <3>1, <3>3, <3>4, <4>1 DEF Places
    <3>6. \A m \in Listeners : hand'[m] # None <=> accept'[m] \in Holding
      BY <1>0, <3>4 DEF Places, Holding
    <3> QED
      BY <1>0, <3>1, <3>2, <3>4, <3>5, <3>6 DEF Places, ListenerOf
  <2>6. CASE Admit
    BY <1>0, <2>6 DEF Admit, Step, Places, Holding, ListenerOf, histVars
  <2>7. ASSUME NEW c \in Conns, ListenerOf(c) = l, Accept(c) PROVE Places'
    <3>1. /\ accept' = [accept EXCEPT ![l] = IF l = "tcp" THEN "admit" ELSE "list"]
          /\ accept[l] = "accept" /\ raw[c] = "backlog"
          /\ raw' = [raw EXCEPT ![c] = "open"] /\ hand' = [hand EXCEPT ![l] = c]
          /\ UNCHANGED <<handler, refused, authed>>
      BY <2>7 DEF Accept, Step, histVars
    <3>2. handler[c] = "none" /\ c \notin refused /\ c # None
      BY <3>1, ConnTypes DEF Places
    <3> QED
      BY <1>0, <2>7, <3>1, <3>2 DEF Places, Holding, ListenerOf
  <2> QED
    BY <1>2, <2>1, <2>2, <2>3, <2>4, <2>5, <2>6, <2>7 DEF Accepting
<1> QED
  BY <1>1, <1>2

\* Stop closes sockets; what is in nobody's hand and unhandled stays so.
LEMMA StopMoves ==
    ASSUME Types, StopBegin \/ Stopping \/ UNCHANGED vars
    PROVE  /\ raw' \in [Conns -> {"none", "backlog", "open", "closed"}]
           /\ \A c \in Conns : raw'[c] \in {raw[c], "closed"}
           /\ UNCHANGED <<accept, hand, handler, authed, refused, slots, pendingTCP, handling, counted,
                          changed, acked>>
<1> USE DEF Types
<1>1. CASE StopConns
  BY <1>1 DEF StopConns, acceptVars, countVars
<1>2. CASE StopTCP \/ StopUnix
  BY <1>2 DEF StopTCP, StopUnix, Closed, acceptVars, countVars, histVars
<1>3. CASE StopBegin \/ FinalSnapshot \/ WaitConns \/ WaitTimesOut \/ CloseAuth
  BY <1>3 DEF StopBegin, FinalSnapshot, WaitConns, WaitTimesOut, CloseAuth,
              acceptVars, connVars, countVars, histVars
<1>4. CASE UNCHANGED vars
  BY <1>4 DEF vars, acceptVars, connVars, countVars, histVars
<1> QED
  BY <1>1, <1>2, <1>3, <1>4 DEF Stopping

LEMMA StopKeepsPlaces ==
    ASSUME Types, Places, StopBegin \/ Stopping \/ UNCHANGED vars
    PROVE  Places'
<1>1. /\ \A c \in Conns : raw'[c] \in {raw[c], "closed"}
      /\ UNCHANGED <<accept, hand, handler, authed, refused>>
  BY StopMoves
<1>2. \A l \in Listeners : hand[l] # None => hand[l] \in Conns
  BY DEF Types
<1> QED
  BY <1>1, <1>2 DEF Places, ListenerOf

LEMMA StepKeepsPlaces ==
    ASSUME Types, Places, [Next]_vars
    PROVE  Places'
  BY AcceptingKeepsPlaces, HandlingKeepsPlaces, StopKeepsPlaces DEF Next

----------------------------------------------------------------------------
(* The places for logins *)

\* The places stay with those that have them.
LEMMA SlotsStay ==
    ASSUME SlotsKept, LoginsPending' = LoginsPending, slots' = slots, pendingTCP' = pendingTCP
    PROVE  SlotsKept'
  BY DEF SlotsKept

\* Who no longer owes a login gives its place back, if it has one.
LEMMA SlotReleased ==
    ASSUME Types, SlotsKept, NEW c, Released(c), LoginsPending' = LoginsPending \ {c}
    PROVE  SlotsKept'
<1>1. IsFiniteSet(slots) /\ MaxPendingTCP \in Nat
  BY ConnTypes, FS_Subset DEF Types
<1>2. CASE c \in slots
  <2>1. Cardinality(slots \ {c}) = Cardinality(slots) - 1 /\ Cardinality(slots) \in Nat
    BY <1>1, <1>2, CountOneLess
  <2>2. slots' = slots \ {c} /\ pendingTCP' = pendingTCP - 1
    BY <1>2 DEF Released
  <2> QED
    BY <1>1, <2>1, <2>2 DEF SlotsKept
<1>3. CASE c \notin slots
  BY <1>3 DEF Released, SlotsKept
<1> QED
  BY <1>2, <1>3

\* Nobody else's login is settled by a handler's step.
LEMMA PendingElsewhere ==
    ASSUME Types, Places, NEW c \in Conns, Handling(c) \/ Client(c)
    PROVE  \A d \in Remote \ {c} : d \in LoginsPending' <=> d \in LoginsPending
<1>1. /\ \A d \in Conns \ {c} : handler'[d] = handler[d] /\ raw'[d] = raw[d]
      /\ authed' \in {authed, authed \cup {c}}
      /\ UNCHANGED <<accept, hand, refused>>
  BY HandlerMoves
<1> QED
  BY <1>1, ConnTypes DEF LoginsPending

LEMMA HandlingKeepsSlots ==
    ASSUME Types, Places, SlotsKept, NEW c \in Conns, Handling(c) \/ Client(c)
    PROVE  SlotsKept'
<1>1. /\ \A d \in Remote \ {c} : d \in LoginsPending' <=> d \in LoginsPending
      /\ LoginsPending \subseteq Remote /\ LoginsPending' \subseteq Remote
  BY PendingElsewhere DEF LoginsPending
<1>2. /\ UNCHANGED <<accept, hand, refused>>
      /\ handler[c] = "none" => raw[c] = "none"
      /\ handler[c] # "none" => raw[c] \in {"open", "closed"} /\ raw'[c] \in {"open", "closed"}
  BY HandlerMoves DEF Places
<1>3. CASE Receive(c) \/ Handle(c) \/ Answer(c) \/ ReceiveFails(c) \/ Callback(c) \/ Uncount(c)
             \/ RemoveConn(c) \/ Hangup(c) \/ Dial(c)
  <2>1. slots' = slots /\ pendingTCP' = pendingTCP /\ authed' = authed
    BY <1>3 DEF Receive, Handle, Answer, ReceiveFails, Callback, Uncount, RemoveConn, Hangup, Dial,
                connVars, countVars
  <2>2. CASE Dial(c)
    <3>1. handler[c] = "none" /\ handler'[c] = "none" /\ raw'[c] = "backlog" /\ raw[c] = "none"
      BY <2>2 DEF Dial, Types, Places
    <3> QED
      BY <1>1, <2>1, <3>1, SlotsStay DEF LoginsPending
  <2>3. CASE ~Dial(c)
    <3>1. /\ handler[c] # "none" /\ handler'[c] # "none"
          /\ handler'[c] \in Ending <=> handler[c] \in Ending
      BY <1>3, <2>3 DEF Types, Receive, Handle, Answer, ReceiveFails, Callback, Uncount, RemoveConn,
                        Hangup, Goto, Ending
    <3>2. c \in LoginsPending' <=> c \in LoginsPending
      <4>1. hand["tcp"] = c => hand["tcp"] # None
        BY ConnTypes
      <4>2. hand["tcp"] # c
        BY <3>1, <4>1 DEF Places, Listeners
      <4> QED
        BY <1>2, <2>1, <3>1, <4>2 DEF LoginsPending, Ending
    <3>3. LoginsPending' = LoginsPending
      BY <1>1, <3>2
    <3> QED
      BY <2>1, <3>3, SlotsStay
  <2> QED
    BY <2>2, <2>3
<1>4. CASE Release(c) \/ MarkAuthenticated(c)
  <2>1. Released(c)
    BY <1>4 DEF Release, MarkAuthenticated
  <2>2. c \notin LoginsPending'
    BY <1>4 DEF Release, MarkAuthenticated, Goto, Types, LoginsPending
  <2>3. LoginsPending' = LoginsPending \ {c}
    BY <1>1, <2>2
  <2> QED
    BY <2>1, <2>3, SlotReleased
<1> QED
  BY <1>3, <1>4 DEF Handling, Client

LEMMA AcceptingKeepsSlots ==
    ASSUME Types, Places, SlotsKept, StartTCP \/ \E l \in Listeners : Accepting(l)
    PROVE  SlotsKept'
<1>0. /\ "tcp" \in Listeners /\ None \notin Remote /\ \A l \in Listeners : l = "tcp" \/ l = "unix"
      /\ hand["unix"] \notin Remote
  BY ListenerOfTypes, ConnTypes DEF Listeners, Places
<1>a. \A l \in Listeners : accept[l] \in Holding => hand[l] \in Conns
  BY DEF Places, Types
<1>1. CASE StartTCP
  <2>1. LoginsPending' = LoginsPending
    BY <1>0, <1>1 DEF StartTCP, Step, connVars, countVars, histVars, LoginsPending, Types
  <2> QED
    BY <1>1, <2>1, SlotsStay DEF StartTCP, connVars, countVars
<1>2. ASSUME NEW l \in Listeners, Accepting(l) PROVE SlotsKept'
  <2>1. CASE AcceptFails(l)
    <3>1. LoginsPending' = LoginsPending
      BY <1>0, <2>1 DEF AcceptFails, Step, connVars, countVars, histVars, LoginsPending, Types
    <3> QED
      BY <2>1, <3>1, SlotsStay DEF AcceptFails, connVars, countVars
  <2>2. CASE List(l)
    <3>1. \A d \in Remote : d \in authed' <=> d \in authed
      BY <2>2, ConnTypes DEF List
    <3>2. LoginsPending' = LoginsPending
      BY <1>0, <2>2, <3>1 DEF List, Step, countVars, histVars, LoginsPending, Types
    <3> QED
      BY <2>2, <3>2, SlotsStay DEF List, countVars
  <2>3. CASE Count(l)
    <3>1. LoginsPending' = LoginsPending
      BY <1>0, <2>3 DEF Count, Step, connVars, LoginsPending, Types
    <3> QED
      BY <2>3, <3>1, SlotsStay DEF Count, connVars
  <2>4. CASE Spawn(l)
    <3>1. LoginsPending' = LoginsPending
      BY <1>0, <1>a, <2>4 DEF Spawn, Step, Goto, connVars, histVars, LoginsPending, Types, Places, Holding
    <3> QED
      BY <2>4, <3>1, SlotsStay DEF Spawn, connVars, countVars
  <2>5. CASE Refuse
    <3>1. LoginsPending' = LoginsPending
      BY <1>0, <1>a, <2>5 DEF Refuse, Step, LoginsPending, Types, Places, Holding
    <3> QED
      BY <2>5, <3>1, SlotsStay DEF Refuse, countVars
  <2>6. CASE Admit
    <3> DEFINE c == hand["tcp"]
    <3>1. /\ accept["tcp"] = "admit" /\ accept'["tcp"] = "list"
          /\ pendingTCP' = pendingTCP + 1 /\ slots' = slots \cup {c} /\ ~Full
          /\ UNCHANGED <<hand, raw, authed, handler, refused>>
      BY <1>0, <2>6 DEF Admit, Step, Types, histVars
    <3>2. /\ c \in Remote /\ handler[c] = "none" /\ raw[c] \in {"open", "closed"} /\ c \notin refused
          /\ c \notin authed
      BY <1>0, <1>a, <3>1, ListenerOfTypes DEF Places, Holding
    <3>3. c \notin LoginsPending /\ LoginsPending' = LoginsPending \cup {c}
      BY <3>1, <3>2 DEF LoginsPending
    <3> HIDE DEF c
    <3>4. IsFiniteSet(slots) /\ MaxPendingTCP \in Nat
      BY ConnTypes, FS_Subset DEF Types
    <3>5. Cardinality(slots \cup {c}) = Cardinality(slots) + 1 /\ Cardinality(slots) \in Nat
      BY <3>3, <3>4, CountOneMore, FS_CardinalityType DEF SlotsKept
    <3>6. pendingTCP < MaxPendingTCP
      BY <3>1, <3>4, <3>5 DEF Full, SlotsKept
    <3> QED
      BY <3>1, <3>3, <3>4, <3>5, <3>6 DEF SlotsKept
  <2>7. ASSUME NEW c \in Conns, ListenerOf(c) = l, Accept(c) PROVE SlotsKept'
    <3>1. /\ accept' = [accept EXCEPT ![l] = IF l = "tcp" THEN "admit" ELSE "list"]
          /\ accept[l] = "accept" /\ raw[c] = "backlog"
          /\ raw' = [raw EXCEPT ![c] = "open"] /\ hand' = [hand EXCEPT ![l] = c]
          /\ UNCHANGED <<handler, refused, authed, slots, pendingTCP>>
      BY <2>7 DEF Accept, Step, histVars, countVars
    <3>2. handler[c] = "none" /\ (c \in Remote <=> l = "tcp") /\ hand[l] = None
      BY <2>7, <3>1, ListenerOfTypes DEF Places, Holding
    <3>3. LoginsPending' = LoginsPending
      BY <1>0, <3>1, <3>2, ConnTypes DEF LoginsPending, Types
    <3> QED
      BY <3>1, <3>3, SlotsStay
  <2> QED
    BY <1>2, <2>1, <2>2, <2>3, <2>4, <2>5, <2>6, <2>7 DEF Accepting
<1> QED
  BY <1>1, <1>2

LEMMA StopKeepsSlots ==
    ASSUME Types, Places, SlotsKept, StopBegin \/ Stopping \/ UNCHANGED vars
    PROVE  SlotsKept'
<1>1. /\ \A c \in Conns : raw'[c] \in {raw[c], "closed"}
      /\ UNCHANGED <<accept, hand, handler, authed, refused, slots, pendingTCP>>
  BY StopMoves
<1>2. \A c \in Remote : handler[c] # "none" \/ hand["tcp"] = c => raw[c] \in {"open", "closed"}
  BY ConnTypes DEF Places, Listeners
<1>3. LoginsPending' = LoginsPending
  BY <1>1, <1>2, ConnTypes DEF LoginsPending
<1> QED
  BY <1>1, <1>3, SlotsStay

LEMMA StepKeepsSlots ==
    ASSUME Types, Places, SlotsKept, [Next]_vars
    PROVE  SlotsKept'
  BY AcceptingKeepsSlots, HandlingKeepsSlots, StopKeepsSlots DEF Next

----------------------------------------------------------------------------
(* The handlers that are counted *)

\* Only the start and the end of the count change who is active, and the count
\* with them.
LEMMA ActiveMoves ==
    ASSUME Types, Places, [Next]_vars
    PROVE  \/ Active' = Active /\ handling' = handling /\ counted' = counted
           \/ \E c \in Conns \ Active :
                 /\ Active' = Active \cup {c} /\ handling' = handling + 1
                 /\ counted' = IF waited THEN counted ELSE counted \cup {c}
                 /\ handler' = handler /\ waited' = waited
           \/ \E c \in Active :
                 /\ Active' = Active \ {c} /\ handling' = handling - 1 /\ counted' = counted
                 /\ handler'[c] = "returned" /\ waited' = waited
<1>0. \A l \in Listeners : l = "tcp" \/ l = "unix"
  BY DEF Listeners
<1>a. \A l \in Listeners : accept[l] \in Holding => hand[l] \in Conns /\ handler[hand[l]] = "none"
  BY DEF Places, Types
<1>b. \A l, m \in Listeners : l # m /\ hand[l] # None => hand[l] # hand[m]
  BY DEF Places
<1>1. ASSUME NEW c \in Conns, Handling(c) \/ Client(c)
      PROVE  \/ Active' = Active /\ handling' = handling /\ counted' = counted
             \/ /\ c \in Active /\ Active' = Active \ {c} /\ handling' = handling - 1
                /\ counted' = counted /\ handler'[c] = "returned" /\ waited' = waited
  <2>1. /\ \A d \in Conns \ {c} : handler'[d] = handler[d]
        /\ handler'[c] = "none" <=> handler[c] = "none"
        /\ UNCHANGED <<accept, hand, counted, waited>>
    BY <1>1, HandlerMoves
  <2>2. CASE Uncount(c)
    <3>1. handler[c] = "uncount" /\ handler'[c] = "returned" /\ handling' = handling - 1
      BY <2>2 DEF Uncount, Goto, Types
    <3>2. \A l \in Listeners : ~(accept[l] = "spawn" /\ hand[l] = c)
      BY <1>a, <3>1 DEF Holding
    <3>3. c \in Active /\ Active' = Active \ {c}
      BY <2>1, <3>1, <3>2 DEF Active
    <3> QED
      BY <2>1, <3>1, <3>3
  <2>3. CASE ~Uncount(c)
    <3>1. handling' = handling
      BY <1>1, <2>3 DEF Handling, Client, Receive, Handle, Answer, ReceiveFails, Callback, RemoveConn,
                        Hangup, Dial, Release, MarkAuthenticated, countVars
    <3>2. handler'[c] = "returned" <=> handler[c] = "returned"
      BY <1>1, <2>3 DEF Handling, Client, Receive, Handle, Answer, ReceiveFails, Callback, RemoveConn,
                        Hangup, Dial, Release, MarkAuthenticated, Goto, Types
    <3>3. Active' = Active
      BY <2>1, <3>2 DEF Active
    <3> QED
      BY <2>1, <3>1, <3>3
  <2> QED
    BY <2>2, <2>3
<1>2. ASSUME NEW l \in Listeners, Count(l)
      PROVE  \E c \in Conns \ Active :
                 /\ Active' = Active \cup {c} /\ handling' = handling + 1
                 /\ counted' = IF waited THEN counted ELSE counted \cup {c}
                 /\ handler' = handler /\ waited' = waited
  <2> DEFINE c == hand[l]
  <2>1. /\ accept[l] = "count" /\ accept' = [accept EXCEPT ![l] = "spawn"]
        /\ UNCHANGED <<hand, handler, waited>> /\ handling' = handling + 1
        /\ counted' = IF waited THEN counted ELSE counted \cup {c}
    BY <1>2 DEF Count, Step
  <2>2. c \in Conns /\ handler[c] = "none" /\ c # None
    BY <1>a, <2>1, ConnTypes DEF Holding
  <2>3. \A m \in Listeners : m # l => hand[m] # c
    BY <1>b, <2>2
  <2>4. accept'[l] = "spawn" /\ \A m \in Listeners : m # l => accept'[m] = accept[m]
    BY <2>1 DEF Types
  <2> HIDE DEF c
  <2>5. c \notin Active /\ Active' = Active \cup {c}
    <3>1. hand[l] = c
      BY DEF c
    <3> QED
      BY <2>1, <2>2, <2>3, <2>4, <3>1 DEF Active
  <2> QED
    BY <2>1, <2>2, <2>5
<1>3. ASSUME NEW l \in Listeners, Spawn(l)
      PROVE  Active' = Active /\ handling' = handling /\ counted' = counted
  <2>1. /\ accept[l] = "spawn" /\ accept' = [accept EXCEPT ![l] = "accept"]
        /\ hand' = [hand EXCEPT ![l] = None] /\ handler' = [handler EXCEPT ![hand[l]] = "receive"]
        /\ handling' = handling /\ counted' = counted
    BY <1>3 DEF Spawn, Step, Goto, countVars, histVars
  <2>2. hand[l] \in Conns /\ hand[l] # None
    BY <1>a, <2>1, ConnTypes DEF Holding
  <2>3. \A m \in Listeners : m # l => hand[m] # hand[l] /\ hand'[m] = hand[m] /\ accept'[m] = accept[m]
    BY <1>b, <2>1, <2>2 DEF Types
  <2>4. accept'[l] = "accept" /\ handler'[hand[l]] = "receive"
    BY <2>1, <2>2 DEF Types
  <2>5. \A d \in Conns : d # hand[l] => handler'[d] = handler[d]
    BY <2>1 DEF Types
  <2>6. Active' = Active
    BY <2>1, <2>2, <2>3, <2>4, <2>5 DEF Active
  <2> QED
    BY <2>1, <2>6
<1>4. ASSUME StartTCP \/ \E l \in Listeners : Accepting(l) /\ ~Count(l) /\ ~Spawn(l)
      PROVE  Active' = Active /\ handling' = handling /\ counted' = counted
  <2>1. /\ UNCHANGED <<handler, handling, counted>>
        /\ \A l \in Listeners : accept'[l] = "spawn" <=> accept[l] = "spawn"
        /\ \A l \in Listeners : accept[l] = "spawn" => hand'[l] = hand[l]
    <3>1. CASE StartTCP
      BY <1>0, <3>1 DEF StartTCP, Step, countVars, histVars, Types
    <3>2. ASSUME NEW l \in Listeners, AcceptFails(l) \/ List(l)
          PROVE  <2>1!:
      BY <3>2 DEF AcceptFails, List, Step, countVars, histVars, Types
    <3>3. CASE Refuse \/ Admit
      BY <3>3 DEF Refuse, Admit, Step, countVars, histVars, Types
    <3>4. ASSUME NEW l \in Listeners, NEW c \in Conns, ListenerOf(c) = l, Accept(c)
          PROVE  <2>1!:
      BY <3>4 DEF Accept, Step, countVars, histVars, Types
    <3> QED
      BY <1>4, <3>1, <3>2, <3>3, <3>4 DEF Accepting
  <2> QED
    BY <2>1 DEF Active
<1>5. CASE StopBegin \/ Stopping \/ UNCHANGED vars
  <2>1. UNCHANGED <<accept, hand, handler, handling, counted>>
    BY <1>5, StopMoves
  <2> QED
    BY <2>1 DEF Active
<1> QED
  BY <1>1, <1>2, <1>3, <1>4, <1>5 DEF Next

LEMMA StepKeepsHandling ==
    ASSUME Types, Places, HandlingKept, [Next]_vars
    PROVE  HandlingKept'
<1>1. IsFiniteSet(Active) /\ Active \subseteq Conns
  BY ConnTypes, FS_Subset DEF Active
<1>2. CASE Active' = Active /\ handling' = handling
  BY <1>2 DEF HandlingKept
<1>3. ASSUME NEW c \in Conns \ Active, Active' = Active \cup {c}, handling' = handling + 1
      PROVE  HandlingKept'
  BY <1>1, <1>3, CountOneMore DEF HandlingKept
<1>4. ASSUME NEW c \in Active, Active' = Active \ {c}, handling' = handling - 1
      PROVE  HandlingKept'
  BY <1>1, <1>4, CountOneLess DEF HandlingKept
<1> QED
  BY <1>2, <1>3, <1>4, ActiveMoves

\* A handler that has returned stays so; it does not begin before it is counted.
LEMMA ReturnedStays ==
    ASSUME Types, Places, [Next]_vars, NEW c \in Conns, handler[c] = "returned"
    PROVE  handler'[c] = "returned"
<1>1. CASE \E d \in Conns : Handling(d) \/ Client(d)
  BY <1>1, HandlerMoves
<1>2. CASE StopBegin \/ Stopping \/ UNCHANGED vars
  BY <1>2, StopMoves
<1>3. CASE StartTCP
  BY <1>3 DEF StartTCP
<1>4. ASSUME NEW l \in Listeners, Accepting(l) PROVE handler'[c] = "returned"
  <2>1. CASE Spawn(l)
    <3>1. hand[l] # c
      BY <2>1 DEF Spawn, Step, Places, Types, Holding
    <3> QED
      BY <2>1, <3>1 DEF Spawn, Goto, Types
  <2>2. CASE ~Spawn(l)
    BY <1>4, <2>2 DEF Accepting, AcceptFails, List, Count, Refuse, Admit, Accept
  <2> QED
    BY <2>1, <2>2
<1> QED
  BY <1>1, <1>2, <1>3, <1>4 DEF Next

LEMMA StepKeepsCounted ==
    ASSUME Types, Places, HandlingKept, CountedKept, [Next]_vars
    PROVE  CountedKept'
<1>1. CASE WaitConns
  <2>1. Active = {}
    <3>1. IsFiniteSet(Active) /\ Cardinality(Active) = 0
      BY <1>1, ConnTypes, FS_Subset DEF Active, WaitConns, AllReturned, HandlingKept
    <3> QED
      BY <3>1, FS_EmptySet
  <2>2. UNCHANGED <<handler, counted>>
    BY <1>1 DEF WaitConns
  <2> QED
    BY <2>1, <2>2 DEF CountedKept
<1>2. CASE ~WaitConns
  <2>1. waited' = waited
    BY <1>2 DEF Next, vars, histVars, StartTCP, StopBegin, Stopping, StopConns, StopTCP, StopUnix,
                FinalSnapshot, WaitTimesOut, CloseAuth, Accepting, AcceptFails, List, Count, Spawn,
                Refuse, Admit, Accept, Handling, Client, Handle, Answer, ReceiveFails, Release,
                RemoveConn, Callback, Uncount, Dial, Receive, MarkAuthenticated, Hangup
  <2>2. \A c \in Conns : handler[c] = "returned" => handler'[c] = "returned"
    BY ReturnedStays
  <2>3. counted \subseteq Conns
    BY DEF Types
  <2>4. CASE Active' = Active /\ counted' = counted
    BY <2>1, <2>2, <2>3, <2>4 DEF CountedKept
  <2>5. ASSUME NEW c \in Conns \ Active, Active' = Active \cup {c},
               counted' = IF waited THEN counted ELSE counted \cup {c}
        PROVE  CountedKept'
    BY <2>1, <2>2, <2>3, <2>5 DEF CountedKept
  <2>6. ASSUME NEW c \in Active, Active' = Active \ {c}, counted' = counted, handler'[c] = "returned"
        PROVE  CountedKept'
    BY <2>1, <2>2, <2>3, <2>6 DEF CountedKept
  <2> QED
    BY <2>4, <2>5, <2>6, ActiveMoves
<1> QED
  BY <1>1, <1>2

----------------------------------------------------------------------------
(* The answers and the final snapshot *)

\* A closed socket stays closed.
LEMMA ClosedStays ==
    ASSUME Types, Places, [Next]_vars, NEW c \in Conns, raw[c] = "closed"
    PROVE  raw'[c] = "closed"
<1>1. CASE \E d \in Conns : Handling(d) \/ Client(d)
  BY <1>1, HandlerMoves
<1>2. CASE StopBegin \/ Stopping \/ UNCHANGED vars
  BY <1>2, StopMoves
<1>3. CASE StartTCP
  BY <1>3 DEF StartTCP, connVars
<1>4. ASSUME NEW l \in Listeners, Accepting(l) PROVE raw'[c] = "closed"
  <2>1. CASE Refuse
    BY <2>1 DEF Refuse, Types
  <2>2. ASSUME NEW d \in Conns, Accept(d) PROVE raw'[c] = "closed"
    BY <2>2 DEF Accept, Types
  <2>3. CASE AcceptFails(l) \/ List(l) \/ Count(l) \/ Spawn(l) \/ Admit
    BY <2>3 DEF AcceptFails, List, Count, Spawn, Admit, connVars
  <2> QED
    BY <1>4, <2>1, <2>2, <2>3 DEF Accepting
<1> QED
  BY <1>1, <1>2, <1>3, <1>4 DEF Next

LEMMA StepKeepsAcks ==
    ASSUME Types, Places, AcksKept, [Next]_vars
    PROVE  AcksKept'
<1>1. \A c \in Conns : raw[c] = "closed" => raw'[c] = "closed"
  BY ClosedStays
<1>2. closedList \subseteq Conns
  BY DEF Types
<1>3. ASSUME NEW c \in Conns, Handling(c) \/ Client(c) PROVE AcksKept'
  <2>1. UNCHANGED <<stop, closedList, saved>>
    BY <1>3, HandlerMoves
  <2>2. CASE Handle(c)
    BY <1>1, <1>2, <2>1, <2>2 DEF Handle, Goto, histVars, Types, AcksKept, ListedAckIsSaved
  <2>3. CASE Answer(c)
    BY <1>1, <1>2, <2>1, <2>3 DEF Answer, Sends, Goto, Types, AcksKept, ListedAckIsSaved
  <2>4. CASE ~Handle(c) /\ ~Answer(c)
    <3>1. /\ acked' = acked /\ changed' = changed
          /\ \A d \in Conns : handler'[d] = "answer" => handler[d] = "answer"
      BY <1>3, <2>4 DEF Handling, Client, Receive, ReceiveFails, Callback, Uncount, RemoveConn,
                        Hangup, Dial, Release, MarkAuthenticated, Goto, Types, histVars
    <3> QED
      BY <1>1, <1>2, <2>1, <3>1 DEF AcksKept, ListedAckIsSaved
  <2> QED
    BY <2>2, <2>3, <2>4
<1>4. CASE StartTCP \/ \E l \in Listeners : Accepting(l)
  <2>1. /\ UNCHANGED <<stop, closedList, saved, acked, changed>>
        /\ \A d \in Conns : handler'[d] = "answer" => handler[d] = "answer"
    BY <1>4 DEF StartTCP, Accepting, AcceptFails, List, Count, Spawn, Refuse, Admit, Accept, Goto,
                Types, histVars
  <2> QED
    BY <1>1, <1>2, <2>1 DEF AcksKept, ListedAckIsSaved
<1>5. CASE StopBegin \/ Stopping \/ UNCHANGED vars
  <2>1. UNCHANGED <<acked, changed, handler>>
    BY <1>5, StopMoves
  <2>2. CASE StopConns
    <3>1. stop' = "tcp" /\ closedList' = conns /\ \A c \in conns : raw'[c] = "closed"
      BY <2>2 DEF StopConns, StopStep, ToClose, Types
    <3> QED
      BY <2>1, <3>1 DEF AcksKept, ListedAckIsSaved
  <2>3. CASE FinalSnapshot
    <3>1. stop = "snapshot" /\ stop' = "wait" /\ saved' = changed /\ closedList' = closedList
      BY <2>3 DEF FinalSnapshot, StopStep
    <3> QED
      BY <1>1, <1>2, <2>1, <3>1 DEF AcksKept, ListedAckIsSaved
  <2>4. CASE StopBegin \/ StopTCP \/ StopUnix \/ UNCHANGED vars
    <3>1. /\ closedList' = closedList /\ saved' = saved
          /\ (stop' \in {"running", "done"} => stop \in {"running", "done"})
          /\ (stop' \in {"wait", "auth", "stopped"} => stop \in {"wait", "auth", "stopped"})
      BY <2>4 DEF StopBegin, StopTCP, StopUnix, StopStep, vars, histVars
    <3> QED
      BY <1>1, <1>2, <2>1, <3>1 DEF AcksKept, ListedAckIsSaved
  <2>5. CASE WaitConns \/ WaitTimesOut \/ CloseAuth
    <3>1. /\ closedList' = closedList /\ saved' = saved
          /\ stop' \notin {"running", "done"} /\ stop \in {"wait", "auth"}
      BY <2>5 DEF WaitConns, WaitTimesOut, CloseAuth, StopStep, histVars
    <3> QED
      BY <1>1, <1>2, <2>1, <3>1 DEF AcksKept, ListedAckIsSaved
  <2> QED
    BY <1>5, <2>2, <2>3, <2>4, <2>5 DEF Stopping
<1> QED
  BY <1>3, <1>4, <1>5 DEF Next

LEMMA StepKeepsListeners ==
    ASSUME Types, ListenersKept, Places, [Next]_vars
    PROVE  ListenersKept'
<1>1. CASE \E c \in Conns : Handling(c) \/ Client(c)
  <2>1. UNCHANGED <<done, listener, stop>>
    BY <1>1, HandlerMoves
  <2> QED
    BY <2>1 DEF ListenersKept
<1>2. CASE StartTCP
  BY <1>2 DEF StartTCP, MayListen, ListenersKept, Types
<1>3. CASE \E l \in Listeners : Accepting(l)
  <2>1. UNCHANGED <<done, listener, stop>>
    BY <1>3 DEF Accepting, AcceptFails, List, Count, Spawn, Refuse, Admit, Accept
  <2> QED
    BY <2>1 DEF ListenersKept
<1>4. CASE StopTCP \/ StopUnix
  BY <1>4 DEF StopTCP, StopUnix, StopStep, Closed, ListenersKept, Types, Listeners
<1>5. CASE StopBegin \/ StopConns \/ FinalSnapshot \/ WaitConns \/ WaitTimesOut \/ CloseAuth
  BY <1>5 DEF StopBegin, StopConns, FinalSnapshot, WaitConns, WaitTimesOut, CloseAuth, StopStep, ListenersKept
<1>6. CASE UNCHANGED vars
  BY <1>6 DEF vars, ListenersKept
<1> QED
  BY <1>1, <1>2, <1>3, <1>4, <1>5, <1>6 DEF Next, Stopping

----------------------------------------------------------------------------
\* The inductive invariant.
THEOREM StopInvariance == Spec => []IInv
<1>1. Init => IInv
  BY InitInv
<1>2. IInv /\ [Next]_vars => IInv'
  <2> SUFFICES ASSUME IInv, [Next]_vars PROVE IInv'
    OBVIOUS
  <2>1. Types' /\ Places'
    BY StepKeepsTypes, StepKeepsPlaces DEF IInv
  <2>2. SlotsKept' /\ HandlingKept'
    BY StepKeepsSlots, StepKeepsHandling DEF IInv
  <2>3. CountedKept' /\ AcksKept' /\ ListenersKept'
    BY StepKeepsCounted, StepKeepsAcks, StepKeepsListeners DEF IInv
  <2> QED
    BY <2>1, <2>2, <2>3 DEF IInv
<1> QED
  BY <1>1, <1>2, PTL DEF Spec

\* The types, and that the places for logins add up: none is given back twice
\* or kept, however logins, hangups and the stop fall together.
THEOREM PlacesAddUp == Spec => []ServerSound
<1>1. IInv => ServerSound
  <2> SUFFICES ASSUME IInv PROVE TypeOK /\ SlotsAddUp
    BY DEF ServerSound
  <2>1. /\ IsFiniteSet(Conns) /\ Active \subseteq Conns
        /\ IsFiniteSet(slots) /\ MaxPendingTCP \in Nat
    BY ConnTypes, FS_Subset DEF Active, IInv, Types
  <2>2. handling \in 0 .. Cardinality(Conns)
    <3>1. /\ Cardinality(Active) <= Cardinality(Conns)
          /\ Cardinality(Active) \in Nat /\ Cardinality(Conns) \in Nat
      BY <2>1, FS_Subset, FS_CardinalityType
    <3> QED
      BY <3>1 DEF IInv, HandlingKept
  <2>3. pendingTCP \in 0 .. MaxPendingTCP /\ SlotsAddUp
    <3>1. Cardinality(slots) \in Nat
      BY <2>1, FS_CardinalityType
    <3> QED
      BY <2>1, <3>1 DEF IInv, SlotsKept, SlotsAddUp
  <2>4. UNION {conns, authed, changed, saved, acked, closedList, refused, counted} \subseteq Conns
    BY DEF IInv, Types
  <2> QED
    BY <2>2, <2>3, <2>4 DEF IInv, Types, TypeOK
<1> QED
  BY <1>1, StopInvariance, PTL

\* What a client on Stop's list was told is done is in the final snapshot.
THEOREM ListedAcksAreSaved == Spec => []ListedAckIsSaved
<1>1. IInv => ListedAckIsSaved
  BY DEF IInv, AcksKept
<1> QED
  BY <1>1, StopInvariance, PTL

\* When WaitConns answers that all have returned, every counted one has.
THEOREM WaitCoversCounted == Spec => []CountedHaveReturned
<1>1. IInv => CountedHaveReturned
  BY DEF IInv, CountedKept, CountedHaveReturned
<1> QED
  BY <1>1, StopInvariance, PTL

\* After Server.Stop nobody is left listening, also when StartTCP races it.
THEOREM NobodyStaysListening == Spec => []NobodyListens
<1>1. IInv => NobodyListens
  BY DEF IInv, ListenersKept, NobodyListens, Listeners
<1> QED
  BY <1>1, StopInvariance, PTL

----------------------------------------------------------------------------
(***************************************************************************)
(* AttachHold.  What a client is sent of a pane goes through one line: the *)
(* hold, the batch in the handler's hand, the critical queue, the client.  *)
(* InLine says each of them is in the order of the pane's stream, and each *)
(* before the next; held bytes that a replay carries do not count.  Reach  *)
(* says no frame is ahead of the bytes written, so that a flush adds to    *)
(* the line's end, and a live frame after the hold to the end of all.      *)
(*                                                                         *)
(* That nothing is missing is said of every state: a byte is replayed,     *)
(* held, queued, applied, shed, jumped, or in the hand of its flush.       *)
(***************************************************************************)

Early == {"detached", "drain", "state"}
Replaying == {"replay", "sending"}
Releasing == {"take", "held", "finish"}
Over == {"attached", "aborted"}

\* The frames of a sequence.
Of(s) == {s[i] : i \in DOMAIN s}

\* What the attach sends: the state, the replays, and the held frames that no
\* replay carries, for replays that end at e.
Lines(e) == {f \in Frames : \/ f.kind \in {"state", "replay"}
                            \/ f.kind = "held" /\ f.pos >= e[f.pane]}
Lives == {f \in Frames : f.kind = "live"}

\* The frames of K that are of one pane come in the order of its stream.
Below(f, g, K) == f \in K /\ g \in K /\ f.pane = g.pane => f.pos < g.pos
Rising(s, K) == \A i, j \in DOMAIN s : i < j => Below(s[i], s[j], K)
Before(s, t, K) == \A f \in Of(s) : \A g \in Of(t) : Below(f, g, K)

\* Where the handler is says what is held and what may be on its way.
Phases ==
    /\ held = flag
    /\ flag = TRUE <=> pc \notin Over \cup {"detached"}
    /\ flag # TRUE => chunks = <<>> /\ lost = {}
    /\ pc # "held" => kicks = {}
    /\ pc \notin {"sending", "held"} => sending = <<>>
    /\ pc = "sending" => sending # <<>>
    /\ pc \notin Early \cup Replaying => todo = {}
    /\ pc \in Early => got = <<>> /\ critCh = <<>> /\ todo = Panes
    /\ \A p \in todo : end[p] = 0

Kinds ==
    /\ \A f \in Of(chunks) : f.kind \in {"held", "hole"}
    /\ \A f \in Of(sending) :
          IF pc = "sending" THEN f.kind = "replay" /\ f.pane \notin todo
          ELSE f.kind \in {"held", "hole"}
    /\ \A f \in Of(outCh) : f.kind = "live"
    /\ \A f \in Of(critCh) : f \in Lines(end)
    /\ \A f \in Of(got) : f \in Lines(end) \cup Lives
    /\ \A f \in Of(got) \cup Of(critCh) :
          /\ f.pane \in todo => f.kind = "live"
          /\ f.kind = "held" => pc \in Releasing \cup Over

\* Every frame held, queued, or applied.
Pool == Of(got) \cup Of(critCh) \cup Of(outCh) \cup Of(sending) \cup Of(chunks)

\* No frame is ahead of the stream it is cut from, and the byte of a flush that
\* has not come to a frame's turn is in no such frame.
Behind(f) ==
    /\ f.kind = "replay" => f.pos < end[f.pane]
    /\ f.kind \in {"held", "live"} => f.pos < outPos[f.pane]
    /\ \/ f.kind = "held" /\ flush[f.pane] = "published"
       \/ f.kind = "live" /\ flush[f.pane] # "out"
       \/ f.kind \in {"replay", "held"} /\ flag # TRUE /\ flush[f.pane] # "out"
       => f.pos < outPos[f.pane] - 1
Reach ==
    /\ \A p \in Panes : /\ end[p] <= outPos[p] /\ since[p] <= outPos[p]
                        /\ flush[p] # "out" => outPos[p] > 0
                        /\ end[p] > 0 => since[p] <= end[p]
    /\ \A f \in Pool : Behind(f)
    /\ flag = TRUE => \A f \in Of(outCh) : f.pos < since[f.pane]

InLine ==
    LET K == Lines(end) IN
    /\ Rising(got, K) /\ Rising(critCh, K) /\ Rising(sending, K) /\ Rising(chunks, K)
    /\ Before(got, critCh, K) /\ Before(got, sending, K) /\ Before(got, chunks, K)
    /\ Before(critCh, sending, K) /\ Before(critCh, chunks, K)
    /\ Before(sending, chunks, K)

LivesInLine == Rising(got, Lives) /\ Rising(outCh, Lives) /\ Before(got, outCh, Lives)

\* The lives are before the hold or behind it.
Apart ==
    lapsed # TRUE =>
        /\ pc \notin Over \cup {"detached", "drain"} =>
              outCh = <<>> /\ \A f \in Of(got) : f.kind # "live"
        /\ \A f \in Of(got) \cup Of(critCh) : \A g \in Of(got) \cup Of(outCh) :
              f \in Lines(end) /\ g \in Lives /\ f.pane = g.pane => f.pos < g.pos

Jumps ==
    lapsed # TRUE =>
        \/ jumped = {}
        \/ pc \in Over /\ (\E f \in jumped : jumped = {f}) /\ (critCh = <<>> \/ loop # "second")

\* The state frame comes first.
StateFirst ==
    /\ got = <<>> /\ critCh # <<>> => Head(critCh) = State
    /\ conn = "open" /\ pc \notin Early /\ got = <<>> => critCh # <<>>

InHand(p) == flush[p] = "published" \/ (flush[p] = "appended" /\ flag # TRUE)
Located(p, b) ==
    \/ b < end[p]
    \/ Frame("held", p, b) \in Of(got) \cup Of(critCh) \cup Of(sending) \cup Of(chunks)
    \/ Frame("live", p, b) \in Of(got) \cup Of(outCh) \cup shed \cup jumped
    \/ b = outPos[p] - 1 /\ InHand(p)
ReplayComes ==
    conn = "open" /\ stopping # TRUE =>
        \A p \in Panes : \A b \in 0 .. (end[p] - 1) :
            Frame("replay", p, b) \in Of(got) \cup Of(critCh) \cup Of(sending)
RestComes ==
    conn = "open" /\ stopping # TRUE /\ viewer # TRUE /\ pc # "detached" =>
        \A p \in Panes :
            p \notin lost \cup kicks \cup silent /\ <<p, "lost">> \notin kicked =>
                \A b \in since[p] .. (outPos[p] - 1) : Located(p, b)

HoldIInv ==
    /\ AttachTypeOK /\ Phases /\ Kinds /\ Reach /\ InLine /\ LivesInLine
    /\ Apart /\ Jumps /\ StateFirst /\ ReplayComes /\ RestComes

----------------------------------------------------------------------------
(* The operators *)

LEMMA FrameParts ==
    /\ NoPane \notin Panes /\ State \in Frames /\ Hole \notin Frames
    /\ State.kind = "state" /\ State.pane = NoPane /\ State.pos = 0
    /\ Hole.kind = "hole" /\ Hole.pane = NoPane /\ Hole.pos = 0
    /\ \A f \in Frames : \/ f = State
                         \/ /\ f.kind \in {"replay", "held", "live"} /\ f.pane \in Panes
                            /\ f.pos \in Nat
<1>1. NoPane \notin Panes
  BY AttachHoldAssumption
<1>2. /\ State.kind = "state" /\ State.pane = NoPane /\ State.pos = 0
      /\ Hole.kind = "hole" /\ Hole.pane = NoPane /\ Hole.pos = 0
  BY DEF State, Hole, Frame
<1> QED  BY <1>1, <1>2 DEF Frames

LEMMA NewFrame ==
    ASSUME NEW k \in {"replay", "held", "live"}, NEW p \in Panes, NEW i \in Nat
    PROVE  /\ Frame(k, p, i) \in Frames
           /\ Frame(k, p, i).kind = k /\ Frame(k, p, i).pane = p /\ Frame(k, p, i).pos = i
BY DEF Frame, Frames

LEMMA NewFrames ==
    ASSUME NEW p \in Panes, NEW i \in Nat
    PROVE  /\ Frame("replay", p, i) \in Frames /\ Frame("held", p, i) \in Frames
           /\ Frame("live", p, i) \in Frames
BY DEF Frame, Frames

LEMMA FrameFields ==
    \A k, p, i : Frame(k, p, i).kind = k /\ Frame(k, p, i).pane = p /\ Frame(k, p, i).pos = i
BY DEF Frame

LEMMA SameFrame ==
    ASSUME NEW f \in Frames, f # State
    PROVE  f = Frame(f.kind, f.pane, f.pos)
BY DEF Frame, Frames

LEMMA OfEmpty == Of(<<>>) = {}
BY DEF Of

LEMMA OfTyped ==
    ASSUME NEW S, NEW s \in Seq(S)
    PROVE  /\ Of(s) \subseteq S /\ DOMAIN s = 1 .. Len(s)
           /\ s = <<>> <=> Of(s) = {}
<1>1. DOMAIN s = 1 .. Len(s) /\ Len(s) \in Nat /\ \A i \in 1 .. Len(s) : s[i] \in S
  OBVIOUS
<1>2. s = <<>> <=> Len(s) = 0
  BY EmptySeq
<1>3. Len(s) # 0 => s[1] \in Of(s)
  BY <1>1 DEF Of
<1>4. Of(s) \subseteq S
  BY <1>1 DEF Of
<1>5. Len(s) = 0 => Of(s) = {}
  BY <1>1 DEF Of
<1>6. Len(s) # 0 => Of(s) # {}
  BY <1>3
<1> QED  BY <1>1, <1>2, <1>4, <1>5, <1>6

LEMMA OfAppend ==
    ASSUME NEW S, NEW s \in Seq(S), NEW f \in S
    PROVE  Append(s, f) \in Seq(S) /\ Of(Append(s, f)) = Of(s) \cup {f} /\ Append(s, f) # <<>>
<1>1. /\ Len(s) \in Nat /\ Append(s, f) \in Seq(S) /\ Len(Append(s, f)) = Len(s) + 1
      /\ \A i \in 1 .. Len(s) : Append(s, f)[i] = s[i]
      /\ Append(s, f)[Len(s) + 1] = f
  BY AppendProperties
<1>2. DOMAIN s = 1 .. Len(s) /\ DOMAIN Append(s, f) = 1 .. (Len(s) + 1)
  BY <1>1
<1>3. ASSUME NEW g \in Of(Append(s, f))
      PROVE  g \in Of(s) \cup {f}
  BY <1>1, <1>2 DEF Of
<1>4. ASSUME NEW g \in Of(s)
      PROVE  g \in Of(Append(s, f))
  <2>1. PICK i \in 1 .. Len(s) : g = s[i]
    BY <1>2 DEF Of
  <2> QED  BY <1>1, <1>2, <2>1 DEF Of
<1>5. f \in Of(Append(s, f))
  BY <1>1, <1>2 DEF Of
<1> QED  BY <1>1, <1>3, <1>4, <1>5, OfEmpty

LEMMA TailParts ==
    ASSUME NEW S, NEW s \in Seq(S), s # <<>>
    PROVE  /\ Head(s) \in S /\ Head(s) = s[1] /\ Tail(s) \in Seq(S)
           /\ Len(s) \in Nat \ {0} /\ Len(Tail(s)) = Len(s) - 1
           /\ DOMAIN s = 1 .. Len(s) /\ DOMAIN Tail(s) = 1 .. (Len(s) - 1)
           /\ \A i \in 1 .. (Len(s) - 1) : Tail(s)[i] = s[i + 1]
<1>1. /\ Head(s) \in S /\ Head(s) = s[1] /\ Tail(s) \in Seq(S)
      /\ Len(Tail(s)) = Len(s) - 1 /\ \A i \in 1 .. Len(Tail(s)) : Tail(s)[i] = s[i + 1]
  BY HeadTailProperties, EmptySeq
<1>2. Len(s) \in Nat \ {0}
  BY EmptySeq
<1> QED  BY <1>1, <1>2

LEMMA OfTail ==
    ASSUME NEW S, NEW s \in Seq(S), s # <<>>
    PROVE  /\ Head(s) \in S /\ Tail(s) \in Seq(S)
           /\ Of(s) = {Head(s)} \cup Of(Tail(s))
<1> DEFINE n == Len(s)
<1>1. /\ Head(s) \in S /\ Head(s) = s[1] /\ Tail(s) \in Seq(S) /\ n \in Nat \ {0}
      /\ DOMAIN s = 1 .. n /\ DOMAIN Tail(s) = 1 .. (n - 1)
      /\ \A i \in 1 .. (n - 1) : Tail(s)[i] = s[i + 1]
  BY TailParts
<1> HIDE DEF n
<1>2. ASSUME NEW g \in Of(s)
      PROVE  g \in {Head(s)} \cup Of(Tail(s))
  <2>1. PICK i \in 1 .. n : g = s[i]
    BY <1>1 DEF Of
  <2>2. CASE i = 1
    BY <1>1, <2>1, <2>2
  <2>3. CASE i # 1
    <3>1. i - 1 \in 1 .. (n - 1) /\ s[i] = Tail(s)[i - 1]
      BY <1>1, <2>3
    <3> QED  BY <1>1, <2>1, <3>1 DEF Of
  <2> QED  BY <2>2, <2>3
<1>3. ASSUME NEW g \in {Head(s)} \cup Of(Tail(s))
      PROVE  g \in Of(s)
  <2>1. CASE g = Head(s)
    BY <1>1, <2>1 DEF Of
  <2>2. CASE g \in Of(Tail(s))
    <3>1. PICK i \in 1 .. (n - 1) : g = Tail(s)[i]
      BY <1>1, <2>2 DEF Of
    <3>2. i + 1 \in 1 .. n /\ g = s[i + 1]
      BY <1>1, <3>1
    <3> QED  BY <1>1, <3>2 DEF Of
  <2> QED  BY <1>3, <2>1, <2>2
<1> QED  BY <1>1, <1>2, <1>3

LEMMA RisingEmpty == \A K : Rising(<<>>, K)
BY DEF Rising

LEMMA RisingAppend ==
    ASSUME NEW S, NEW K, NEW s \in Seq(S), NEW f \in S,
           Rising(s, K), \A g \in Of(s) : Below(g, f, K)
    PROVE  Rising(Append(s, f), K)
<1>1. /\ Len(s) \in Nat /\ Append(s, f) \in Seq(S) /\ Len(Append(s, f)) = Len(s) + 1
      /\ \A i \in 1 .. Len(s) : Append(s, f)[i] = s[i]
      /\ Append(s, f)[Len(s) + 1] = f
  BY AppendProperties
<1>2. DOMAIN s = 1 .. Len(s) /\ DOMAIN Append(s, f) = 1 .. (Len(s) + 1)
  BY <1>1
<1>3. ASSUME NEW i \in 1 .. (Len(s) + 1), NEW j \in 1 .. (Len(s) + 1), i < j
      PROVE  Below(Append(s, f)[i], Append(s, f)[j], K)
  <2>1. i \in 1 .. Len(s) /\ Append(s, f)[i] = s[i]
    BY <1>1, <1>3
  <2>2. CASE j = Len(s) + 1
    <3>1. s[i] \in Of(s)
      BY <1>2, <2>1 DEF Of
    <3> QED  BY <1>1, <2>1, <2>2, <3>1
  <2>3. CASE j \in 1 .. Len(s)
    BY <1>1, <1>2, <1>3, <2>1, <2>3 DEF Rising
  <2> QED  BY <1>1, <2>2, <2>3
<1> QED  BY <1>2, <1>3 DEF Rising

LEMMA RisingTail ==
    ASSUME NEW S, NEW K, NEW s \in Seq(S), s # <<>>, Rising(s, K)
    PROVE  Rising(Tail(s), K) /\ \A g \in Of(Tail(s)) : Below(Head(s), g, K)
<1> DEFINE n == Len(s)
<1>1. /\ Head(s) = s[1] /\ n \in Nat \ {0}
      /\ DOMAIN s = 1 .. n /\ DOMAIN Tail(s) = 1 .. (n - 1)
      /\ \A i \in 1 .. (n - 1) : Tail(s)[i] = s[i + 1]
  BY TailParts
<1> HIDE DEF n
<1>2. ASSUME NEW i \in 1 .. (n - 1), NEW j \in 1 .. (n - 1), i < j
      PROVE  Below(Tail(s)[i], Tail(s)[j], K)
  <2>1. i + 1 \in 1 .. n /\ j + 1 \in 1 .. n /\ i + 1 < j + 1
    BY <1>1, <1>2
  <2> QED  BY <1>1, <2>1 DEF Rising
<1>3. ASSUME NEW g \in Of(Tail(s))
      PROVE  Below(Head(s), g, K)
  <2>1. PICK i \in 1 .. (n - 1) : g = Tail(s)[i]
    BY <1>1 DEF Of
  <2>2. 1 \in 1 .. n /\ i + 1 \in 1 .. n /\ 1 < i + 1
    BY <1>1
  <2> QED  BY <1>1, <2>1, <2>2 DEF Rising
<1> QED  BY <1>1, <1>2, <1>3 DEF Rising

LEMMA FewerRising ==
    ASSUME NEW K, NEW J, J \subseteq K
    PROVE  /\ \A s : Rising(s, K) => Rising(s, J)
           /\ \A s, t : Before(s, t, K) => Before(s, t, J)
BY DEF Rising, Before, Below

LEMMA BeforeShrinks ==
    ASSUME NEW s, NEW t, NEW a, NEW b, NEW K, Before(s, t, K),
           Of(a) \subseteq Of(s), Of(b) \subseteq Of(t)
    PROVE  Before(a, b, K)
BY DEF Before

\* The head of one sequence goes to the end of the one before it.
LEMMA HandOver ==
    ASSUME NEW S, NEW K, NEW s \in Seq(S), NEW t \in Seq(S), t # <<>>,
           Rising(s, K), Rising(t, K), Before(s, t, K)
    PROVE  /\ Rising(Append(s, Head(t)), K) /\ Rising(Tail(t), K)
           /\ Before(Append(s, Head(t)), Tail(t), K)
           /\ Of(Append(s, Head(t))) \cup Of(Tail(t)) = Of(s) \cup Of(t)
<1>1. Head(t) \in S /\ Tail(t) \in Seq(S) /\ Of(t) = {Head(t)} \cup Of(Tail(t))
  BY OfTail
<1>2. Of(Append(s, Head(t))) = Of(s) \cup {Head(t)}
  BY <1>1, OfAppend
<1>3. \A g \in Of(s) : Below(g, Head(t), K)
  BY <1>1 DEF Before
<1>4. Rising(Tail(t), K) /\ \A g \in Of(Tail(t)) : Below(Head(t), g, K)
  BY RisingTail
<1>5. Before(Append(s, Head(t)), Tail(t), K)
  BY <1>1, <1>2, <1>4 DEF Before
<1> QED  BY <1>1, <1>2, <1>3, <1>4, <1>5, RisingAppend

LEMMA HoleDrops ==
    ASSUME NEW s \in Seq(Frames \cup {Hole}), NEW p \in Panes
    PROVE  /\ Dropped(s, p) \in Seq(Frames \cup {Hole})
           /\ Of(Dropped(s, p)) \subseteq Of(s) \cup {Hole}
           /\ \A f \in Of(s) : f.pane # p => f \in Of(Dropped(s, p))
           /\ \A K : Hole \notin K /\ Rising(s, K) => Rising(Dropped(s, p), K)
<1>1. DOMAIN s = 1 .. Len(s) /\ Len(s) \in Nat /\ \A i \in 1 .. Len(s) : s[i] \in Frames \cup {Hole}
  OBVIOUS
<1>2. /\ DOMAIN Dropped(s, p) = 1 .. Len(s)
      /\ \A i \in 1 .. Len(s) : Dropped(s, p)[i] = IF s[i].pane = p THEN Hole ELSE s[i]
  BY <1>1 DEF Dropped
<1>3. Dropped(s, p) \in Seq(Frames \cup {Hole})
  <2>1. Dropped(s, p) \in [1 .. Len(s) -> Frames \cup {Hole}]
    BY <1>1 DEF Dropped
  <2> QED  BY <1>1, <2>1, SeqDef
<1>4. Of(Dropped(s, p)) \subseteq Of(s) \cup {Hole}
  BY <1>1, <1>2 DEF Of
<1>5. \A f \in Of(s) : f.pane # p => f \in Of(Dropped(s, p))
  BY <1>1, <1>2 DEF Of
<1>6. ASSUME NEW K, Hole \notin K, Rising(s, K)
      PROVE  Rising(Dropped(s, p), K)
  BY <1>1, <1>2, <1>6 DEF Rising, Below
<1> QED  BY <1>3, <1>4, <1>5, <1>6

----------------------------------------------------------------------------
(* Types *)

LEMMA Typing ==
    ASSUME AttachTypeOK
    PROVE  /\ chunks \in Seq(Frames \cup {Hole}) /\ sending \in Seq(Frames \cup {Hole})
           /\ critCh \in Seq(Frames) /\ outCh \in Seq(Frames) /\ got \in Seq(Frames)
           /\ outPos \in [Panes -> Nat] /\ end \in [Panes -> Nat] /\ since \in [Panes -> Nat]
           /\ flush \in [Panes -> {"out", "published", "appended"}]
           /\ shed \subseteq Frames /\ jumped \subseteq Frames
           /\ pc \in AttachPCs /\ loop \in {"first", "second", "gone"}
           /\ conn \in {"open", "closed"} /\ todo \subseteq Panes
BY DEF AttachTypeOK

Exiting == \E p \in Panes : Exits(p)

\* The steps that move no frame.
Still ==
    \/ DrainWait \/ ReplayDone \/ KickLost \/ ConnDies \/ Shutdown \/ Exiting
    \/ \E p \in Panes : Publish(p)
    \/ UNCHANGED attachVars

LEMMA StillParts ==
    ASSUME Still
    PROVE  /\ chunks' = chunks /\ sending' = sending /\ critCh' = critCh /\ outCh' = outCh
           /\ got' = got /\ end' = end /\ flag' = flag /\ held' = held /\ lost' = lost
           /\ todo' = todo /\ since' = since /\ jumped' = jumped /\ shed' = shed
           /\ viewer' = viewer
BY DEF Still, DrainWait, ReplayDone, KickLost, ConnDies, Shutdown, Exiting, Exits, Publish,
       attachVars,
       paneVars, holdVars, handlerVars, queueVars, downVars, recordVars

LEMMA Steps ==
    ASSUME [AttachNext]_attachVars
    PROVE  \/ Still
           \/ BeginHold \/ SendState \/ SendReplay \/ TakeBatch \/ SkipReplayed \/ SendHeld
           \/ DropHold \/ FinishHold \/ FirstSelect \/ SecondSelect
           \/ \E p \in Panes : Snapshot(p) \/ HoldOutput(p) \/ Broadcast(p)
BY DEF AttachNext, HandlerStep, FlushStep, Still, Exiting

\* The replay of a pane.
LEMMA ReplaySent ==
    ASSUME NEW p \in Panes, NEW n \in Nat, NEW s,
           s = [i \in 1 .. n |-> Frame("replay", p, i - 1)]
    PROVE  /\ s \in Seq(Frames)
           /\ \A f \in Of(s) : f.kind = "replay" /\ f.pane = p /\ f.pos \in 0 .. (n - 1)
           /\ \A b \in 0 .. (n - 1) : Frame("replay", p, b) \in Of(s)
           /\ \A K : Rising(s, K)
<1>1. \A i \in 1 .. n : /\ s[i] \in Frames /\ s[i].kind = "replay" /\ s[i].pane = p
                        /\ s[i].pos = i - 1
  <2>1. ASSUME NEW i \in 1 .. n
        PROVE  s[i] = Frame("replay", p, i - 1) /\ i - 1 \in Nat
    OBVIOUS
  <2> QED  BY <2>1, NewFrame
<1>2. DOMAIN s = 1 .. n
  OBVIOUS
<1>3. s \in Seq(Frames)
  <2>1. s \in [1 .. n -> Frames]
    BY <1>1
  <2> QED  BY <2>1, SeqDef
<1>4. \A f \in Of(s) : f.kind = "replay" /\ f.pane = p /\ f.pos \in 0 .. (n - 1)
  BY <1>1, <1>2 DEF Of
<1>5. ASSUME NEW b \in 0 .. (n - 1)
      PROVE  Frame("replay", p, b) \in Of(s)
  <2>1. b + 1 \in 1 .. n /\ s[b + 1] = Frame("replay", p, b)
    OBVIOUS
  <2> QED  BY <1>2, <2>1 DEF Of
<1>6. \A K : Rising(s, K)
  BY <1>1, <1>2 DEF Rising, Below
<1> QED  BY <1>3, <1>4, <1>5, <1>6

\* What a select delivers.
LEMMA Delivered ==
    ASSUME AttachTypeOK, NEW f \in Frames, Deliver(f)
    PROVE  /\ got' \in Seq(Frames)
           /\ Of(got') \subseteq Of(got) \cup {f}
           /\ Of(got) \subseteq Of(got')
           /\ got # <<>> \/ f = State => got' = Append(got, f) /\ Of(got') = Of(got) \cup {f}
           /\ got = <<>> /\ f # State => got' = <<>>
<1>1. got \in Seq(Frames)
  BY Typing
<1>2. Append(got, f) \in Seq(Frames) /\ Of(Append(got, f)) = Of(got) \cup {f}
  BY <1>1, OfAppend
<1>3. <<>> \in Seq(Frames)
  OBVIOUS
<1>4. CASE got = <<>> /\ f # State
  BY <1>3, <1>4, OfEmpty DEF Deliver
<1>5. CASE got # <<>> \/ f = State
  BY <1>2, <1>5 DEF Deliver
<1> QED  BY <1>4, <1>5

\* A select moves the head of a queue to the client, or nothing.
Selects == FirstSelect \/ SecondSelect
LEMMA SelectKinds ==
    ASSUME Selects
    PROVE  /\ UNCHANGED <<viewer, paneVars, holdVars, handlerVars, downVars, shed, kicked, silent,
                          since, lapsed>>
           /\ \/ TakeCritical
              \/ TakeLive /\ loop = "second"
              \/ UNCHANGED <<queueVars, got, jumped>>
                 /\ loop' \in {"second", "gone"} /\ (loop' = "second" => critCh = <<>>)
BY DEF Selects, FirstSelect, SecondSelect, TakeDone, NothingUrgent

LEMMA InitTyped ==
    ASSUME AttachInit
    PROVE  AttachTypeOK
<1>1. <<>> \in Seq(Frames) /\ <<>> \in Seq(Frames \cup {Hole}) /\ Len(<<>>) = 0
  OBVIOUS
<1>2. \A p \in Panes : 0 <= MaxPos[p]
  BY AttachHoldAssumption
<1>3. 0 <= OutCap
  BY AttachHoldAssumption
<1>4. /\ outPos \in [Panes -> Nat] /\ \A p \in Panes : outPos[p] <= MaxPos[p]
      /\ flush \in [Panes -> {"out", "published", "appended"}]
      /\ end \in [Panes -> Nat] /\ since \in [Panes -> Nat]
  BY <1>2 DEF AttachInit
<1>5. /\ chunks \in Seq(Frames \cup {Hole}) /\ sending \in Seq(Frames \cup {Hole})
      /\ critCh \in Seq(Frames) /\ outCh \in Seq(Frames) /\ got \in Seq(Frames)
      /\ Len(outCh) <= OutCap
  BY <1>1, <1>3 DEF AttachInit
<1> QED  BY <1>4, <1>5 DEF AttachInit, AttachTypeOK, AttachPCs

LEMMA NextTyped ==
    ASSUME AttachTypeOK, Phases, Kinds, Reach, [AttachNext]_attachVars
    PROVE  AttachTypeOK'
<1> USE DEF AttachTypeOK
<1>0. \A p \in Panes : outPos[p] \in Nat /\ MaxPos[p] \in Nat
  BY AttachHoldAssumption
<1>r. \A p \in Panes : flush[p] # "out" => outPos[p] > 0
  BY DEF Reach
<1>1. CASE UNCHANGED attachVars
  BY <1>1 DEF attachVars, paneVars, holdVars, handlerVars, queueVars, downVars, recordVars
<1>2. CASE DrainWait \/ ReplayDone
  BY <1>2 DEF DrainWait, ReplayDone, AttachPCs, paneVars, holdVars, queueVars, downVars,
              recordVars
<1>3. CASE KickLost
  <2>1. kicked' \subseteq Panes \X {"blank", "lost"}
    BY <1>3 DEF KickLost
  <2> QED  BY <1>3, <2>1 DEF KickLost, AttachPCs, paneVars, holdVars, queueVars, downVars
<1>4. CASE ConnDies \/ Shutdown \/ Exiting
  BY <1>4 DEF ConnDies, Shutdown, Exiting, Exits, paneVars, holdVars, handlerVars, queueVars,
              recordVars
<1>5. ASSUME NEW p \in Panes, Publish(p)
      PROVE  AttachTypeOK'
  <2>1. /\ outPos' \in [Panes -> Nat]
        /\ \A q \in Panes : outPos'[q] <= MaxPos[q]
    BY <1>0, <1>5 DEF Publish
  <2>2. flush' \in [Panes -> {"out", "published", "appended"}]
    BY <1>5 DEF Publish
  <2> QED  BY <1>5, <2>1, <2>2 DEF Publish, holdVars, handlerVars, queueVars, downVars,
                                   recordVars
<1>6. ASSUME NEW p \in Panes, HoldOutput(p)
      PROVE  AttachTypeOK'
  <2>1. flush' \in [Panes -> {"out", "published", "appended"}] /\ flush[p] = "published"
    BY <1>6 DEF HoldOutput
  <2>2. lost' \subseteq Panes
    BY <1>6 DEF HoldOutput
  <2>3. Frame("held", p, outPos[p] - 1) \in Frames \cup {Hole}
    <3>1. outPos[p] - 1 \in Nat
      <4>1. outPos[p] \in Nat /\ outPos[p] > 0
        BY <1>0, <1>r, <2>1
      <4> QED  BY <4>1
    <3> QED  BY <3>1, NewFrames
  <2>4. chunks' \in Seq(Frames \cup {Hole})
    <3>1. Dropped(chunks, p) \in Seq(Frames \cup {Hole})
      BY HoleDrops
    <3>2. Append(chunks, Frame("held", p, outPos[p] - 1)) \in Seq(Frames \cup {Hole})
      BY <2>3
    <3> QED  BY <1>6, <3>1, <3>2 DEF HoldOutput
  <2> QED  BY <1>6, <2>1, <2>2, <2>4 DEF HoldOutput, handlerVars, queueVars, downVars,
                                         recordVars
<1>7. ASSUME NEW p \in Panes, Broadcast(p)
      PROVE  AttachTypeOK'
  <2>1. flush' \in [Panes -> {"out", "published", "appended"}] /\ flush[p] = "appended"
    BY <1>7 DEF Broadcast
  <2> DEFINE live == Frame("live", p, outPos[p] - 1)
  <2>2. live \in Frames
    <3>1. outPos[p] - 1 \in Nat
      <4>1. outPos[p] \in Nat /\ outPos[p] > 0
        BY <1>0, <1>r, <2>1
      <4> QED  BY <4>1
    <3> QED  BY <3>1, NewFrames
  <2>3. \/ outCh' = outCh /\ shed' = shed
        \/ Len(outCh) < OutCap /\ outCh' = Append(outCh, live) /\ shed' = shed
        \/ outCh' = outCh /\ shed' = shed \cup {live}
    BY <1>7 DEF Broadcast, RoomForLive
  <2> HIDE DEF live
  <2>4. outCh' \in Seq(Frames) /\ Len(outCh') <= OutCap /\ shed' \subseteq Frames
    <3>1. CASE outCh' = outCh
      BY <2>2, <2>3, <3>1
    <3>2. CASE Len(outCh) < OutCap /\ outCh' = Append(outCh, live) /\ shed' = shed
      <4>1. outCh' \in Seq(Frames) /\ Len(outCh') = Len(outCh) + 1 /\ Len(outCh) \in Nat
        BY <2>2, <3>2, AppendProperties
      <4>2. OutCap \in Nat
        BY AttachHoldAssumption
      <4> QED  BY <3>2, <4>1, <4>2
    <3> QED  BY <2>3, <3>1, <3>2
  <2> QED  BY <1>7, <2>1, <2>4 DEF Broadcast, holdVars, handlerVars, downVars
<1>8. CASE BeginHold
  <2>1. <<>> \in Seq(Frames \cup {Hole})
    OBVIOUS
  <2> QED  BY <1>8, <2>1 DEF BeginHold, AttachPCs, paneVars, queueVars, downVars
<1>9. CASE SendState
  <2>1. critCh' \in Seq(Frames)
    BY <1>9, FrameParts, OfAppend DEF SendState
  <2> QED  BY <1>9, <2>1 DEF SendState, AttachPCs, paneVars, holdVars, downVars, recordVars
<1>10. ASSUME NEW p \in Panes, Snapshot(p)
       PROVE  AttachTypeOK'
  <2>1. end' \in [Panes -> Nat] /\ todo' \subseteq Panes /\ pc' \in AttachPCs
    BY <1>10 DEF Snapshot, AttachPCs
  <2>2. sending' \in Seq(Frames \cup {Hole})
    <3>1. CASE sending' = sending
      BY <3>1
    <3>2. CASE sending' = [i \in 1 .. outPos[p] |-> Frame("replay", p, i - 1)]
      <4>1. sending' \in Seq(Frames)
        BY <1>0, <3>2, ReplaySent
      <4> QED  BY <4>1
    <3> QED  BY <1>10, <3>1, <3>2 DEF Snapshot
  <2>3. kicked' \subseteq Panes \X {"blank", "lost"}
    BY <1>10 DEF Snapshot
  <2> QED  BY <1>10, <2>1, <2>2, <2>3 DEF Snapshot, paneVars, holdVars, queueVars, downVars
<1>11. CASE SendReplay \/ SendHeld \/ SkipReplayed
  <2>t. UNCHANGED <<viewer, paneVars, holdVars, todo, end, kicks, outCh, loop, downVars,
                    got, recordVars>>
    BY <1>11 DEF SendReplay, SendHeld, SkipReplayed, queueVars
  <2>1. critCh' \in Seq(Frames) /\ sending' \in Seq(Frames \cup {Hole}) /\ pc' \in AttachPCs
    <3>1. CASE SkipReplayed
      BY <3>1, OfTail DEF SkipReplayed, queueVars
    <3>2. CASE SendReplay /\ critCh' = critCh /\ sending' = <<>>
      BY <3>2 DEF SendReplay, AttachPCs
    <3>3. ASSUME PutCritical(Head(sending)), sending' = Tail(sending), SendReplay \/ SendHeld
          PROVE  critCh' \in Seq(Frames) /\ sending' \in Seq(Frames \cup {Hole}) /\ pc' \in AttachPCs
      <4>1. sending # <<>> /\ Head(sending) # Hole
        <5>1. CASE SendReplay
          <6>1. pc = "sending" /\ sending # <<>>
            BY <5>1 DEF SendReplay, Phases
          <6>2. Head(sending) \in Of(sending)
            BY <6>1, OfTail
          <6> QED  BY <6>1, <6>2, FrameParts DEF Kinds
        <5>2. CASE SendHeld
          BY <5>2 DEF SendHeld, Due
        <5> QED  BY <3>3, <5>1, <5>2
      <4>2. Head(sending) \in Frames /\ sending' \in Seq(Frames \cup {Hole})
        BY <3>3, <4>1, OfTail
      <4>3. critCh' \in Seq(Frames)
        BY <3>3, <4>2, OfAppend DEF PutCritical
      <4>4. pc' \in AttachPCs
        BY <3>3 DEF SendReplay, SendHeld, AttachPCs
      <4> QED  BY <4>2, <4>3, <4>4
    <3> QED  BY <1>11, <3>1, <3>2, <3>3 DEF SendReplay, SendHeld
  <2> QED  BY <2>t, <2>1 DEF paneVars, holdVars, downVars, recordVars
<1>12. CASE TakeBatch
  <2>1. <<>> \in Seq(Frames \cup {Hole})
    OBVIOUS
  <2>2. pc' \in AttachPCs
    BY <1>12 DEF TakeBatch, AttachPCs
  <2> QED  BY <1>12, <2>1, <2>2 DEF TakeBatch, paneVars, queueVars, downVars, recordVars
<1>13. CASE DropHold \/ FinishHold
  <2>1. <<>> \in Seq(Frames \cup {Hole})
    OBVIOUS
  <2>2. pc' \in AttachPCs
    BY <1>13 DEF DropHold, FinishHold, AttachPCs
  <2>3. /\ flag' \in BOOLEAN /\ held' \in BOOLEAN /\ chunks' \in Seq(Frames \cup {Hole})
        /\ lost' \subseteq Panes /\ sending' \in Seq(Frames \cup {Hole}) /\ kicks' \subseteq Panes
    BY <1>13, <2>1 DEF DropHold, FinishHold, EndHold, holdVars
  <2> QED  BY <1>13, <2>2, <2>3 DEF DropHold, FinishHold, paneVars, queueVars, downVars,
                                    recordVars
<1>14. CASE Selects
  <2>t. UNCHANGED <<viewer, paneVars, holdVars, handlerVars, downVars, shed, kicked, silent, since,
                    lapsed>>
    BY <1>14, SelectKinds
  <2>1. /\ critCh' \in Seq(Frames) /\ outCh' \in Seq(Frames) /\ Len(outCh') <= OutCap
        /\ loop' \in {"first", "second", "gone"} /\ got' \in Seq(Frames)
        /\ jumped' \subseteq Frames
    <3>1. CASE TakeCritical
      BY <3>1, OfTail, Delivered DEF TakeCritical
    <3>2. CASE TakeLive
      <4>1. outCh # <<>> /\ Head(outCh) \in Frames /\ outCh' \in Seq(Frames)
        BY <3>2, OfTail DEF TakeLive
      <4>2. Len(outCh') <= OutCap
        <5>1. Len(Tail(outCh)) = Len(outCh) - 1 /\ Len(outCh) \in Nat
          BY <4>1, TailParts
        <5>2. OutCap \in Nat
          BY AttachHoldAssumption
        <5> QED  BY <3>2, <5>1, <5>2 DEF TakeLive
      <4>3. got' \in Seq(Frames)
        BY <3>2, <4>1, Delivered DEF TakeLive
      <4> QED  BY <3>2, <4>1, <4>2, <4>3 DEF TakeLive
    <3>3. CASE UNCHANGED <<queueVars, got, jumped>> /\ loop' \in {"second", "gone"}
      BY <3>3 DEF queueVars
    <3> QED  BY <1>14, <3>1, <3>2, <3>3, SelectKinds
  <2> QED  BY <2>t, <2>1 DEF paneVars, holdVars, handlerVars, downVars
<1> QED
  BY <1>1, <1>2, <1>3, <1>4, <1>5, <1>6, <1>7, <1>8, <1>9, <1>10, <1>11, <1>12, <1>13, <1>14,
     Steps DEF Still, Selects

----------------------------------------------------------------------------
(* Where the handler is *)

LEMMA InitPhases ==
    ASSUME AttachInit
    PROVE  Phases
BY DEF AttachInit, Phases, Early, Replaying, Over

LEMMA NextPhases ==
    ASSUME AttachTypeOK, Phases, Kinds, [AttachNext]_attachVars
    PROVE  Phases'
<1> USE DEF Early, Replaying, Over
<1>b. flag \in BOOLEAN /\ held \in BOOLEAN
  BY DEF AttachTypeOK
<1>1. CASE UNCHANGED <<holdVars, handlerVars, got, critCh>>
  BY <1>1 DEF Phases, holdVars, handlerVars
<1>2. CASE DrainWait \/ ReplayDone \/ KickLost
  BY <1>2 DEF DrainWait, ReplayDone, KickLost, Phases, holdVars, queueVars
<1>3. CASE ConnDies \/ Shutdown \/ Exiting \/ UNCHANGED attachVars
  BY <1>1, <1>3 DEF ConnDies, Shutdown, Exiting, Exits, attachVars, queueVars
<1>4. ASSUME NEW p \in Panes, Publish(p) \/ Broadcast(p)
      PROVE  Phases'
  BY <1>1, <1>4 DEF Publish, Broadcast, queueVars
<1>5. ASSUME NEW p \in Panes, HoldOutput(p)
      PROVE  Phases'
  <2>1. /\ UNCHANGED <<flag, held, handlerVars, queueVars, got>>
        /\ held # TRUE => UNCHANGED <<chunks, lost>>
    BY <1>5, <1>b DEF HoldOutput
  <2> QED  BY <2>1, <1>b DEF Phases, handlerVars, queueVars
<1>6. CASE BeginHold
  BY <1>6 DEF BeginHold, Phases, queueVars
<1>7. CASE SendState
  BY <1>7 DEF SendState, Phases, holdVars
<1>8. ASSUME NEW p \in Panes, Snapshot(p)
      PROVE  Phases'
  <2>t. /\ UNCHANGED <<holdVars, kicks, queueVars, got>> /\ pc = "replay" /\ p \in todo
        /\ todo' = todo \ {p} /\ end \in [Panes -> Nat] /\ todo \subseteq Panes
    BY <1>8 DEF Snapshot, AttachTypeOK
  <2>1. CASE UNCHANGED <<end, sending, pc>>
    BY <2>t, <2>1 DEF Phases, holdVars, queueVars
  <2>2. CASE /\ end' = [end EXCEPT ![p] = outPos[p]] /\ pc' = "sending" /\ outPos[p] # 0
             /\ sending' = [i \in 1 .. outPos[p] |-> Frame("replay", p, i - 1)]
    <3>1. outPos[p] \in Nat
      BY DEF AttachTypeOK
    <3>2. sending' \in Seq(Frames) /\ Frame("replay", p, 0) \in Of(sending')
      <4>1. 0 \in 0 .. (outPos[p] - 1)
        BY <2>2, <3>1
      <4> QED  BY <2>2, <3>1, <4>1, ReplaySent
    <3>3. sending' # <<>>
      BY <3>2, OfTyped
    <3>4. \A q \in todo' : end'[q] = end[q]
      BY <2>t, <2>2
    <3> QED  BY <2>t, <2>2, <3>3, <3>4 DEF Phases, holdVars, queueVars
  <2> QED  BY <1>8, <2>1, <2>2 DEF Snapshot
<1>9. CASE SendReplay
  BY <1>9 DEF SendReplay, PutCritical, Phases, holdVars
<1>10. CASE TakeBatch
  BY <1>10 DEF TakeBatch, Phases, queueVars
<1>11. CASE SkipReplayed \/ SendHeld
  BY <1>11 DEF SkipReplayed, SendHeld, PutCritical, Phases, holdVars, queueVars
<1>12. CASE DropHold
  BY <1>12 DEF DropHold, EndHold, Phases, queueVars
<1>13. CASE FinishHold
  BY <1>13, <1>b DEF FinishHold, EndHold, NothingHeld, Phases, holdVars, queueVars
<1>14. CASE Selects
  <2>t. UNCHANGED <<holdVars, handlerVars>>
    BY <1>14, SelectKinds
  <2>1. CASE TakeCritical
    <3>1. pc \notin Early
      BY <2>1 DEF TakeCritical, Phases
    <3> QED  BY <2>t, <3>1 DEF Phases, holdVars, handlerVars
  <2>2. CASE TakeLive
    <3>1. outCh \in Seq(Frames) /\ outCh # <<>>
      BY <2>2 DEF TakeLive, AttachTypeOK
    <3>2. Head(outCh) \in Of(outCh)
      BY <3>1, OfTail
    <3>3. Head(outCh) # State
      BY <3>2, FrameParts DEF Kinds
    <3>4. got = <<>> => got' = <<>>
      BY <2>2, <3>3 DEF TakeLive, Deliver
    <3>5. critCh' = critCh
      BY <2>2 DEF TakeLive
    <3> QED  BY <2>t, <3>4, <3>5 DEF Phases, holdVars, handlerVars
  <2>3. CASE UNCHANGED <<queueVars, got, jumped>>
    BY <1>1, <2>t, <2>3 DEF queueVars
  <2> QED  BY <1>14, <2>1, <2>2, <2>3, SelectKinds
<1> QED
  BY <1>2, <1>3, <1>4, <1>5, <1>6, <1>7, <1>8, <1>9, <1>10, <1>11, <1>12, <1>13, <1>14,
     Steps DEF Still, Selects

----------------------------------------------------------------------------
(* What may be where *)

LEMMA LinesShrink ==
    ASSUME AttachTypeOK, NEW p \in Panes, NEW n \in Nat, end[p] = 0,
           end' = [end EXCEPT ![p] = n]
    PROVE  Lines(end') \subseteq Lines(end)
<1>1. end \in [Panes -> Nat]
  BY DEF AttachTypeOK
<1>2. \A q \in Panes : end[q] <= end'[q] /\ end[q] \in Nat /\ end'[q] \in Nat
  BY <1>1
<1>3. ASSUME NEW f \in Lines(end')
      PROVE  f \in Lines(end)
  <2>1. CASE f.kind \in {"state", "replay"}
    BY <1>3, <2>1 DEF Lines
  <2>2. CASE f.kind = "held" /\ f.pos >= end'[f.pane]
    <3>1. f \in Frames /\ f.pane \in Panes /\ f.pos \in Nat
      BY <1>3, <2>2, FrameParts DEF Lines
    <3> QED  BY <1>2, <2>2, <3>1 DEF Lines
  <2> QED  BY <1>3, <2>1, <2>2 DEF Lines
<1> QED  BY <1>3

LEMMA HoldParts ==
    ASSUME AttachTypeOK, Phases, Reach, NEW p \in Panes, HoldOutput(p), NEW f,
           f = Frame("held", p, outPos[p] - 1)
    PROVE  /\ UNCHANGED <<viewer, outPos, flag, held, handlerVars, queueVars, loop, downVars,
                          got, recordVars>>
           /\ flush[p] = "published" /\ flush' = [flush EXCEPT ![p] = "appended"]
           /\ f \in Frames /\ f.kind = "held" /\ f.pane = p /\ f.pos = outPos[p] - 1
           /\ \/ UNCHANGED <<chunks, lost>> /\ (flag # TRUE \/ p \in lost)
              \/ /\ chunks' = Append(chunks, f) /\ Of(chunks') = Of(chunks) \cup {f}
                 /\ lost' = lost
              \/ chunks' = Dropped(chunks, p) /\ lost' = lost \cup {p}
<1>1. /\ UNCHANGED <<viewer, outPos, flag, held, handlerVars, queueVars, loop, downVars,
                     got, recordVars>>
      /\ flush[p] = "published" /\ flush' = [flush EXCEPT ![p] = "appended"]
  BY DEF HoldOutput
<1>2. f \in Frames /\ f.kind = "held" /\ f.pane = p /\ f.pos = outPos[p] - 1
  <2>1. outPos[p] \in Nat /\ outPos[p] > 0
    <3>1. outPos[p] \in Nat
      BY DEF AttachTypeOK
    <3>2. flush[p] # "out" => outPos[p] > 0
      BY DEF Reach
    <3> QED  BY <1>1, <3>1, <3>2
  <2>2. outPos[p] - 1 \in Nat
    BY <2>1
  <2> QED  BY <2>2, NewFrames, FrameFields
<1>3. chunks \in Seq(Frames \cup {Hole}) /\ f \in Frames \cup {Hole}
  BY <1>2 DEF AttachTypeOK
<1>4. Of(Append(chunks, f)) = Of(chunks) \cup {f}
  BY <1>3, OfAppend
<1>5. held = flag /\ flag \in BOOLEAN
  BY DEF Phases, AttachTypeOK
<1>6. \/ UNCHANGED <<chunks, lost>> /\ (flag # TRUE \/ p \in lost)
      \/ chunks' = Append(chunks, f) /\ lost' = lost
      \/ chunks' = Dropped(chunks, p) /\ lost' = lost \cup {p}
  BY <1>5 DEF HoldOutput
<1> QED  BY <1>1, <1>2, <1>4, <1>6

LEMMA BroadcastParts ==
    ASSUME AttachTypeOK, Reach, NEW p \in Panes, Broadcast(p), NEW f,
           f = Frame("live", p, outPos[p] - 1)
    PROVE  /\ UNCHANGED <<viewer, outPos, holdVars, handlerVars, critCh, loop, downVars, got,
                          jumped, kicked, silent, since, lapsed>>
           /\ flush[p] = "appended" /\ flush' = [flush EXCEPT ![p] = "out"]
           /\ f \in Frames /\ f.kind = "live" /\ f.pane = p /\ f.pos = outPos[p] - 1
           /\ \/ UNCHANGED <<outCh, shed>> /\ (conn # "open" \/ flag = TRUE)
              \/ /\ outCh' = Append(outCh, f) /\ Of(outCh') = Of(outCh) \cup {f}
                 /\ shed' = shed /\ flag # TRUE
              \/ outCh' = outCh /\ shed' = shed \cup {f}
<1>1. /\ UNCHANGED <<viewer, outPos, holdVars, handlerVars, critCh, loop, downVars, got,
                     jumped, kicked, silent, since, lapsed>>
      /\ flush[p] = "appended" /\ flush' = [flush EXCEPT ![p] = "out"]
  BY DEF Broadcast
<1>2. f \in Frames /\ f.kind = "live" /\ f.pane = p /\ f.pos = outPos[p] - 1
  <2>1. outPos[p] \in Nat /\ outPos[p] > 0
    <3>1. outPos[p] \in Nat
      BY DEF AttachTypeOK
    <3>2. flush[p] # "out" => outPos[p] > 0
      BY DEF Reach
    <3> QED  BY <1>1, <3>1, <3>2
  <2>2. outPos[p] - 1 \in Nat
    BY <2>1
  <2> QED  BY <2>2, NewFrames, FrameFields
<1>3. Of(Append(outCh, f)) = Of(outCh) \cup {f}
  <2>1. outCh \in Seq(Frames)
    BY DEF AttachTypeOK
  <2> QED  BY <1>2, <2>1, OfAppend
<1>4. \/ UNCHANGED <<outCh, shed>> /\ (conn # "open" \/ flag = TRUE)
      \/ outCh' = Append(outCh, f) /\ shed' = shed /\ flag # TRUE
      \/ outCh' = outCh /\ shed' = shed \cup {f}
  <2>1. flag \in BOOLEAN
    BY DEF AttachTypeOK
  <2> QED  BY <2>1 DEF Broadcast, Wanted
<1> QED  BY <1>1, <1>2, <1>3, <1>4

\* A frame that goes from the handler's hand to the queue.
LEMMA SentParts ==
    ASSUME AttachTypeOK, Phases, Kinds, SendReplay \/ SendHeld
    PROVE  /\ UNCHANGED <<viewer, paneVars, holdVars, todo, end, kicks, outCh, loop, downVars,
                          got, recordVars>>
           /\ pc \in {"sending", "held"} /\ pc' \in {"sending", "replay", "held"}
           /\ pc = "held" <=> pc' = "held"
           /\ \/ critCh' = critCh /\ sending' = <<>> /\ (conn # "open" \/ stopping = TRUE)
              \/ /\ sending # <<>> /\ Head(sending) \in Lines(end) /\ Head(sending) \in Of(sending)
                 /\ Head(sending).pane \notin todo
                 /\ Head(sending).kind = IF pc = "held" THEN "held" ELSE "replay"
                 /\ critCh' = Append(critCh, Head(sending)) /\ sending' = Tail(sending)
<1>1. /\ UNCHANGED <<viewer, paneVars, holdVars, todo, end, kicks, outCh, loop, downVars,
                     got, recordVars>>
      /\ pc \in {"sending", "held"} /\ pc' \in {"sending", "replay", "held"}
      /\ pc = "held" <=> pc' = "held"
  BY DEF SendReplay, SendHeld
<1>2. sending \in Seq(Frames \cup {Hole}) /\ stopping \in BOOLEAN /\ todo \subseteq Panes
      /\ end \in [Panes -> Nat]
  BY DEF AttachTypeOK
<1>3. CASE SendReplay
  <2>1. pc = "sending" /\ sending # <<>>
    BY <1>3 DEF SendReplay, Phases
  <2>2. Head(sending) \in Of(sending) /\ Head(sending) \in Frames \cup {Hole}
    BY <1>2, <2>1, OfTail
  <2>3. Head(sending).kind = "replay" /\ Head(sending).pane \notin todo
    BY <2>1, <2>2 DEF Kinds
  <2>4. Head(sending) \in Lines(end)
    BY <2>2, <2>3, FrameParts DEF Lines
  <2>5. \/ critCh' = critCh /\ sending' = <<>> /\ (conn # "open" \/ stopping = TRUE)
        \/ critCh' = Append(critCh, Head(sending)) /\ sending' = Tail(sending)
    BY <1>2, <1>3 DEF SendReplay, PutCritical
  <2> QED  BY <1>1, <2>1, <2>2, <2>3, <2>4, <2>5
<1>4. CASE SendHeld
  <2>1. /\ pc = "held" /\ sending # <<>> /\ Head(sending) # Hole
        /\ ~(Head(sending).pos < end[Head(sending).pane])
        /\ critCh' = Append(critCh, Head(sending)) /\ sending' = Tail(sending)
    BY <1>4 DEF SendHeld, PutCritical, Due, Replayed
  <2>2. Head(sending) \in Of(sending) /\ Head(sending) \in Frames
    BY <1>2, <2>1, OfTail
  <2>3. Head(sending).kind = "held"
    <3>1. Head(sending).kind \in {"held", "hole"}
      BY <2>1, <2>2 DEF Kinds
    <3> QED  BY <2>2, <3>1, FrameParts
  <2>4. Head(sending).pane \in Panes /\ Head(sending).pos \in Nat
    BY <2>2, <2>3, FrameParts
  <2>5. Head(sending) \in Lines(end)
    BY <1>2, <2>1, <2>2, <2>3, <2>4 DEF Lines
  <2>6. todo = {}
    BY <2>1 DEF Phases, Early, Replaying
  <2> QED  BY <1>1, <2>1, <2>2, <2>3, <2>5, <2>6
<1> QED  BY <1>3, <1>4

LEMMA CriticalParts ==
    ASSUME AttachTypeOK, TakeCritical, NEW f, f = Head(critCh)
    PROVE  /\ critCh # <<>> /\ f \in Frames /\ critCh' = Tail(critCh) /\ outCh' = outCh
           /\ Of(critCh) = {f} \cup Of(critCh')
           /\ jumped' = jumped /\ loop' = "first"
           /\ got' \in Seq(Frames) /\ Of(got) \subseteq Of(got') /\ Of(got') \subseteq Of(got) \cup {f}
           /\ got # <<>> \/ f = State => got' = Append(got, f) /\ Of(got') = Of(got) \cup {f}
           /\ got = <<>> /\ f # State => got' = <<>>
<1>1. /\ critCh # <<>> /\ critCh' = Tail(critCh) /\ outCh' = outCh /\ Deliver(f)
      /\ jumped' = jumped /\ loop' = "first"
  BY DEF TakeCritical
<1>2. critCh \in Seq(Frames)
  BY DEF AttachTypeOK
<1>3. f \in Frames /\ Of(critCh) = {f} \cup Of(critCh')
  BY <1>1, <1>2, OfTail
<1> QED  BY <1>1, <1>3, Delivered

LEMMA LiveParts ==
    ASSUME AttachTypeOK, Kinds, TakeLive, NEW f, f = Head(outCh)
    PROVE  /\ outCh # <<>> /\ f \in Frames /\ f.kind = "live" /\ f # State
           /\ outCh' = Tail(outCh) /\ critCh' = critCh
           /\ Of(outCh) = {f} \cup Of(outCh')
           /\ jumped' = IF critCh = <<>> THEN jumped ELSE jumped \cup {f}
           /\ loop' = "first"
           /\ got' \in Seq(Frames) /\ Of(got) \subseteq Of(got') /\ Of(got') \subseteq Of(got) \cup {f}
           /\ got # <<>> => got' = Append(got, f) /\ Of(got') = Of(got) \cup {f}
           /\ got = <<>> => got' = <<>>
<1>1. /\ outCh # <<>> /\ outCh' = Tail(outCh) /\ critCh' = critCh /\ Deliver(f)
      /\ jumped' = IF critCh = <<>> THEN jumped ELSE jumped \cup {f}
      /\ loop' = "first"
  BY DEF TakeLive
<1>2. outCh \in Seq(Frames)
  BY DEF AttachTypeOK
<1>3. f \in Frames /\ Of(outCh) = {f} \cup Of(outCh')
  BY <1>1, <1>2, OfTail
<1>4. f.kind = "live"
  BY <1>3 DEF Kinds
<1>5. f # State
  BY <1>4, FrameParts
<1> QED  BY <1>1, <1>3, <1>4, <1>5, Delivered

LEMMA InitKinds ==
    ASSUME AttachInit
    PROVE  Kinds
BY OfEmpty DEF AttachInit, Kinds

\* Fewer frames of the same kinds.
LEMMA KindsKept ==
    ASSUME AttachTypeOK, Kinds, end' = end, todo' = todo,
           Of(chunks') \subseteq Of(chunks) \cup {Hole}, Of(sending') \subseteq Of(sending),
           Of(critCh') \subseteq Of(critCh), Of(outCh') \subseteq Of(outCh),
           Of(got') \subseteq Of(got) \cup Of(critCh) \cup Of(outCh),
           sending' = <<>> \/ (pc = "sending" <=> pc' = "sending"),
           pc \in Releasing \cup Over => pc' \in Releasing \cup Over
    PROVE  Kinds'
<1>1. \A f \in Of(chunks') : f.kind \in {"held", "hole"}
  BY FrameParts DEF Kinds
<1>2. \A f \in Of(sending') :
          IF pc' = "sending" THEN f.kind = "replay" /\ f.pane \notin todo'
          ELSE f.kind \in {"held", "hole"}
  BY OfEmpty DEF Kinds
<1>3. \A f \in Of(outCh') : f.kind = "live"
  BY DEF Kinds
<1>4. \A f \in Of(critCh') : f \in Lines(end')
  BY DEF Kinds
<1>5. \A f \in Of(got') : f \in Lines(end') \cup Lives
  <2>1. \A f \in Of(outCh) : f \in Lives
    <3>1. Of(outCh) \subseteq Frames
      BY OfTyped DEF AttachTypeOK
    <3> QED  BY <3>1 DEF Kinds, Lives
  <2> QED  BY <2>1 DEF Kinds
<1>6. \A f \in Of(got') \cup Of(critCh') :
          /\ f.pane \in todo' => f.kind = "live"
          /\ f.kind = "held" => pc' \in Releasing \cup Over
  <2>1. ASSUME NEW f \in Of(got') \cup Of(critCh')
        PROVE  \/ f \in Of(got) \cup Of(critCh)
               \/ f.kind = "live"
    BY DEF Kinds
  <2> QED  BY <2>1 DEF Kinds
<1> QED  BY <1>1, <1>2, <1>3, <1>4, <1>5, <1>6 DEF Kinds

LEMMA NextKinds ==
    ASSUME AttachTypeOK, Phases, Kinds, Reach, [AttachNext]_attachVars
    PROVE  Kinds'
<1> USE DEF Early, Replaying, Releasing, Over
<1>1. CASE Still
  <2>1. /\ chunks' = chunks /\ sending' = sending /\ critCh' = critCh /\ outCh' = outCh
        /\ got' = got /\ end' = end /\ todo' = todo
    BY <1>1, StillParts
  <2>2. /\ pc \in Releasing \cup Over => pc' \in Releasing \cup Over
        /\ sending = <<>> \/ (pc = "sending" <=> pc' = "sending")
    BY <1>1 DEF Still, DrainWait, ReplayDone, KickLost, ConnDies, Shutdown, Exiting, Exits, Publish,
                handlerVars, attachVars, Phases
  <2> QED  BY <2>1, <2>2, KindsKept
<1>2. CASE BeginHold \/ DropHold \/ FinishHold
  <2>1. /\ chunks' = <<>> \/ chunks' = chunks
        /\ sending' = sending \/ sending' = <<>>
        /\ critCh' = critCh /\ outCh' = outCh /\ got' = got /\ end' = end /\ todo' = todo
        /\ sending' = <<>> \/ (pc = "sending" <=> pc' = "sending")
        /\ pc \in Releasing \cup Over => pc' \in Releasing \cup Over
    BY <1>2 DEF BeginHold, DropHold, FinishHold, holdVars, queueVars
  <2> QED  BY <2>1, KindsKept, OfEmpty
<1>3. CASE SendState
  <2>1. UNCHANGED <<chunks, sending, outCh, got, end, todo>> /\ pc = "state" /\ pc' = "replay"
    BY <1>3 DEF SendState, holdVars
  <2>2. critCh' = critCh \/ critCh' = Append(critCh, State)
    BY <1>3 DEF SendState
  <2>3. Of(critCh') \subseteq {State}
    <3>1. critCh = <<>>
      BY <2>1 DEF Phases
    <3>2. Of(Append(critCh, State)) = Of(critCh) \cup {State}
      BY FrameParts, OfAppend DEF AttachTypeOK
    <3> QED  BY <2>2, <3>1, <3>2, OfEmpty
  <2>4. State \in Lines(end) /\ State.pane \notin todo /\ State.kind = "state"
    BY FrameParts DEF Lines, AttachTypeOK
  <2>5. got' = <<>>
    BY <2>1 DEF Phases
  <2>6. pc' # "sending" /\ pc # "sending"
    BY <2>1
  <2> QED  BY <2>1, <2>3, <2>4, <2>5, <2>6, OfEmpty DEF Kinds
<1>4. ASSUME NEW p \in Panes, Snapshot(p)
      PROVE  Kinds'
  <2>t. /\ UNCHANGED <<chunks, critCh, outCh, got>> /\ pc = "replay" /\ p \in todo
        /\ todo' = todo \ {p}
    BY <1>4 DEF Snapshot, holdVars, queueVars
  <2>1. CASE UNCHANGED <<end, sending, pc>>
    BY <2>t, <2>1 DEF Kinds
  <2>2. CASE /\ end' = [end EXCEPT ![p] = outPos[p]] /\ pc' = "sending"
             /\ sending' = [i \in 1 .. outPos[p] |-> Frame("replay", p, i - 1)]
    <3>1. outPos[p] \in Nat
      BY DEF AttachTypeOK
    <3>2. \A f \in Of(sending') : f.kind = "replay" /\ f.pane = p
      BY <2>2, <3>1, ReplaySent
    <3>3. \A f \in Of(got) \cup Of(critCh) : f.kind # "held"
      BY <2>t DEF Kinds
    <3>4. \A f \in Lines(end) : f.kind # "held" => f \in Lines(end')
      BY DEF Lines
    <3> QED  BY <2>t, <2>2, <3>2, <3>3, <3>4 DEF Kinds
  <2> QED  BY <1>4, <2>1, <2>2 DEF Snapshot
<1>5. CASE SendReplay \/ SendHeld
  <2>t. /\ UNCHANGED <<chunks, outCh, got, end, todo>>
        /\ pc \in {"sending", "held"} /\ pc' \in {"sending", "replay", "held"}
        /\ pc = "held" <=> pc' = "held"
    BY <1>5, SentParts DEF holdVars
  <2>1. CASE critCh' = critCh /\ sending' = <<>>
    BY <2>t, <2>1, KindsKept, OfEmpty
  <2>2. CASE /\ sending # <<>> /\ Head(sending) \in Lines(end) /\ Head(sending) \in Of(sending)
             /\ Head(sending).pane \notin todo
             /\ Head(sending).kind = IF pc = "held" THEN "held" ELSE "replay"
             /\ critCh' = Append(critCh, Head(sending)) /\ sending' = Tail(sending)
    <3>1. Of(sending') \subseteq Of(sending)
      BY <2>2, OfTail DEF AttachTypeOK
    <3>2. Of(critCh') = Of(critCh) \cup {Head(sending)}
      <4>1. critCh \in Seq(Frames) /\ Head(sending) \in Frames
        BY <2>2 DEF AttachTypeOK, Lines
      <4> QED  BY <2>2, <4>1, OfAppend
    <3>3. sending' = <<>> \/ (pc = "sending" <=> pc' = "sending")
      BY <1>5 DEF SendReplay, SendHeld
    <3>4. \A f \in Of(sending') :
              IF pc' = "sending" THEN f.kind = "replay" /\ f.pane \notin todo'
              ELSE f.kind \in {"held", "hole"}
      BY <2>t, <3>1, <3>3, OfEmpty DEF Kinds
    <3>5. \A f \in Of(critCh') : /\ f \in Lines(end')
                                 /\ f.pane \in todo' => f.kind = "live"
                                 /\ f.kind = "held" => pc' \in Releasing \cup Over
      BY <2>t, <2>2, <3>2 DEF Kinds
    <3> QED  BY <2>t, <3>4, <3>5 DEF Kinds
  <2> QED  BY <1>5, <2>1, <2>2, SentParts
<1>6. CASE TakeBatch
  <2>1. /\ chunks' = <<>> /\ sending' = chunks /\ pc = "take" /\ pc' \in {"held", "finish"}
        /\ UNCHANGED <<critCh, outCh, got, end, todo>>
    BY <1>6 DEF TakeBatch, queueVars
  <2> QED  BY <2>1, OfEmpty DEF Kinds
<1>7. CASE SkipReplayed
  <2>1. /\ UNCHANGED <<chunks, critCh, outCh, got, end, todo, pc>> /\ sending' = Tail(sending)
        /\ sending # <<>>
    BY <1>7 DEF SkipReplayed, holdVars, queueVars
  <2>2. Of(sending') \subseteq Of(sending)
    BY <2>1, OfTail DEF AttachTypeOK
  <2> QED  BY <2>1, <2>2, KindsKept
<1>8. ASSUME NEW p \in Panes, HoldOutput(p)
      PROVE  Kinds'
  <2>1. PICK f : f = Frame("held", p, outPos[p] - 1)
    OBVIOUS
  <2>t. UNCHANGED <<todo, end, sending, pc, critCh, outCh, got>>
    BY <1>8 DEF HoldOutput, handlerVars, queueVars
  <2>2. f.kind = "held"
    BY <2>1, FrameFields
  <2>5. \/ chunks' = chunks
        \/ Of(chunks') = Of(chunks) \cup {f}
        \/ chunks' = Dropped(chunks, p)
    BY <1>8, <2>1, HoldParts
  <2>3. Of(Dropped(chunks, p)) \subseteq Of(chunks) \cup {Hole}
    BY HoleDrops DEF AttachTypeOK
  <2>4. \A g \in Of(chunks') : g.kind \in {"held", "hole"}
    BY <2>2, <2>3, <2>5, FrameParts DEF Kinds
  <2> QED  BY <2>t, <2>4 DEF Kinds
<1>9. ASSUME NEW p \in Panes, Broadcast(p)
      PROVE  Kinds'
  <2>1. PICK f : f = Frame("live", p, outPos[p] - 1)
    OBVIOUS
  <2>t. UNCHANGED <<chunks, todo, end, sending, pc, critCh, got>>
    BY <1>9 DEF Broadcast, handlerVars, holdVars
  <2>2. f.kind = "live"
    BY <2>1, FrameFields
  <2>3. outCh' = outCh \/ Of(outCh') = Of(outCh) \cup {f}
    BY <1>9, <2>1, BroadcastParts
  <2> QED  BY <2>t, <2>2, <2>3 DEF Kinds
<1>10. CASE Selects
  <2>t. UNCHANGED <<chunks, todo, end, sending, pc>>
    BY <1>10, SelectKinds DEF holdVars, handlerVars
  <2>1. CASE TakeCritical
    <3>1. /\ outCh' = outCh /\ Of(critCh') \subseteq Of(critCh)
          /\ Of(got') \subseteq Of(got) \cup Of(critCh)
      BY <2>1, CriticalParts
    <3> QED  BY <2>t, <3>1, KindsKept
  <2>2. CASE TakeLive
    <3>1. /\ critCh' = critCh /\ Of(outCh') \subseteq Of(outCh)
          /\ Of(got') \subseteq Of(got) \cup Of(outCh)
      BY <2>2, LiveParts
    <3> QED  BY <2>t, <3>1, KindsKept
  <2>3. CASE UNCHANGED <<queueVars, got, jumped>>
    BY <2>t, <2>3, KindsKept DEF queueVars
  <2> QED  BY <1>10, <2>1, <2>2, <2>3, SelectKinds
<1> QED
  BY <1>1, <1>2, <1>3, <1>4, <1>5, <1>6, <1>7, <1>8, <1>9, <1>10, Steps DEF Selects

----------------------------------------------------------------------------
(* Nothing is ahead of the stream *)

LEMMA PoolTyped ==
    ASSUME AttachTypeOK
    PROVE  /\ Pool \subseteq Frames \cup {Hole}
           /\ Of(got) \subseteq Frames /\ Of(critCh) \subseteq Frames /\ Of(outCh) \subseteq Frames
BY Typing, OfTyped DEF Pool

\* Where a frame comes from.
LEMMA Provenance ==
    ASSUME AttachTypeOK, Phases, Kinds, Reach, [AttachNext]_attachVars, NEW f \in Pool'
    PROVE  \/ f \in Pool \/ f = State \/ f = Hole
           \/ \E p \in Panes :
                 \/ Snapshot(p) /\ f.kind = "replay" /\ f.pane = p /\ f.pos < outPos[p]
                    /\ end' = [end EXCEPT ![p] = outPos[p]]
                 \/ HoldOutput(p) /\ flag = TRUE /\ f = Frame("held", p, outPos[p] - 1)
                 \/ Broadcast(p) /\ flag # TRUE /\ f = Frame("live", p, outPos[p] - 1)
<1> USE DEF Pool
<1>1. CASE Still
  <2>1. chunks' = chunks /\ sending' = sending /\ critCh' = critCh /\ outCh' = outCh /\ got' = got
    BY <1>1, StillParts
  <2> QED  BY <2>1
<1>2. CASE BeginHold \/ DropHold \/ FinishHold
  <2>1. /\ chunks' = <<>> \/ chunks' = chunks
        /\ sending' = sending \/ sending' = <<>>
        /\ critCh' = critCh /\ outCh' = outCh /\ got' = got
    BY <1>2 DEF BeginHold, DropHold, FinishHold, holdVars, queueVars
  <2> QED  BY <2>1, OfEmpty
<1>3. CASE SendState
  <2>1. UNCHANGED <<chunks, sending, outCh, got>>
    BY <1>3 DEF SendState, holdVars
  <2>2. critCh' = critCh \/ critCh' = Append(critCh, State)
    BY <1>3 DEF SendState
  <2>3. Of(Append(critCh, State)) = Of(critCh) \cup {State}
    BY FrameParts, OfAppend DEF AttachTypeOK
  <2> QED  BY <2>1, <2>2, <2>3
<1>4. ASSUME NEW p \in Panes, Snapshot(p)
      PROVE  \/ f \in Pool
             \/ Snapshot(p) /\ f.kind = "replay" /\ f.pane = p /\ f.pos < outPos[p]
                /\ end' = [end EXCEPT ![p] = outPos[p]]
  <2>t. UNCHANGED <<chunks, critCh, outCh, got>>
    BY <1>4 DEF Snapshot, holdVars, queueVars
  <2>1. CASE UNCHANGED <<end, sending, pc>>
    BY <2>t, <2>1
  <2>2. CASE /\ end' = [end EXCEPT ![p] = outPos[p]] /\ pc' = "sending"
             /\ sending' = [i \in 1 .. outPos[p] |-> Frame("replay", p, i - 1)]
    <3>1. outPos[p] \in Nat
      BY DEF AttachTypeOK
    <3>2. \A g \in Of(sending') : g.kind = "replay" /\ g.pane = p /\ g.pos \in 0 .. (outPos[p] - 1)
      BY <2>2, <3>1, ReplaySent
    <3>3. f \in Of(sending') => f.kind = "replay" /\ f.pane = p /\ f.pos < outPos[p]
      BY <3>1, <3>2
    <3> QED  BY <1>4, <2>t, <2>2, <3>3
  <2> QED  BY <1>4, <2>1, <2>2 DEF Snapshot
<1>5. CASE SendReplay \/ SendHeld
  <2>t. UNCHANGED <<chunks, outCh, got>>
    BY <1>5 DEF SendReplay, SendHeld, holdVars
  <2>1. CASE critCh' = critCh /\ sending' = <<>>
    BY <2>t, <2>1, OfEmpty
  <2>2. CASE /\ sending # <<>> /\ Head(sending) \in Lines(end) /\ Head(sending) \in Of(sending)
             /\ critCh' = Append(critCh, Head(sending)) /\ sending' = Tail(sending)
    <3>1. Of(sending') \subseteq Of(sending)
      BY <2>2, OfTail DEF AttachTypeOK
    <3>2. Of(critCh') = Of(critCh) \cup {Head(sending)}
      <4>1. critCh \in Seq(Frames) /\ Head(sending) \in Frames
        BY <2>2 DEF AttachTypeOK, Lines
      <4> QED  BY <2>2, <4>1, OfAppend
    <3> QED  BY <2>t, <2>2, <3>1, <3>2
  <2> QED  BY <1>5, <2>1, <2>2, SentParts
<1>6. CASE TakeBatch
  <2>1. chunks' = <<>> /\ sending' = chunks /\ UNCHANGED <<critCh, outCh, got>>
    BY <1>6 DEF TakeBatch, queueVars
  <2> QED  BY <2>1, OfEmpty
<1>7. CASE SkipReplayed
  <2>1. /\ UNCHANGED <<chunks, critCh, outCh, got>> /\ sending' = Tail(sending)
        /\ sending # <<>>
    BY <1>7 DEF SkipReplayed, holdVars, queueVars
  <2>2. Of(sending') \subseteq Of(sending)
    BY <2>1, OfTail DEF AttachTypeOK
  <2> QED  BY <2>1, <2>2
<1>8. ASSUME NEW p \in Panes, HoldOutput(p)
      PROVE  \/ f \in Pool \/ f = Hole
             \/ HoldOutput(p) /\ flag = TRUE /\ f = Frame("held", p, outPos[p] - 1)
  <2>1. PICK g : g = Frame("held", p, outPos[p] - 1)
    OBVIOUS
  <2>t. UNCHANGED <<sending, critCh, outCh, got>>
    BY <1>8 DEF HoldOutput, handlerVars, queueVars
  <2>5. \/ chunks' = chunks
        \/ Of(chunks') = Of(chunks) \cup {g} /\ flag = TRUE
        \/ chunks' = Dropped(chunks, p)
    <3>1. \/ chunks' = chunks
          \/ Of(chunks') = Of(chunks) \cup {g}
          \/ chunks' = Dropped(chunks, p)
      BY <1>8, <2>1, HoldParts
    <3>2. flag # TRUE => chunks' = chunks
      BY <1>8 DEF HoldOutput, Phases, AttachTypeOK
    <3> QED  BY <3>1, <3>2
  <2>3. Of(Dropped(chunks, p)) \subseteq Of(chunks) \cup {Hole}
    BY HoleDrops DEF AttachTypeOK
  <2> QED  BY <1>8, <2>t, <2>1, <2>3, <2>5
<1>9. ASSUME NEW p \in Panes, Broadcast(p)
      PROVE  \/ f \in Pool
             \/ Broadcast(p) /\ flag # TRUE /\ f = Frame("live", p, outPos[p] - 1)
  <2>1. PICK g : g = Frame("live", p, outPos[p] - 1)
    OBVIOUS
  <2>t. UNCHANGED <<chunks, sending, critCh, got>>
    BY <1>9 DEF Broadcast, handlerVars, holdVars
  <2>3. outCh' = outCh \/ (Of(outCh') = Of(outCh) \cup {g} /\ flag # TRUE)
    <3>1. outCh' = outCh \/ Of(outCh') = Of(outCh) \cup {g}
      BY <1>9, <2>1, BroadcastParts
    <3>2. flag = TRUE => outCh' = outCh
      BY <1>9 DEF Broadcast, Wanted
    <3> QED  BY <3>1, <3>2
  <2> QED  BY <1>9, <2>t, <2>1, <2>3
<1>10. CASE Selects
  <2>t. UNCHANGED <<chunks, sending>>
    BY <1>10, SelectKinds DEF holdVars, handlerVars
  <2>1. CASE TakeCritical
    <3>1. /\ outCh' = outCh /\ Of(critCh') \subseteq Of(critCh)
          /\ Of(got') \subseteq Of(got) \cup Of(critCh)
      BY <2>1, CriticalParts
    <3> QED  BY <2>t, <3>1
  <2>2. CASE TakeLive
    <3>1. /\ critCh' = critCh /\ Of(outCh') \subseteq Of(outCh)
          /\ Of(got') \subseteq Of(got) \cup Of(outCh)
      BY <2>2, LiveParts
    <3> QED  BY <2>t, <3>1
  <2>3. CASE UNCHANGED <<queueVars, got, jumped>>
    BY <2>t, <2>3 DEF queueVars
  <2> QED  BY <1>10, <2>1, <2>2, <2>3, SelectKinds
<1> QED
  BY <1>1, <1>2, <1>3, <1>4, <1>5, <1>6, <1>7, <1>8, <1>9, <1>10, Steps DEF Selects

\* What a step does to the streams.
LEMMA Streams ==
    ASSUME AttachTypeOK, Phases, Kinds, Reach, [AttachNext]_attachVars
    PROVE  \/ UNCHANGED <<outPos, flush, end, since, flag>>
           \/ /\ UNCHANGED <<outPos, flush, end, since>> /\ flag' = FALSE
              /\ flag = TRUE /\ GateFree
           \/ /\ UNCHANGED <<outPos, flush, end>> /\ flag' = TRUE /\ flag # TRUE
              /\ GateFree /\ since' = outPos /\ todo = Panes /\ outCh' = outCh
           \/ \E p \in Panes :
                 \/ Publish(p) /\ UNCHANGED <<end, since, flag>>
                 \/ /\ flush[p] = "published" /\ flush' = [flush EXCEPT ![p] = "appended"]
                    /\ UNCHANGED <<outPos, end, since, flag>>
                 \/ /\ flush[p] = "appended" /\ flush' = [flush EXCEPT ![p] = "out"]
                    /\ UNCHANGED <<outPos, end, since, flag>>
                 \/ /\ end' = [end EXCEPT ![p] = outPos[p]] /\ end[p] = 0
                    /\ UNCHANGED <<outPos, flush, since, flag>>
<1>0. flag \in BOOLEAN
  BY DEF AttachTypeOK
<1>1. CASE Still
  <2>1. end' = end /\ flag' = flag /\ since' = since
    BY <1>1, StillParts
  <2>2. UNCHANGED <<outPos, flush>> \/ \E p \in Panes : Publish(p)
    BY <1>1 DEF Still, DrainWait, ReplayDone, KickLost, ConnDies, Shutdown, Exiting, Exits,
                attachVars, paneVars
  <2> QED  BY <2>1, <2>2
<1>2. CASE BeginHold
  <2>1. pc = "detached" /\ flag # TRUE /\ todo = Panes
    BY <1>2 DEF BeginHold, Phases, Early, Over
  <2> QED  BY <1>2, <2>1 DEF BeginHold, paneVars, queueVars
<1>3. CASE DropHold \/ FinishHold
  <2>1. UNCHANGED <<outPos, flush, end, since>>
    BY <1>3 DEF DropHold, FinishHold, paneVars, recordVars
  <2>2. flag' = flag \/ (flag' = FALSE /\ GateFree)
    BY <1>3 DEF DropHold, FinishHold, EndHold, holdVars
  <2>3. flag' = flag \/ (flag' = FALSE /\ flag = TRUE /\ GateFree)
    BY <2>2, <1>0
  <2> QED  BY <2>1, <2>3
<1>4. ASSUME NEW p \in Panes, Snapshot(p)
      PROVE  \/ UNCHANGED <<outPos, flush, end, since, flag>>
             \/ /\ end' = [end EXCEPT ![p] = outPos[p]] /\ end[p] = 0
                /\ UNCHANGED <<outPos, flush, since, flag>>
  <2>1. UNCHANGED <<outPos, flush, since, flag>> /\ p \in todo
        /\ (end' = end \/ end' = [end EXCEPT ![p] = outPos[p]])
    BY <1>4 DEF Snapshot, paneVars, holdVars
  <2>2. end[p] = 0
    BY <2>1 DEF Phases
  <2> QED  BY <2>1, <2>2
<1>5. CASE SendReplay \/ SendHeld \/ TakeBatch \/ SkipReplayed \/ SendState
  BY <1>5 DEF SendReplay, SendHeld, TakeBatch, SkipReplayed, SendState, paneVars, holdVars, recordVars
<1>6. ASSUME NEW p \in Panes, HoldOutput(p) \/ Broadcast(p)
      PROVE  \/ /\ flush[p] = "published" /\ flush' = [flush EXCEPT ![p] = "appended"]
                /\ UNCHANGED <<outPos, end, since, flag>>
             \/ /\ flush[p] = "appended" /\ flush' = [flush EXCEPT ![p] = "out"]
                /\ UNCHANGED <<outPos, end, since, flag>>
  BY <1>6 DEF HoldOutput, Broadcast, handlerVars, holdVars, recordVars
<1>7. CASE Selects
  <2>1. UNCHANGED <<outPos, flush, end, since, flag>>
    BY <1>7, SelectKinds DEF paneVars, handlerVars, holdVars
  <2> QED  BY <2>1
<1> QED
  BY <1>1, <1>2, <1>3, <1>4, <1>5, <1>6, <1>7, Steps DEF Selects

LEMMA BehindKept ==
    ASSUME AttachTypeOK, Phases, Kinds, Reach, [AttachNext]_attachVars,
           NEW f \in Frames \cup {Hole}, Behind(f)
    PROVE  Behind(f)'
<1>0. ASSUME f.kind \notin {"replay", "held", "live"}
      PROVE  Behind(f)'
  BY <1>0 DEF Behind
<1> SUFFICES ASSUME f.kind \in {"replay", "held", "live"}
             PROVE  Behind(f)'
  BY <1>0
<1>1. f.pane \in Panes /\ f.pos \in Nat
  BY FrameParts
<1>2. PICK q \in Panes : q = f.pane
  BY <1>1
<1>3. /\ outPos \in [Panes -> Nat] /\ end \in [Panes -> Nat]
      /\ flush \in [Panes -> {"out", "published", "appended"}]
      /\ outPos[q] \in Nat /\ end[q] \in Nat /\ end[q] <= outPos[q]
  BY DEF AttachTypeOK, Reach
<1>4. /\ f.kind = "replay" => f.pos < end[q]
      /\ f.kind \in {"held", "live"} => f.pos < outPos[q]
      /\ \/ f.kind = "held" /\ flush[q] = "published"
         \/ f.kind = "live" /\ flush[q] # "out"
         \/ f.kind \in {"replay", "held"} /\ flag # TRUE /\ flush[q] # "out"
         => f.pos < outPos[q] - 1
  BY <1>2 DEF Behind
<1> SUFFICES /\ f.kind = "replay" => f.pos < end'[q]
             /\ f.kind \in {"held", "live"} => f.pos < outPos'[q]
             /\ \/ f.kind = "held" /\ flush'[q] = "published"
                \/ f.kind = "live" /\ flush'[q] # "out"
                \/ f.kind \in {"replay", "held"} /\ flag' # TRUE /\ flush'[q] # "out"
                => f.pos < outPos'[q] - 1
  BY <1>2 DEF Behind
<1>5. CASE UNCHANGED <<outPos, flush, end, since, flag>>
  BY <1>4, <1>5
<1>6. CASE UNCHANGED <<outPos, flush, end>> /\ GateFree
  BY <1>4, <1>6 DEF GateFree
<1>7. ASSUME NEW p \in Panes, Publish(p), UNCHANGED <<end, since, flag>>
      PROVE  /\ f.kind = "replay" => f.pos < end'[q]
             /\ f.kind \in {"held", "live"} => f.pos < outPos'[q]
             /\ \/ f.kind = "held" /\ flush'[q] = "published"
                \/ f.kind = "live" /\ flush'[q] # "out"
                \/ f.kind \in {"replay", "held"} /\ flag' # TRUE /\ flush'[q] # "out"
                => f.pos < outPos'[q] - 1
  <2>1. outPos' = [outPos EXCEPT ![p] = @ + 1] /\ flush' = [flush EXCEPT ![p] = "published"]
    BY <1>7 DEF Publish
  <2>2. CASE q = p
    <3>1. outPos'[q] = outPos[q] + 1 /\ end' = end
      BY <1>3, <1>7, <2>1, <2>2
    <3>2. f.pos < outPos[q]
      BY <1>1, <1>3, <1>4
    <3>3. f.pos < outPos'[q] /\ f.pos < outPos'[q] - 1
      <4>1. PICK n \in Nat : n = f.pos
        BY <1>1
      <4>2. PICK m \in Nat : m = outPos[q]
        BY <1>3
      <4>3. outPos'[q] = m + 1 /\ n < m
        BY <3>1, <3>2, <4>1, <4>2
      <4> QED  BY <4>1, <4>3
    <3> QED  BY <1>4, <3>1, <3>3
  <2>3. CASE q # p
    <3>1. outPos'[q] = outPos[q] /\ flush'[q] = flush[q] /\ end' = end /\ flag' = flag
      BY <1>3, <1>7, <2>1, <2>3
    <3> QED  BY <1>4, <3>1
  <2> QED  BY <2>2, <2>3
<1>8. ASSUME NEW p \in Panes, UNCHANGED <<outPos, end, since, flag>>,
             \/ flush[p] = "published" /\ flush' = [flush EXCEPT ![p] = "appended"]
             \/ flush[p] = "appended" /\ flush' = [flush EXCEPT ![p] = "out"]
      PROVE  /\ f.kind = "replay" => f.pos < end'[q]
             /\ f.kind \in {"held", "live"} => f.pos < outPos'[q]
             /\ \/ f.kind = "held" /\ flush'[q] = "published"
                \/ f.kind = "live" /\ flush'[q] # "out"
                \/ f.kind \in {"replay", "held"} /\ flag' # TRUE /\ flush'[q] # "out"
                => f.pos < outPos'[q] - 1
  <2>1. /\ flush'[q] = "published" => flush[q] = "published"
        /\ flush'[q] # "out" => flush[q] # "out"
    BY <1>3, <1>8
  <2> QED  BY <1>4, <1>8, <2>1
<1>9. ASSUME NEW p \in Panes, end' = [end EXCEPT ![p] = outPos[p]], end[p] = 0,
             UNCHANGED <<outPos, flush, since, flag>>
      PROVE  /\ f.kind = "replay" => f.pos < end'[q]
             /\ f.kind \in {"held", "live"} => f.pos < outPos'[q]
             /\ \/ f.kind = "held" /\ flush'[q] = "published"
                \/ f.kind = "live" /\ flush'[q] # "out"
                \/ f.kind \in {"replay", "held"} /\ flag' # TRUE /\ flush'[q] # "out"
                => f.pos < outPos'[q] - 1
  <2>1. f.kind = "replay" => f.pos < end'[q]
    <3>1. PICK n \in Nat : n = f.pos
      BY <1>1
    <3>2. PICK m \in Nat : m = end[q]
      BY <1>3
    <3>3. PICK k \in Nat : k = end'[q]
      BY <1>3, <1>9
    <3>4. m <= k
      BY <1>3, <1>9, <3>2, <3>3
    <3> QED  BY <1>4, <3>1, <3>2, <3>3, <3>4
  <2> QED  BY <1>1, <1>3, <1>4, <1>9, <2>1
<1> QED  BY <1>5, <1>6, <1>7, <1>8, <1>9, Streams

LEMMA InitReach ==
    ASSUME AttachInit
    PROVE  Reach
<1>1. Pool = {}
  BY OfEmpty DEF AttachInit, Pool
<1>2. \A p \in Panes : end[p] = 0 /\ since[p] = 0 /\ outPos[p] = 0 /\ flush[p] = "out"
  BY DEF AttachInit
<1>3. flag # TRUE
  BY DEF AttachInit
<1>4. \A p \in Panes : end[p] <= outPos[p] /\ since[p] <= outPos[p] /\ ~(end[p] > 0)
  BY <1>2
<1> QED  BY <1>1, <1>2, <1>3, <1>4 DEF Reach

LEMMA NextReach ==
    ASSUME AttachTypeOK, Phases, Kinds, Reach, [AttachNext]_attachVars
    PROVE  Reach'
<1>0. /\ outPos \in [Panes -> Nat] /\ end \in [Panes -> Nat] /\ since \in [Panes -> Nat]
      /\ flush \in [Panes -> {"out", "published", "appended"}] /\ flag \in BOOLEAN
  BY DEF AttachTypeOK
<1>1. ASSUME NEW q \in Panes
      PROVE  /\ end'[q] <= outPos'[q] /\ since'[q] <= outPos'[q]
             /\ flush'[q] # "out" => outPos'[q] > 0
             /\ end'[q] > 0 => since'[q] <= end'[q]
  <2>1. /\ outPos[q] \in Nat /\ end[q] \in Nat /\ since[q] \in Nat
        /\ end[q] <= outPos[q] /\ since[q] <= outPos[q]
        /\ flush[q] # "out" => outPos[q] > 0
        /\ end[q] > 0 => since[q] <= end[q]
    BY <1>0 DEF Reach
  <2>2. CASE UNCHANGED <<outPos, flush, end, since>>
    BY <2>1, <2>2
  <2>3. CASE UNCHANGED <<outPos, flush, end>> /\ since' = outPos /\ todo = Panes
    <3>1. end[q] = 0
      BY <2>3 DEF Phases
    <3> QED  BY <2>1, <2>3, <3>1
  <2>4. ASSUME NEW p \in Panes, Publish(p), UNCHANGED <<end, since, flag>>
        PROVE  /\ end'[q] <= outPos'[q] /\ since'[q] <= outPos'[q]
               /\ flush'[q] # "out" => outPos'[q] > 0
               /\ end'[q] > 0 => since'[q] <= end'[q]
    <3>1. outPos' = [outPos EXCEPT ![p] = @ + 1] /\ flush' = [flush EXCEPT ![p] = "published"]
      BY <2>4 DEF Publish
    <3>2. IF p = q THEN outPos'[q] = outPos[q] + 1
          ELSE outPos'[q] = outPos[q] /\ flush'[q] = flush[q]
      BY <1>0, <3>1
    <3> QED  BY <2>1, <2>4, <3>2
  <2>5. ASSUME NEW p \in Panes, UNCHANGED <<outPos, end, since, flag>>,
               \/ flush[p] = "published" /\ flush' = [flush EXCEPT ![p] = "appended"]
               \/ flush[p] = "appended" /\ flush' = [flush EXCEPT ![p] = "out"]
        PROVE  /\ end'[q] <= outPos'[q] /\ since'[q] <= outPos'[q]
               /\ flush'[q] # "out" => outPos'[q] > 0
               /\ end'[q] > 0 => since'[q] <= end'[q]
    <3>1. flush'[q] # "out" => flush[q] # "out"
      BY <1>0, <2>5
    <3> QED  BY <2>1, <2>5, <3>1
  <2>6. ASSUME NEW p \in Panes, end' = [end EXCEPT ![p] = outPos[p]], end[p] = 0,
               UNCHANGED <<outPos, flush, since, flag>>
        PROVE  /\ end'[q] <= outPos'[q] /\ since'[q] <= outPos'[q]
               /\ flush'[q] # "out" => outPos'[q] > 0
               /\ end'[q] > 0 => since'[q] <= end'[q]
    <3>1. end'[q] = IF p = q THEN outPos[q] ELSE end[q]
      BY <1>0, <2>6
    <3> QED  BY <2>1, <2>6, <3>1
  <2> QED  BY <2>2, <2>3, <2>4, <2>5, <2>6, Streams
<1>2. ASSUME NEW f \in Pool'
      PROVE  Behind(f)'
  <2>1. CASE f \in Pool
    <3>1. f \in Frames \cup {Hole} /\ Behind(f)
      BY <2>1, PoolTyped DEF Reach
    <3> QED  BY <3>1, BehindKept
  <2>2. CASE f = State \/ f = Hole
    BY <2>2, FrameParts DEF Behind
  <2>3. ASSUME NEW p \in Panes, Snapshot(p), f.kind = "replay", f.pane = p, f.pos < outPos[p],
               end' = [end EXCEPT ![p] = outPos[p]]
        PROVE  Behind(f)'
    <3>1. f.pos < end'[p]
      BY <1>0, <2>3
    <3>2. flag' = TRUE
      BY <2>3 DEF Snapshot, Phases, Over, holdVars
    <3> QED  BY <2>3, <3>1, <3>2 DEF Behind
  <2>4. ASSUME NEW p \in Panes, HoldOutput(p), flag = TRUE, f = Frame("held", p, outPos[p] - 1)
        PROVE  Behind(f)'
    <3>1. f.kind = "held" /\ f.pane = p /\ f.pos = outPos[p] - 1
      BY <2>4, FrameFields
    <3>2. flag' = TRUE /\ outPos' = outPos /\ flush'[p] = "appended"
      BY <1>0, <2>4 DEF HoldOutput
    <3>3. f.pos < outPos'[p]
      BY <1>0, <3>1, <3>2
    <3> QED  BY <3>1, <3>2, <3>3 DEF Behind
  <2>5. ASSUME NEW p \in Panes, Broadcast(p), flag # TRUE, f = Frame("live", p, outPos[p] - 1)
        PROVE  Behind(f)'
    <3>1. f.kind = "live" /\ f.pane = p /\ f.pos = outPos[p] - 1
      BY <2>5, FrameFields
    <3>2. outPos' = outPos /\ flush'[p] = "out"
      BY <1>0, <2>5 DEF Broadcast
    <3>3. f.pos < outPos'[p]
      BY <1>0, <3>1, <3>2
    <3> QED  BY <3>1, <3>2, <3>3 DEF Behind
  <2> QED  BY <2>1, <2>2, <2>3, <2>4, <2>5, Provenance
<1>3. ASSUME flag' = TRUE, NEW f \in Of(outCh')
      PROVE  f.pos < since'[f.pane]
  <2>1. CASE flag = TRUE
    <3>1. since' = since
      BY <2>1, Streams DEF Publish, recordVars
    <3>2. f \in Of(outCh)
      <4>1. CASE \E p \in Panes : Broadcast(p)
        <5>1. outCh' = outCh
          BY <2>1, <4>1 DEF Broadcast, Wanted
        <5> QED  BY <1>3, <5>1
      <4>2. CASE Selects
        <5>1. CASE TakeCritical \/ UNCHANGED <<queueVars, got, jumped>>
          BY <1>3, <5>1 DEF TakeCritical, queueVars
        <5>2. CASE TakeLive
          <6>1. Of(outCh) = {Head(outCh)} \cup Of(outCh')
            BY <5>2, LiveParts
          <6> QED  BY <1>3, <6>1
        <5> QED  BY <4>2, <5>1, <5>2, SelectKinds
      <4>3. CASE Still
        BY <1>3, <4>3, StillParts
      <4>4. CASE outCh' = outCh
        BY <1>3, <4>4
      <4>5. \/ \E p \in Panes : Broadcast(p)
            \/ Selects \/ Still \/ outCh' = outCh
        <5>1. \/ Still \/ Selects
              \/ BeginHold \/ SendState \/ SendReplay \/ TakeBatch \/ SkipReplayed \/ SendHeld
              \/ DropHold \/ FinishHold
              \/ \E p \in Panes : Snapshot(p) \/ HoldOutput(p) \/ Broadcast(p)
          BY Steps DEF Selects
        <5> QED
          BY <5>1 DEF BeginHold, SendState, SendReplay, TakeBatch, SkipReplayed, SendHeld,
                      DropHold, FinishHold, Snapshot, HoldOutput, queueVars
      <4> QED  BY <4>1, <4>2, <4>3, <4>4, <4>5
    <3> QED  BY <2>1, <3>1, <3>2 DEF Reach
  <2>2. CASE flag # TRUE
    <3>1. GateFree /\ since' = outPos /\ outCh' = outCh
      BY <1>0, <1>3, <2>2, Streams
    <3>2. f \in Pool /\ f.kind = "live" /\ f \in Of(outCh)
      BY <1>3, <3>1 DEF Pool, Kinds
    <3> QED  BY <3>1, <3>2 DEF Reach, Behind
  <2> QED  BY <2>1, <2>2
<1> QED  BY <1>1, <1>2, <1>3 DEF Reach

----------------------------------------------------------------------------
(* What the attach sends is in the order of the streams *)

LEMMA InitInLine ==
    ASSUME AttachInit
    PROVE  InLine
BY OfEmpty, RisingEmpty DEF AttachInit, InLine, Before

\* Every sequence is what it was, or emptied.
LEMMA LinesKept ==
    ASSUME InLine, end' = end,
           got' \in {got, <<>>}, critCh' \in {critCh, <<>>}, sending' \in {sending, <<>>},
           chunks' \in {chunks, <<>>}
    PROVE  InLine'
<1> DEFINE K == Lines(end)
<1>1. \A s : Rising(<<>>, K) /\ Before(<<>>, s, K) /\ Before(s, <<>>, K)
  BY RisingEmpty, OfEmpty DEF Before
<1>2. Lines(end') = K
  OBVIOUS
<1>3. /\ Rising(got', K) /\ Rising(critCh', K) /\ Rising(sending', K) /\ Rising(chunks', K)
      /\ Before(got', critCh', K) /\ Before(got', sending', K) /\ Before(got', chunks', K)
      /\ Before(critCh', sending', K) /\ Before(critCh', chunks', K)
      /\ Before(sending', chunks', K)
  BY <1>1 DEF InLine
<1> QED  BY <1>2, <1>3 DEF InLine

\* The byte a flush puts in the hold is behind all of the pane that is out.
LEMMA HeldBehind ==
    ASSUME AttachTypeOK, Phases, Reach, NEW p \in Panes, flush[p] = "published",
           NEW f \in Frames, f.kind = "held", f.pane = p, f.pos = outPos[p] - 1,
           NEW g \in Pool
    PROVE  Below(g, f, Lines(end))
<1> SUFFICES ASSUME g \in Lines(end), f \in Lines(end), g.pane = p
             PROVE  g.pos < f.pos
  BY DEF Below
<1>1. g \in Frames /\ g.kind \in {"state", "replay", "held"} /\ Behind(g)
  BY DEF Lines, Reach
<1>2. g # State
  BY FrameParts
<1>3. g.pos \in Nat /\ g.kind \in {"replay", "held"}
  BY <1>1, <1>2, FrameParts
<1>4. outPos[p] \in Nat /\ end[p] \in Nat /\ f.pos \in Nat
  BY FrameParts DEF AttachTypeOK
<1>5. CASE g.kind = "replay"
  <2>1. g.pos < end[p] /\ f.pos >= end[p]
    BY <1>1, <1>5 DEF Behind, Lines
  <2> QED  BY <1>3, <1>4, <2>1
<1>6. CASE g.kind = "held"
  BY <1>1, <1>6 DEF Behind
<1> QED  BY <1>3, <1>5, <1>6

LEMMA NextInLine ==
    ASSUME AttachTypeOK, Phases, Kinds, Reach, InLine, [AttachNext]_attachVars
    PROVE  InLine'
<1> USE DEF Early, Replaying, Releasing, Over
<1> DEFINE K == Lines(end)
<1>0. /\ Rising(got, K) /\ Rising(critCh, K) /\ Rising(sending, K) /\ Rising(chunks, K)
      /\ Before(got, critCh, K) /\ Before(got, sending, K) /\ Before(got, chunks, K)
      /\ Before(critCh, sending, K) /\ Before(critCh, chunks, K)
      /\ Before(sending, chunks, K)
  BY DEF InLine
<1>t. /\ chunks \in Seq(Frames \cup {Hole}) /\ sending \in Seq(Frames \cup {Hole})
      /\ critCh \in Seq(Frames) /\ outCh \in Seq(Frames) /\ got \in Seq(Frames)
  BY Typing
<1>h. Hole \notin K
  BY FrameParts DEF Lines
<1>1. CASE Still
  <2>1. chunks' = chunks /\ sending' = sending /\ critCh' = critCh /\ got' = got /\ end' = end
    BY <1>1, StillParts
  <2> QED  BY <2>1, LinesKept
<1>2. CASE BeginHold \/ DropHold \/ FinishHold
  <2>1. /\ chunks' \in {chunks, <<>>} /\ sending' \in {sending, <<>>}
        /\ critCh' = critCh /\ got' = got /\ end' = end
    BY <1>2 DEF BeginHold, DropHold, FinishHold, holdVars, queueVars
  <2> QED  BY <2>1, LinesKept
<1>3. CASE SendState
  <2>1. UNCHANGED <<chunks, sending, got, end>> /\ pc = "state"
    BY <1>3 DEF SendState, holdVars
  <2>2. got = <<>> /\ critCh = <<>> /\ sending = <<>>
    BY <2>1 DEF Phases
  <2>3. critCh' = critCh \/ critCh' = Append(critCh, State)
    BY <1>3 DEF SendState
  <2>4. CASE critCh' = critCh
    BY <2>1, <2>4, LinesKept
  <2>5. CASE critCh' = Append(critCh, State)
    <3>1. Of(critCh') = {State}
      <4>1. Of(critCh') = Of(critCh) \cup {State}
        BY <1>t, <2>5, FrameParts, OfAppend
      <4> QED  BY <2>2, <4>1, OfEmpty
    <3>2. Rising(critCh', K)
      BY <1>0, <1>t, <2>2, <2>5, FrameParts, OfEmpty, RisingAppend
    <3>3. Before(critCh', chunks, K)
      <4>1. ASSUME NEW g \in Of(chunks), g \in K
            PROVE  g.pane # NoPane
        <5>1. g.kind \in {"held", "hole"} /\ g \in Frames
          BY <4>1 DEF Kinds, Lines
        <5> QED  BY <5>1, FrameParts
      <4> QED  BY <3>1, <4>1, FrameParts DEF Before, Below
    <3>4. \A s : Before(<<>>, s, K) /\ Before(s, <<>>, K)
      BY OfEmpty DEF Before
    <3> QED  BY <1>0, <2>1, <2>2, <3>2, <3>3, <3>4, RisingEmpty DEF InLine
  <2> QED  BY <2>3, <2>4, <2>5
<1>4. ASSUME NEW p \in Panes, Snapshot(p)
      PROVE  InLine'
  <2>t. /\ UNCHANGED <<chunks, critCh, got>> /\ pc = "replay" /\ p \in todo
    BY <1>4 DEF Snapshot, holdVars, queueVars
  <2>1. CASE UNCHANGED <<end, sending, pc>>
    BY <2>t, <2>1, LinesKept
  <2>2. CASE /\ end' = [end EXCEPT ![p] = outPos[p]] /\ pc' = "sending"
             /\ sending' = [i \in 1 .. outPos[p] |-> Frame("replay", p, i - 1)]
    <3> DEFINE J == Lines(end')
    <3>1. outPos[p] \in Nat /\ end[p] = 0 /\ end \in [Panes -> Nat]
      BY <2>t DEF AttachTypeOK, Phases
    <3>2. J \subseteq K
      BY <2>2, <3>1, LinesShrink
    <3>3. /\ \A f \in Of(sending') : f.kind = "replay" /\ f.pane = p /\ f.pos \in 0 .. (outPos[p] - 1)
          /\ Rising(sending', J)
      BY <2>2, <3>1, ReplaySent
    <3>4. /\ Rising(got, J) /\ Rising(critCh, J) /\ Rising(chunks, J)
          /\ Before(got, critCh, J) /\ Before(got, chunks, J) /\ Before(critCh, chunks, J)
      BY <1>0, <3>2, FewerRising
    <3>5. \A f \in Of(got) \cup Of(critCh) : f \in J => f.pane # p
      BY <2>t DEF Kinds, Lines
    <3>6. Before(got, sending', J) /\ Before(critCh, sending', J)
      BY <3>3, <3>5 DEF Before, Below
    <3>7. Before(sending', chunks, J)
      <4>1. ASSUME NEW f \in Of(sending'), NEW g \in Of(chunks), g \in J, f.pane = g.pane
            PROVE  f.pos < g.pos
        <5>1. g.kind \in {"held", "hole"} /\ g \in Frames
          BY <4>1 DEF Kinds, Lines
        <5>2. g.kind = "held" /\ g.pos \in Nat
          BY <5>1, FrameParts
        <5>3. g.pos >= end'[p]
          BY <3>3, <4>1, <5>2 DEF Lines
        <5>4. f.pos \in 0 .. (outPos[p] - 1) /\ end'[p] = outPos[p]
          BY <2>2, <3>1, <3>3
        <5> QED  BY <3>1, <5>2, <5>3, <5>4
      <4> QED  BY <4>1 DEF Before, Below
    <3> QED  BY <2>t, <3>3, <3>4, <3>6, <3>7 DEF InLine
  <2> QED  BY <1>4, <2>1, <2>2 DEF Snapshot
<1>5. CASE SendReplay \/ SendHeld
  <2>t. UNCHANGED <<chunks, got, end>>
    BY <1>5 DEF SendReplay, SendHeld, holdVars
  <2>1. CASE critCh' = critCh /\ sending' = <<>>
    BY <2>t, <2>1, LinesKept
  <2>2. CASE /\ sending # <<>> /\ critCh' = Append(critCh, Head(sending))
             /\ sending' = Tail(sending)
    <3>1. critCh \in Seq(Frames \cup {Hole})
      BY <1>t
    <3>2. /\ Rising(critCh', K) /\ Rising(sending', K) /\ Before(critCh', sending', K)
          /\ Of(critCh') \cup Of(sending') = Of(critCh) \cup Of(sending)
      BY <1>0, <1>t, <2>2, <3>1, HandOver
    <3>3. Before(got, critCh', K) /\ Before(got, sending', K)
      BY <1>0, <3>2 DEF Before
    <3>4. Before(critCh', chunks, K) /\ Before(sending', chunks, K)
      BY <1>0, <3>2 DEF Before
    <3> QED  BY <1>0, <2>t, <3>2, <3>3, <3>4 DEF InLine
  <2> QED  BY <1>5, <2>1, <2>2, SentParts
<1>6. CASE TakeBatch
  <2>1. chunks' = <<>> /\ sending' = chunks /\ UNCHANGED <<critCh, got, end>>
    BY <1>6 DEF TakeBatch, queueVars
  <2>2. \A s : Before(s, <<>>, K)
    BY OfEmpty DEF Before
  <2> QED  BY <1>0, <2>1, <2>2, RisingEmpty DEF InLine
<1>7. CASE SkipReplayed
  <2>1. UNCHANGED <<chunks, critCh, got, end>> /\ sending' = Tail(sending) /\ sending # <<>>
    BY <1>7 DEF SkipReplayed, holdVars, queueVars
  <2>2. Of(sending') \subseteq Of(sending)
    BY <1>t, <2>1, OfTail
  <2>3. Rising(sending', K)
    BY <1>0, <1>t, <2>1, RisingTail
  <2>4. Before(got, sending', K) /\ Before(critCh, sending', K) /\ Before(sending', chunks, K)
    BY <1>0, <2>2 DEF Before
  <2> QED  BY <1>0, <2>1, <2>3, <2>4 DEF InLine
<1>8. ASSUME NEW p \in Panes, HoldOutput(p)
      PROVE  InLine'
  <2>1. PICK f : f = Frame("held", p, outPos[p] - 1)
    OBVIOUS
  <2>t. UNCHANGED <<end, sending, critCh, got>> /\ flush[p] = "published"
    BY <1>8 DEF HoldOutput, handlerVars, queueVars
  <2>2. f \in Frames /\ f.kind = "held" /\ f.pane = p /\ f.pos = outPos[p] - 1
    <3>1. f.kind = "held" /\ f.pane = p /\ f.pos = outPos[p] - 1
      BY <2>1, FrameFields
    <3>2. f \in Frames
      BY <1>8, <2>1, HoldParts
    <3> QED  BY <3>1, <3>2
  <2>3. \/ chunks' = chunks
        \/ chunks' = Append(chunks, f) /\ Of(chunks') = Of(chunks) \cup {f}
        \/ chunks' = Dropped(chunks, p)
    BY <1>8, <2>1, HoldParts
  <2>4. CASE chunks' = chunks
    BY <2>t, <2>4, LinesKept
  <2>5. CASE chunks' = Append(chunks, f) /\ Of(chunks') = Of(chunks) \cup {f}
    <3>1. \A g \in Pool : Below(g, f, K)
      BY <2>t, <2>2, HeldBehind
    <3>2. Rising(chunks', K)
      BY <1>0, <1>t, <2>2, <2>5, <3>1, RisingAppend DEF Pool
    <3>3. Before(got, chunks', K) /\ Before(critCh, chunks', K) /\ Before(sending, chunks', K)
      BY <1>0, <2>5, <3>1 DEF Before, Pool
    <3> QED  BY <1>0, <2>t, <3>2, <3>3 DEF InLine
  <2>6. CASE chunks' = Dropped(chunks, p)
    <3>1. Of(chunks') \subseteq Of(chunks) \cup {Hole} /\ Rising(chunks', K)
      BY <1>0, <1>h, <1>t, <2>6, HoleDrops
    <3>2. Before(got, chunks', K) /\ Before(critCh, chunks', K) /\ Before(sending, chunks', K)
      BY <1>0, <1>h, <3>1 DEF Before, Below
    <3> QED  BY <1>0, <2>t, <3>1, <3>2 DEF InLine
  <2> QED  BY <2>3, <2>4, <2>5, <2>6
<1>9. ASSUME NEW p \in Panes, Broadcast(p)
      PROVE  InLine'
  <2>t. UNCHANGED <<end, chunks, sending, critCh, got>>
    BY <1>9 DEF Broadcast, handlerVars, holdVars
  <2> QED  BY <2>t, LinesKept
<1>10. CASE Selects
  <2>t. UNCHANGED <<chunks, end, sending>>
    BY <1>10, SelectKinds DEF holdVars, handlerVars
  <2>1. CASE TakeCritical
    <3>1. PICK f : f = Head(critCh)
      OBVIOUS
    <3>2. /\ critCh # <<>> /\ critCh' = Tail(critCh) /\ Of(critCh) = {f} \cup Of(critCh')
          /\ got # <<>> \/ f = State => got' = Append(got, f)
          /\ got = <<>> /\ f # State => got' = got
      BY <2>1, <3>1, CriticalParts
    <3>3. CASE got' = got
      <4>1. Rising(critCh', K)
        BY <1>0, <1>t, <3>2, RisingTail
      <4>2. Before(got, critCh', K) /\ Before(critCh', sending, K) /\ Before(critCh', chunks, K)
        BY <1>0, <3>2 DEF Before
      <4> QED  BY <1>0, <2>t, <3>3, <4>1, <4>2 DEF InLine
    <3>4. CASE got' = Append(got, Head(critCh))
      <4>1. /\ Rising(got', K) /\ Rising(critCh', K) /\ Before(got', critCh', K)
            /\ Of(got') \cup Of(critCh') = Of(got) \cup Of(critCh)
        BY <1>0, <1>t, <3>2, <3>4, HandOver
      <4>2. /\ Before(got', sending, K) /\ Before(critCh', sending, K)
            /\ Before(got', chunks, K) /\ Before(critCh', chunks, K)
        BY <1>0, <4>1 DEF Before
      <4> QED  BY <1>0, <2>t, <4>1, <4>2 DEF InLine
    <3> QED  BY <3>1, <3>2, <3>3, <3>4
  <2>2. CASE TakeLive
    <3>1. PICK f : f = Head(outCh)
      OBVIOUS
    <3>2. /\ f \in Frames /\ f.kind = "live" /\ critCh' = critCh
          /\ got # <<>> => got' = Append(got, f) /\ Of(got') = Of(got) \cup {f}
          /\ got = <<>> => got' = got
      BY <2>2, <3>1, LiveParts
    <3>3. f \notin K
      BY <3>2 DEF Lines
    <3>4. CASE got' = got
      BY <2>t, <3>2, <3>4, LinesKept
    <3>5. CASE got' = Append(got, f) /\ Of(got') = Of(got) \cup {f}
      <4>1. Rising(got', K)
        BY <1>0, <1>t, <3>2, <3>3, <3>5, RisingAppend DEF Below
      <4>2. Before(got', critCh, K) /\ Before(got', sending, K) /\ Before(got', chunks, K)
        BY <1>0, <3>3, <3>5 DEF Before, Below
      <4> QED  BY <1>0, <2>t, <3>2, <4>1, <4>2 DEF InLine
    <3> QED  BY <3>2, <3>4, <3>5
  <2>3. CASE UNCHANGED <<queueVars, got, jumped>>
    BY <2>t, <2>3, LinesKept DEF queueVars
  <2> QED  BY <1>10, <2>1, <2>2, <2>3, SelectKinds
<1> QED
  BY <1>1, <1>2, <1>3, <1>4, <1>5, <1>6, <1>7, <1>8, <1>9, <1>10, Steps DEF Selects

----------------------------------------------------------------------------
(* Live frames are in order, and apart from what the attach sends *)

\* The steps that leave the queues and the client alone.
LEMMA QueueSteps ==
    ASSUME [AttachNext]_attachVars
    PROVE  \/ UNCHANGED <<got, critCh, outCh, shed, jumped, end>>
           \/ SendState \/ SendReplay \/ SendHeld \/ Selects
           \/ \E p \in Panes : Snapshot(p) \/ Broadcast(p)
<1>1. CASE Still
  <2>1. got' = got /\ critCh' = critCh /\ outCh' = outCh /\ shed' = shed /\ jumped' = jumped
        /\ end' = end
    BY <1>1, StillParts
  <2> QED  BY <2>1
<1>2. CASE BeginHold \/ DropHold \/ FinishHold \/ TakeBatch \/ SkipReplayed
  BY <1>2 DEF BeginHold, DropHold, FinishHold, TakeBatch, SkipReplayed, queueVars, recordVars
<1>3. ASSUME NEW p \in Panes, HoldOutput(p)
      PROVE  UNCHANGED <<got, critCh, outCh, shed, jumped, end>>
  BY <1>3 DEF HoldOutput, handlerVars, queueVars, recordVars
<1> QED  BY <1>1, <1>2, <1>3, Steps DEF Selects

\* The live frames of the client and of the droppable queue.
LEMMA LaneSteps ==
    ASSUME [AttachNext]_attachVars
    PROVE  \/ UNCHANGED <<got, outCh, jumped, shed>>
           \/ Selects
           \/ \E p \in Panes : Broadcast(p)
<1>1. CASE SendState \/ SendReplay \/ SendHeld
  BY <1>1 DEF SendState, SendReplay, SendHeld, recordVars
<1>2. ASSUME NEW p \in Panes, Snapshot(p)
      PROVE  UNCHANGED <<got, outCh, jumped, shed>>
  BY <1>2 DEF Snapshot, queueVars
<1> QED  BY <1>1, <1>2, QueueSteps

LEMMA InitLivesInLine ==
    ASSUME AttachInit
    PROVE  LivesInLine
BY OfEmpty, RisingEmpty DEF AttachInit, LivesInLine, Before

LEMMA NextLivesInLine ==
    ASSUME AttachTypeOK, Phases, Kinds, Reach, LivesInLine, [AttachNext]_attachVars
    PROVE  LivesInLine'
<1>0. Rising(got, Lives) /\ Rising(outCh, Lives) /\ Before(got, outCh, Lives)
  BY DEF LivesInLine
<1>t. outCh \in Seq(Frames) /\ got \in Seq(Frames) /\ critCh \in Seq(Frames)
  BY Typing
<1>1. CASE UNCHANGED <<got, outCh, jumped, shed>>
  BY <1>0, <1>1 DEF LivesInLine
<1>2. ASSUME NEW p \in Panes, Broadcast(p)
      PROVE  LivesInLine'
  <2>1. PICK f : f = Frame("live", p, outPos[p] - 1)
    OBVIOUS
  <2>2. f.kind = "live" /\ f.pane = p /\ f.pos = outPos[p] - 1
    BY <2>1, FrameFields
  <2>3. f \in Frames
    BY <1>2, <2>1, BroadcastParts
  <2>4. outCh' = outCh \/ (outCh' = Append(outCh, f) /\ Of(outCh') = Of(outCh) \cup {f})
    BY <1>2, <2>1, BroadcastParts
  <2>5. got' = got /\ flush[p] = "appended"
    BY <1>2 DEF Broadcast
  <2>6. CASE outCh' = outCh
    BY <1>0, <2>5, <2>6 DEF LivesInLine
  <2>7. CASE outCh' = Append(outCh, f) /\ Of(outCh') = Of(outCh) \cup {f}
    <3>1. ASSUME NEW g \in Of(got) \cup Of(outCh)
          PROVE  Below(g, f, Lives)
      <4>1. Behind(g)
        BY DEF Reach, Pool
      <4> QED  BY <2>2, <2>5, <4>1 DEF Below, Behind, Lives
    <3>2. Rising(outCh', Lives)
      BY <1>0, <1>t, <2>3, <2>7, <3>1, RisingAppend
    <3>3. Before(got, outCh', Lives)
      BY <1>0, <2>7, <3>1 DEF Before
    <3> QED  BY <1>0, <2>5, <3>2, <3>3 DEF LivesInLine
  <2> QED  BY <2>4, <2>6, <2>7
<1>3. CASE Selects
  <2>1. CASE TakeCritical
    <3>1. PICK f : f = Head(critCh)
      OBVIOUS
    <3>2. /\ f \in Frames /\ Of(critCh) = {f} \cup Of(critCh') /\ outCh' = outCh
          /\ got # <<>> \/ f = State => got' = Append(got, f) /\ Of(got') = Of(got) \cup {f}
          /\ got = <<>> /\ f # State => got' = got
      BY <2>1, <3>1, CriticalParts
    <3>3. f \notin Lives
      BY <3>2 DEF Kinds, Lines, Lives
    <3>4. CASE got' = got
      BY <1>0, <3>2, <3>4 DEF LivesInLine
    <3>5. CASE got' = Append(got, f) /\ Of(got') = Of(got) \cup {f}
      <4>1. Rising(got', Lives)
        BY <1>0, <1>t, <3>2, <3>3, <3>5, RisingAppend DEF Below
      <4>2. Before(got', outCh, Lives)
        BY <1>0, <3>3, <3>5 DEF Before, Below
      <4> QED  BY <1>0, <3>2, <4>1, <4>2 DEF LivesInLine
    <3> QED  BY <3>2, <3>4, <3>5
  <2>2. CASE TakeLive
    <3>1. PICK f : f = Head(outCh)
      OBVIOUS
    <3>2. /\ outCh # <<>> /\ outCh' = Tail(outCh) /\ Of(outCh) = {f} \cup Of(outCh')
          /\ got # <<>> => got' = Append(got, f)
          /\ got = <<>> => got' = got
      BY <2>2, <3>1, LiveParts
    <3>3. CASE got' = got
      <4>1. Rising(outCh', Lives)
        BY <1>0, <1>t, <3>2, RisingTail
      <4>2. Before(got, outCh', Lives)
        BY <1>0, <3>2 DEF Before
      <4> QED  BY <1>0, <3>3, <4>1, <4>2 DEF LivesInLine
    <3>4. CASE got' = Append(got, Head(outCh))
      <4>1. Rising(got', Lives) /\ Rising(outCh', Lives) /\ Before(got', outCh', Lives)
        BY <1>0, <1>t, <3>2, <3>4, HandOver
      <4> QED  BY <4>1 DEF LivesInLine
    <3> QED  BY <3>1, <3>2, <3>3, <3>4
  <2>3. CASE UNCHANGED <<queueVars, got, jumped>>
    BY <1>0, <2>3 DEF LivesInLine, queueVars
  <2> QED  BY <1>3, <2>1, <2>2, <2>3, SelectKinds
<1> QED  BY <1>1, <1>2, <1>3, LaneSteps

LEMMA LapsedStays ==
    ASSUME AttachTypeOK, [AttachNext]_attachVars
    PROVE  lapsed' # TRUE => lapsed # TRUE
<1>t. lapsed \in BOOLEAN
  BY DEF AttachTypeOK
<1>1. \/ lapsed' = lapsed
      \/ DrainWait
  <2>1. CASE Still
    BY <2>1 DEF Still, ReplayDone, KickLost, ConnDies, Shutdown, Exiting, Exits, Publish,
                attachVars, recordVars
  <2>2. CASE Selects
    BY <2>2, SelectKinds
  <2>3. CASE BeginHold \/ SendState \/ SendReplay \/ TakeBatch \/ SkipReplayed \/ SendHeld
             \/ DropHold \/ FinishHold
    BY <2>3 DEF BeginHold, SendState, SendReplay, TakeBatch, SkipReplayed, SendHeld,
                DropHold, FinishHold, recordVars
  <2>4. ASSUME NEW p \in Panes, Snapshot(p) \/ HoldOutput(p) \/ Broadcast(p)
        PROVE  lapsed' = lapsed
    BY <2>4 DEF Snapshot, HoldOutput, Broadcast, recordVars
  <2> QED  BY <2>1, <2>2, <2>3, <2>4, Steps DEF Selects
<1> QED  BY <1>t, <1>1 DEF DrainWait

\* A client is held off live output while the attach is under way.
Held == pc \notin Over \cup {"detached", "drain"}
NoLives == outCh = <<>> /\ \A f \in Of(got) : f.kind # "live"
LivesBehind ==
    \A f \in Of(got) \cup Of(critCh) : \A g \in Of(got) \cup Of(outCh) :
        f \in Lines(end) /\ g \in Lives /\ f.pane = g.pane => f.pos < g.pos

LEMMA InitApart ==
    ASSUME AttachInit
    PROVE  Apart
BY OfEmpty DEF AttachInit, Apart

LEMMA NextApart ==
    ASSUME AttachTypeOK, Phases, Kinds, Reach, Apart, [AttachNext]_attachVars
    PROVE  Apart'
<1>t. outCh \in Seq(Frames) /\ got \in Seq(Frames) /\ critCh \in Seq(Frames) /\ lapsed \in BOOLEAN
  BY DEF AttachTypeOK
<1> SUFFICES ASSUME lapsed # TRUE, lapsed' # TRUE
             PROVE  (Held => NoLives)' /\ LivesBehind'
  BY LapsedStays DEF Apart, Held, NoLives, LivesBehind
<1>0. (Held => NoLives) /\ LivesBehind
  BY DEF Apart, Held, NoLives, LivesBehind
<1>1. CASE UNCHANGED <<got, critCh, outCh, shed, jumped, end>>
  <2>1. LivesBehind'
    BY <1>0, <1>1 DEF LivesBehind
  <2>2. CASE Held
    BY <1>0, <1>1, <2>1, <2>2 DEF NoLives
  <2>3. CASE ~Held' \/ (~Held /\ DrainWait)
    <3>1. DrainWait => NoLives'
      <4>1. DrainWait => outCh = <<>>
        BY <1>t DEF DrainWait, Drained
      <4>2. DrainWait => got = <<>>
        BY DEF DrainWait, Phases, Early
      <4> QED  BY <1>1, <4>1, <4>2, OfEmpty DEF NoLives
    <3> QED  BY <2>1, <2>3, <3>1
  <2>4. Held \/ ~Held' \/ DrainWait
    <3>1. CASE DrainWait \/ BeginHold \/ DropHold
      BY <3>1 DEF BeginHold, DropHold, Held, Over
    <3>2. CASE ReplayDone \/ KickLost \/ SendState \/ SendReplay \/ TakeBatch \/ SkipReplayed
               \/ SendHeld \/ FinishHold
      BY <3>2 DEF ReplayDone, KickLost, SendState, SendReplay, TakeBatch, SkipReplayed, SendHeld,
                  FinishHold, Held, Over
    <3>3. CASE ConnDies \/ Shutdown \/ Exiting \/ UNCHANGED attachVars
      <4>1. pc' = pc
        BY <3>3 DEF ConnDies, Shutdown, Exiting, Exits, attachVars, handlerVars
      <4> QED  BY <4>1 DEF Held
    <3>4. CASE Selects
      <4>1. pc' = pc
        BY <3>4, SelectKinds DEF handlerVars
      <4> QED  BY <4>1 DEF Held
    <3>5. ASSUME NEW p \in Panes, Publish(p) \/ HoldOutput(p) \/ Broadcast(p) \/ Snapshot(p)
          PROVE  Held \/ ~Held'
      <4>1. pc' = pc \/ pc = "replay"
        BY <3>5 DEF Publish, HoldOutput, Broadcast, Snapshot, handlerVars
      <4> QED  BY <4>1 DEF Held, Over
    <3> QED  BY <3>1, <3>2, <3>3, <3>4, <3>5, Steps DEF Still, Selects
  <2> QED  BY <1>1, <2>1, <2>2, <2>3, <2>4
<1>2. CASE SendState \/ SendReplay \/ SendHeld
  <2>1. UNCHANGED <<got, outCh, end>> /\ Held
    BY <1>2 DEF SendState, SendReplay, SendHeld, Held, Over
  <2>2. NoLives /\ NoLives'
    BY <1>0, <2>1 DEF NoLives
  <2> QED  BY <2>2, OfEmpty DEF NoLives, LivesBehind, Lives
<1>3. ASSUME NEW p \in Panes, Snapshot(p)
      PROVE  (Held => NoLives)' /\ LivesBehind'
  <2>1. UNCHANGED <<got, outCh>> /\ Held
    BY <1>3 DEF Snapshot, queueVars, Held, Over
  <2>2. NoLives /\ NoLives'
    BY <1>0, <2>1 DEF NoLives
  <2> QED  BY <2>2, OfEmpty DEF NoLives, LivesBehind, Lives
<1>4. ASSUME NEW p \in Panes, Broadcast(p)
      PROVE  (Held => NoLives)' /\ LivesBehind'
  <2>1. PICK n : n = Frame("live", p, outPos[p] - 1)
    OBVIOUS
  <2>2. n.kind = "live" /\ n.pane = p /\ n.pos = outPos[p] - 1
    BY <2>1, FrameFields
  <2>3. \/ outCh' = outCh
        \/ Of(outCh') = Of(outCh) \cup {n} /\ flag # TRUE
    <3>1. outCh' = outCh \/ Of(outCh') = Of(outCh) \cup {n}
      BY <1>4, <2>1, BroadcastParts
    <3>2. flag = TRUE => outCh' = outCh
      BY <1>4 DEF Broadcast, Wanted
    <3> QED  BY <3>1, <3>2
  <2>4. UNCHANGED <<got, critCh, end, pc>> /\ flush[p] = "appended"
    BY <1>4 DEF Broadcast, handlerVars
  <2>5. CASE outCh' = outCh
    BY <1>0, <2>4, <2>5 DEF Held, NoLives, LivesBehind
  <2>6. CASE Of(outCh') = Of(outCh) \cup {n} /\ flag # TRUE
    <3>1. ~Held'
      BY <2>4, <2>6 DEF Held, Phases, Over
    <3>2. ASSUME NEW f \in Of(got) \cup Of(critCh), f \in Lines(end), f.pane = p
          PROVE  f.pos < n.pos
      <4>1. Behind(f) /\ f \in Frames /\ f.kind \in {"state", "replay", "held"}
        BY <3>2 DEF Reach, Pool, Lines
      <4>2. f.kind \in {"replay", "held"}
        BY <3>2, <4>1, FrameParts
      <4> QED  BY <2>2, <2>4, <2>6, <3>2, <4>1, <4>2 DEF Behind
    <3>3. LivesBehind'
      BY <1>0, <2>2, <2>4, <2>6, <3>2 DEF LivesBehind
    <3> QED  BY <3>1, <3>3
  <2> QED  BY <2>3, <2>5, <2>6
<1>5. CASE Selects
  <2>t. UNCHANGED <<end, pc>>
    BY <1>5, SelectKinds DEF handlerVars
  <2>1. /\ Of(outCh') \subseteq Of(outCh) /\ Of(critCh') \subseteq Of(critCh)
        /\ Of(got') \subseteq Of(got) \cup Of(critCh) \cup Of(outCh)
        /\ outCh = <<>> => outCh' = <<>>
        /\ Of(got') \subseteq Of(got) \cup Of(critCh) \/ outCh # <<>>
    <3>1. CASE TakeCritical
      BY <3>1, CriticalParts
    <3>2. CASE TakeLive
      BY <3>2, LiveParts
    <3>3. CASE UNCHANGED <<queueVars, got, jumped>>
      BY <3>3 DEF queueVars
    <3> QED  BY <1>5, <3>1, <3>2, <3>3, SelectKinds
  <2>2. ASSUME NEW f \in Of(got') \cup Of(critCh'), f \in Lines(end)
        PROVE  f \in Of(got) \cup Of(critCh)
    BY <2>1, <2>2 DEF Kinds, Lines
  <2>3. ASSUME NEW g \in Of(got') \cup Of(outCh'), g \in Lives
        PROVE  g \in Of(got) \cup Of(outCh)
    BY <2>1, <2>3 DEF Kinds, Lines, Lives
  <2>4. LivesBehind'
    BY <1>0, <2>t, <2>2, <2>3 DEF LivesBehind
  <2>5. ASSUME Held'
        PROVE  NoLives'
    <3>1. NoLives
      BY <1>0, <2>t, <2>5 DEF Held
    <3>2. \A f \in Of(critCh) : f.kind # "live"
      BY DEF Kinds, Lines
    <3> QED  BY <2>1, <3>1, <3>2 DEF NoLives
  <2> QED  BY <2>4, <2>5
<1> QED  BY <1>1, <1>2, <1>3, <1>4, <1>5, QueueSteps

----------------------------------------------------------------------------
(* One live frame may jump the queue, and the state frame comes first *)

LEMMA InitJumps ==
    ASSUME AttachInit
    PROVE  Jumps
BY DEF AttachInit, Jumps

\* An attach that is over stays so, and queues no more.
LEMMA OverStays ==
    ASSUME [AttachNext]_attachVars, pc \in Over
    PROVE  pc' = pc /\ (critCh' = critCh \/ Selects)
<1>1. CASE Selects
  BY <1>1, SelectKinds DEF handlerVars
<1>2. ASSUME NEW p \in Panes, Publish(p) \/ HoldOutput(p) \/ Broadcast(p) \/ Snapshot(p)
      PROVE  pc' = pc /\ critCh' = critCh
  BY <1>2 DEF Publish, HoldOutput, Broadcast, Snapshot, Over, handlerVars, queueVars
<1>3. CASE ConnDies \/ Shutdown \/ Exiting \/ UNCHANGED attachVars
  BY <1>3 DEF ConnDies, Shutdown, Exiting, Exits, attachVars, handlerVars, queueVars
<1>4. ~(DrainWait \/ ReplayDone \/ KickLost \/ BeginHold \/ SendState \/ SendReplay \/ TakeBatch
        \/ SkipReplayed \/ SendHeld \/ DropHold \/ FinishHold)
  BY DEF DrainWait, ReplayDone, KickLost, BeginHold, SendState, SendReplay, TakeBatch,
         SkipReplayed, SendHeld, DropHold, FinishHold, Over
<1> QED  BY <1>1, <1>2, <1>3, <1>4, Steps DEF Still, Selects

LEMMA NextJumps ==
    ASSUME AttachTypeOK, Phases, Kinds, Apart, Jumps, [AttachNext]_attachVars
    PROVE  Jumps'
<1> SUFFICES ASSUME lapsed' # TRUE, lapsed # TRUE
             PROVE  \/ jumped' = {}
                    \/ /\ pc' \in Over /\ (\E f \in jumped' : jumped' = {f})
                       /\ critCh' = <<>> \/ loop' # "second"
  BY LapsedStays DEF Jumps
<1>0. \/ jumped = {}
      \/ pc \in Over /\ (\E f \in jumped : jumped = {f}) /\ (critCh = <<>> \/ loop # "second")
  BY DEF Jumps
<1>1. CASE Selects
  <2>t. pc' = pc
    BY <1>1, SelectKinds DEF handlerVars
  <2>1. CASE TakeCritical
    BY <1>0, <2>t, <2>1 DEF TakeCritical
  <2>2. CASE TakeLive /\ loop = "second" /\ critCh # <<>>
    <3>1. PICK f : f = Head(outCh)
      OBVIOUS
    <3>2. jumped' = jumped \cup {f} /\ loop' = "first" /\ outCh # <<>>
      BY <2>2, <3>1 DEF TakeLive
    <3>3. jumped = {}
      BY <1>0, <2>2
    <3>4. pc \in Over
      BY <2>2, <3>2 DEF Phases, Early, Apart
    <3> QED  BY <2>t, <3>2, <3>3, <3>4
  <2>3. CASE TakeLive /\ critCh = <<>>
    BY <1>0, <2>t, <2>3 DEF TakeLive
  <2>4. CASE UNCHANGED <<queueVars, got, jumped>> /\ (loop' = "second" => critCh = <<>>)
    BY <1>0, <2>t, <2>4 DEF queueVars
  <2> QED  BY <1>1, <2>1, <2>2, <2>3, <2>4, SelectKinds
<1>2. CASE ~Selects
  <2>1. jumped' = jumped
    BY <1>2, LaneSteps DEF Broadcast
  <2>2. loop' = loop
    <3>1. CASE Still
      BY <3>1 DEF Still, DrainWait, ReplayDone, KickLost, ConnDies, Shutdown, Exiting, Exits,
                  Publish, attachVars
    <3>2. ASSUME NEW p \in Panes, Snapshot(p) \/ HoldOutput(p) \/ Broadcast(p)
          PROVE  loop' = loop
      BY <3>2 DEF Snapshot, HoldOutput, Broadcast
    <3>3. CASE BeginHold \/ SendState \/ SendReplay \/ TakeBatch \/ SkipReplayed \/ SendHeld
               \/ DropHold \/ FinishHold
      BY <3>3 DEF BeginHold, SendState, SendReplay, TakeBatch, SkipReplayed, SendHeld, DropHold,
                  FinishHold
    <3> QED  BY <1>2, <3>1, <3>2, <3>3, Steps DEF Selects
  <2> QED  BY <1>0, <1>2, <2>1, <2>2, OverStays
<1> QED  BY <1>1, <1>2

LEMMA InitStateFirst ==
    ASSUME AttachInit
    PROVE  StateFirst
BY DEF AttachInit, StateFirst, Early

LEMMA DownSteps ==
    ASSUME [AttachNext]_attachVars
    PROVE  ConnDies \/ Shutdown \/ UNCHANGED <<conn, stopping>>
<1>1. CASE DrainWait \/ ReplayDone \/ KickLost \/ Exiting \/ UNCHANGED attachVars
  BY <1>1 DEF DrainWait, ReplayDone, KickLost, Exiting, Exits, attachVars, downVars
<1>2. ASSUME NEW p \in Panes, Publish(p) \/ Snapshot(p) \/ HoldOutput(p) \/ Broadcast(p)
      PROVE  UNCHANGED <<conn, stopping>>
  BY <1>2 DEF Publish, Snapshot, HoldOutput, Broadcast, downVars
<1>3. CASE BeginHold \/ SendState \/ SendReplay \/ TakeBatch \/ SkipReplayed \/ SendHeld
           \/ DropHold \/ FinishHold
  BY <1>3 DEF BeginHold, SendState, SendReplay, TakeBatch, SkipReplayed, SendHeld, DropHold,
              FinishHold, downVars
<1>4. CASE Selects
  BY <1>4, SelectKinds DEF downVars
<1> QED  BY <1>1, <1>2, <1>3, <1>4, Steps DEF Still, Selects

LEMMA ConnOpen ==
    ASSUME [AttachNext]_attachVars, conn' = "open"
    PROVE  conn = "open"
BY DownSteps DEF ConnDies, Shutdown

LEMMA NotStopping ==
    ASSUME AttachTypeOK, [AttachNext]_attachVars, stopping' # TRUE
    PROVE  stopping # TRUE
<1>1. ~Shutdown
  BY DEF Shutdown
<1>2. stopping' = stopping
  BY <1>1, DownSteps DEF ConnDies
<1> QED  BY <1>2

LEMMA HeadAppend ==
    ASSUME NEW S, NEW s \in Seq(S), s # <<>>, NEW f \in S
    PROVE  Head(Append(s, f)) = Head(s)
<1>1. /\ Len(s) \in Nat /\ Append(s, f) \in Seq(S) /\ Append(s, f) # <<>>
      /\ \A i \in 1 .. Len(s) : Append(s, f)[i] = s[i]
  BY AppendProperties, OfAppend
<1>2. Len(s) \in Nat \ {0} /\ Head(s) = s[1] /\ Head(Append(s, f)) = Append(s, f)[1]
  BY <1>1, TailParts
<1>3. 1 \in 1 .. Len(s)
  BY <1>2
<1> QED  BY <1>1, <1>2, <1>3

LEMMA NextStateFirst ==
    ASSUME AttachTypeOK, Phases, Kinds, StateFirst, [AttachNext]_attachVars
    PROVE  StateFirst'
<1> USE DEF Early
<1>t. critCh \in Seq(Frames) /\ got \in Seq(Frames)
  BY Typing
<1>0. /\ got = <<>> /\ critCh # <<>> => Head(critCh) = State
      /\ conn = "open" /\ pc \notin Early /\ got = <<>> => critCh # <<>>
  BY DEF StateFirst
<1>1. CASE SendState
  <2>1. got' = got /\ got = <<>> /\ critCh = <<>> /\ conn' = conn
    BY <1>1 DEF SendState, Phases, downVars
  <2>2. CASE conn = "open"
    <3>1. critCh' = <<State>>
      BY <1>1, <2>1, <2>2 DEF SendState
    <3> QED  BY <2>1, <3>1 DEF StateFirst
  <2>3. CASE conn # "open"
    <3>1. critCh' = <<>>
      BY <1>1, <2>1, <2>3 DEF SendState
    <3> QED  BY <2>1, <2>3, <3>1 DEF StateFirst
  <2> QED  BY <2>2, <2>3
<1>2. CASE SendReplay \/ SendHeld
  <2>1. UNCHANGED <<got, conn>> /\ pc \notin Early
    BY <1>2 DEF SendReplay, SendHeld, downVars
  <2>2. CASE critCh' = critCh
    BY <1>0, <2>1, <2>2 DEF StateFirst
  <2>3. ASSUME NEW f \in Frames, critCh' = Append(critCh, f), conn = "open"
        PROVE  StateFirst'
    <3>1. critCh' # <<>>
      BY <1>t, <2>3, OfAppend
    <3>2. CASE critCh = <<>>
      BY <1>0, <2>1, <2>3, <3>1, <3>2 DEF StateFirst
    <3>3. CASE critCh # <<>>
      <4>1. Head(critCh') = Head(critCh)
        BY <1>t, <2>3, <3>3, HeadAppend
      <4> QED  BY <1>0, <2>1, <3>1, <3>3, <4>1 DEF StateFirst
    <3> QED  BY <3>2, <3>3
  <2>4. critCh' = critCh \/ (critCh' = Append(critCh, Head(sending)) /\ conn = "open")
    BY <1>2 DEF SendReplay, SendHeld, PutCritical
  <2>5. critCh' = critCh \/ (critCh' = Append(critCh, Head(sending)) /\ Head(sending) \in Frames)
    BY <1>2, SentParts DEF Lines
  <2> QED  BY <2>2, <2>3, <2>4, <2>5
<1>3. CASE Selects
  <2>t. UNCHANGED <<pc, conn>>
    BY <1>3, SelectKinds DEF handlerVars, downVars
  <2>1. CASE TakeCritical
    <3>1. PICK f : f = Head(critCh)
      OBVIOUS
    <3>2. critCh # <<>> /\ f \in Frames /\ (got # <<>> \/ f = State => got' = Append(got, f))
      BY <2>1, <3>1, CriticalParts
    <3>3. got' = Append(got, f)
      BY <1>0, <3>1, <3>2
    <3>4. got' # <<>>
      BY <1>t, <3>2, <3>3, OfAppend
    <3> QED  BY <3>4 DEF StateFirst
  <2>2. CASE TakeLive
    <3>1. PICK f : f = Head(outCh)
      OBVIOUS
    <3>2. f \in Frames /\ critCh' = critCh /\ (got # <<>> => got' = Append(got, f))
      BY <2>2, <3>1, LiveParts
    <3>3. got # <<>> => got' # <<>>
      BY <1>t, <3>2, OfAppend
    <3> QED  BY <1>0, <2>t, <3>2, <3>3 DEF StateFirst
  <2>3. CASE UNCHANGED <<queueVars, got, jumped>>
    BY <1>0, <2>t, <2>3 DEF StateFirst, queueVars
  <2> QED  BY <1>3, <2>1, <2>2, <2>3, SelectKinds
<1>4. CASE UNCHANGED <<got, critCh>> /\ (pc' \notin Early => pc \notin Early)
  BY <1>0, <1>4, ConnOpen DEF StateFirst
<1>5. CASE Still \/ BeginHold \/ TakeBatch \/ SkipReplayed \/ DropHold \/ FinishHold
  <2>1. pc' \notin Early => pc \notin Early
    BY <1>5 DEF Still, DrainWait, ReplayDone, KickLost, ConnDies, Shutdown, Exiting, Exits,
                Publish, attachVars,
                BeginHold, TakeBatch, SkipReplayed, DropHold, FinishHold, handlerVars
  <2>2. UNCHANGED <<got, critCh>>
    BY <1>5, StillParts DEF BeginHold, TakeBatch, SkipReplayed, DropHold, FinishHold, queueVars
  <2> QED  BY <1>4, <2>1, <2>2
<1>6. ASSUME NEW p \in Panes, Snapshot(p) \/ HoldOutput(p) \/ Broadcast(p)
      PROVE  StateFirst'
  <2>1. pc' \notin Early => pc \notin Early
    BY <1>6 DEF Snapshot, HoldOutput, Broadcast, handlerVars
  <2>2. UNCHANGED <<got, critCh>>
    BY <1>6 DEF Snapshot, HoldOutput, Broadcast, queueVars
  <2> QED  BY <1>4, <2>1, <2>2
<1> QED  BY <1>1, <1>2, <1>3, <1>5, <1>6, Steps DEF Selects

----------------------------------------------------------------------------
(* What was sent, held or is in hand comes *)

\* What is queued as critical reaches the client.
LEMMA SentStays ==
    ASSUME AttachTypeOK, Phases, Kinds, StateFirst, [AttachNext]_attachVars
    PROVE  Of(got) \cup Of(critCh) \subseteq Of(got') \cup Of(critCh')
<1>1. CASE UNCHANGED <<got, critCh, outCh, shed, jumped, end>>
  BY <1>1
<1>2. CASE SendState
  <2>1. got' = got /\ (critCh' = critCh \/ critCh' = Append(critCh, State))
    BY <1>2 DEF SendState
  <2>2. Of(Append(critCh, State)) = Of(critCh) \cup {State}
    BY FrameParts, OfAppend DEF AttachTypeOK
  <2> QED  BY <2>1, <2>2
<1>3. CASE SendReplay \/ SendHeld
  <2>1. got' = got
    BY <1>3 DEF SendReplay, SendHeld
  <2>2. CASE critCh' = critCh
    BY <2>1, <2>2
  <2>3. CASE Head(sending) \in Lines(end) /\ critCh' = Append(critCh, Head(sending))
    <3>1. critCh \in Seq(Frames) /\ Head(sending) \in Frames
      BY <2>3 DEF AttachTypeOK, Lines
    <3>2. Of(critCh') = Of(critCh) \cup {Head(sending)}
      BY <2>3, <3>1, OfAppend
    <3> QED  BY <2>1, <3>2
  <2> QED  BY <1>3, <2>2, <2>3, SentParts
<1>4. CASE Selects
  <2>1. CASE TakeCritical
    <3>1. PICK f : f = Head(critCh)
      OBVIOUS
    <3>2. /\ critCh # <<>> /\ Of(critCh) = {f} \cup Of(critCh')
          /\ got # <<>> \/ f = State => Of(got') = Of(got) \cup {f}
      BY <2>1, <3>1, CriticalParts
    <3>3. got = <<>> => f = State
      BY <3>1, <3>2 DEF StateFirst
    <3> QED  BY <3>2, <3>3
  <2>2. CASE TakeLive
    <3>1. Of(got) \subseteq Of(got') /\ critCh' = critCh
      BY <2>2, LiveParts
    <3> QED  BY <3>1
  <2>3. CASE UNCHANGED <<queueVars, got, jumped>>
    BY <2>3 DEF queueVars
  <2> QED  BY <1>4, <2>1, <2>2, <2>3, SelectKinds
<1>5. ASSUME NEW p \in Panes, Snapshot(p)
      PROVE  got' = got /\ critCh' = critCh
  BY <1>5 DEF Snapshot, queueVars
<1>6. ASSUME NEW p \in Panes, Broadcast(p)
      PROVE  got' = got /\ critCh' = critCh
  BY <1>6 DEF Broadcast
<1> QED  BY <1>1, <1>2, <1>3, <1>4, <1>5, <1>6, QueueSteps

\* While the connection lives and nothing stops, what the handler has in hand is
\* sent, but for held bytes that its replays carry.
LEMMA HandStays ==
    ASSUME AttachTypeOK, Phases, Kinds, [AttachNext]_attachVars,
           conn' = "open", stopping' # TRUE, NEW f \in Of(sending)
    PROVE  \/ f \in Of(sending') \cup Of(critCh')
           \/ SkipReplayed /\ f.kind \in {"held", "hole"} /\ ~Due(f)
<1>0. conn = "open" /\ stopping # TRUE
  BY ConnOpen, NotStopping
<1>t. sending \in Seq(Frames \cup {Hole}) /\ critCh \in Seq(Frames) /\ sending # <<>>
      /\ stopping \in BOOLEAN
  BY OfEmpty DEF AttachTypeOK
<1>p. pc \in {"sending", "held"}
  BY <1>t DEF Phases
<1>1. CASE UNCHANGED sending
  BY <1>1
<1>2. CASE SendReplay \/ SendHeld
  <2>1. /\ Head(sending) \in Lines(end) /\ critCh' = Append(critCh, Head(sending))
        /\ sending' = Tail(sending)
    BY <1>0, <1>2, SentParts
  <2>2. Of(critCh') = Of(critCh) \cup {Head(sending)}
    <3>1. Head(sending) \in Frames
      BY <2>1 DEF Lines
    <3> QED  BY <1>t, <2>1, <3>1, OfAppend
  <2>3. Of(sending) = {Head(sending)} \cup Of(sending')
    BY <1>t, <2>1, OfTail
  <2> QED  BY <2>2, <2>3
<1>3. CASE SkipReplayed
  <2>1. pc = "held" /\ ~Due(Head(sending)) /\ sending' = Tail(sending)
    BY <1>3 DEF SkipReplayed
  <2>2. Of(sending) = {Head(sending)} \cup Of(sending')
    BY <1>t, <2>1, OfTail
  <2>3. f.kind \in {"held", "hole"}
    BY <2>1 DEF Kinds
  <2> QED  BY <1>3, <2>1, <2>2, <2>3
<1>4. ~DropHold
  BY <1>0, <1>t DEF DropHold, Refused
<1>5. ~TakeBatch
  BY <1>p DEF TakeBatch
<1>6. ASSUME NEW p \in Panes
      PROVE  ~Snapshot(p)
  BY <1>p DEF Snapshot
<1>7. CASE BeginHold \/ SendState \/ FinishHold
  BY <1>1, <1>7 DEF BeginHold, SendState, FinishHold
<1>8. ASSUME NEW p \in Panes, HoldOutput(p) \/ Broadcast(p)
      PROVE  UNCHANGED sending
  BY <1>8 DEF HoldOutput, Broadcast, handlerVars
<1>9. CASE Selects
  <2>1. UNCHANGED sending
    BY <1>9, SelectKinds DEF handlerVars
  <2> QED  BY <1>1, <2>1
<1>10. CASE Still
  BY <1>1, <1>10, StillParts
<1> QED
  BY <1>1, <1>2, <1>3, <1>4, <1>5, <1>6, <1>7, <1>8, <1>9, <1>10, Steps DEF Selects

LEMMA InitReplayComes ==
    ASSUME AttachInit
    PROVE  ReplayComes
<1>1. ASSUME NEW p \in Panes
      PROVE  0 .. (end[p] - 1) = {}
  BY DEF AttachInit
<1> QED  BY <1>1 DEF ReplayComes

LEMMA NextReplayComes ==
    ASSUME AttachTypeOK, Phases, Kinds, Reach, StateFirst, ReplayComes, [AttachNext]_attachVars
    PROVE  ReplayComes'
<1> SUFFICES ASSUME conn' = "open", stopping' # TRUE, NEW p \in Panes,
                    NEW b \in 0 .. (end'[p] - 1)
             PROVE  Frame("replay", p, b) \in Of(got') \cup Of(critCh') \cup Of(sending')
  BY DEF ReplayComes
<1>0. conn = "open" /\ stopping # TRUE
  BY ConnOpen, NotStopping
<1>t. end \in [Panes -> Nat] /\ outPos \in [Panes -> Nat]
  BY DEF AttachTypeOK
<1>1. CASE end'[p] = end[p]
  <2>1. Frame("replay", p, b) \in Of(got) \cup Of(critCh) \cup Of(sending)
    BY <1>0, <1>1 DEF ReplayComes
  <2>2. Frame("replay", p, b).kind = "replay"
    BY FrameFields
  <2> QED  BY <2>1, <2>2, SentStays, HandStays
<1>2. ASSUME NEW q \in Panes, Snapshot(q), end'[p] # end[p]
      PROVE  Frame("replay", p, b) \in Of(sending')
  <2>1. /\ end' = [end EXCEPT ![q] = outPos[q]]
        /\ sending' = [i \in 1 .. outPos[q] |-> Frame("replay", q, i - 1)]
    BY <1>2 DEF Snapshot
  <2>2. q = p /\ end'[p] = outPos[p] /\ outPos[p] \in Nat
    BY <1>t, <1>2, <2>1
  <2> QED  BY <2>1, <2>2, ReplaySent
<1>3. end' = end \/ \E q \in Panes : Snapshot(q)
  <2>1. CASE SendState \/ SendReplay \/ SendHeld
    BY <2>1 DEF SendState, SendReplay, SendHeld
  <2>2. CASE Selects
    BY <2>2, SelectKinds DEF handlerVars
  <2>3. ASSUME NEW q \in Panes, Broadcast(q)
        PROVE  end' = end
    BY <2>3 DEF Broadcast, handlerVars
  <2> QED  BY <2>1, <2>2, <2>3, QueueSteps
<1> QED  BY <1>1, <1>2, <1>3

\* A pane that has lost no held output has lost none.
LEMMA LossKept ==
    ASSUME AttachTypeOK, Phases, [AttachNext]_attachVars, conn' = "open", stopping' # TRUE,
           viewer # TRUE, pc # "detached", NEW p \in Panes,
           p \notin lost' \cup kicks' \cup silent', <<p, "lost">> \notin kicked'
    PROVE  p \notin lost \cup kicks \cup silent /\ <<p, "lost">> \notin kicked
<1>0. conn = "open" /\ stopping # TRUE /\ stopping \in BOOLEAN /\ viewer \in BOOLEAN
  BY ConnOpen, NotStopping DEF AttachTypeOK
<1>1. CASE UNCHANGED <<lost, kicks, kicked, silent>>
  BY <1>1
<1>2. CASE KickLost
  <2>1. /\ lost' = lost /\ silent' = silent \cup (kicks \cap exited)
        /\ kicked' = kicked \cup ((kicks \ exited) \X {"lost"})
    BY <1>0, <1>2 DEF KickLost, holdVars
  <2> QED  BY <2>1
<1>3. CASE TakeBatch
  <2>1. kicks' = lost /\ kicks = {} /\ kicked' = kicked /\ silent' = silent
    BY <1>3 DEF TakeBatch, Phases, recordVars
  <2> QED  BY <2>1
<1>4. ~DropHold /\ ~BeginHold
  BY <1>0 DEF DropHold, Refused, BeginHold
<1>5. CASE FinishHold
  <2>1. UNCHANGED <<kicks, kicked, silent>> /\ (lost' = lost \/ lost = {})
    BY <1>5 DEF FinishHold, NothingHeld, recordVars, holdVars
  <2> QED  BY <2>1
<1>6. ASSUME NEW q \in Panes, HoldOutput(q)
      PROVE  lost \subseteq lost' /\ UNCHANGED <<kicks, kicked, silent>>
  BY <1>6 DEF HoldOutput, handlerVars, recordVars
<1>7. ASSUME NEW q \in Panes, Snapshot(q)
      PROVE  UNCHANGED <<lost, kicks, silent>> /\ kicked \subseteq kicked'
  BY <1>7 DEF Snapshot, holdVars
<1>8. ASSUME NEW q \in Panes, Broadcast(q) \/ Publish(q)
      PROVE  UNCHANGED <<lost, kicks, kicked, silent>>
  BY <1>8 DEF Broadcast, Publish, holdVars, handlerVars, recordVars
<1>9. CASE SendState \/ SendReplay \/ SendHeld \/ SkipReplayed \/ DrainWait \/ ReplayDone
           \/ ConnDies \/ Shutdown \/ Exiting \/ UNCHANGED attachVars
  BY <1>1, <1>9 DEF SendState, SendReplay, SendHeld, SkipReplayed, DrainWait, ReplayDone, ConnDies,
                    Shutdown, Exiting, Exits, attachVars, holdVars, handlerVars, recordVars
<1>10. CASE Selects
  <2>1. UNCHANGED <<lost, kicks, kicked, silent>>
    BY <1>10, SelectKinds DEF holdVars, handlerVars
  <2> QED  BY <1>1, <2>1
<1> QED
  BY <1>1, <1>2, <1>3, <1>4, <1>5, <1>6, <1>7, <1>8, <1>9, <1>10, Steps DEF Still, Selects

\* A byte held for a pane that loses none is sent, or a replay carries it.
LEMMA HeldStays ==
    ASSUME AttachTypeOK, Phases, Kinds, StateFirst, [AttachNext]_attachVars,
           conn' = "open", stopping' # TRUE, pc # "detached",
           NEW p \in Panes, NEW b \in Nat, p \notin lost',
           Frame("held", p, b) \in Of(got) \cup Of(critCh) \cup Of(sending) \cup Of(chunks)
    PROVE  Located(p, b)'
<1> DEFINE h == Frame("held", p, b)
<1>h. h.kind = "held" /\ h.pane = p /\ h.pos = b /\ h \in Frames /\ h # Hole
  BY FrameFields, NewFrames, FrameParts
<1> SUFFICES \/ b < end'[p]
             \/ h \in Of(got') \cup Of(critCh') \cup Of(sending') \cup Of(chunks')
  BY DEF Located
<1> HIDE DEF h
<1>0. conn = "open" /\ stopping # TRUE /\ stopping \in BOOLEAN
  BY ConnOpen, NotStopping DEF AttachTypeOK
<1>1. CASE h \in Of(got) \cup Of(critCh)
  BY <1>1, SentStays
<1>2. CASE h \in Of(sending)
  <2>1. CASE SkipReplayed /\ ~Due(h)
    <3>1. b < end[p] /\ end' = end
      BY <1>h, <2>1 DEF SkipReplayed, Due, Replayed
    <3> QED  BY <3>1
  <2> QED  BY <1>2, <2>1, HandStays
<1>3. CASE h \in Of(chunks)
  <2>1. CASE UNCHANGED chunks
    BY <1>3, <2>1
  <2>2. CASE TakeBatch
    BY <1>3, <2>2 DEF TakeBatch
  <2>3. ASSUME NEW q \in Panes, HoldOutput(q)
        PROVE  h \in Of(chunks')
    <3>1. chunks \in Seq(Frames \cup {Hole})
      BY DEF AttachTypeOK
    <3>2. CASE chunks' = chunks
      BY <1>3, <3>2
    <3>3. CASE chunks' = Append(chunks, Frame("held", q, outPos[q] - 1))
      <4>1. Of(chunks) \subseteq Of(chunks')
        <5>1. DOMAIN chunks = 1 .. Len(chunks) /\ Len(chunks) \in Nat
          BY <3>1
        <5>2. /\ DOMAIN chunks' = 1 .. (Len(chunks) + 1)
              /\ \A i \in 1 .. Len(chunks) : chunks'[i] = chunks[i]
          BY <3>1, <3>3
        <5> QED  BY <5>1, <5>2 DEF Of
      <4> QED  BY <1>3, <4>1
    <3>4. CASE chunks' = Dropped(chunks, q) /\ lost' = lost \cup {q}
      <4>1. q # p
        BY <3>4
      <4> QED  BY <1>3, <1>h, <3>1, <3>4, <4>1, HoleDrops
    <3> QED  BY <2>3, <3>2, <3>3, <3>4 DEF HoldOutput
  <2>4. ~DropHold /\ ~BeginHold
    BY <1>0 DEF DropHold, Refused, BeginHold
  <2>5. CASE FinishHold
    <3>1. chunks # <<>>
      BY <1>3, OfEmpty
    <3>2. UNCHANGED chunks
      BY <2>5, <3>1 DEF FinishHold, NothingHeld, holdVars
    <3> QED  BY <2>1, <3>2
  <2>6. CASE SendState \/ SendReplay \/ SendHeld \/ SkipReplayed
    BY <2>1, <2>6 DEF SendState, SendReplay, SendHeld, SkipReplayed, holdVars
  <2>7. ASSUME NEW q \in Panes, Snapshot(q) \/ Broadcast(q)
        PROVE  UNCHANGED chunks
    BY <2>7 DEF Snapshot, Broadcast, holdVars
  <2>8. CASE Selects
    <3>1. UNCHANGED chunks
      BY <2>8, SelectKinds DEF holdVars
    <3> QED  BY <2>1, <3>1
  <2>9. CASE Still
    BY <2>1, <2>9, StillParts
  <2> QED
    BY <2>1, <2>2, <2>3, <2>4, <2>5, <2>6, <2>7, <2>8, <2>9, Steps DEF Selects
<1> QED  BY <1>1, <1>2, <1>3 DEF h

\* A live frame behind the hold is queued, shed, or has jumped.
LEMMA LiveStays ==
    ASSUME AttachTypeOK, Phases, Kinds, Reach, StateFirst, [AttachNext]_attachVars,
           conn' = "open", pc # "detached", NEW f \in Frames, f.kind = "live",
           f.pos >= since[f.pane], f \in Of(got) \cup Of(outCh) \cup shed \cup jumped
    PROVE  f \in Of(got') \cup Of(outCh') \cup shed' \cup jumped'
<1>0. conn = "open"
  BY ConnOpen
<1>1. CASE UNCHANGED <<got, outCh, jumped, shed>>
  BY <1>1
<1>2. ASSUME NEW p \in Panes, Broadcast(p)
      PROVE  f \in Of(got') \cup Of(outCh') \cup shed' \cup jumped'
  <2>1. PICK n : n = Frame("live", p, outPos[p] - 1)
    OBVIOUS
  <2>2. got' = got /\ jumped' = jumped
    BY <1>2 DEF Broadcast
  <2>3. \/ outCh' = outCh /\ shed' = shed
        \/ Of(outCh') = Of(outCh) \cup {n} /\ shed' = shed
        \/ outCh' = outCh /\ shed' = shed \cup {n}
    BY <1>2, <2>1, BroadcastParts
  <2> QED  BY <2>2, <2>3
<1>3. CASE Selects
  <2>0. shed' = shed
    BY <1>3, SelectKinds
  <2>1. CASE TakeCritical
    <3>1. Of(got) \subseteq Of(got') /\ outCh' = outCh /\ jumped' = jumped
      BY <2>1, CriticalParts
    <3> QED  BY <2>0, <3>1
  <2>2. CASE TakeLive
    <3>1. PICK l : l = Head(outCh)
      OBVIOUS
    <3>2. /\ Of(outCh) = {l} \cup Of(outCh') /\ Of(got) \subseteq Of(got')
          /\ jumped' = IF critCh = <<>> THEN jumped ELSE jumped \cup {l}
          /\ got # <<>> => Of(got') = Of(got) \cup {l}
      BY <2>2, <3>1, LiveParts
    <3>3. f = l /\ got = <<>> => critCh # <<>>
      <4>1. SUFFICES ASSUME f = l, got = <<>>, critCh = <<>>
                     PROVE  FALSE
        OBVIOUS
      <4>2. pc \in Early
        BY <1>0, <4>1 DEF StateFirst
      <4>3. flag = TRUE
        BY <4>2 DEF Early, Over, Phases
      <4>4. f.pos < since[f.pane]
        BY <3>2, <4>1, <4>3 DEF Reach
      <4>5. f.pos \in Nat /\ since[f.pane] \in Nat
        BY FrameParts DEF AttachTypeOK
      <4> QED  BY <4>4, <4>5
    <3> QED  BY <2>0, <3>2, <3>3
  <2>3. CASE UNCHANGED <<queueVars, got, jumped>>
    BY <2>0, <2>3 DEF queueVars
  <2> QED  BY <1>3, <2>1, <2>2, <2>3, SelectKinds
<1> QED  BY <1>1, <1>2, <1>3, LaneSteps

\* A byte in a flush's hand is held or goes out live.
LEMMA InHandComes ==
    ASSUME AttachTypeOK, Phases, Reach, [AttachNext]_attachVars,
           conn' = "open", stopping' # TRUE, pc # "detached",
           NEW p \in Panes, p \notin lost, p \notin lost', InHand(p)
    PROVE  Located(p, outPos[p] - 1)'
<1>t. /\ flush \in [Panes -> {"out", "published", "appended"}] /\ outPos \in [Panes -> Nat]
      /\ flag \in BOOLEAN
  BY DEF AttachTypeOK
<1>0. conn = "open" /\ flush[p] # "out" /\ ~GateFree
  BY ConnOpen DEF InHand, GateFree
<1>1. CASE UNCHANGED <<outPos, flag>> /\ flush'[p] = flush[p]
  BY <1>1 DEF Located, InHand
<1>2. ASSUME NEW q \in Panes, HoldOutput(q)
      PROVE  Located(p, outPos[p] - 1)'
  <2>1. /\ UNCHANGED <<outPos, flag>> /\ flush[q] = "published"
        /\ flush' = [flush EXCEPT ![q] = "appended"]
    BY <1>2 DEF HoldOutput
  <2>2. CASE q # p
    BY <1>1, <1>t, <2>1, <2>2
  <2>3. CASE q = p
    <3>1. flush'[p] = "appended"
      BY <1>t, <2>1, <2>3
    <3>2. CASE flag # TRUE
      BY <2>1, <3>1, <3>2 DEF Located, InHand
    <3>3. CASE flag = TRUE
      <4>1. PICK f : f = Frame("held", p, outPos[p] - 1)
        OBVIOUS
      <4>2. f \in Of(chunks')
        <5>1. \/ flag # TRUE \/ p \in lost
              \/ Of(chunks') = Of(chunks) \cup {f}
              \/ lost' = lost \cup {p}
          BY <1>2, <2>3, <4>1, HoldParts
        <5> QED  BY <3>3, <5>1
      <4> QED  BY <2>1, <4>1, <4>2 DEF Located
    <3> QED  BY <3>2, <3>3
  <2> QED  BY <2>2, <2>3
<1>3. ASSUME NEW q \in Panes, Broadcast(q)
      PROVE  Located(p, outPos[p] - 1)'
  <2>1. /\ UNCHANGED <<outPos, flag>> /\ flush[q] = "appended"
        /\ flush' = [flush EXCEPT ![q] = "out"]
    BY <1>3 DEF Broadcast, holdVars
  <2>2. CASE q # p
    BY <1>1, <1>t, <2>1, <2>2
  <2>3. CASE q = p
    <3>1. PICK f : f = Frame("live", p, outPos[p] - 1)
      OBVIOUS
    <3>2. flag # TRUE
      BY <2>1, <2>3 DEF InHand
    <3>3. f \in Of(outCh') \cup shed'
      <4>1. \/ conn # "open" \/ flag = TRUE
            \/ Of(outCh') = Of(outCh) \cup {f}
            \/ shed' = shed \cup {f}
        BY <1>3, <2>3, <3>1, BroadcastParts
      <4> QED  BY <1>0, <3>2, <4>1
    <3> QED  BY <2>1, <3>1, <3>3 DEF Located
  <2> QED  BY <2>2, <2>3
<1>4. ASSUME NEW q \in Panes, Publish(q)
      PROVE  UNCHANGED flag /\ outPos'[p] = outPos[p] /\ flush'[p] = flush[p]
  <2>1. q # p /\ flag' = flag
    BY <1>0, <1>4 DEF Publish, holdVars
  <2> QED  BY <1>t, <1>4, <2>1 DEF Publish
<1>5. ~BeginHold /\ ~DropHold /\ ~FinishHold
  BY <1>0 DEF BeginHold, DropHold, EndHold, FinishHold
<1>6. CASE \/ SendState \/ SendReplay \/ SendHeld \/ SkipReplayed \/ TakeBatch \/ DrainWait
           \/ ReplayDone \/ KickLost \/ ConnDies \/ Shutdown \/ Exiting \/ UNCHANGED attachVars
  <2>1. UNCHANGED <<outPos, flag, flush>>
    BY <1>6 DEF SendState, SendReplay, SendHeld, SkipReplayed, TakeBatch, DrainWait, ReplayDone,
                KickLost, ConnDies, Shutdown, Exiting, Exits, attachVars, holdVars, paneVars
  <2> QED  BY <1>1, <2>1
<1>7. ASSUME NEW q \in Panes, Snapshot(q)
      PROVE  UNCHANGED <<outPos, flag, flush>>
  BY <1>7 DEF Snapshot, holdVars, paneVars
<1>8. CASE Selects
  <2>1. UNCHANGED <<outPos, flag, flush>>
    BY <1>8, SelectKinds DEF holdVars, paneVars
  <2> QED  BY <1>1, <2>1
<1>9. CASE UNCHANGED flag /\ outPos'[p] = outPos[p] /\ flush'[p] = flush[p]
  BY <1>9 DEF Located, InHand
<1> QED
  BY <1>1, <1>2, <1>3, <1>4, <1>5, <1>6, <1>7, <1>8, <1>9, Steps DEF Still, Selects

LEMMA InitRestComes ==
    ASSUME AttachInit
    PROVE  RestComes
BY DEF AttachInit, RestComes

LEMMA NextRestComes ==
    ASSUME AttachTypeOK, Phases, Kinds, Reach, StateFirst, RestComes, [AttachNext]_attachVars
    PROVE  RestComes'
<1> SUFFICES ASSUME conn' = "open", stopping' # TRUE, viewer' # TRUE, pc' # "detached",
                    NEW p \in Panes, p \notin lost' \cup kicks' \cup silent',
                    <<p, "lost">> \notin kicked',
                    NEW b \in since'[p] .. (outPos'[p] - 1)
             PROVE  Located(p, b)'
  BY DEF RestComes
<1>t. /\ outPos \in [Panes -> Nat] /\ since \in [Panes -> Nat] /\ end \in [Panes -> Nat]
      /\ flush \in [Panes -> {"out", "published", "appended"}]
  BY DEF AttachTypeOK
<1>0. conn = "open" /\ stopping # TRUE
  BY ConnOpen, NotStopping
<1>1. CASE BeginHold
  <2>1. since' = outPos /\ outPos' = outPos
    BY <1>1 DEF BeginHold, paneVars
  <2> QED  BY <1>t, <2>1
<1>2. pc # "detached" \/ BeginHold
  <2>1. CASE Still
    BY <2>1 DEF Still, DrainWait, ReplayDone, KickLost, ConnDies, Shutdown, Exiting, Exits,
                Publish, handlerVars,
                attachVars
  <2>2. CASE SendState \/ SendReplay \/ TakeBatch \/ SkipReplayed \/ SendHeld \/ DropHold \/ FinishHold
    BY <2>2 DEF SendState, SendReplay, TakeBatch, SkipReplayed, SendHeld, DropHold, FinishHold
  <2>3. ASSUME NEW q \in Panes, Snapshot(q) \/ HoldOutput(q) \/ Broadcast(q)
        PROVE  pc # "detached"
    BY <2>3 DEF Snapshot, HoldOutput, Broadcast, handlerVars
  <2>4. CASE Selects
    <3>1. pc' = pc
      BY <2>4, SelectKinds DEF handlerVars
    <3> QED  BY <3>1
  <2> QED  BY <2>1, <2>2, <2>3, <2>4, Steps DEF Selects
<1> SUFFICES ASSUME pc # "detached", ~BeginHold
             PROVE  Located(p, b)'
  BY <1>1, <1>2 DEF BeginHold
<1>3. viewer # TRUE
  <2>1. viewer' = viewer
    <3>1. CASE Still
      BY <3>1, StillParts
    <3>2. CASE SendState \/ SendReplay \/ TakeBatch \/ SkipReplayed \/ SendHeld \/ DropHold
               \/ FinishHold
      BY <3>2 DEF SendState, SendReplay, TakeBatch, SkipReplayed, SendHeld, DropHold, FinishHold
    <3>3. ASSUME NEW q \in Panes, Snapshot(q) \/ HoldOutput(q) \/ Broadcast(q)
          PROVE  viewer' = viewer
      BY <3>3 DEF Snapshot, HoldOutput, Broadcast
    <3>4. CASE Selects
      BY <3>4, SelectKinds
    <3> QED  BY <3>1, <3>2, <3>3, <3>4, Steps DEF Selects
  <2> QED  BY <2>1
<1>4. p \notin lost \cup kicks \cup silent /\ <<p, "lost">> \notin kicked
  BY <1>3, LossKept
<1>5. since' = since
  <2>1. CASE Still
    BY <2>1, StillParts
  <2>2. CASE SendState \/ SendReplay \/ TakeBatch \/ SkipReplayed \/ SendHeld \/ DropHold \/ FinishHold
    BY <2>2 DEF SendState, SendReplay, TakeBatch, SkipReplayed, SendHeld, DropHold, FinishHold,
                recordVars
  <2>3. ASSUME NEW q \in Panes, Snapshot(q) \/ HoldOutput(q) \/ Broadcast(q)
        PROVE  since' = since
    BY <2>3 DEF Snapshot, HoldOutput, Broadcast, recordVars
  <2>4. CASE Selects
    BY <2>4, SelectKinds
  <2> QED  BY <2>1, <2>2, <2>3, <2>4, Steps DEF Selects
<1>6. b \in Nat /\ b >= since[p]
  BY <1>t, <1>5
<1>7. ASSUME NEW q \in Panes, Publish(q)
      PROVE  Located(p, b)' \/ b < outPos[p]
  <2>1. /\ outPos' = [outPos EXCEPT ![q] = @ + 1]
        /\ flush' = [flush EXCEPT ![q] = "published"]
    BY <1>7 DEF Publish
  <2>2. CASE q # p
    <3>1. outPos'[p] = outPos[p] /\ outPos[p] \in Nat
      BY <1>t, <2>1, <2>2
    <3> QED  BY <1>6, <3>1
  <2>3. CASE q = p
    <3>1. outPos'[p] = outPos[p] + 1 /\ flush'[p] = "published" /\ outPos[p] \in Nat
      BY <1>t, <2>1, <2>3
    <3>2. b < outPos[p] \/ b = outPos'[p] - 1
      BY <1>6, <3>1
    <3> QED  BY <3>1, <3>2 DEF Located, InHand
  <2> QED  BY <2>2, <2>3
<1>8. outPos'[p] = outPos[p] \/ \E q \in Panes : Publish(q)
  BY Streams
<1>9. CASE b < outPos[p]
  <2>1. b \in since[p] .. (outPos[p] - 1)
    BY <1>t, <1>6, <1>9
  <2>2. Located(p, b)
    BY <1>0, <1>3, <1>4, <2>1 DEF RestComes
  <2>3. CASE b < end[p]
    <3>1. end[p] <= end'[p] /\ end'[p] \in Nat /\ end[p] \in Nat
      <4>1. end'[p] = end[p] \/ (end[p] = 0 /\ end'[p] = outPos[p])
        <5>1. end' = end \/ \E q \in Panes : end' = [end EXCEPT ![q] = outPos[q]] /\ end[q] = 0
          BY Streams
        <5> QED  BY <1>t, <5>1
      <4> QED  BY <1>t, <4>1
    <3>2. b < end'[p]
      BY <1>6, <2>3, <3>1
    <3> QED  BY <3>2 DEF Located
  <2>4. CASE Frame("held", p, b) \in Of(got) \cup Of(critCh) \cup Of(sending) \cup Of(chunks)
    BY <1>6, <2>4, HeldStays
  <2>5. CASE Frame("live", p, b) \in Of(got) \cup Of(outCh) \cup shed \cup jumped
    <3>1. PICK f : f = Frame("live", p, b)
      OBVIOUS
    <3>2. f \in Frames /\ f.kind = "live" /\ f.pane = p /\ f.pos = b
      BY <1>6, <3>1, NewFrames, FrameFields
    <3>3. f \in Of(got') \cup Of(outCh') \cup shed' \cup jumped'
      BY <1>6, <2>5, <3>1, <3>2, LiveStays
    <3> QED  BY <3>1, <3>3 DEF Located
  <2>6. CASE b = outPos[p] - 1 /\ InHand(p)
    <3>1. Located(p, outPos[p] - 1)'
      BY <1>4, <2>6, InHandComes
    <3>2. outPos'[p] = outPos[p]
      <4>1. flush[p] # "out"
        BY <2>6 DEF InHand
      <4> QED  BY <1>t, <1>8, <4>1 DEF Publish
    <3> QED  BY <2>6, <3>1, <3>2 DEF Located
  <2> QED  BY <2>2, <2>3, <2>4, <2>5, <2>6 DEF Located
<1> QED
  <2>1. CASE outPos'[p] = outPos[p]
    <3>1. b < outPos[p]
      BY <1>t, <1>6, <2>1
    <3> QED  BY <1>9, <3>1
  <2> QED  BY <1>7, <1>8, <1>9, <2>1

----------------------------------------------------------------------------
(* The invariant, and what follows from it *)

LEMMA InitHold ==
    ASSUME AttachInit
    PROVE  HoldIInv
BY InitTyped, InitPhases, InitKinds, InitReach, InitInLine, InitLivesInLine, InitApart, InitJumps,
   InitStateFirst, InitReplayComes, InitRestComes DEF HoldIInv

LEMMA NextHold ==
    ASSUME HoldIInv, [AttachNext]_attachVars
    PROVE  HoldIInv'
<1> USE DEF HoldIInv
<1>1. AttachTypeOK'
  BY NextTyped
<1>2. Phases'
  BY NextPhases
<1>3. Kinds'
  BY NextKinds
<1>4. Reach'
  BY NextReach
<1>5. InLine'
  BY NextInLine
<1>6. LivesInLine'
  BY NextLivesInLine
<1>7. Apart'
  BY NextApart
<1>8. Jumps'
  BY NextJumps
<1>9. StateFirst'
  BY NextStateFirst
<1>10. ReplayComes'
  BY NextReplayComes
<1>11. RestComes'
  BY NextRestComes
<1> QED  BY <1>1, <1>2, <1>3, <1>4, <1>5, <1>6, <1>7, <1>8, <1>9, <1>10, <1>11

\* The invariant of an attach: where the handler is says what is held, and every
\* frame held, queued or applied is of a stream's bytes so far and in its place.
THEOREM HoldInvariance == AttachSpec => []HoldIInv
<1>1. AttachInit => HoldIInv
  BY InitHold
<1>2. HoldIInv /\ [AttachNext]_attachVars => HoldIInv'
  BY NextHold
<1> QED  BY <1>1, <1>2, PTL DEF AttachSpec

\* The state of an attach keeps its types, for any panes and bounds: no stream
\* runs past what the pane writes and the droppable queue keeps to its capacity.
THEOREM AttachTyped == AttachSpec => []AttachTypeOK
<1>1. HoldIInv => AttachTypeOK
  BY DEF HoldIInv
<1> QED  BY <1>1, HoldInvariance, PTL

LEMMA HoldIsOnce ==
    ASSUME HoldIInv
    PROVE  AppliedOnce
<1> SUFFICES ASSUME lapsed # TRUE, NEW i \in DOMAIN got, NEW j \in DOMAIN got, i < j,
                    got[i].pane = got[j].pane, got[i].pos = got[j].pos
             PROVE  FALSE
  <2>1. DOMAIN got = 1 .. Len(got) /\ Len(got) \in Nat
    BY DEF HoldIInv, AttachTypeOK
  <2>2. \A i, j \in DOMAIN got : i = j \/ i < j \/ j < i
    BY <2>1
  <2>3. ~lapsed => lapsed # TRUE
    OBVIOUS
  <2> QED  BY <2>2, <2>3 DEF AppliedOnce
<1>1. /\ got[i] \in Of(got) /\ got[j] \in Of(got)
      /\ got[i] \in Frames /\ got[j] \in Frames
  BY DEF Of, HoldIInv, AttachTypeOK
<1>2. got[i].pos \in Nat
  BY <1>1, FrameParts
<1>3. /\ got[i] \in Lines(end) \cup Lives /\ got[j] \in Lines(end) \cup Lives
  BY <1>1 DEF HoldIInv, Kinds
<1>4. CASE got[i] \in Lines(end) /\ got[j] \in Lines(end)
  BY <1>2, <1>4 DEF HoldIInv, InLine, Rising, Below
<1>5. CASE got[i] \in Lives /\ got[j] \in Lives
  BY <1>2, <1>5 DEF HoldIInv, LivesInLine, Rising, Below
<1>6. CASE got[i] \in Lines(end) /\ got[j] \in Lives
  BY <1>1, <1>2, <1>6 DEF HoldIInv, Apart
<1>7. CASE got[i] \in Lives /\ got[j] \in Lines(end)
  BY <1>1, <1>2, <1>7 DEF HoldIInv, Apart
<1> QED  BY <1>3, <1>4, <1>5, <1>6, <1>7

LEMMA HoldIsInOrder ==
    ASSUME HoldIInv
    PROVE  ReplayThenHeld
<1> SUFFICES ASSUME NEW i \in DOMAIN got, NEW j \in DOMAIN got, i < j,
                    got[i].pane = got[j].pane,
                    {got[i].kind, got[j].kind} \subseteq {"replay", "held"}
             PROVE  got[i].pos < got[j].pos
  BY DEF ReplayThenHeld
<1>1. got[i] \in Of(got) /\ got[j] \in Of(got)
  BY DEF Of
<1>2. got[i] \in Lines(end) /\ got[j] \in Lines(end)
  BY <1>1 DEF HoldIInv, Kinds, Lives
<1> QED  BY <1>2 DEF HoldIInv, InLine, Rising, Below

LEMMA HoldJumpsOnce ==
    ASSUME HoldIInv
    PROVE  OneJumpAtMost
<1> SUFFICES ASSUME lapsed # TRUE
             PROVE  Cardinality(jumped) <= 1
  <2>1. ~lapsed => lapsed # TRUE
    OBVIOUS
  <2> QED  BY <2>1 DEF OneJumpAtMost
<1>1. jumped = {} \/ \E f \in jumped : jumped = {f}
  BY DEF HoldIInv, Jumps
<1>2. CASE jumped = {}
  BY <1>2, FS_EmptySet
<1>3. ASSUME NEW f, jumped = {f}
      PROVE  Cardinality(jumped) <= 1
  <2>1. Cardinality(jumped) = 1
    BY <1>3, FS_Singleton
  <2> QED  BY <2>1
<1> QED  BY <1>1, <1>2, <1>3

\* Unless the drain wait gave up, a byte reaches the attaching client once, by
\* replay, by hold or live; replay then held output come in the order of the
\* pane's stream; and at most one live frame passes what the attach queued.
THEOREM AppliedOnceInOrder == AttachSpec => []OnceInOrder
<1>1. HoldIInv => OnceInOrder
  BY HoldIsOnce, HoldIsInOrder, HoldJumpsOnce DEF OnceInOrder
<1> QED  BY <1>1, HoldInvariance, PTL

LEMMA HoldMissesNone ==
    ASSUME HoldIInv
    PROVE  NothingMissing
<1> SUFFICES ASSUME Settled, viewer # TRUE, NEW p \in Panes, <<p, "lost">> \notin kicked,
                    p \notin silent,
                    NEW b \in Since(p) .. (outPos[p] - 1)
             PROVE  b \in Seen(p) \cup Shed(p) \cup Jumped(p)
  <2>1. ~viewer => viewer # TRUE
    OBVIOUS
  <2> QED  BY <2>1 DEF NothingMissing, Whole
<1>0. /\ pc = "attached" /\ conn = "open" /\ stopping # TRUE
      /\ critCh = <<>> /\ outCh = <<>> /\ flush[p] = "out"
  BY DEF Settled, GateFree
<1>1. chunks = <<>> /\ lost = {} /\ sending = <<>> /\ kicks = {}
  BY <1>0 DEF HoldIInv, Phases, Over
<1>2. /\ outPos[p] \in Nat /\ end[p] \in Nat /\ since[p] \in Nat
      /\ end[p] > 0 => since[p] <= end[p]
  BY DEF HoldIInv, AttachTypeOK, Reach
<1>3. b \in Nat /\ b <= outPos[p] - 1
  BY <1>2 DEF Since
<1>g. ASSUME NEW f \in Of(got), f.pane = p, f.pos = b
      PROVE  b \in Seen(p)
  BY <1>g DEF Seen, Of
<1>4. CASE b < end[p]
  <2>1. PICK f : f = Frame("replay", p, b)
    OBVIOUS
  <2>2. b \in 0 .. (end[p] - 1)
    BY <1>2, <1>3, <1>4
  <2>3. f \in Of(got)
    BY <1>0, <1>1, <2>1, <2>2, OfEmpty DEF HoldIInv, ReplayComes
  <2> QED  BY <1>g, <2>1, <2>3, FrameFields
<1>5. CASE ~(b < end[p])
  <2>1. b \in since[p] .. (outPos[p] - 1)
    BY <1>2, <1>3, <1>5 DEF Since
  <2>2. Located(p, b)
    BY <1>0, <1>1, <2>1 DEF HoldIInv, RestComes
  <2>3. \/ Frame("held", p, b) \in Of(got)
        \/ Frame("live", p, b) \in Of(got) \cup shed \cup jumped
    BY <1>0, <1>1, <1>5, <2>2, OfEmpty DEF Located, InHand
  <2>4. CASE Frame("held", p, b) \in Of(got) \/ Frame("live", p, b) \in Of(got)
    BY <1>g, <2>4, FrameFields
  <2>5. CASE Frame("live", p, b) \in shed \cup jumped
    <3>1. PICK f : f = Frame("live", p, b)
      OBVIOUS
    <3>2. f.pane = p /\ f.pos = b
      BY <3>1, FrameFields
    <3> QED  BY <2>5, <3>1, <3>2 DEF Shed, Jumped
  <2> QED  BY <2>3, <2>4, <2>5
<1> QED  BY <1>4, <1>5

\* Once an attach is through and the queues are empty, the client has every byte
\* of every pane, save live frames its full queue shed or that overtook the state
\* frame, and panes that overflowed the hold, which were asked to repaint.
THEOREM AttachMissesNothing == AttachSpec => []NothingMissing
<1>1. HoldIInv => NothingMissing
  BY HoldMissesNone
<1> QED  BY <1>1, HoldInvariance, PTL
=============================================================================
