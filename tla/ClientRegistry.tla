--------------------------- MODULE ClientRegistry ---------------------------
(***************************************************************************)
(* The registry of attached clients and the size-master election           *)
(* (internal/daemon/clients.go, clientRegistry).                           *)
(*                                                                         *)
(* Every PTY has one size, so one client may set it.  The registry is one  *)
(* struct under one mutex: each locked method is a step, and the state     *)
(* frames it makes its caller send later are owed until sent.  A client id *)
(* is an abstract value; a geometry is whether it is paintable; attachedAt *)
(* is a counter; a reserve's `until` is the flag `due`.                    *)
(***************************************************************************)
EXTENDS Integers, FiniteSets

CONSTANTS
    Conns,       \* connections that may attach
    Ids,         \* client ids a TUI may send
    Principals,  \* logins: Local, and one per token
    Local,       \* ipc.PrincipalLocal, the unix socket
    Principal,   \* [Conns -> Principals]
    Viewers,     \* connections whose login is read-only
    Anon,        \* [Conns -> id minted for an attach that sends none]
    NoId,        \* the empty id
    Unknown,     \* the empty principal of a restart reserve
    MaxAttach    \* bound: attaches in one behaviour

AllIds == Ids \cup {Anon[c] : c \in Conns}

\* reservedMasterMarker + id, which no client can carry.
Marker(i) == <<"reserved", i>>

ASSUME ClientRegistryAssumption ==
    /\ IsFiniteSet(Conns)
    /\ Local \in Principals /\ Unknown \notin Principals
    /\ Principal \in [Conns -> Principals]
    /\ Viewers \subseteq {c \in Conns : Principal[c] # Local}
    /\ NoId \notin AllIds
    /\ \A i \in AllIds : Marker(i) \notin AllIds
    /\ \A c, d \in Conns : Anon[c] = Anon[d] => c = d
    /\ \A c \in Conns : Anon[c] \notin Ids
    /\ MaxAttach \in Nat

VARIABLES
    reg,         \* the clientRegistry struct
    timer,       \* "armed" while a grace or reserve timer is pending, or "off"
    fired,       \* expire runs but has not taken the mutex: Stop is too late
    owed,        \* connections some caller is about to send a fresh state to
    current,     \* connections sent a state since the news last changed
    saved,       \* size_master in the last snapshot
    clock        \* attaches so far

vars == <<reg, timer, fired, owed, current, saved, clock>>

Reservations == [id : AllIds \cup {NoId}, owner : Principals \cup {Unknown},
                 age : 0 .. MaxAttach, protects : SUBSET AllIds,
                 due : BOOLEAN]

NoReserve == [id |-> NoId, owner |-> Unknown, age |-> 0, protects |-> {},
              due |-> FALSE]

Registries == [attached : SUBSET Conns, id : [Conns -> AllIds \cup {NoId}],
               age : [Conns -> 0 .. MaxAttach], wide : [Conns -> BOOLEAN],
               master : AllIds \cup {NoId}, reserved : Reservations]

Empty == [attached |-> {}, id |-> [c \in Conns |-> NoId],
          age |-> [c \in Conns |-> 0], wide |-> [c \in Conns |-> FALSE],
          master |-> NoId, reserved |-> NoReserve]

----------------------------------------------------------------------------
(* The election *)

Reserved(r) == r.reserved.id # NoId
\* protects is nil exactly for a restart reserve, whose principal is unknown.
RestartReserve(r) == Reserved(r) /\ r.reserved.owner = Unknown

Eligible(r, c) == c \in r.attached /\ c \notin Viewers /\ r.wide[c]

Admits(res, c) ==
    /\ c \notin Viewers
    /\ IF res.owner = Unknown THEN Principal[c] = Local
       ELSE res.owner = Principal[c]

\* Fault: a restart reserve does not hide a remote record wearing its id.
Shadowed_Never(r, c) == FALSE

Shadowed(r, c) ==
    RestartReserve(r) /\ r.reserved.id = r.id[c] /\ Principal[c] # Local

IsMaster(r, c) ==
    /\ c \in r.attached /\ r.master # NoId
    /\ r.id[c] = r.master /\ ~Shadowed(r, c)

\* Fault: the raw id is published.
Published_RawId(r) == r.master

Published(r) ==
    IF \E c \in r.attached : r.id[c] = r.master /\ Shadowed(r, c)
    THEN Marker(r.master) ELSE r.master

\* Fault: the reserve ends with the first protected client to leave.
StillProtects_All(r) ==
    RestartReserve(r) \/ r.reserved.protects \subseteq {r.id[c] : c \in r.attached}

StillProtects(r) ==
    RestartReserve(r) \/ \E c \in r.attached : r.id[c] \in r.reserved.protects

Candidates(r) == {c \in r.attached : Eligible(r, c)}

\* The code breaks a tie of equal ages by id; here the choice is fixed too.
Oldest(r) ==
    CHOOSE c \in Candidates(r) : \A d \in Candidates(r) : r.age[c] <= r.age[d]

Cleared(r) == [r EXCEPT !.reserved = NoReserve]

KeepsReserve(r) == Reserved(r) /\ ~r.reserved.due /\ StillProtects(r)

\* Fault: a master that shrank keeps the slot.
MasterStands_AnyWindow(r) == \E c \in r.attached : IsMaster(r, c)

MasterStands(r) == \E c \in r.attached : IsMaster(r, c) /\ Eligible(r, c)

\* electSlotLocked, rules 1 to 4.
Elect(r) ==
    IF MasterStands(r) THEN r
    ELSE IF KeepsReserve(r) THEN [r EXCEPT !.master = r.reserved.id]
    ELSE [Cleared(r) EXCEPT !.master =
             IF Candidates(r) = {} THEN NoId ELSE r.id[Oldest(r)]]

\* What a state frame says of the clients.
News(r) == <<Published(r), Cardinality(r.attached)>>

\* Fault: a reserve replaces the previous one and no timer is armed for it.
TimerFollows_NotArmed(r, new) ==
    timer' = IF new \/ ~Reserved(r) THEN "off" ELSE timer

\* A new reserve arms a timer; clearing the reserve stops its timer.
TimerFollows(r, new) ==
    timer' = IF new THEN "armed" ELSE IF Reserved(r) THEN timer ELSE "off"

\* The caller sends a state to everyone when the method reports a change.
Broadcast(r) ==
    /\ owed' = IF News(r) # News(reg) THEN owed \cup r.attached ELSE owed
    /\ current' = IF News(r) # News(reg) THEN {} ELSE current

\* c has left, which always is a change; the others are sent a state.
Farewell(r, c) ==
    /\ owed' = (owed \ {c}) \cup r.attached
    /\ current' = {}

----------------------------------------------------------------------------
(* The methods of clientRegistry *)

Refused(c, i) ==
    /\ Principal[c] # Local
    /\ \/ \E d \in reg.attached \ {c} :
             reg.id[d] = i /\ Principal[d] # Principal[c]
       \/ /\ reg.reserved.id = i /\ reg.reserved.owner # Unknown
          /\ ~Admits(reg.reserved, c)

Claims(c, i) ==
    reg.reserved.id = i /\ (Principal[c] = Local \/ Admits(reg.reserved, c))

\* Fault: the dead link's record stays beside the new one.
Twins_Kept(c, i) == {}

\* Other records under this id: dead links the server has not reaped yet.
Twins(c, i) == {d \in reg.attached \ {c} : reg.id[d] = i}

\* The record attach leaves for c: a new id on this conn takes over the age of
\* the record it replaces, or of the reserve it claims.
Registered(c, i, w) ==
    LET fresh == c \notin reg.attached \/ reg.id[c] # i
        age == IF ~fresh THEN reg.age[c]
               ELSE IF Claims(c, i) /\ reg.reserved.age # 0
               THEN reg.reserved.age
               ELSE IF Twins(c, i) # {}
               THEN reg.age[CHOOSE d \in Twins(c, i) : TRUE]
               ELSE clock + 1
    IN  [reg EXCEPT !.attached = (@ \cup {c}) \ Twins(c, i),
                    !.id[c] = i, !.age[c] = age, !.wide[c] = w]

\* A new local process attaching alone ends a restart reserve at once.
ColdStart(r, c, sent, reattach) ==
    /\ RestartReserve(r) /\ Principal[c] = Local /\ sent /\ ~reattach
    /\ r.attached = {c}

\* Fault: attach compares what its election changed, though the registration
\* alone can change the published id.
Changed_ByElection(registered, r) == News(r) # News(registered)

Changed(registered, r) == News(r) # News(reg)

Attach(c, i, w, sent, reattach) ==
    /\ clock < MaxAttach /\ clock' = clock + 1
    /\ ~Refused(c, i)
    /\ LET r1 == Registered(c, i, w)
           r2 == IF Claims(c, i) \/ ColdStart(r1, c, sent, reattach)
                 THEN Cleared(r1) ELSE r1
           r3 == Elect(r2)
       IN /\ reg' = r3
          /\ TimerFollows(r3, FALSE)
          /\ owed' = owed \cup (IF Changed(r2, r3) THEN r3.attached ELSE {c})
          /\ current' = IF News(r3) = News(reg) THEN current \ {c} ELSE {}
    /\ UNCHANGED <<fired, saved>>

\* An attach with no id keeps this conn's, or is minted one.
AttachAnon(c, w) ==
    Attach(c, IF c \in reg.attached THEN reg.id[c] ELSE Anon[c], w, FALSE, FALSE)

Without(r, c) == [r EXCEPT !.attached = @ \ {c}]

\* Fault: the reserve records the id where it needs the principal.
Graced_WrongOwner(r, c) ==
    [r EXCEPT !.reserved = [id |-> reg.id[c], owner |-> reg.id[c],
                            age |-> reg.age[c],
                            protects |-> {r.id[d] : d \in r.attached},
                            due |-> FALSE]]

Graced(r, c) ==
    [r EXCEPT !.reserved = [id |-> reg.id[c], owner |-> Principal[c],
                            age |-> reg.age[c],
                            protects |-> {r.id[d] : d \in r.attached},
                            due |-> FALSE]]

\* A lost link: the master's slot is kept while a client that saw it go is
\* still here.
Lose(c) ==
    /\ c \in reg.attached
    /\ LET r1 == Without(reg, c)
           kept == IsMaster(reg, c) /\ r1.attached # {}
           r2 == Elect(IF kept THEN Graced(r1, c) ELSE r1)
       IN /\ reg' = r2
          /\ TimerFollows(r2, kept)
          /\ Farewell(r2, c)
    /\ UNCHANGED <<fired, saved, clock>>

\* Fault: a clean exit leaves the slot alone.
Left_NoElection(c) == Without(reg, c)

Left(c) == Elect(Without(reg, c))

\* MsgDetach: no reserve.
Detach(c) ==
    /\ c \in reg.attached
    /\ LET r == Left(c)
       IN /\ reg' = r
          /\ TimerFollows(r, FALSE)
          /\ Farewell(r, c)
    /\ UNCHANGED <<fired, saved, clock>>

SetGeometry(c, w) ==
    /\ c \in reg.attached /\ c \notin Viewers
    /\ LET r == Elect([reg EXCEPT !.wide[c] = w])
       IN /\ reg' = r
          /\ TimerFollows(r, FALSE)
          /\ Broadcast(r)
    /\ UNCHANGED <<fired, saved, clock>>

\* Fault: the slot kept for someone else is kept still.
Taken_ReserveStays(c) == [reg EXCEPT !.master = reg.id[c]]

Taken(c) == [Cleared(reg) EXCEPT !.master = reg.id[c]]

TakeControl(c) ==
    /\ Eligible(reg, c)
    /\ LET r == Taken(c)
       IN /\ reg' = r
          /\ TimerFollows(r, FALSE)
          /\ Broadcast(r)
    /\ UNCHANGED <<fired, saved, clock>>

TimerFires ==
    /\ timer = "armed" /\ reg.reserved.due
    /\ timer' = "off" /\ fired' = TRUE
    /\ UNCHANGED <<reg, owed, current, saved, clock>>

\* expire; by now its reserve may be gone, or another one's.
Expire ==
    /\ fired /\ fired' = FALSE
    /\ LET r == Elect(reg)
       IN /\ reg' = r
          /\ TimerFollows(r, FALSE)
          /\ Broadcast(r)
    /\ UNCHANGED <<saved, clock>>

----------------------------------------------------------------------------
(* The rest of the daemon, as the registry sees it *)

\* `until` passes.
TimePasses ==
    /\ Reserved(reg) /\ ~reg.reserved.due
    /\ reg' = [reg EXCEPT !.reserved.due = TRUE]
    /\ UNCHANGED <<timer, fired, owed, current, saved, clock>>

\* A state frame built now reaches c.
SendState(c) ==
    /\ c \in owed
    /\ owed' = owed \ {c}
    /\ current' = current \cup {c}
    /\ UNCHANGED <<reg, timer, fired, saved, clock>>

Snapshot ==
    /\ saved # reg.master
    /\ saved' = reg.master
    /\ UNCHANGED <<reg, timer, fired, owed, current, clock>>

\* reserveAfterRestart, on an empty registry.
Boot(i) == Elect([Empty EXCEPT !.reserved = [NoReserve EXCEPT !.id = i]])

\* The daemon dies, or is stopped, and comes back with the saved size_master.
Restart ==
    /\ reg' = Boot(saved)
    /\ timer' = IF saved = NoId THEN "off" ELSE "armed"
    /\ fired' = FALSE /\ owed' = {} /\ current' = {}
    /\ UNCHANGED <<saved, clock>>

ClientStep(c) ==
    \/ \E i \in Ids, w, reattach \in BOOLEAN : Attach(c, i, w, TRUE, reattach)
    \/ \E w \in BOOLEAN : AttachAnon(c, w)
    \/ Lose(c) \/ Detach(c) \/ TakeControl(c) \/ SendState(c)
    \/ \E w \in BOOLEAN : SetGeometry(c, w)

\* A daemon starts on what an earlier one saved.
Init ==
    /\ saved \in Ids \cup {NoId}
    /\ reg = Boot(saved)
    /\ timer = IF saved = NoId THEN "off" ELSE "armed"
    /\ fired = FALSE /\ owed = {} /\ current = {} /\ clock = 0

Next ==
    \/ \E c \in Conns : ClientStep(c)
    \/ TimerFires \/ Expire \/ TimePasses \/ Snapshot \/ Restart

\* Time passes and an armed timer runs.  Clients owe nothing.
Fairness ==
    /\ WF_vars(TimePasses) /\ WF_vars(TimerFires) /\ WF_vars(Expire)
    /\ \A c \in Conns : WF_vars(SendState(c))

Spec == Init /\ [][Next]_vars
FairSpec == Spec /\ Fairness

----------------------------------------------------------------------------
(* Properties *)

TypeOK ==
    /\ reg \in Registries
    /\ timer \in {"armed", "off"} /\ fired \in BOOLEAN
    /\ owed \subseteq Conns
    /\ current \subseteq Conns
    /\ saved \in AllIds \cup {NoId} /\ clock \in 0 .. MaxAttach

\* The slot is named by id, so two records of one id would be two masters.
UniqueIds ==
    \A c, d \in reg.attached : reg.id[c] = reg.id[d] => c = d

\* Whoever holds the slot may size a PTY: attached, not a viewer, paintable.
\* No reattach, id claim, resize or restart makes an unfit client master.
MasterIsEligible ==
    \A c \in reg.attached : IsMaster(reg, c) => Eligible(reg, c)

\* A kept slot is the master slot, and while it is kept nobody holds it: no
\* reserve outlives a takeover and no client sizes a PTY under one.
ReserveIsTheSlot ==
    Reserved(reg) =>
        /\ reg.master = reg.reserved.id
        /\ \A c \in reg.attached : ~IsMaster(reg, c)

\* Size authority is open to everyone (sizeAuthorityOpen) only while nobody
\* could be master; otherwise the slot is held or kept.
SlotFilled ==
    \/ Reserved(reg)
    \/ \E c \in reg.attached : IsMaster(reg, c)
    \/ reg.master = NoId /\ Candidates(reg) = {}

\* A TUI takes itself for master when a state frame names its id: true of the
\* master and of no other client, the one wearing a kept id included.
OnlyMasterReadsItself ==
    \A c \in reg.attached : reg.id[c] = Published(reg) <=> IsMaster(reg, c)

\* Every attached client has been sent the current master and count, or is
\* about to be: no method forgets to report a change.
EveryClientTold ==
    reg.attached \subseteq owed \cup current

\* A grace reserve keeps the PTYs at their size: until it is due, while a
\* client that saw the master leave is attached, the slot moves only when one
\* takes control, the lost client is back, or the daemon restarts.
SlotKept ==
    /\ Reserved(reg) /\ ~RestartReserve(reg) /\ ~reg.reserved.due
    /\ \E c \in reg'.attached : reg'.id[c] \in reg.reserved.protects
    => \/ reg'.master = reg.master
       \/ \E c \in Conns : TakeControl(c)
       \/ \E c \in reg'.attached : reg'.id[c] = reg.reserved.id
       \/ Restart

GraceKeepsSlot == [][SlotKept]_vars

\* A reserved slot whose owner is known is inherited by that principal or by
\* the local socket; after a restart, by the local socket alone.
HeirIsOwner ==
    \A c \in Conns :
        /\ Reserved(reg) /\ ~reg.reserved.due
        /\ IsMaster(reg', c) /\ reg'.id[c] = reg.reserved.id
        => Principal[c] \in {Local, reg.reserved.owner} \/ TakeControl(c)

SlotInheritedByOwner == [][HeirIsOwner]_vars

\* A kept slot is given up some time, also if its owner never returns and no
\* client stirs again, unless the daemon restarts for ever.
ReserveEnds ==
    (Reserved(reg) ~> ~Reserved(reg)) \/ []<><<Restart>>_vars

\* The slot is held by one fit client, kept for one that is away, or open
\* because nobody is fit (what electSlotLocked owes every method).
SlotSound == UniqueIds /\ MasterIsEligible /\ ReserveIsTheSlot /\ SlotFilled

\* A client acts as master when, and only when, the daemon lets it, and learns
\* of every change (reservedMasterMarker, the callers' broadcasts).
ClientsKnowMaster == OnlyMasterReadsItself /\ EveryClientTold

\* A kept slot moves neither before its time nor to a stranger.
SlotMovesInTurn == GraceKeepsSlot /\ SlotInheritedByOwner
=============================================================================
