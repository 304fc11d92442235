----------------------- MODULE ClientRegistry_proofs -----------------------
(***************************************************************************)
(* What ClientRegistry keeps for every set of connections, ids and logins. *)
(*                                                                         *)
(* Every method but two ends in an election.  So the argument is one lemma *)
(* about Elect: from a registry that is Ready (ids unique, a kept slot     *)
(* claimed by nobody) it returns one that is Ready and Settled, which is   *)
(* the conjunction of the properties.  Each action only has to hand the    *)
(* election a Ready registry.                                              *)
(***************************************************************************)
EXTENDS ClientRegistry, FiniteSetTheorems, TLAPS

Named(r) == \A c \in r.attached : r.id[c] # NoId

Unique(r) == \A c, d \in r.attached : r.id[c] = r.id[d] => c = d

\* Nobody attached wears a kept id, but a remote client after a restart.
Unclaimed(r) ==
    Reserved(r) => \A c \in r.attached :
        r.id[c] = r.reserved.id => Shadowed(r, c)

Agrees(r) == Reserved(r) /\ r.master # NoId => r.master = r.reserved.id

Ready(r) ==
    r \in Registries /\ Named(r) /\ Unique(r) /\ Unclaimed(r) /\ Agrees(r)

HeldByEligible(r) == \A c \in r.attached : IsMaster(r, c) => Eligible(r, c)

KeptForNobody(r) ==
    Reserved(r) => /\ r.master = r.reserved.id
                   /\ \A c \in r.attached : ~IsMaster(r, c)

Filled(r) ==
    \/ Reserved(r)
    \/ \E c \in r.attached : IsMaster(r, c)
    \/ r.master = NoId /\ Candidates(r) = {}

Settled(r) == HeldByEligible(r) /\ KeptForNobody(r) /\ Filled(r)

----------------------------------------------------------------------------
(* The election *)

\* Ages are naturals, so among the candidates one is oldest: the one whose
\* interval 0 .. age contains no other's.
LEMMA OldestIsCandidate ==
    ASSUME NEW r \in Registries, Candidates(r) # {}
    PROVE  Oldest(r) \in Candidates(r)
<1> DEFINE S == 0 .. MaxAttach
           T == {0 .. r.age[c] : c \in Candidates(r)}
<1>1. \A c \in Candidates(r) : r.age[c] \in 0 .. MaxAttach
  BY DEF Candidates, Registries
<1>2. T \subseteq SUBSET S /\ T # {}
  BY <1>1, ClientRegistryAssumption
<1>3. IsFiniteSet(S)
  BY FS_Interval, ClientRegistryAssumption
<1>4. IsWellFoundedOn(StrictSubsetOrdering(S), SUBSET S)
  BY <1>3, FS_FiniteSubsetsOfFinite, FS_StrictSubsetOrderingWellFounded
<1>5. PICK x \in T : \A y \in T : ~ (<<y, x>> \in StrictSubsetOrdering(S))
  <2> HIDE DEF T, S
  <2> QED
    BY <1>2, <1>4, WFMin
<1>6. PICK c \in Candidates(r) : x = 0 .. r.age[c]
  BY <1>5
<1>7. ASSUME NEW d \in Candidates(r) PROVE r.age[c] <= r.age[d]
  <2>1. /\ 0 .. r.age[d] \in T
        /\ <<0 .. r.age[d], x>> \in (SUBSET S) \X (SUBSET S)
    BY <1>2, <1>5
  <2>2. ~(0 .. r.age[d] \subseteq x /\ 0 .. r.age[d] # x)
    <3> HIDE DEF T, S
    <3> QED
      BY <2>1, <1>5 DEF StrictSubsetOrdering
  <2>3. r.age[c] \in Nat /\ r.age[d] \in Nat
    BY <1>1, ClientRegistryAssumption
  <2>4. r.age[d] < r.age[c] =>
          /\ 0 .. r.age[d] \subseteq 0 .. r.age[c]
          /\ r.age[c] \in 0 .. r.age[c] /\ r.age[c] \notin 0 .. r.age[d]
    BY <2>3
  <2> QED
    BY <2>2, <2>3, <2>4, <1>6
<1> QED
  BY <1>6, <1>7 DEF Oldest

\* Clearing a reserve changes nothing else.
LEMMA ClearedFields ==
    ASSUME NEW r \in Registries
    PROVE  /\ Cleared(r) \in Registries
           /\ Cleared(r).attached = r.attached /\ Cleared(r).id = r.id
           /\ Cleared(r).wide = r.wide /\ Cleared(r).master = r.master
           /\ ~Reserved(Cleared(r))
<1>1. NoReserve \in Reservations /\ NoReserve.id = NoId
  BY ClientRegistryAssumption DEF Reservations, NoReserve
<1>2. /\ Cleared(r) \in Registries /\ Cleared(r).reserved = NoReserve
      /\ Cleared(r).attached = r.attached /\ Cleared(r).id = r.id
      /\ Cleared(r).wide = r.wide /\ Cleared(r).master = r.master
  BY <1>1 DEF Cleared, Registries
<1> QED
  BY <1>1, <1>2 DEF Reserved

\* From a Ready registry the election returns one that is Ready and Settled.
LEMMA ElectSettles ==
    ASSUME NEW r, Ready(r)
    PROVE  Ready(Elect(r)) /\ Settled(Elect(r))
<1> USE ClientRegistryAssumption DEF Ready
<1>1. CASE MasterStands(r)
  <2>1. Elect(r) = r
    BY <1>1 DEF Elect
  <2>2. PICK c \in r.attached : IsMaster(r, c) /\ Eligible(r, c)
    BY <1>1 DEF MasterStands
  <2>3. \A d \in r.attached : IsMaster(r, d) => d = c
    BY <2>2 DEF Unique, IsMaster
  <2>4. ~Reserved(r)
    BY <2>2 DEF IsMaster, Agrees, Unclaimed
  <2> QED
    BY <2>1, <2>2, <2>3, <2>4
    DEF Settled, HeldByEligible, KeptForNobody, Filled
<1>2. CASE ~MasterStands(r) /\ KeepsReserve(r)
  <2> DEFINE s == [r EXCEPT !.master = r.reserved.id]
  <2>1. Elect(r) = s
    BY <1>2 DEF Elect
  <2>2. Reserved(r)
    BY <1>2 DEF KeepsReserve
  <2>3. /\ s \in Registries /\ s.master = r.reserved.id
        /\ s.attached = r.attached /\ s.id = r.id /\ s.wide = r.wide
        /\ s.reserved = r.reserved
    BY DEF Registries, Reservations
  <2>4. Reserved(s) /\ \A c \in Conns : Shadowed(s, c) <=> Shadowed(r, c)
    BY <2>2, <2>3 DEF Reserved, Shadowed, RestartReserve
  <2>5. Ready(s)
    BY <2>3, <2>4, <2>2 DEF Named, Unique, Unclaimed, Agrees, Reserved, Registries
  <2>6. \A c \in s.attached : ~IsMaster(s, c)
    BY <2>3, <2>5, <2>4 DEF IsMaster, Unclaimed
  <2> QED
    BY <2>1, <2>3, <2>4, <2>5, <2>6
    DEF Settled, HeldByEligible, KeptForNobody, Filled
<1>3. CASE ~MasterStands(r) /\ ~KeepsReserve(r)
  <2> DEFINE m == IF Candidates(r) = {} THEN NoId ELSE r.id[Oldest(r)]
             s == [Cleared(r) EXCEPT !.master = m]
  <2>1. Elect(r) = s
    BY <1>3 DEF Elect
  <2>2. Candidates(r) # {} => Oldest(r) \in Candidates(r)
    BY OldestIsCandidate
  <2>3. m \in AllIds \cup {NoId}
    BY <2>2 DEF Registries, Candidates
  <2>4. /\ s \in Registries /\ s.master = m
        /\ s.attached = r.attached /\ s.id = r.id /\ s.wide = r.wide
        /\ ~Reserved(s)
    BY <2>3, ClearedFields DEF Registries, Reserved
  <2>5. Ready(s)
    BY <2>4 DEF Named, Unique, Unclaimed, Agrees
  <2>6. \A c \in Conns : Eligible(s, c) <=> Eligible(r, c)
    BY <2>4 DEF Eligible
  <2>7. \A c \in s.attached : IsMaster(s, c) <=> s.id[c] = m
    BY <2>4, <2>5 DEF IsMaster, Shadowed, RestartReserve, Named
  <2>8. Candidates(s) = Candidates(r)
    BY <2>4, <2>6 DEF Candidates, Registries
  <2>9. CASE Candidates(r) = {}
    <3>1. \A c \in s.attached : ~IsMaster(s, c)
      BY <2>9, <2>5, <2>7 DEF Named
    <3> QED
      BY <3>1, <2>1, <2>4, <2>5, <2>8, <2>9
      DEF Settled, HeldByEligible, KeptForNobody, Filled
  <2>10. CASE Candidates(r) # {}
    <3> DEFINE o == Oldest(r)
    <3>1. o \in s.attached /\ Eligible(s, o) /\ m = s.id[o]
      BY <2>2, <2>10, <2>4, <2>6 DEF Candidates, Registries
    <3>2. \A c \in s.attached : IsMaster(s, c) <=> c = o
      BY <3>1, <2>7, <2>5 DEF Unique
    <3> HIDE DEF o, s, m
    <3> QED
      BY <3>1, <3>2, <2>1, <2>4, <2>5
      DEF Settled, HeldByEligible, KeptForNobody, Filled
  <2> QED
    BY <2>9, <2>10
<1> QED
  BY <1>1, <1>2, <1>3

----------------------------------------------------------------------------
(* Each method hands the election a Ready registry *)

\* reserveAfterRestart, on an empty registry.
LEMMA BootSettles ==
    ASSUME NEW i \in AllIds \cup {NoId}
    PROVE  Ready(Boot(i)) /\ Settled(Boot(i))
<1> DEFINE kept == [NoReserve EXCEPT !.id = i]
           r == [Empty EXCEPT !.reserved = kept]
<1>1. kept \in Reservations
  <2>1. NoReserve \in Reservations
    BY ClientRegistryAssumption DEF Reservations, NoReserve
  <2> QED
    BY <2>1 DEF Reservations
<1>2. Empty \in Registries /\ Empty.attached = {} /\ Empty.master = NoId
  <2>1. NoReserve \in Reservations
    BY ClientRegistryAssumption DEF Reservations, NoReserve
  <2> QED
    BY <2>1, ClientRegistryAssumption DEF Empty, Registries
<1>3. r \in Registries /\ r.attached = {} /\ r.master = NoId
  <2> HIDE DEF kept
  <2> QED
    BY <1>1, <1>2 DEF Registries
<1>4. Ready(r)
  BY <1>3 DEF Ready, Named, Unique, Unclaimed, Agrees
<1> QED
  BY <1>4, ElectSettles DEF Boot

\* A record that leaves takes no other record's id or reserve with it.
LEMMA WithoutReady ==
    ASSUME NEW r, Ready(r), NEW c \in Conns
    PROVE  Ready(Without(r, c))
<1>1. /\ Without(r, c) \in Registries
      /\ Without(r, c).attached \subseteq r.attached
      /\ Without(r, c).id = r.id /\ Without(r, c).master = r.master
      /\ Without(r, c).reserved = r.reserved
  BY DEF Ready, Without, Registries
<1> QED
  BY <1>1 DEF Ready, Named, Unique, Unclaimed, Agrees, Reserved, Shadowed,
              RestartReserve

\* The slot a lost master leaves is kept under an id nobody else wears.
LEMMA GracedReady ==
    ASSUME NEW c \in Conns, Ready(reg), IsMaster(reg, c)
    PROVE  Ready(Graced(Without(reg, c), c))
<1> DEFINE r == Without(reg, c)
           kept == [id |-> reg.id[c], owner |-> Principal[c],
                    age |-> reg.age[c],
                    protects |-> {r.id[d] : d \in r.attached}, due |-> FALSE]
<1>1. /\ r \in Registries /\ r.attached = reg.attached \ {c}
      /\ r.id = reg.id /\ r.master = reg.master
  BY DEF Ready, Without, Registries
<1>2. reg.id[c] \in AllIds /\ c \in reg.attached /\ reg.master = reg.id[c]
  BY DEF IsMaster, Ready, Named, Registries
<1>3. \A d \in r.attached : r.id[d] \in AllIds /\ r.id[d] # reg.id[c]
  BY <1>1, <1>2 DEF Ready, Named, Unique, Registries
<1>4. kept \in Reservations
  <2>1. reg.age[c] \in 0 .. MaxAttach /\ Principal[c] \in Principals
    BY ClientRegistryAssumption DEF Ready, Registries
  <2>2. {r.id[d] : d \in r.attached} \in SUBSET AllIds
    BY <1>3
  <2> HIDE DEF r
  <2> QED
    BY <1>2, <2>1, <2>2 DEF Reservations
<1>5. /\ Graced(r, c) \in Registries /\ Graced(r, c).attached = r.attached
      /\ Graced(r, c).id = r.id /\ Graced(r, c).master = r.master
      /\ Graced(r, c).reserved.id = reg.id[c]
  <2>1. /\ Graced(r, c) = [r EXCEPT !.reserved = kept]
        /\ kept.id = reg.id[c]
    BY DEF Graced
  <2> HIDE DEF kept, r
  <2> QED
    BY <2>1, <1>1, <1>4 DEF Registries
<1> HIDE DEF r, kept
<1>6. Named(Graced(r, c)) /\ Unique(Graced(r, c))
  BY <1>1, <1>5 DEF Ready, Named, Unique
<1>7. Unclaimed(Graced(r, c)) /\ Agrees(Graced(r, c))
  BY <1>1, <1>2, <1>3, <1>5 DEF Unclaimed, Agrees
<1> QED
  BY <1>5, <1>6, <1>7 DEF Ready, r

\* A record changes its window and nothing else.
LEMMA ResizedReady ==
    ASSUME Ready(reg), NEW c \in Conns, NEW w \in BOOLEAN
    PROVE  Ready([reg EXCEPT !.wide[c] = w])
<1> DEFINE r == [reg EXCEPT !.wide[c] = w]
<1>1. /\ r \in Registries /\ r.attached = reg.attached /\ r.id = reg.id
      /\ r.master = reg.master /\ r.reserved = reg.reserved
  BY DEF Ready, Registries
<1> HIDE DEF r
<1>2. Ready(r)
  BY <1>1 DEF Ready, Named, Unique, Unclaimed, Agrees, Reserved, Shadowed,
              RestartReserve
<1> QED
  BY <1>2 DEF r

\* A client that takes control is the master, with no election and no reserve.
LEMMA TakenSettles ==
    ASSUME Ready(reg), NEW c \in Conns, Eligible(reg, c)
    PROVE  Ready(Taken(c)) /\ Settled(Taken(c))
<1> DEFINE r == Taken(c)
<1>1. c \in reg.attached /\ reg.id[c] \in AllIds
  BY DEF Eligible, Ready, Named, Registries
<1>2. /\ r \in Registries /\ r.attached = reg.attached /\ r.id = reg.id
      /\ r.wide = reg.wide /\ r.master = reg.id[c] /\ ~Reserved(r)
  BY <1>1, ClearedFields DEF Ready, Taken, Registries, Reserved
<1> HIDE DEF r
<1>3. Ready(r)
  BY <1>2 DEF Ready, Named, Unique, Unclaimed, Agrees
<1>4. IsMaster(r, c) /\ Eligible(r, c)
  BY <1>1, <1>2, ClientRegistryAssumption
  DEF IsMaster, Shadowed, RestartReserve, Eligible
<1>5. \A d \in r.attached : IsMaster(r, d) => d = c
  BY <1>1, <1>2 DEF IsMaster, Ready, Unique
<1> QED
  BY <1>2, <1>3, <1>4, <1>5
  DEF r, Settled, HeldByEligible, KeptForNobody, Filled, Eligible

\* The record an attach leaves: c under the id i, and no one else.
LEMMA RegisteredFields ==
    ASSUME Ready(reg), NEW c \in Conns, NEW i \in AllIds, NEW w \in BOOLEAN,
           clock \in 0 .. MaxAttach, clock < MaxAttach
    PROVE  LET r == Registered(c, i, w)
           IN  /\ r \in Registries
               /\ r.attached = (reg.attached \cup {c}) \ Twins(c, i)
               /\ r.id = [reg.id EXCEPT ![c] = i]
               /\ r.master = reg.master /\ r.reserved = reg.reserved
<1> DEFINE fresh == c \notin reg.attached \/ reg.id[c] # i
           age == IF ~fresh THEN reg.age[c]
                  ELSE IF Claims(c, i) /\ reg.reserved.age # 0
                  THEN reg.reserved.age
                  ELSE IF Twins(c, i) # {}
                  THEN reg.age[CHOOSE d \in Twins(c, i) : TRUE]
                  ELSE clock + 1
<1>1. Twins(c, i) # {} => (CHOOSE d \in Twins(c, i) : TRUE) \in Conns
  BY DEF Twins, Ready, Registries
<1>2. clock + 1 \in 0 .. MaxAttach
  BY ClientRegistryAssumption
<1>3. /\ reg.reserved.age \in 0 .. MaxAttach
      /\ \A d \in Conns : reg.age[d] \in 0 .. MaxAttach
  BY DEF Ready, Registries, Reservations
<1>4. age \in 0 .. MaxAttach
  BY <1>1, <1>2, <1>3
<1>5. Registered(c, i, w) =
        [reg EXCEPT !.attached = (@ \cup {c}) \ Twins(c, i),
                    !.id[c] = i, !.age[c] = age, !.wide[c] = w]
  BY DEF Registered
<1> HIDE DEF age
<1>6. /\ (reg.attached \cup {c}) \ Twins(c, i) \in SUBSET Conns
      /\ [reg.id EXCEPT ![c] = i] \in [Conns -> AllIds \cup {NoId}]
      /\ [reg.age EXCEPT ![c] = age] \in [Conns -> 0 .. MaxAttach]
      /\ [reg.wide EXCEPT ![c] = w] \in [Conns -> BOOLEAN]
  BY <1>4 DEF Ready, Registries
<1>7. Registered(c, i, w) =
        [attached |-> (reg.attached \cup {c}) \ Twins(c, i),
         id |-> [reg.id EXCEPT ![c] = i], age |-> [reg.age EXCEPT ![c] = age],
         wide |-> [reg.wide EXCEPT ![c] = w],
         master |-> reg.master, reserved |-> reg.reserved]
  BY <1>5 DEF Ready, Registries
<1> QED
  BY <1>6, <1>7 DEF Ready, Registries

\* An attach that is not refused claims the kept id, or wears another, or is
\* a remote client shadowed by a restart reserve.
LEMMA AttachReady ==
    ASSUME Ready(reg), NEW c \in Conns, NEW i \in AllIds, NEW w \in BOOLEAN,
           clock \in 0 .. MaxAttach, clock < MaxAttach, ~Refused(c, i),
           NEW cold \in BOOLEAN
    PROVE  LET r == Registered(c, i, w)
           IN  Ready(IF Claims(c, i) \/ cold THEN Cleared(r) ELSE r)
<1> DEFINE r == Registered(c, i, w)
<1>1. /\ r \in Registries
      /\ r.attached = (reg.attached \cup {c}) \ Twins(c, i)
      /\ r.id = [reg.id EXCEPT ![c] = i]
      /\ r.master = reg.master /\ r.reserved = reg.reserved
  BY RegisteredFields
<1> HIDE DEF r
<1>2. /\ \A d \in r.attached \ {c} : d \in reg.attached /\ r.id[d] = reg.id[d]
      /\ \A d \in r.attached \ {c} : reg.id[d] # i
      /\ c \in Conns => r.id[c] = i
  BY <1>1 DEF Twins, Ready, Registries
<1>3. Named(r)
  BY <1>2, ClientRegistryAssumption DEF Ready, Named
<1>4. Unique(r)
  BY <1>2 DEF Ready, Unique
<1>5. Agrees(r)
  BY <1>1 DEF Ready, Agrees, Reserved
<1>6. CASE Claims(c, i) \/ cold
  <2>1. Ready(Cleared(r))
    BY <1>1, <1>3, <1>4, ClearedFields
    DEF Ready, Named, Unique, Unclaimed, Agrees
  <2> QED
    BY <1>6, <2>1 DEF r
<1>7. CASE ~(Claims(c, i) \/ cold)
  <2>1. \A d \in r.attached \ {c} :
          Reserved(r) /\ r.id[d] = r.reserved.id => Shadowed(r, d)
    BY <1>1, <1>2 DEF Ready, Unclaimed, Reserved, Shadowed, RestartReserve
  <2>2. Reserved(r) /\ i = r.reserved.id => Shadowed(r, c)
    BY <1>1, <1>2, <1>7
    DEF Refused, Claims, Shadowed, RestartReserve, Reserved
  <2>3. Unclaimed(r)
    BY <2>1, <2>2, <1>2 DEF Unclaimed
  <2> QED
    BY <1>1, <1>3, <1>4, <1>5, <1>7, <2>3 DEF r, Ready
<1> QED
  BY <1>6, <1>7

----------------------------------------------------------------------------
(* The inductive invariant *)

\* TypeOK alone is not inductive with the properties: an attach must not hand
\* a kept id to anyone but its heir, which is Unclaimed in Ready.
IInv == TypeOK /\ Ready(reg) /\ Settled(reg)

\* What is left of TypeOK once the registry has its type.
Frame ==
    /\ timer \in {"armed", "off"} /\ fired \in BOOLEAN
    /\ owed \subseteq Conns /\ current \subseteq Conns
    /\ saved \in AllIds \cup {NoId} /\ clock \in 0 .. MaxAttach

LEMMA InitIInv == Init => IInv
<1> SUFFICES ASSUME Init PROVE IInv
  OBVIOUS
<1>1. saved \in AllIds \cup {NoId}
  BY DEF Init, AllIds
<1>2. Ready(reg) /\ Settled(reg)
  BY <1>1, BootSettles DEF Init
<1>3. timer \in {"armed", "off"} /\ fired \in BOOLEAN
  BY DEF Init
<1>4. owed \subseteq Conns /\ current \subseteq Conns /\ clock \in 0 .. MaxAttach
  BY ClientRegistryAssumption DEF Init
<1> QED
  BY <1>1, <1>2, <1>3, <1>4 DEF IInv, Ready, TypeOK

LEMMA AttachKeeps ==
    ASSUME IInv, NEW c \in Conns, NEW i \in AllIds, NEW w \in BOOLEAN,
           NEW sent \in BOOLEAN, NEW reattach \in BOOLEAN,
           Attach(c, i, w, sent, reattach)
    PROVE  IInv'
<1> DEFINE r1 == Registered(c, i, w)
           cold == ColdStart(r1, c, sent, reattach)
           r2 == IF Claims(c, i) \/ cold THEN Cleared(r1) ELSE r1
           r3 == Elect(r2)
<1>1. cold \in BOOLEAN
  BY DEF ColdStart
<1>2. /\ ~Refused(c, i) /\ clock < MaxAttach /\ clock' = clock + 1
      /\ reg' = r3 /\ TimerFollows(r3, FALSE)
      /\ owed' = owed \cup (IF Changed(r2, r3) THEN r3.attached ELSE {c})
      /\ current' = IF News(r3) = News(reg) THEN current \ {c} ELSE {}
      /\ fired' = fired /\ saved' = saved
  BY DEF Attach
<1>3. Ready(r2)
  <2> HIDE DEF cold
  <2> QED
    BY <1>1, <1>2, AttachReady DEF IInv, TypeOK
<1> HIDE DEF r1, r2, cold
<1>4. Ready(r3) /\ Settled(r3)
  BY <1>3, ElectSettles
<1> HIDE DEF r3
<1>5. r3.attached \subseteq Conns
  BY <1>4 DEF Ready, Registries
<1>6. Frame'
  BY <1>2, <1>5, ClientRegistryAssumption
  DEF IInv, TypeOK, Frame, TimerFollows
<1> QED
  BY <1>2, <1>4, <1>6 DEF IInv, TypeOK, Frame, Ready, Settled

LEMMA NextIInv == IInv /\ [Next]_vars => IInv'
<1> SUFFICES ASSUME IInv, [Next]_vars PROVE IInv'
  OBVIOUS
<1> USE DEF IInv
<1>0. /\ \A c \in Conns : c \in reg.attached => reg.id[c] \in AllIds
      /\ \A r : Ready(r) => r \in Registries /\ r.attached \subseteq Conns
  BY DEF Ready, Named, Registries
<1>1. ASSUME NEW c \in Conns, NEW i \in Ids, NEW w \in BOOLEAN,
             NEW reattach \in BOOLEAN, Attach(c, i, w, TRUE, reattach)
      PROVE  IInv'
  BY <1>1, AttachKeeps DEF AllIds
<1>2. ASSUME NEW c \in Conns, NEW w \in BOOLEAN, AttachAnon(c, w)
      PROVE  IInv'
  <2> DEFINE i == IF c \in reg.attached THEN reg.id[c] ELSE Anon[c]
  <2>1. i \in AllIds
    BY <1>0 DEF AllIds
  <2>2. Attach(c, i, w, FALSE, FALSE)
    BY <1>2 DEF AttachAnon
  <2> HIDE DEF i
  <2> QED
    BY <2>1, <2>2, AttachKeeps
<1>3. ASSUME NEW c \in Conns, Lose(c) PROVE IInv'
  <2> DEFINE r1 == Without(reg, c)
             kept == IsMaster(reg, c) /\ r1.attached # {}
             r2 == IF kept THEN Graced(r1, c) ELSE r1
             r3 == Elect(r2)
  <2>1. /\ reg' = r3 /\ TimerFollows(r3, kept) /\ Farewell(r3, c)
        /\ UNCHANGED <<fired, saved, clock>>
    BY <1>3 DEF Lose
  <2>2. Ready(r2)
    BY WithoutReady, GracedReady
  <2> HIDE DEF r1, r2, kept
  <2>3. Ready(r3) /\ Settled(r3)
    BY <2>2, ElectSettles
  <2> HIDE DEF r3
  <2>4. Frame'
    BY <2>1, <2>3, <1>0 DEF Frame, TypeOK, TimerFollows, Farewell
  <2> QED
    BY <2>1, <2>3, <2>4, <1>0 DEF TypeOK, Frame
<1>4. ASSUME NEW c \in Conns, Detach(c) PROVE IInv'
  <2> DEFINE r == Left(c)
  <2>1. /\ reg' = r /\ TimerFollows(r, FALSE) /\ Farewell(r, c)
        /\ UNCHANGED <<fired, saved, clock>>
    BY <1>4 DEF Detach
  <2>2. Ready(r) /\ Settled(r)
    BY WithoutReady, ElectSettles DEF Left
  <2> HIDE DEF r
  <2>3. Frame'
    BY <2>1, <2>2, <1>0 DEF Frame, TypeOK, TimerFollows, Farewell
  <2> QED
    BY <2>1, <2>2, <2>3, <1>0 DEF TypeOK, Frame
<1>5. ASSUME NEW c \in Conns, TakeControl(c) PROVE IInv'
  <2> DEFINE r == Taken(c)
  <2>1. /\ reg' = r /\ TimerFollows(r, FALSE) /\ Broadcast(r) /\ Eligible(reg, c)
        /\ UNCHANGED <<fired, saved, clock>>
    BY <1>5 DEF TakeControl
  <2>2. Ready(r) /\ Settled(r)
    BY <2>1, TakenSettles
  <2> HIDE DEF r
  <2>3. Frame'
    BY <2>1, <2>2, <1>0 DEF Frame, TypeOK, TimerFollows, Broadcast
  <2> QED
    BY <2>1, <2>2, <2>3, <1>0 DEF TypeOK, Frame
<1>6. ASSUME NEW c \in Conns, SendState(c) PROVE IInv'
  BY <1>6 DEF SendState, TypeOK
<1>7. ASSUME NEW c \in Conns, NEW w \in BOOLEAN, SetGeometry(c, w)
      PROVE  IInv'
  <2> DEFINE r == Elect([reg EXCEPT !.wide[c] = w])
  <2>1. /\ reg' = r /\ TimerFollows(r, FALSE) /\ Broadcast(r)
        /\ UNCHANGED <<fired, saved, clock>>
    BY <1>7 DEF SetGeometry
  <2>2. Ready(r) /\ Settled(r)
    BY ResizedReady, ElectSettles
  <2> HIDE DEF r
  <2>3. Frame'
    BY <2>1, <2>2, <1>0 DEF Frame, TypeOK, TimerFollows, Broadcast
  <2> QED
    BY <2>1, <2>2, <2>3, <1>0 DEF TypeOK, Frame
<1>8. CASE TimerFires
  BY <1>8 DEF TimerFires, TypeOK
<1>9. CASE Expire
  <2> DEFINE r == Elect(reg)
  <2>1. /\ reg' = r /\ TimerFollows(r, FALSE) /\ Broadcast(r) /\ fired' = FALSE
        /\ UNCHANGED <<saved, clock>>
    BY <1>9 DEF Expire
  <2>2. Ready(r) /\ Settled(r)
    BY ElectSettles
  <2> HIDE DEF r
  <2>3. Frame'
    BY <2>1, <2>2, <1>0 DEF Frame, TypeOK, TimerFollows, Broadcast
  <2> QED
    BY <2>1, <2>2, <2>3, <1>0 DEF TypeOK, Frame
<1>10. CASE TimePasses
  <2>1. /\ reg' = [reg EXCEPT !.reserved.due = TRUE]
        /\ UNCHANGED <<timer, fired, owed, current, saved, clock>>
    BY <1>10 DEF TimePasses
  <2>2. /\ reg' \in Registries
        /\ reg'.attached = reg.attached /\ reg'.id = reg.id
        /\ reg'.wide = reg.wide /\ reg'.master = reg.master
        /\ reg'.reserved.id = reg.reserved.id
        /\ reg'.reserved.owner = reg.reserved.owner
    BY <2>1 DEF Ready, Registries, Reservations
  <2>3. \A c \in Conns : /\ IsMaster(reg', c) <=> IsMaster(reg, c)
                         /\ Eligible(reg', c) <=> Eligible(reg, c)
                         /\ Shadowed(reg', c) <=> Shadowed(reg, c)
    BY <2>2 DEF IsMaster, Eligible, Shadowed, RestartReserve, Reserved
  <2>4. Ready(reg')
    BY <2>2, <2>3, <1>0 DEF Ready, Named, Unique, Unclaimed, Agrees, Reserved
  <2>5. Candidates(reg') = Candidates(reg)
    BY <2>2, <2>3, <1>0 DEF Candidates
  <2>6. Settled(reg')
    BY <2>2, <2>3, <2>5, <1>0
    DEF Settled, HeldByEligible, KeptForNobody, Filled, Reserved
  <2> QED
    BY <2>1, <2>2, <2>4, <2>6 DEF TypeOK
<1>11. CASE Snapshot
  <2>1. reg.master \in AllIds \cup {NoId}
    BY DEF Ready, Registries
  <2> QED
    BY <1>11, <2>1 DEF Snapshot, TypeOK
<1>12. CASE Restart
  <2>1. Ready(Boot(saved)) /\ Settled(Boot(saved))
    BY BootSettles DEF TypeOK
  <2> QED
    BY <1>12, <2>1, <1>0 DEF Restart, TypeOK
<1>13. CASE UNCHANGED vars
  BY <1>13 DEF vars, TypeOK
<1> QED
  BY <1>1, <1>2, <1>3, <1>4, <1>5, <1>6, <1>7, <1>8, <1>9, <1>10, <1>11,
     <1>12, <1>13 DEF Next, ClientStep

\* In every reachable state the registry is Ready and Settled.
THEOREM Invariance == Spec => []IInv
<1> QED
  BY InitIInv, NextIInv, PTL DEF Spec

----------------------------------------------------------------------------
(* The properties *)

\* The registry and the rest of the state keep their types.
THEOREM TypeCorrect == Spec => []TypeOK
<1>1. IInv => TypeOK
  BY DEF IInv
<1> QED
  BY <1>1, Invariance, PTL

\* No two attached records share an id: attach drops a dead link's record
\* when its client comes back on another connection.
THEOREM IdsAreUnique == Spec => []UniqueIds
<1>1. IInv => UniqueIds
  BY DEF IInv, Ready, Unique, UniqueIds
<1> QED
  BY <1>1, Invariance, PTL

\* Only an attached, sized client that is no viewer is ever master.
THEOREM MasterAlwaysEligible == Spec => []MasterIsEligible
<1>1. IInv => MasterIsEligible
  BY DEF IInv, Settled, HeldByEligible, MasterIsEligible
<1> QED
  BY <1>1, Invariance, PTL

\* While a slot is kept it is the master slot and nobody holds it.
THEOREM KeptSlotIsTheSlot == Spec => []ReserveIsTheSlot
<1>1. IInv => ReserveIsTheSlot
  BY DEF IInv, Settled, KeptForNobody, ReserveIsTheSlot
<1> QED
  BY <1>1, Invariance, PTL

\* The slot is kept, or held, or there is nobody to hold it.
THEOREM SlotAlwaysFilled == Spec => []SlotFilled
<1>1. IInv => SlotFilled
  BY DEF IInv, Settled, Filled, SlotFilled
<1> QED
  BY <1>1, Invariance, PTL

\* The published id is the master's own and no other attached client's.
THEOREM PublishedIsMaster == Spec => []OnlyMasterReadsItself
<1>1. ASSUME IInv, NEW c \in reg.attached
      PROVE  reg.id[c] = Published(reg) <=> IsMaster(reg, c)
  <2> USE <1>1 DEF IInv
  <2>1. /\ reg.id[c] \in AllIds /\ reg.id[c] # NoId
        /\ reg.master \in AllIds \cup {NoId}
        /\ \A d \in reg.attached : reg.id[d] = reg.id[c] => d = c
    BY DEF Ready, Registries, Named, Unique
  <2>2. CASE \E d \in reg.attached : reg.id[d] = reg.master /\ Shadowed(reg, d)
    <3>1. PICK d \in reg.attached : reg.id[d] = reg.master /\ Shadowed(reg, d)
      BY <2>2
    <3>2. reg.id[d] \in AllIds
      BY DEF Ready, Registries, Named
    <3>3. Published(reg) = Marker(reg.master) /\ Marker(reg.master) # reg.id[c]
      BY <2>1, <2>2, <3>1, <3>2, ClientRegistryAssumption DEF Published
    <3>4. ~IsMaster(reg, c)
      BY <2>1, <3>1 DEF IsMaster
    <3> QED
      BY <3>3, <3>4
  <2>3. CASE ~\E d \in reg.attached : reg.id[d] = reg.master /\ Shadowed(reg, d)
    BY <2>1, <2>3 DEF Published, IsMaster
  <2> QED
    BY <2>2, <2>3
<1>2. IInv => OnlyMasterReadsItself
  BY <1>1 DEF OnlyMasterReadsItself
<1> QED
  BY <1>2, Invariance, PTL

----------------------------------------------------------------------------
(* Who is told *)

\* An election removes and renames nobody.
LEMMA ElectFields ==
    ASSUME NEW r \in Registries
    PROVE  Elect(r).attached = r.attached /\ Elect(r).id = r.id
<1>1. \A m : LET s == [r EXCEPT !.master = m]
            IN  s.attached = r.attached /\ s.id = r.id
  BY DEF Registries
<1>2. \A m : LET s == [Cleared(r) EXCEPT !.master = m]
            IN  s.attached = r.attached /\ s.id = r.id
  BY ClearedFields DEF Registries
<1> QED
  BY <1>1, <1>2 DEF Elect

\* A daemon starts with nobody attached.
LEMMA BootAttached ==
    ASSUME NEW i \in AllIds \cup {NoId}
    PROVE  Boot(i).attached = {}
<1> DEFINE kept == [NoReserve EXCEPT !.id = i]
           r == [Empty EXCEPT !.reserved = kept]
<1>1. NoReserve \in Reservations
  BY ClientRegistryAssumption DEF Reservations, NoReserve
<1>2. kept \in Reservations
  BY <1>1 DEF Reservations
<1>3. Empty \in Registries /\ Empty.attached = {}
  BY <1>1, ClientRegistryAssumption DEF Empty, Registries
<1> HIDE DEF kept
<1>4. r \in Registries /\ r.attached = {}
  BY <1>2, <1>3 DEF Registries
<1> QED
  BY <1>4, ElectFields DEF Boot, kept

\* Every attached client has been sent the news or is owed it, whichever
\* method made the news.
THEOREM EveryoneIsTold == Spec => []EveryClientTold
<1>1. Init => EveryClientTold
  <2>1. Init => saved \in AllIds \cup {NoId} /\ reg = Boot(saved)
    BY DEF Init, AllIds
  <2> QED
    BY <2>1, BootAttached DEF EveryClientTold
<1>2. IInv /\ IInv' /\ EveryClientTold /\ [Next]_vars => EveryClientTold'
  <2> SUFFICES ASSUME IInv, IInv', EveryClientTold, [Next]_vars
               PROVE  EveryClientTold'
    OBVIOUS
  <2> USE DEF EveryClientTold
  <2>0. reg \in Registries /\ Ready(reg)
    BY DEF IInv, Ready
  <2>1. ASSUME NEW c \in Conns, NEW i \in AllIds, NEW w \in BOOLEAN,
               NEW sent \in BOOLEAN, NEW reattach \in BOOLEAN,
               Attach(c, i, w, sent, reattach)
        PROVE  EveryClientTold'
    <3> DEFINE r1 == Registered(c, i, w)
               r2 == IF Claims(c, i) \/ ColdStart(r1, c, sent, reattach)
                     THEN Cleared(r1) ELSE r1
               r3 == Elect(r2)
    <3>1. /\ reg' = r3 /\ clock < MaxAttach
          /\ owed' = owed \cup (IF Changed(r2, r3) THEN r3.attached ELSE {c})
          /\ current' = IF News(r3) = News(reg) THEN current \ {c} ELSE {}
      BY <2>1 DEF Attach
    <3>2. r1 \in Registries /\ r1.attached \subseteq reg.attached \cup {c}
      <4>1. clock \in 0 .. MaxAttach
        BY DEF IInv, TypeOK
      <4> QED
        BY <2>0, <3>1, <4>1, RegisteredFields, ZenonT(60)
    <3>3. r2 \in Registries /\ r2.attached = r1.attached
      BY <3>2, ClearedFields
    <3>4. r3.attached \subseteq reg.attached \cup {c}
      BY <3>2, <3>3, ElectFields
    <3>5. Changed(r2, r3) <=> News(r3) # News(reg)
      BY DEF Changed
    <3> HIDE DEF r1, r2, r3
    <3> QED
      BY <3>1, <3>4, <3>5
  <2>2. ASSUME NEW r \in Registries, reg' = r, r.attached = reg.attached,
               Broadcast(r)
        PROVE  EveryClientTold'
    BY <2>2 DEF Broadcast
  <2>3. ASSUME NEW c \in Conns, ClientStep(c) PROVE EveryClientTold'
    <3>1. ASSUME NEW i \in Ids, NEW w \in BOOLEAN, NEW reattach \in BOOLEAN,
                 Attach(c, i, w, TRUE, reattach)
          PROVE  EveryClientTold'
      BY <3>1, <2>1 DEF AllIds
    <3>2. ASSUME NEW w \in BOOLEAN, AttachAnon(c, w) PROVE EveryClientTold'
      <4> DEFINE i == IF c \in reg.attached THEN reg.id[c] ELSE Anon[c]
      <4>1. i \in AllIds
        BY <2>0 DEF AllIds, Ready, Named, Registries
      <4>2. Attach(c, i, w, FALSE, FALSE)
        BY <3>2 DEF AttachAnon
      <4> HIDE DEF i
      <4> QED
        BY <4>1, <4>2, <2>1
    <3>3. ASSUME \E r : reg' = r /\ Farewell(r, c), c \notin reg'.attached
          PROVE  EveryClientTold'
      BY <3>3 DEF Farewell
    <3>4. CASE Lose(c)
      <4> DEFINE r1 == Without(reg, c)
                 kept == IsMaster(reg, c) /\ r1.attached # {}
                 r2 == IF kept THEN Graced(r1, c) ELSE r1
      <4>1. reg' = Elect(r2) /\ Farewell(Elect(r2), c)
        BY <3>4 DEF Lose
      <4>2. r1 \in Registries /\ c \notin r1.attached
        BY <2>0 DEF Without, Registries
      <4>3. kept => Graced(r1, c) \in Registries
        BY <2>0, GracedReady DEF Ready
      <4>4. Graced(r1, c).attached = r1.attached
        <5> HIDE DEF r1
        <5> QED
          BY <4>2 DEF Graced, Registries
      <4>5. Elect(r2).attached = r1.attached
        <5>1. r2 \in Registries /\ r2.attached = r1.attached
          <6> HIDE DEF r1, kept
          <6> QED
            BY <4>2, <4>3, <4>4
        <5> QED
          BY <5>1, ElectFields
      <4> HIDE DEF r1, r2, kept
      <4> QED
        BY <3>3, <4>1, <4>2, <4>5
    <3>5. CASE Detach(c)
      <4>1. Without(reg, c) \in Registries /\ c \notin Without(reg, c).attached
        BY <2>0 DEF Without, Registries
      <4> QED
        BY <3>3, <3>5, <4>1, ElectFields DEF Detach, Left
    <3>6. CASE TakeControl(c)
      <4>1. Taken(c) \in Registries
        BY <2>0, <3>6, TakenSettles DEF TakeControl, Ready
      <4>2. Taken(c).attached = reg.attached
        BY <2>0, ClearedFields DEF Taken, Registries
      <4> QED
        BY <2>2, <3>6, <4>1, <4>2 DEF TakeControl
    <3>7. CASE SendState(c)
      BY <3>7 DEF SendState
    <3>8. ASSUME NEW w \in BOOLEAN, SetGeometry(c, w) PROVE EveryClientTold'
      <4> DEFINE r == [reg EXCEPT !.wide[c] = w]
      <4>1. r \in Registries /\ r.attached = reg.attached
        BY <2>0 DEF Registries
      <4>2. reg' = Elect(r) /\ Broadcast(Elect(r))
        BY <3>8 DEF SetGeometry
      <4>3. reg' \in Registries
        BY DEF IInv, TypeOK
      <4> HIDE DEF r
      <4> QED
        BY <2>2, <4>1, <4>2, <4>3, ElectFields
    <3> QED
      BY <2>3, <3>1, <3>2, <3>4, <3>5, <3>6, <3>7, <3>8 DEF ClientStep
  <2>4. CASE TimerFires \/ Snapshot \/ UNCHANGED vars
    BY <2>4 DEF TimerFires, Snapshot, vars
  <2>5. CASE Expire
    <3>1. reg' = Elect(reg) /\ Broadcast(Elect(reg)) /\ reg' \in Registries
      BY <2>5 DEF Expire, IInv, TypeOK
    <3> QED
      BY <3>1, <2>0, <2>2, ElectFields
  <2>6. CASE TimePasses
    BY <2>6, <2>0 DEF TimePasses, Registries
  <2>7. CASE Restart
    <3>1. reg' = Boot(saved) /\ saved \in AllIds \cup {NoId}
      BY <2>7 DEF Restart, IInv, TypeOK
    <3>2. Boot(saved).attached = {}
      BY <3>1, BootAttached
    <3> QED
      BY <3>1, <3>2
  <2> QED
    BY <2>3, <2>4, <2>5, <2>6, <2>7 DEF Next
<1> QED
  BY <1>1, <1>2, Invariance, PTL DEF Spec

----------------------------------------------------------------------------
(* Who may get a kept slot *)

\* A grace reserve not yet due survives an election while a client it
\* protects is attached, and so does the slot.
LEMMA GraceSurvives ==
    ASSUME IInv, Reserved(reg), ~RestartReserve(reg), ~reg.reserved.due,
           NEW r \in Registries, r.master = reg.master,
           r.reserved = reg.reserved,
           \E c \in Elect(r).attached : Elect(r).id[c] \in reg.reserved.protects
    PROVE  Elect(r).master = reg.master
<1>1. reg.master = reg.reserved.id
  BY DEF IInv, Settled, KeptForNobody
<1>2. Elect(r).id = r.id /\ Elect(r).attached = r.attached
  BY ElectFields
<1>3. StillProtects(r)
  BY <1>2 DEF StillProtects
<1>4. KeepsReserve(r)
  BY <1>3 DEF KeepsReserve, Reserved
<1> QED
  BY <1>1, <1>4 DEF Elect, Registries

\* A restart reserve not yet due survives any election, held by nobody.
LEMMA RestartReserveSurvives ==
    ASSUME NEW r, Ready(r), RestartReserve(r), ~r.reserved.due
    PROVE  \A c \in Conns : ~IsMaster(Elect(r), c)
<1>1. ~MasterStands(r)
  BY DEF MasterStands, IsMaster, Ready, Agrees, Unclaimed, RestartReserve
<1>2. KeepsReserve(r)
  BY DEF KeepsReserve, StillProtects, RestartReserve
<1>3. Elect(r) = [r EXCEPT !.master = r.reserved.id]
  BY <1>1, <1>2 DEF Elect
<1>4. Reserved(Elect(r))
  BY <1>3 DEF Reserved, Ready, Registries, RestartReserve
<1>5. \A c \in Elect(r).attached : ~IsMaster(Elect(r), c)
  BY <1>4, ElectSettles DEF Settled, KeptForNobody
<1> QED
  BY <1>5 DEF IsMaster

\* While a grace reserve stands and a client it protects is attached, the slot
\* moves only to a client that takes control or wears the kept id.
THEOREM GraceIsKept == Spec => GraceKeepsSlot
<1>1. ASSUME IInv, [Next]_vars PROVE [SlotKept]_vars
  <2> SUFFICES ASSUME Next, Reserved(reg), ~RestartReserve(reg),
                      ~reg.reserved.due,
                      \E c \in reg'.attached :
                          reg'.id[c] \in reg.reserved.protects,
                      ~\E c \in Conns : TakeControl(c),
                      ~\E c \in reg'.attached : reg'.id[c] = reg.reserved.id,
                      ~Restart
               PROVE  reg'.master = reg.master
    BY <1>1 DEF SlotKept
  <2>0. Ready(reg) /\ reg \in Registries
    BY <1>1 DEF IInv, Ready
  <2>1. ASSUME NEW r \in Registries, reg' = Elect(r), r.master = reg.master,
               r.reserved = reg.reserved
        PROVE  reg'.master = reg.master
    BY <1>1, <2>1, GraceSurvives
  <2>2. ASSUME NEW c \in Conns, NEW i \in AllIds, NEW w \in BOOLEAN,
               NEW sent \in BOOLEAN, NEW reattach \in BOOLEAN,
               Attach(c, i, w, sent, reattach)
        PROVE  reg'.master = reg.master
    <3> DEFINE r1 == Registered(c, i, w)
               cold == ColdStart(r1, c, sent, reattach)
               r2 == IF Claims(c, i) \/ cold THEN Cleared(r1) ELSE r1
    <3>1. reg' = Elect(r2) /\ clock < MaxAttach
      BY <2>2 DEF Attach
    <3>2. /\ r1 \in Registries /\ c \in r1.attached /\ r1.id[c] = i
          /\ r1.master = reg.master /\ r1.reserved = reg.reserved
      <4>1. clock \in 0 .. MaxAttach
        BY <1>1 DEF IInv, TypeOK
      <4>2. /\ r1 \in Registries
            /\ r1.attached = (reg.attached \cup {c}) \ Twins(c, i)
            /\ r1.id = [reg.id EXCEPT ![c] = i]
            /\ r1.master = reg.master /\ r1.reserved = reg.reserved
        BY <2>0, <3>1, <4>1, RegisteredFields
      <4> HIDE DEF r1
      <4> QED
        BY <2>0, <4>2 DEF Twins, Registries
    <3>3. ~cold
      BY <3>2 DEF ColdStart, RestartReserve, Reserved
    <3>4. ~Claims(c, i)
      <4>1. SUFFICES ASSUME Claims(c, i) PROVE FALSE
        OBVIOUS
      <4>2. i = reg.reserved.id /\ r2 = Cleared(r1)
        BY <4>1 DEF Claims
      <4> HIDE DEF r1, cold
      <4>3. r2 \in Registries /\ r2.attached = r1.attached /\ r2.id = r1.id
        BY <3>2, <4>2, ClearedFields
      <4> HIDE DEF r2
      <4>4. Elect(r2).attached = r2.attached /\ Elect(r2).id = r2.id
        BY <4>3, ElectFields
      <4> QED
        BY <3>1, <3>2, <4>2, <4>3, <4>4
    <3> HIDE DEF r1, cold
    <3> QED
      BY <2>1, <3>1, <3>2, <3>3, <3>4
  <2>3. ASSUME NEW c \in Conns, ClientStep(c) PROVE reg'.master = reg.master
    <3>1. ASSUME NEW i \in Ids, NEW w \in BOOLEAN, NEW reattach \in BOOLEAN,
                 Attach(c, i, w, TRUE, reattach)
          PROVE  reg'.master = reg.master
      BY <3>1, <2>2 DEF AllIds
    <3>2. ASSUME NEW w \in BOOLEAN, AttachAnon(c, w)
          PROVE  reg'.master = reg.master
      <4> DEFINE i == IF c \in reg.attached THEN reg.id[c] ELSE Anon[c]
      <4>1. i \in AllIds
        BY <2>0 DEF AllIds, Ready, Named, Registries
      <4>2. Attach(c, i, w, FALSE, FALSE)
        BY <3>2 DEF AttachAnon
      <4> HIDE DEF i
      <4> QED
        BY <4>1, <4>2, <2>2
    <3>3. /\ Without(reg, c) \in Registries
          /\ Without(reg, c).master = reg.master
          /\ Without(reg, c).reserved = reg.reserved
      BY <2>0 DEF Without, Registries
    <3>4. CASE Lose(c)
      <4>1. ~IsMaster(reg, c)
        BY <1>1 DEF IInv, Settled, KeptForNobody, IsMaster
      <4>2. reg' = Elect(Without(reg, c))
        BY <3>4, <4>1 DEF Lose
      <4> QED
        BY <2>1, <3>3, <4>2
    <3>5. CASE Detach(c)
      BY <2>1, <3>3, <3>5 DEF Detach, Left
    <3>6. CASE SendState(c)
      BY <3>6 DEF SendState
    <3>7. ASSUME NEW w \in BOOLEAN, SetGeometry(c, w)
          PROVE  reg'.master = reg.master
      <4> DEFINE r == [reg EXCEPT !.wide[c] = w]
      <4>1. /\ r \in Registries /\ r.master = reg.master
            /\ r.reserved = reg.reserved
        BY <2>0 DEF Registries
      <4>2. reg' = Elect(r)
        BY <3>7 DEF SetGeometry
      <4> HIDE DEF r
      <4> QED
        BY <2>1, <4>1, <4>2
    <3> QED
      BY <2>3, <3>1, <3>2, <3>4, <3>5, <3>6, <3>7 DEF ClientStep
  <2>4. CASE TimerFires \/ Snapshot
    BY <2>4 DEF TimerFires, Snapshot
  <2>5. CASE Expire
    BY <2>0, <2>1, <2>5 DEF Expire
  <2>6. CASE TimePasses
    BY <2>0, <2>6 DEF TimePasses, Registries
  <2> QED
    BY <2>3, <2>4, <2>5, <2>6 DEF Next
<1>2. IInv /\ [Next]_vars => [SlotKept]_vars
  BY <1>1
<1> QED
  BY <1>2, Invariance, PTL DEF Spec, GraceKeepsSlot

\* A slot kept for a known principal is inherited by that principal or by the
\* local socket, and after a restart by the local socket alone, unless a
\* client takes control.
THEOREM OnlyOwnerInherits == Spec => SlotInheritedByOwner
<1>1. ASSUME IInv, IInv', [Next]_vars, ~UNCHANGED vars PROVE HeirIsOwner
  <2> SUFFICES ASSUME Next, NEW c \in Conns, Reserved(reg),
                      ~reg.reserved.due, IsMaster(reg', c),
                      reg'.id[c] = reg.reserved.id, ~TakeControl(c)
               PROVE  Principal[c] \in {Local, reg.reserved.owner}
    BY <1>1 DEF HeirIsOwner
  <2>0. /\ Ready(reg) /\ reg \in Registries /\ Ready(reg')
        /\ \A d \in Conns : ~IsMaster(reg, d)
    BY <1>1 DEF IInv, Ready, Settled, KeptForNobody, IsMaster
  <2>1. ASSUME c \in reg.attached, reg.id[c] = reg.reserved.id,
               NEW r, Ready(r), reg' = Elect(r), r.reserved = reg.reserved
        PROVE  FALSE
    <3>1. RestartReserve(r) /\ ~r.reserved.due
      BY <2>0, <2>1 DEF Ready, Unclaimed, Shadowed, RestartReserve, Reserved
    <3> QED
      BY <2>1, <3>1, RestartReserveSurvives
  <2>2. ASSUME NEW d \in Conns, NEW i \in AllIds, NEW w \in BOOLEAN,
               NEW sent \in BOOLEAN, NEW reattach \in BOOLEAN,
               Attach(d, i, w, sent, reattach)
        PROVE  Principal[c] \in {Local, reg.reserved.owner}
    <3> DEFINE r1 == Registered(d, i, w)
               cold == ColdStart(r1, d, sent, reattach)
               r2 == IF Claims(d, i) \/ cold THEN Cleared(r1) ELSE r1
    <3>1. /\ reg' = Elect(r2) /\ ~Refused(d, i) /\ clock < MaxAttach
          /\ cold \in BOOLEAN /\ clock \in 0 .. MaxAttach
      BY <1>1, <2>2 DEF Attach, ColdStart, IInv, TypeOK
    <3>2. /\ r1 \in Registries
          /\ r1.attached = (reg.attached \cup {d}) \ Twins(d, i)
          /\ r1.id = [reg.id EXCEPT ![d] = i]
          /\ r1.master = reg.master /\ r1.reserved = reg.reserved
      BY <2>0, <3>1, RegisteredFields
    <3>3. Ready(r2)
      <4> HIDE DEF cold
      <4> QED
        BY <2>0, <3>1, AttachReady
    <3>4. c \in r1.attached /\ r1.id[c] = reg.reserved.id
      <4>1. r2.attached = r1.attached /\ r2.id = r1.id
        BY <3>2, ClearedFields
      <4>2. Elect(r2).attached = r2.attached /\ Elect(r2).id = r2.id
        <5> HIDE DEF r2
        <5> QED
          BY <3>3, ElectFields DEF Ready
      <4>3. c \in reg'.attached
        BY DEF IsMaster
      <4> HIDE DEF r1, r2
      <4> QED
        BY <3>1, <4>1, <4>2, <4>3
    <3>5. CASE c = d
      <4>1. i = reg.reserved.id
        BY <2>0, <3>2, <3>4, <3>5 DEF Registries
      <4>2. CASE Claims(d, i)
        BY <3>5, <4>2 DEF Claims, Admits
      <4>3. CASE ~Claims(d, i)
        <5>1. Principal[c] # Local /\ reg.reserved.owner = Unknown
          BY <3>1, <3>5, <4>1, <4>3 DEF Refused, Claims
        <5>2. ~cold
          BY <3>5, <5>1 DEF ColdStart
        <5>3. r2 = r1 /\ RestartReserve(r2) /\ ~r2.reserved.due
          <6> HIDE DEF r1, cold
          <6> QED
            BY <3>2, <4>3, <5>1, <5>2 DEF RestartReserve, Reserved
        <5> HIDE DEF r2
        <5> QED
          BY <3>1, <3>3, <5>3, RestartReserveSurvives
      <4> QED
        BY <4>2, <4>3
    <3>6. CASE c # d
      <4>1. c \in reg.attached /\ reg.id[c] = reg.reserved.id
        BY <2>0, <3>2, <3>4, <3>6 DEF Registries
      <4>2. ~Claims(d, i)
        BY <3>2, <3>4, <3>6, <4>1 DEF Claims, Twins
      <4>3. ~cold
        BY <3>4, <3>6 DEF ColdStart
      <4>4. r2 = r1
        <5> HIDE DEF r1, cold
        <5> QED
          BY <4>2, <4>3
      <4>5. r2.reserved = reg.reserved
        BY <3>2, <4>4
      <4> HIDE DEF r1, r2, cold
      <4> QED
        BY <2>1, <3>1, <3>3, <4>1, <4>5
    <3> QED
      BY <3>5, <3>6
  <2>3. ASSUME NEW r, Ready(r), reg' = Elect(r), r.reserved = reg.reserved,
               r.attached \subseteq reg.attached, r.id = reg.id
        PROVE  FALSE
    <3>1. Elect(r).attached = r.attached /\ Elect(r).id = r.id
      BY <2>3, ElectFields DEF Ready
    <3>2. c \in reg'.attached
      BY DEF IsMaster
    <3> QED
      BY <2>1, <2>3, <3>1, <3>2
  <2>4. ASSUME NEW d \in Conns, ClientStep(d)
        PROVE  Principal[c] \in {Local, reg.reserved.owner}
    <3>1. ASSUME NEW i \in Ids, NEW w \in BOOLEAN, NEW reattach \in BOOLEAN,
                 Attach(d, i, w, TRUE, reattach)
          PROVE  Principal[c] \in {Local, reg.reserved.owner}
      BY <3>1, <2>2 DEF AllIds
    <3>2. ASSUME NEW w \in BOOLEAN, AttachAnon(d, w)
          PROVE  Principal[c] \in {Local, reg.reserved.owner}
      <4> DEFINE i == IF d \in reg.attached THEN reg.id[d] ELSE Anon[d]
      <4>1. i \in AllIds
        BY <2>0 DEF AllIds, Ready, Named, Registries
      <4>2. Attach(d, i, w, FALSE, FALSE)
        BY <3>2 DEF AttachAnon
      <4> HIDE DEF i
      <4> QED
        BY <4>1, <4>2, <2>2
    <3>3. /\ Ready(Without(reg, d))
          /\ Without(reg, d).reserved = reg.reserved
          /\ Without(reg, d).attached \subseteq reg.attached
          /\ Without(reg, d).id = reg.id
      BY <2>0, WithoutReady DEF Without, Registries
    <3>4. ~Lose(d)
      BY <2>0, <2>3, <3>3 DEF Lose
    <3>5. ~Detach(d)
      BY <2>3, <3>3 DEF Detach, Left
    <3>6. CASE TakeControl(d)
      <4>1. reg' = Taken(d) /\ d \in reg.attached /\ d # c
        BY <3>6 DEF TakeControl, Eligible
      <4>2. Taken(d).attached = reg.attached /\ Taken(d).id = reg.id
            /\ Taken(d).master = reg.id[d]
        BY <2>0, ClearedFields DEF Taken, Registries
      <4> QED
        BY <2>0, <4>1, <4>2 DEF IsMaster, Ready, Unique
    <3>7. ~SendState(d)
      BY <2>0 DEF SendState
    <3>8. ASSUME NEW w \in BOOLEAN, SetGeometry(d, w) PROVE FALSE
      <4> DEFINE r == [reg EXCEPT !.wide[d] = w]
      <4>1. Ready(r)
        BY <2>0, ResizedReady
      <4>2. /\ r.attached = reg.attached /\ r.id = reg.id
            /\ r.reserved = reg.reserved
        BY <2>0 DEF Registries
      <4>3. reg' = Elect(r)
        BY <3>8 DEF SetGeometry
      <4> HIDE DEF r
      <4> QED
        BY <2>3, <4>1, <4>2, <4>3
    <3> QED
      BY <2>4, <3>1, <3>2, <3>4, <3>5, <3>6, <3>7, <3>8 DEF ClientStep
  <2>5. ~TimerFires /\ ~Snapshot
    BY <2>0 DEF TimerFires, Snapshot
  <2>6. ~Expire
    BY <2>0, <2>3 DEF Expire
  <2>7. ~TimePasses
    <3>1. TimePasses => (IsMaster(reg', c) <=> IsMaster(reg, c))
      BY <2>0 DEF TimePasses, IsMaster, Shadowed, RestartReserve, Reserved,
                  Registries, Reservations
    <3> QED
      BY <2>0, <3>1
  <2>8. ~Restart
    BY <1>1, BootAttached DEF Restart, IsMaster, IInv, TypeOK
  <2> QED
    BY <2>4, <2>5, <2>6, <2>7, <2>8 DEF Next
<1>2. IInv /\ IInv' /\ [Next]_vars => [HeirIsOwner]_vars
  BY <1>1
<1> QED
  BY <1>2, Invariance, PTL DEF Spec, SlotInheritedByOwner

----------------------------------------------------------------------------
(* The properties together *)

\* Ids are unique, and the slot is held by a fit client, kept while nobody
\* holds it, or open because nobody is fit.
THEOREM SlotAlwaysSound == Spec => []SlotSound
<1>1. UniqueIds /\ MasterIsEligible /\ ReserveIsTheSlot /\ SlotFilled
      => SlotSound
  BY DEF SlotSound
<1> QED
  BY <1>1, IdsAreUnique, MasterAlwaysEligible, KeptSlotIsTheSlot,
     SlotAlwaysFilled, PTL

\* A client takes itself for master exactly when it is, and none is left with
\* an old answer.
THEOREM MasterIsKnown == Spec => []ClientsKnowMaster
<1>1. OnlyMasterReadsItself /\ EveryClientTold => ClientsKnowMaster
  BY DEF ClientsKnowMaster
<1> QED
  BY <1>1, PublishedIsMaster, EveryoneIsTold, PTL

\* A kept slot is neither given up early nor passed to a stranger.
THEOREM SlotMovesOnlyInTurn == Spec => SlotMovesInTurn
  BY GraceIsKept, OnlyOwnerInherits DEF SlotMovesInTurn
=============================================================================
