------------------------- MODULE WatchEvents_proofs -------------------------
(***************************************************************************)
(* What WatchEvents keeps for every number of sources, emitters, watches   *)
(* and events, and every limit of the queue and of parked requests.        *)
(*                                                                         *)
(* The list of watchers is kept by one dispatch goroutine, so at most one  *)
(* is listed, it is the newest, and its room was admitted before it.  That *)
(* an agent skips only what is known rests on two facts: the queue is the  *)
(* pushed events in reverse, less the dropped ones; and while a watch is   *)
(* between its look and its answer, everything newer than its marker is    *)
(* known, but for what woke it.                                            *)
(***************************************************************************)
EXTENDS WatchEvents, FiniteSetTheorems, SequenceTheorems, TLAPS

Channels == {"empty", "event", "closed"}
WatchStates == [pc : WatchPCs, since : 0 .. MaxTime, ch : Channels,
                got : Events \cup {NoEvent}]

\* What TypeOK leaves open of the watches.
Shapes ==
    /\ watch \in [Watches -> WatchStates]
    /\ watchers \subseteq Watches
    /\ \A w \in Watches : watch[w].ch = "event" => watch[w].got \in Events

Dispatched(w) == watch[w].pc \in {"look", "evict", "add"}

\* Requests are dispatched one at a time, the newest; the others have begun.
DispatchedInTurn ==
    /\ \A w \in Watches : w > asked => watch[w].pc = "none"
    /\ \A w \in Watches : Dispatched(w) => w = asked
    /\ \A w \in Watches : watch[w].pc = "none" \/ Dispatched(w) => watch[w].ch = "empty"
    /\ conn = "gone" => ~Dispatching

\* A listed watch waits, or is about to take itself off; and one that waits on
\* an empty channel is listed.
ListedWaits ==
    /\ \A w \in watchers : watch[w].pc \in {"wait", "remove"} /\ watch[w].ch = "empty"
    /\ \A w \in Watches : watch[w].pc = "wait" /\ watch[w].ch = "empty" => w \in watchers
    /\ conn = "gone" => watchers = {}

\* One watch is listed at a time, and room was left for it.
OneListed ==
    /\ \A v, w \in watchers : v = w
    /\ \A w \in Watches : watch[w].pc = "add" => watchers = {}
    /\ Dispatching \/ watchers # {} => waits < MaxParked

\* The queue is what was pushed and not dropped, newest first.
QueueInOrder ==
    /\ ToSet(events) \subseteq ToSet(pushed)
    /\ \A e \in ToSet(pushed) : e \in ToSet(events) \/ e \in dropped
    /\ \A i, j \in 1 .. Len(events) : i < j =>
         \E k, l \in 1 .. Len(pushed) :
             k < l /\ pushed[k] = events[j] /\ pushed[l] = events[i]

Accounted(e) == e \in window \/ e \in dropped
Known(e) == Accounted(e) \/ Indistinct(e)

\* The agent's marker is the time of an event it was given.
MarkerIsPushed == since = 1 \/ \E i \in 1 .. Len(pushed) : pushed[i].time = since

\* The newest watch looks from the agent's marker, and what is newer than that
\* and was pushed before it waits, or before what woke it, is accounted for.
WatchCovers ==
    \A w \in Watches : w = asked =>
        /\ watch[w].pc \in {"look", "evict", "add", "wait", "remove"} => watch[w].since = since
        /\ \/ watch[w].pc \in {"evict", "add"}
           \/ watch[w].pc = "wait" /\ watch[w].ch = "empty"
           => \A e \in ToSet(pushed) : e.time > since => Accounted(e)
        /\ watch[w].pc = "wait" /\ watch[w].ch = "event" =>
             /\ watch[w].got \in ToSet(pushed)
             /\ \A e \in ToSet(pushed) :
                  e.time > since /\ e.time <= watch[w].got.time /\ e # watch[w].got => Known(e)

SkippedKnown == \A e \in Skipped : Known(e)

ParkInv == TypeOK /\ Shapes /\ DispatchedInTurn /\ ListedWaits /\ OneListed

OrderInv == QueueInOrder /\ MarkerIsPushed /\ WatchCovers /\ SkippedKnown

IInv == ParkInv /\ OrderInv

----------------------------------------------------------------------------
(* What the operators do *)

LEMMA ConstantTypes ==
    /\ MaxQueue \in Nat \ {0} /\ MaxParked \in Nat \ {0} /\ MaxEvents \in Nat \ {0}
    /\ MaxWatches \in Nat \ {0} /\ MaxTime \in Nat \ {0}
  BY WatchEventsAssumption

\* The intervals that begin or end in a set of places are ordered by inclusion,
\* and finitely many, so a least and a greatest place exist.
LEMMA MinMax ==
    ASSUME NEW n \in Nat, NEW S \in SUBSET (1 .. n), S # {}
    PROVE  /\ Min(S) \in S /\ \A i \in S : Min(S) <= i
           /\ Max(S) \in S /\ \A i \in S : i <= Max(S)
<1> DEFINE U == 1 .. n
           A == {1 .. i : i \in S}
           B == {i .. n : i \in S}
<1>a. IsFiniteSet(U)
  BY FS_Interval
<1>1. IsWellFoundedOn(StrictSubsetOrdering(U), SUBSET U)
  BY <1>a, FS_FiniteSubsetsOfFinite, FS_StrictSubsetOrderingWellFounded
<1>2. \E i \in S : \A j \in S : i <= j
  <2>a. \A i \in S : 1 .. i \subseteq U
    OBVIOUS
  <2>1. A \subseteq SUBSET U /\ A # {}
    BY <2>a
  <2>2. PICK x \in A : \A y \in A : ~ (<<y, x>> \in StrictSubsetOrdering(U))
    <3> HIDE DEF A, U
    <3> QED
      BY <1>1, <2>1, WFMin
  <2>3. PICK i \in S : x = 1 .. i
    BY <2>2
  <2>4. ASSUME NEW j \in S PROVE i <= j
    <3>1. 1 .. j \in A /\ <<1 .. j, x>> \in (SUBSET U) \X (SUBSET U)
      BY <2>1, <2>2
    <3>2. ~(1 .. j \subseteq x /\ 1 .. j # x)
      <4> HIDE DEF A, U
      <4> QED
        BY <2>2, <3>1 DEF StrictSubsetOrdering
    <3>3. j < i => 1 .. j \subseteq 1 .. i /\ i \in 1 .. i /\ i \notin 1 .. j
      OBVIOUS
    <3> QED
      BY <2>3, <3>2, <3>3
  <2> QED
    BY <2>4
<1>3. \E i \in S : \A j \in S : i >= j
  <2>a. \A i \in S : i .. n \subseteq U
    OBVIOUS
  <2>1. B \subseteq SUBSET U /\ B # {}
    BY <2>a
  <2>2. PICK x \in B : \A y \in B : ~ (<<y, x>> \in StrictSubsetOrdering(U))
    <3> HIDE DEF B, U
    <3> QED
      BY <1>1, <2>1, WFMin
  <2>3. PICK i \in S : x = i .. n
    BY <2>2
  <2>4. ASSUME NEW j \in S PROVE i >= j
    <3>1. j .. n \in B /\ <<j .. n, x>> \in (SUBSET U) \X (SUBSET U)
      BY <2>1, <2>2
    <3>2. ~(j .. n \subseteq x /\ j .. n # x)
      <4> HIDE DEF B, U
      <4> QED
        BY <2>2, <3>1 DEF StrictSubsetOrdering
    <3>3. j > i => j .. n \subseteq i .. n /\ i \in i .. n /\ i \notin j .. n
      OBVIOUS
    <3> QED
      BY <2>3, <3>2, <3>3
  <2> QED
    BY <2>4
<1>4. Min(S) \in S /\ \A i \in S : Min(S) <= i
  BY <1>2 DEF Min
<1>5. Max(S) \in S /\ \A i \in S : Max(S) >= i
  BY <1>3 DEF Max
<1> QED
  BY <1>4, <1>5

\* t keeps places of s, in their order.
Thinned(t, s) ==
    /\ \A i \in 1 .. Len(t) : \E k \in 1 .. Len(s) : t[i] = s[k]
    /\ \A i, j \in 1 .. Len(t) : i < j =>
         \E k, l \in 1 .. Len(s) : k < l /\ t[i] = s[k] /\ t[j] = s[l]

LEMMA OthersThins ==
    ASSUME events \in Seq(Events), NEW e \in Events
    PROVE  /\ Others(e) \in Seq(Events) /\ Len(Others(e)) <= Len(events)
           /\ Thinned(Others(e), events)
<1> DEFINE same == {i \in 1 .. Len(events) : events[i].source = e.source}
<1>1. CASE same = {}
  BY <1>1 DEF Others, Thinned
<1>2. CASE same # {}
  <2> DEFINE m == Min(same)
             a == SubSeq(events, 1, m - 1)
             b == SubSeq(events, m + 1, Len(events))
  <2>1. m \in 1 .. Len(events) /\ Len(events) \in Nat
    BY <1>2, MinMax, LenProperties
  <2> HIDE DEF m
  <2>2. /\ a \in Seq(Events) /\ Len(a) = m - 1
        /\ \A i \in 1 .. m - 1 : a[i] = events[i]
    BY <2>1, SubSeqProperties
  <2>3. /\ b \in Seq(Events) /\ Len(b) = Len(events) - m
        /\ \A i \in 1 .. Len(events) - m : b[i] = events[m + i]
    BY <2>1, SubSeqProperties
  <2> HIDE DEF a, b
  <2>4. /\ a \o b \in Seq(Events) /\ Len(a \o b) = Len(events) - 1
        /\ \A i \in 1 .. Len(events) - 1 :
             (a \o b)[i] = IF i <= m - 1 THEN events[i] ELSE events[i + 1]
    <3>1. /\ a \o b \in Seq(Events) /\ Len(a \o b) = Len(a) + Len(b)
          /\ \A i \in 1 .. Len(a) + Len(b) :
               (a \o b)[i] = IF i <= Len(a) THEN a[i] ELSE b[i - Len(a)]
      BY <2>2, <2>3, ConcatProperties
    <3>2. ASSUME NEW i \in 1 .. Len(events) - 1
          PROVE  (a \o b)[i] = IF i <= m - 1 THEN events[i] ELSE events[i + 1]
      <4>1. CASE i <= m - 1
        BY <2>1, <2>2, <2>3, <3>1, <4>1
      <4>2. CASE i > m - 1
        <5>1. i - (m - 1) \in 1 .. Len(events) - m /\ m + (i - (m - 1)) = i + 1
          BY <2>1, <4>2
        <5>a. /\ i \in 1 .. Len(a) + Len(b) /\ ~(i <= Len(a))
              /\ i - Len(a) = i - (m - 1)
          BY <2>1, <2>2, <2>3, <4>2
        <5>2. (a \o b)[i] = b[i - (m - 1)]
          BY <3>1, <5>a
        <5>3. b[i - (m - 1)] = events[m + (i - (m - 1))]
          BY <2>3, <5>1
        <5>4. ~(i <= m - 1)
          BY <2>1, <4>2
        <5>5. b[i - (m - 1)] = events[i + 1]
          BY <5>1, <5>3
        <5> QED
          BY <5>2, <5>4, <5>5
      <4>3. i <= m - 1 \/ i > m - 1
        BY <2>1
      <4> QED
        BY <4>1, <4>2, <4>3
    <3> QED
      BY <2>1, <2>2, <2>3, <3>1, <3>2
  <2>5. Others(e) = a \o b
    BY <1>2 DEF Others, RemoveAt, m, a, b
  <2> DEFINE c == a \o b
  <2> HIDE DEF c
  <2>6. /\ c \in Seq(Events) /\ Len(c) = Len(events) - 1 /\ c = Others(e)
        /\ \A i \in 1 .. Len(events) - 1 :
             c[i] = events[IF i <= m - 1 THEN i ELSE i + 1]
    BY <2>1, <2>4, <2>5 DEF c
  <2> DEFINE at(i) == IF i <= m - 1 THEN i ELSE i + 1
  <2>a. 1 .. Len(c) = 1 .. Len(events) - 1
    BY <2>6
  <2>b. \A i \in 1 .. Len(events) - 1 : at(i) \in 1 .. Len(events)
    BY <2>1
  <2>c. \A i, j \in 1 .. Len(events) - 1 : i < j => at(i) < at(j)
    BY <2>1
  <2>7. /\ \A i \in 1 .. Len(c) : at(i) \in 1 .. Len(events) /\ c[i] = events[at(i)]
        /\ \A i, j \in 1 .. Len(c) : i < j => at(i) < at(j)
    BY <2>6, <2>a, <2>b, <2>c
  <2>8. Thinned(c, events)
    <3> HIDE DEF at
    <3> QED
      BY <2>7 DEF Thinned
  <2> QED
    BY <2>1, <2>6, <2>8
<1> QED
  BY <1>1, <1>2

\* The queue after a push: the event at the front, then some of the old ones in
\* their order, within the limit.
LEMMA QueuedThins ==
    ASSUME events \in Seq(Events), NEW e \in Events
    PROVE  /\ Queued(e) \in Seq(Events)
           /\ Len(Queued(e)) \in 1 .. MaxQueue
           /\ Queued(e)[1] = e
           /\ \A i \in 2 .. Len(Queued(e)) : \E k \in 1 .. Len(events) : Queued(e)[i] = events[k]
           /\ \A i, j \in 2 .. Len(Queued(e)) : i < j =>
                \E k, l \in 1 .. Len(events) :
                    k < l /\ Queued(e)[i] = events[k] /\ Queued(e)[j] = events[l]
<1> DEFINE o == Others(e)
           n == IF Len(o) < MaxQueue THEN Len(o) + 1 ELSE MaxQueue
           c == <<e>> \o o
           q == SubSeq(c, 1, n)
<1>1. o \in Seq(Events) /\ Len(o) \in Nat /\ Thinned(o, events)
  BY OthersThins, LenProperties
<1> HIDE DEF o
<1>2. /\ c \in Seq(Events) /\ Len(c) = Len(o) + 1 /\ c[1] = e
      /\ \A i \in 2 .. Len(o) + 1 : c[i] = o[i - 1]
  <2>1. <<e>> \in Seq(Events) /\ Len(<<e>>) = 1 /\ <<e>>[1] = e
    OBVIOUS
  <2> QED
    BY <1>1, <2>1, ConcatProperties
<1> HIDE DEF c
<1>3. n \in 1 .. MaxQueue /\ n <= Len(o) + 1
  BY <1>1, ConstantTypes
<1> HIDE DEF n
<1>4. /\ q \in Seq(Events) /\ Len(q) = n
      /\ \A i \in 1 .. n : q[i] = c[i]
  <2>1. \A i \in 1 .. n : c[i] \in Events
    BY <1>1, <1>2, <1>3, ElementOfSeq
  <2> QED
    BY <1>3, <2>1, ConstantTypes, SubSeqProperties
<1> HIDE DEF q
<1>5. q[1] = e /\ \A i \in 2 .. Len(q) : i - 1 \in 1 .. Len(o) /\ q[i] = o[i - 1]
  BY <1>1, <1>2, <1>3, <1>4, ConstantTypes
<1>6. \A i \in 2 .. Len(q) : \E k \in 1 .. Len(events) : q[i] = events[k]
  BY <1>1, <1>5, SMTT(40) DEF Thinned
<1>7. \A i, j \in 2 .. Len(q) : i < j =>
        \E k, l \in 1 .. Len(events) : k < l /\ q[i] = events[k] /\ q[j] = events[l]
  <2> SUFFICES ASSUME NEW i \in 2 .. Len(q), NEW j \in 2 .. Len(q), i < j
               PROVE  \E k, l \in 1 .. Len(events) :
                          k < l /\ q[i] = events[k] /\ q[j] = events[l]
    OBVIOUS
  <2>1. /\ i - 1 \in 1 .. Len(o) /\ j - 1 \in 1 .. Len(o) /\ i - 1 < j - 1
        /\ q[i] = o[i - 1] /\ q[j] = o[j - 1]
    BY <1>5
  <2>2. \A x, y \in 1 .. Len(o) : x < y =>
          \E k, l \in 1 .. Len(events) : k < l /\ o[x] = events[k] /\ o[y] = events[l]
    BY <1>1 DEF Thinned
  <2>3. PICK k \in 1 .. Len(events), l \in 1 .. Len(events) :
          k < l /\ o[i - 1] = events[k] /\ o[j - 1] = events[l]
    BY <2>1, <2>2
  <2> QED
    BY <2>1, <2>3
<1>8. q = Queued(e)
  BY DEF Queued, q, n, c, o
<1>9. Queued(e) \in Seq(Events) /\ Len(Queued(e)) \in 1 .. MaxQueue /\ Queued(e)[1] = e
  BY <1>3, <1>4, <1>5, <1>8
<1>10. \A i \in 2 .. Len(Queued(e)) : \E k \in 1 .. Len(events) : Queued(e)[i] = events[k]
  BY <1>6, <1>8, Zenon
<1>11. \A i, j \in 2 .. Len(Queued(e)) : i < j =>
          \E k, l \in 1 .. Len(events) :
              k < l /\ Queued(e)[i] = events[k] /\ Queued(e)[j] = events[l]
  BY <1>7, <1>8, Zenon
<1> QED
  BY <1>9, <1>10, <1>11, Zenon

LEMMA AppendedSet ==
    ASSUME NEW s \in Seq(Events), NEW e \in Events
    PROVE  /\ Append(s, e) \in Seq(Events) /\ Len(Append(s, e)) = Len(s) + 1
           /\ \A i \in 1 .. Len(s) : Append(s, e)[i] = s[i]
           /\ Append(s, e)[Len(s) + 1] = e
           /\ ToSet(Append(s, e)) = ToSet(s) \cup {e}
<1>1. /\ Append(s, e) \in Seq(Events) /\ Len(Append(s, e)) = Len(s) + 1
      /\ \A i \in 1 .. Len(s) : Append(s, e)[i] = s[i]
      /\ Append(s, e)[Len(s) + 1] = e
  BY AppendProperties
<1>2. /\ DOMAIN s = 1 .. Len(s) /\ Len(s) \in Nat
      /\ DOMAIN Append(s, e) = 1 .. Len(s) + 1
  BY <1>1, LenProperties
<1>3. ToSet(Append(s, e)) = ToSet(s) \cup {e}
  <2> DEFINE t == Append(s, e)
  <2>1. /\ \A i \in 1 .. Len(s) : t[i] = s[i]
        /\ t[Len(s) + 1] = e
        /\ 1 .. Len(s) + 1 = (1 .. Len(s)) \cup {Len(s) + 1}
        /\ DOMAIN t = 1 .. Len(s) + 1
    BY <1>1, <1>2
  <2> HIDE DEF t
  <2>a. ToSet(t) \subseteq ToSet(s) \cup {e}
    BY <1>2, <2>1 DEF ToSet
  <2>b. \A i \in 1 .. Len(s) : i \in DOMAIN t
    BY <1>2, <2>1
  <2>c. Len(s) + 1 \in DOMAIN t
    BY <1>2, <2>1
  <2>2. ToSet(t) = ToSet(s) \cup {e}
    BY <1>2, <2>1, <2>a, <2>b, <2>c DEF ToSet
  <2> QED
    BY <2>2 DEF t
<1> QED
  BY <1>1, <1>3

LEMMA InSet ==
    ASSUME NEW s \in Seq(Events)
    PROVE  /\ ToSet(s) \subseteq Events
           /\ \A e : e \in ToSet(s) <=> \E i \in 1 .. Len(s) : s[i] = e
  BY LenProperties, ElementOfSeq DEF ToSet

\* A watch that moves keeps its marker, its channel and what it got.
LEMMA GotoWrites ==
    ASSUME Shapes, NEW w \in Watches, NEW p \in WatchPCs, Goto(w, p)
    PROVE  /\ watch' \in [Watches -> WatchStates]
           /\ watch'[w].pc = p /\ watch'[w].since = watch[w].since
           /\ watch'[w].ch = watch[w].ch /\ watch'[w].got = watch[w].got
           /\ \A v \in Watches \ {w} : watch'[v] = watch[v]
<1>1. watch' = [watch EXCEPT ![w].pc = p] /\ watch[w] \in WatchStates
  BY DEF Goto, Shapes
<1>2. /\ watch'[w] = [watch[w] EXCEPT !.pc = p]
      /\ \A v \in Watches \ {w} : watch'[v] = watch[v]
      /\ watch'[w] \in WatchStates
  BY <1>1 DEF Shapes, WatchStates
<1> QED
  BY <1>1, <1>2 DEF Shapes, WatchStates

\* Closing changes the channels of the listed watches only.
LEMMA ClosingWrites ==
    ASSUME NEW f \in [Watches -> WatchStates]
    PROVE  /\ Closing(f) \in [Watches -> WatchStates]
           /\ \A v \in Watches :
                /\ Closing(f)[v].pc = f[v].pc /\ Closing(f)[v].since = f[v].since
                /\ Closing(f)[v].got = f[v].got
                /\ Closing(f)[v].ch = IF v \in watchers THEN "closed" ELSE f[v].ch
<1>1. \A v \in Watches : f[v] \in WatchStates
  OBVIOUS
<1>2. \A v \in Watches : Closing(f)[v] = IF v \in watchers THEN [f[v] EXCEPT !.ch = "closed"] ELSE f[v]
  BY DEF Closing
<1>3. \A v \in Watches : Closing(f)[v] \in WatchStates
  <2>1. \A r \in WatchStates : [r EXCEPT !.ch = "closed"] \in WatchStates
    BY DEF WatchStates, Channels
  <2> QED
    BY <1>1, <1>2, <2>1
<1>4. Closing(f) \in [Watches -> WatchStates]
  BY <1>3 DEF Closing
<1> QED
  BY <1>1, <1>2, <1>4 DEF WatchStates

\* Push fills the empty channel of each listed watch.
LEMMA PushWrites ==
    ASSUME ParkInv, NEW g \in Emitters, Push(g)
    PROVE  /\ emitter[g] \in Events
           /\ watch' \in [Watches -> WatchStates]
           /\ \A v \in Watches \ watchers : watch'[v] = watch[v]
           /\ \A v \in watchers :
                /\ watch'[v].pc = watch[v].pc /\ watch'[v].since = watch[v].since
                /\ watch'[v].ch = "event" /\ watch'[v].got = emitter[g]
<1>1. emitter[g] \in Events
  BY DEF Push, ParkInv, TypeOK
<1>2. \A v \in Watches : watch'[v] =
         IF v \in watchers THEN [watch[v] EXCEPT !.ch = "event", !.got = emitter[g]]
         ELSE watch[v]
  BY DEF Push, ParkInv, ListedWaits
<1>3. \A v \in Watches : watch[v] \in WatchStates
  BY DEF ParkInv, Shapes
<1>4. \A v \in Watches : watch'[v] \in WatchStates
  <2>1. \A r \in WatchStates : \A e \in Events :
          [r EXCEPT !.ch = "event", !.got = e] \in WatchStates
    BY DEF WatchStates, Channels
  <2> QED
    BY <1>1, <1>2, <1>3, <2>1
<1>5. watch' \in [Watches -> WatchStates]
  BY <1>4 DEF Push
<1> QED
  BY <1>1, <1>2, <1>3, <1>5 DEF WatchStates, ParkInv, Shapes

----------------------------------------------------------------------------
(* The list of watchers *)

LEMMA ParkInit == Init => ParkInv
<1> SUFFICES ASSUME Init PROVE ParkInv
  OBVIOUS
<1> USE ConstantTypes DEF Init
<1>1. NoWatch \in WatchStates /\ NoWatch.pc = "none" /\ NoWatch.ch = "empty" /\ NoWatch.since = 0
  BY DEF NoWatch, WatchStates, WatchPCs, Channels
<1>2. TypeOK /\ Shapes
  <2>1. <<>> \in Seq(Events) /\ Len(<<>>) = 0
    OBVIOUS
  <2>2. \A w \in Watches : watch[w] = NoWatch
    OBVIOUS
  <2>3. 1 \in 1 .. MaxTime /\ 0 \in 0 .. MaxTime /\ 0 \in 0 .. MaxEvents
        /\ 0 \in 0 .. MaxWatches /\ 0 \in 0 .. MaxParked
    OBVIOUS
  <2>4. Shapes
    BY <1>1 DEF Shapes
  <2>5. \A w \in Watches : watch[w].pc \in WatchPCs /\ watch[w].since \in 0 .. MaxTime
    BY <1>1, <2>2, <2>3 DEF WatchPCs
  <2> QED
    BY <2>1, <2>3, <2>4, <2>5 DEF TypeOK
<1>3. DispatchedInTurn
  BY <1>1 DEF DispatchedInTurn, Dispatched, Dispatching
<1>4. ListedWaits
  BY <1>1 DEF ListedWaits
<1>5. OneListed
  BY <1>1 DEF OneListed, Dispatching
<1> QED
  BY <1>2, <1>3, <1>4, <1>5 DEF ParkInv

\* A step that leaves the watches alone keeps the list.
LEMMA ListUntouched ==
    ASSUME ParkInv, TypeOK', UNCHANGED <<watchers, watch, asked, waits, conn>>
    PROVE  ParkInv'
  BY DEF ParkInv, Shapes, DispatchedInTurn, ListedWaits, OneListed, Dispatched, Dispatching

LEMMA EventsKeepList ==
    ASSUME ParkInv,
           Tick \/ WaitEnds \/ Wait \/ Disconnect
               \/ \E g \in Emitters, s \in Sources : Stamp(g, s)
    PROVE  ParkInv'
<1> USE ConstantTypes DEF ParkInv
<1>1. CASE Tick
  <2>1. TypeOK'
    BY <1>1 DEF Tick, TypeOK, histVars
  <2> QED
    BY <1>1, <2>1, ListUntouched DEF Tick
<1>2. ASSUME NEW g \in Emitters, NEW s \in Sources, Stamp(g, s) PROVE ParkInv'
  <2>1. [id |-> emitted + 1, source |-> s, time |-> now] \in Events
    BY <1>2 DEF Stamp, TypeOK, Events
  <2>2. TypeOK'
    BY <1>2, <2>1 DEF Stamp, TypeOK, histVars
  <2> QED
    BY <1>2, <2>2, ListUntouched DEF Stamp
<1>3. CASE WaitEnds
  <2>1. /\ TypeOK' /\ waits' = waits - 1 /\ waits \in 1 .. MaxParked
        /\ UNCHANGED <<watchers, watch, asked, conn>>
    BY <1>3 DEF WaitEnds, TypeOK, queueVars, histVars
  <2>2. waits < MaxParked => waits' < MaxParked
    BY <2>1
  <2> QED
    BY <2>1, <2>2
    DEF Shapes, DispatchedInTurn, ListedWaits, OneListed, Dispatched, Dispatching
<1>4. CASE Wait
  <2>1. /\ waits' = waits + 1 /\ waits < WaitLimit /\ ~Dispatching
        /\ UNCHANGED <<queueVars, watchers, watch, asked, conn, since, handled, histVars>>
    BY <1>4 DEF Wait
  <2>2. /\ waits + 1 \in 0 .. MaxParked
        /\ watchers # {} => waits + 1 < MaxParked
    BY <2>1 DEF WaitLimit, TypeOK
  <2>3. TypeOK'
    BY <2>1, <2>2 DEF TypeOK, queueVars, histVars
  <2> QED
    BY <2>1, <2>2, <2>3
    DEF Shapes, DispatchedInTurn, ListedWaits, OneListed, Dispatched, Dispatching
<1>5. CASE Disconnect
  <2>1. /\ conn' = "closed"
        /\ UNCHANGED <<queueVars, watchers, watch, asked, waits, since, handled, histVars>>
    BY <1>5 DEF Disconnect
  <2>2. TypeOK'
    BY <2>1 DEF TypeOK, queueVars, histVars
  <2> QED
    BY <2>1, <2>2
    DEF Shapes, DispatchedInTurn, ListedWaits, OneListed, Dispatched, Dispatching
<1> QED
  BY <1>1, <1>2, <1>3, <1>4, <1>5

LEMMA PushKeepsList ==
    ASSUME ParkInv, NEW g \in Emitters, Push(g)
    PROVE  ParkInv'
<1> DEFINE e == emitter[g]
<1> USE DEF ParkInv
<1>1. /\ e \in Events
      /\ watch' \in [Watches -> WatchStates]
      /\ \A v \in Watches \ watchers : watch'[v] = watch[v]
      /\ \A v \in watchers :
           watch'[v].pc = watch[v].pc /\ watch'[v].ch = "event" /\ watch'[v].got = e
  BY PushWrites
<1>2. /\ emitter' = [emitter EXCEPT ![g] = NoEvent]
      /\ events' = Queued(e) /\ watchers' = {}
      /\ pushed' = Append(pushed, e)
      /\ window' \in {window, window \cup {e}}
      /\ dropped' = dropped \cup (ToSet(events) \ ToSet(Queued(e)))
      /\ UNCHANGED <<now, emitted, asked, waits, conn, since, handled>>
  BY DEF Push, Woken
<1> HIDE DEF e
<1>3. /\ Queued(e) \in Seq(Events) /\ Len(Queued(e)) \in 1 .. MaxQueue
      /\ Append(pushed, e) \in Seq(Events) /\ ToSet(events) \subseteq Events
  BY <1>1, QueuedThins, AppendedSet, InSet DEF TypeOK
<1>4. /\ events' \in Seq(Events) /\ Len(events') <= MaxQueue
      /\ pushed' \in Seq(Events) /\ window' \subseteq Events /\ dropped' \subseteq Events
      /\ emitter' \in [Emitters -> Events \cup {NoEvent}]
  BY <1>1, <1>2, <1>3, ConstantTypes DEF TypeOK
<1>5. \A w \in Watches : watch'[w].pc \in WatchPCs /\ watch'[w].since \in 0 .. MaxTime
  BY <1>1 DEF WatchStates
<1>6. TypeOK' /\ Shapes'
  BY <1>1, <1>2, <1>4, <1>5 DEF TypeOK, Shapes
<1>7. \A w \in Watches : watch'[w].pc = watch[w].pc
  BY <1>1
<1>8. \A w \in Watches : watch'[w].pc = "none" \/ Dispatched(w) => watch'[w].ch = watch[w].ch
  BY <1>1, <1>7 DEF ListedWaits, Dispatched
<1>9. DispatchedInTurn'
  BY <1>2, <1>7, <1>8 DEF DispatchedInTurn, Dispatched, Dispatching
<1>10. ListedWaits'
  BY <1>1, <1>2, <1>7 DEF ListedWaits
<1>11. OneListed'
  BY <1>2, <1>7 DEF OneListed, Dispatching
<1> QED
  BY <1>6, <1>9, <1>10, <1>11

\* An oldest event newer than the marker, if the queue has one.
LEMMA FoundIs ==
    ASSUME TypeOK, NEW w \in Watches, Shapes
    PROVE  /\ Found(w) = NoEvent => \A i \in 1 .. Len(events) : events[i].time <= watch[w].since
           /\ Found(w) # NoEvent =>
                \E i \in 1 .. Len(events) :
                    /\ Found(w) = events[i] /\ events[i].time > watch[w].since
                    /\ \A j \in 1 .. Len(events) : events[j].time > watch[w].since => j <= i
<1> DEFINE n == Len(events)
<1>1. /\ n \in Nat /\ Newer(w) \subseteq 1 .. n
      /\ \A i \in 1 .. n : events[i] \in Events /\ events[i].time \in Nat
      /\ watch[w].since \in Nat
  <2>1. n \in Nat /\ \A i \in 1 .. n : events[i] \in Events
    BY LenProperties, ElementOfSeq DEF TypeOK
  <2>2. \A x \in Events : x.time \in Nat
    BY DEF Events
  <2>3. watch[w].since \in Nat
    BY DEF Shapes, WatchStates
  <2> QED
    BY <2>1, <2>2, <2>3 DEF Newer
<1>2. CASE Newer(w) = {}
  BY <1>1, <1>2 DEF Found, Newer
<1>3. CASE Newer(w) # {}
  <2>1. Max(Newer(w)) \in Newer(w) /\ \A i \in Newer(w) : i <= Max(Newer(w))
    BY <1>1, <1>3, MinMax
  <2> DEFINE m == Max(Newer(w))
  <2> HIDE DEF m
  <2>2. m \in 1 .. n /\ events[m].time > watch[w].since /\ Found(w) = events[m]
    BY <1>3, <2>1 DEF Newer, Found, m
  <2>3. \A j \in 1 .. n : events[j].time > watch[w].since => j <= m
    BY <2>1 DEF Newer, m
  <2>4. Found(w) # NoEvent
    BY <1>1, <2>2 DEF Events, NoEvent
  <2> QED
    BY <2>2, <2>3, <2>4
<1> QED
  BY <1>2, <1>3

\* What the agent takes gives it a marker.
LEMMA HandleTypes ==
    ASSUME TypeOK, NEW w \in Watches, NEW e \in Events, Handle(w, e)
    PROVE  since' \in 1 .. MaxTime /\ handled' \subseteq 1 .. MaxEvents
<1>1. e.time \in 1 .. MaxTime /\ e.id \in 1 .. MaxEvents
  BY DEF Events
<1> QED
  BY <1>1 DEF Handle, TypeOK

\* The events and the requests that are no watches are as they were.
LEMMA TypesAfterMove ==
    ASSUME TypeOK, Shapes', UNCHANGED <<queueVars, histVars, conn>>,
           since' \in 1 .. MaxTime, handled' \subseteq 1 .. MaxEvents,
           asked' \in 0 .. MaxWatches, waits' \in 0 .. MaxParked
    PROVE  TypeOK'
<1>1. \A w \in Watches : watch'[w].pc \in WatchPCs /\ watch'[w].since \in 0 .. MaxTime
  BY DEF Shapes, WatchStates
<1> QED
  BY <1>1 DEF TypeOK, Shapes, queueVars, histVars

LEMMA WatchKeepsList ==
    ASSUME ParkInv, Watch
    PROVE  ParkInv'
<1> USE DEF ParkInv
<1> DEFINE n == asked + 1
           r == [NoWatch EXCEPT !.pc = "look", !.since = since]
<1>1. /\ conn = "open" /\ ~Dispatching /\ asked < MaxWatches /\ waits < MaxParked
      /\ asked' = n /\ watch' = [watch EXCEPT ![n] = r]
      /\ UNCHANGED <<queueVars, watchers, waits, conn, since, handled, histVars>>
  BY DEF Watch
<1>2. n \in Watches /\ n \in 0 .. MaxWatches /\ n > asked
  BY <1>1, ConstantTypes DEF TypeOK, Watches
<1>3. /\ r \in WatchStates /\ r.pc = "look" /\ r.ch = "empty" /\ r.since = since
  <2>1. since \in 0 .. MaxTime /\ 0 \in 0 .. MaxTime
    BY ConstantTypes DEF TypeOK
  <2>2. \A x \in WatchStates :
          /\ [x EXCEPT !.pc = "look", !.since = since] \in WatchStates
          /\ [x EXCEPT !.pc = "look", !.since = since].pc = "look"
          /\ [x EXCEPT !.pc = "look", !.since = since].ch = x.ch
          /\ [x EXCEPT !.pc = "look", !.since = since].since = since
    BY <2>1 DEF WatchStates, WatchPCs
  <2>3. NoWatch \in WatchStates /\ NoWatch.ch = "empty"
    BY <2>1 DEF NoWatch, WatchStates, WatchPCs, Channels
  <2> QED
    BY <2>2, <2>3
<1> HIDE DEF r
<1>4. watch' \in [Watches -> WatchStates] /\ watch'[n] = r /\ \A v \in Watches \ {n} : watch'[v] = watch[v]
  BY <1>1, <1>2, <1>3 DEF Shapes
<1>5. watch[n].pc = "none"
  BY <1>2 DEF DispatchedInTurn
<1>6. Shapes'
  BY <1>1, <1>3, <1>4 DEF Shapes
<1>7. TypeOK'
  BY <1>1, <1>2, <1>6, TypesAfterMove DEF TypeOK
<1>8. n \notin watchers /\ \A w \in Watches : ~Dispatched(w)
  BY <1>1, <1>5 DEF ListedWaits, Dispatching, Dispatched
<1>9. \A w \in Watches : w > n => w > asked /\ w # n
  BY <1>2 DEF Watches, TypeOK
<1>10. DispatchedInTurn'
  BY <1>1, <1>3, <1>4, <1>8, <1>9 DEF DispatchedInTurn, Dispatched, Dispatching
<1>11. ListedWaits'
  BY <1>1, <1>3, <1>4, <1>8 DEF ListedWaits, Shapes
<1>12. OneListed'
  BY <1>1, <1>3, <1>4, <1>8 DEF OneListed, Dispatched
<1> QED
  BY <1>6, <1>7, <1>10, <1>11, <1>12

LEMMA LookKeepsList ==
    ASSUME ParkInv, NEW w \in Watches, LookFinds(w) \/ Look(w)
    PROVE  ParkInv'
<1> USE DEF ParkInv
<1> DEFINE p == IF Found(w) = NoEvent THEN "evict" ELSE "ended"
<1>1. /\ watch[w].pc = "look" /\ Goto(w, p) /\ p \in WatchPCs /\ p \in {"evict", "ended"}
      /\ UNCHANGED <<queueVars, watchers, asked, waits, conn, histVars>>
  BY DEF Look, LookFinds, At, WatchPCs
<1> HIDE DEF p
<1>2. /\ watch' \in [Watches -> WatchStates] /\ watch'[w].pc = p
      /\ watch'[w].ch = watch[w].ch /\ watch'[w].got = watch[w].got
      /\ \A v \in Watches \ {w} : watch'[v] = watch[v]
  BY <1>1, GotoWrites
<1>3. /\ Dispatched(w) /\ watch[w].ch = "empty" /\ w \notin watchers /\ w = asked
      /\ Dispatching /\ \A v \in Watches \ {w} : ~Dispatched(v)
  BY <1>1 DEF DispatchedInTurn, Dispatched, Dispatching, ListedWaits
<1>4. Shapes'
  BY <1>1, <1>2, <1>3 DEF Shapes
<1>5. since' \in 1 .. MaxTime /\ handled' \subseteq 1 .. MaxEvents
  <2>1. CASE Look(w)
    BY <2>1 DEF Look, TypeOK
  <2>2. CASE LookFinds(w)
    <3>1. Found(w) \in Events
      BY <2>2, FoundIs, ElementOfSeq, LenProperties DEF LookFinds, TypeOK
    <3> QED
      BY <2>2, <3>1, HandleTypes DEF LookFinds
  <2> QED
    BY <2>1, <2>2
<1>6. TypeOK'
  BY <1>1, <1>4, <1>5, TypesAfterMove DEF TypeOK
<1>7. DispatchedInTurn'
  BY <1>1, <1>2, <1>3 DEF DispatchedInTurn, Dispatched, Dispatching
<1>8. ListedWaits'
  BY <1>1, <1>2, <1>3 DEF ListedWaits, Shapes
<1>9. OneListed'
  BY <1>1, <1>2, <1>3 DEF OneListed, Dispatched, Dispatching
<1> QED
  BY <1>4, <1>6, <1>7, <1>8, <1>9

LEMMA AddKeepsList ==
    ASSUME ParkInv, NEW w \in Watches, AddWatcher(w)
    PROVE  ParkInv'
<1> USE DEF ParkInv
<1>1. /\ watch[w].pc = "add" /\ Goto(w, "wait") /\ watchers' = watchers \cup {w}
      /\ "wait" \in WatchPCs
      /\ UNCHANGED <<queueVars, asked, waits, conn, since, handled, histVars>>
  BY DEF AddWatcher, At, WatchPCs
<1>2. /\ watch' \in [Watches -> WatchStates] /\ watch'[w].pc = "wait"
      /\ watch'[w].ch = watch[w].ch /\ watch'[w].got = watch[w].got
      /\ \A v \in Watches \ {w} : watch'[v] = watch[v]
  BY <1>1, GotoWrites
<1>3. /\ Dispatched(w) /\ watch[w].ch = "empty" /\ w = asked
      /\ Dispatching /\ \A v \in Watches \ {w} : ~Dispatched(v)
      /\ watchers = {} /\ watchers' = {w} /\ conn # "gone" /\ waits < MaxParked
  BY <1>1 DEF DispatchedInTurn, Dispatched, Dispatching, OneListed
<1>4. Shapes'
  BY <1>1, <1>2, <1>3 DEF Shapes
<1>5. TypeOK'
  BY <1>1, <1>4, TypesAfterMove DEF TypeOK
<1>6. DispatchedInTurn'
  BY <1>1, <1>2, <1>3 DEF DispatchedInTurn, Dispatched, Dispatching
<1>7. ListedWaits'
  BY <1>1, <1>2, <1>3 DEF ListedWaits
<1>8. OneListed'
  BY <1>1, <1>2, <1>3 DEF OneListed, Dispatched
<1> QED
  BY <1>4, <1>5, <1>6, <1>7, <1>8

\* Both ends of a list: the next watch takes its place, or the connection goes.
LEMMA ClosingKeepsList ==
    ASSUME ParkInv, (\E w \in Watches : Evict(w)) \/ Disconnected
    PROVE  ParkInv'
<1> USE DEF ParkInv
<1>1. CASE Disconnected
  <2>1. /\ conn' = "gone" /\ ~Dispatching /\ watch' = Closing(watch) /\ watchers' = {}
        /\ UNCHANGED <<queueVars, asked, waits, since, handled, histVars>>
    BY <1>1 DEF Disconnected, Unlisted
  <2>2. /\ watch' \in [Watches -> WatchStates]
        /\ \A v \in Watches : watch'[v].pc = watch[v].pc /\ watch'[v].got = watch[v].got
        /\ \A v \in Watches : watch'[v].ch = IF v \in watchers THEN "closed" ELSE watch[v].ch
    BY <2>1, ClosingWrites DEF Shapes
  <2>3. Shapes'
    BY <2>1, <2>2 DEF Shapes
  <2>4. TypeOK'
    <3>1. \A w \in Watches : watch'[w].pc \in WatchPCs /\ watch'[w].since \in 0 .. MaxTime
      BY <2>2 DEF WatchStates
    <3> QED
      BY <2>1, <3>1 DEF TypeOK, queueVars, histVars
  <2>5. DispatchedInTurn'
    BY <2>1, <2>2 DEF DispatchedInTurn, Dispatched, Dispatching, ListedWaits
  <2>6. ListedWaits'
    BY <2>1, <2>2 DEF ListedWaits
  <2>7. OneListed'
    BY <2>1, <2>2 DEF OneListed, Dispatching
  <2> QED
    BY <2>3, <2>4, <2>5, <2>6, <2>7
<1>2. ASSUME NEW w \in Watches, Evict(w) PROVE ParkInv'
  <2> DEFINE f == [watch EXCEPT ![w].pc = "add"]
  <2>1. /\ watch[w].pc = "evict" /\ watch' = Closing(f) /\ watchers' = {}
        /\ UNCHANGED <<queueVars, asked, waits, conn, since, handled, histVars>>
    BY <1>2 DEF Evict, Unlisted, At
  <2>2. /\ f \in [Watches -> WatchStates]
        /\ f[w].pc = "add" /\ f[w].ch = watch[w].ch /\ f[w].got = watch[w].got
        /\ \A v \in Watches \ {w} : f[v] = watch[v]
    BY DEF Shapes, WatchStates, WatchPCs
  <2> HIDE DEF f
  <2>3. /\ watch' \in [Watches -> WatchStates]
        /\ \A v \in Watches : watch'[v].pc = f[v].pc /\ watch'[v].got = f[v].got
        /\ \A v \in Watches : watch'[v].ch = IF v \in watchers THEN "closed" ELSE f[v].ch
    BY <2>1, <2>2, ClosingWrites
  <2>4. /\ Dispatched(w) /\ watch[w].ch = "empty" /\ w \notin watchers /\ w = asked
        /\ Dispatching /\ \A v \in Watches \ {w} : ~Dispatched(v)
    BY <2>1 DEF DispatchedInTurn, Dispatched, Dispatching, ListedWaits
  <2>5. Shapes'
    BY <2>1, <2>2, <2>3, <2>4 DEF Shapes
  <2>6. TypeOK'
    BY <2>1, <2>5, TypesAfterMove DEF TypeOK
  <2>7. DispatchedInTurn'
    BY <2>1, <2>2, <2>3, <2>4 DEF DispatchedInTurn, Dispatched, Dispatching, ListedWaits
  <2>8. ListedWaits'
    BY <2>1, <2>2, <2>3, <2>4 DEF ListedWaits
  <2>9. OneListed'
    BY <2>1, <2>2, <2>3, <2>4 DEF OneListed, Dispatching, Dispatched
  <2> QED
    BY <2>5, <2>6, <2>7, <2>8, <2>9
<1> QED
  BY <1>1, <1>2

LEMMA WaitingKeepsList ==
    ASSUME ParkInv, NEW w \in Watches, Waiting(w)
    PROVE  ParkInv'
<1> USE DEF ParkInv
<1>1. PICK p \in {"ended", "remove"} :
         /\ Goto(w, p) /\ p \in WatchPCs
         /\ \/ watch[w].pc = "wait" /\ p = "remove" /\ watchers' = watchers
            \/ watch[w].pc = "wait" /\ watch[w].ch # "empty" /\ watchers' = watchers
            \/ watch[w].pc = "remove" /\ p = "ended" /\ watchers' = watchers \ {w}
         /\ UNCHANGED <<queueVars, asked, waits, conn, histVars>>
  <2>1. CASE Wakes(w)
    BY <2>1 DEF Wakes, At, WatchPCs
  <2>2. CASE Evicted(w)
    BY <2>2 DEF Evicted, At, WatchPCs
  <2>3. CASE TimerFires(w)
    BY <2>3 DEF TimerFires, At, WatchPCs
  <2>4. CASE TimedOut(w)
    BY <2>4 DEF TimedOut, At, WatchPCs
  <2> QED
    BY <2>1, <2>2, <2>3, <2>4 DEF Waiting
<1>2. /\ watch' \in [Watches -> WatchStates] /\ watch'[w].pc = p
      /\ watch'[w].ch = watch[w].ch /\ watch'[w].got = watch[w].got
      /\ \A v \in Watches \ {w} : watch'[v] = watch[v]
  BY <1>1, GotoWrites
<1>3. since' \in 1 .. MaxTime /\ handled' \subseteq 1 .. MaxEvents
  <2>1. CASE Wakes(w)
    <3>1. watch[w].got \in Events
      BY <2>1 DEF Wakes, Shapes
    <3> QED
      BY <2>1, <3>1, HandleTypes DEF Wakes
  <2>2. CASE UNCHANGED <<since, handled>>
    BY <2>2 DEF TypeOK
  <2> QED
    BY <2>1, <2>2 DEF Waiting, Evicted, TimerFires, TimedOut
<1>4. watchers' \subseteq watchers /\ (w \in watchers' => p = "remove")
  BY <1>1 DEF ListedWaits
<1>5. Shapes'
  BY <1>1, <1>2, <1>4 DEF Shapes
<1>6. TypeOK'
  BY <1>1, <1>3, <1>5, TypesAfterMove DEF TypeOK
<1>7. ~Dispatched(w) /\ watch[w].pc # "none" /\ watch'[w].pc \in {"ended", "remove"}
  BY <1>1, <1>2 DEF Dispatched
<1>8. DispatchedInTurn'
  BY <1>1, <1>2, <1>7 DEF DispatchedInTurn, Dispatched, Dispatching
<1>9. ListedWaits'
  BY <1>1, <1>2, <1>4, <1>7 DEF ListedWaits, Shapes
<1>10. OneListed'
  BY <1>1, <1>2, <1>4, <1>7 DEF OneListed, Dispatching
<1> QED
  BY <1>5, <1>6, <1>8, <1>9, <1>10

LEMMA StepKeepsList == ParkInv /\ [Next]_vars => ParkInv'
<1> SUFFICES ASSUME ParkInv, [Next]_vars PROVE ParkInv'
  OBVIOUS
<1>1. CASE Tick \/ WaitEnds \/ Wait \/ Disconnect
             \/ \E g \in Emitters, s \in Sources : Stamp(g, s)
  BY <1>1, EventsKeepList
<1>2. CASE Watch
  BY <1>2, WatchKeepsList
<1>3. CASE Disconnected
  BY <1>3, ClosingKeepsList
<1>4. CASE \E g \in Emitters : Push(g)
  BY <1>4, PushKeepsList
<1>5. ASSUME NEW w \in Watches, Dispatch(w) PROVE ParkInv'
  <2>1. CASE LookFinds(w) \/ Look(w)
    BY <2>1, LookKeepsList
  <2>2. CASE Evict(w)
    BY <2>2, ClosingKeepsList
  <2>3. CASE AddWatcher(w)
    BY <2>3, AddKeepsList
  <2> QED
    BY <1>5, <2>1, <2>2, <2>3 DEF Dispatch
<1>6. CASE \E w \in Watches : Waiting(w)
  BY <1>6, WaitingKeepsList
<1>7. CASE UNCHANGED vars
  <2>1. UNCHANGED <<queueVars, watchers, watch, asked, waits, conn, since, handled, histVars>>
    BY <1>7 DEF vars
  <2>2. TypeOK'
    BY <2>1 DEF ParkInv, TypeOK, queueVars, histVars
  <2> QED
    BY <2>1, <2>2, ListUntouched
<1> QED
  BY <1>1, <1>2, <1>3, <1>4, <1>5, <1>6, <1>7 DEF Next

\* However watches, waits, wakes and timeouts interleave, the types hold, the
\* queue is inside its limit, and a connection has no more goroutines parked
\* than the cap.
THEOREM ParkedStaysWithinCap == Spec => []QueueSound
<1>1. Spec => []ParkInv
  <2>1. ParkInv /\ [Next]_vars => ParkInv'
    BY StepKeepsList
  <2>2. Init => ParkInv
    BY ParkInit
  <2> QED
    BY <2>1, <2>2, PTL DEF Spec
<1>2. ParkInv => QueueSound
  <2> SUFFICES ASSUME ParkInv PROVE ParkedWithinCap
    BY DEF QueueSound, ParkInv
  <2>0. waits \in 0 .. MaxParked /\ MaxParked \in Nat
    BY ConstantTypes DEF ParkInv, TypeOK
  <2>1. CASE watchers = {}
    BY <2>0, <2>1, FS_EmptySet DEF ParkedWithinCap
  <2>2. CASE watchers # {}
    <3>1. PICK w \in watchers : watchers = {w}
      BY <2>2 DEF ParkInv, OneListed
    <3>2. Cardinality(watchers) = 1
      BY <3>1, FS_Singleton
    <3>3. waits < MaxParked
      BY <2>2 DEF ParkInv, OneListed
    <3> QED
      BY <2>0, <3>2, <3>3 DEF ParkedWithinCap
  <2> QED
    BY <2>1, <2>2
<1> QED
  BY <1>1, <1>2, PTL

\* Push sends on no closed channel, none is closed twice, and no watcher
\* outlives its connection.
THEOREM WatchersStayLive == Spec => []WatchersLive
<1>1. ParkInv /\ [Next]_vars => ParkInv'
  BY StepKeepsList
<1>2. Init => ParkInv
  BY ParkInit
<1>3. ParkInv => WatchersLive
  BY DEF ParkInv, ListedWaits, WatchersLive, ListedIsOpen, NoWatcherOfGone
<1> QED
  BY <1>1, <1>2, <1>3, PTL DEF Spec

----------------------------------------------------------------------------
(* What the agent skips *)

LEMMA OrderInit == Init => OrderInv
<1> SUFFICES ASSUME Init PROVE OrderInv
  OBVIOUS
<1>1. pushed = <<>> /\ events = <<>> /\ since = 1 /\ ToSet(pushed) = {}
  BY DEF Init, ToSet
<1>2. QueueInOrder
  BY <1>1 DEF QueueInOrder
<1>3. \A w \in Watches : watch[w].pc = "none"
  BY DEF Init, NoWatch
<1> QED
  BY <1>1, <1>2, <1>3 DEF OrderInv, MarkerIsPushed, WatchCovers, SkippedKnown, Skipped

\* A step in which nothing is pushed, no watch moves and nothing is handled.
LEMMA OrderUntouched ==
    ASSUME OrderInv, UNCHANGED <<events, pushed, window, dropped, watch, asked, since, handled>>
    PROVE  OrderInv'
  BY DEF OrderInv, QueueInOrder, MarkerIsPushed, WatchCovers, SkippedKnown, Skipped,
         Known, Accounted, Indistinct

\* What is known of an event stays so as others are pushed.
LEMMA IndistinctStays ==
    ASSUME pushed \in Seq(Events), NEW e \in Events, pushed' = Append(pushed, e),
           NEW x, Indistinct(x)
    PROVE  Indistinct(x)'
<1>1. /\ Len(pushed) \in Nat /\ Len(pushed') = Len(pushed) + 1
      /\ \A i \in 1 .. Len(pushed) : pushed'[i] = pushed[i]
  BY AppendedSet, LenProperties
<1>2. \A i \in 1 .. Len(pushed) : i \in 1 .. Len(pushed')
  BY <1>1
<1>3. CASE x.time = 1
  BY <1>3 DEF Indistinct
<1>4. ASSUME NEW i \in 1 .. Len(pushed), NEW j \in 1 .. Len(pushed), pushed[i] = x, i # j,
             pushed[j].time = x.time \/ (j < i /\ pushed[j].time > x.time)
      PROVE  Indistinct(x)'
  BY <1>1, <1>2, <1>4 DEF Indistinct
<1> QED
  BY <1>3, <1>4 DEF Indistinct

\* An event pushed behind one that is not older than it is indistinct.
LEMMA PushedLate ==
    ASSUME pushed \in Seq(Events), NEW e \in Events, pushed' = Append(pushed, e),
           NEW i \in 1 .. Len(pushed), e.time <= pushed[i].time
    PROVE  Indistinct(e)'
<1>1. /\ Len(pushed) \in Nat /\ Len(pushed') = Len(pushed) + 1
      /\ pushed'[i] = pushed[i] /\ pushed'[Len(pushed) + 1] = e /\ pushed[i] \in Events
  BY AppendedSet, LenProperties, ElementOfSeq
<1>2. i \in 1 .. Len(pushed') /\ Len(pushed) + 1 \in 1 .. Len(pushed') /\ i < Len(pushed) + 1
  BY <1>1
<1>3. pushed[i].time = e.time \/ pushed[i].time > e.time
  BY <1>1 DEF Events
<1>4. \E k, l \in 1 .. Len(pushed') :
         /\ pushed'[k] = e /\ k # l
         /\ pushed'[l].time = e.time \/ (l < k /\ pushed'[l].time > e.time)
  <2>1. /\ pushed'[Len(pushed) + 1] = e /\ Len(pushed) + 1 # i
        /\ pushed'[i].time = e.time \/ (i < Len(pushed) + 1 /\ pushed'[i].time > e.time)
    BY <1>1, <1>2, <1>3
  <2> QED
    BY <1>2, <2>1
<1> QED
  BY <1>4 DEF Indistinct

LEMMA PushKeepsQueueOrder ==
    ASSUME ParkInv, QueueInOrder, NEW e \in Events,
           pushed' = Append(pushed, e), events' = Queued(e),
           dropped' = dropped \cup (ToSet(events) \ ToSet(Queued(e)))
    PROVE  QueueInOrder'
<1> DEFINE q == Queued(e)
           p == Append(pushed, e)
           n == Len(pushed)
<1>0. events \in Seq(Events) /\ pushed \in Seq(Events)
  BY DEF ParkInv, TypeOK
<1>1. /\ q \in Seq(Events) /\ Len(q) \in Nat /\ Len(q) >= 1 /\ q[1] = e
      /\ \A i \in 2 .. Len(q) : \E k \in 1 .. Len(events) : q[i] = events[k]
      /\ \A i, j \in 2 .. Len(q) : i < j =>
           \E k, l \in 1 .. Len(events) : k < l /\ q[i] = events[k] /\ q[j] = events[l]
  <2>1. /\ q \in Seq(Events) /\ Len(q) \in 1 .. MaxQueue /\ q[1] = e
        /\ \A i \in 2 .. Len(q) : \E k \in 1 .. Len(events) : q[i] = events[k]
        /\ \A i, j \in 2 .. Len(q) : i < j =>
             \E k, l \in 1 .. Len(events) : k < l /\ q[i] = events[k] /\ q[j] = events[l]
    BY <1>0, QueuedThins
  <2> HIDE DEF q
  <2>2. Len(q) \in Nat /\ Len(q) >= 1
    BY <2>1, ConstantTypes
  <2> QED
    BY <2>1, <2>2
<1>2. /\ p \in Seq(Events) /\ Len(p) = n + 1 /\ n \in Nat
      /\ \A i \in 1 .. n : p[i] = pushed[i]
      /\ p[n + 1] = e /\ ToSet(p) = ToSet(pushed) \cup {e}
  BY <1>0, AppendedSet, LenProperties
<1> HIDE DEF q, p, n
<1>3. \A x : x \in ToSet(events) => x \in ToSet(pushed)
  BY DEF QueueInOrder
<1>4. \A k \in 1 .. Len(events) : \E i \in 1 .. n : events[k] = pushed[i]
  BY <1>0, <1>3, InSet DEF n
<1>5. ToSet(q) \subseteq ToSet(p)
  <2> SUFFICES ASSUME NEW i \in 1 .. Len(q) PROVE q[i] \in ToSet(p)
    BY <1>1, InSet
  <2>1. CASE i = 1
    BY <1>1, <1>2, <2>1
  <2>2. CASE i \in 2 .. Len(q)
    <3>1. PICK k \in 1 .. Len(events) : q[i] = events[k]
      BY <1>1, <2>2
    <3> QED
      BY <1>0, <1>2, <1>3, <3>1, InSet
  <2> QED
    BY <2>1, <2>2
<1>6. e \in ToSet(q)
  <2>1. 1 \in 1 .. Len(q)
    BY <1>1
  <2> QED
    BY <1>1, <2>1, InSet
<1>7. \A x \in ToSet(p) : x \in ToSet(q) \/ x \in dropped \cup (ToSet(events) \ ToSet(q))
  BY <1>2, <1>6 DEF QueueInOrder
<1>8. ASSUME NEW i \in 1 .. Len(q), NEW j \in 1 .. Len(q), i < j
      PROVE  \E k, l \in 1 .. Len(p) : k < l /\ p[k] = q[j] /\ p[l] = q[i]
  <2>0. /\ j \in 2 .. Len(q) /\ n + 1 \in 1 .. n + 1
        /\ \A k \in 1 .. n : k \in 1 .. n + 1 /\ k < n + 1
    BY <1>1, <1>2, <1>8
  <2>1. CASE i = 1
    <3>1. PICK m \in 1 .. Len(events) : q[j] = events[m]
      BY <1>1, <2>0
    <3>2. PICK k \in 1 .. n : events[m] = pushed[k]
      BY <1>4
    <3>3. p[k] = q[j] /\ p[n + 1] = q[i]
      BY <1>1, <1>2, <2>1, <3>1, <3>2
    <3> QED
      BY <1>2, <2>0, <3>3
  <2>2. CASE i \in 2 .. Len(q)
    <3>1. PICK a \in 1 .. Len(events), b \in 1 .. Len(events) :
            a < b /\ q[i] = events[a] /\ q[j] = events[b]
      BY <1>1, <1>8, <2>0, <2>2
    <3>2. PICK k \in 1 .. n, l \in 1 .. n :
            k < l /\ pushed[k] = events[b] /\ pushed[l] = events[a]
      BY <3>1 DEF QueueInOrder, n
    <3>3. p[k] = q[j] /\ p[l] = q[i] /\ k < l
      BY <1>2, <3>1, <3>2
    <3> QED
      BY <1>2, <2>0, <3>3
  <2> QED
    BY <2>1, <2>2
<1>9. events' = q /\ pushed' = p /\ dropped' = dropped \cup (ToSet(events) \ ToSet(q))
  BY DEF q, p
<1> QED
  BY <1>5, <1>7, <1>8, <1>9 DEF QueueInOrder

LEMMA PushKeepsOrder ==
    ASSUME ParkInv, OrderInv, NEW g \in Emitters, Push(g)
    PROVE  OrderInv'
<1>1. PICK e \in Events : e = emitter[g]
  BY PushWrites
<1>2. /\ events' = Queued(e) /\ pushed' = Append(pushed, e)
      /\ dropped' = dropped \cup (ToSet(events) \ ToSet(Queued(e)))
      /\ window \subseteq window'
      /\ (\E w \in Watches : watch[w].pc \in {"evict", "add"}) => e \in window'
      /\ UNCHANGED <<asked, since, handled>>
  BY <1>1 DEF Push, At
<1>3. /\ \A v \in Watches \ watchers : watch'[v] = watch[v]
      /\ \A v \in watchers :
           /\ watch'[v].pc = watch[v].pc /\ watch'[v].since = watch[v].since
           /\ watch'[v].ch = "event" /\ watch'[v].got = e
  BY <1>1, PushWrites
<1>4. pushed \in Seq(Events) /\ since \in Nat /\ Len(pushed) \in Nat
  BY LenProperties DEF ParkInv, TypeOK
<1>5. /\ ToSet(pushed') = ToSet(pushed) \cup {e}
      /\ Len(pushed') = Len(pushed) + 1
      /\ \A i \in 1 .. Len(pushed) : i \in 1 .. Len(pushed') /\ pushed'[i] = pushed[i]
  BY <1>2, <1>4, AppendedSet
<1>6. \A x : Accounted(x) => Accounted(x)'
  BY <1>2 DEF Accounted
<1>7. \A x : Known(x) => Known(x)'
  <2> SUFFICES ASSUME NEW x, Indistinct(x) PROVE Indistinct(x)'
    BY <1>6 DEF Known
  <2> QED
    BY <1>2, <1>4, IndistinctStays
<1>8. \A i \in 1 .. Len(pushed) : e.time <= pushed[i].time => Known(e)'
  BY <1>2, <1>4, PushedLate DEF Known
<1>9. QueueInOrder'
  BY <1>2, PushKeepsQueueOrder DEF OrderInv
<1>10. MarkerIsPushed'
  <2>1. CASE since = 1
    BY <1>2, <2>1 DEF MarkerIsPushed
  <2>2. ASSUME NEW i \in 1 .. Len(pushed), pushed[i].time = since PROVE MarkerIsPushed'
    BY <1>2, <1>5, <2>2 DEF MarkerIsPushed
  <2> QED
    BY <2>1, <2>2 DEF OrderInv, MarkerIsPushed
<1>11. SkippedKnown'
  <2> SUFFICES ASSUME NEW x \in ToSet(pushed'), x.id \notin handled, x.time <= since
               PROVE  Known(x)'
    BY <1>2 DEF SkippedKnown, Skipped
  <2>1. CASE x \in ToSet(pushed)
    BY <1>7, <2>1 DEF OrderInv, SkippedKnown, Skipped
  <2>2. CASE x = e
    <3>1. CASE since = 1
      <4>1. e.time = 1
        BY <2>2, <3>1 DEF Events
      <4> QED
        BY <2>2, <4>1 DEF Known, Indistinct
    <3>2. ASSUME NEW i \in 1 .. Len(pushed), pushed[i].time = since PROVE Known(x)'
      BY <1>8, <2>2, <3>2
    <3> QED
      BY <3>1, <3>2 DEF OrderInv, MarkerIsPushed
  <2> QED
    BY <1>5, <2>1, <2>2
<1>12. WatchCovers'
  <2> SUFFICES ASSUME NEW w \in Watches, w = asked
      PROVE /\ watch'[w].pc \in {"look", "evict", "add", "wait", "remove"} => watch'[w].since = since
            /\ \/ watch'[w].pc \in {"evict", "add"}
               \/ watch'[w].pc = "wait" /\ watch'[w].ch = "empty"
               => \A x \in ToSet(pushed') : x.time > since => Accounted(x)'
            /\ watch'[w].pc = "wait" /\ watch'[w].ch = "event" =>
                 /\ watch'[w].got \in ToSet(pushed')
                 /\ \A x \in ToSet(pushed') :
                      x.time > since /\ x.time <= watch'[w].got.time /\ x # watch'[w].got => Known(x)'
    BY <1>2 DEF WatchCovers
  <2>1. watch'[w].pc = watch[w].pc /\ watch'[w].since = watch[w].since
    BY <1>3
  <2>2. /\ watch[w].pc \in {"look", "evict", "add", "wait", "remove"} => watch[w].since = since
        /\ \/ watch[w].pc \in {"evict", "add"}
           \/ watch[w].pc = "wait" /\ watch[w].ch = "empty"
           => \A x \in ToSet(pushed) : x.time > since => Accounted(x)
        /\ watch[w].pc = "wait" /\ watch[w].ch = "event" =>
             /\ watch[w].got \in ToSet(pushed)
             /\ \A x \in ToSet(pushed) :
                  x.time > since /\ x.time <= watch[w].got.time /\ x # watch[w].got => Known(x)
    BY DEF OrderInv, WatchCovers
  <2>3. CASE watch[w].pc \in {"evict", "add"}
    <3>1. e \in window'
      BY <1>2, <2>3
    <3>2. \A x \in ToSet(pushed') : x.time > since => Accounted(x)'
      BY <1>5, <1>6, <2>2, <2>3, <3>1 DEF Accounted
    <3> QED
      BY <2>1, <2>2, <2>3, <3>2
  <2>4. CASE watch[w].pc = "wait" /\ w \in watchers
    <3>1. watch[w].ch = "empty" /\ watch'[w].ch = "event" /\ watch'[w].got = e
      BY <1>3, <2>4 DEF ParkInv, ListedWaits
    <3>2. \A x \in ToSet(pushed') : x.time > since /\ x # e => Known(x)'
      BY <1>5, <1>7, <2>2, <2>4, <3>1 DEF Known
    <3> QED
      BY <1>5, <2>1, <2>2, <2>4, <3>1, <3>2
  <2>5. CASE watch[w].pc = "wait" /\ w \notin watchers
    <3>1. watch[w].ch # "empty" /\ watch'[w] = watch[w]
      BY <1>3, <2>5 DEF ParkInv, ListedWaits
    <3>2. CASE watch[w].ch = "event"
      <4>1. PICK i \in 1 .. Len(pushed) : pushed[i] = watch[w].got
        BY <1>4, <2>2, <2>5, <3>2, InSet
      <4>2. e.time <= watch[w].got.time => Known(e)'
        BY <1>8, <4>1
      <4>3. watch[w].got \in ToSet(pushed')
        BY <1>5, <2>2, <2>5, <3>2
      <4>4. \A x \in ToSet(pushed') :
              x.time > since /\ x.time <= watch[w].got.time /\ x # watch[w].got => Known(x)'
        BY <1>5, <1>7, <2>2, <2>5, <3>2, <4>2
      <4> QED
        BY <2>2, <2>5, <3>1, <3>2, <4>3, <4>4
    <3>3. CASE watch[w].ch # "event"
      BY <2>2, <2>5, <3>1, <3>3
    <3> QED
      BY <3>2, <3>3
  <2>6. CASE watch[w].pc \notin {"evict", "add", "wait"}
    BY <2>1, <2>2, <2>6
  <2> QED
    BY <2>3, <2>4, <2>5, <2>6
<1> QED
  BY <1>9, <1>10, <1>11, <1>12 DEF OrderInv

\* A step that moves a watch and hands over nothing.
LEMMA MoveKeepsOrder ==
    ASSUME OrderInv, UNCHANGED <<events, pushed, window, dropped, since, handled>>,
           WatchCovers'
    PROVE  OrderInv'
  BY DEF OrderInv, QueueInOrder, MarkerIsPushed, SkippedKnown, Skipped, Known, Accounted, Indistinct

\* A step that hands over an event e: all not handled that is newer than the
\* marker and not newer than e must be known.
LEMMA HandedKeepsOrder ==
    ASSUME OrderInv, UNCHANGED <<events, pushed, window, dropped>>, WatchCovers',
           pushed \in Seq(Events), since \in Nat,
           NEW e \in ToSet(pushed), since' = e.time, handled' = handled \cup {e.id},
           \A x \in ToSet(pushed) : x.time > since /\ x.time <= e.time /\ x # e => Known(x)
    PROVE  OrderInv'
<1>1. QueueInOrder'
  BY DEF OrderInv, QueueInOrder
<1>2. MarkerIsPushed'
  BY InSet DEF MarkerIsPushed
<1>3. \A x : Known(x) => Known(x)'
  BY DEF Known, Accounted, Indistinct
<1>4. ASSUME NEW x \in ToSet(pushed), x.id \notin handled \cup {e.id}, x.time <= e.time
      PROVE  Known(x)
  <2>0. x \in Events /\ x # e
    BY <1>4, InSet
  <2>1. x # e /\ x.time \in Nat
    BY <2>0 DEF Events
  <2>2. CASE x.time <= since
    BY <1>4, <2>2 DEF OrderInv, SkippedKnown, Skipped
  <2>3. CASE x.time > since
    BY <1>4, <2>1, <2>3
  <2>4. \A t \in Nat : t <= since \/ t > since
    OBVIOUS
  <2> QED
    BY <2>1, <2>2, <2>3, <2>4
<1>5. SkippedKnown'
  BY <1>3, <1>4 DEF SkippedKnown, Skipped
<1> QED
  BY <1>1, <1>2, <1>5 DEF OrderInv

LEMMA LookKeepsOrder ==
    ASSUME ParkInv, OrderInv, NEW w \in Watches, LookFinds(w) \/ Look(w)
    PROVE  OrderInv'
<1> DEFINE p == IF Found(w) = NoEvent THEN "evict" ELSE "ended"
<1>1. /\ watch[w].pc = "look" /\ Goto(w, p) /\ p \in WatchPCs
      /\ UNCHANGED <<events, pushed, window, dropped, asked, conn>>
  BY DEF Look, LookFinds, At, WatchPCs, queueVars, histVars
<1> HIDE DEF p
<1>2. /\ watch'[w].pc = p /\ watch'[w].since = watch[w].since
      /\ \A v \in Watches \ {w} : watch'[v] = watch[v]
  BY <1>1, GotoWrites DEF ParkInv
<1>3. w = asked /\ watch[w].since = since
  BY <1>1 DEF ParkInv, DispatchedInTurn, Dispatched, OrderInv, WatchCovers
<1>4. events \in Seq(Events) /\ pushed \in Seq(Events) /\ since \in Nat
  BY DEF ParkInv, TypeOK
<1>5. CASE Look(w)
  <2>1. p = "evict" /\ UNCHANGED <<since, handled>>
    BY <1>5 DEF Look, p
  <2>2. \A i \in 1 .. Len(events) : events[i].time <= since
    BY <1>3, <1>5, FoundIs DEF ParkInv, Look
  <2>3. \A x \in ToSet(events) : ~(x.time > since)
    <3> SUFFICES ASSUME NEW i \in 1 .. Len(events) PROVE ~(events[i].time > since)
      BY <1>4, InSet
    <3>1. events[i] \in Events
      BY <1>4, ElementOfSeq, LenProperties
    <3>2. events[i].time \in Nat
      BY <3>1 DEF Events
    <3> QED
      BY <1>4, <2>2, <3>2
  <2>4. \A x \in ToSet(pushed) : x.time > since => Accounted(x)
    BY <2>3 DEF OrderInv, QueueInOrder, Accounted
  <2>5. WatchCovers'
    BY <1>1, <1>2, <1>3, <2>1, <2>4 DEF WatchCovers, Accounted
  <2> QED
    BY <1>1, <2>1, <2>5, MoveKeepsOrder
<1>6. CASE LookFinds(w)
  <2>1. p = "ended" /\ Found(w) # NoEvent /\ Handle(w, Found(w))
    BY <1>6 DEF LookFinds, p
  <2>2. WatchCovers'
    BY <1>1, <1>2, <1>3, <2>1 DEF WatchCovers
  <2>3. CASE conn = "open"
    <3>1. PICK i \in 1 .. Len(events) :
             /\ Found(w) = events[i] /\ events[i].time > since
             /\ \A j \in 1 .. Len(events) : events[j].time > since => j <= i
      BY <1>3, <2>1, FoundIs DEF ParkInv
    <3> DEFINE e == events[i]
    <3>2. since' = e.time /\ handled' = handled \cup {e.id}
      BY <1>3, <2>1, <2>3, <3>1 DEF Handle
    <3>3. e \in ToSet(pushed) /\ e \in Events
      BY <1>4, InSet DEF OrderInv, QueueInOrder
    <3>4. ASSUME NEW x \in ToSet(pushed), x.time > since, x.time <= e.time, x # e, x \in ToSet(events)
          PROVE  Known(x)
      <4>1. PICK j \in 1 .. Len(events) : x = events[j]
        BY <1>4, <3>4, InSet
      <4>2. j < i
        <5>1. j <= i /\ j # i
          BY <3>1, <3>4, <4>1
        <5> QED
          BY <5>1
      <4>3. PICK k \in 1 .. Len(pushed), l \in 1 .. Len(pushed) :
              k < l /\ pushed[k] = e /\ pushed[l] = x
        BY <4>1, <4>2 DEF OrderInv, QueueInOrder
      <4>4. x.time = e.time \/ e.time > x.time
        <5>1. x.time \in Nat /\ e.time \in Nat
          <6> HIDE DEF e
          <6>1. x \in Events /\ e \in Events
            BY <1>4, <3>3, InSet
          <6> QED
            BY <6>1 DEF Events
        <5> QED
          BY <3>4, <5>1
      <4>5. l # k
        BY <4>3
      <4>6. Indistinct(x)
        <5> HIDE DEF e
        <5> QED
          BY <4>3, <4>4, <4>5 DEF Indistinct
      <4> QED
        BY <4>6 DEF Known
    <3>5. \A x \in ToSet(pushed) : x.time > since /\ x.time <= e.time /\ x # e => Known(x)
      BY <3>4 DEF OrderInv, QueueInOrder, Known, Accounted
    <3> HIDE DEF e
    <3> QED
      BY <1>1, <1>4, <2>2, <3>2, <3>3, <3>5, HandedKeepsOrder
  <2>4. CASE conn # "open"
    <3>1. UNCHANGED <<since, handled>>
      BY <2>1, <2>4 DEF Handle
    <3> QED
      BY <1>1, <2>2, <3>1, MoveKeepsOrder
  <2> QED
    BY <2>3, <2>4
<1> QED
  BY <1>5, <1>6

LEMMA WaitingKeepsOrder ==
    ASSUME ParkInv, OrderInv, NEW w \in Watches, Waiting(w)
    PROVE  OrderInv'
<1>1. PICK p \in {"ended", "remove"} :
         /\ Goto(w, p) /\ p \in WatchPCs
         /\ watch[w].pc \in {"wait", "remove"}
         /\ UNCHANGED <<events, pushed, window, dropped, asked, conn>>
  BY DEF Waiting, Wakes, Evicted, TimerFires, TimedOut, At, WatchPCs, queueVars, histVars
<1>2. /\ watch'[w].pc = p /\ watch'[w].since = watch[w].since
      /\ \A v \in Watches \ {w} : watch'[v] = watch[v]
  BY <1>1, GotoWrites DEF ParkInv
<1>3. CASE UNCHANGED <<since, handled>>
  <2>1. WatchCovers'
    BY <1>1, <1>2, <1>3 DEF OrderInv, WatchCovers, Known, Accounted, Indistinct
  <2> QED
    BY <1>1, <1>3, <2>1, MoveKeepsOrder
<1>4. CASE Wakes(w) /\ w = asked /\ conn = "open"
  <2> DEFINE e == watch[w].got
  <2>1. /\ watch[w].pc = "wait" /\ watch[w].ch = "event" /\ Goto(w, "ended")
        /\ since' = e.time /\ handled' = handled \cup {e.id}
    BY <1>4 DEF Wakes, At, Handle
  <2>2. /\ e \in ToSet(pushed)
        /\ \A x \in ToSet(pushed) : x.time > since /\ x.time <= e.time /\ x # e => Known(x)
    BY <1>4, <2>1 DEF OrderInv, WatchCovers
  <2>3. WatchCovers'
    <3>1. watch'[w].pc = "ended"
      BY <2>1, GotoWrites DEF ParkInv, WatchPCs
    <3> QED
      BY <1>1, <1>4, <3>1 DEF WatchCovers
  <2>4. pushed \in Seq(Events) /\ since \in Nat
    BY DEF ParkInv, TypeOK
  <2> HIDE DEF e
  <2> QED
    BY <1>1, <2>1, <2>2, <2>3, <2>4, HandedKeepsOrder
<1> QED
  BY <1>3, <1>4 DEF Waiting, Wakes, Evicted, TimerFires, TimedOut, Handle

\* A watch begins, gives up its place in the list, or takes it.
LEMMA MovesKeepOrder ==
    ASSUME ParkInv, OrderInv,
           Watch \/ Disconnected \/ \E w \in Watches : Evict(w) \/ AddWatcher(w)
    PROVE  OrderInv'
<1>1. UNCHANGED <<events, pushed, window, dropped, since, handled>>
  BY DEF Watch, Disconnected, Evict, AddWatcher, queueVars, histVars
<1>a. (\A x : Accounted(x) => Accounted(x)') /\ (\A x : Known(x) => Known(x)')
  BY <1>1 DEF Known, Accounted, Indistinct
<1>2. CASE Watch
  <2>1. /\ asked' = asked + 1 /\ asked + 1 \in Watches
        /\ watch'[asked + 1].pc = "look" /\ watch'[asked + 1].since = since
    <3> DEFINE r == [NoWatch EXCEPT !.pc = "look", !.since = since]
    <3>0. NoWatch \in [pc : {"none"}, since : {0}, ch : {"empty"}, got : {NoEvent}]
      BY DEF NoWatch
    <3>1. r.pc = "look" /\ r.since = since
      <4>1. \A x \in [pc : {"none"}, since : {0}, ch : {"empty"}, got : {NoEvent}] :
              /\ [x EXCEPT !.pc = "look", !.since = since].pc = "look"
              /\ [x EXCEPT !.pc = "look", !.since = since].since = since
        OBVIOUS
      <4> QED
        BY <3>0, <4>1
    <3>2. asked' = asked + 1 /\ asked < MaxWatches /\ watch' = [watch EXCEPT ![asked + 1] = r]
      BY <1>2 DEF Watch
    <3> HIDE DEF r
    <3>3. asked + 1 \in Watches
      BY <3>2, ConstantTypes DEF ParkInv, TypeOK, Watches
    <3> QED
      BY <3>1, <3>2, <3>3 DEF ParkInv, Shapes
  <2>2. WatchCovers'
    BY <1>1, <2>1 DEF WatchCovers
  <2> QED
    BY <1>1, <2>2, MoveKeepsOrder
<1>3. CASE Disconnected
  <2>1. /\ watch' = Closing(watch) /\ asked' = asked
        /\ \A v \in Watches :
             /\ watch'[v].pc = watch[v].pc /\ watch'[v].since = watch[v].since
             /\ watch'[v].got = watch[v].got
             /\ watch'[v].ch = IF v \in watchers THEN "closed" ELSE watch[v].ch
    BY <1>3, ClosingWrites DEF Disconnected, ParkInv, Shapes
  <2>2. WatchCovers'
    BY <1>1, <1>a, <2>1 DEF OrderInv, WatchCovers
  <2> QED
    BY <1>1, <2>2, MoveKeepsOrder
<1>4. ASSUME NEW w \in Watches, Evict(w) PROVE OrderInv'
  <2> DEFINE f == [watch EXCEPT ![w].pc = "add"]
  <2>1. watch[w].pc = "evict" /\ watch' = Closing(f) /\ asked' = asked
    BY <1>4 DEF Evict, At
  <2>2. /\ f \in [Watches -> WatchStates]
        /\ f[w].pc = "add" /\ f[w].since = watch[w].since
    BY DEF ParkInv, Shapes, WatchStates, WatchPCs
  <2> HIDE DEF f
  <2>3. watch'[w].pc = "add" /\ watch'[w].since = watch[w].since
    BY <2>1, <2>2, ClosingWrites
  <2>4. w = asked
    BY <2>1 DEF ParkInv, DispatchedInTurn, Dispatched
  <2>5. WatchCovers'
    BY <1>1, <1>a, <2>1, <2>3, <2>4 DEF OrderInv, WatchCovers
  <2> QED
    BY <1>1, <2>5, MoveKeepsOrder
<1>5. ASSUME NEW w \in Watches, AddWatcher(w) PROVE OrderInv'
  <2>1. watch[w].pc = "add" /\ Goto(w, "wait") /\ asked' = asked /\ "wait" \in WatchPCs
    BY <1>5 DEF AddWatcher, At, WatchPCs
  <2>2. /\ watch'[w].pc = "wait" /\ watch'[w].since = watch[w].since
        /\ watch'[w].ch = watch[w].ch
    BY <2>1, GotoWrites DEF ParkInv
  <2>3. w = asked /\ watch[w].ch = "empty"
    BY <2>1 DEF ParkInv, DispatchedInTurn, Dispatched
  <2>4. WatchCovers'
    BY <1>1, <1>a, <2>1, <2>2, <2>3 DEF OrderInv, WatchCovers
  <2> QED
    BY <1>1, <2>4, MoveKeepsOrder
<1> QED
  BY <1>2, <1>3, <1>4, <1>5

LEMMA StepKeepsOrder == ParkInv /\ OrderInv /\ [Next]_vars => OrderInv'
<1> SUFFICES ASSUME ParkInv, OrderInv, [Next]_vars PROVE OrderInv'
  OBVIOUS
<1>1. CASE Tick \/ WaitEnds \/ Wait \/ Disconnect \/ UNCHANGED vars
             \/ \E g \in Emitters, s \in Sources : Stamp(g, s)
  <2>1. UNCHANGED <<events, pushed, window, dropped, watch, asked, since, handled>>
    BY <1>1 DEF Tick, WaitEnds, Wait, Disconnect, Stamp, vars, queueVars, histVars
  <2> QED
    BY <2>1, OrderUntouched
<1>2. CASE \E g \in Emitters : Push(g)
  BY <1>2, PushKeepsOrder
<1>3. CASE Watch \/ Disconnected \/ \E w \in Watches : Evict(w) \/ AddWatcher(w)
  BY <1>3, MovesKeepOrder
<1>4. CASE \E w \in Watches : LookFinds(w) \/ Look(w)
  BY <1>4, LookKeepsOrder
<1>5. CASE \E w \in Watches : Waiting(w)
  BY <1>5, WaitingKeepsOrder
<1> QED
  BY <1>1, <1>2, <1>3, <1>4, <1>5 DEF Next, Dispatch

\* The inductive invariant.
THEOREM WatchInvariance == Spec => []IInv
<1>1. Init => IInv
  BY ParkInit, OrderInit DEF IInv
<1>2. IInv /\ [Next]_vars => IInv'
  BY StepKeepsList, StepKeepsOrder DEF IInv
<1> QED
  BY <1>1, <1>2, PTL DEF Spec

\* An agent that follows the protocol skips only what was aggregated or pushed
\* out, what its marker cannot tell from another, and what came between a
\* watch's look and its registration.
THEOREM SkipsStayKnown == Spec => []SkipsAreKnown
<1>1. IInv => SkipsAreKnown
  BY DEF IInv, OrderInv, SkippedKnown, Known, Accounted, SkipsAreKnown
<1> QED
  BY <1>1, WatchInvariance, PTL
=============================================================================
