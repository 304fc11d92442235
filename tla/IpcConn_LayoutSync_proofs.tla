--------------------- MODULE IpcConn_LayoutSync_proofs ---------------------
(***************************************************************************)
(* What IpcConn keeps for every number of senders, calls and places in the *)
(* queues, and, in the second half, what LayoutSync keeps for every number *)
(* of clients, panes and acts.  The two share no variable.                 *)
(*                                                                         *)
(* IpcConn.  The counter Flush reads is the queue, the frame in sendLoop's *)
(* hand and the discount it owes, less the senders between their queue and *)
(* their count.  The order of acceptance is kept because sendLoop has one  *)
(* frame in its hand, and stops for good only on a closed connection.  A   *)
(* bulk sender takes its place below the headroom with it when it queues.  *)
(***************************************************************************)
EXTENDS IpcConn, LayoutSync, FiniteSetTheorems, SequenceTheorems, TLAPS

\* Types that are no arithmetic.
Flags == closed \in BOOLEAN /\ overflow \in BOOLEAN /\ closing \in BOOLEAN

Values ==
    /\ critCh \in Seq(Frames) /\ Len(critCh) <= Cap
    /\ outCh \in 0 .. Cap
    /\ pending \in Int
    /\ loopPC \in LoopPCs
    /\ cur \in Frames \cup {Live, None}
    /\ spc \in [Procs -> {"idle", "waiting", "checked", "queued"}]
    /\ nsent \in [Procs -> 0 .. MaxSends]
    /\ fpc \in [Flushers -> {"idle", "polling", "drained", "gaveup"}]
    /\ accepted \in Seq(Frames) /\ wire \in Seq(Frames)
    /\ overtaken \in Nat
    /\ owed \in [Flushers -> SUBSET Frames]

\* A goroutine that is not idle is in a call it has made.
Called == \A p \in Procs : spc[p] # "idle" => nsent[p] > 0

\* sendLoop has a frame in its hand exactly while it writes, and goes on only
\* on an open connection.
Hand ==
    /\ loopPC = "write" <=> cur # None
    /\ loopPC \in {"uncount", "exiting", "gone"} => closed

\* A live frame has passed a waiting one only since the last second select.
Passed ==
    /\ overtaken \in {0, 1}
    /\ loopPC = "second" => overtaken = 0
    /\ overtaken = 1 => critCh # <<>>

BulkIn(q) == {i \in DOMAIN q : q[i][1] \in Bulk}
BulkChecked == {p \in Bulk : spc[p] = "checked"}

\* The bulk frames on the queue, with the bulk senders about to queue one.
BulkBounded ==
    Cardinality(BulkIn(critCh)) + Cardinality(BulkChecked) <= Headroom - 1 + Cardinality(Bulk)

IInv ==
    /\ Flags /\ Values /\ Called /\ Hand
    /\ PendingAccounting /\ AcceptedInOrder /\ Passed /\ BulkBounded

----------------------------------------------------------------------------
LEMMA ConstTypes ==
    /\ Cap \in Nat /\ Headroom \in Nat /\ Headroom >= 1 /\ Headroom <= Cap /\ MaxSends \in Nat
    /\ IsFiniteSet(Procs) /\ IsFiniteSet(Bulk) /\ Cardinality(Bulk) \in Nat
    /\ Senders \cap Bulk = {} /\ Senders \subseteq Procs /\ Bulk \subseteq Procs
<1>1. IsFiniteSet(Procs) /\ Bulk \subseteq Procs /\ Senders \subseteq Procs
  BY IpcConnAssumption DEF Procs
<1>2. IsFiniteSet(Bulk)
  BY <1>1, FS_Subset
<1>3. Cardinality(Bulk) \in Nat
  BY <1>2, FS_CardinalityType
<1> QED
  BY <1>1, <1>2, <1>3, IpcConnAssumption

\* A must-deliver frame is none of the two that stand for something else.
LEMMA FramesApart == Live \notin Frames /\ None \notin Frames /\ Live # None
  BY ConstTypes DEF Live, None, Frames

LEMMA HeadAndTail ==
    ASSUME NEW q \in Seq(Frames), q # <<>>
    PROVE  /\ Head(q) \in Frames /\ Tail(q) \in Seq(Frames) /\ Len(Tail(q)) = Len(q) - 1
           /\ q = <<Head(q)>> \o Tail(q)
<1>1. Len(q) \in Nat \ {0}
  BY EmptySeq
<1>2. SubSeq(q, 1, Len(q)) = <<q[1]>> \o SubSeq(q, 1 + 1, Len(q))
  BY <1>1, SubSeqRecursiveFirst
<1>3. SubSeq(q, 1, Len(q)) = q /\ Tail(q) = SubSeq(q, 2, Len(q))
  BY SubSeqFull, TailIsSubSeq
<1>4. Head(q) = q[1]
  BY <1>1
<1>5. 1 + 1 = 2
  OBVIOUS
<1> QED
  BY <1>2, <1>3, <1>4, <1>5, HeadTailProperties

LEMMA InitInv == Init => IInv
<1> SUFFICES ASSUME Init PROVE IInv
  OBVIOUS
<1> USE DEF Init
<1>1. Flags
  BY DEF Flags
<1>2. <<>> \in Seq(Frames) /\ Len(<<>>) = 0
  BY EmptySeq
<1>3. Values
  BY <1>2, ConstTypes DEF Values, LoopPCs
<1>4. Called /\ Hand
  BY DEF Called, Hand
<1>5. PendingAccounting
  <2>1. Uncounted = {} /\ InWrite = 0 /\ Undiscounted = 0
    BY DEF Uncounted, InWrite, Undiscounted
  <2> QED
    BY <1>2, <2>1, FS_EmptySet DEF PendingAccounting
<1>6. AcceptedInOrder
  <2>1. InHand = <<>>
    BY DEF InHand
  <2> QED
    BY <1>2, <2>1, ConcatEmptySeq DEF AcceptedInOrder
<1>7. Passed
  BY DEF Passed
<1>8. BulkBounded
  <2>1. BulkIn(critCh) = {}
    BY <1>2, LenProperties DEF BulkIn
  <2>2. BulkChecked = {}
    BY ConstTypes DEF BulkChecked
  <2>3. Cardinality(BulkIn(critCh)) = 0 /\ Cardinality(BulkChecked) = 0
    BY <2>1, <2>2, FS_EmptySet
  <2> QED
    BY <2>3, ConstTypes DEF BulkBounded
<1> QED
  BY <1>1, <1>3, <1>4, <1>5, <1>6, <1>7, <1>8 DEF IInv

----------------------------------------------------------------------------
(* The types *)

\* Steps that leave the must-deliver frames where they are.
Sending(p) == SendQueue(p) \/ BulkQueue(p)
Waiting(p) ==
    SendCheck(p) \/ SendOverflow(p) \/ BulkCall(p) \/ BulkRefused(p) \/ BulkCanceled(p)
      \/ BulkCheck(p) \/ BulkLostRace(p)
Selecting == FirstSelect \/ SecondSelect
Closing == CloseOverflowed \/ CloseElsewhere
Flushing == \E f \in Flushers : FlushCall(f) \/ FlushPoll(f)

LEMMA NextSplits ==
    ASSUME Next
    PROVE  \/ \E p \in Procs : Sending(p) \/ Waiting(p) \/ Count(p)
           \/ SendDroppable \/ Selecting \/ WriteOk \/ WriteFail \/ Discount \/ LoopExit
           \/ Closing \/ Flushing
  BY ConstTypes DEF Next, SenderStep, BulkStep, LoopStep, Sending, Waiting, Selecting, Closing,
                    Flushing

LEMMA StepKeepsFlags ==
    ASSUME Flags, [Next]_vars
    PROVE  Flags'
<1> USE DEF Flags, connVars
<1>1. ASSUME NEW p \in Procs, Sending(p) \/ Waiting(p) \/ Count(p) PROVE Flags'
  BY <1>1 DEF Sending, Waiting, SendQueue, BulkQueue, SendCheck, SendOverflow, SpawnClose, BulkCall,
              BulkRefused, BulkCanceled, BulkCheck, BulkLostRace, Count
<1>2. CASE SendDroppable \/ Selecting \/ WriteOk \/ WriteFail \/ Discount \/ LoopExit
  BY <1>2 DEF SendDroppable, Selecting, FirstSelect, SecondSelect, WriteOk, WriteFail, MarkDead,
              Discount, LoopExit
<1>3. CASE Closing \/ Flushing
  BY <1>3 DEF Closing, CloseOverflowed, CloseElsewhere, MarkDead, Flushing, FlushCall, FlushPoll
<1>4. CASE UNCHANGED vars
  BY <1>4 DEF vars
<1> QED
  BY <1>1, <1>2, <1>3, <1>4, NextSplits

\* What PutCritical makes of the queue and of the order of acceptance.
Put(p) ==
    /\ <<p, nsent[p]>> \in Frames
    /\ Len(critCh) < Cap
    /\ critCh' = Append(critCh, <<p, nsent[p]>>) /\ accepted' = Append(accepted, <<p, nsent[p]>>)
    /\ critCh' \in Seq(Frames) /\ critCh' # <<>> /\ accepted' \in Seq(Frames)
    /\ Len(critCh') = Len(critCh) + 1
    /\ spc[p] = "checked" /\ spc' = [spc EXCEPT ![p] = "queued"]
    /\ UNCHANGED <<outCh, pending, connVars, loopVars, nsent, flushVars, wire, overtaken>>

LEMMA Puts ==
    ASSUME IInv
    PROVE  \A p \in Procs : Sending(p) => Put(p)
<1> SUFFICES ASSUME NEW p \in Procs, Sending(p) PROVE Put(p)
  OBVIOUS
<1>1. /\ Len(critCh) < Cap /\ spc[p] = "checked" /\ spc' = [spc EXCEPT ![p] = "queued"]
      /\ critCh' = Append(critCh, <<p, nsent[p]>>) /\ accepted' = Append(accepted, <<p, nsent[p]>>)
      /\ UNCHANGED <<outCh, pending, connVars, loopVars, nsent, flushVars, wire, overtaken>>
  BY DEF Sending, SendQueue, BulkQueue, PutCritical, HasRoom
<1>2. nsent[p] \in 1 .. MaxSends
  BY <1>1, ConstTypes DEF IInv, Called, Values
<1>3. <<p, nsent[p]>> \in Frames
  BY <1>2 DEF Frames
<1>4. critCh \in Seq(Frames) /\ accepted \in Seq(Frames)
  BY DEF IInv, Values
<1>5. /\ critCh' \in Seq(Frames) /\ critCh' # <<>> /\ accepted' \in Seq(Frames)
      /\ Len(critCh') = Len(critCh) + 1
  BY <1>1, <1>3, <1>4, AppendProperties
<1> QED
  BY <1>1, <1>3, <1>5 DEF Put

LEMMA StepKeepsValues ==
    ASSUME IInv, [Next]_vars
    PROVE  Values'
<1>0. \A p \in Procs : Sending(p) => Put(p)
  BY Puts
<1> USE ConstTypes DEF IInv, Values, loopVars, sendVars, flushVars
<1>1. ASSUME NEW p \in Procs, Sending(p) PROVE Values'
  <2>1. Put(p) /\ Len(critCh) \in Nat
    BY <1>0, <1>1, LenProperties
  <2>2. spc' \in [Procs -> {"idle", "waiting", "checked", "queued"}]
    BY <2>1 DEF Put
  <2> QED
    BY <2>1, <2>2 DEF Put
<1>2. ASSUME NEW p \in Procs, Waiting(p) \/ Count(p) PROVE Values'
  <2>1. spc' \in [Procs -> {"idle", "waiting", "checked", "queued"}]
    BY <1>2 DEF Waiting, SendCheck, SendOverflow, BulkCall, BulkRefused, BulkCanceled, BulkCheck,
                BulkLostRace, Count
  <2>2. nsent' \in [Procs -> 0 .. MaxSends]
    <3>1. \/ nsent' = nsent
          \/ nsent[p] < MaxSends /\ nsent' = [nsent EXCEPT ![p] = nsent[p] + 1]
      BY <1>2 DEF Waiting, SendCheck, SendOverflow, BulkCall, BulkRefused, BulkCanceled, BulkCheck,
                  BulkLostRace, Count
    <3>2. nsent[p] < MaxSends => nsent[p] + 1 \in 0 .. MaxSends
      OBVIOUS
    <3> QED
      BY <3>1, <3>2
  <2>3. pending' \in Int
    BY <1>2 DEF Waiting, SendCheck, SendOverflow, BulkCall, BulkRefused, BulkCanceled, BulkCheck,
                BulkLostRace, Count, CountedUp
  <2>4. UNCHANGED <<critCh, outCh, loopVars, flushVars, accepted, wire, overtaken>>
    BY <1>2 DEF Waiting, SendCheck, SendOverflow, BulkCall, BulkRefused, BulkCanceled, BulkCheck,
                BulkLostRace, Count
  <2> QED
    BY <2>1, <2>2, <2>3, <2>4
<1>3. CASE SendDroppable
  BY <1>3 DEF SendDroppable
<1>4. CASE Selecting
  <2>1. CASE TakeCritical
    <3>1. cur' \in Frames /\ critCh' \in Seq(Frames) /\ Len(critCh') = Len(critCh) - 1
      BY <2>1, HeadAndTail DEF TakeCritical
    <3>2. Len(critCh) \in Nat
      BY LenProperties
    <3> QED
      BY <1>4, <2>1, <3>1, <3>2 DEF Selecting, FirstSelect, SecondSelect, TakeCritical, LoopPCs
  <2>2. CASE TakeLive
    BY <1>4, <2>2 DEF Selecting, FirstSelect, SecondSelect, TakeLive, LoopPCs
  <2>3. CASE TakeDone
    BY <1>4, <2>3 DEF Selecting, FirstSelect, SecondSelect, TakeDone, LoopPCs
  <2>4. CASE loopPC' = "second" /\ UNCHANGED <<critCh, outCh, cur, overtaken>>
    BY <1>4, <2>4 DEF Selecting, FirstSelect, SecondSelect, LoopPCs
  <2> QED
    BY <1>4, <2>1, <2>2, <2>3, <2>4 DEF Selecting, FirstSelect, SecondSelect
<1>5. CASE WriteOk
  <2>1. cur \in Frames \cup {Live}
    BY <1>5 DEF WriteOk, Hand
  <2>2. wire' \in Seq(Frames)
    BY <1>5, <2>1, AppendProperties DEF WriteOk
  <2> QED
    BY <1>5, <2>2 DEF WriteOk, LoopPCs
<1>6. CASE WriteFail \/ Discount \/ LoopExit
  BY <1>6 DEF WriteFail, Discount, LoopExit, LoopPCs
<1>7. CASE Closing
  BY <1>7 DEF Closing, CloseOverflowed, CloseElsewhere
<1>8. CASE Flushing
  <2>1. ASSUME NEW f \in Flushers, FlushCall(f) PROVE owed' \in [Flushers -> SUBSET Frames]
    <3>1. \A i \in DOMAIN accepted : accepted[i] \in Frames
      BY LenProperties, ElementOfSeq
    <3>2. {accepted[i] : i \in DOMAIN accepted} \ {<<p, nsent[p]>> : p \in Uncounted} \subseteq Frames
      BY <3>1
    <3> QED
      BY <2>1, <3>2 DEF FlushCall
  <2>2. owed' \in [Flushers -> SUBSET Frames]
    BY <1>8, <2>1 DEF Flushing, FlushPoll
  <2>3. fpc' \in [Flushers -> {"idle", "polling", "drained", "gaveup"}]
    BY <1>8 DEF Flushing, FlushCall, FlushPoll
  <2> QED
    BY <1>8, <2>2, <2>3 DEF Flushing, FlushCall, FlushPoll
<1>9. CASE UNCHANGED vars
  BY <1>9 DEF vars
<1> QED
  BY <1>1, <1>2, <1>3, <1>4, <1>5, <1>6, <1>7, <1>8, <1>9, NextSplits

LEMMA StepKeepsCalled ==
    ASSUME IInv, [Next]_vars
    PROVE  Called'
<1> USE DEF IInv, Values, Called, sendVars
<1>1. ASSUME NEW p \in Procs, Sending(p) \/ Waiting(p) \/ Count(p) PROVE Called'
  BY <1>1, ConstTypes DEF Sending, Waiting, SendQueue, BulkQueue, PutCritical, SendCheck, SendOverflow, BulkCall,
              BulkRefused, BulkCanceled, BulkCheck, BulkLostRace, Count
<1>2. CASE SendDroppable \/ Selecting \/ WriteOk \/ WriteFail \/ Discount \/ LoopExit
  BY <1>2 DEF SendDroppable, Selecting, FirstSelect, SecondSelect, WriteOk, WriteFail, Discount,
              LoopExit
<1>3. CASE Closing \/ Flushing \/ UNCHANGED vars
  BY <1>3 DEF Closing, CloseOverflowed, CloseElsewhere, Flushing, FlushCall, FlushPoll, vars
<1> QED
  BY <1>1, <1>2, <1>3, NextSplits

LEMMA StepKeepsHand ==
    ASSUME IInv, [Next]_vars
    PROVE  Hand'
<1> USE DEF IInv, Values, Hand, connVars, loopVars
<1>1. ASSUME NEW p \in Procs, Sending(p) \/ Waiting(p) \/ Count(p) PROVE Hand'
  BY <1>1 DEF Sending, Waiting, SendQueue, BulkQueue, SendCheck, SendOverflow, BulkCall,
              BulkRefused, BulkCanceled, BulkCheck, BulkLostRace, Count
<1>2. CASE Selecting
  <2>1. CASE TakeCritical
    BY <1>2, <2>1, HeadAndTail, FramesApart DEF Selecting, FirstSelect, SecondSelect, TakeCritical
  <2>2. CASE ~TakeCritical
    BY <1>2, <2>2, FramesApart DEF Selecting, FirstSelect, SecondSelect, TakeLive, TakeDone
  <2> QED
    BY <2>1, <2>2
<1>3. CASE SendDroppable \/ WriteOk \/ WriteFail \/ Discount \/ LoopExit
  BY <1>3 DEF SendDroppable, WriteOk, WriteFail, MarkDead, Discount, LoopExit
<1>4. CASE Closing \/ Flushing \/ UNCHANGED vars
  BY <1>4 DEF Closing, CloseOverflowed, CloseElsewhere, MarkDead, Flushing, FlushCall, FlushPoll, vars
<1> QED
  BY <1>1, <1>2, <1>3, <1>4, NextSplits

LEMMA StepKeepsPassed ==
    ASSUME IInv, [Next]_vars
    PROVE  Passed'
<1>0. \A p \in Procs : Sending(p) => Put(p)
  BY Puts
<1> USE DEF IInv, Passed, loopVars
<1>1. ASSUME NEW p \in Procs, Sending(p) PROVE Passed'
  BY <1>0, <1>1 DEF Put
<1>2. ASSUME NEW p \in Procs, Waiting(p) \/ Count(p) PROVE Passed'
  BY <1>2 DEF Waiting, SendCheck, SendOverflow, BulkCall, BulkRefused, BulkCanceled, BulkCheck,
              BulkLostRace, Count
<1>3. CASE Selecting
  BY <1>3 DEF Selecting, FirstSelect, SecondSelect, TakeCritical, TakeLive, TakeDone, NothingUrgent
<1>4. CASE SendDroppable \/ WriteOk \/ WriteFail \/ Discount \/ LoopExit
  BY <1>4 DEF SendDroppable, WriteOk, WriteFail, Discount, LoopExit
<1>5. CASE Closing \/ Flushing \/ UNCHANGED vars
  BY <1>5 DEF Closing, CloseOverflowed, CloseElsewhere, Flushing, FlushCall, FlushPoll, vars
<1> QED
  BY <1>1, <1>2, <1>3, <1>4, <1>5, NextSplits

----------------------------------------------------------------------------
(* The counter *)

\* The frames sendLoop has not discounted.
InLoop == InWrite + Undiscounted

LEMMA LoopTypes ==
    /\ InWrite \in Nat /\ Undiscounted \in Nat /\ InLoop \in Nat
  BY DEF InWrite, Undiscounted, InLoop

LEMMA UncountedFinite == IsFiniteSet(Uncounted) /\ Cardinality(Uncounted) \in Nat
<1>1. Uncounted \subseteq Procs
  BY DEF Uncounted
<1> QED
  BY <1>1, ConstTypes, FS_Subset, FS_CardinalityType

\* The goroutines that still have to count change by the one that steps.
LEMMA UncountedStep ==
    ASSUME NEW p \in Procs, spc \in [Procs -> {"idle", "waiting", "checked", "queued"}],
           NEW pc, spc' = [spc EXCEPT ![p] = pc]
    PROVE  /\ pc = "queued" => Uncounted' = Uncounted \cup {p}
           /\ pc # "queued" => Uncounted' = Uncounted \ {p}
  BY DEF Uncounted

LEMMA StepKeepsPending ==
    ASSUME IInv, [Next]_vars
    PROVE  PendingAccounting'
<1>0. \A p \in Procs : Sending(p) => Put(p)
  BY Puts
<1>1. /\ pending = Len(critCh) + InLoop - Cardinality(Uncounted)
      /\ Len(critCh) \in Nat /\ pending \in Int
      /\ spc \in [Procs -> {"idle", "waiting", "checked", "queued"}]
  BY LenProperties, LoopTypes, UncountedFinite DEF IInv, PendingAccounting, InLoop, Values
<1> SUFFICES pending' = Len(critCh') + InLoop' - Cardinality(Uncounted')
  <2>1. Len(critCh') \in Nat /\ InWrite' \in Nat /\ Undiscounted' \in Nat /\ Cardinality(Uncounted') \in Nat
    <3>1. Values'
      BY StepKeepsValues
    <3>2. Uncounted' \subseteq Procs
      BY DEF Uncounted
    <3>3. IsFiniteSet(Uncounted')
      BY <3>2, ConstTypes, FS_Subset
    <3> QED
      BY <3>1, <3>3, LenProperties, FS_CardinalityType DEF Values, InWrite, Undiscounted
  <2> QED
    BY <2>1 DEF PendingAccounting, InLoop
<1>2. ASSUME NEW p \in Procs, Sending(p)
      PROVE  pending' = Len(critCh') + InLoop' - Cardinality(Uncounted')
  <2>1. /\ Len(critCh') = Len(critCh) + 1 /\ pending' = pending /\ InLoop' = InLoop
        /\ spc[p] = "checked" /\ spc' = [spc EXCEPT ![p] = "queued"]
    BY <1>0, <1>2 DEF Put, InLoop, InWrite, Undiscounted, loopVars
  <2>2. Uncounted' = Uncounted \cup {p} /\ p \notin Uncounted
    BY <2>1, <1>1, UncountedStep DEF Uncounted
  <2>3. Cardinality(Uncounted') = Cardinality(Uncounted) + 1
    BY <2>2, UncountedFinite, FS_AddElement
  <2> QED
    BY <2>1, <2>3, <1>1, LoopTypes, UncountedFinite
<1>3. ASSUME NEW p \in Procs, Count(p)
      PROVE  pending' = Len(critCh') + InLoop' - Cardinality(Uncounted')
  <2>1. /\ critCh' = critCh /\ pending' = pending + 1 /\ InLoop' = InLoop
        /\ spc[p] = "queued" /\ spc' = [spc EXCEPT ![p] = "idle"]
    BY <1>3 DEF Count, CountedUp, InLoop, InWrite, Undiscounted, loopVars
  <2>2. Uncounted' = Uncounted \ {p} /\ p \in Uncounted
    BY <2>1, <1>1, UncountedStep DEF Uncounted
  <2>3. Cardinality(Uncounted') = Cardinality(Uncounted) - 1
    BY <2>2, UncountedFinite, FS_RemoveElement
  <2> QED
    BY <2>1, <2>3, <1>1, LoopTypes, UncountedFinite
<1>4. ASSUME NEW p \in Procs, Waiting(p)
      PROVE  pending' = Len(critCh') + InLoop' - Cardinality(Uncounted')
  <2>1. /\ critCh' = critCh /\ pending' = pending /\ InLoop' = InLoop
    BY <1>4 DEF Waiting, SendCheck, SendOverflow, BulkCall, BulkRefused, BulkCanceled, BulkCheck,
                BulkLostRace, InLoop, InWrite, Undiscounted, loopVars
  <2>2. /\ spc[p] # "queued"
        /\ \E pc \in {"idle", "waiting", "checked"} : spc' = [spc EXCEPT ![p] = pc]
    BY <1>4 DEF Waiting, SendCheck, SendOverflow, BulkCall, BulkRefused, BulkCanceled, BulkCheck,
                BulkLostRace
  <2>3. Uncounted' = Uncounted
    BY <2>2, <1>1, UncountedStep DEF Uncounted
  <2> QED
    BY <2>1, <2>3, <1>1
<1>5. CASE Selecting
  <2>1. Uncounted' = Uncounted /\ pending' = pending /\ loopPC \in {"first", "second"}
    BY <1>5 DEF Selecting, FirstSelect, SecondSelect, sendVars, Uncounted
  <2>2. InLoop = 0
    BY <2>1 DEF InLoop, InWrite, Undiscounted
  <2>3. CASE TakeCritical
    <3>1. Len(critCh') = Len(critCh) - 1 /\ cur' # Live /\ loopPC' = "write"
      BY <2>3, HeadAndTail, FramesApart DEF TakeCritical, IInv, Values
    <3>2. InLoop' = 1
      BY <3>1 DEF InLoop, InWrite, Undiscounted
    <3> QED
      BY <2>1, <2>2, <3>1, <3>2, <1>1, UncountedFinite
  <2>4. CASE ~TakeCritical
    <3>1. critCh' = critCh /\ (loopPC' = "write" => cur' = Live) /\ loopPC' \notin {"count", "uncount"}
      BY <1>5, <2>4 DEF Selecting, FirstSelect, SecondSelect, TakeLive, TakeDone
    <3>2. InLoop' = 0
      BY <3>1 DEF InLoop, InWrite, Undiscounted
    <3> QED
      BY <2>1, <2>2, <3>1, <3>2, <1>1
  <2> QED
    BY <2>3, <2>4
<1>6. CASE WriteOk \/ WriteFail
  <2>1. Uncounted' = Uncounted /\ pending' = pending /\ critCh' = critCh
    BY <1>6 DEF WriteOk, WriteFail, sendVars, Uncounted
  <2>2. InLoop' = InLoop
    BY <1>6 DEF WriteOk, WriteFail, InLoop, InWrite, Undiscounted
  <2> QED
    BY <2>1, <2>2, <1>1
<1>7. CASE Discount
  <2>1. Uncounted' = Uncounted /\ pending' = pending - 1 /\ critCh' = critCh
    BY <1>7 DEF Discount, sendVars, Uncounted
  <2>2. InLoop = 1 /\ InLoop' = 0
    BY <1>7 DEF Discount, InLoop, InWrite, Undiscounted
  <2> QED
    BY <2>1, <2>2, <1>1, UncountedFinite
<1>8. CASE SendDroppable \/ LoopExit \/ Closing \/ Flushing \/ UNCHANGED vars
  <2>1. UNCHANGED <<spc, pending, critCh>> /\ (UNCHANGED loopVars \/ LoopExit)
    BY <1>8 DEF SendDroppable, LoopExit, Closing, CloseOverflowed, CloseElsewhere, Flushing,
                FlushCall, FlushPoll, vars, sendVars
  <2>2. InLoop' = InLoop /\ Uncounted' = Uncounted
    BY <2>1 DEF LoopExit, loopVars, InLoop, InWrite, Undiscounted, Uncounted
  <2> QED
    BY <2>1, <2>2, <1>1
<1> QED
  BY <1>2, <1>3, <1>4, <1>5, <1>6, <1>7, <1>8, NextSplits

----------------------------------------------------------------------------
(* The order *)

LEMMA InHandType ==
    ASSUME Values, Hand
    PROVE  InHand \in Seq(Frames)
<1>1. <<>> \in Seq(Frames)
  BY EmptySeq
<1>2. ASSUME NEW x \in Frames PROVE <<x>> \in Seq(Frames)
  OBVIOUS
<1> QED
  BY <1>1, <1>2 DEF InHand, Values, Hand

LEMMA StepKeepsOrder ==
    ASSUME IInv, [Next]_vars
    PROVE  AcceptedInOrder'
<1>0. \A p \in Procs : Sending(p) => Put(p)
  BY Puts
<1>1. /\ InHand \in Seq(Frames) /\ wire \in Seq(Frames) /\ critCh \in Seq(Frames)
      /\ wire \o InHand \in Seq(Frames) /\ accepted \in Seq(Frames)
      /\ closed \in BOOLEAN
  BY InHandType, ConcatProperties DEF IInv, Values, Flags
<1> SUFFICES ASSUME ~closed' PROVE accepted' = wire' \o InHand' \o critCh'
  BY DEF AcceptedInOrder
<1>2. ~closed
  BY DEF Next, SenderStep, BulkStep, LoopStep, SendCheck, SendQueue, SendOverflow, Count, BulkCall,
         BulkRefused, BulkCanceled, BulkCheck, BulkQueue, BulkLostRace, SendDroppable, FirstSelect,
         SecondSelect, WriteOk, WriteFail, Discount, LoopExit, CloseOverflowed, CloseElsewhere,
         MarkDead, FlushCall, FlushPoll, vars, connVars
<1>3. accepted = (wire \o InHand) \o critCh
  BY <1>2 DEF IInv, AcceptedInOrder
<1>4. ASSUME NEW p \in Procs, Sending(p) PROVE accepted' = wire' \o InHand' \o critCh'
  <2> DEFINE x == <<p, nsent[p]>>
  <2>1. /\ x \in Frames /\ critCh' = Append(critCh, x) /\ accepted' = Append(accepted, x)
        /\ wire' = wire /\ InHand' = InHand
    BY <1>0, <1>4 DEF Put, InHand, loopVars
  <2> HIDE DEF x
  <2>2. <<x>> \in Seq(Frames)
    BY <2>1
  <2>3. critCh' = critCh \o <<x>> /\ accepted' = accepted \o <<x>>
    BY <1>1, <2>1, AppendIsConcat
  <2>4. ((wire \o InHand) \o critCh) \o <<x>> = (wire \o InHand) \o (critCh \o <<x>>)
    BY <1>1, <2>2, ConcatAssociative, SMTT(30)
  <2>5. accepted' = (wire \o InHand) \o (critCh \o <<x>>)
    BY <1>3, <2>3, <2>4, Zenon
  <2>6. wire' \o InHand' \o critCh' = (wire \o InHand) \o (critCh \o <<x>>)
    BY <2>1, <2>3, Zenon
  <2> QED
    BY <2>5, <2>6, Zenon
<1>5. CASE Selecting
  <2>1. InHand = <<>> /\ UNCHANGED <<wire, accepted>>
    BY <1>5 DEF Selecting, FirstSelect, SecondSelect, InHand
  <2>2. CASE TakeCritical
    <3>1. critCh = <<Head(critCh)>> \o Tail(critCh) /\ Head(critCh) \in Frames /\ Tail(critCh) \in Seq(Frames)
      BY <1>1, <2>2, HeadAndTail DEF TakeCritical
    <3>2. InHand' = <<Head(critCh)>> /\ critCh' = Tail(critCh)
      BY <2>2, <3>1, FramesApart DEF TakeCritical, InHand
    <3>3. <<Head(critCh)>> \in Seq(Frames)
      BY <3>1
    <3>4. wire \o <<>> = wire
      BY <1>1, ConcatEmptySeq
    <3>5. (wire \o <<Head(critCh)>>) \o Tail(critCh) = wire \o (<<Head(critCh)>> \o Tail(critCh))
      BY <1>1, <3>1, <3>3, ConcatAssociative, SMTT(30)
    <3> QED
      BY <1>3, <2>1, <3>1, <3>2, <3>4, <3>5
  <2>3. CASE ~TakeCritical
    <3>1. InHand' = <<>> /\ critCh' = critCh
      BY <1>5, <2>3 DEF Selecting, FirstSelect, SecondSelect, TakeLive, TakeDone, InHand
    <3> QED
      BY <1>3, <2>1, <3>1
  <2> QED
    BY <2>2, <2>3
<1>6. CASE WriteOk
  <2>1. UNCHANGED <<accepted, critCh>> /\ InHand' = <<>>
    BY <1>6 DEF WriteOk, InHand
  <2>2. CASE cur = Live
    BY <1>3, <1>6, <2>1, <2>2 DEF WriteOk, InHand
  <2>3. CASE cur # Live
    <3>1. cur \in Frames /\ InHand = <<cur>> /\ wire' = Append(wire, cur)
      BY <1>6, <2>3 DEF WriteOk, InHand, IInv, Values, Hand
    <3>2. wire' = wire \o <<cur>> /\ wire' \in Seq(Frames)
      BY <1>1, <3>1, AppendIsConcat, AppendProperties
    <3>3. wire' \o <<>> = wire'
      BY <3>2, ConcatEmptySeq
    <3> QED
      BY <1>3, <2>1, <3>1, <3>2, <3>3
  <2> QED
    BY <2>2, <2>3
<1>7. CASE WriteFail \/ LoopExit \/ Closing
  BY <1>7, <1>2 DEF WriteFail, LoopExit, Closing, CloseOverflowed, CloseElsewhere, MarkDead
<1>8. CASE SendDroppable \/ Discount \/ Flushing \/ UNCHANGED vars \/ \E p \in Procs : Waiting(p) \/ Count(p)
  <2>1. UNCHANGED <<accepted, critCh, wire>> /\ (UNCHANGED loopVars \/ Discount)
    BY <1>8 DEF SendDroppable, Discount, Flushing, FlushCall, FlushPoll, vars, Waiting, Count,
                SendCheck, SendOverflow, BulkCall, BulkRefused, BulkCanceled, BulkCheck, BulkLostRace
  <2>2. InHand' = InHand
    BY <2>1 DEF Discount, loopVars, InHand
  <2> QED
    BY <1>3, <2>1, <2>2
<1> QED
  BY <1>4, <1>5, <1>6, <1>7, <1>8, NextSplits

----------------------------------------------------------------------------
(* The headroom *)

\* The bulk frames of a queue are no more than its frames, one more with one
\* more at its end, and no more without its head.
LEMMA BulkInFinite ==
    ASSUME NEW q \in Seq(Frames)
    PROVE  /\ IsFiniteSet(BulkIn(q)) /\ Cardinality(BulkIn(q)) \in Nat
           /\ Cardinality(BulkIn(q)) <= Len(q)
<1>1. DOMAIN q = 1 .. Len(q) /\ Len(q) \in Nat
  BY LenProperties
<1>2. IsFiniteSet(1 .. Len(q)) /\ Cardinality(1 .. Len(q)) = Len(q)
  BY <1>1, FS_Interval
<1>3. BulkIn(q) \subseteq 1 .. Len(q)
  BY <1>1 DEF BulkIn
<1> QED
  BY <1>2, <1>3, FS_Subset, FS_CardinalityType

LEMMA BulkInAppend ==
    ASSUME NEW q \in Seq(Frames), NEW x \in Frames
    PROVE  Cardinality(BulkIn(Append(q, x))) =
             IF x[1] \in Bulk THEN Cardinality(BulkIn(q)) + 1 ELSE Cardinality(BulkIn(q))
<1> DEFINE n == Len(q) + 1
           r == Append(q, x)
<1>1. DOMAIN q = 1 .. Len(q) /\ Len(q) \in Nat
  BY LenProperties
<1>2. /\ r \in Seq(Frames) /\ Len(r) = n /\ \A i \in 1 .. Len(q) : r[i] = q[i]
      /\ r[n] = x
  BY AppendProperties
<1>3. DOMAIN r = 1 .. n
  BY <1>2, LenProperties
<1>4. 1 .. n = (1 .. Len(q)) \cup {n} /\ n \notin 1 .. Len(q)
  BY <1>1
<1> HIDE DEF n, r
<1>5. n \notin BulkIn(q)
  BY <1>1, <1>4 DEF BulkIn
<1>6. CASE x[1] \in Bulk
  <2>1. BulkIn(r) = BulkIn(q) \cup {n}
    BY <1>1, <1>2, <1>3, <1>4, <1>6 DEF BulkIn
  <2> QED
    BY <1>5, <1>6, <2>1, BulkInFinite, FS_AddElement DEF r
<1>7. CASE x[1] \notin Bulk
  <2>1. BulkIn(r) = BulkIn(q)
    BY <1>1, <1>2, <1>3, <1>4, <1>7 DEF BulkIn
  <2> QED
    BY <1>7, <2>1 DEF r
<1> QED
  BY <1>6, <1>7

LEMMA BulkInTail ==
    ASSUME NEW q \in Seq(Frames), q # <<>>
    PROVE  Cardinality(BulkIn(Tail(q))) <= Cardinality(BulkIn(q))
<1> DEFINE r == Tail(q)
           f == [i \in BulkIn(r) |-> i + 1]
<1>1. /\ r \in Seq(Frames) /\ Len(r) = Len(q) - 1 /\ \A i \in 1 .. Len(r) : r[i] = q[i + 1]
      /\ DOMAIN r = 1 .. Len(r) /\ DOMAIN q = 1 .. Len(q) /\ Len(q) \in Nat /\ Len(r) \in Nat
  BY HeadTailProperties, LenProperties
<1> HIDE DEF r
<1>2. ASSUME NEW i \in BulkIn(r) PROVE i \in Nat /\ i + 1 \in BulkIn(q)
  <2>1. i \in 1 .. Len(r) /\ r[i][1] \in Bulk
    BY <1>1 DEF BulkIn
  <2>2. i + 1 \in 1 .. Len(q) /\ r[i] = q[i + 1]
    BY <1>1, <2>1
  <2> QED
    BY <1>1, <2>1, <2>2 DEF BulkIn
<1>3. f \in [BulkIn(r) -> BulkIn(q)]
  BY <1>2
<1>4. \A i, j \in BulkIn(r) : f[i] = f[j] => i = j
  BY <1>2
<1>5. f \in Injection(BulkIn(r), BulkIn(q))
  BY <1>3, <1>4 DEF Injection, IsInjective
<1>6. Cardinality(BulkIn(r)) <= Cardinality(BulkIn(q))
  BY <1>5, BulkInFinite, FS_Injection
<1> QED
  BY <1>6 DEF r

LEMMA CheckedFinite ==
    /\ IsFiniteSet(BulkChecked) /\ Cardinality(BulkChecked) \in Nat
    /\ Cardinality(BulkChecked) <= Cardinality(Bulk)
<1>1. BulkChecked \subseteq Bulk
  BY DEF BulkChecked
<1> QED
  BY <1>1, ConstTypes, FS_Subset, FS_CardinalityType

LEMMA StepKeepsHeadroom ==
    ASSUME IInv, [Next]_vars
    PROVE  BulkBounded'
<1>0. \A p \in Procs : Sending(p) => Put(p)
  BY Puts
<1> DEFINE Sum == Cardinality(BulkIn(critCh)) + Cardinality(BulkChecked)
<1>1. /\ critCh \in Seq(Frames) /\ spc \in [Procs -> {"idle", "waiting", "checked", "queued"}]
      /\ Cardinality(BulkIn(critCh)) \in Nat /\ Cardinality(BulkChecked) \in Nat
      /\ Cardinality(BulkIn(critCh)) <= Len(critCh) /\ Len(critCh) \in Nat
      /\ Sum <= Headroom - 1 + Cardinality(Bulk)
  BY BulkInFinite, CheckedFinite, LenProperties DEF IInv, Values, BulkBounded
<1>2. ASSUME NEW p \in Procs, Sending(p) PROVE BulkBounded'
  <2> DEFINE x == <<p, nsent[p]>>
  <2>1. /\ x \in Frames /\ x[1] = p /\ critCh' = Append(critCh, x)
        /\ spc[p] = "checked" /\ spc' = [spc EXCEPT ![p] = "queued"]
    BY <1>0, <1>2 DEF Put
  <2> HIDE DEF x
  <2>2. CASE p \in Bulk
    <3>1. Cardinality(BulkIn(critCh')) = Cardinality(BulkIn(critCh)) + 1
      BY <1>1, <2>1, <2>2, BulkInAppend
    <3>2. p \in BulkChecked /\ BulkChecked' = BulkChecked \ {p}
      BY <1>1, <2>1, <2>2, ConstTypes DEF BulkChecked
    <3>3. Cardinality(BulkChecked') = Cardinality(BulkChecked) - 1
      BY <3>2, CheckedFinite, FS_RemoveElement
    <3> QED
      BY <1>1, <3>1, <3>3, ConstTypes DEF BulkBounded, BulkIn
  <2>3. CASE p \notin Bulk
    <3>1. Cardinality(BulkIn(critCh')) = Cardinality(BulkIn(critCh))
      BY <1>1, <2>1, <2>3, BulkInAppend
    <3>2. BulkChecked' = BulkChecked
      BY <1>1, <2>1, <2>3, ConstTypes DEF BulkChecked
    <3> QED
      BY <1>1, <3>1, <3>2 DEF BulkBounded, BulkIn
  <2> QED
    BY <2>2, <2>3
<1>3. ASSUME NEW p \in Procs, BulkCheck(p) PROVE BulkBounded'
  <2>1. critCh' = critCh /\ Len(critCh) < Headroom
    BY <1>3 DEF BulkCheck, HasHeadroom
  <2>2. BulkChecked' \subseteq Bulk
    BY DEF BulkChecked
  <2>3. Cardinality(BulkChecked') <= Cardinality(Bulk) /\ Cardinality(BulkChecked') \in Nat
    BY <2>2, ConstTypes, FS_Subset, FS_CardinalityType
  <2>4. Cardinality(BulkIn(critCh')) <= Headroom - 1
    BY <1>1, <2>1, ConstTypes
  <2>5. Cardinality(BulkIn(critCh')) \in Nat
    BY <1>1, <2>1
  <2> QED
    BY <2>3, <2>4, <2>5, ConstTypes DEF BulkBounded, BulkIn
<1>4. ASSUME NEW p \in Procs, (Waiting(p) /\ ~BulkCheck(p)) \/ Count(p) PROVE BulkBounded'
  <2>1. /\ critCh' = critCh
        /\ \E pc \in {"idle", "waiting", "checked"} :
             spc' = [spc EXCEPT ![p] = pc] /\ (p \in Bulk => pc # "checked")
    BY <1>4, ConstTypes DEF Waiting, Count, SendCheck, SendOverflow, BulkCall, BulkRefused,
                            BulkCanceled, BulkLostRace
  <2>2. BulkChecked' \subseteq BulkChecked
    BY <1>1, <2>1, ConstTypes DEF BulkChecked
  <2>3. Cardinality(BulkChecked') <= Cardinality(BulkChecked) /\ Cardinality(BulkChecked') \in Nat
    BY <2>2, CheckedFinite, FS_Subset, FS_CardinalityType
  <2> QED
    BY <1>1, <2>1, <2>3, ConstTypes DEF BulkBounded, BulkIn
<1>5. CASE Selecting
  <2>1. BulkChecked' = BulkChecked
    BY <1>5 DEF Selecting, FirstSelect, SecondSelect, sendVars, BulkChecked
  <2>2. critCh' = critCh \/ (critCh # <<>> /\ critCh' = Tail(critCh))
    BY <1>5 DEF Selecting, FirstSelect, SecondSelect, TakeCritical, TakeLive, TakeDone
  <2>3. /\ Cardinality(BulkIn(critCh')) <= Cardinality(BulkIn(critCh))
        /\ Cardinality(BulkIn(critCh')) \in Nat
    <3>1. critCh' \in Seq(Frames)
      BY <1>1, <2>2, HeadTailProperties
    <3>2. Cardinality(BulkIn(critCh')) \in Nat
      BY <3>1, BulkInFinite
    <3>3. CASE critCh' = critCh
      BY <1>1, <3>2, <3>3
    <3>4. CASE critCh # <<>> /\ critCh' = Tail(critCh)
      <4>1. Cardinality(BulkIn(Tail(critCh))) <= Cardinality(BulkIn(critCh))
        BY <1>1, <3>4, BulkInTail
      <4> QED
        BY <3>2, <3>4, <4>1
    <3> QED
      BY <2>2, <3>3, <3>4
  <2> QED
    BY <1>1, <2>1, <2>3, ConstTypes DEF BulkBounded, BulkIn
<1>6. CASE SendDroppable \/ WriteOk \/ WriteFail \/ Discount \/ LoopExit \/ Closing \/ Flushing
             \/ UNCHANGED vars
  <2>1. UNCHANGED <<critCh, spc>>
    BY <1>6 DEF SendDroppable, WriteOk, WriteFail, Discount, LoopExit, Closing, CloseOverflowed,
                CloseElsewhere, Flushing, FlushCall, FlushPoll, vars, sendVars
  <2> QED
    BY <1>1, <2>1 DEF BulkBounded, BulkIn, BulkChecked
<1> QED
  BY <1>2, <1>3, <1>4, <1>5, <1>6, NextSplits

----------------------------------------------------------------------------
\* The inductive invariant.
THEOREM ConnInvariance == Spec => []IInv
<1>1. Init => IInv
  BY InitInv
<1>2. IInv /\ [Next]_vars => IInv'
  <2> SUFFICES ASSUME IInv, [Next]_vars PROVE IInv'
    OBVIOUS
  <2>1. Flags' /\ Values' /\ Called' /\ Hand'
    BY StepKeepsFlags, StepKeepsValues, StepKeepsCalled, StepKeepsHand DEF IInv
  <2>2. PendingAccounting' /\ AcceptedInOrder' /\ Passed' /\ BulkBounded'
    BY StepKeepsPending, StepKeepsOrder, StepKeepsPassed, StepKeepsHeadroom
  <2> QED
    BY <2>1, <2>2 DEF IInv
<1> QED
  BY <1>1, <1>2, PTL DEF Spec

\* The types, the queues inside their capacities, and the counter Flush reads:
\* it is what is queued, written and not discounted, less what its sender has
\* not counted yet, whichever of sendLoop and the senders is ahead.
THEOREM CounterIsExact == Spec => []QueueSound
<1>1. IInv => QueueSound
  BY DEF IInv, Flags, Values, QueueSound, TypeOK
<1> QED
  BY <1>1, ConnInvariance, PTL

\* On an open connection every must-deliver frame is on the wire, in sendLoop's
\* hand or queued, in the order it was accepted, and waits for one live frame
\* at most.
THEOREM AcceptedStaysInOrder == Spec => []OrderKept
<1>1. IInv => OrderKept
  BY DEF IInv, OrderKept, Passed, OvertakenAtMostOnce
<1> QED
  BY <1>1, ConnInvariance, PTL

\* Bulk senders pass the headroom by one frame each at most, however many have
\* tested the depth before any of them queues.
THEOREM BulkKeepsToHeadroom == Spec => []BulkLeavesRoom
<1>1. IInv => BulkLeavesRoom
  <2> SUFFICES ASSUME IInv PROVE BulkLeavesRoom
    OBVIOUS
  <2>1. /\ Cardinality(BulkIn(critCh)) \in Nat /\ Cardinality(BulkChecked) \in Nat
        /\ BulkQueued = Cardinality(BulkIn(critCh))
    BY BulkInFinite, CheckedFinite DEF IInv, Values, BulkQueued, BulkIn
  <2> QED
    BY <2>1, ConstTypes DEF IInv, BulkBounded, BulkLeavesRoom
<1> QED
  BY <1>1, ConnInvariance, PTL

----------------------------------------------------------------------------
(***************************************************************************)
(* LayoutSync.  The stored tree names live panes only because SetTabLayout *)
(* prunes and places under one lock, and a pane is dropped from the tree   *)
(* with its destruction; a frame is never newer than the daemon's numbers. *)
(*                                                                         *)
(* Undisturbed follows a drag nobody disturbed: its write still flies, or  *)
(* it is stored and every frame that could undo it is one its client       *)
(* answers by keeping or resending its own tree.  Solvent counts what may  *)
(* still raise the revision: the writes in flight on the current one can   *)
(* succeed once between them, and every other write has an act to pay it.  *)
(***************************************************************************)

AllPanes == First \cup Later
Always == First \ Closable
Placers == Clients \cup {Daemon}

Trees == [edit : 0 .. MaxActs, at : UNION {[S -> Placers] : S \in SUBSET AllPanes}]
FrameSet == [rev : Nat, panes : SUBSET AllPanes, tree : Trees, lrev : Nat]
CastSet == [by : Builders, frame : FrameSet, todo : Seq(Clients) \ {<<>>}]
Tabs == [rev : Nat, tree : Trees, dirty : BOOLEAN, sent : Trees, resend : BOOLEAN,
         placed : SUBSET AllPanes, gone : SUBSET AllPanes, adopt : BOOLEAN]
Writes == [kind : {"layout"}, tree : Trees, base : Nat]
Closes == [kind : {"close"}, pane : Closable]
Messages == Writes \cup Closes \cup {Attach}

\* The frames on their way to a client, built and not applied yet.
FlyingIn(built, queued) ==
    {k.frame : k \in built} \cup
        UNION {{queued[c][i] : i \in DOMAIN queued[c]} : c \in Clients}
Flying == FlyingIn(casts, in)

DaemonTyped ==
    /\ panes \in SUBSET AllPanes /\ Always \subseteq panes
    /\ stored \in Trees /\ Ids(stored) \subseteq panes
    /\ lrev \in Nat \ {0} /\ rev \in Nat \ {0}
    /\ armed \in BOOLEAN /\ due \in SUBSET Builders
    /\ casts \in SUBSET CastSet
ClientsTyped ==
    /\ tab \in [Clients -> Tabs]
    /\ mark \in [Clients -> Nat]
    /\ closeRequested \in [Clients -> SUBSET Closable]
    /\ out \in [Clients -> SUBSET Messages]
    /\ in \in [Clients -> Seq(FrameSet)]
BoundsTyped ==
    /\ edits \in Nat /\ asks \in Nat /\ churn \in Nat /\ Acts <= MaxActs
    /\ lost \in BOOLEAN /\ unborn \in SUBSET Later
    /\ panes \cap unborn = {}
    /\ lastEdit \in [Clients -> 0 .. MaxActs]
    /\ wrote \in SUBSET Clients
    /\ seen \in [Clients -> Nat]
Typed == DaemonTyped /\ ClientsTyped /\ BoundsTyped

\* A frame is no newer than the daemon, and shows the panes that stay.
Past ==
    /\ \A f \in Flying : f.rev <= rev /\ f.lrev <= lrev /\ Always \subseteq f.panes
    /\ \A c \in Clients :
          /\ tab[c].rev <= lrev /\ mark[c] <= rev /\ seen[c] <= lrev
          /\ Ids(tab[c].tree) # {}

\* Frames are numbered in the order of the trees they carry.
Ordered ==
    /\ \A f, g \in Flying : f.rev < g.rev => f.lrev <= g.lrev
    /\ \A c \in Clients : \A f \in Flying :
          mark[c] # 0 /\ mark[c] < f.rev => seen[c] <= f.lrev

LayoutIInv == Typed /\ Past /\ Ordered

-----------------------------------------------------------------------------
(* The operators *)

LEMMA FirstPanes == First \subseteq AllPanes /\ Later \subseteq AllPanes
                    /\ Closable \subseteq AllPanes /\ Always \subseteq AllPanes
                    /\ Always # {} /\ Always \cap Closable = {} /\ Always \subseteq First
BY LayoutSyncAssumption DEF AllPanes, Always

\* A tree's map is a function from some panes to who placed them.
LEMMA TreeParts ==
    ASSUME NEW t \in Trees
    PROVE  /\ t.edit \in 0 .. MaxActs
           /\ Ids(t) \in SUBSET AllPanes
           /\ t.at \in [Ids(t) -> Placers]
           /\ t = [edit |-> t.edit, at |-> t.at]
BY DEF Trees, Ids

LEMMA TreeMade ==
    ASSUME NEW e \in 0 .. MaxActs, NEW S \in SUBSET AllPanes, NEW a \in [S -> Placers]
    PROVE  /\ [edit |-> e, at |-> a] \in Trees
           /\ Ids([edit |-> e, at |-> a]) = S
BY DEF Trees, Ids

LEMMA NoTreeTyped == NoTree \in Trees
<1>1. <<>> \in [{} -> Placers]
  <2>1. <<>> \in Seq(Placers) /\ Len(<<>>) = 0
    BY EmptySeq
  <2>2. <<>> \in [1 .. 0 -> Placers]
    BY <2>1, LenProperties
  <2>3. 1 .. 0 = {}
    OBVIOUS
  <2> QED  BY <2>2, <2>3
<1>2. \A a \in [{} -> Placers] : [edit |-> 0, at |-> a] \in Trees
  <2>1. 0 \in 0 .. MaxActs /\ {} \in SUBSET AllPanes
    BY LayoutSyncAssumption
  <2> QED  BY <2>1 DEF Trees
<1> QED  BY <1>1, <1>2, Zenon DEF NoTree

LEMMA FirstTreeTyped == FirstTree \in Trees /\ Ids(FirstTree) = First
<1>1. [p \in First |-> Daemon] \in [First -> Placers]
  BY DEF Placers
<1> QED  BY <1>1, TreeMade, FirstPanes, LayoutSyncAssumption DEF FirstTree

LEMMA KeepingTree ==
    ASSUME NEW t \in Trees, NEW S
    PROVE  /\ Keeping(t, S) \in Trees
           /\ Ids(Keeping(t, S)) = Ids(t) \cap S
           /\ Keeping(t, S).edit = t.edit
           /\ \A p \in Ids(t) \cap S : Keeping(t, S).at[p] = t.at[p]
<1> DEFINE a == [p \in Ids(t) \cap S |-> t.at[p]]
<1>1. Keeping(t, S) = [edit |-> t.edit, at |-> a]
  BY TreeParts DEF Keeping, Restrict
<1>2. a \in [Ids(t) \cap S -> Placers] /\ Ids(t) \cap S \in SUBSET AllPanes
  BY TreeParts
<1> QED  BY <1>1, <1>2, TreeParts, TreeMade

LEMMA PlacingTree ==
    ASSUME NEW t \in Trees, NEW S \in SUBSET AllPanes, NEW who \in Placers
    PROVE  /\ Placing(t, S, who) \in Trees
           /\ Ids(Placing(t, S, who)) = Ids(t) \cup S
           /\ Placing(t, S, who).edit = t.edit
<1> DEFINE a == [p \in Ids(t) \cup S |-> IF p \in Ids(t) THEN t.at[p] ELSE who]
<1>1. Placing(t, S, who) = [edit |-> t.edit, at |-> a]
  BY TreeParts DEF Placing
<1>2. a \in [Ids(t) \cup S -> Placers] /\ Ids(t) \cup S \in SUBSET AllPanes
  BY TreeParts
<1> QED  BY <1>1, <1>2, TreeParts, TreeMade

LEMMA PlacingKeeps ==
    ASSUME NEW t \in Trees, NEW S \in SUBSET AllPanes, NEW who \in Placers,
           NEW p \in Ids(t)
    PROVE  Placing(t, S, who).at[p] = t.at[p]
BY TreeParts DEF Placing

\* The connection list holds every client.
LEMMA ClientList == SetToSeq(Clients) \in Seq(Clients) \ {<<>>}
<1> DEFINE n == Cardinality(Clients)
<1>1. n \in Nat /\ ExistsBijection(1 .. n, Clients)
  BY FS_CardinalityType, LayoutSyncAssumption
<1>2. n # 0
  BY FS_EmptySet, LayoutSyncAssumption
<1>3. PICK f : f \in Bijection(1 .. n, Clients)
  BY <1>1 DEF ExistsBijection
<1>4. f \in [1 .. n -> Clients] /\ IsInjective(f)
  BY <1>3 DEF Bijection, Injection, IsInjective
<1>5. SetToSeq(Clients) \in [1 .. n -> Clients]
  BY <1>4 DEF SetToSeq
<1>6. SetToSeq(Clients) \in Seq(Clients)
  BY <1>1, <1>5
<1>7. Len(SetToSeq(Clients)) = n
  BY <1>1, <1>5, <1>6
<1> QED  BY <1>2, <1>6, <1>7

LEMMA LeastOf ==
    ASSUME NEW I \in SUBSET Nat, I # {}
    PROVE  \E m \in I : \A k \in I : m <= k
<1>1. PICK m \in I : \A k \in I : <<k, m>> \notin OpToRel(<, Nat)
  BY WFMin, NatLessThanWellFounded
<1>2. \A k \in I : ~(k < m)
  BY <1>1 DEF OpToRel
<1> QED  BY <1>2

\* Leaving a client out of what a broadcast still has to queue.
LEMMA LeftOut ==
    ASSUME NEW s \in Seq(Clients), NEW c
    PROVE  RemoveFirst(s, c) \in Seq(Clients)
<1>1. CASE ~\E i \in 1 .. Len(s) : s[i] = c
  BY <1>1 DEF RemoveFirst
<1>2. CASE \E i \in 1 .. Len(s) : s[i] = c
  <2> DEFINE I == {i \in 1 .. Len(s) : s[i] = c}
             n == SelectInSeq(s, LAMBDA v : v = c)
  <2>1. I \in SUBSET Nat /\ I # {}
    BY <1>2
  <2>2. PICK m \in I : \A k \in I : m <= k
    BY <2>1, LeastOf
  <2>3. n \in I
    BY <2>1, <2>2 DEF SelectInSeq, Min
  <2>4. n \in 1 .. Len(s)
    BY <2>3
  <2>5. SubSeq(s, 1, n - 1) \in Seq(Clients) /\ SubSeq(s, n + 1, Len(s)) \in Seq(Clients)
    <3>1. \A i \in 1 .. n - 1 : s[i] \in Clients
      BY <2>4
    <3>2. \A i \in n + 1 .. Len(s) : s[i] \in Clients
      BY <2>4
    <3>3. n \in Int /\ Len(s) \in Int
      BY <2>4
    <3> HIDE DEF n
    <3> QED  BY <3>1, <3>2, <3>3, SubSeqProperties
  <2>6. RemoveFirst(s, c) = SubSeq(s, 1, n - 1) \o SubSeq(s, n + 1, Len(s))
    BY <1>2 DEF RemoveFirst, RemoveAt
  <2> QED  BY <2>5, <2>6, ConcatProperties
<1> QED  BY <1>1, <1>2

-----------------------------------------------------------------------------
(* What becomes of a tab *)

\* markLayoutChanged leaves the tree and the revision alone.
LEMMA MarkedParts ==
    ASSUME NEW t \in Tabs
    PROVE  /\ Marked(t) \in Tabs
           /\ Marked(t).rev = t.rev /\ Marked(t).tree = t.tree
           /\ Marked(t).dirty = TRUE /\ Marked(t).adopt = t.adopt
           /\ Marked(t).sent = IF t.dirty THEN t.sent ELSE t.tree
           /\ Marked(t).resend = t.dirty
           /\ Marked(t).placed \subseteq t.placed /\ Marked(t).gone \subseteq t.gone
BY DEF Marked, Tabs

LEMMA SentTyped ==
    ASSUME NEW t \in Tabs
    PROVE  Sent(t) \in SUBSET Writes
BY DEF Sent, Tabs, Writes, Write

\* What a newer frame settles.
LEMMA NotedParts ==
    ASSUME NEW t \in Tabs, NEW f \in FrameSet
    PROVE  /\ Noted(t, f) \in Tabs
           /\ Noted(t, f).tree = t.tree
           /\ Newer(t, f) =>
                 /\ Noted(t, f).rev = f.lrev /\ Noted(t, f).dirty = FALSE
                 /\ Noted(t, f).resend = FALSE /\ Noted(t, f).adopt = FALSE
           /\ ~Newer(t, f) => Noted(t, f) = t
<1>1. CASE Newer(t, f)
  BY <1>1, NoTreeTyped DEF Noted, Tabs, FrameSet
<1>2. CASE ~Newer(t, f)
  BY <1>2 DEF Noted
<1> QED  BY <1>1, <1>2

LEMMA SyncedParts ==
    ASSUME NEW t \in Tabs, NEW f \in FrameSet, NEW asked
    PROVE  /\ Synced(t, f, asked) \in Tabs
           /\ Held(t, f) => Synced(t, f, asked) = t
           /\ Newer(t, f) =>
                 /\ Synced(t, f, asked).rev = f.lrev
                 /\ Synced(t, f, asked).dirty = FALSE
                 /\ Synced(t, f, asked).resend = FALSE
                 /\ Synced(t, f, asked).adopt = FALSE
           /\ ~Newer(t, f) =>
                 /\ Synced(t, f, asked).rev = t.rev
                 /\ Synced(t, f, asked).dirty = t.dirty
                 /\ Synced(t, f, asked).sent = t.sent
                 /\ Synced(t, f, asked).resend = t.resend
                 /\ Synced(t, f, asked).adopt = t.adopt
           /\ Synced(t, f, asked).tree =
                 IF Adopts(t, f) THEN Keeping(f.tree, f.panes) ELSE t.tree
           /\ Synced(t, f, asked).placed \in {{}, t.placed}
           /\ ~Held(t, f) => Synced(t, f, asked).placed = {}
           /\ ~Held(t, f) =>
                 Synced(t, f, asked).gone =
                    IF Adopts(t, f) THEN (Ids(f.tree) \ f.panes) \ asked ELSE {}
<1> DEFINE n == Noted(t, f)
<1>1. /\ n \in Tabs /\ n.tree = t.tree
      /\ Newer(t, f) => n.rev = f.lrev /\ n.dirty = FALSE /\ n.resend = FALSE /\ n.adopt = FALSE
      /\ ~Newer(t, f) => n = t
  BY NotedParts
<1>2. f.tree \in Trees /\ Keeping(f.tree, f.panes) \in Trees /\ Ids(f.tree) \subseteq AllPanes
  BY KeepingTree, TreeParts DEF FrameSet
<1>3. CASE Held(t, f)
  <2>1. Synced(t, f, asked) = t /\ ~Newer(t, f) /\ ~Adopts(t, f)
    BY <1>3 DEF Synced, Held, Adopts
  <2> QED  BY <2>1, <1>3
<1>4. CASE ~Held(t, f) /\ Adopts(t, f)
  <2>1. Synced(t, f, asked) = [n EXCEPT !.tree = Keeping(f.tree, f.panes),
                                        !.placed = {}, !.gone = (Ids(f.tree) \ f.panes) \ asked]
    BY <1>4 DEF Synced
  <2>2. (Ids(f.tree) \ f.panes) \ asked \in SUBSET AllPanes
    BY <1>2
  <2> HIDE DEF n
  <2> QED  BY <2>1, <2>2, <1>1, <1>2, <1>4 DEF Tabs, Adopts
<1>5. CASE ~Held(t, f) /\ ~Adopts(t, f)
  <2>1. Synced(t, f, asked) = [n EXCEPT !.placed = {}, !.gone = {}]
    BY <1>5 DEF Synced
  <2> HIDE DEF n
  <2> QED  BY <2>1, <1>1, <1>5 DEF Tabs
<1> QED  BY <1>3, <1>4, <1>5

LEMMA SyncedNewer ==
    ASSUME NEW t \in Tabs, NEW f \in FrameSet, NEW asked, Newer(t, f)
    PROVE  /\ Synced(t, f, asked).rev = f.lrev
           /\ Synced(t, f, asked).dirty = FALSE
           /\ Synced(t, f, asked).resend = FALSE
           /\ Synced(t, f, asked).adopt = FALSE
BY SyncedParts, Zenon

LEMMA SyncedOlder ==
    ASSUME NEW t \in Tabs, NEW f \in FrameSet, NEW asked, ~Newer(t, f)
    PROVE  /\ Synced(t, f, asked).rev = t.rev
           /\ Synced(t, f, asked).dirty = t.dirty
           /\ Synced(t, f, asked).sent = t.sent
           /\ Synced(t, f, asked).resend = t.resend
           /\ Synced(t, f, asked).adopt = t.adopt
BY SyncedParts, Zenon

LEMMA SyncedRev ==
    ASSUME NEW t \in Tabs, NEW f \in FrameSet, NEW asked
    PROVE  /\ Synced(t, f, asked) \in Tabs
           /\ Synced(t, f, asked).rev \in {t.rev, f.lrev}
BY SyncedParts

\* After the reconcile loops a tab shows exactly the frame's panes.
LEMMA ReconciledParts ==
    ASSUME NEW t \in Tabs, NEW f \in FrameSet, NEW asked, NEW c \in Clients
    PROVE  /\ Reconciled(c, t, f, asked) \in Tabs
           /\ Reconciled(c, t, f, asked).rev = t.rev
           /\ Reconciled(c, t, f, asked).dirty = t.dirty
           /\ Reconciled(c, t, f, asked).sent = t.sent
           /\ Reconciled(c, t, f, asked).resend = t.resend
           /\ Reconciled(c, t, f, asked).adopt = t.adopt
           /\ Ids(Reconciled(c, t, f, asked).tree) = f.panes
           /\ Reconciled(c, t, f, asked).tree.edit = t.tree.edit
           /\ \A p \in Ids(t.tree) \cap f.panes :
                 Reconciled(c, t, f, asked).tree.at[p] = t.tree.at[p]
           /\ Reconciled(c, t, f, asked).placed = t.placed \cup Arrived(t, f)
           /\ Reconciled(c, t, f, asked).gone = t.gone \cup (Pruned(t, f) \ asked)
<1> DEFINE k == Keeping(t.tree, f.panes)
           new == Placing(k, Arrived(t, f), c)
<1>1. t.tree \in Trees /\ Ids(t.tree) \subseteq AllPanes /\ f.panes \in SUBSET AllPanes
  BY TreeParts DEF Tabs, FrameSet
<1>2. /\ k \in Trees /\ Ids(k) = Ids(t.tree) \cap f.panes /\ k.edit = t.tree.edit
      /\ \A p \in Ids(t.tree) \cap f.panes : k.at[p] = t.tree.at[p]
  BY <1>1, KeepingTree
<1>3. Arrived(t, f) \in SUBSET AllPanes /\ Pruned(t, f) \in SUBSET AllPanes
  BY <1>1 DEF Arrived, Pruned
<1>4. c \in Placers
  BY DEF Placers
<1> HIDE DEF k
<1>5. /\ new \in Trees /\ Ids(new) = Ids(k) \cup Arrived(t, f) /\ new.edit = k.edit
  BY <1>2, <1>3, <1>4, PlacingTree
<1>5a. \A p \in Ids(k) : new.at[p] = k.at[p]
  BY <1>2, <1>3, <1>4, PlacingKeeps
<1>6. Reconciled(c, t, f, asked) =
         [t EXCEPT !.tree = new, !.gone = @ \cup (Pruned(t, f) \ asked),
                   !.placed = @ \cup Arrived(t, f)]
  <2>1. Reconciled(c, t, f, asked) =
           [t EXCEPT !.tree = Placing(Keeping(t.tree, f.panes), Arrived(t, f), c),
                     !.gone = t.gone \cup (Pruned(t, f) \ asked),
                     !.placed = t.placed \cup Arrived(t, f)]
    BY DEF Reconciled, Tabs
  <2> QED  BY <2>1, Zenon DEF k
<1> HIDE DEF new
<1>7. Ids(new) = f.panes
  BY <1>2, <1>5 DEF Arrived
<1>8. \A p \in Ids(t.tree) \cap f.panes : new.at[p] = t.tree.at[p]
  BY <1>2, <1>5a
<1> DEFINE r == Reconciled(c, t, f, asked)
<1>9. r.placed = t.placed \cup Arrived(t, f) /\ r.gone = t.gone \cup (Pruned(t, f) \ asked)
  BY <1>6 DEF Tabs
<1>10. r.tree = new /\ r.rev = t.rev /\ r.dirty = t.dirty /\ r.sent = t.sent
       /\ r.resend = t.resend /\ r.adopt = t.adopt
  BY <1>6 DEF Tabs
<1>11. r \in Tabs
  <2>1. t.placed \cup Arrived(t, f) \in SUBSET AllPanes
    BY <1>3 DEF Tabs
  <2>2. t.gone \cup (Pruned(t, f) \ asked) \in SUBSET AllPanes
    BY <1>3 DEF Tabs
  <2> QED  BY <1>5, <1>6, <2>1, <2>2 DEF Tabs
<1> HIDE DEF r
<1>12. Ids(r.tree) = f.panes /\ r.tree.edit = t.tree.edit
       /\ \A p \in Ids(t.tree) \cap f.panes : r.tree.at[p] = t.tree.at[p]
  BY <1>2, <1>5, <1>7, <1>8, <1>10
<1> QED  BY <1>9, <1>10, <1>11, <1>12 DEF r

LEMMA ReconciledPlaced ==
    ASSUME NEW t \in Tabs, NEW f \in FrameSet, NEW asked, NEW c \in Clients
    PROVE  Reconciled(c, t, f, asked).placed = t.placed \cup Arrived(t, f)
BY ReconciledParts

LEMMA ReconciledGone ==
    ASSUME NEW t \in Tabs, NEW f \in FrameSet, NEW asked, NEW c \in Clients
    PROVE  Reconciled(c, t, f, asked).gone = t.gone \cup (Pruned(t, f) \ asked)
BY ReconciledParts

LEMMA ReconciledFlags ==
    ASSUME NEW t \in Tabs, NEW f \in FrameSet, NEW asked, NEW c \in Clients
    PROVE  /\ Reconciled(c, t, f, asked) \in Tabs
           /\ Reconciled(c, t, f, asked).rev = t.rev
           /\ Reconciled(c, t, f, asked).dirty = t.dirty
           /\ Reconciled(c, t, f, asked).sent = t.sent
           /\ Reconciled(c, t, f, asked).resend = t.resend
           /\ Reconciled(c, t, f, asked).adopt = t.adopt
BY ReconciledParts

-----------------------------------------------------------------------------
(* Types *)

LEMMA FrameTyped ==
    ASSUME DaemonTyped
    PROVE  Frame \in FrameSet
BY DEF DaemonTyped, Frame, FrameSet

LEMMA ValidTree ==
    ASSUME NEW t \in Trees, panes \in SUBSET AllPanes
    PROVE  Valid(t) \in Trees /\ Ids(Valid(t)) = panes
<1>1. Keeping(t, panes) \in Trees /\ Ids(Keeping(t, panes)) = Ids(t) \cap panes
  BY KeepingTree
<1>2. Daemon \in Placers
  BY DEF Placers
<1> QED  BY <1>1, <1>2, PlacingTree DEF Valid

LEMMA CastMade ==
    ASSUME DaemonTyped, NEW b \in Builders, NEW s \in Seq(Clients) \ {<<>>}
    PROVE  [by |-> b, frame |-> Frame, todo |-> s] \in CastSet
BY FrameTyped DEF CastSet

LEMMA CastLeft ==
    ASSUME NEW k \in CastSet, NEW s \in Seq(Clients)
    PROVE  /\ [k EXCEPT !.todo = s].frame = k.frame
           /\ [k EXCEPT !.todo = s].todo = s
           /\ s # <<>> => [k EXCEPT !.todo = s] \in CastSet
BY DEF CastSet

LEMMA BuildTyped ==
    ASSUME DaemonTyped, NEW b \in Builders, NEW s \in Seq(Clients) \ {<<>>}, Build(b, s)
    PROVE  rev' \in Nat \ {0} /\ casts' \in SUBSET CastSet
BY CastMade DEF Build, DaemonTyped

LEMMA QueueTyped ==
    ASSUME DaemonTyped, ClientsTyped, NEW k \in casts, Queue(k)
    PROVE  /\ casts' \in SUBSET CastSet
           /\ in' \in [Clients -> Seq(FrameSet)]
           /\ Head(k.todo) \in Clients
           /\ in' = [in EXCEPT ![Head(k.todo)] = Append(in[Head(k.todo)], k.frame)]
           /\ \A j \in casts' : \E i \in casts : j.frame = i.frame
<1>1. k \in CastSet /\ k.frame \in FrameSet /\ k.todo \in Seq(Clients) \ {<<>>}
  BY DEF DaemonTyped, CastSet
<1>2. Head(k.todo) \in Clients /\ Tail(k.todo) \in Seq(Clients)
  BY <1>1, HeadTailProperties
<1>3. in' = [in EXCEPT ![Head(k.todo)] = Append(in[Head(k.todo)], k.frame)]
  BY <1>2 DEF Queue, ClientsTyped
<1>4. in[Head(k.todo)] \in Seq(FrameSet)
  BY <1>2 DEF ClientsTyped
<1>5. Append(in[Head(k.todo)], k.frame) \in Seq(FrameSet)
  BY <1>1, <1>4, AppendProperties
<1>6. in' \in [Clients -> Seq(FrameSet)]
  BY <1>3, <1>5 DEF ClientsTyped
<1> DEFINE n == [k EXCEPT !.todo = Tail(k.todo)]
<1>7. n.frame = k.frame /\ n.todo = Tail(k.todo) /\ (Tail(k.todo) # <<>> => n \in CastSet)
  BY <1>1, <1>2, CastLeft
<1>8. casts' = (casts \ {k}) \cup {j \in {n} : j.todo # <<>>}
  BY DEF Queue
<1> HIDE DEF n
<1>9. \A j \in casts' : j \in casts \/ (j = n /\ n.todo # <<>>)
  BY <1>8
<1>10. casts' \in SUBSET CastSet
  BY <1>7, <1>9 DEF DaemonTyped
<1>11. \A j \in casts' : \E i \in casts : j.frame = i.frame
  BY <1>7, <1>9
<1> QED  BY <1>2, <1>3, <1>6, <1>10, <1>11

LEMMA ReconnectTyped ==
    ASSUME DaemonTyped, NEW c \in Clients, Reconnect(c)
    PROVE  /\ casts' \in SUBSET CastSet
           /\ \A j \in casts' : \E i \in casts : j.frame = i.frame
<1>1. ASSUME NEW j \in casts'
      PROVE  j \in CastSet /\ \E i \in casts : j.frame = i.frame
  <2>1. PICK k \in casts : j = [k EXCEPT !.todo = RemoveFirst(k.todo, c)] /\ j.todo # <<>>
    BY DEF Reconnect
  <2>2. k \in CastSet /\ k.todo \in Seq(Clients)
    BY DEF DaemonTyped, CastSet
  <2>3. RemoveFirst(k.todo, c) \in Seq(Clients)
    BY <2>2, LeftOut
  <2> QED  BY <2>1, <2>2, <2>3, CastLeft
<1> QED  BY <1>1

LEMMA DaemonSteps ==
    ASSUME Typed, [LayoutNext]_layoutVars
    PROVE  DaemonTyped'
<1> USE DEF Typed
<1>t. /\ panes \in SUBSET AllPanes /\ Always \subseteq panes
      /\ stored \in Trees /\ Ids(stored) \subseteq panes
      /\ lrev \in Nat \ {0} /\ rev \in Nat \ {0}
      /\ armed \in BOOLEAN /\ due \in SUBSET Builders
      /\ casts \in SUBSET CastSet
  BY DEF DaemonTyped
<1>0. CASE UNCHANGED <<panes, stored, lrev, rev, armed, due, casts>>
  BY <1>0 DEF DaemonTyped
<1>1. CASE \E p \in Later : Create(p)
  <2>1. PICK p \in Later : Create(p)
    BY <1>1
  <2>2. panes' \in SUBSET AllPanes
    BY <2>1, <1>t, FirstPanes DEF Create
  <2>3. Script \in Builders
    BY DEF Builders
  <2>4. /\ Always \subseteq panes' /\ Ids(stored') \subseteq panes' /\ stored' \in Trees
        /\ due' \in SUBSET Builders
    BY <2>1, <2>3, <1>t DEF Create
  <2> QED  BY <2>1, <2>2, <2>4, <1>t DEF Create, DaemonTyped
<1>2. ASSUME NEW c \in Clients, NEW m \in out[c], HandleUpdateLayout(c, m)
      PROVE  DaemonTyped'
  <2>1. m \in Writes
    BY <1>2 DEF HandleUpdateLayout, Delivered, ClientsTyped, Messages, Closes, Attach
  <2>2. m.tree \in Trees
    BY <2>1 DEF Writes
  <2>3. Valid(m.tree) \in Trees /\ Ids(Valid(m.tree)) = panes
    BY <2>2, <1>t, ValidTree
  <2>4. /\ UNCHANGED <<panes, rev, due, casts>>
        /\ \/ stored' = Valid(m.tree) /\ lrev' = lrev + 1 /\ armed' = TRUE
           \/ UNCHANGED <<stored, lrev, armed>>
    BY <1>2, Zenon DEF HandleUpdateLayout, RequestBroadcast
  <2>5. Ids(stored') \subseteq panes /\ stored' \in Trees
    <3>1. stored' = Valid(m.tree) \/ stored' = stored
      BY <2>4
    <3> QED  BY <2>3, <3>1, <1>t
  <2>6. lrev' = lrev + 1 \/ lrev' = lrev
    BY <2>4
  <2>7. armed' \in BOOLEAN
    <3>1. armed' = TRUE \/ armed' = armed
      BY <2>4
    <3> QED  BY <3>1, <1>t
  <2>8. lrev' \in Nat \ {0}
    BY <2>6, <1>t
  <2> QED  BY <2>4, <2>5, <2>7, <2>8, <1>t DEF DaemonTyped
<1>3. ASSUME NEW c \in Clients, NEW m \in out[c], HandleDestroyPane(c, m)
      PROVE  DaemonTyped'
  <2>1. m \in Closes
    BY <1>3 DEF HandleDestroyPane, Delivered, ClientsTyped, Messages, Writes, Attach
  <2>2. m.pane \in Closable
    BY <2>1 DEF Closes
  <2>3. panes' = panes \ {m.pane} /\ Always \subseteq panes'
    BY <1>3, <2>2, <1>t, FirstPanes DEF HandleDestroyPane
  <2>4. stored' \in Trees /\ Ids(stored') = Ids(stored) \cap panes'
    BY <1>3, <1>t, KeepingTree DEF HandleDestroyPane
  <2>5. c \in Builders
    BY DEF Builders
  <2>6. due' \in SUBSET Builders /\ lrev' \in Nat \ {0}
    BY <1>3, <2>5, <1>t DEF HandleDestroyPane
  <2>7. panes' \in SUBSET AllPanes /\ Ids(stored') \subseteq panes'
    BY <2>3, <2>4, <1>t
  <2> QED  BY <1>3, <2>3, <2>4, <2>6, <2>7, <1>t DEF HandleDestroyPane, DaemonTyped
<1>4. ASSUME NEW b \in Builders, BroadcastState(b)
      PROVE  DaemonTyped'
  BY <1>4, <1>t, BuildTyped, ClientList DEF BroadcastState, daemonVars, DaemonTyped
<1>5. ASSUME NEW c \in Clients, HandleAttach(c)
      PROVE  DaemonTyped'
  <2>1. c \in Builders /\ <<c>> \in Seq(Clients) /\ <<c>> # <<>>
    BY DEF Builders
  <2> QED  BY <1>5, <1>t, <2>1, BuildTyped DEF HandleAttach, daemonVars, DaemonTyped
<1>6. CASE FireCoalesced
  <2>1. Timer \in Builders
    BY DEF Builders
  <2> QED  BY <1>6, <2>1, <1>t DEF FireCoalesced, daemonVars, DaemonTyped
<1>7. ASSUME NEW k \in casts, Queue(k)
      PROVE  DaemonTyped'
  BY <1>7, <1>t, QueueTyped DEF Queue, daemonVars, DaemonTyped
<1>8. ASSUME NEW c \in Clients, Reconnect(c)
      PROVE  DaemonTyped'
  BY <1>8, <1>t, ReconnectTyped DEF Reconnect, daemonVars, DaemonTyped
<1>9. ASSUME NEW c \in Clients,
             Edit(c) \/ Receive(c) \/ \E p \in Closable : ConfirmClose(c, p)
      PROVE  DaemonTyped'
  BY <1>9, <1>0 DEF Edit, Receive, ConfirmClose, daemonVars, castVars
<1>10. CASE UNCHANGED layoutVars
  BY <1>10, <1>0 DEF layoutVars, daemonVars, castVars
<1> QED  BY <1>1, <1>2, <1>3, <1>4, <1>5, <1>6, <1>7, <1>8, <1>9, <1>10
         DEF LayoutNext, Dispatching

\* What a client makes of the frame at the head of its connection.
LEMMA ReceiveParts ==
    ASSUME ClientsTyped, NEW c \in Clients, Receive(c)
    PROVE  /\ in[c] # <<>> /\ Head(in[c]) \in FrameSet /\ Tail(in[c]) \in Seq(FrameSet)
           /\ in' = [in EXCEPT ![c] = Tail(in[c])]
           /\ \/ UNCHANGED <<mark, seen, closeRequested, tab, out>>
              \/ \E t \in Tabs :
                    /\ AcceptStateRev(c, Head(in[c]))
                    /\ t = Reconciled(c, Synced(tab[c], Head(in[c]), closeRequested[c]),
                                      Head(in[c]), closeRequested[c])
                    /\ mark' = [mark EXCEPT ![c] = Head(in[c]).rev]
                    /\ seen' = [seen EXCEPT ![c] = Head(in[c]).lrev]
                    /\ closeRequested' \in [Clients -> SUBSET Closable]
                    /\ \/ tab' = [tab EXCEPT ![c] = t] /\ out' = out
                       \/ /\ tab' = [tab EXCEPT ![c] = Marked(t)]
                          /\ out' = [out EXCEPT ![c] = out[c] \cup Sent(t)]
                          /\ \/ SyncSends(tab[c], Head(in[c]), closeRequested[c])
                             \/ Pruned(Synced(tab[c], Head(in[c]), closeRequested[c]), Head(in[c]))
                                  \cap closeRequested[c] # {}
<1> DEFINE f == Head(in[c])
           asked == closeRequested[c]
           s == Synced(tab[c], f, asked)
           t == Reconciled(c, s, f, asked)
<1>1. in[c] \in Seq(FrameSet) /\ in[c] # <<>> /\ in' = [in EXCEPT ![c] = Tail(in[c])]
  BY DEF Receive, ClientsTyped
<1>2. f \in FrameSet /\ Tail(in[c]) \in Seq(FrameSet)
  BY <1>1, HeadTailProperties
<1>3. tab[c] \in Tabs /\ asked \in SUBSET Closable
  BY DEF ClientsTyped
<1>4. s \in Tabs
  BY <1>2, <1>3, SyncedParts
<1>5. t \in Tabs
  BY <1>2, <1>4, ReconciledParts
<1>6. CASE ~AcceptStateRev(c, f)
  BY <1>1, <1>2, <1>6 DEF Receive
<1>7. CASE AcceptStateRev(c, f)
  <2> DEFINE removed == Pruned(s, f) \cup
                 (IF Adopts(tab[c], f) THEN Ids(f.tree) \ f.panes ELSE {})
  <2>1. /\ mark' = [mark EXCEPT ![c] = f.rev]
        /\ seen' = [seen EXCEPT ![c] = f.lrev]
        /\ closeRequested' = [closeRequested EXCEPT ![c] = @ \ removed]
        /\ IF SyncSends(tab[c], f, asked) \/ Pruned(s, f) \cap asked # {}
           THEN MarkLayoutChanged(c, t)
           ELSE tab' = [tab EXCEPT ![c] = t] /\ out' = out
    BY <1>7 DEF Receive
  <2>2. closeRequested' \in [Clients -> SUBSET Closable]
    BY <2>1, <1>3 DEF ClientsTyped
  <2>3. MarkLayoutChanged(c, t) => /\ tab' = [tab EXCEPT ![c] = Marked(t)]
                                   /\ out' = [out EXCEPT ![c] = out[c] \cup Sent(t)]
    BY DEF MarkLayoutChanged, ClientsTyped
  <2> HIDE DEF t, s, removed
  <2>4. \/ tab' = [tab EXCEPT ![c] = t] /\ out' = out
        \/ /\ tab' = [tab EXCEPT ![c] = Marked(t)]
           /\ out' = [out EXCEPT ![c] = out[c] \cup Sent(t)]
           /\ SyncSends(tab[c], f, asked) \/ Pruned(s, f) \cap asked # {}
    BY <2>1, <2>3
  <2> QED  BY <1>1, <1>2, <1>5, <1>7, <2>1, <2>2, <2>4 DEF t, s
<1> QED  BY <1>6, <1>7

\* The tab a drag leaves, before it is marked.
LEMMA DraggedTab ==
    ASSUME ClientsTyped, BoundsTyped, NEW c \in Clients, Edit(c)
    PROVE  \E t \in Tabs :
              /\ t = [tab[c] EXCEPT !.tree.edit = edits + 1]
              /\ t.rev = tab[c].rev /\ t.dirty = tab[c].dirty /\ t.sent = tab[c].sent
              /\ t.adopt = tab[c].adopt /\ t.resend = tab[c].resend
              /\ t.placed = tab[c].placed /\ t.gone = tab[c].gone
              /\ t.tree.edit = edits + 1 /\ t.tree.at = tab[c].tree.at
              /\ tab' = [tab EXCEPT ![c] = Marked(t)]
              /\ out' = [out EXCEPT ![c] = out[c] \cup Sent(t)]
              /\ edits' = edits + 1 /\ lastEdit' = [lastEdit EXCEPT ![c] = edits + 1]
<1> DEFINE u == tab[c]
           t == [u EXCEPT !.tree.edit = edits + 1]
<1>1. u \in Tabs /\ u.tree \in Trees
  BY DEF ClientsTyped, Tabs
<1>2. edits + 1 \in 0 .. MaxActs
  BY LayoutSyncAssumption DEF Edit, BoundsTyped, Acts
<1>3. [u.tree EXCEPT !.edit = edits + 1] \in Trees
  <2>1. [u.tree EXCEPT !.edit = edits + 1] = [edit |-> edits + 1, at |-> u.tree.at]
    BY <1>1 DEF Trees
  <2> QED  BY <2>1, <1>1, <1>2, TreeParts, TreeMade
<1>4. /\ tab' = [tab EXCEPT ![c] = Marked(t)]
      /\ out' = [out EXCEPT ![c] = out[c] \cup Sent(t)]
      /\ edits' = edits + 1 /\ lastEdit' = [lastEdit EXCEPT ![c] = edits + 1]
  BY DEF Edit, MarkLayoutChanged, ClientsTyped
<1>5. t = [u EXCEPT !.tree = [u.tree EXCEPT !.edit = edits + 1]]
  BY <1>1 DEF Tabs
<1> HIDE DEF u
<1>6. /\ t \in Tabs
      /\ t.rev = u.rev /\ t.dirty = u.dirty /\ t.sent = u.sent
      /\ t.adopt = u.adopt /\ t.resend = u.resend /\ t.placed = u.placed /\ t.gone = u.gone
  BY <1>1, <1>3, <1>5 DEF Tabs
<1>7. t.tree = [u.tree EXCEPT !.edit = edits + 1]
  BY <1>1, <1>5 DEF Tabs
<1>8. t.tree.edit = edits + 1 /\ t.tree.at = u.tree.at
  BY <1>1, <1>7 DEF Trees
<1> HIDE DEF t
<1> QED  BY <1>4, <1>6, <1>8 DEF t, u

LEMMA ResetTab ==
    ASSUME ClientsTyped, NEW c \in Clients, Reconnect(c)
    PROVE  \E t \in Tabs :
              /\ tab' = [tab EXCEPT ![c] = t]
              /\ t.rev = 0 /\ t.tree = tab[c].tree /\ t.adopt = TRUE /\ t.dirty = FALSE
              /\ t.resend = FALSE
              /\ mark' = [mark EXCEPT ![c] = 0]
              /\ closeRequested' = [closeRequested EXCEPT ![c] = {}]
              /\ in' = [in EXCEPT ![c] = <<>>]
              /\ out' = [out EXCEPT ![c] = {Attach}]
<1> DEFINE t == [tab[c] EXCEPT !.rev = 0, !.adopt = TRUE, !.dirty = FALSE,
                               !.sent = NoTree, !.resend = FALSE, !.placed = {}, !.gone = {}]
<1>1. tab[c] \in Tabs
  BY DEF ClientsTyped
<1>2. /\ t \in Tabs /\ t.rev = 0 /\ t.tree = tab[c].tree /\ t.adopt = TRUE /\ t.dirty = FALSE
      /\ t.resend = FALSE
  BY <1>1, NoTreeTyped DEF Tabs
<1>3. tab' = [tab EXCEPT ![c] = t]
  BY DEF Reconnect, ClientsTyped
<1> HIDE DEF t
<1> QED  BY <1>2, <1>3 DEF Reconnect

LEMMA ClientSteps ==
    ASSUME Typed, [LayoutNext]_layoutVars
    PROVE  ClientsTyped'
<1>t. /\ tab \in [Clients -> Tabs] /\ mark \in [Clients -> Nat]
      /\ closeRequested \in [Clients -> SUBSET Closable]
      /\ out \in [Clients -> SUBSET Messages]
      /\ in \in [Clients -> Seq(FrameSet)]
  BY DEF Typed, ClientsTyped
<1> USE DEF Typed
<1>0. CASE UNCHANGED <<tab, mark, closeRequested, out, in>>
  BY <1>0, <1>t DEF ClientsTyped
<1>1. ASSUME NEW c \in Clients, Edit(c)
      PROVE  ClientsTyped'
  <2>1. PICK t \in Tabs : /\ tab' = [tab EXCEPT ![c] = Marked(t)]
                          /\ out' = [out EXCEPT ![c] = out[c] \cup Sent(t)]
    BY <1>1, DraggedTab
  <2>2. Marked(t) \in Tabs /\ Sent(t) \in SUBSET Messages
    BY MarkedParts, SentTyped DEF Messages
  <2>3. tab' \in [Clients -> Tabs] /\ out' \in [Clients -> SUBSET Messages]
    BY <2>1, <2>2, <1>t
  <2> QED  BY <1>1, <2>3, <1>t DEF Edit, ClientsTyped
<1>2. ASSUME NEW c \in Clients, NEW p \in Closable, ConfirmClose(c, p)
      PROVE  ClientsTyped'
  <2>1. Close(p) \in Messages
    BY DEF Close, Messages, Closes
  <2>2. closeRequested' \in [Clients -> SUBSET Closable] /\ out' \in [Clients -> SUBSET Messages]
    BY <1>2, <2>1, <1>t DEF ConfirmClose
  <2> QED  BY <1>2, <2>2, <1>t DEF ConfirmClose, ClientsTyped
<1>3. ASSUME NEW c \in Clients, NEW m, NEW kind, Delivered(c, m, kind), UNCHANGED <<clientVars, in>>
      PROVE  ClientsTyped'
  BY <1>3, <1>t DEF Delivered, clientVars, ClientsTyped
<1>4. ASSUME NEW c \in Clients, NEW m,
             HandleUpdateLayout(c, m) \/ HandleDestroyPane(c, m) \/ HandleAttach(c)
      PROVE  ClientsTyped'
  BY <1>3, <1>4 DEF HandleUpdateLayout, HandleDestroyPane, HandleAttach
<1>5. ASSUME NEW k \in casts, Queue(k)
      PROVE  ClientsTyped'
  BY <1>5, <1>t, QueueTyped DEF Queue, clientVars, ClientsTyped
<1>6. ASSUME NEW c \in Clients, Receive(c)
      PROVE  ClientsTyped'
  <2> DEFINE f == Head(in[c])
  <2>1. in' \in [Clients -> Seq(FrameSet)] /\ f.rev \in Nat
    BY <1>6, <1>t, ReceiveParts DEF FrameSet
  <2>2. CASE UNCHANGED <<mark, seen, closeRequested, tab, out>>
    BY <2>1, <2>2, <1>t DEF ClientsTyped
  <2>3. CASE ~UNCHANGED <<mark, seen, closeRequested, tab, out>>
    <3>1. PICK t \in Tabs :
             /\ mark' = [mark EXCEPT ![c] = f.rev]
             /\ closeRequested' \in [Clients -> SUBSET Closable]
             /\ \/ tab' = [tab EXCEPT ![c] = t] /\ out' = out
                \/ tab' = [tab EXCEPT ![c] = Marked(t)] /\ out' = [out EXCEPT ![c] = out[c] \cup Sent(t)]
      BY <1>6, <2>3, ReceiveParts
    <3>2. Marked(t) \in Tabs /\ Sent(t) \in SUBSET Messages
      BY MarkedParts, SentTyped DEF Messages
    <3>3. tab' \in [Clients -> Tabs] /\ out' \in [Clients -> SUBSET Messages]
      BY <3>1, <3>2, <1>t
    <3>4. mark' \in [Clients -> Nat]
      BY <2>1, <3>1, <1>t
    <3> QED  BY <2>1, <3>1, <3>3, <3>4 DEF ClientsTyped
  <2> QED  BY <2>2, <2>3
<1>7. ASSUME NEW c \in Clients, Reconnect(c)
      PROVE  ClientsTyped'
  <2>1. PICK t \in Tabs :
              /\ tab' = [tab EXCEPT ![c] = t]
              /\ mark' = [mark EXCEPT ![c] = 0]
              /\ closeRequested' = [closeRequested EXCEPT ![c] = {}]
              /\ in' = [in EXCEPT ![c] = <<>>]
              /\ out' = [out EXCEPT ![c] = {Attach}]
    BY <1>7, ResetTab
  <2>2. <<>> \in Seq(FrameSet) /\ {Attach} \in SUBSET Messages
    BY EmptySeq DEF Messages
  <2>3. in' \in [Clients -> Seq(FrameSet)] /\ out' \in [Clients -> SUBSET Messages]
    BY <2>1, <2>2, <1>t
  <2>4. tab' \in [Clients -> Tabs] /\ mark' \in [Clients -> Nat]
        /\ closeRequested' \in [Clients -> SUBSET Closable]
    BY <2>1, <1>t
  <2> QED  BY <2>3, <2>4 DEF ClientsTyped
<1>8. ASSUME (\E p \in Later : Create(p)) \/ (\E b \in Builders : BroadcastState(b))
             \/ FireCoalesced \/ UNCHANGED layoutVars
      PROVE  ClientsTyped'
  BY <1>0, <1>8 DEF Create, BroadcastState, FireCoalesced, layoutVars, clientVars
<1> QED  BY <1>1, <1>2, <1>4, <1>5, <1>6, <1>7, <1>8 DEF LayoutNext, Dispatching

LEMMA BoundSteps ==
    ASSUME Typed, [LayoutNext]_layoutVars
    PROVE  BoundsTyped'
<1>t. /\ edits \in Nat /\ asks \in Nat /\ churn \in Nat /\ MaxActs \in Nat
      /\ edits + asks + churn <= MaxActs
      /\ lost \in BOOLEAN /\ unborn \in SUBSET Later
      /\ panes \cap unborn = {}
      /\ lastEdit \in [Clients -> 0 .. MaxActs]
      /\ wrote \in SUBSET Clients
      /\ seen \in [Clients -> Nat]
  BY LayoutSyncAssumption DEF Typed, BoundsTyped, Acts
<1> USE DEF Typed, Acts
<1>0. CASE UNCHANGED <<edits, asks, churn, lost, unborn, panes, lastEdit, wrote, seen>>
  BY <1>0, <1>t DEF BoundsTyped
<1>1. ASSUME NEW c \in Clients, Edit(c)
      PROVE  BoundsTyped'
  <2>1. edits + 1 \in 0 .. MaxActs /\ edits + 1 + asks + churn <= MaxActs
    BY <1>1, <1>t DEF Edit
  <2>2. lastEdit' \in [Clients -> 0 .. MaxActs] /\ edits' = edits + 1
    BY <1>1, <2>1, <1>t DEF Edit
  <2>3. edits' \in Nat /\ edits' + asks + churn <= MaxActs
    BY <2>1, <2>2, <1>t
  <2> QED  BY <1>1, <2>2, <2>3, <1>t DEF Edit, daemonVars, BoundsTyped
<1>2. ASSUME NEW c \in Clients, NEW p \in Closable, ConfirmClose(c, p)
      PROVE  BoundsTyped'
  <2>1. asks' \in Nat /\ edits + asks' + churn <= MaxActs
    BY <1>2, <1>t DEF ConfirmClose
  <2> QED  BY <1>2, <2>1, <1>t DEF ConfirmClose, daemonVars, histVars, BoundsTyped
<1>3. ASSUME NEW p \in Later, Create(p)
      PROVE  BoundsTyped'
  <2>1. churn' \in Nat /\ edits + asks + churn' <= MaxActs
    BY <1>3, <1>t DEF Create, Churn
  <2>2. panes' = panes \cup {p} /\ unborn' = unborn \ {p}
    BY <1>3 DEF Create
  <2>3. panes' \cap unborn' = {} /\ unborn' \in SUBSET Later
    BY <2>2, <1>t
  <2> QED  BY <1>3, <2>1, <2>3, <1>t DEF Create, histVars, BoundsTyped
<1>4. ASSUME NEW c \in Clients, Reconnect(c)
      PROVE  BoundsTyped'
  <2>1. churn' \in Nat /\ edits + asks + churn' <= MaxActs
    BY <1>4, <1>t DEF Reconnect, Churn
  <2> QED  BY <1>4, <2>1, <1>t DEF Reconnect, daemonVars, histVars, BoundsTyped
<1>5. ASSUME NEW c \in Clients, NEW m, HandleUpdateLayout(c, m)
      PROVE  BoundsTyped'
  <2>1. wrote' \in SUBSET Clients
    <3>1. wrote' = wrote \cup {c} \/ wrote' = wrote
      BY <1>5 DEF HandleUpdateLayout
    <3> QED  BY <3>1, <1>t
  <2> QED  BY <1>5, <2>1, <1>t DEF HandleUpdateLayout, boundVars, BoundsTyped
<1>6. ASSUME NEW c \in Clients, NEW m, HandleDestroyPane(c, m)
      PROVE  BoundsTyped'
  <2>1. panes' \cap unborn = {}
    BY <1>6, <1>t DEF HandleDestroyPane
  <2> QED  BY <1>6, <2>1, <1>t DEF HandleDestroyPane, boundVars, histVars, BoundsTyped
<1>7. ASSUME NEW c \in Clients, Receive(c)
      PROVE  BoundsTyped'
  <2>1. Head(in[c]).lrev \in Nat
    BY <1>7, ReceiveParts DEF FrameSet
  <2>2. seen' = seen \/ seen' = [seen EXCEPT ![c] = Head(in[c]).lrev]
    BY <1>7, ReceiveParts
  <2>3. seen' \in [Clients -> Nat]
    BY <2>1, <2>2, <1>t
  <2> QED  BY <1>7, <2>3, <1>t DEF Receive, daemonVars, boundVars, BoundsTyped
<1>8. ASSUME \/ \E c \in Clients : HandleAttach(c)
             \/ \E b \in Builders : BroadcastState(b)
             \/ FireCoalesced \/ UNCHANGED layoutVars
             \/ \E k \in casts : Queue(k)
      PROVE  BoundsTyped'
  BY <1>0, <1>8 DEF HandleAttach, BroadcastState, FireCoalesced, Queue, layoutVars,
                    daemonVars, boundVars, histVars
<1> QED  BY <1>1, <1>2, <1>3, <1>4, <1>5, <1>6, <1>7, <1>8 DEF LayoutNext, Dispatching

-----------------------------------------------------------------------------
(* Frames in flight *)

LEMMA FlyingMember ==
    ASSUME NEW built, NEW queued \in [Clients -> Seq(FrameSet)], NEW f
    PROVE  f \in FlyingIn(built, queued) <=>
              \/ \E k \in built : f = k.frame
              \/ \E c \in Clients : \E i \in 1 .. Len(queued[c]) : f = queued[c][i]
<1>1. \A c \in Clients : DOMAIN queued[c] = 1 .. Len(queued[c])
  OBVIOUS
<1> QED  BY <1>1 DEF FlyingIn

LEMMA FlyingTyped ==
    ASSUME DaemonTyped, ClientsTyped
    PROVE  Flying \in SUBSET FrameSet
<1>1. ASSUME NEW f \in Flying
      PROVE  f \in FrameSet
  <2>1. CASE \E k \in casts : f = k.frame
    BY <2>1 DEF DaemonTyped, CastSet
  <2>2. CASE \E c \in Clients : \E i \in 1 .. Len(in[c]) : f = in[c][i]
    BY <2>2 DEF ClientsTyped
  <2>3. in \in [Clients -> Seq(FrameSet)]
    BY DEF ClientsTyped
  <2> QED  BY <1>1, <2>1, <2>2, <2>3, FlyingMember DEF Flying
<1> QED  BY <1>1

\* Only Build adds a frame, the newest; a client takes its frame from the head.
FlightMoves ==
    \/ Flying' \subseteq Flying /\ rev' = rev
    \/ Flying' \subseteq Flying \cup {Frame} /\ rev' = rev + 1

LEMMA BuildFlies ==
    ASSUME Typed, NEW b \in Builders, NEW s \in Seq(Clients) \ {<<>>}, Build(b, s), in' = in
    PROVE  Flying' \subseteq Flying \cup {Frame}
<1>1. in \in [Clients -> Seq(FrameSet)]
  BY DEF Typed, ClientsTyped
<1>2. \A k \in casts' : k \in casts \/ k.frame = Frame
  BY DEF Build
<1>3. ASSUME NEW f \in Flying'
      PROVE  f \in Flying \cup {Frame}
  <2>1. f \in FlyingIn(casts', in)
    <3>1. Flying' = FlyingIn(casts', in)
      BY DEF Flying
    <3> QED  BY <1>3, <3>1
  <2>2. \/ \E k \in casts' : f = k.frame
        \/ \E c \in Clients : \E i \in 1 .. Len(in[c]) : f = in[c][i]
    <3>1. \A c \in Clients : DOMAIN in[c] = 1 .. Len(in[c])
      BY <1>1
    <3> QED  BY <2>1, <3>1 DEF FlyingIn
  <2>3. CASE \E k \in casts' : f = k.frame
    BY <1>1, <1>2, <2>3, FlyingMember DEF Flying
  <2>4. CASE \E c \in Clients : \E i \in 1 .. Len(in[c]) : f = in[c][i]
    BY <1>1, <2>4, FlyingMember DEF Flying
  <2> QED  BY <2>2, <2>3, <2>4
<1> QED  BY <1>3

LEMMA QueueFlies ==
    ASSUME Typed, NEW k \in casts, Queue(k)
    PROVE  Flying' \subseteq Flying
<1> DEFINE d == Head(k.todo)
<1>1. /\ in \in [Clients -> Seq(FrameSet)] /\ in' \in [Clients -> Seq(FrameSet)]
      /\ d \in Clients /\ in' = [in EXCEPT ![d] = Append(in[d], k.frame)]
      /\ \A j \in casts' : \E i \in casts : j.frame = i.frame
  BY QueueTyped DEF Typed, ClientsTyped
<1>2. k.frame \in FrameSet /\ in[d] \in Seq(FrameSet)
  BY <1>1 DEF Typed, DaemonTyped, CastSet
<1> HIDE DEF d
<1>3. ASSUME NEW f \in Flying'
      PROVE  f \in Flying
  <2>1. f \in FlyingIn(casts', in')
    BY <1>3 DEF Flying
  <2>2. CASE \E j \in casts' : f = j.frame
    BY <1>1, <2>2, FlyingMember DEF Flying
  <2>3. ASSUME NEW c \in Clients, NEW i \in 1 .. Len(in'[c]), f = in'[c][i]
        PROVE  f \in Flying
    <3>1. CASE c # d
      BY <1>1, <2>3, <3>1, FlyingMember DEF Flying
    <3>2. CASE c = d
      <4>1. in'[c] = Append(in[d], k.frame)
        BY <1>1, <3>2
      <4>2. f = k.frame \/ \E j \in 1 .. Len(in[d]) : f = in[d][j]
        BY <1>2, <2>3, <4>1, AppendProperties
      <4> QED  BY <1>1, <4>2, FlyingMember DEF Flying
    <3> QED  BY <3>1, <3>2
  <2>4. \/ \E j \in casts' : f = j.frame
        \/ \E c \in Clients : \E i \in 1 .. Len(in'[c]) : f = in'[c][i]
    <3>1. \A e \in Clients : DOMAIN in'[e] = 1 .. Len(in'[e])
      BY <1>1
    <3> QED  BY <2>1, <3>1 DEF FlyingIn
  <2> QED  BY <2>2, <2>3, <2>4
<1> QED  BY <1>3

\* Taking a client's frames, or some of them, off its connection.
LEMMA TakenOff ==
    ASSUME Typed, NEW c \in Clients, NEW q \in Seq(FrameSet),
           in' = [in EXCEPT ![c] = q],
           \A i \in 1 .. Len(q) : \E j \in 1 .. Len(in[c]) : q[i] = in[c][j],
           \A k \in casts' : \E l \in casts : k.frame = l.frame
    PROVE  Flying' \subseteq Flying
<1>1. in \in [Clients -> Seq(FrameSet)]
  BY DEF Typed, ClientsTyped
<1>2. in' \in [Clients -> Seq(FrameSet)]
  BY <1>1
<1>3. ASSUME NEW f \in Flying'
      PROVE  f \in Flying
  <2>1. f \in FlyingIn(casts', in')
    BY <1>3 DEF Flying
  <2>2. CASE \E k \in casts' : f = k.frame
    BY <1>1, <2>2, FlyingMember DEF Flying
  <2>3. ASSUME NEW d \in Clients, NEW i \in 1 .. Len(in'[d]), f = in'[d][i]
        PROVE  \E j \in 1 .. Len(in[d]) : f = in[d][j]
    BY <1>1, <2>3
  <2>4. \/ \E k \in casts' : f = k.frame
        \/ \E d \in Clients : \E i \in 1 .. Len(in'[d]) : f = in'[d][i]
    <3>1. \A e \in Clients : DOMAIN in'[e] = 1 .. Len(in'[e])
      BY <1>2
    <3> QED  BY <2>1, <3>1 DEF FlyingIn
  <2>5. CASE \E d \in Clients : \E i \in 1 .. Len(in'[d]) : f = in'[d][i]
    <3>1. \E d \in Clients : \E j \in 1 .. Len(in[d]) : f = in[d][j]
      BY <2>3, <2>5
    <3> QED  BY <1>1, <3>1, FlyingMember DEF Flying
  <2> QED  BY <2>2, <2>4, <2>5
<1> QED  BY <1>3

LEMMA ReceiveFlies ==
    ASSUME Typed, NEW c \in Clients, Receive(c)
    PROVE  Flying' \subseteq Flying /\ Head(in[c]) \in Flying
<1>1. in \in [Clients -> Seq(FrameSet)] /\ in[c] \in Seq(FrameSet)
  BY DEF Typed, ClientsTyped
<1>2. /\ in[c] # <<>> /\ Tail(in[c]) \in Seq(FrameSet)
      /\ in' = [in EXCEPT ![c] = Tail(in[c])]
  BY ReceiveParts DEF Typed
<1>3. \A i \in 1 .. Len(Tail(in[c])) : \E j \in 1 .. Len(in[c]) : Tail(in[c])[i] = in[c][j]
  BY <1>1, <1>2
<1>4. casts' = casts
  BY DEF Receive, castVars
<1>5. Head(in[c]) = in[c][1] /\ 1 \in 1 .. Len(in[c])
  BY <1>1, <1>2
<1>6. Head(in[c]) \in Flying
  BY <1>1, <1>5, FlyingMember DEF Flying
<1> QED  BY <1>2, <1>3, <1>4, <1>6, TakenOff

LEMMA ReconnectFlies ==
    ASSUME Typed, NEW c \in Clients, Reconnect(c)
    PROVE  Flying' \subseteq Flying
<1>1. <<>> \in Seq(FrameSet) /\ Len(<<>>) = 0
  BY EmptySeq
<1>2. in' = [in EXCEPT ![c] = <<>>]
  BY DEF Reconnect
<1>3. \A k \in casts' : \E l \in casts : k.frame = l.frame
  BY ReconnectTyped DEF Typed
<1>4. ASSUME NEW q \in Seq(FrameSet), Len(q) = 0, in' = [in EXCEPT ![c] = q]
      PROVE  Flying' \subseteq Flying
  <2>1. \A i \in 1 .. Len(q) : \E j \in 1 .. Len(in[c]) : q[i] = in[c][j]
    BY <1>4
  <2> QED  BY <1>3, <1>4, <2>1, TakenOff
<1> QED  BY <1>1, <1>2, <1>4

LEMMA FlightSteps ==
    ASSUME Typed, [LayoutNext]_layoutVars
    PROVE  FlightMoves
<1>1. ASSUME casts' = casts, in' = in, rev' = rev
      PROVE  FlightMoves
  BY <1>1 DEF FlightMoves, Flying
<1>2. ASSUME NEW b \in Builders, BroadcastState(b)
      PROVE  FlightMoves
  BY <1>2, BuildFlies, ClientList DEF BroadcastState, Build, FlightMoves
<1>3. ASSUME NEW c \in Clients, HandleAttach(c)
      PROVE  FlightMoves
  <2>1. c \in Builders /\ <<c>> \in Seq(Clients) \ {<<>>}
    BY DEF Builders
  <2>2. Build(c, <<c>>) /\ in' = in
    BY <1>3 DEF HandleAttach
  <2>3. rev' = rev + 1
    BY <2>2 DEF Build
  <2>4. ASSUME NEW s \in Seq(Clients) \ {<<>>}, Build(c, s)
        PROVE  Flying' \subseteq Flying \cup {Frame}
    BY <2>1, <2>2, <2>4, BuildFlies
  <2> QED  BY <2>1, <2>2, <2>3, <2>4 DEF FlightMoves
<1>4. ASSUME NEW k \in casts, Queue(k)
      PROVE  FlightMoves
  BY <1>4, QueueFlies DEF Queue, FlightMoves
<1>5. ASSUME NEW c \in Clients, Receive(c)
      PROVE  FlightMoves
  BY <1>5, ReceiveFlies DEF Receive, castVars, FlightMoves
<1>6. ASSUME NEW c \in Clients, Reconnect(c)
      PROVE  FlightMoves
  BY <1>6, ReconnectFlies DEF Reconnect, FlightMoves
<1>7. ASSUME \/ \E c \in Clients : Edit(c) \/ \E p \in Closable : ConfirmClose(c, p)
             \/ \E c \in Clients : \E m \in out[c] :
                   HandleUpdateLayout(c, m) \/ HandleDestroyPane(c, m)
             \/ \E p \in Later : Create(p)
             \/ FireCoalesced
             \/ UNCHANGED layoutVars
      PROVE  FlightMoves
  BY <1>1, <1>7 DEF Edit, ConfirmClose, HandleUpdateLayout, HandleDestroyPane, Create,
                    FireCoalesced, layoutVars, castVars
<1> QED  BY <1>2, <1>3, <1>4, <1>5, <1>6, <1>7 DEF LayoutNext, Dispatching

\* The stored revision never goes back, and stays where it is in a Build.
LEMMA RevisionSteps ==
    ASSUME Typed, [LayoutNext]_layoutVars
    PROVE  /\ lrev' = lrev \/ lrev' = lrev + 1
           /\ rev' # rev => UNCHANGED <<lrev, panes, tab, mark, seen>>
<1>1. ASSUME \/ \E c \in Clients : Edit(c) \/ \E p \in Closable : ConfirmClose(c, p)
             \/ \E c \in Clients : \E m \in out[c] :
                   HandleUpdateLayout(c, m) \/ HandleDestroyPane(c, m)
             \/ \E p \in Later : Create(p)
             \/ FireCoalesced
             \/ UNCHANGED layoutVars
      PROVE  rev' = rev /\ (lrev' = lrev \/ lrev' = lrev + 1)
  BY <1>1 DEF Edit, ConfirmClose, HandleUpdateLayout, HandleDestroyPane, Create,
              FireCoalesced, layoutVars, castVars, daemonVars
<1>2. ASSUME \/ \E c \in Clients : Receive(c) \/ Reconnect(c)
             \/ \E k \in casts : Queue(k)
      PROVE  rev' = rev /\ lrev' = lrev
  BY <1>2 DEF Receive, Reconnect, Queue, castVars, daemonVars
<1>3. ASSUME (\E b \in Builders : BroadcastState(b)) \/ (\E c \in Clients : HandleAttach(c))
      PROVE  UNCHANGED <<lrev, panes, tab, mark, seen>>
  BY <1>3 DEF BroadcastState, HandleAttach, daemonVars, clientVars, histVars
<1> QED  BY <1>1, <1>2, <1>3 DEF LayoutNext, Dispatching

\* What a step does to what a client shows of its tab.
TabMoves(c) ==
    \/ /\ tab'[c].rev \in {tab[c].rev, 0}
       /\ Ids(tab'[c].tree) = Ids(tab[c].tree)
    \/ \E f \in Flying :
          /\ tab'[c].rev \in {tab[c].rev, f.lrev}
          /\ Ids(tab'[c].tree) = f.panes

\* What a step does to the number a client compares the next frame with.
MarkMoves(c) ==
    \/ mark'[c] = mark[c] /\ seen'[c] = seen[c]
    \/ mark'[c] = 0 /\ seen'[c] = seen[c]
    \/ \E f \in Flying : mark[c] < f.rev /\ mark'[c] = f.rev /\ seen'[c] = f.lrev

LEMMA ReceiveMoves ==
    ASSUME Typed, NEW c \in Clients, Receive(c), NEW d \in Clients
    PROVE  TabMoves(d) /\ MarkMoves(d)
<1> DEFINE f == Head(in[c])
           asked == closeRequested[c]
<1>t. tab \in [Clients -> Tabs] /\ mark \in [Clients -> Nat] /\ seen \in [Clients -> Nat]
  BY DEF Typed, ClientsTyped, BoundsTyped
<1>1. f \in Flying /\ f \in FrameSet
  BY ReceiveFlies, ReceiveParts DEF Typed
<1>2. CASE UNCHANGED <<mark, seen, closeRequested, tab, out>>
  BY <1>2 DEF TabMoves, MarkMoves
<1>3. CASE ~UNCHANGED <<mark, seen, closeRequested, tab, out>>
  <2>1. PICK t \in Tabs :
           /\ AcceptStateRev(c, f)
           /\ t = Reconciled(c, Synced(tab[c], f, asked), f, asked)
           /\ mark' = [mark EXCEPT ![c] = f.rev]
           /\ seen' = [seen EXCEPT ![c] = f.lrev]
           /\ tab' = [tab EXCEPT ![c] = t] \/ tab' = [tab EXCEPT ![c] = Marked(t)]
    BY <1>3, ReceiveParts DEF Typed
  <2>2. Synced(tab[c], f, asked) \in Tabs
        /\ Synced(tab[c], f, asked).rev \in {tab[c].rev, f.lrev}
    <3>1. tab[c] \in Tabs
      BY <1>t
    <3> HIDE DEF f, asked
    <3> QED  BY <1>1, <3>1, SyncedRev
  <2>3. t.rev \in {tab[c].rev, f.lrev} /\ Ids(t.tree) = f.panes
    BY <1>1, <2>1, <2>2, ReconciledParts
  <2>4. Marked(t).rev = t.rev /\ Marked(t).tree = t.tree
    BY MarkedParts
  <2>5. CASE d = c
    <3>1. tab'[d] = t \/ tab'[d] = Marked(t)
      BY <1>t, <2>1, <2>5
    <3>2. tab'[d].rev = t.rev /\ tab'[d].tree = t.tree
      BY <2>4, <3>1
    <3>3. mark[d] < f.rev /\ mark'[d] = f.rev /\ seen'[d] = f.lrev
      BY <1>t, <1>1, <2>1, <2>5 DEF AcceptStateRev, FrameSet
    <3> HIDE DEF f
    <3> QED  BY <1>1, <2>3, <2>5, <3>2, <3>3 DEF TabMoves, MarkMoves
  <2>6. CASE d # c
    BY <1>t, <2>1, <2>6 DEF TabMoves, MarkMoves
  <2> QED  BY <2>5, <2>6
<1> QED  BY <1>2, <1>3

LEMMA ViewSteps ==
    ASSUME Typed, [LayoutNext]_layoutVars, NEW d \in Clients
    PROVE  TabMoves(d) /\ MarkMoves(d)
<1>t. tab \in [Clients -> Tabs] /\ mark \in [Clients -> Nat] /\ seen \in [Clients -> Nat]
  BY DEF Typed, ClientsTyped, BoundsTyped
<1>1. ASSUME UNCHANGED <<tab, mark, seen>>
      PROVE  TabMoves(d) /\ MarkMoves(d)
  BY <1>1 DEF TabMoves, MarkMoves
<1>2. ASSUME NEW c \in Clients, Edit(c)
      PROVE  TabMoves(d) /\ MarkMoves(d)
  <2>1. PICK t \in Tabs : /\ tab' = [tab EXCEPT ![c] = Marked(t)]
                          /\ t.rev = tab[c].rev /\ t.tree.at = tab[c].tree.at
    BY <1>2, DraggedTab DEF Typed
  <2>2. Marked(t).rev = tab[c].rev /\ Ids(Marked(t).tree) = Ids(tab[c].tree)
    BY <2>1, MarkedParts DEF Ids
  <2>3. tab'[d].rev = tab[d].rev /\ Ids(tab'[d].tree) = Ids(tab[d].tree)
    BY <1>t, <2>1, <2>2
  <2>4. UNCHANGED <<mark, seen>>
    BY <1>2 DEF Edit
  <2> QED  BY <2>3, <2>4 DEF TabMoves, MarkMoves
<1>3. ASSUME NEW c \in Clients, Reconnect(c)
      PROVE  TabMoves(d) /\ MarkMoves(d)
  <2>1. PICK t \in Tabs : /\ tab' = [tab EXCEPT ![c] = t]
                          /\ t.rev = 0 /\ t.tree = tab[c].tree
                          /\ mark' = [mark EXCEPT ![c] = 0]
    BY <1>3, ResetTab DEF Typed
  <2>2. tab'[d].rev \in {tab[d].rev, 0} /\ tab'[d].tree = tab[d].tree
    BY <1>t, <2>1
  <2>3. mark'[d] = mark[d] \/ mark'[d] = 0
    BY <1>t, <2>1
  <2>4. seen' = seen
    BY <1>3 DEF Reconnect, histVars
  <2> QED  BY <2>2, <2>3, <2>4 DEF TabMoves, MarkMoves
<1>4. ASSUME NEW c \in Clients, Receive(c)
      PROVE  TabMoves(d) /\ MarkMoves(d)
  BY <1>4, ReceiveMoves
<1>5. ASSUME \/ \E c \in Clients : \E p \in Closable : ConfirmClose(c, p)
             \/ \E c \in Clients : \E m \in out[c] :
                   HandleUpdateLayout(c, m) \/ HandleDestroyPane(c, m)
             \/ \E c \in Clients : HandleAttach(c)
             \/ \E p \in Later : Create(p)
             \/ \E b \in Builders : BroadcastState(b)
             \/ FireCoalesced
             \/ \E k \in casts : Queue(k)
             \/ UNCHANGED layoutVars
      PROVE  TabMoves(d) /\ MarkMoves(d)
  BY <1>1, <1>5 DEF ConfirmClose, HandleUpdateLayout, HandleDestroyPane, HandleAttach,
             Create, BroadcastState, FireCoalesced, Queue, layoutVars, clientVars, histVars
<1> QED  BY <1>2, <1>3, <1>4, <1>5 DEF LayoutNext, Dispatching

-----------------------------------------------------------------------------
(* The invariant *)

LEMMA PastSteps ==
    ASSUME Typed, Past, [LayoutNext]_layoutVars
    PROVE  Past'
<1>t. /\ lrev \in Nat /\ rev \in Nat /\ Always \subseteq panes
      /\ tab \in [Clients -> Tabs] /\ mark \in [Clients -> Nat] /\ seen \in [Clients -> Nat]
      /\ Flying \in SUBSET FrameSet
  BY FlyingTyped DEF Typed, DaemonTyped, ClientsTyped, BoundsTyped
<1>r. /\ lrev' = lrev \/ lrev' = lrev + 1
      /\ rev' # rev => UNCHANGED <<lrev, panes, tab, mark, seen>>
  BY RevisionSteps
<1>f. FlightMoves
  BY FlightSteps
<1>v. rev' \in {rev, rev + 1}
  BY <1>f DEF FlightMoves
<1>1. ASSUME NEW f \in Flying'
      PROVE  f.rev <= rev' /\ f.lrev <= lrev' /\ Always \subseteq f.panes
  <2>1. CASE f \in Flying
    <3>1. f.rev <= rev /\ f.lrev <= lrev /\ Always \subseteq f.panes /\ f \in FrameSet
      BY <2>1, <1>t DEF Past
    <3>2. f.rev \in Nat /\ f.lrev \in Nat
      BY <3>1 DEF FrameSet
    <3> QED  BY <3>1, <3>2, <1>t, <1>r, <1>v
  <2>2. CASE f \notin Flying
    <3>1. f = Frame /\ rev' = rev + 1
      BY <1>1, <2>2, <1>f DEF FlightMoves
    <3>2. lrev' = lrev
      BY <3>1, <1>r, <1>t
    <3> QED  BY <3>1, <3>2, <1>t DEF Frame
  <2> QED  BY <2>1, <2>2
<1>2. ASSUME NEW c \in Clients
      PROVE  /\ tab'[c].rev <= lrev' /\ mark'[c] <= rev' /\ seen'[c] <= lrev'
             /\ Ids(tab'[c].tree) # {}
  <2>1. /\ tab[c].rev <= lrev /\ mark[c] <= rev /\ seen[c] <= lrev /\ Ids(tab[c].tree) # {}
        /\ tab[c].rev \in Nat /\ mark[c] \in Nat /\ seen[c] \in Nat
    BY <1>t DEF Past, Tabs
  <2>2. \A f \in Flying : /\ f.rev \in Nat /\ f.lrev \in Nat
                          /\ f.rev <= rev /\ f.lrev <= lrev /\ f.panes # {}
    BY <1>t, FirstPanes DEF Past, FrameSet
  <2>3. TabMoves(c) /\ MarkMoves(c)
    BY ViewSteps
  <2>4. tab'[c].rev <= lrev /\ Ids(tab'[c].tree) # {} /\ tab'[c].rev \in Nat
    <3>1. CASE tab'[c].rev \in {tab[c].rev, 0} /\ Ids(tab'[c].tree) = Ids(tab[c].tree)
      BY <2>1, <3>1, <1>t
    <3>2. ASSUME NEW f \in Flying, tab'[c].rev \in {tab[c].rev, f.lrev},
                 Ids(tab'[c].tree) = f.panes
          PROVE  tab'[c].rev <= lrev /\ Ids(tab'[c].tree) # {} /\ tab'[c].rev \in Nat
      BY <2>1, <2>2, <3>2, <1>t
    <3> QED  BY <2>3, <3>1, <3>2 DEF TabMoves
  <2>5. mark'[c] <= rev /\ seen'[c] <= lrev /\ mark'[c] \in Nat /\ seen'[c] \in Nat
    BY <2>1, <2>2, <2>3, <1>t DEF MarkMoves
  <2> QED  BY <2>4, <2>5, <1>t, <1>r, <1>v
<1> QED  BY <1>1, <1>2 DEF Past

LEMMA OrderedSteps ==
    ASSUME Typed, Past, Ordered, [LayoutNext]_layoutVars
    PROVE  Ordered'
<1>t. /\ lrev \in Nat /\ rev \in Nat
      /\ mark \in [Clients -> Nat] /\ seen \in [Clients -> Nat]
      /\ \A f \in Flying : f.rev \in Nat /\ f.lrev \in Nat /\ f.rev <= rev /\ f.lrev <= lrev
      /\ \A c \in Clients : mark[c] <= rev /\ seen[c] <= lrev
  BY FlyingTyped DEF Typed, DaemonTyped, ClientsTyped, BoundsTyped, Past, FrameSet
<1>f. FlightMoves
  BY FlightSteps
<1>1. CASE Flying' \subseteq Flying
  <2>1. \A f, g \in Flying' : f.rev < g.rev => f.lrev <= g.lrev
    BY <1>1 DEF Ordered
  <2>2. ASSUME NEW c \in Clients, NEW f \in Flying', mark'[c] # 0, mark'[c] < f.rev
        PROVE  seen'[c] <= f.lrev
    <3>1. MarkMoves(c)
      BY ViewSteps
    <3>2. CASE mark'[c] = mark[c] /\ seen'[c] = seen[c]
      BY <1>1, <2>2, <3>2 DEF Ordered
    <3>3. CASE \E g \in Flying : mark'[c] = g.rev /\ seen'[c] = g.lrev
      BY <1>1, <2>2, <3>3 DEF Ordered
    <3> QED  BY <2>2, <3>1, <3>2, <3>3 DEF MarkMoves
  <2> QED  BY <2>1, <2>2 DEF Ordered
<1>2. CASE ~(Flying' \subseteq Flying)
  <2>1. Flying' \subseteq Flying \cup {Frame} /\ rev' = rev + 1
    BY <1>2, <1>f DEF FlightMoves
  <2>2. UNCHANGED <<mark, seen>>
    BY <2>1, <1>t, RevisionSteps
  <2>3. Frame.rev = rev + 1 /\ Frame.lrev = lrev
    BY DEF Frame
  <2>4. \A f, g \in Flying' : f.rev < g.rev => f.lrev <= g.lrev
    BY <2>1, <2>3, <1>t DEF Ordered
  <2>5. ASSUME NEW c \in Clients, NEW f \in Flying', mark[c] # 0, mark[c] < f.rev
        PROVE  seen[c] <= f.lrev
    BY <2>1, <2>3, <2>5, <1>t DEF Ordered
  <2> QED  BY <2>2, <2>4, <2>5 DEF Ordered
<1> QED  BY <1>1, <1>2

LEMMA NothingFlies ==
    ASSUME LayoutInit, in \in [Clients -> Seq(FrameSet)]
    PROVE  Flying = {}
<1>1. \A c \in Clients : in[c] = <<>>
  BY DEF LayoutInit
<1>2. in \in [Clients -> Seq(FrameSet)] /\ \A c \in Clients : Len(in[c]) = 0
  <2>1. \A c \in Clients : Len(in[c]) = Len(<<>>)
    BY <1>1, Zenon
  <2> QED  BY <2>1, EmptySeq
<1>3. casts = {}
  BY DEF LayoutInit
<1>4. \A f : f \notin FlyingIn(casts, in)
  BY <1>2, <1>3, FlyingMember
<1> QED  BY <1>4 DEF Flying

LEMMA LayoutStart ==
    ASSUME LayoutInit
    PROVE  LayoutIInv
<1>1. Typed
  <2>1. DaemonTyped
    <3>1. stored \in Trees /\ Ids(stored) = First
      BY FirstTreeTyped DEF LayoutInit
    <3>2. /\ panes = First /\ lrev = 1 /\ rev = 1 /\ armed = FALSE /\ due = {}
          /\ casts = {}
      BY DEF LayoutInit
    <3>3. armed \in BOOLEAN
      BY <3>2
    <3>5. lrev \in Nat \ {0} /\ rev \in Nat \ {0}
      BY <3>2
    <3>4. panes \in SUBSET AllPanes /\ Always \subseteq panes /\ Ids(stored) \subseteq panes
      BY <3>1, <3>2, FirstPanes
    <3> QED  BY <3>1, <3>2, <3>3, <3>4, <3>5 DEF DaemonTyped
  <2>2. ClientsTyped
    <3> DEFINE t == [rev |-> 1, tree |-> FirstTree, dirty |-> FALSE,
                     sent |-> NoTree, resend |-> FALSE, placed |-> {},
                     gone |-> {}, adopt |-> FALSE]
    <3>1. t \in Tabs
      BY FirstTreeTyped, NoTreeTyped DEF Tabs
    <3>2. tab = [c \in Clients |-> t]
      BY DEF LayoutInit
    <3>3. <<>> \in Seq(FrameSet)
      BY EmptySeq
    <3>4. in \in [Clients -> Seq(FrameSet)]
      BY <3>3, Zenon DEF LayoutInit
    <3>5. mark = [c \in Clients |-> 1] /\ closeRequested = [c \in Clients |-> {}]
          /\ out = [c \in Clients |-> {}]
      BY DEF LayoutInit
    <3> HIDE DEF t
    <3> QED  BY <3>1, <3>2, <3>4, <3>5 DEF ClientsTyped
  <2>3. BoundsTyped
    <3>1. /\ edits = 0 /\ asks = 0 /\ churn = 0 /\ lost = FALSE /\ unborn = Later /\ panes = First
          /\ lastEdit = [c \in Clients |-> 0] /\ wrote = {} /\ seen = [c \in Clients |-> 1]
      BY DEF LayoutInit
    <3>2. 0 \in 0 .. MaxActs /\ 0 + 0 + 0 <= MaxActs /\ First \cap Later = {}
      BY LayoutSyncAssumption
    <3> QED  BY <3>1, <3>2 DEF BoundsTyped, Acts
  <2> QED  BY <2>1, <2>2, <2>3 DEF Typed
<1>2. Flying = {}
  BY <1>1, NothingFlies DEF Typed, ClientsTyped
<1>3. Past
  <2>1. \A c \in Clients : tab[c].rev = 1 /\ Ids(tab[c].tree) = First
    BY FirstTreeTyped DEF LayoutInit
  <2> QED  BY <1>2, <2>1, FirstPanes DEF LayoutInit, Past
<1>4. Ordered
  BY <1>2 DEF Ordered
<1> QED  BY <1>1, <1>3, <1>4 DEF LayoutIInv

LEMMA LayoutSteps ==
    ASSUME LayoutIInv, [LayoutNext]_layoutVars
    PROVE  LayoutIInv'
BY DaemonSteps, ClientSteps, BoundSteps, PastSteps, OrderedSteps DEF LayoutIInv, Typed

LEMMA LayoutInvariant == LayoutSpec => []LayoutIInv
<1>1. LayoutIInv /\ [LayoutNext]_layoutVars => LayoutIInv'
  BY LayoutSteps
<1> QED  BY LayoutStart, <1>1, PTL DEF LayoutSpec

LEMMA TreeIsTree ==
    ASSUME NEW t \in Trees
    PROVE  IsTree(t)
<1>1. t.edit \in 0 .. MaxActs /\ Ids(t) \in SUBSET AllPanes /\ t.at \in [Ids(t) -> Placers]
  BY TreeParts
<1>2. Range(t.at) \subseteq Placers
  BY <1>1 DEF Range
<1> QED  BY <1>1, <1>2 DEF IsTree, AllPanes, Placers

LEMMA LayoutTypes ==
    ASSUME LayoutIInv
    PROVE  LayoutTypeOK
<1>1. /\ panes \subseteq First \cup Later /\ panes # {}
      /\ lrev \in Nat \ {0} /\ rev \in Nat \ {0}
      /\ armed \in BOOLEAN /\ due \subseteq Builders
  BY FirstPanes DEF LayoutIInv, Typed, DaemonTyped, AllPanes
<1>2. IsTree(stored)
  BY TreeIsTree DEF LayoutIInv, Typed, DaemonTyped
<1>3. \A k \in casts : k.by \in Builders /\ k.todo \in Seq(Clients) \ {<<>>}
  BY DEF LayoutIInv, Typed, DaemonTyped, CastSet
<1>4. ASSUME NEW c \in Clients
      PROVE  /\ IsTree(tab[c].tree) /\ Ids(tab[c].tree) # {}
             /\ IsTree(tab[c].sent)
             /\ {tab[c].dirty, tab[c].resend, tab[c].adopt} \subseteq BOOLEAN
             /\ tab[c].placed \cup tab[c].gone \subseteq First \cup Later
             /\ tab[c].rev \in 0 .. lrev /\ mark[c] \in 0 .. rev
  <2>1. tab[c] \in Tabs
    BY DEF LayoutIInv, Typed, ClientsTyped
  <2>2. IsTree(tab[c].tree) /\ IsTree(tab[c].sent)
    BY <2>1, TreeIsTree DEF Tabs
  <2>3. tab[c].dirty \in BOOLEAN /\ tab[c].resend \in BOOLEAN /\ tab[c].adopt \in BOOLEAN
    BY <2>1 DEF Tabs
  <2>4. {tab[c].dirty, tab[c].resend, tab[c].adopt} \subseteq BOOLEAN
    BY <2>3, Zenon
  <2>5. tab[c].placed \cup tab[c].gone \subseteq First \cup Later
    BY <2>1 DEF Tabs, AllPanes
  <2>6. Ids(tab[c].tree) # {}
    BY DEF LayoutIInv, Past
  <2>7. tab[c].rev \in 0 .. lrev /\ mark[c] \in 0 .. rev
    <3>1. tab[c].rev \in Nat /\ mark[c] \in Nat
      BY <2>1 DEF LayoutIInv, Typed, ClientsTyped, Tabs
    <3>2. tab[c].rev <= lrev /\ mark[c] <= rev
      BY DEF LayoutIInv, Past
    <3> QED  BY <1>1, <3>1, <3>2
  <2> QED  BY <2>2, <2>4, <2>5, <2>6, <2>7
<1> QED  BY <1>1, <1>2, <1>3, <1>4 DEF LayoutTypeOK

\* Every variable of LayoutSync stays in its domain, every tree names panes
\* of the tab, and the stored one names live panes only: no write brings a
\* closed pane back (validLayoutLocked, pruneTreeLocked).
THEOREM TreesStaySound == LayoutSpec => []TreesSound
<1>1. LayoutIInv => TreesSound
  BY LayoutTypes DEF TreesSound, StoredTreeIsLive, LayoutIInv, Typed, DaemonTyped
<1> QED  BY LayoutInvariant, <1>1, PTL

\* On one connection a client goes forward only: the tree of the frame it
\* applies is no older than the tree of the one before, although the frames
\* were queued by goroutines in no order (buildWorkspaceState numbers a frame
\* in the hold that reads its tree, acceptStateRev).
THEOREM StatesGoForward == LayoutSpec => StateForward
<1>1. ASSUME LayoutIInv, [LayoutNext]_layoutVars, NEW c \in Clients,
             mark[c] # 0, mark'[c] # 0
      PROVE  seen'[c] >= seen[c]
  <2>1. MarkMoves(c)
    BY <1>1, ViewSteps DEF LayoutIInv
  <2>2. seen[c] \in Nat /\ \A f \in Flying : f.lrev \in Nat
    BY <1>1, FlyingTyped DEF LayoutIInv, Typed, BoundsTyped, FrameSet
  <2>3. \A f \in Flying : mark[c] < f.rev => seen[c] <= f.lrev
    BY <1>1 DEF LayoutIInv, Ordered
  <2> QED  BY <1>1, <2>1, <2>2, <2>3 DEF MarkMoves
<1>2. LayoutIInv /\ [LayoutNext]_layoutVars =>
        [\A c \in Clients :
            mark[c] # 0 /\ mark'[c] # 0 => seen'[c] >= seen[c]]_layoutVars
  BY <1>1
<1> QED  BY LayoutInvariant, <1>2, PTL DEF LayoutSpec, StateForward


-----------------------------------------------------------------------------
(* A drag on a tab nobody else writes *)

\* A frame at the stored revision carries the stored tree.
Current == \A f \in Flying : f.lrev = lrev => f.tree = stored

\* No connection was lost, and the tab holds the panes it started with.
Quiet == ~lost /\ unborn = Later /\ panes = First

\* The trees that differ from the first in their last drag only.
DragTrees == {t \in Trees : t.at = FirstTree.at}

\* Every tree names the first panes, so nothing is placed, pruned or adopted.
StillOut(c) ==
    \A m \in out[c] : m # Attach /\ (m.kind = "layout" => m.tree \in DragTrees)
StillTab(c) ==
    /\ tab[c].tree \in DragTrees /\ (tab[c].dirty => tab[c].sent \in DragTrees)
    /\ tab[c].placed = {} /\ tab[c].gone = {} /\ tab[c].adopt = FALSE
StillFlying == \A f \in Flying : f.tree \in DragTrees /\ f.panes = First

\* A client alone on the tab shows its user's last drag; what it sent is on
\* its way, or stored and on its way back.
OnlyWrite(c) ==
    \A m \in out[c] :
        m.kind = "layout" => tab[c].dirty /\ m = Write(tab[c].sent, tab[c].rev)
Unsettled(c) ==
    \/ /\ Write(tab[c].sent, tab[c].rev) \in out[c]
       /\ tab[c].rev = lrev
    \/ /\ Write(tab[c].sent, tab[c].rev) \notin out[c]
       /\ lrev = tab[c].rev + 1 /\ stored = tab[c].sent
Alone(c) ==
    /\ tab[c].tree.edit = lastEdit[c]
    /\ OnlyWrite(c)
    /\ ~tab[c].dirty => tab[c].rev = lrev /\ stored = tab[c].tree
    /\ tab[c].dirty => Unsettled(c)
    /\ tab[c].dirty /\ ~tab[c].resend => tab[c].tree = tab[c].sent

AtRest ==
    /\ stored \in DragTrees
    /\ \A c \in Clients :
          StillTab(c) /\ StillOut(c) /\ (wrote \subseteq {c} => Alone(c))
Undisturbed == Quiet => StillFlying /\ AtRest

LEMMA KeepingAll ==
    ASSUME NEW t \in Trees, NEW S, Ids(t) \subseteq S
    PROVE  Keeping(t, S) = t
<1>1. t = [edit |-> t.edit, at |-> t.at] /\ t.at \in [Ids(t) -> Placers]
  BY TreeParts
<1>2. Ids(t) \cap S = Ids(t)
  OBVIOUS
<1>3. Keeping(t, S) = [edit |-> t.edit, at |-> [p \in Ids(t) \cap S |-> t.at[p]]]
  BY <1>1 DEF Keeping, Restrict
<1>4. [p \in Ids(t) |-> t.at[p]] = t.at
  BY <1>1
<1> QED  BY <1>1, <1>2, <1>3, <1>4

LEMMA PlacingNone ==
    ASSUME NEW t \in Trees, NEW S, NEW who, S \subseteq Ids(t)
    PROVE  Placing(t, S, who) = t
<1>1. t = [edit |-> t.edit, at |-> t.at] /\ t.at \in [Ids(t) -> Placers]
  BY TreeParts
<1>2. Ids(t) \cup S = Ids(t)
  OBVIOUS
<1>3. Placing(t, S, who) =
         [edit |-> t.edit, at |-> [p \in Ids(t) \cup S |-> IF p \in Ids(t) THEN t.at[p] ELSE who]]
  BY <1>1 DEF Placing
<1>4. [p \in Ids(t) |-> IF p \in Ids(t) THEN t.at[p] ELSE who] = t.at
  BY <1>1
<1> QED  BY <1>1, <1>2, <1>3, <1>4

LEMMA DragIds ==
    ASSUME NEW t \in DragTrees
    PROVE  t \in Trees /\ Ids(t) = First
BY FirstTreeTyped DEF DragTrees, Ids

LEMMA StoredMoves ==
    ASSUME Typed, [LayoutNext]_layoutVars
    PROVE  /\ (lrev' = lrev /\ stored' = stored) \/ lrev' = lrev + 1
           /\ rev' # rev => lrev' = lrev /\ stored' = stored
<1>1. ASSUME \/ \E c \in Clients : Edit(c) \/ \E p \in Closable : ConfirmClose(c, p)
             \/ \E p \in Later : Create(p)
             \/ \E c \in Clients : Receive(c) \/ Reconnect(c) \/ HandleAttach(c)
             \/ \E k \in casts : Queue(k)
             \/ \E b \in Builders : BroadcastState(b)
             \/ FireCoalesced
             \/ UNCHANGED layoutVars
      PROVE  lrev' = lrev /\ stored' = stored
  BY <1>1 DEF Edit, ConfirmClose, Create, Receive, Reconnect, HandleAttach, Queue,
              BroadcastState, FireCoalesced, layoutVars, daemonVars
<1>2. ASSUME NEW c \in Clients, NEW m \in out[c], HandleUpdateLayout(c, m)
      PROVE  ((lrev' = lrev /\ stored' = stored) \/ lrev' = lrev + 1) /\ rev' = rev
  BY <1>2 DEF HandleUpdateLayout
<1>3. ASSUME NEW c \in Clients, NEW m \in out[c], HandleDestroyPane(c, m)
      PROVE  ((lrev' = lrev /\ stored' = stored) \/ lrev' = lrev + 1) /\ rev' = rev
  <2>1. CASE m.pane \in Ids(stored)
    BY <1>3, <2>1 DEF HandleDestroyPane
  <2>2. CASE m.pane \notin Ids(stored)
    <3>1. Ids(stored) \subseteq panes /\ stored \in Trees
      BY DEF Typed, DaemonTyped
    <3>2. panes' = panes \ {m.pane} /\ stored' = Keeping(stored, panes') /\ lrev' = lrev
          /\ rev' = rev
      BY <1>3, <2>2 DEF HandleDestroyPane
    <3>3. Ids(stored) \subseteq panes'
      BY <2>2, <3>1, <3>2
    <3> QED  BY <3>1, <3>2, <3>3, KeepingAll
  <2> QED  BY <2>1, <2>2
<1> QED  BY <1>1, <1>2, <1>3 DEF LayoutNext, Dispatching

LEMMA CurrentSteps ==
    ASSUME Typed, Past, Current, [LayoutNext]_layoutVars
    PROVE  Current'
<1>t. lrev \in Nat /\ \A f \in Flying : f.lrev \in Nat /\ f.lrev <= lrev
  BY FlyingTyped DEF Typed, DaemonTyped, Past, FrameSet
<1>1. FlightMoves
  BY FlightSteps
<1>2. ((lrev' = lrev /\ stored' = stored) \/ lrev' = lrev + 1)
      /\ (rev' # rev => lrev' = lrev /\ stored' = stored)
  BY StoredMoves
<1>3. rev \in Nat
  BY DEF Typed, DaemonTyped
<1>4. ASSUME NEW f \in Flying', f.lrev = lrev'
      PROVE  f.tree = stored'
  <2>1. CASE f \in Flying
    <3>1. lrev' = lrev /\ stored' = stored
      BY <1>2, <1>4, <1>t, <2>1
    <3> QED  BY <1>4, <2>1, <3>1 DEF Current
  <2>2. CASE f \notin Flying
    <3>1. f = Frame /\ rev' = rev + 1
      BY <1>1, <1>4, <2>2 DEF FlightMoves
    <3>2. stored' = stored
      BY <1>2, <1>3, <3>1
    <3> QED  BY <3>1, <3>2 DEF Frame
  <2> QED  BY <2>1, <2>2
<1> QED  BY <1>4 DEF Current

\* Quiet ends once and never comes back.
LEMMA QuietBefore ==
    ASSUME Typed, [LayoutNext]_layoutVars, Quiet'
    PROVE  Quiet /\ panes' = panes
<1>t. panes \cap unborn = {} /\ panes \subseteq AllPanes /\ unborn \subseteq Later
      /\ lost \in BOOLEAN
  BY DEF Typed, DaemonTyped, BoundsTyped
<1>1. ASSUME NEW c \in Clients, NEW m, HandleDestroyPane(c, m)
      PROVE  Quiet /\ panes' = panes
  <2>1. panes' = panes \ {m.pane} /\ unborn' = unborn /\ lost' = lost
    BY <1>1 DEF HandleDestroyPane, boundVars
  <2>2. panes \subseteq First
    BY <1>t, <2>1 DEF Quiet, AllPanes
  <2> QED  BY <2>1, <2>2 DEF Quiet
<1>2. ASSUME NEW p \in Later, Create(p)
      PROVE  FALSE
  BY <1>2 DEF Create, Quiet
<1>3. ASSUME NEW c \in Clients, Reconnect(c)
      PROVE  FALSE
  BY <1>3 DEF Reconnect, Quiet
<1>4. ASSUME \/ \E c \in Clients : Edit(c) \/ \E p \in Closable : ConfirmClose(c, p)
             \/ \E c \in Clients : \E m \in out[c] : HandleUpdateLayout(c, m)
             \/ \E c \in Clients : Receive(c) \/ HandleAttach(c)
             \/ \E k \in casts : Queue(k)
             \/ \E b \in Builders : BroadcastState(b)
             \/ FireCoalesced
             \/ UNCHANGED layoutVars
      PROVE  Quiet /\ panes' = panes
  <2>1. UNCHANGED <<lost, unborn, panes>>
    BY <1>4 DEF Edit, ConfirmClose, HandleUpdateLayout, Receive, HandleAttach, Queue,
                BroadcastState, FireCoalesced, layoutVars, daemonVars, boundVars
  <2> QED  BY <2>1 DEF Quiet
<1> QED  BY <1>1, <1>2, <1>3, <1>4 DEF LayoutNext, Dispatching

\* On such a tab nothing is placed or pruned: a frame shows its own tree, or
\* leaves the client's.
LEMMA StillShown ==
    ASSUME NEW t \in Tabs, NEW f \in FrameSet, NEW asked, NEW c \in Clients,
           t.tree \in DragTrees, f.tree \in DragTrees, f.panes = First
    PROVE  Reconciled(c, Synced(t, f, asked), f, asked).tree =
              IF Adopts(t, f) THEN f.tree ELSE t.tree
<1> DEFINE s == Synced(t, f, asked)
           r == Reconciled(c, s, f, asked)
<1>1. Ids(t.tree) = First /\ Ids(f.tree) = First /\ t.tree \in Trees /\ f.tree \in Trees
  BY DragIds
<1>2. Keeping(f.tree, f.panes) = f.tree
  BY <1>1, KeepingAll
<1>3. /\ s \in Tabs
      /\ s.tree = IF Adopts(t, f) THEN Keeping(f.tree, f.panes) ELSE t.tree
  BY SyncedParts
<1>4. s.tree = IF Adopts(t, f) THEN f.tree ELSE t.tree
  BY <1>2, <1>3
<1>5. Ids(s.tree) = First /\ s.tree \in Trees
  BY <1>1, <1>4
<1> HIDE DEF s
<1>6. r = [s EXCEPT !.tree = Placing(Keeping(s.tree, f.panes), Arrived(s, f), c),
                    !.gone = s.gone \cup (Pruned(s, f) \ asked),
                    !.placed = s.placed \cup Arrived(s, f)]
  BY <1>3 DEF Reconciled, Tabs
<1>7. r.tree = Placing(Keeping(s.tree, f.panes), Arrived(s, f), c)
  BY <1>6, <1>3 DEF Tabs
<1>8. Keeping(s.tree, f.panes) = s.tree /\ Arrived(s, f) = {}
  BY <1>5, KeepingAll DEF Arrived
<1>9. Placing(s.tree, {}, c) = s.tree
  BY <1>5, PlacingNone
<1> QED  BY <1>4, <1>7, <1>8, <1>9 DEF s

\* It sends again only for a drag made after the write that comes back.
LEMMA StillReconciled ==
    ASSUME NEW t \in Tabs, NEW f \in FrameSet, NEW asked, NEW c \in Clients,
           t.tree \in DragTrees, t.placed = {}, t.gone = {}, t.adopt = FALSE,
           f.tree \in DragTrees, f.panes = First
    PROVE  /\ Reconciled(c, Synced(t, f, asked), f, asked).placed = {}
           /\ Reconciled(c, Synced(t, f, asked), f, asked).gone = {}
           /\ Reconciled(c, Synced(t, f, asked), f, asked).adopt = FALSE
           /\ Pruned(Synced(t, f, asked), f) = {}
           /\ SyncSends(t, f, asked) <=> (Newer(t, f) /\ Echo(t, f) /\ t.resend)
<1> DEFINE s == Synced(t, f, asked)
           r == Reconciled(c, s, f, asked)
<1>1. Ids(t.tree) = First /\ Ids(f.tree) = First /\ t.tree \in Trees /\ f.tree \in Trees
  BY DragIds
<1>2. Keeping(f.tree, f.panes) = f.tree
  BY <1>1, KeepingAll
<1>3. /\ s \in Tabs
      /\ s.tree = IF Adopts(t, f) THEN Keeping(f.tree, f.panes) ELSE t.tree
      /\ s.placed = {}
      /\ s.adopt = FALSE
  <2>1. /\ s \in Tabs
        /\ s.tree = IF Adopts(t, f) THEN Keeping(f.tree, f.panes) ELSE t.tree
    BY SyncedParts
  <2>2. s.placed \in {{}, t.placed}
    BY SyncedParts
  <2>3. s.adopt = FALSE
    <3>1. CASE Newer(t, f)
      BY <3>1, SyncedNewer
    <3>2. CASE ~Newer(t, f)
      BY <3>2, SyncedOlder
    <3> QED  BY <3>1, <3>2
  <2> HIDE DEF s
  <2> QED  BY <2>1, <2>2, <2>3
<1>4. s.gone = {}
  <2>1. CASE Held(t, f)
    BY <2>1, SyncedParts
  <2>2. CASE ~Held(t, f)
    <3>1. s.gone = IF Adopts(t, f) THEN (Ids(f.tree) \ f.panes) \ asked ELSE {}
      BY <2>2, SyncedParts
    <3> QED  BY <3>1, <1>1
  <2> QED  BY <2>1, <2>2
<1>5. s.tree = IF Adopts(t, f) THEN f.tree ELSE t.tree
  BY <1>2, <1>3
<1>6. s.placed = {} /\ Ids(s.tree) = First /\ s.tree \in Trees
  BY <1>1, <1>3, <1>5
<1> HIDE DEF s
<1>7. Pruned(s, f) = {} /\ Arrived(s, f) = {}
  BY <1>6 DEF Pruned, Arrived
<1>8. r.placed = s.placed \cup Arrived(s, f) /\ r.gone = s.gone \cup (Pruned(s, f) \ asked)
      /\ r.adopt = s.adopt
  <2>1. r.placed = s.placed \cup Arrived(s, f)
    BY <1>3, ReconciledPlaced
  <2>2. r.gone = s.gone \cup (Pruned(s, f) \ asked)
    BY <1>3, ReconciledGone
  <2>3. r.adopt = s.adopt
    BY <1>3, ReconciledFlags
  <2> QED  BY <2>1, <2>2, <2>3
<1>10. SyncSends(t, f, asked) <=> (Newer(t, f) /\ Echo(t, f) /\ t.resend)
  <2>1. Ids(f.tree) \ f.panes = {} /\ ~Missed(t, f)
    BY <1>1 DEF Missed
  <2>2. Adopts(t, f) => ~Echo(t, f)
    BY DEF Adopts
  <2> QED  BY <2>1, <2>2 DEF SyncSends
<1> HIDE DEF r
<1>11. r.placed = {} /\ r.gone = {} /\ r.adopt = FALSE
  BY <1>3, <1>4, <1>6, <1>7, <1>8
<1> QED  BY <1>7, <1>10, <1>11 DEF r, s

\* What a received frame makes of client c's tab there.
SettledBy(c, f) ==
    \/ /\ ~Newer(tab[c], f)
       /\ tab'[c].rev = tab[c].rev /\ tab'[c].tree = tab[c].tree
       /\ tab'[c].dirty = tab[c].dirty /\ tab'[c].sent = tab[c].sent
       /\ tab'[c].resend = tab[c].resend
       /\ out'[c] = out[c]
    \/ /\ Newer(tab[c], f) /\ ~Echo(tab[c], f)
       /\ tab'[c].tree = f.tree
       /\ tab'[c].dirty = FALSE
       /\ out'[c] = out[c]
    \/ /\ Newer(tab[c], f) /\ Echo(tab[c], f) /\ ~tab[c].resend
       /\ tab'[c].rev = f.lrev /\ tab'[c].tree = tab[c].tree
       /\ tab'[c].dirty = FALSE
       /\ out'[c] = out[c]
    \/ /\ Newer(tab[c], f) /\ Echo(tab[c], f) /\ tab[c].resend
       /\ tab'[c].rev = f.lrev /\ tab'[c].tree = tab[c].tree
       /\ tab'[c].dirty = TRUE /\ tab'[c].sent = tab[c].tree
       /\ out'[c] = out[c] \cup {Write(tab[c].tree, f.lrev)}

LEMMA StillReceive ==
    ASSUME Typed, StillFlying, NEW c \in Clients, StillTab(c), Receive(c)
    PROVE  /\ \/ tab' = tab /\ out' = out
              \/ /\ SettledBy(c, Head(in[c]))
                 /\ tab'[c].placed = {} /\ tab'[c].gone = {} /\ tab'[c].adopt = FALSE
           /\ \A d \in Clients : d # c => tab'[d] = tab[d] /\ out'[d] = out[d]
<1> DEFINE f == Head(in[c])
           asked == closeRequested[c]
           t == tab[c]
           s == Synced(t, f, asked)
           r == Reconciled(c, s, f, asked)
<1>t. tab \in [Clients -> Tabs] /\ out \in [Clients -> SUBSET Messages] /\ t \in Tabs
  BY DEF Typed, ClientsTyped
<1>1. f \in Flying /\ f \in FrameSet
  BY ReceiveFlies, ReceiveParts DEF Typed
<1>2. CASE UNCHANGED <<mark, seen, closeRequested, tab, out>>
  BY <1>2
<1>3. CASE ~UNCHANGED <<mark, seen, closeRequested, tab, out>>
  <2>1. \/ tab' = [tab EXCEPT ![c] = r] /\ out' = out
        \/ /\ tab' = [tab EXCEPT ![c] = Marked(r)]
           /\ out' = [out EXCEPT ![c] = out[c] \cup Sent(r)]
    BY <1>3, ReceiveParts DEF Typed
  <2>2. /\ s \in Tabs
        /\ Newer(t, f) => s.rev = f.lrev /\ s.dirty = FALSE /\ s.resend = FALSE
        /\ ~Newer(t, f) => s.rev = t.rev /\ s.dirty = t.dirty /\ s.sent = t.sent
                           /\ s.resend = t.resend
    <3> HIDE DEF f, asked, t
    <3>1. s \in Tabs
      BY <1>1, <1>t, SyncedParts
    <3>2. Newer(t, f) => s.rev = f.lrev /\ s.dirty = FALSE /\ s.resend = FALSE
      BY <1>1, <1>t, SyncedNewer
    <3>3. ~Newer(t, f) => s.rev = t.rev /\ s.dirty = t.dirty /\ s.sent = t.sent
                          /\ s.resend = t.resend
      BY <1>1, <1>t, SyncedOlder
    <3> QED  BY <3>1, <3>2, <3>3
  <2>3. r \in Tabs /\ r.rev = s.rev /\ r.dirty = s.dirty /\ r.sent = s.sent /\ r.resend = s.resend
    <3> HIDE DEF s
    <3> QED  BY <1>1, <2>2, ReconciledParts
  <2>4. /\ r.placed = {} /\ r.gone = {} /\ r.adopt = FALSE
        /\ r.tree = IF Adopts(t, f) THEN f.tree ELSE t.tree
        /\ Pruned(s, f) = {}
        /\ SyncSends(t, f, asked) <=> (Newer(t, f) /\ Echo(t, f) /\ t.resend)
    <3>1. f.tree \in DragTrees /\ f.panes = First
      BY <1>1 DEF StillFlying
    <3>2. t.tree \in DragTrees /\ t.placed = {} /\ t.gone = {} /\ t.adopt = FALSE
      BY DEF StillTab
    <3> HIDE DEF f, asked, t
    <3>3. r.placed = {} /\ r.gone = {} /\ r.adopt = FALSE
      BY <1>1, <1>t, <3>1, <3>2, StillReconciled
    <3>3a. r.tree = IF Adopts(t, f) THEN f.tree ELSE t.tree
      BY <1>1, <1>t, <3>1, <3>2, StillShown
    <3>4. Pruned(s, f) = {}
      BY <1>1, <1>t, <3>1, <3>2, StillReconciled
    <3>5. SyncSends(t, f, asked) <=> (Newer(t, f) /\ Echo(t, f) /\ t.resend)
      BY <1>1, <1>t, <3>1, <3>2, StillReconciled
    <3> QED  BY <3>3, <3>3a, <3>4, <3>5
  <2>5. IF SyncSends(t, f, asked) \/ Pruned(s, f) \cap asked # {}
        THEN /\ tab' = [tab EXCEPT ![c] = Marked(r)]
             /\ out' = [out EXCEPT ![c] = out[c] \cup Sent(r)]
        ELSE tab' = [tab EXCEPT ![c] = r] /\ out' = out
    <3>1. AcceptStateRev(c, f)
      BY <1>3, ReceiveParts DEF Typed
    <3>2. MarkLayoutChanged(c, r) => /\ tab' = [tab EXCEPT ![c] = Marked(r)]
                                     /\ out' = [out EXCEPT ![c] = out[c] \cup Sent(r)]
      BY <1>t DEF MarkLayoutChanged
    <3>3. IF SyncSends(t, f, asked) \/ Pruned(s, f) \cap asked # {}
          THEN MarkLayoutChanged(c, r)
          ELSE tab' = [tab EXCEPT ![c] = r] /\ out' = out
      BY <3>1 DEF Receive
    <3> HIDE DEF r, s
    <3> QED  BY <3>2, <3>3
  <2> HIDE DEF r, s
  <2>6. \A d \in Clients : d # c => tab'[d] = tab[d] /\ out'[d] = out[d]
    BY <2>1, <1>t
  <2>7. CASE Newer(t, f) /\ Echo(t, f) /\ t.resend
    <3>1. tab'[c] = Marked(r) /\ out'[c] = out[c] \cup Sent(r)
      BY <2>4, <2>5, <2>7, <1>t
    <3>2. r.dirty = FALSE /\ r.rev = f.lrev /\ r.tree = t.tree
      BY <2>2, <2>3, <2>4, <2>7 DEF Adopts
    <3>3. Sent(r) = {Write(t.tree, f.lrev)}
      BY <3>2 DEF Sent
    <3>4. /\ Marked(r).rev = f.lrev /\ Marked(r).tree = t.tree /\ Marked(r).dirty = TRUE
          /\ Marked(r).sent = t.tree /\ Marked(r).adopt = FALSE
          /\ Marked(r).placed = {} /\ Marked(r).gone = {}
      <4>1. /\ Marked(r).rev = r.rev /\ Marked(r).tree = r.tree
            /\ Marked(r).dirty = TRUE /\ Marked(r).adopt = r.adopt
            /\ Marked(r).sent = IF r.dirty THEN r.sent ELSE r.tree
            /\ Marked(r).placed \subseteq r.placed /\ Marked(r).gone \subseteq r.gone
        BY <2>3, MarkedParts
      <4> QED  BY <4>1, <3>2, <2>4
    <3> QED  BY <2>6, <2>7, <3>1, <3>3, <3>4 DEF SettledBy
  <2>8. CASE ~(Newer(t, f) /\ Echo(t, f) /\ t.resend)
    <3>1. tab'[c] = r /\ out'[c] = out[c]
      BY <2>4, <2>5, <2>8, <1>t
    <3>2. CASE ~Newer(t, f)
      <4>1. r.tree = t.tree
        BY <3>2, <2>4 DEF Adopts
      <4>2. SettledBy(c, f)
        BY <3>1, <3>2, <4>1, <2>2, <2>3 DEF SettledBy
      <4> QED  BY <2>4, <2>6, <3>1, <4>2
    <3>3. CASE Newer(t, f) /\ ~Echo(t, f)
      <4>1. r.tree = f.tree
        BY <3>3, <2>4 DEF Adopts
      <4>2. SettledBy(c, f)
        BY <3>1, <3>3, <4>1, <2>2, <2>3 DEF SettledBy
      <4> QED  BY <2>4, <2>6, <3>1, <4>2
    <3>4. CASE Newer(t, f) /\ Echo(t, f) /\ ~t.resend
      <4>1. r.tree = t.tree
        BY <3>4, <2>4 DEF Adopts
      <4>2. SettledBy(c, f)
        BY <3>1, <3>4, <4>1, <2>2, <2>3 DEF SettledBy
      <4> QED  BY <2>4, <2>6, <3>1, <4>2
    <3> QED  BY <2>8, <3>2, <3>3, <3>4
  <2> QED  BY <2>7, <2>8
<1> QED  BY <1>2, <1>3

LEMMA StillFlyingSteps ==
    ASSUME Typed, Quiet, StillFlying, stored \in DragTrees, [LayoutNext]_layoutVars
    PROVE  StillFlying'
<1>1. Flying' \subseteq Flying \cup {Frame}
  BY FlightSteps DEF FlightMoves
<1>2. Frame.tree = stored /\ Frame.panes = panes
  BY DEF Frame
<1> QED  BY <1>1, <1>2 DEF StillFlying, Quiet

\* The steps that leave the stored tree, every tab and every write alone.
LEMMA RestUntouched ==
    ASSUME AtRest, UNCHANGED <<stored, lrev, tab, lastEdit, wrote>>,
           \A c \in Clients : StillOut(c)',
           \A c \in Clients : \A m : m.kind = "layout" => (m \in out'[c] <=> m \in out[c])
    PROVE  AtRest'
<1>1. ASSUME NEW c \in Clients
      PROVE  StillTab(c)' /\ (wrote' \subseteq {c} => Alone(c)')
  <2>1. StillTab(c)'
    BY DEF AtRest, StillTab
  <2>2. ASSUME wrote' \subseteq {c}
        PROVE  Alone(c)'
    <3>1. Alone(c)
      BY <2>2 DEF AtRest
    <3>2. OnlyWrite(c)'
      BY <3>1 DEF Alone, OnlyWrite
    <3>3. tab[c].dirty => Unsettled(c)'
      <4>1. Write(tab[c].sent, tab[c].rev).kind = "layout"
        BY DEF Write
      <4>2. Write(tab[c].sent, tab[c].rev) \in out'[c] <=> Write(tab[c].sent, tab[c].rev) \in out[c]
        BY <4>1
      <4> QED  BY <3>1, <4>2 DEF Alone, Unsettled
    <3> QED  BY <3>1, <3>2, <3>3 DEF Alone
  <2> QED  BY <2>1, <2>2
<1> QED  BY <1>1 DEF AtRest

LEMMA EditAtRest ==
    ASSUME Typed, AtRest, NEW d \in Clients, Edit(d)
    PROVE  AtRest'
<1>t. tab \in [Clients -> Tabs] /\ out \in [Clients -> SUBSET Messages]
      /\ lastEdit \in [Clients -> 0 .. MaxActs]
  BY DEF Typed, ClientsTyped, BoundsTyped
<1>1. PICK u \in Tabs :
         /\ u.rev = tab[d].rev /\ u.dirty = tab[d].dirty /\ u.sent = tab[d].sent
         /\ u.adopt = tab[d].adopt
         /\ u.placed = tab[d].placed /\ u.gone = tab[d].gone
         /\ u.tree.edit = edits + 1 /\ u.tree.at = tab[d].tree.at
         /\ tab' = [tab EXCEPT ![d] = Marked(u)]
         /\ out' = [out EXCEPT ![d] = out[d] \cup Sent(u)]
         /\ lastEdit' = [lastEdit EXCEPT ![d] = edits + 1]
  BY DraggedTab DEF Typed
<1>2. UNCHANGED <<stored, lrev, wrote>>
  BY DEF Edit, daemonVars
<1>3. ASSUME NEW c \in Clients, c # d
      PROVE  StillTab(c)' /\ StillOut(c)' /\ (wrote' \subseteq {c} => Alone(c)')
  <2>1. tab'[c] = tab[c] /\ out'[c] = out[c] /\ lastEdit'[c] = lastEdit[c]
    BY <1>t, <1>1, <1>3
  <2> QED  BY <1>2, <2>1 DEF AtRest, StillTab, StillOut, Alone, OnlyWrite, Unsettled
<1>4. /\ tab'[d] = Marked(u) /\ out'[d] = out[d] \cup Sent(u) /\ lastEdit'[d] = edits + 1
  BY <1>t, <1>1
<1>5. /\ Marked(u).rev = tab[d].rev /\ Marked(u).tree = u.tree /\ Marked(u).dirty = TRUE
      /\ Marked(u).adopt = tab[d].adopt
      /\ Marked(u).sent = IF u.dirty THEN u.sent ELSE u.tree
      /\ Marked(u).resend = u.dirty
      /\ Marked(u).placed \subseteq tab[d].placed /\ Marked(u).gone \subseteq tab[d].gone
  BY <1>1, MarkedParts
<1>6. Sent(u) = IF u.dirty THEN {} ELSE {Write(u.tree, tab[d].rev)}
  BY <1>1 DEF Sent
<1>7. u.tree \in DragTrees
  <2>1. tab[d].tree \in DragTrees
    BY DEF AtRest, StillTab
  <2>2. u.tree \in Trees
    BY DEF Tabs
  <2> QED  BY <1>1, <2>1, <2>2 DEF DragTrees
<1>8. StillTab(d)'
  <2>1. StillTab(d)
    BY DEF AtRest
  <2>2. Marked(u).sent \in DragTrees
    BY <1>1, <1>5, <1>7, <2>1 DEF StillTab
  <2> QED  BY <1>4, <1>5, <1>7, <2>1, <2>2 DEF StillTab
<1>9. StillOut(d)'
  <2>1. \A m \in Sent(u) : m # Attach /\ m.tree \in DragTrees
    BY <1>6, <1>7 DEF Write, Attach
  <2> QED  BY <1>4, <2>1 DEF AtRest, StillOut
<1>10. ASSUME wrote' \subseteq {d}
       PROVE  Alone(d)'
  <2>1. Alone(d)
    BY <1>2, <1>10 DEF AtRest
  <2>2. CASE tab[d].dirty
    <3>1. Sent(u) = {} /\ out'[d] = out[d] /\ Marked(u).sent = tab[d].sent /\ Marked(u).resend = TRUE
      BY <1>1, <1>4, <1>5, <1>6, <2>2 DEF Tabs
    <3>2. OnlyWrite(d)' /\ Unsettled(d)'
      BY <1>2, <1>4, <1>5, <2>1, <2>2, <3>1 DEF Alone, OnlyWrite, Unsettled
    <3> QED  BY <1>1, <1>4, <1>5, <3>1, <3>2 DEF Alone
  <2>3. CASE ~tab[d].dirty
    <3>1. Sent(u) = {Write(u.tree, tab[d].rev)} /\ Marked(u).sent = u.tree
      BY <1>1, <1>5, <1>6, <2>3
    <3>2. OnlyWrite(d)'
      BY <1>4, <1>5, <2>1, <2>3, <3>1 DEF Alone, OnlyWrite
    <3>3. Unsettled(d)'
      BY <1>2, <1>4, <1>5, <2>1, <2>3, <3>1 DEF Alone, Unsettled
    <3> QED  BY <1>1, <1>4, <1>5, <3>1, <3>2, <3>3 DEF Alone
  <2> QED  BY <2>2, <2>3
<1> QED  BY <1>2, <1>3, <1>8, <1>9, <1>10 DEF AtRest

LEMMA ConfirmCloseAtRest ==
    ASSUME Typed, AtRest, NEW d \in Clients, NEW p \in Closable, ConfirmClose(d, p)
    PROVE  AtRest'
<1>1. /\ UNCHANGED <<stored, lrev, tab, lastEdit, wrote>>
      /\ out' = [out EXCEPT ![d] = out[d] \cup {Close(p)}]
  BY DEF ConfirmClose, daemonVars, histVars
<1>2. Close(p).kind = "close" /\ Close(p) # Attach
  BY DEF Close, Attach
<1>3. ASSUME NEW c \in Clients
      PROVE  out'[c] = out[c] \/ out'[c] = out[c] \cup {Close(p)}
  BY <1>1 DEF Typed, ClientsTyped
<1>4. \A c \in Clients : StillOut(c)'
  BY <1>2, <1>3 DEF AtRest, StillOut
<1>5. \A c \in Clients : \A m : m.kind = "layout" => (m \in out'[c] <=> m \in out[c])
  BY <1>2, <1>3
<1> QED  BY <1>1, <1>4, <1>5, RestUntouched

LEMMA DestroyAtRest ==
    ASSUME Typed, Quiet, panes' = panes, AtRest, NEW d \in Clients, NEW n,
           HandleDestroyPane(d, n)
    PROVE  AtRest'
<1>1. /\ UNCHANGED <<tab, lastEdit, wrote>>
      /\ out' = [out EXCEPT ![d] = out[d] \ {n}] /\ n.kind = "close"
      /\ panes' = panes \ {n.pane} /\ stored' = Keeping(stored, panes')
      /\ lrev' = IF n.pane \in Ids(stored) THEN lrev + 1 ELSE lrev
  BY DEF HandleDestroyPane, Delivered, clientVars, histVars
<1>2. Ids(stored) \subseteq panes /\ stored \in Trees
  BY DEF Typed, DaemonTyped
<1>3. stored' = stored /\ lrev' = lrev
  BY <1>1, <1>2, KeepingAll
<1>4. ASSUME NEW c \in Clients
      PROVE  out'[c] = out[c] \/ out'[c] = out[c] \ {n}
  BY <1>1 DEF Typed, ClientsTyped
<1>5. \A c \in Clients : StillOut(c)'
  BY <1>4 DEF AtRest, StillOut
<1>6. \A c \in Clients : \A m : m.kind = "layout" => (m \in out'[c] <=> m \in out[c])
  BY <1>1, <1>4
<1> QED  BY <1>1, <1>3, <1>5, <1>6, RestUntouched

LEMMA UpdateAtRest ==
    ASSUME Typed, Quiet, AtRest, NEW d \in Clients, NEW n \in out[d],
           HandleUpdateLayout(d, n)
    PROVE  AtRest'
<1>1. /\ UNCHANGED <<tab, lastEdit>>
      /\ out' = [out EXCEPT ![d] = out[d] \ {n}] /\ n.kind = "layout"
      /\ \/ n.base = lrev /\ stored' = Valid(n.tree) /\ lrev' = lrev + 1 /\ wrote' = wrote \cup {d}
         \/ n.base # lrev /\ UNCHANGED <<stored, lrev, wrote>>
  BY Zenon DEF HandleUpdateLayout, Delivered, BaseCurrent, clientVars
<1>2. n.tree \in DragTrees
  BY <1>1 DEF AtRest, StillOut
<1>3. Valid(n.tree) = n.tree
  <2>1. n.tree \in Trees /\ Ids(n.tree) = panes
    BY <1>2, DragIds DEF Quiet
  <2> QED  BY <2>1, KeepingAll, PlacingNone DEF Valid
<1>4. stored' \in DragTrees
  BY <1>1, <1>2, <1>3 DEF AtRest
<1>5. ASSUME NEW c \in Clients
      PROVE  /\ c # d => out'[c] = out[c]
             /\ c = d => out'[c] = out[c] \ {n}
  BY <1>1 DEF Typed, ClientsTyped
<1>6. ASSUME NEW c \in Clients
      PROVE  StillTab(c)' /\ StillOut(c)'
  <2>1. StillTab(c)'
    BY <1>1 DEF AtRest, StillTab
  <2> QED  BY <1>5, <2>1 DEF AtRest, StillOut
<1>7. ASSUME NEW c \in Clients, wrote' \subseteq {c}
      PROVE  Alone(c)'
  <2>1. Alone(c)
    BY <1>1, <1>7 DEF AtRest
  <2>2. CASE c # d
    <3>1. UNCHANGED <<stored, lrev>>
      BY <1>1, <1>7, <2>2
    <3>2. out'[c] = out[c]
      BY <1>5, <2>2
    <3> QED  BY <1>1, <2>1, <3>1, <3>2 DEF Alone, OnlyWrite, Unsettled
  <2>3. CASE c = d
    <3>1. tab[c].dirty /\ n = Write(tab[c].sent, tab[c].rev)
      BY <1>1, <2>1, <2>3 DEF Alone, OnlyWrite
    <3>2. tab[c].rev = lrev
      BY <2>1, <2>3, <3>1 DEF Alone, Unsettled
    <3>3. n.base = lrev /\ n.tree = tab[c].sent
      BY <3>1, <3>2 DEF Write
    <3>4. stored' = tab[c].sent /\ lrev' = lrev + 1
      BY <1>1, <1>3, <3>3
    <3>5. out'[c] = out[c] \ {Write(tab[c].sent, tab[c].rev)}
      BY <1>5, <2>3, <3>1
    <3>6. OnlyWrite(c)'
      BY <1>1, <2>1, <3>5 DEF Alone, OnlyWrite
    <3>7. Unsettled(c)'
      BY <1>1, <3>2, <3>4, <3>5 DEF Unsettled
    <3> QED  BY <1>1, <2>1, <3>1, <3>6, <3>7 DEF Alone
  <2> QED  BY <2>2, <2>3
<1> QED  BY <1>4, <1>6, <1>7 DEF AtRest

LEMMA ReceiveAtRest ==
    ASSUME Typed, Past, Current, StillFlying, AtRest, NEW d \in Clients, Receive(d)
    PROVE  AtRest'
<1> DEFINE f == Head(in[d])
<1>t. /\ tab[d].rev \in Nat /\ lrev \in Nat /\ tab[d].dirty \in BOOLEAN
  BY DEF Typed, ClientsTyped, DaemonTyped, Tabs
<1>1. UNCHANGED <<stored, lrev, lastEdit, wrote>>
  BY DEF Receive, daemonVars
<1>2. f \in Flying
  BY ReceiveFlies
<1>3. f.lrev \in Nat /\ f.lrev <= lrev /\ f.tree \in DragTrees
      /\ (f.lrev = lrev => f.tree = stored)
  BY <1>2, FlyingTyped DEF Typed, Past, Current, StillFlying, FrameSet
<1>4. StillTab(d) /\ StillOut(d)
  BY DEF AtRest
<1>5. /\ \/ tab' = tab /\ out' = out
         \/ /\ SettledBy(d, f)
            /\ tab'[d].placed = {} /\ tab'[d].gone = {} /\ tab'[d].adopt = FALSE
      /\ \A c \in Clients : c # d => tab'[c] = tab[c] /\ out'[c] = out[c]
  BY <1>4, StillReceive
<1>6. ASSUME tab' = tab, out' = out
      PROVE  AtRest'
  BY <1>1, <1>6 DEF AtRest, StillTab, StillOut, Alone, OnlyWrite, Unsettled
<1> HIDE DEF f
<1>7. ASSUME SettledBy(d, f), tab'[d].placed = {}, tab'[d].gone = {}, tab'[d].adopt = FALSE
      PROVE  AtRest'
  <2>1. ASSUME NEW c \in Clients, c # d
        PROVE  StillTab(c)' /\ StillOut(c)' /\ (wrote' \subseteq {c} => Alone(c)')
    <3>1. tab'[c] = tab[c] /\ out'[c] = out[c]
      BY <1>5, <2>1
    <3> QED  BY <1>1, <3>1 DEF AtRest, StillTab, StillOut, Alone, OnlyWrite, Unsettled
  <2>2. StillTab(d)'
    <3>1. tab'[d].tree \in {tab[d].tree, f.tree}
      BY <1>7 DEF SettledBy
    <3>2. tab'[d].dirty => tab'[d].sent \in DragTrees
      BY <1>3, <1>4, <1>7 DEF SettledBy, StillTab
    <3> QED  BY <1>3, <1>4, <1>7, <3>1, <3>2 DEF StillTab
  <2>3. StillOut(d)'
    <3>1. out'[d] = out[d] \/ out'[d] = out[d] \cup {Write(tab[d].tree, f.lrev)}
      BY <1>7 DEF SettledBy
    <3>2. Write(tab[d].tree, f.lrev) # Attach /\ Write(tab[d].tree, f.lrev).tree \in DragTrees
      BY <1>4 DEF Write, Attach, StillTab
    <3> QED  BY <1>4, <3>1, <3>2 DEF StillOut
  <2>4. ASSUME wrote' \subseteq {d}
        PROVE  Alone(d)'
    <3>1. Alone(d)
      BY <1>1, <2>4 DEF AtRest
    <3>2. Newer(tab[d], f) => f.lrev > tab[d].rev
      BY <1>4 DEF Newer, StillTab
    <3>3. Newer(tab[d], f) =>
            /\ tab[d].dirty /\ f.lrev = lrev /\ stored = tab[d].sent
            /\ Write(tab[d].sent, tab[d].rev) \notin out[d]
      BY <1>3, <1>t, <3>1, <3>2 DEF Alone, Unsettled
    <3>4. Newer(tab[d], f) => Echo(tab[d], f)
      BY <1>3, <3>3 DEF Echo
    <3>5. CASE ~Newer(tab[d], f)
      <4>1. /\ tab'[d].rev = tab[d].rev /\ tab'[d].tree = tab[d].tree
            /\ tab'[d].dirty = tab[d].dirty /\ tab'[d].sent = tab[d].sent
            /\ tab'[d].resend = tab[d].resend
            /\ out'[d] = out[d]
        BY <1>7, <3>5 DEF SettledBy
      <4> QED  BY <1>1, <3>1, <4>1 DEF Alone, OnlyWrite, Unsettled
    <3>6. CASE Newer(tab[d], f) /\ ~tab[d].resend
      <4>1. /\ tab'[d].rev = f.lrev /\ tab'[d].tree = tab[d].tree
            /\ tab'[d].dirty = FALSE
            /\ out'[d] = out[d]
        BY <1>7, <3>4, <3>6 DEF SettledBy
      <4>2. tab[d].tree = tab[d].sent
        BY <3>1, <3>3, <3>6 DEF Alone
      <4>3. OnlyWrite(d)'
        BY <3>1, <3>3, <3>6, <4>1 DEF Alone, OnlyWrite
      <4> QED  BY <1>1, <3>1, <3>3, <3>6, <4>1, <4>2, <4>3 DEF Alone
    <3>7. CASE Newer(tab[d], f) /\ tab[d].resend
      <4>1. /\ tab'[d].rev = f.lrev /\ tab'[d].tree = tab[d].tree
            /\ tab'[d].dirty = TRUE /\ tab'[d].sent = tab[d].tree
            /\ out'[d] = out[d] \cup {Write(tab[d].tree, f.lrev)}
        BY <1>7, <3>4, <3>7 DEF SettledBy
      <4>2. OnlyWrite(d)'
        BY <3>1, <3>3, <3>7, <4>1 DEF Alone, OnlyWrite
      <4>3. Unsettled(d)'
        BY <1>1, <3>3, <3>7, <4>1 DEF Unsettled
      <4> QED  BY <1>1, <3>1, <4>1, <4>2, <4>3 DEF Alone
    <3> QED  BY <3>5, <3>6, <3>7
  <2>5. stored' \in DragTrees
    BY <1>1 DEF AtRest
  <2> QED  BY <2>1, <2>2, <2>3, <2>4, <2>5 DEF AtRest
<1> QED  BY <1>5, <1>6, <1>7

LEMMA UndisturbedSteps ==
    ASSUME Typed, Past, Current, Undisturbed, [LayoutNext]_layoutVars
    PROVE  Undisturbed'
<1> SUFFICES ASSUME Quiet'
             PROVE  StillFlying' /\ AtRest'
  BY DEF Undisturbed
<1>1. Quiet /\ panes' = panes
  BY QuietBefore
<1>2. StillFlying /\ AtRest
  BY <1>1 DEF Undisturbed
<1>3. StillFlying'
  BY <1>1, <1>2, StillFlyingSteps DEF AtRest
<1>4. ASSUME NEW c \in Clients, Edit(c)
      PROVE  AtRest'
  BY <1>2, <1>4, EditAtRest
<1>5. ASSUME NEW c \in Clients, NEW p \in Closable, ConfirmClose(c, p)
      PROVE  AtRest'
  BY <1>2, <1>5, ConfirmCloseAtRest
<1>6. ASSUME NEW c \in Clients, NEW m \in out[c], HandleUpdateLayout(c, m)
      PROVE  AtRest'
  BY <1>1, <1>2, <1>6, UpdateAtRest
<1>7. ASSUME NEW c \in Clients, NEW m \in out[c], HandleDestroyPane(c, m)
      PROVE  AtRest'
  BY <1>1, <1>2, <1>7, DestroyAtRest
<1>8. ASSUME NEW c \in Clients, HandleAttach(c)
      PROVE  FALSE
  BY <1>2, <1>8 DEF HandleAttach, Delivered, AtRest, StillOut
<1>9. ASSUME NEW c \in Clients, Receive(c)
      PROVE  AtRest'
  BY <1>2, <1>9, ReceiveAtRest
<1>10. ASSUME (\E c \in Clients : Reconnect(c)) \/ \E p \in Later : Create(p)
       PROVE  FALSE
  <2>1. ASSUME NEW p \in Later, Create(p)
        PROVE  FALSE
    BY <2>1, <1>1 DEF Create, Quiet
  <2> QED  BY <1>10, <2>1 DEF Reconnect, Quiet
<1>11. ASSUME \/ \E b \in Builders : BroadcastState(b)
              \/ \E k \in casts : Queue(k)
              \/ FireCoalesced
              \/ UNCHANGED layoutVars
       PROVE  AtRest'
  <2>1. UNCHANGED <<stored, lrev, tab, lastEdit, wrote, out>>
    BY <1>11 DEF BroadcastState, Queue, FireCoalesced, layoutVars, daemonVars, clientVars,
                 histVars
  <2>2. \A c \in Clients : StillOut(c)'
    BY <1>2, <2>1 DEF AtRest, StillOut
  <2> QED  BY <1>2, <2>1, <2>2, RestUntouched
<1> QED  BY <1>3, <1>4, <1>5, <1>6, <1>7, <1>8, <1>9, <1>10, <1>11 DEF LayoutNext, Dispatching

LEMMA UndisturbedStart ==
    ASSUME LayoutInit
    PROVE  Current /\ Undisturbed
<1>1. Typed /\ Flying = {}
  BY LayoutStart, NothingFlies DEF LayoutIInv, Typed, ClientsTyped
<1>2. FirstTree \in DragTrees /\ FirstTree.edit = 0
  BY FirstTreeTyped DEF DragTrees, FirstTree
<1>3. ASSUME NEW c \in Clients
      PROVE  StillTab(c) /\ StillOut(c) /\ Alone(c)
  <2>1. /\ tab[c].rev = 1 /\ tab[c].tree = FirstTree /\ tab[c].dirty = FALSE
        /\ tab[c].placed = {} /\ tab[c].gone = {} /\ tab[c].adopt = FALSE
        /\ out[c] = {} /\ lastEdit[c] = 0 /\ lrev = 1 /\ stored = FirstTree
    BY DEF LayoutInit
  <2> QED  BY <1>2, <2>1 DEF StillTab, StillOut, Alone, OnlyWrite
<1>4. stored = FirstTree
  BY DEF LayoutInit
<1> QED  BY <1>1, <1>2, <1>3, <1>4 DEF Current, Undisturbed, StillFlying, AtRest

\* A drag a client shows is undone only by another client: while nobody else's
\* tree was stored, no pane came or went and its connection held, it shows the
\* last drag its user made, also one deferred behind a write in flight
\* (markLayoutChanged, syncTabLayout, handleUpdateLayout).
THEOREM EditsAreKept == LayoutSpec => []EditLostOnlyToOthers
<1>1. LayoutInit => LayoutIInv /\ Current /\ Undisturbed
  BY LayoutStart, UndisturbedStart
<1>2. (LayoutIInv /\ Current /\ Undisturbed) /\ [LayoutNext]_layoutVars
        => (LayoutIInv /\ Current /\ Undisturbed)'
  BY LayoutSteps, CurrentSteps, UndisturbedSteps DEF LayoutIInv
<1>3. LayoutIInv /\ Current /\ Undisturbed => EditLostOnlyToOthers
  BY DEF Undisturbed, Quiet, AtRest, Alone, EditLostOnlyToOthers
<1> QED  BY <1>1, <1>2, <1>3, PTL DEF LayoutSpec

-----------------------------------------------------------------------------
(* Revisions and what they are owed to *)

\* The closes a client still waits to see, and the clients that will send once
\* more when their write comes back.
Asked == {r \in Clients \X Closable : r[2] \in closeRequested[r[1]]}
Resending == {c \in Clients : tab[c].resend = TRUE}

\* A write that would be stored now, or a reason to send one: the stored tree
\* lacks a live pane, or a frame on its way says so.  All writes on the same
\* revision are one debt, the first one stored makes the others stale.
InTime == \E c \in Clients : \E m \in out[c] : m.kind = "layout" /\ m.base = lrev
Missing ==
    \/ ~(panes \subseteq Ids(stored))
    \/ \E f \in Flying : f.lrev = lrev /\ ~(f.panes \subseteq Ids(stored))
Due == IF InTime \/ Missing THEN 1 ELSE 0

Debt == lrev + Due + Cardinality(Asked) + Cardinality(Resending)
Means == 1 + edits + asks + Created + Closed

\* Writes in flight start from a revision that was stored, and the tree of a
\* frame names panes of the frame.
BasesPast ==
    \A c \in Clients : \A m \in out[c] : m.kind = "layout" => m.base <= lrev
FramesLive == \A f \in Flying : Ids(f.tree) \subseteq f.panes
Solvent == BasesPast /\ FramesLive /\ Debt <= Means

LEMMA DueIsOne == Due \in {0, 1} /\ (InTime \/ Missing => Due = 1) /\ (~InTime /\ ~Missing => Due = 0)
BY DEF Due

LEMMA CountsFinite ==
    /\ IsFiniteSet(Asked) /\ Cardinality(Asked) \in Nat
    /\ IsFiniteSet(Resending) /\ Cardinality(Resending) \in Nat
    /\ IsFiniteSet(AllPanes) /\ Created \in Nat /\ Closed \in Nat
<1>1. IsFiniteSet(Clients) /\ IsFiniteSet(AllPanes)
  BY LayoutSyncAssumption DEF AllPanes
<1>2. IsFiniteSet(Closable)
  BY <1>1, FirstPanes, FS_Subset
<1>3. IsFiniteSet(Clients \X Closable)
  BY <1>1, <1>2, FS_Product
<1>4. Asked \subseteq Clients \X Closable /\ Resending \subseteq Clients
  BY DEF Asked, Resending
<1>5. IsFiniteSet(Asked) /\ IsFiniteSet(Resending)
  BY <1>1, <1>3, <1>4, FS_Subset
<1>6. IsFiniteSet(Later \ unborn)
  BY <1>1, FirstPanes, FS_Subset
<1>7. IsFiniteSet((First \cup Later) \ (panes \cup unborn))
  BY <1>1, FS_Subset DEF AllPanes
<1> QED  BY <1>1, <1>5, <1>6, <1>7, FS_CardinalityType DEF Created, Closed

\* Two finite sets of which one is the other and at most one element more.
LEMMA OneMore ==
    ASSUME NEW S, NEW T, NEW x, IsFiniteSet(S), T \subseteq S \cup {x}
    PROVE  IsFiniteSet(T) /\ Cardinality(T) <= Cardinality(S) + 1
<1>1. /\ IsFiniteSet(S \cup {x})
      /\ Cardinality(S \cup {x}) = IF x \in S THEN Cardinality(S) ELSE Cardinality(S) + 1
  BY FS_AddElement
<1>2. IsFiniteSet(T) /\ Cardinality(T) <= Cardinality(S \cup {x})
  BY <1>1, FS_Subset
<1>3. Cardinality(S) \in Nat /\ Cardinality(T) \in Nat
  BY <1>2, FS_CardinalityType
<1> QED  BY <1>1, <1>2, <1>3

LEMMA OneLess ==
    ASSUME NEW S, NEW T, NEW x \in S, IsFiniteSet(S), T \subseteq S \ {x}
    PROVE  IsFiniteSet(T) /\ Cardinality(T) <= Cardinality(S) - 1
<1>1. IsFiniteSet(S \ {x}) /\ Cardinality(S \ {x}) = Cardinality(S) - 1
  BY FS_RemoveElement
<1>2. IsFiniteSet(T) /\ Cardinality(T) <= Cardinality(S \ {x})
  BY <1>1, FS_Subset
<1> QED  BY <1>1, <1>2

LEMMA NoMore ==
    ASSUME NEW S, NEW T, IsFiniteSet(S), T \subseteq S
    PROVE  IsFiniteSet(T) /\ Cardinality(T) <= Cardinality(S)
BY FS_Subset

LEMMA MissingBefore ==
    ASSUME Typed, [LayoutNext]_layoutVars, stored' = stored, lrev' = lrev,
           panes' \subseteq panes, Missing'
    PROVE  Missing
<1>1. Flying' \subseteq Flying \cup {Frame}
  BY FlightSteps DEF FlightMoves
<1>2. Frame.lrev = lrev /\ Frame.panes = panes
  BY DEF Frame
<1>3. CASE ~(panes' \subseteq Ids(stored'))
  BY <1>3 DEF Missing
<1>4. CASE \E f \in Flying' : f.lrev = lrev' /\ ~(f.panes \subseteq Ids(stored'))
  BY <1>1, <1>2, <1>4 DEF Missing
<1> QED  BY <1>3, <1>4 DEF Missing

LEMMA FramesLiveSteps ==
    ASSUME Typed, FramesLive, [LayoutNext]_layoutVars
    PROVE  FramesLive'
<1>1. Flying' \subseteq Flying \cup {Frame}
  BY FlightSteps DEF FlightMoves
<1>2. Ids(Frame.tree) \subseteq Frame.panes
  BY DEF Typed, DaemonTyped, Frame
<1> QED  BY <1>1, <1>2 DEF FramesLive

\* A write is sent on the revision the client holds.
LEMMA SentBase ==
    ASSUME Typed, Past, [LayoutNext]_layoutVars,
           NEW d \in Clients, NEW m \in out'[d], m.kind = "layout", m \notin out[d]
    PROVE  m.base \in Nat /\ m.base <= lrev
<1>t. /\ tab \in [Clients -> Tabs] /\ out \in [Clients -> SUBSET Messages] /\ lrev \in Nat
      /\ \A c \in Clients : tab[c].rev \in Nat /\ tab[c].rev <= lrev
  BY DEF Typed, ClientsTyped, DaemonTyped, Past, Tabs
<1>s. ASSUME NEW t \in Tabs, t.rev <= lrev, m \in Sent(t)
      PROVE  m.base \in Nat /\ m.base <= lrev
  <2>1. m = Write(t.tree, t.rev)
    BY <1>s DEF Sent
  <2> QED  BY <1>s, <2>1 DEF Write, Tabs
<1>1. ASSUME NEW c \in Clients, Edit(c)
      PROVE  m.base \in Nat /\ m.base <= lrev
  <2>1. PICK t \in Tabs : /\ t.rev = tab[c].rev
                          /\ out' = [out EXCEPT ![c] = out[c] \cup Sent(t)]
    BY <1>1, DraggedTab DEF Typed
  <2>2. m \in Sent(t)
    BY <2>1, <1>t
  <2> QED  BY <2>1, <2>2, <1>s, <1>t
<1>2. ASSUME NEW c \in Clients, Receive(c)
      PROVE  m.base \in Nat /\ m.base <= lrev
  <2> DEFINE f == Head(in[c])
             s == Synced(tab[c], f, closeRequested[c])
  <2>1. PICK t \in Tabs : /\ t = Reconciled(c, s, f, closeRequested[c])
                          /\ out' = out \/ out' = [out EXCEPT ![c] = out[c] \cup Sent(t)]
    BY <1>2, ReceiveParts DEF Typed
  <2>2. m \in Sent(t)
    BY <2>1, <1>t
  <2>3. f \in FrameSet /\ f \in Flying
    BY <1>2, ReceiveParts, ReceiveFlies DEF Typed
  <2>4. f.lrev <= lrev
    BY <2>3 DEF Past
  <2>5. s \in Tabs /\ s.rev \in {tab[c].rev, f.lrev}
    <3>1. tab[c] \in Tabs
      BY <1>t
    <3> HIDE DEF f
    <3> QED  BY <2>3, <3>1, SyncedRev
  <2>6. t.rev = s.rev
    <3> HIDE DEF s, f
    <3> QED  BY <2>1, <2>3, <2>5, ReconciledFlags
  <2>7. t.rev <= lrev
    BY <2>4, <2>5, <2>6, <1>t
  <2> QED  BY <2>2, <2>7, <1>s
<1>3. ASSUME NEW c \in Clients, NEW p \in Closable, ConfirmClose(c, p)
      PROVE  FALSE
  <2>1. m = Close(p)
    BY <1>3, <1>t DEF ConfirmClose
  <2> QED  BY <2>1 DEF Close
<1>4. ASSUME NEW c \in Clients, Reconnect(c)
      PROVE  FALSE
  <2>1. m = Attach
    BY <1>4, <1>t DEF Reconnect
  <2> QED  BY <2>1 DEF Attach
<1>5. ASSUME NEW c \in Clients, NEW n, NEW kind, Delivered(c, n, kind)
      PROVE  FALSE
  BY <1>5, <1>t DEF Delivered
<1>6. ASSUME NEW c \in Clients, NEW n,
             HandleUpdateLayout(c, n) \/ HandleDestroyPane(c, n) \/ HandleAttach(c)
      PROVE  FALSE
  BY <1>5, <1>6 DEF HandleUpdateLayout, HandleDestroyPane, HandleAttach
<1>7. ASSUME \/ \E p \in Later : Create(p)
             \/ \E b \in Builders : BroadcastState(b)
             \/ FireCoalesced
             \/ \E k \in casts : Queue(k)
             \/ UNCHANGED layoutVars
      PROVE  FALSE
  BY <1>7 DEF Create, BroadcastState, FireCoalesced, Queue, layoutVars
<1> QED  BY <1>1, <1>2, <1>3, <1>4, <1>6, <1>7 DEF LayoutNext, Dispatching

LEMMA BasesPastSteps ==
    ASSUME Typed, Past, BasesPast, [LayoutNext]_layoutVars
    PROVE  BasesPast'
<1>1. lrev \in Nat /\ (lrev' = lrev \/ lrev' = lrev + 1)
  BY RevisionSteps DEF Typed, DaemonTyped
<1>2. ASSUME NEW c \in Clients, NEW m \in out'[c], m.kind = "layout"
      PROVE  m.base <= lrev'
  <2>1. CASE m \in out[c]
    <3>1. m.base <= lrev /\ m \in Messages
      BY <1>2, <2>1 DEF BasesPast, Typed, ClientsTyped
    <3>2. m.base \in Nat
      BY <1>2, <3>1 DEF Messages, Writes, Closes, Attach
    <3> QED  BY <1>1, <3>1, <3>2
  <2>2. CASE m \notin out[c]
    BY <1>1, <1>2, <2>2, SentBase
  <2> QED  BY <2>1, <2>2
<1> QED  BY <1>2 DEF BasesPast

\* A step that stores nothing and sends nothing adds no debt.
LEMMA DueKept ==
    ASSUME Typed, [LayoutNext]_layoutVars, stored' = stored, lrev' = lrev,
           panes' \subseteq panes,
           \A c \in Clients : \A m \in out'[c] :
               m.kind = "layout" => m \in out[c] \/ m.base # lrev
    PROVE  Due' <= Due
<1>1. InTime' => InTime
  BY DEF InTime
<1>2. Missing' => Missing
  BY MissingBefore
<1> QED  BY <1>1, <1>2 DEF Due

LEMMA DueGrows == Due <= 1 /\ Due >= 0 /\ Due \in Int /\ Due' <= 1 /\ Due' >= 0 /\ Due' \in Int
BY DEF Due

\* A step that stores a tree settles the debt: every other write is stale now.
LEMMA StoringSettles ==
    ASSUME Typed, Past, BasesPast, [LayoutNext]_layoutVars, lrev' = lrev + 1,
           \A c \in Clients : out'[c] \subseteq out[c]
    PROVE  /\ ~InTime'
           /\ Missing' => ~(panes' \subseteq Ids(stored'))
<1>1. lrev \in Nat /\ rev \in Nat
  BY DEF Typed, DaemonTyped
<1>2. ~InTime'
  <2>1. ASSUME NEW c \in Clients, NEW m \in out'[c], m.kind = "layout", m.base = lrev'
        PROVE  FALSE
    <3>1. m \in out[c]
      BY <2>1
    <3>2. m.base <= lrev
      BY <2>1, <3>1 DEF BasesPast
    <3> QED  BY <1>1, <2>1, <3>2
  <2> QED  BY <2>1 DEF InTime
<1>3. ASSUME NEW f \in Flying', f.lrev = lrev'
      PROVE  FALSE
  <2>1. f \in Flying
    BY <1>1, FlightSteps, RevisionSteps DEF FlightMoves
  <2>2. f.lrev <= lrev
    BY <2>1 DEF Past
  <2> QED  BY <1>1, <1>3, <2>2
<1> QED  BY <1>2, <1>3 DEF Missing

\* The arithmetic of one step.
LEMMA StaysSolvent ==
    ASSUME Debt <= Means, Typed, Typed',
           Cardinality(Asked)' \in Nat, Cardinality(Resending)' \in Nat,
           Created' \in Nat, Closed' \in Nat,
           (lrev' - lrev) + (Due' - Due)
               + (Cardinality(Asked)' - Cardinality(Asked))
               + (Cardinality(Resending)' - Cardinality(Resending))
             <= (edits' - edits) + (asks' - asks) + (Created' - Created) + (Closed' - Closed)
    PROVE  (Debt <= Means)'
<1>1. lrev \in Nat /\ lrev' \in Nat /\ edits \in Nat /\ edits' \in Nat
      /\ asks \in Nat /\ asks' \in Nat
  BY DEF Typed, DaemonTyped, BoundsTyped
<1>2. Due \in Int /\ Due' \in Int
  BY DueGrows
<1>3. Cardinality(Asked) \in Nat /\ Cardinality(Resending) \in Nat
      /\ Created \in Nat /\ Closed \in Nat
  BY CountsFinite
<1> QED  BY <1>1, <1>2, <1>3 DEF Debt, Means

LEMMA SameAsked ==
    ASSUME closeRequested' = closeRequested
    PROVE  Asked' = Asked
BY DEF Asked

LEMMA SamePanes ==
    ASSUME panes' = panes, unborn' = unborn
    PROVE  Created' = Created /\ Closed' = Closed
BY DEF Created, Closed

LEMMA EditSolvent ==
    ASSUME Typed, Typed', Debt <= Means, NEW c \in Clients, Edit(c)
    PROVE  (Debt <= Means)'
<1>t. tab \in [Clients -> Tabs] /\ edits \in Nat /\ asks \in Nat /\ lrev \in Nat
  BY DEF Typed, ClientsTyped, BoundsTyped, DaemonTyped
<1>0. [LayoutNext]_layoutVars
  BY DEF LayoutNext
<1>1. PICK u \in Tabs :
         /\ u.dirty = tab[c].dirty
         /\ tab' = [tab EXCEPT ![c] = Marked(u)]
         /\ out' = [out EXCEPT ![c] = out[c] \cup Sent(u)]
  BY DraggedTab DEF Typed
<1>2. /\ UNCHANGED <<stored, lrev, panes, unborn, closeRequested, asks>>
      /\ edits' = edits + 1
  BY DEF Edit, daemonVars
<1>3. Asked' = Asked /\ Created' = Created /\ Closed' = Closed
  BY <1>2, SameAsked, SamePanes
<1>4. /\ Cardinality(Asked) \in Nat /\ IsFiniteSet(Resending) /\ Cardinality(Resending) \in Nat
      /\ Created \in Nat /\ Closed \in Nat
  BY CountsFinite
<1>5. Marked(u).resend = u.dirty
  BY MarkedParts
<1>6. \A d \in Clients : d # c => tab'[d] = tab[d]
  BY <1>1, <1>t
<1>7. tab'[c].resend = tab[c].dirty
  BY <1>1, <1>5, <1>t
<1>8. CASE tab[c].dirty = TRUE
  <2>1. Resending' \subseteq Resending \cup {c}
    BY <1>6 DEF Resending
  <2>2. Cardinality(Resending)' <= Cardinality(Resending) + 1 /\ Cardinality(Resending)' \in Nat
    BY <1>4, <2>1, OneMore, FS_CardinalityType
  <2>3. Sent(u) = {}
    BY <1>1, <1>8 DEF Sent
  <2>4. Due' <= Due
    <3>1. out' = out
      BY <1>1, <2>3 DEF Typed, ClientsTyped
    <3> QED  BY <1>0, <1>2, <3>1, DueKept
  <2> QED  BY <1>2, <1>3, <1>4, <1>t, <2>2, <2>4, DueGrows, StaysSolvent
<1>9. CASE tab[c].dirty # TRUE
  <2>1. Resending' \subseteq Resending
    <3>1. c \notin Resending'
      BY <1>7, <1>9 DEF Resending
    <3> QED  BY <1>6, <3>1 DEF Resending
  <2>2. Cardinality(Resending)' <= Cardinality(Resending) /\ Cardinality(Resending)' \in Nat
    BY <1>4, <2>1, NoMore, FS_CardinalityType
  <2> QED  BY <1>2, <1>3, <1>4, <1>t, <2>2, DueGrows, StaysSolvent
<1> QED  BY <1>8, <1>9

LEMMA ConfirmCloseSolvent ==
    ASSUME Typed, Typed', Debt <= Means, NEW c \in Clients, NEW p \in Closable,
           ConfirmClose(c, p)
    PROVE  (Debt <= Means)'
<1>t. edits \in Nat /\ asks \in Nat /\ lrev \in Nat
  BY DEF Typed, BoundsTyped, DaemonTyped
<1>0. [LayoutNext]_layoutVars
  BY DEF LayoutNext
<1>1. /\ UNCHANGED <<stored, lrev, panes, unborn, tab, edits>>
      /\ asks' = asks + 1
      /\ closeRequested' = [closeRequested EXCEPT ![c] = closeRequested[c] \cup {p}]
      /\ out' = [out EXCEPT ![c] = out[c] \cup {Close(p)}]
  BY DEF ConfirmClose, daemonVars
<1>2. Resending' = Resending /\ Created' = Created /\ Closed' = Closed
  BY <1>1, SamePanes DEF Resending
<1>3. /\ IsFiniteSet(Asked) /\ Cardinality(Asked) \in Nat /\ Cardinality(Resending) \in Nat
      /\ Created \in Nat /\ Closed \in Nat
  BY CountsFinite
<1>4. Asked' \subseteq Asked \cup {<<c, p>>}
  BY <1>1 DEF Asked, Typed, ClientsTyped
<1>5. Cardinality(Asked)' <= Cardinality(Asked) + 1 /\ Cardinality(Asked)' \in Nat
  BY <1>3, <1>4, OneMore, FS_CardinalityType
<1>6. Due' <= Due
  <2>1. Close(p).kind = "close"
    BY DEF Close
  <2>2. \A d \in Clients : \A m \in out'[d] : m.kind = "layout" => m \in out[d]
    BY <1>1, <2>1 DEF Typed, ClientsTyped
  <2> QED  BY <1>0, <1>1, <2>2, DueKept
<1> QED  BY <1>1, <1>2, <1>3, <1>5, <1>6, <1>t, DueGrows, StaysSolvent

LEMMA CreateSolvent ==
    ASSUME Typed, Typed', Debt <= Means, NEW p \in Later, Create(p)
    PROVE  (Debt <= Means)'
<1>t. edits \in Nat /\ asks \in Nat /\ lrev \in Nat
  BY DEF Typed, BoundsTyped, DaemonTyped
<1>1. /\ UNCHANGED <<lrev, tab, closeRequested, edits, asks>>
      /\ p \in unborn /\ panes' = panes \cup {p} /\ unborn' = unborn \ {p}
  BY DEF Create, clientVars
<1>2. Resending' = Resending /\ Asked' = Asked
  BY <1>1, SameAsked DEF Resending
<1>3. /\ Cardinality(Asked) \in Nat /\ Cardinality(Resending) \in Nat
      /\ Created \in Nat /\ Closed \in Nat
  BY CountsFinite
<1>4. Closed' = Closed
  <2>1. panes' \cup unborn' = panes \cup unborn
    BY <1>1
  <2> QED  BY <2>1 DEF Closed
<1>5. Created' = Created + 1
  <2>1. Later \ unborn' = (Later \ unborn) \cup {p} /\ p \notin Later \ unborn
    BY <1>1
  <2>2. IsFiniteSet(Later \ unborn)
    BY CountsFinite, FirstPanes, FS_Subset
  <2> QED  BY <2>1, <2>2, FS_AddElement DEF Created
<1> QED  BY <1>1, <1>2, <1>3, <1>4, <1>5, <1>t, DueGrows, StaysSolvent

LEMMA UpdateSolvent ==
    ASSUME Typed, Typed', Past, BasesPast, Debt <= Means, NEW c \in Clients,
           NEW n \in out[c], HandleUpdateLayout(c, n)
    PROVE  (Debt <= Means)'
<1>t. edits \in Nat /\ asks \in Nat /\ lrev \in Nat
  BY DEF Typed, BoundsTyped, DaemonTyped
<1>0. [LayoutNext]_layoutVars
  BY DEF LayoutNext, Dispatching
<1>1. /\ UNCHANGED <<tab, closeRequested, panes, unborn, edits, asks>>
      /\ out' = [out EXCEPT ![c] = out[c] \ {n}] /\ n.kind = "layout"
      /\ \/ n.base = lrev /\ stored' = Valid(n.tree) /\ lrev' = lrev + 1
         \/ n.base # lrev /\ UNCHANGED <<stored, lrev>>
  BY Zenon DEF HandleUpdateLayout, Delivered, BaseCurrent, clientVars, boundVars
<1>2. Resending' = Resending /\ Asked' = Asked /\ Created' = Created /\ Closed' = Closed
  BY <1>1, SameAsked, SamePanes DEF Resending
<1>3. /\ Cardinality(Asked) \in Nat /\ Cardinality(Resending) \in Nat
      /\ Created \in Nat /\ Closed \in Nat
  BY CountsFinite
<1>4. \A d \in Clients : out'[d] \subseteq out[d]
  BY <1>1 DEF Typed, ClientsTyped
<1>5. CASE n.base = lrev /\ stored' = Valid(n.tree) /\ lrev' = lrev + 1
  <2>1. Due = 1
    BY <1>1, <1>5, DueIsOne DEF InTime
  <2>2. n.tree \in Trees
    BY <1>1 DEF Typed, ClientsTyped, Messages, Writes, Closes, Attach
  <2>3. Ids(stored') = panes
    BY <1>5, <2>2, ValidTree DEF Typed, DaemonTyped
  <2>4. ~InTime' /\ ~Missing'
    BY <1>0, <1>1, <1>4, <1>5, <2>3, StoringSettles
  <2>5. Due' = 0
    BY <2>4 DEF Due
  <2> QED  BY <1>1, <1>2, <1>3, <1>5, <1>t, <2>1, <2>5, StaysSolvent
<1>6. CASE UNCHANGED <<stored, lrev>>
  <2>1. Due' <= Due
    BY <1>0, <1>1, <1>4, <1>6, DueKept
  <2> QED  BY <1>1, <1>2, <1>3, <1>6, <1>t, <2>1, DueGrows, StaysSolvent
<1> QED  BY <1>1, <1>5, <1>6

LEMMA DestroySolvent ==
    ASSUME Typed, Typed', Past, BasesPast, Debt <= Means, NEW c \in Clients,
           NEW n \in out[c], HandleDestroyPane(c, n)
    PROVE  (Debt <= Means)'
<1>t. /\ edits \in Nat /\ asks \in Nat /\ lrev \in Nat /\ stored \in Trees
      /\ Ids(stored) \subseteq panes /\ panes \subseteq AllPanes /\ panes \cap unborn = {}
  BY DEF Typed, BoundsTyped, DaemonTyped
<1>0. [LayoutNext]_layoutVars
  BY DEF LayoutNext, Dispatching
<1>1. /\ UNCHANGED <<tab, closeRequested, unborn, edits, asks>>
      /\ out' = [out EXCEPT ![c] = out[c] \ {n}]
      /\ panes' = panes \ {n.pane} /\ stored' = Keeping(stored, panes')
      /\ lrev' = IF n.pane \in Ids(stored) THEN lrev + 1 ELSE lrev
  BY DEF HandleDestroyPane, Delivered, clientVars, boundVars
<1>2. Resending' = Resending /\ Asked' = Asked /\ Created' = Created
  BY <1>1, SameAsked DEF Resending, Created
<1>3. /\ Cardinality(Asked) \in Nat /\ Cardinality(Resending) \in Nat
      /\ Created \in Nat /\ Closed \in Nat
  BY CountsFinite
<1>4. \A d \in Clients : out'[d] \subseteq out[d]
  BY <1>1 DEF Typed, ClientsTyped
<1> DEFINE gone == AllPanes \ (panes \cup unborn)
           newGone == AllPanes \ (panes' \cup unborn')
<1>5. IsFiniteSet(gone) /\ IsFiniteSet(newGone)
  BY CountsFinite, FS_Subset
<1>6. Closed = Cardinality(gone) /\ Closed' = Cardinality(newGone)
  BY DEF Closed, AllPanes
<1>7. gone \subseteq newGone /\ (n.pane \in panes => newGone = gone \cup {n.pane} /\ n.pane \notin gone)
  BY <1>1, <1>t
<1> HIDE DEF gone, newGone
<1>8. Closed' \in Nat
  BY <1>5, <1>6, FS_CardinalityType
<1>9. CASE n.pane \in Ids(stored)
  <2>1. Closed' = Closed + 1
    BY <1>5, <1>6, <1>7, <1>9, <1>t, FS_AddElement
  <2>2. lrev' = lrev + 1
    BY <1>1, <1>9
  <2>3. Ids(stored') = Ids(stored) \cap panes'
    BY <1>1, <1>t, KeepingTree
  <2>4. ~InTime' /\ (Missing' => Missing)
    <3>1. ~InTime' /\ (Missing' => ~(panes' \subseteq Ids(stored')))
      BY <1>0, <1>4, <2>2, StoringSettles
    <3>2. ~(panes' \subseteq Ids(stored')) => ~(panes \subseteq Ids(stored))
      BY <1>1, <2>3
    <3> QED  BY <3>1, <3>2 DEF Missing
  <2>5. Due' <= Due
    BY <2>4 DEF Due
  <2> QED  BY <1>1, <1>2, <1>3, <1>8, <1>t, <2>1, <2>2, <2>5, DueGrows, StaysSolvent
<1>10. CASE n.pane \notin Ids(stored)
  <2>1. lrev' = lrev
    BY <1>1, <1>10
  <2>2. Ids(stored) \subseteq panes' /\ panes' \subseteq panes
    BY <1>1, <1>10, <1>t
  <2>3. stored' = stored
    BY <1>1, <1>t, <2>2, KeepingAll
  <2>4. Due' <= Due
    BY <1>0, <1>4, <2>1, <2>2, <2>3, DueKept
  <2>5. Closed' >= Closed
    BY <1>5, <1>6, <1>7, FS_Subset
  <2> QED  BY <1>1, <1>2, <1>3, <1>8, <1>t, <2>1, <2>4, <2>5, DueGrows, StaysSolvent
<1> QED  BY <1>9, <1>10

\* What a client sends for a frame is owed to a close it sees done, to a drag
\* behind the write that comes back, or to a pane the stored tree lacks.
LEMMA SyncOwed ==
    ASSUME Typed, Past, Current, FramesLive, NEW c \in Clients, NEW f \in Flying,
           SyncSends(tab[c], f, closeRequested[c]),
           ~(Newer(tab[c], f) /\ tab[c].resend = TRUE)
    PROVE  /\ Missing \/ f.lrev # lrev
           /\ ~Newer(tab[c], f) => f.lrev = tab[c].rev /\ tab[c].dirty = FALSE
<1> DEFINE t == tab[c]
           asked == closeRequested[c]
<1>1. t \in Tabs /\ f \in FrameSet
  BY FlyingTyped DEF Typed, ClientsTyped
<1>2. Ids(f.tree) \subseteq f.panes
  BY DEF FramesLive
<1>3. ~Adopts(t, f)
  BY <1>2 DEF SyncSends
<1>4. ~(Newer(t, f) /\ Echo(t, f) /\ t.resend)
  BY <1>1 DEF Tabs
<1>5. ~Held(t, f) /\ Missed(t, f)
  BY <1>3, <1>4 DEF SyncSends
<1>6. ~(f.panes \subseteq Ids(f.tree))
  BY <1>2, <1>5 DEF Missed
<1>7. f.lrev = lrev => Missing
  BY <1>6 DEF Missing, Current
<1>8. ~Newer(t, f) => f.lrev = t.rev /\ t.dirty = FALSE
  <2>1. f.lrev \in Nat /\ t.rev \in Nat /\ t.dirty \in BOOLEAN
    BY <1>1 DEF Tabs, FrameSet
  <2>2. ASSUME ~Newer(t, f)
        PROVE  f.lrev = t.rev /\ t.dirty = FALSE
    <3>1. ~(f.lrev > t.rev) /\ ~(f.lrev < t.rev) /\ ~t.dirty
      BY <1>5, <2>2 DEF Held, Newer
    <3> QED  BY <2>1, <3>1
  <2> QED  BY <2>2
<1> QED  BY <1>7, <1>8

\* What a received frame leaves of a client's promises.
ReceivedTab(c, f, r) ==
    /\ r \in Tabs
    /\ Newer(tab[c], f) => r.rev = f.lrev /\ r.dirty = FALSE /\ r.resend = FALSE
    /\ ~Newer(tab[c], f) =>
          r.rev = tab[c].rev /\ r.dirty = tab[c].dirty /\ r.resend = tab[c].resend

LEMMA ReceiveShape ==
    ASSUME Typed, NEW c \in Clients, Receive(c)
    PROVE  \/ UNCHANGED <<closeRequested, tab, out>>
           \/ \E r, gone :
                 /\ ReceivedTab(c, Head(in[c]), r)
                 /\ closeRequested' = [closeRequested EXCEPT ![c] = closeRequested[c] \ gone]
                 /\ \/ tab' = [tab EXCEPT ![c] = r] /\ out' = out
                    \/ /\ tab' = [tab EXCEPT ![c] = Marked(r)]
                       /\ out' = [out EXCEPT ![c] = out[c] \cup Sent(r)]
                       /\ \/ SyncSends(tab[c], Head(in[c]), closeRequested[c])
                          \/ gone \cap closeRequested[c] # {}
<1> DEFINE f == Head(in[c])
           asked == closeRequested[c]
           t == tab[c]
           s == Synced(t, f, asked)
           r == Reconciled(c, s, f, asked)
           gone == Pruned(s, f) \cup (IF Adopts(t, f) THEN Ids(f.tree) \ f.panes ELSE {})
<1>t. t \in Tabs /\ f \in FrameSet
  BY ReceiveParts DEF Typed, ClientsTyped
<1>1. CASE ~AcceptStateRev(c, f)
  BY <1>1 DEF Receive
<1>2. CASE AcceptStateRev(c, f)
  <2>1. /\ closeRequested' = [closeRequested EXCEPT ![c] = closeRequested[c] \ gone]
        /\ IF SyncSends(t, f, asked) \/ Pruned(s, f) \cap asked # {}
           THEN MarkLayoutChanged(c, r)
           ELSE tab' = [tab EXCEPT ![c] = r] /\ out' = out
    BY <1>2 DEF Receive, Typed, ClientsTyped
  <2>2. MarkLayoutChanged(c, r) => /\ tab' = [tab EXCEPT ![c] = Marked(r)]
                                   /\ out' = [out EXCEPT ![c] = out[c] \cup Sent(r)]
    BY DEF MarkLayoutChanged, Typed, ClientsTyped
  <2>3. s \in Tabs
    <3> HIDE DEF f, t, asked
    <3> QED  BY <1>t, SyncedRev
  <2>4. Newer(t, f) => s.rev = f.lrev /\ s.dirty = FALSE /\ s.resend = FALSE
    <3> HIDE DEF f, t, asked
    <3> QED  BY <1>t, SyncedNewer
  <2>5. ~Newer(t, f) => s.rev = t.rev /\ s.dirty = t.dirty /\ s.resend = t.resend
    <3> HIDE DEF f, t, asked
    <3> QED  BY <1>t, SyncedOlder
  <2>6. r \in Tabs /\ r.rev = s.rev /\ r.dirty = s.dirty /\ r.resend = s.resend
    <3> HIDE DEF s, f, asked
    <3> QED  BY <1>t, <2>3, ReconciledFlags
  <2>7. ReceivedTab(c, f, r)
    <3> HIDE DEF s, r
    <3> QED  BY <2>4, <2>5, <2>6 DEF ReceivedTab
  <2>8. Pruned(s, f) \subseteq gone
    <3> HIDE DEF s
    <3> QED  OBVIOUS
  <2> HIDE DEF r, gone, s
  <2>9. \/ tab' = [tab EXCEPT ![c] = r] /\ out' = out
        \/ /\ tab' = [tab EXCEPT ![c] = Marked(r)]
           /\ out' = [out EXCEPT ![c] = out[c] \cup Sent(r)]
           /\ SyncSends(t, f, asked) \/ gone \cap asked # {}
    BY <2>1, <2>2, <2>8
  <2> QED  BY <2>1, <2>6, <2>7, <2>9
<1> QED  BY <1>1, <1>2

LEMMA ReceiveSolvent ==
    ASSUME Typed, Typed', Past, Current, FramesLive, Debt <= Means,
           NEW c \in Clients, Receive(c)
    PROVE  (Debt <= Means)'
<1> DEFINE f == Head(in[c])
<1>t. /\ edits \in Nat /\ asks \in Nat /\ lrev \in Nat /\ tab \in [Clients -> Tabs]
      /\ out \in [Clients -> SUBSET Messages] /\ tab[c] \in Tabs
      /\ closeRequested \in [Clients -> SUBSET Closable]
  BY DEF Typed, BoundsTyped, DaemonTyped, ClientsTyped
<1>0. [LayoutNext]_layoutVars
  BY DEF LayoutNext
<1>1. UNCHANGED <<stored, lrev, panes, unborn, edits, asks>>
  BY DEF Receive, daemonVars, boundVars
<1>2. Created' = Created /\ Closed' = Closed
  BY <1>1, SamePanes
<1>3. /\ IsFiniteSet(Asked) /\ Cardinality(Asked) \in Nat
      /\ IsFiniteSet(Resending) /\ Cardinality(Resending) \in Nat
      /\ Created \in Nat /\ Closed \in Nat
  BY CountsFinite
<1>4. f \in Flying
  BY ReceiveFlies
<1>5. CASE UNCHANGED <<closeRequested, tab, out>>
  <2>1. Asked' = Asked /\ Resending' = Resending
    BY <1>5 DEF Asked, Resending
  <2>2. Due' <= Due
    BY <1>0, <1>1, <1>5, DueKept
  <2> QED  BY <1>1, <1>2, <1>3, <1>t, <2>1, <2>2, DueGrows, StaysSolvent
<1>6. CASE ~UNCHANGED <<closeRequested, tab, out>>
  <2> HIDE DEF f
  <2>1. PICK r, gone :
           /\ ReceivedTab(c, f, r)
           /\ closeRequested' = [closeRequested EXCEPT ![c] = closeRequested[c] \ gone]
           /\ \/ tab' = [tab EXCEPT ![c] = r] /\ out' = out
              \/ /\ tab' = [tab EXCEPT ![c] = Marked(r)]
                 /\ out' = [out EXCEPT ![c] = out[c] \cup Sent(r)]
                 /\ SyncSends(tab[c], f, closeRequested[c]) \/ gone \cap closeRequested[c] # {}
    <3>1. \/ UNCHANGED <<closeRequested, tab, out>>
          \/ \E r, gone :
                /\ ReceivedTab(c, f, r)
                /\ closeRequested' = [closeRequested EXCEPT ![c] = closeRequested[c] \ gone]
                /\ \/ tab' = [tab EXCEPT ![c] = r] /\ out' = out
                   \/ /\ tab' = [tab EXCEPT ![c] = Marked(r)]
                      /\ out' = [out EXCEPT ![c] = out[c] \cup Sent(r)]
                      /\ SyncSends(tab[c], f, closeRequested[c]) \/ gone \cap closeRequested[c] # {}
      BY ReceiveShape, Zenon DEF f
    <3> QED  BY <1>6, <3>1
  <2>2. Asked' \subseteq Asked
    BY <2>1, <1>t DEF Asked
  <2>3. Cardinality(Asked)' <= Cardinality(Asked) /\ Cardinality(Asked)' \in Nat
    BY <1>3, <2>2, NoMore, FS_CardinalityType
  <2>4. r.resend = TRUE => tab[c].resend = TRUE /\ ~Newer(tab[c], f)
    BY <2>1 DEF ReceivedTab
  <2>5. \A d \in Clients : d # c => tab'[d] = tab[d]
    BY <2>1, <1>t
  <2>6. CASE tab' = [tab EXCEPT ![c] = r] /\ out' = out
    <3>1. tab'[c].resend = r.resend
      BY <2>6, <1>t
    <3>2. Resending' \subseteq Resending
      BY <2>4, <2>5, <3>1 DEF Resending
    <3>3. Cardinality(Resending)' <= Cardinality(Resending) /\ Cardinality(Resending)' \in Nat
      BY <1>3, <3>2, NoMore, FS_CardinalityType
    <3>4. Due' <= Due
      BY <1>0, <1>1, <2>6, DueKept
    <3> QED  BY <1>1, <1>2, <1>3, <1>t, <2>3, <3>3, <3>4, DueGrows, StaysSolvent
  <2>7. CASE /\ tab' = [tab EXCEPT ![c] = Marked(r)]
             /\ out' = [out EXCEPT ![c] = out[c] \cup Sent(r)]
             /\ SyncSends(tab[c], f, closeRequested[c]) \/ gone \cap closeRequested[c] # {}
    <3>1. tab'[c].resend = r.dirty
      <4>1. r \in Tabs
        BY <2>1 DEF ReceivedTab
      <4>2. tab'[c] = Marked(r)
        BY <2>7, <1>t
      <4> QED  BY <4>1, <4>2, MarkedParts
    <3>2. ASSUME r.dirty = TRUE
          PROVE  Due' <= Due
      <4>1. Sent(r) = {}
        BY <3>2 DEF Sent
      <4>2. out' = out
        BY <2>7, <4>1, <1>t
      <4> QED  BY <1>0, <1>1, <4>2, DueKept
    <3>3. ASSUME r.dirty # TRUE
          PROVE  Resending' \subseteq Resending \ {c}
      BY <2>5, <3>1, <3>3 DEF Resending
    <3>4. CASE gone \cap closeRequested[c] # {}
      <4>1. PICK q : q \in gone /\ q \in closeRequested[c]
        BY <3>4
      <4>2. <<c, q>> \in Asked /\ Asked' \subseteq Asked \ {<<c, q>>}
        BY <2>1, <4>1, <1>t DEF Asked
      <4>3. Cardinality(Asked)' <= Cardinality(Asked) - 1
        BY <1>3, <4>2, OneLess
      <4>4. CASE r.dirty = TRUE
        <5>1. Resending' \subseteq Resending \cup {c}
          BY <2>5 DEF Resending
        <5>2. Cardinality(Resending)' <= Cardinality(Resending) + 1 /\ Cardinality(Resending)' \in Nat
          BY <1>3, <5>1, OneMore, FS_CardinalityType
        <5>3. Due' <= Due
          BY <3>2, <4>4
        <5> QED  BY <1>1, <1>2, <1>3, <1>t, <2>3, <4>3, <5>2, <5>3, DueGrows, StaysSolvent
      <4>5. CASE r.dirty # TRUE
        <5>1. Resending' \subseteq Resending
          BY <3>3, <4>5
        <5>2. Cardinality(Resending)' <= Cardinality(Resending) /\ Cardinality(Resending)' \in Nat
          BY <1>3, <5>1, NoMore, FS_CardinalityType
        <5> QED  BY <1>1, <1>2, <1>3, <1>t, <2>3, <4>3, <5>2, DueGrows, StaysSolvent
      <4> QED  BY <4>4, <4>5
    <3>5. CASE SyncSends(tab[c], f, closeRequested[c])
      <4>1. CASE Newer(tab[c], f) /\ tab[c].resend = TRUE
        <5>1. r.dirty = FALSE
          BY <2>1, <4>1 DEF ReceivedTab
        <5>2. c \in Resending /\ Resending' \subseteq Resending \ {c}
          BY <3>3, <4>1, <5>1 DEF Resending
        <5>3. Cardinality(Resending)' <= Cardinality(Resending) - 1 /\ Cardinality(Resending)' \in Nat
          BY <1>3, <5>2, OneLess, FS_CardinalityType
        <5> QED  BY <1>1, <1>2, <1>3, <1>t, <2>3, <5>3, DueGrows, StaysSolvent
      <4>2. CASE ~(Newer(tab[c], f) /\ tab[c].resend = TRUE)
        <5>1. /\ Missing \/ f.lrev # lrev
              /\ ~Newer(tab[c], f) => f.lrev = tab[c].rev /\ tab[c].dirty = FALSE
          BY <1>4, <3>5, <4>2, SyncOwed
        <5>2. r.rev = f.lrev /\ r.dirty = FALSE
          BY <2>1, <5>1 DEF ReceivedTab
        <5>3. Resending' \subseteq Resending
          BY <3>3, <5>2
        <5>4. Cardinality(Resending)' <= Cardinality(Resending) /\ Cardinality(Resending)' \in Nat
          BY <1>3, <5>3, NoMore, FS_CardinalityType
        <5>5. Due' <= Due
          <6>1. CASE Missing
            BY <6>1, DueIsOne, DueGrows
          <6>2. CASE f.lrev # lrev
            <7>1. Sent(r) = {Write(r.tree, f.lrev)}
              BY <5>2 DEF Sent
            <7>2. Write(r.tree, f.lrev).base # lrev
              BY <6>2 DEF Write
            <7>3. \A d \in Clients : \A m \in out'[d] : m \in out[d] \/ m.base # lrev
              BY <2>7, <7>1, <7>2, <1>t
            <7> QED  BY <1>0, <1>1, <7>3, DueKept
          <6> QED  BY <5>1, <6>1, <6>2
        <5> QED  BY <1>1, <1>2, <1>3, <1>t, <2>3, <5>4, <5>5, DueGrows, StaysSolvent
      <4> QED  BY <4>1, <4>2
    <3> QED  BY <2>7, <3>4, <3>5
  <2> QED  BY <2>1, <2>6, <2>7
<1> QED  BY <1>5, <1>6

LEMMA ReconnectSolvent ==
    ASSUME Typed, Typed', Debt <= Means, NEW c \in Clients, Reconnect(c)
    PROVE  (Debt <= Means)'
<1>t. /\ edits \in Nat /\ asks \in Nat /\ lrev \in Nat /\ tab \in [Clients -> Tabs]
      /\ out \in [Clients -> SUBSET Messages]
      /\ closeRequested \in [Clients -> SUBSET Closable]
  BY DEF Typed, BoundsTyped, DaemonTyped, ClientsTyped
<1>0. [LayoutNext]_layoutVars
  BY DEF LayoutNext
<1>1. PICK t \in Tabs :
              /\ tab' = [tab EXCEPT ![c] = t]
              /\ t.resend = FALSE
              /\ closeRequested' = [closeRequested EXCEPT ![c] = {}]
              /\ out' = [out EXCEPT ![c] = {Attach}]
  BY ResetTab DEF Typed
<1>2. UNCHANGED <<stored, lrev, panes, unborn, edits, asks>>
  BY DEF Reconnect, daemonVars
<1>3. Created' = Created /\ Closed' = Closed
  BY <1>2, SamePanes
<1>4. /\ IsFiniteSet(Asked) /\ Cardinality(Asked) \in Nat
      /\ IsFiniteSet(Resending) /\ Cardinality(Resending) \in Nat
      /\ Created \in Nat /\ Closed \in Nat
  BY CountsFinite
<1>5. Asked' \subseteq Asked
  BY <1>1, <1>t DEF Asked
<1>6. Resending' \subseteq Resending
  <2>1. tab'[c].resend = FALSE /\ \A d \in Clients : d # c => tab'[d] = tab[d]
    BY <1>1, <1>t
  <2> QED  BY <2>1 DEF Resending
<1>7. Cardinality(Asked)' <= Cardinality(Asked) /\ Cardinality(Asked)' \in Nat
  BY <1>4, <1>5, NoMore, FS_CardinalityType
<1>8. Cardinality(Resending)' <= Cardinality(Resending) /\ Cardinality(Resending)' \in Nat
  BY <1>4, <1>6, NoMore, FS_CardinalityType
<1>9. Due' <= Due
  <2>1. Attach.kind = "attach"
    BY DEF Attach
  <2>2. \A d \in Clients : \A m \in out'[d] : m.kind = "layout" => m \in out[d]
    BY <1>1, <1>t, <2>1
  <2> QED  BY <1>0, <1>2, <2>2, DueKept
<1> QED  BY <1>2, <1>3, <1>4, <1>t, <1>7, <1>8, <1>9, DueGrows, StaysSolvent

LEMMA QuietSolvent ==
    ASSUME Typed, Typed', Debt <= Means, [LayoutNext]_layoutVars,
           UNCHANGED <<stored, lrev, panes, unborn, edits, asks, tab, closeRequested>>,
           \A c \in Clients : out'[c] \subseteq out[c]
    PROVE  (Debt <= Means)'
<1>1. /\ edits \in Nat /\ asks \in Nat /\ lrev \in Nat
      /\ Cardinality(Asked) \in Nat /\ Cardinality(Resending) \in Nat
      /\ Created \in Nat /\ Closed \in Nat
  BY CountsFinite DEF Typed, BoundsTyped, DaemonTyped
<1>2. Asked' = Asked /\ Resending' = Resending /\ Created' = Created /\ Closed' = Closed
  BY SameAsked, SamePanes DEF Resending
<1>3. Due' <= Due
  BY DueKept
<1> QED  BY <1>1, <1>2, <1>3, DueGrows, StaysSolvent

LEMMA SolventSteps ==
    ASSUME LayoutIInv, Current, Solvent, [LayoutNext]_layoutVars
    PROVE  Solvent'
<1>1. Typed /\ Typed' /\ Past
  BY LayoutSteps DEF LayoutIInv
<1>2. BasesPast /\ FramesLive /\ Debt <= Means
  BY DEF Solvent
<1>3. BasesPast' /\ FramesLive'
  BY <1>1, <1>2, BasesPastSteps, FramesLiveSteps
<1>4. ASSUME NEW c \in Clients, Edit(c)
      PROVE  (Debt <= Means)'
  BY <1>1, <1>2, <1>4, EditSolvent
<1>5. ASSUME NEW c \in Clients, NEW p \in Closable, ConfirmClose(c, p)
      PROVE  (Debt <= Means)'
  BY <1>1, <1>2, <1>5, ConfirmCloseSolvent
<1>6. ASSUME NEW p \in Later, Create(p)
      PROVE  (Debt <= Means)'
  BY <1>1, <1>2, <1>6, CreateSolvent
<1>7. ASSUME NEW c \in Clients, NEW m \in out[c], HandleUpdateLayout(c, m)
      PROVE  (Debt <= Means)'
  BY <1>1, <1>2, <1>7, UpdateSolvent
<1>8. ASSUME NEW c \in Clients, NEW m \in out[c], HandleDestroyPane(c, m)
      PROVE  (Debt <= Means)'
  BY <1>1, <1>2, <1>8, DestroySolvent
<1>9. ASSUME NEW c \in Clients, Receive(c)
      PROVE  (Debt <= Means)'
  BY <1>1, <1>2, <1>9, ReceiveSolvent
<1>10. ASSUME NEW c \in Clients, Reconnect(c)
       PROVE  (Debt <= Means)'
  BY <1>1, <1>2, <1>10, ReconnectSolvent
<1>11. ASSUME NEW c \in Clients, HandleAttach(c)
       PROVE  (Debt <= Means)'
  <2>1. UNCHANGED <<stored, lrev, panes, unborn, edits, asks, tab, closeRequested>>
    BY <1>11 DEF HandleAttach, daemonVars, boundVars, clientVars
  <2>2. \A d \in Clients : out'[d] \subseteq out[d]
    BY <1>1, <1>11 DEF HandleAttach, Delivered, Typed, ClientsTyped
  <2> QED  BY <1>1, <1>2, <2>1, <2>2, QuietSolvent
<1>12. ASSUME \/ \E b \in Builders : BroadcastState(b)
              \/ \E k \in casts : Queue(k)
              \/ FireCoalesced
              \/ UNCHANGED layoutVars
       PROVE  (Debt <= Means)'
  <2>1. UNCHANGED <<stored, lrev, panes, unborn, edits, asks, tab, closeRequested, out>>
    BY <1>12 DEF BroadcastState, Queue, FireCoalesced, layoutVars, daemonVars, boundVars,
                 clientVars
  <2> QED  BY <1>1, <1>2, <2>1, QuietSolvent
<1>13. (Debt <= Means)'
  BY <1>4, <1>5, <1>6, <1>7, <1>8, <1>9, <1>10, <1>11, <1>12 DEF LayoutNext, Dispatching
<1> QED  BY <1>3, <1>13 DEF Solvent

LEMMA SolventStart ==
    ASSUME LayoutInit
    PROVE  Solvent
<1>1. Flying = {}
  BY LayoutStart, NothingFlies DEF LayoutIInv, Typed, ClientsTyped
<1>2. BasesPast /\ FramesLive /\ ~InTime
  <2>1. \A c \in Clients : out[c] = {}
    BY DEF LayoutInit
  <2> QED  BY <1>1, <2>1 DEF BasesPast, FramesLive, InTime
<1>3. Due = 0
  <2>1. Ids(stored) = First /\ panes = First
    BY FirstTreeTyped DEF LayoutInit
  <2> QED  BY <1>1, <1>2, <2>1 DEF Due, Missing
<1>4. Asked = {} /\ Resending = {}
  BY DEF LayoutInit, Asked, Resending
<1>5. lrev = 1 /\ edits = 0 /\ asks = 0
  BY DEF LayoutInit
<1>6. Created \in Nat /\ Closed \in Nat /\ Cardinality(Asked) = 0 /\ Cardinality(Resending) = 0
  BY <1>4, CountsFinite, FS_EmptySet
<1> QED  BY <1>2, <1>3, <1>5, <1>6 DEF Solvent, Debt, Means

\* Clients do not answer each other's trees forever: for any number of them
\* and in any order of frames and writes, every stored revision is owed to a
\* drag, a close a user asked for, a pane that came or one that went
\* (base_rev in handleUpdateLayout, markLayoutChanged, syncTabLayout).
THEOREM RevisionsAreOwed == LayoutSpec => []NoEchoStorm
<1>1. LayoutInit => LayoutIInv /\ Current /\ Solvent
  BY LayoutStart, UndisturbedStart, SolventStart
<1>2. (LayoutIInv /\ Current /\ Solvent) /\ [LayoutNext]_layoutVars
        => (LayoutIInv /\ Current /\ Solvent)'
  BY LayoutSteps, CurrentSteps, SolventSteps DEF LayoutIInv
<1>3. LayoutIInv /\ Solvent => NoEchoStorm
  <2>1. Cardinality(Asked) \in Nat /\ Cardinality(Resending) \in Nat /\ Due \in Int /\ Due >= 0
        /\ Created \in Nat /\ Closed \in Nat
    BY CountsFinite, DueGrows
  <2> QED  BY <2>1 DEF Solvent, Debt, Means, NoEchoStorm, LayoutIInv, Typed, DaemonTyped,
               BoundsTyped
<1> QED  BY <1>1, <1>2, <1>3, PTL DEF LayoutSpec
=============================================================================
