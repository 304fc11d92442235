--------------------------- MODULE PaneSize_proofs ---------------------------
(***************************************************************************)
(* What PaneSize keeps for every set of clients and sizes and every bound. *)
(*                                                                         *)
(* A batch owes the numbers it may still take, so the numbers taken stay   *)
(* within what the requests allow.  Until two are at work at once, whoever *)
(* is at work has the newest number, found the PTY and the size it will    *)
(* put back, and nothing else moves them.  What a follower has that is     *)
(* newer than the record and differs from it is then about to be taken     *)
(* back: by a frame it has queued, or by the batch at work.                *)
(***************************************************************************)
EXTENDS PaneSize, FiniteSetTheorems, SequenceTheorems, TLAPS

Ptys == [id : 0 .. 1 + MaxRestarts, size : AllSizes \cup {Jiggled}]

\* What a client holds or will read.
Told(f) == {held[f]} \cup {inbox[f][i] : i \in DOMAIN inbox[f]}

\* The numbers the batches may still take: one to announce, one to take back.
Owes(c) ==
    IF batch[c].pc \in {"read", "number"} THEN {1, 2}
    ELSE IF batch[c].pc \in {"announce", "resize", "undo"} THEN {1} ELSE {}
Owed == {x \in Clients \X {1, 2} : x[2] \in Owes(x[1])}

Budgets == [requests : Nat, takes : Nat, casts : Nat, faults : Nat, restarts : Nat, kicks : Nat]

\* Numbers and PTYs within what requests and restarts allow.
Counted ==
    /\ budget \in Budgets
    /\ IsFiniteSet(Owed)
    /\ sizeSeq + Cardinality(Owed) + 2 * budget.requests <= 1 + 2 * MaxRequests
    /\ ptys + (IF restart = "none" THEN 0 ELSE 1) + budget.restarts = 1 + MaxRestarts

\* A batch past its first look has what the next step needs of it.
Equipped(b) ==
    /\ b.pc # "idle" => b.want \in AllSizes
    /\ b.pc \in {"announce", "resize", "record", "tellback"} => b.seq \in Seqs
    /\ b.pc \in {"undo", "tellback"} => b.prev \in AllSizes
InHand == \A c \in Clients : Equipped(batch[c])

\* No number is used that was not taken.
Numbers ==
    /\ DOMAIN announced = 1 .. sizeSeq
    /\ cast.seq <= colsSeq
    /\ applied \in {NoSize, size}
    /\ \A c \in Clients : batch[c].seq <= sizeSeq
    /\ \A c \in Clients : \A x \in Told(c) : x.seq <= sizeSeq

\* Whoever is at work is alone with the pane.
Alone == ~overlapped =>
    /\ \A c, d \in AtWork : c = d
    /\ AtWork # {} => restart = "none"
    /\ restart \in AllSizes => restart = size
    /\ \A c \in AtWork : batch[c].pty = pty.id /\ batch[c].prev = applied
    /\ \A c \in Clients :
         batch[c].pc \in {"announce", "resize", "record", "tellback"} => batch[c].seq = sizeSeq

\* A kick has a PTY that was opened and a size that was recorded.
Aimed ==
    /\ pty.id <= ptys
    /\ \A k \in Kickers : kick[k].pc # "idle" =>
          kick[k].pty \in 1 .. ptys /\ kick[k].size \in AllSizes

\* Until a kick meets a batch, the kicks of the pane's PTY bring what is recorded.
KicksAlone == ~overlapped /\ ~strayed =>
    \A k \in AtKick : AtWork = {} /\ kick[k].size = size

\* The PTY differs from the record only between a resize and its record, and
\* while a kick is about to put it right.
Real == ~overlapped /\ ~strayed =>
    /\ \A c \in Clients : At(c, "record") => pty.size = batch[c].want
    /\ restart = "none" /\ (\A c \in Clients : ~At(c, "record")) =>
          pty.size = size \/ \E k \in AtKick : kick[k].pc = "apply"

\* A size goes with the number it was announced under, wherever it is.
Paired == ~overlapped =>
    /\ \A c \in Clients : \A x \in Told(c) : x.size = announced[x.seq]
    /\ cast # NoFrame => cast.size = announced[cast.seq]
    /\ size = announced[colsSeq]
    /\ \A c \in Clients :
         /\ batch[c].pc \in {"announce", "resize", "record"} =>
                batch[c].want = announced[batch[c].seq]
         /\ At(c, "tellback") => batch[c].prev = announced[batch[c].seq]

\* Whoever was told of a batch's size has it or is about to read it.
ToldFirst == ~overlapped => \A c \in Clients : batch[c].pc \in {"resize", "record"} =>
    \A f \in batch[c].to : \E x \in Told(f) : x.seq = batch[c].seq

\* Without a failure the newest number is recorded or will be.
Recorded == ~failed =>
    /\ \A c \in Clients : batch[c].pc \notin {"undo", "tellback"}
    /\ \/ sizeSeq <= colsSeq
       \/ \E c \in Clients :
            batch[c].pc \in {"announce", "resize", "record"} /\ batch[c].seq = sizeSeq

\* A frame that is newer than the record and differs from it.
Astray(x) == x.seq > colsSeq /\ x.size # size
Corrected(f, x) == \E y \in Told(f) : y.seq > x.seq /\ y.size = size
Pending(f) == \E c \in AtWork : f \in Followers(c)

\* What is astray is put right by a newer frame or by the batch at work.
TakenBack == ~bare /\ ~overlapped /\ ~deposed =>
    \A f \in Clients : \A x \in Told(f) : Astray(x) => Corrected(f, x) \/ Pending(f)

IInv ==
    /\ TypeOK /\ Counted /\ InHand /\ Numbers
    /\ Alone /\ Aimed /\ KicksAlone /\ Real /\ Paired /\ ToldFirst /\ Recorded /\ TakenBack

-----------------------------------------------------------------------------
LEMMA Constants ==
    /\ MaxRequests \in Nat /\ MaxTakes \in Nat /\ MaxCasts \in Nat
    /\ MaxFaults \in Nat /\ MaxRestarts \in Nat /\ MaxKicks \in Nat
    /\ Sizers \subseteq Clients /\ Sizes \subseteq AllSizes /\ First \in AllSizes
    /\ NoSize \notin AllSizes /\ "none" \notin AllSizes /\ "down" \notin AllSizes
  BY PaneSizeAssumption DEF AllSizes

LEMMA InitInv == Init => IInv
<1> SUFFICES ASSUME Init PROVE IInv
  OBVIOUS
<1>0. NoKick \in Kicks
  BY Constants DEF NoKick, Kicks
<1>1. AtWork = {} /\ \A c \in Clients : batch[c] = NoBatch
  BY DEF Init, AtWork, NoBatch, Working
<1>2. \A c \in Clients : Told(c) = {[size |-> First, seq |-> 1]}
  BY DEF Init, Told
<1>3. NoBatch \in Batches /\ 1 \in Seqs
  BY Constants DEF NoBatch, Batches, Seqs
<1>4. TypeOK
  <2>1. batch \in [Clients -> Batches]
    BY <1>3 DEF Init
  <2>2. inbox \in [Clients -> Seq([size : AllSizes, seq : Seqs])]
    BY DEF Init
  <2>3. DOMAIN announced \subseteq Seqs /\ colsSeq \in Seqs /\ sizeSeq \in Seqs /\ colsSeq <= sizeSeq
    BY <1>3 DEF Init
  <2>4. master \in Clients \cup {NoMaster}
    BY PaneSizeAssumption DEF Init
  <2>5. held \in [Clients -> [size : AllSizes, seq : Seqs]] /\ cast \in {NoFrame}
    BY <1>3, Constants DEF Init
  <2>6. pty \in Ptys /\ ptys \in 1 .. 1 + MaxRestarts
    BY Constants DEF Init, Ptys
  <2>7. /\ size \in AllSizes /\ applied \in AllSizes \cup {NoSize}
        /\ restart \in {"none", "down"} \cup AllSizes
        /\ {overlapped, strayed, deposed, failed, bare} \subseteq BOOLEAN
    BY Constants DEF Init
  <2>8. kick \in [Kickers -> Kicks]
    BY <1>0 DEF Init
  <2> QED
    BY <2>1, <2>2, <2>3, <2>4, <2>5, <2>6, <2>7, <2>8 DEF TypeOK, Ptys
<1>5. Counted
  <2>1. Owed = {}
    BY <1>1 DEF Owed, Owes, NoBatch
  <2>2. IsFiniteSet(Owed) /\ Cardinality(Owed) = 0
    BY <2>1, FS_EmptySet
  <2> QED
    BY <2>2, Constants DEF Counted, Init, Budgets
<1>6. InHand
  BY <1>1 DEF InHand, Equipped, NoBatch
<1>7. Numbers
  BY <1>1, <1>2, Constants DEF Numbers, Init, NoBatch, NoFrame
<1>8. Alone /\ Aimed /\ KicksAlone /\ Real /\ ToldFirst /\ Recorded
  <2>1. \A k \in Kickers : kick[k].pc = "idle"
    BY DEF Init, NoKick
  <2>2. Aimed /\ KicksAlone
    BY <2>1, Constants DEF Aimed, KicksAlone, AtKick, Init
  <2> QED
    BY <1>1, <2>2, Constants DEF Alone, Real, ToldFirst, Recorded, Init, NoBatch, At
<1>9. Paired
  BY <1>1, <1>2 DEF Paired, Init, NoBatch, At
<1>10. TakenBack
  BY <1>2 DEF TakenBack, Astray, Init
<1> QED
  BY <1>4, <1>5, <1>6, <1>7, <1>8, <1>9, <1>10 DEF IInv

-----------------------------------------------------------------------------
(* The numbers *)

\* A batch that takes a number, or ends, owes less.
LEMMA OweLess ==
    ASSUME IsFiniteSet(Owed), Owed' \subseteq Owed
    PROVE  /\ IsFiniteSet(Owed') /\ Cardinality(Owed') \in Nat /\ Cardinality(Owed) \in Nat
           /\ Cardinality(Owed') <= Cardinality(Owed)
  BY FS_Subset, FS_CardinalityType

LEMMA OweOneLess ==
    ASSUME IsFiniteSet(Owed), NEW x \in Owed, Owed' \subseteq Owed \ {x}
    PROVE  /\ IsFiniteSet(Owed') /\ Cardinality(Owed') \in Nat /\ Cardinality(Owed) \in Nat
           /\ Cardinality(Owed') <= Cardinality(Owed) - 1
<1>1. IsFiniteSet(Owed \ {x}) /\ Cardinality(Owed \ {x}) = Cardinality(Owed) - 1
  BY FS_RemoveElement
<1> QED
  BY <1>1, FS_Subset, FS_CardinalityType

LEMMA OweTwoMore ==
    ASSUME IsFiniteSet(Owed), NEW x, NEW y, Owed' \subseteq (Owed \cup {x}) \cup {y}
    PROVE  /\ IsFiniteSet(Owed') /\ Cardinality(Owed') \in Nat /\ Cardinality(Owed) \in Nat
           /\ Cardinality(Owed') <= Cardinality(Owed) + 2
<1>0. ASSUME NEW S, IsFiniteSet(S), NEW z
      PROVE  /\ IsFiniteSet(S \cup {z}) /\ Cardinality(S \cup {z}) <= Cardinality(S) + 1
             /\ Cardinality(S) \in Nat /\ Cardinality(S \cup {z}) \in Nat
  <2>1. /\ IsFiniteSet(S \cup {z})
        /\ Cardinality(S \cup {z}) = Cardinality(S) \/ Cardinality(S \cup {z}) = Cardinality(S) + 1
    BY <1>0, FS_AddElement
  <2>2. Cardinality(S) \in Nat
    BY <1>0, FS_CardinalityType
  <2> QED
    BY <2>1, <2>2
<1>1. /\ IsFiniteSet(Owed \cup {x}) /\ Cardinality(Owed \cup {x}) <= Cardinality(Owed) + 1
      /\ Cardinality(Owed) \in Nat /\ Cardinality(Owed \cup {x}) \in Nat
  BY <1>0
<1>2. /\ IsFiniteSet((Owed \cup {x}) \cup {y})
      /\ Cardinality((Owed \cup {x}) \cup {y}) <= Cardinality(Owed \cup {x}) + 1
      /\ Cardinality((Owed \cup {x}) \cup {y}) \in Nat
  BY <1>0, <1>1
<1>3. /\ IsFiniteSet(Owed') /\ Cardinality(Owed') \in Nat
      /\ Cardinality(Owed') <= Cardinality((Owed \cup {x}) \cup {y})
  BY <1>2, FS_Subset, FS_CardinalityType
<1> QED
  BY <1>1, <1>2, <1>3

\* There is a number left for a batch that takes one.
LEMMA RoomForNumber ==
    ASSUME TypeOK, Counted, NEW c \in Clients, batch[c].pc \in {"number", "undo"}
    PROVE  sizeSeq + 1 \in Seqs
<1>1. <<c, 1>> \in Owed
  BY DEF Owed, Owes
<1>2. IsFiniteSet(Owed \ {<<c, 1>>}) /\ Cardinality(Owed \ {<<c, 1>>}) = Cardinality(Owed) - 1
  BY <1>1, FS_RemoveElement DEF Counted
<1>3. Cardinality(Owed) \in Nat /\ Cardinality(Owed \ {<<c, 1>>}) \in Nat
  BY <1>2, FS_CardinalityType DEF Counted
<1>4. Cardinality(Owed) >= 1
  BY <1>2, <1>3
<1>5. sizeSeq \in 1 .. 1 + 2 * MaxRequests /\ budget.requests \in Nat
  BY DEF TypeOK, Seqs, Counted, Budgets
<1>6. sizeSeq + Cardinality(Owed) + 2 * budget.requests <= 1 + 2 * MaxRequests
  BY DEF Counted
<1> QED
  BY <1>3, <1>4, <1>5, <1>6, Constants DEF Seqs

-----------------------------------------------------------------------------
(* The types *)

\* The steps of the dispatch goroutine of c.
Calls(c) == Batching(c) \/ (\E s \in Sizes : Request(c, s))

\* A kick, or no step: the PTY's size, the kicks and the budget apart, nothing
\* moves.
Beside ==
    /\ UNCHANGED <<master, ptys, size, colsSeq, sizeSeq, applied, batch, restart, frameVars, held,
                   histVars, announced>>
    /\ UNCHANGED <<pty, budget, kickVars>> \/ \E k \in Kickers : Kicking(k)

LEMMA NextSplits ==
    ASSUME [Next]_vars
    PROVE  \/ \E c \in Clients : Calls(c) \/ TakeControl(c) \/ Receive(c)
           \/ RestartDown \/ RestartSession \/ RestartInstall
           \/ BuildState \/ QueueState \/ Beside
<1>1. ASSUME NEW k \in Kickers, Kicking(k) PROVE Beside
  <2>1. UNCHANGED <<master, ptys, size, colsSeq, sizeSeq, applied, batch, restart, frameVars, held,
                    histVars, announced>>
    BY <1>1 DEF Kicking, KickRead, KickJiggle, KickApply, paneVars
  <2> QED
    BY <1>1, <2>1 DEF Beside
<1>2. CASE UNCHANGED vars
  BY <1>2 DEF vars, paneVars, Beside
<1> QED
  BY <1>1, <1>2, Constants DEF Next, Restarting, Calls

\* What each step of a kick does to the PTY and to the kick.
LEMMA KickMoves ==
    ASSUME TypeOK, NEW k \in Kickers
    PROVE  /\ KickRead(k) =>
                /\ pty' = pty /\ pty.id # 0 /\ strayed' = (strayed \/ AtWork # {})
                /\ kick' = [kick EXCEPT ![k] = [pc |-> "jiggle", pty |-> pty.id, size |-> size]]
           /\ KickJiggle(k) =>
                /\ pty' = pty \/ (k \in AtKick /\ pty' = [pty EXCEPT !.size = Jiggled])
                /\ strayed' = strayed /\ kick[k].pc = "jiggle"
                /\ kick' = [kick EXCEPT ![k] = [pc |-> "apply", pty |-> kick[k].pty, size |-> kick[k].size]]
           /\ KickApply(k) =>
                /\ \/ /\ strayed' = strayed
                      /\ pty' = IF k \in AtKick THEN [pty EXCEPT !.size = kick[k].size] ELSE pty
                   \/ strayed' = TRUE /\ pty' = pty
                /\ kick' = [kick EXCEPT ![k] = NoKick] /\ kick[k].pc = "apply"
<1>1. KickRead(k) =>
        /\ pty' = pty /\ pty.id # 0 /\ strayed' = (strayed \/ AtWork # {})
        /\ kick' = [kick EXCEPT ![k] = [pc |-> "jiggle", pty |-> pty.id, size |-> size]]
  BY DEF KickRead, paneVars
<1>2. [kick[k] EXCEPT !.pc = "apply"] = [pc |-> "apply", pty |-> kick[k].pty, size |-> kick[k].size]
  BY DEF TypeOK, Kicks
<1>3. KickJiggle(k) =>
        /\ pty' = pty \/ (k \in AtKick /\ pty' = [pty EXCEPT !.size = Jiggled])
        /\ strayed' = strayed /\ kick[k].pc = "jiggle"
        /\ kick' = [kick EXCEPT ![k] = [pc |-> "apply", pty |-> kick[k].pty, size |-> kick[k].size]]
  BY <1>2 DEF KickJiggle, Kicked
<1>4. KickApply(k) =>
        /\ \/ /\ strayed' = strayed
              /\ pty' = IF k \in AtKick THEN [pty EXCEPT !.size = kick[k].size] ELSE pty
           \/ strayed' = TRUE /\ pty' = pty
        /\ kick' = [kick EXCEPT ![k] = NoKick] /\ kick[k].pc = "apply"
  BY DEF KickApply, Kicked
<1> QED
  BY <1>1, <1>3, <1>4

LEMMA KicksKeepTypes ==
    ASSUME TypeOK, Aimed, NEW k \in Kickers, Kicking(k)
    PROVE  /\ pty' \in Ptys /\ pty'.id = pty.id
           /\ kick' \in [Kickers -> Kicks] /\ strayed' \in BOOLEAN
<1>1. /\ pty \in Ptys /\ kick \in [Kickers -> Kicks] /\ strayed \in BOOLEAN /\ size \in AllSizes
      /\ pty.id \in 0 .. 1 + MaxRestarts
  BY DEF TypeOK, Ptys
<1>2. \A s \in AllSizes \cup {Jiggled} :
        [pty EXCEPT !.size = s] \in Ptys /\ [pty EXCEPT !.size = s].id = pty.id
  BY <1>1 DEF Ptys
<1>3. /\ [pc |-> "jiggle", pty |-> pty.id, size |-> size] \in Kicks /\ NoKick \in Kicks
      /\ [pc |-> "apply", pty |-> kick[k].pty, size |-> kick[k].size] \in Kicks
  BY <1>1, Constants DEF Kicks, NoKick
<1>4. \A x \in Kicks : [kick EXCEPT ![k] = x] \in [Kickers -> Kicks]
  BY <1>1
<1>5. kick' \in [Kickers -> Kicks]
  <2>1. \E x \in Kicks : kick' = [kick EXCEPT ![k] = x]
    BY <1>3, KickMoves DEF Kicking
  <2> QED
    BY <1>4, <2>1
<1>6. pty' = pty \/ \E s \in AllSizes \cup {Jiggled} : pty' = [pty EXCEPT !.size = s]
  <2>1. KickApply(k) => kick[k].size \in AllSizes
    BY KickMoves DEF Aimed
  <2> QED
    BY <2>1, KickMoves DEF Kicking
<1>7. strayed' = strayed \/ strayed' = (strayed \/ AtWork # {}) \/ strayed' = TRUE
  BY KickMoves DEF Kicking
<1>8. strayed' \in BOOLEAN
  BY <1>1, <1>7, Zenon
<1>9. pty' \in Ptys /\ pty'.id = pty.id
  <2>1. CASE pty' = pty
    BY <1>1, <2>1
  <2>2. ASSUME NEW s \in AllSizes \cup {Jiggled}, pty' = [pty EXCEPT !.size = s]
        PROVE  pty' \in Ptys /\ pty'.id = pty.id
    <3>1. [pty EXCEPT !.size = s] \in Ptys /\ [pty EXCEPT !.size = s].id = pty.id
      BY <1>2
    <3> QED
      BY <2>2, <3>1, Zenon
  <2> QED
    BY <1>6, <2>1, <2>2
<1> QED
  BY <1>5, <1>8, <1>9

\* The kick of another goroutine stays where it is.
LEMMA KickMoved ==
    ASSUME TypeOK, NEW k \in Kickers, Kicking(k)
    PROVE  /\ \A j \in Kickers \ {k} : kick'[j] = kick[j]
           /\ KickRead(k) => kick'[k] = [pc |-> "jiggle", pty |-> pty.id, size |-> size]
           /\ KickJiggle(k) =>
                kick'[k] = [pc |-> "apply", pty |-> kick[k].pty, size |-> kick[k].size]
           /\ KickApply(k) => kick'[k] = NoKick
<1>1. kick \in [Kickers -> Kicks]
  BY DEF TypeOK
<1>2. \A x : /\ [kick EXCEPT ![k] = x][k] = x
             /\ \A j \in Kickers \ {k} : [kick EXCEPT ![k] = x][j] = kick[j]
  BY <1>1
<1>3. \E x : kick' = [kick EXCEPT ![k] = x]
  BY KickMoves DEF Kicking
<1>4. \A j \in Kickers \ {k} : kick'[j] = kick[j]
  BY <1>2, <1>3
<1>5. KickRead(k) => kick'[k] = [pc |-> "jiggle", pty |-> pty.id, size |-> size]
  BY <1>2, KickMoves
<1>6. KickJiggle(k) =>
        kick'[k] = [pc |-> "apply", pty |-> kick[k].pty, size |-> kick[k].size]
  BY <1>2, KickMoves
<1>7. KickApply(k) => kick'[k] = NoKick
  BY <1>2, KickMoves
<1> QED
  BY <1>4, <1>5, <1>6, <1>7

\* What else a step does with the kicks.
LEMMA KicksStay ==
    ASSUME [Next]_vars
    PROVE  \/ \E k \in Kickers : Kicking(k)
           \/ /\ kick' = kick
              /\ strayed' = strayed \/ \E c \in Clients : Collect(c)
<1>1. ASSUME NEW c \in Clients, Calls(c)
      PROVE  kick' = kick /\ (strayed' = strayed \/ Collect(c))
  BY <1>1 DEF Calls, Batching, Request, Collect, Number, Announce, Resize, ResizeFails, Record, Undo,
              TellBack, kickVars
<1>2. ASSUME NEW c \in Clients, TakeControl(c) \/ Receive(c)
      PROVE  kick' = kick /\ strayed' = strayed
  BY <1>2 DEF TakeControl, Receive, kickVars
<1>3. CASE RestartDown \/ RestartSession \/ RestartInstall \/ BuildState \/ QueueState
  BY <1>3 DEF RestartDown, RestartSession, RestartInstall, BuildState, QueueState, kickVars
<1>4. CASE Beside
  BY <1>4 DEF Beside, kickVars
<1> QED
  BY <1>1, <1>2, <1>3, <1>4, NextSplits

LEMMA StepKeepsKicks ==
    ASSUME TypeOK, Aimed, [Next]_vars
    PROVE  kick' \in [Kickers -> Kicks] /\ strayed' \in BOOLEAN
<1>1. kick \in [Kickers -> Kicks] /\ strayed \in BOOLEAN
  BY DEF TypeOK
<1>2. ASSUME NEW c \in Clients, Collect(c) PROVE strayed' \in BOOLEAN
  BY <1>1, <1>2 DEF Collect
<1> QED
  BY <1>1, <1>2, KicksStay, KicksKeepTypes

LEMMA KicksCount ==
    ASSUME budget \in Budgets, NEW k \in Kickers, Kicking(k)
    PROVE  /\ budget' \in Budgets /\ budget'.requests = budget.requests
           /\ budget'.restarts = budget.restarts
<1>1. \/ budget' = budget
      \/ (budget' = [budget EXCEPT !.kicks = budget.kicks - 1] /\ budget.kicks > 0)
      \/ (budget' = [budget EXCEPT !.faults = budget.faults - 1] /\ budget.faults > 0)
  BY DEF Kicking, KickRead, KickJiggle, KickApply, Spend, Budgets
<1> QED
  BY <1>1 DEF Budgets

\* What a step of c's batch makes of it.
LEMMA CallWrites ==
    ASSUME TypeOK, Counted, InHand, NEW c \in Clients, Calls(c)
    PROVE  \E b \in Batches : batch' = [batch EXCEPT ![c] = b] /\ Equipped(b)
<1> DEFINE b == batch[c]
<1>1. b \in Batches /\ Equipped(b) /\ Sizes \subseteq AllSizes
  BY Constants DEF TypeOK, InHand
<1>2. NoBatch \in Batches /\ Equipped(NoBatch)
  BY Constants DEF NoBatch, Batches, Equipped
<1>3. CASE \E s \in Sizes : Request(c, s)
  <2>1. PICK s \in Sizes : Request(c, s)
    BY <1>3
  <2>2. [NoBatch EXCEPT !.pc = "read", !.want = s] \in Batches
    BY <1>1, <1>2, <2>1 DEF Batches
  <2>3. Equipped([NoBatch EXCEPT !.pc = "read", !.want = s])
    BY <1>1, <1>2, <2>1 DEF Equipped, NoBatch
  <2> QED
    BY <2>1, <2>2, <2>3 DEF Request, Become
<1>4. CASE Collect(c)
  <2>1. [b EXCEPT !.pc = "number", !.pty = pty.id, !.prev = applied] \in Batches
    BY <1>1 DEF Batches, TypeOK, Working
  <2>2. Equipped([b EXCEPT !.pc = "number", !.pty = pty.id, !.prev = applied])
    BY <1>1, <1>4 DEF Batches, Equipped, Collect, At
  <2> QED
    BY <1>2, <1>4, <2>1, <2>2 DEF Collect, EndBatch, Become
<1>5. CASE Number(c)
  <2>1. sizeSeq + 1 \in Seqs
    BY <1>5, RoomForNumber DEF Number, At
  <2>2. [b EXCEPT !.pc = "announce", !.seq = sizeSeq + 1] \in Batches
    BY <1>1, <2>1 DEF Batches, Working
  <2>3. Equipped([b EXCEPT !.pc = "announce", !.seq = sizeSeq + 1])
    BY <1>1, <1>5, <2>1 DEF Batches, Equipped, Number, At
  <2> QED
    BY <1>5, <2>2, <2>3 DEF Number, Become
<1>6. CASE Announce(c)
  <2>1. [b EXCEPT !.pc = "resize", !.to = Followers(c)] \in Batches
    BY <1>1 DEF Batches, Working, Followers
  <2>2. Equipped([b EXCEPT !.pc = "resize", !.to = Followers(c)])
    BY <1>1, <1>6 DEF Batches, Equipped, Announce, At
  <2> QED
    BY <1>6, <2>1, <2>2 DEF Announce, Become
<1>7. CASE Resize(c) \/ ResizeFails(c)
  <2>1. [b EXCEPT !.pc = "record"] \in Batches /\ [b EXCEPT !.pc = "undo"] \in Batches
    BY <1>1 DEF Batches, Working
  <2>2. /\ Equipped([b EXCEPT !.pc = "record"])
        /\ b.prev # NoSize => Equipped([b EXCEPT !.pc = "undo"])
    BY <1>1, <1>7 DEF Batches, Equipped, Resize, ResizeFails, At
  <2> QED
    BY <1>2, <1>7, <2>1, <2>2 DEF Resize, ResizeFails, Goto, EndBatch, Become
<1>8. CASE Undo(c)
  <2>1. sizeSeq + 1 \in Seqs
    BY <1>8, RoomForNumber DEF Undo, At
  <2>2. [b EXCEPT !.pc = "tellback", !.seq = sizeSeq + 1] \in Batches
    BY <1>1, <2>1 DEF Batches, Working
  <2>3. Equipped([b EXCEPT !.pc = "tellback", !.seq = sizeSeq + 1])
    BY <1>1, <1>8, <2>1 DEF Batches, Equipped, Undo, At
  <2> QED
    BY <1>8, <2>2, <2>3 DEF Undo, Become
<1>9. CASE Record(c) \/ TellBack(c)
  BY <1>2, <1>9 DEF Record, TellBack, EndBatch, Become
<1> QED
  BY <1>3, <1>4, <1>5, <1>6, <1>7, <1>8, <1>9 DEF Calls, Batching

LEMMA StepKeepsBatches ==
    ASSUME TypeOK, Counted, InHand, [Next]_vars
    PROVE  batch' \in [Clients -> Batches] /\ InHand'
<1>1. batch \in [Clients -> Batches]
  BY DEF TypeOK
<1>2. ASSUME NEW c \in Clients, Calls(c) PROVE batch' \in [Clients -> Batches] /\ InHand'
  <2>1. PICK b \in Batches : batch' = [batch EXCEPT ![c] = b] /\ Equipped(b)
    BY <1>2, CallWrites
  <2>2. batch' \in [Clients -> Batches]
    BY <1>1, <2>1
  <2>3. \A d \in Clients : batch'[d] = b \/ batch'[d] = batch[d]
    BY <1>1, <2>1
  <2> QED
    BY <2>1, <2>2, <2>3 DEF InHand, Equipped
<1>3. CASE UNCHANGED batch
  BY <1>1, <1>3 DEF InHand
<1> QED
  BY <1>2, <1>3, NextSplits
  DEF TakeControl, Receive, RestartDown, RestartSession, RestartInstall, BuildState,
      QueueState, Beside

\* A step that leaves the numbers and PTYs alone leaves what is owed for them.
LEMMA CallsCount ==
    ASSUME TypeOK, Counted, NEW c \in Clients, Calls(c)
    PROVE  /\ budget' \in Budgets /\ IsFiniteSet(Owed')
           /\ sizeSeq' + Cardinality(Owed') + 2 * budget'.requests <= 1 + 2 * MaxRequests
           /\ ptys' = ptys /\ restart' = restart /\ budget'.restarts = budget.restarts
<1>1. /\ batch \in [Clients -> Batches] /\ budget \in Budgets /\ sizeSeq \in Nat
      /\ budget.requests \in Nat
  BY DEF TypeOK, Counted, Budgets, Seqs
<1>2. /\ IsFiniteSet(Owed) /\ Cardinality(Owed) \in Nat
      /\ sizeSeq + Cardinality(Owed) + 2 * budget.requests <= 1 + 2 * MaxRequests
  BY FS_CardinalityType DEF Counted
<1>3. CASE \E s \in Sizes : Request(c, s)
  <2>1. /\ sizeSeq' = sizeSeq /\ ptys' = ptys /\ restart' = restart
        /\ budget.requests > 0 /\ budget' = [budget EXCEPT !.requests = budget.requests - 1]
    BY <1>3 DEF Request, Spend, paneVars
  <2>2. /\ budget' \in Budgets /\ budget'.requests = budget.requests - 1
        /\ budget'.restarts = budget.restarts
    BY <1>1, <2>1 DEF Budgets
  <2>3. Owed' \subseteq (Owed \cup {<<c, 1>>}) \cup {<<c, 2>>}
    BY <1>1, <1>3 DEF Request, Become, Owed, Owes, NoBatch
  <2>4. IsFiniteSet(Owed') /\ Cardinality(Owed') \in Nat /\ Cardinality(Owed') <= Cardinality(Owed) + 2
    BY <1>2, <2>3, OweTwoMore
  <2> QED
    BY <1>1, <1>2, <2>1, <2>2, <2>4, Constants
<1>4. CASE Number(c) \/ Undo(c)
  <2>1. /\ sizeSeq' = sizeSeq + 1 /\ ptys' = ptys /\ restart' = restart /\ budget' = budget
    BY <1>4 DEF Number, Undo, Numbered
  <2>2. \E n \in {1, 2} : <<c, n>> \in Owed /\ Owed' \subseteq Owed \ {<<c, n>>}
    <3>1. CASE Number(c)
      <4>1. <<c, 2>> \in Owed /\ Owed' \subseteq Owed \ {<<c, 2>>}
        BY <1>1, <3>1 DEF Number, At, Become, Owed, Owes
      <4> QED
        BY <4>1
    <3>2. CASE Undo(c)
      <4>1. <<c, 1>> \in Owed /\ Owed' \subseteq Owed \ {<<c, 1>>}
        BY <1>1, <3>2 DEF Undo, At, Become, Owed, Owes
      <4> QED
        BY <4>1
    <3> QED
      BY <1>4, <3>1, <3>2
  <2>3. IsFiniteSet(Owed') /\ Cardinality(Owed') \in Nat /\ Cardinality(Owed') <= Cardinality(Owed) - 1
    BY <1>2, <2>2, OweOneLess
  <2> QED
    BY <1>1, <1>2, <2>1, <2>3, Constants
<1>5. CASE Collect(c) \/ Announce(c) \/ Resize(c) \/ ResizeFails(c) \/ Record(c) \/ TellBack(c)
  <2>1. sizeSeq' = sizeSeq /\ ptys' = ptys /\ restart' = restart
    BY <1>5 DEF Collect, Announce, Resize, ResizeFails, Record, TellBack, paneVars
  <2>2. \/ budget' = budget
        \/ (budget' = [budget EXCEPT !.faults = budget.faults - 1] /\ budget.faults > 0)
    <3>1. CASE ResizeFails(c)
      <4>1. budget' = budget \/ Spend("faults")
        BY <3>1 DEF ResizeFails
      <4> QED
        BY <1>1, <4>1 DEF Spend
    <3>2. CASE Collect(c) \/ Announce(c) \/ Resize(c) \/ Record(c) \/ TellBack(c)
      BY <3>2 DEF Collect, Announce, Resize, Record, TellBack
    <3> QED
      BY <1>5, <3>1, <3>2
  <2>3. /\ budget' \in Budgets /\ budget'.requests = budget.requests
        /\ budget'.restarts = budget.restarts
    BY <1>1, <2>2 DEF Budgets
  <2>4. Owed' \subseteq Owed
    <3>1. \E b : batch' = [batch EXCEPT ![c] = b]
      BY <1>5 DEF Collect, Announce, Resize, ResizeFails, Record, TellBack, Become, Goto, EndBatch
    <3>2. \A d \in Clients : d # c => batch'[d] = batch[d]
      BY <1>1, <3>1
    <3>3. CASE Collect(c)
      <4>1. batch[c].pc = "read" /\ batch[c] \in Batches
        BY <1>1, <3>3 DEF Collect, At
      <4>2. \/ batch' = [batch EXCEPT ![c] = NoBatch]
            \/ batch' = [batch EXCEPT ![c] =
                            [batch[c] EXCEPT !.pc = "number", !.pty = pty.id, !.prev = applied]]
        BY <3>3 DEF Collect, Become, EndBatch
      <4>3. /\ NoBatch.pc = "idle"
            /\ [batch[c] EXCEPT !.pc = "number", !.pty = pty.id, !.prev = applied].pc = "number"
        BY <4>1 DEF NoBatch, Batches
      <4>4. batch'[c].pc \in {"idle", "number"}
        BY <1>1, <4>2, <4>3
      <4> QED
        BY <3>2, <4>1, <4>4 DEF Owed, Owes
    <3>4. CASE Announce(c)
      <4>1. batch[c].pc = "announce" /\ batch'[c].pc = "resize"
        BY <1>1, <3>4 DEF Announce, At, Become, Batches
      <4> QED
        BY <3>2, <4>1 DEF Owed, Owes
    <3>5. CASE Resize(c) \/ ResizeFails(c)
      <4>1. batch[c].pc = "resize" /\ batch'[c].pc \in {"record", "undo", "idle"}
        BY <1>1, <3>5 DEF Resize, ResizeFails, At, Become, Goto, EndBatch, NoBatch, Batches
      <4> QED
        BY <3>2, <4>1 DEF Owed, Owes
    <3>6. CASE Record(c) \/ TellBack(c)
      <4>1. batch[c].pc \in {"record", "tellback"} /\ batch'[c].pc = "idle"
        BY <1>1, <3>6 DEF Record, TellBack, At, Become, EndBatch, NoBatch, Batches
      <4> QED
        BY <3>2, <4>1 DEF Owed, Owes
    <3> QED
      BY <1>5, <3>3, <3>4, <3>5, <3>6
  <2>5. IsFiniteSet(Owed') /\ Cardinality(Owed') \in Nat /\ Cardinality(Owed') <= Cardinality(Owed)
    BY <1>2, <2>4, OweLess
  <2> QED
    BY <1>1, <1>2, <2>1, <2>3, <2>5, Constants
<1> QED
  BY <1>3, <1>4, <1>5 DEF Calls, Batching

LEMMA StepKeepsCounted ==
    ASSUME TypeOK, Counted, [Next]_vars
    PROVE  Counted'
<1>1. /\ budget \in Budgets /\ restart \in {"none", "down"} \cup AllSizes
      /\ ptys \in Nat /\ budget.restarts \in Nat
  BY DEF TypeOK, Counted, Budgets
<1>2. CASE \E c \in Clients : Calls(c)
  BY <1>2, CallsCount DEF Counted
<1>3. CASE ~ \E c \in Clients : Calls(c)
  <2>1. Owed' = Owed /\ sizeSeq' = sizeSeq
    BY <1>3, NextSplits
    DEF TakeControl, Receive, RestartDown, RestartSession, RestartInstall, BuildState,
        QueueState, Beside, paneVars, Owed, Owes
  <2>2. CASE RestartDown
    <3>1. /\ budget.restarts > 0 /\ budget' = [budget EXCEPT !.restarts = budget.restarts - 1]
          /\ restart = "none" /\ restart' = "down" /\ ptys' = ptys
      BY <2>2 DEF RestartDown, Spend
    <3>2. /\ budget' \in Budgets /\ budget'.requests = budget.requests
          /\ budget'.restarts = budget.restarts - 1
      BY <1>1, <3>1 DEF Budgets
    <3> QED
      BY <1>1, <2>1, <3>1, <3>2, Constants DEF Counted
  <2>3. CASE RestartSession \/ RestartInstall
    <3>1. budget' = budget
      BY <2>3 DEF RestartSession, RestartInstall
    <3>2. \/ restart # "none" /\ restart' # "none" /\ ptys' = ptys
          \/ restart # "none" /\ restart' = "none" /\ ptys' = ptys + 1
      BY <2>3, Constants DEF RestartSession, RestartInstall, paneVars, TypeOK
    <3> QED
      BY <1>1, <2>1, <3>1, <3>2, Constants DEF Counted
  <2>4. CASE ~RestartDown /\ ~RestartSession /\ ~RestartInstall
    <3>1. ptys' = ptys /\ restart' = restart
      BY <1>3, <2>4, NextSplits
      DEF TakeControl, Receive, BuildState, QueueState, Beside, paneVars
    <3>2. \/ budget' = budget \/ \E k \in Kickers : Kicking(k)
          \/ (budget' = [budget EXCEPT !.takes = budget.takes - 1] /\ budget.takes > 0)
          \/ (budget' = [budget EXCEPT !.casts = budget.casts - 1] /\ budget.casts > 0)
      BY <1>3, <2>4, NextSplits
      DEF TakeControl, Receive, BuildState, QueueState, Beside, Spend
    <3>3. /\ budget' \in Budgets /\ budget'.requests = budget.requests
          /\ budget'.restarts = budget.restarts
      BY <1>1, <3>2, KicksCount DEF Budgets
    <3> QED
      BY <2>1, <3>1, <3>3 DEF Counted
  <2> QED
    BY <2>2, <2>3, <2>4
<1> QED
  BY <1>2, <1>3

-----------------------------------------------------------------------------
(* What the clients are told *)

Frames == [size : AllSizes, seq : Seqs]

LEMMA ToldFrames ==
    ASSUME TypeOK, NEW f \in Clients
    PROVE  Told(f) \subseteq Frames /\ held[f] \in Told(f)
<1>1. held[f] \in Frames /\ inbox[f] \in Seq(Frames)
  BY DEF TypeOK, Frames
<1>2. \A i \in DOMAIN inbox[f] : inbox[f][i] \in Frames
  BY <1>1, ElementOfSeq, LenProperties
<1> QED
  BY <1>1, <1>2 DEF Told

\* A frame that is queued is told to those it is queued for.
LEMMA Queues ==
    ASSUME TypeOK, NEW to, NEW x \in Frames, QueueFor(to, x), held' = held
    PROVE  /\ inbox' \in [Clients -> Seq(Frames)]
           /\ \A f \in Clients : Told(f)' = IF f \in to THEN Told(f) \cup {x} ELSE Told(f)
<1>1. inbox \in [Clients -> Seq(Frames)]
  BY DEF TypeOK, Frames
<1>2. \A f \in Clients : inbox'[f] = IF f \in to THEN Append(inbox[f], x) ELSE inbox[f]
  BY DEF QueueFor
<1>3. \A f \in Clients : Append(inbox[f], x) \in Seq(Frames)
  BY <1>1, AppendProperties
<1>4. inbox' \in [Clients -> Seq(Frames)]
  BY <1>1, <1>3 DEF QueueFor
<1>5. ASSUME NEW f \in Clients
      PROVE  Told(f)' = IF f \in to THEN Told(f) \cup {x} ELSE Told(f)
  <2>1. CASE f \in to
    <3> DEFINE q == inbox[f]
               r == Append(q, x)
    <3>1. q \in Seq(Frames) /\ inbox'[f] = r
      BY <1>1, <1>2, <2>1
    <3>2. /\ Len(q) \in Nat /\ DOMAIN q = 1 .. Len(q) /\ DOMAIN r = 1 .. Len(q) + 1
          /\ \A i \in 1 .. Len(q) : r[i] = q[i]
          /\ r[Len(q) + 1] = x
      BY <3>1, AppendProperties, LenProperties
    <3> HIDE DEF q, r
    <3>3. {r[i] : i \in DOMAIN r} = {q[i] : i \in DOMAIN q} \cup {x}
      BY <3>2
    <3>4. /\ Told(f)' = {held[f]} \cup {r[i] : i \in DOMAIN r}
          /\ Told(f) = {held[f]} \cup {q[i] : i \in DOMAIN q}
      BY <3>1 DEF Told, q
    <3> QED
      BY <2>1, <3>3, <3>4
  <2>2. CASE f \notin to
    BY <1>2, <2>2 DEF Told
  <2> QED
    BY <2>1, <2>2
<1> QED
  BY <1>4, <1>5

\* A client that reads a frame loses one of the two it compares, and not the
\* newer one.
LEMMA Reads ==
    ASSUME TypeOK, NEW c \in Clients, Receive(c)
    PROVE  /\ inbox' \in [Clients -> Seq(Frames)] /\ held' \in [Clients -> Frames]
           /\ \A f \in Clients : f # c => Told(f)' = Told(f)
           /\ \E kept, lost \in Told(c) :
                /\ kept.seq >= lost.seq /\ kept \in Told(c)'
                /\ Told(c)' \subseteq Told(c) /\ Told(c) \subseteq Told(c)' \cup {lost}
<1> DEFINE q == inbox[c]
           h == held[c]
           x == Head(q)
           t == Tail(q)
<1>1. /\ inbox \in [Clients -> Seq(Frames)] /\ held \in [Clients -> Frames]
      /\ q \in Seq(Frames) /\ q # <<>> /\ h \in Frames
  BY DEF TypeOK, Frames, Receive
<1>2. /\ x \in Frames /\ t \in Seq(Frames) /\ Len(t) = Len(q) - 1 /\ Len(q) \in Nat \ {0}
      /\ x = q[1] /\ \A i \in 1 .. Len(t) : t[i] = q[i + 1]
      /\ DOMAIN q = 1 .. Len(q) /\ DOMAIN t = 1 .. Len(t)
  BY <1>1, HeadTailProperties, EmptySeq, LenProperties
<1>3. /\ inbox' = [inbox EXCEPT ![c] = t]
      /\ held' = IF x.seq >= h.seq THEN [held EXCEPT ![c] = x] ELSE held
  BY DEF Receive, Adopts
<1> HIDE DEF q, h, x, t
<1>4. {q[i] : i \in DOMAIN q} = {x} \cup {t[i] : i \in DOMAIN t}
  <2>1. \A i \in DOMAIN q : q[i] = x \/ \E j \in DOMAIN t : q[i] = t[j]
    <3> SUFFICES ASSUME NEW i \in DOMAIN q, i # 1 PROVE \E j \in DOMAIN t : q[i] = t[j]
      BY <1>2
    <3>1. i - 1 \in DOMAIN t /\ (i - 1) + 1 = i
      BY <1>2
    <3> QED
      BY <1>2, <3>1
  <2>2. \A j \in DOMAIN t : j + 1 \in DOMAIN q /\ t[j] = q[j + 1]
    BY <1>2
  <2>3. 1 \in DOMAIN q /\ x = q[1]
    BY <1>2
  <2> QED
    BY <2>1, <2>2, <2>3
<1>5. /\ inbox' \in [Clients -> Seq(Frames)] /\ held' \in [Clients -> Frames]
      /\ inbox'[c] = t /\ held'[c] = IF x.seq >= h.seq THEN x ELSE h
      /\ \A f \in Clients : f # c => inbox'[f] = inbox[f] /\ held'[f] = held[f]
  BY <1>1, <1>2, <1>3 DEF h
<1>6. Told(c) = {h} \cup ({x} \cup {t[i] : i \in DOMAIN t})
  BY <1>4 DEF Told, q, h
<1>7. Told(c)' = {IF x.seq >= h.seq THEN x ELSE h} \cup {t[i] : i \in DOMAIN t}
  BY <1>5 DEF Told
<1>8. x.seq \in Nat /\ h.seq \in Nat
  BY <1>1, <1>2 DEF Frames, Seqs
<1>9. \E kept, lost \in Told(c) :
        /\ kept.seq >= lost.seq /\ kept \in Told(c)'
        /\ Told(c)' \subseteq Told(c) /\ Told(c) \subseteq Told(c)' \cup {lost}
  <2>1. CASE x.seq >= h.seq
    BY <1>6, <1>7, <2>1
  <2>2. CASE h.seq >= x.seq /\ ~(x.seq >= h.seq)
    BY <1>6, <1>7, <2>2
  <2> QED
    BY <1>8, <2>1, <2>2
<1>10. \A f \in Clients : f # c => Told(f)' = Told(f)
  BY <1>5 DEF Told
<1> QED
  BY <1>5, <1>9, <1>10

-----------------------------------------------------------------------------
(* The other types *)

LEMMA StepKeepsFrames ==
    ASSUME TypeOK, InHand, [Next]_vars
    PROVE  /\ inbox' \in [Clients -> Seq(Frames)] /\ held' \in [Clients -> Frames]
           /\ cast' \in Frames \cup {NoFrame}
<1>1. /\ inbox \in [Clients -> Seq(Frames)] /\ held \in [Clients -> Frames]
      /\ cast \in Frames \cup {NoFrame}
  BY DEF TypeOK, Frames
<1>2. ASSUME NEW c \in Clients, Announce(c) \/ TellBack(c)
      PROVE  inbox' \in [Clients -> Seq(Frames)] /\ held' = held /\ cast' = cast
  <2>1. CASE Announce(c)
    <3>1. [size |-> batch[c].want, seq |-> batch[c].seq] \in Frames
      BY <2>1 DEF Announce, At, InHand, Equipped, Frames
    <3> QED
      BY <2>1, <3>1, Queues DEF Announce
  <2>2. CASE TellBack(c)
    <3>1. [size |-> batch[c].prev, seq |-> batch[c].seq] \in Frames
      BY <2>2 DEF TellBack, At, InHand, Equipped, Frames
    <3> QED
      BY <2>2, <3>1, Queues DEF TellBack, frameVars
  <2> QED
    BY <1>2, <2>1, <2>2
<1>3. ASSUME NEW c \in Clients, Calls(c), ~Announce(c), ~TellBack(c)
      PROVE  UNCHANGED <<inbox, held, cast>>
  BY <1>3 DEF Calls, Batching, Request, Collect, Number, Resize, ResizeFails, Record, Undo,
              frameVars
<1>4. ASSUME NEW c \in Clients, Receive(c)
      PROVE  /\ inbox' \in [Clients -> Seq(Frames)] /\ held' \in [Clients -> Frames]
             /\ cast' = cast
  BY <1>4, Reads DEF Receive
<1>5. CASE BuildState
  <2>1. Frame \in Frames
    BY DEF Frame, Frames, TypeOK
  <2> QED
    BY <1>1, <1>5, <2>1 DEF BuildState
<1>6. CASE QueueState
  BY <1>1, <1>6, Queues DEF QueueState
<1>7. CASE \/ \E c \in Clients : TakeControl(c)
           \/ RestartDown \/ RestartSession \/ RestartInstall \/ Beside
  BY <1>1, <1>7 DEF TakeControl, RestartDown, RestartSession, RestartInstall, Beside, frameVars
<1> QED
  BY <1>1, <1>2, <1>3, <1>4, <1>5, <1>6, <1>7, NextSplits

LEMMA StepKeepsFlags ==
    ASSUME TypeOK, [Next]_vars
    PROVE  /\ master' \in Clients \cup {NoMaster}
           /\ {overlapped', deposed', failed', bare'} \subseteq BOOLEAN
           /\ restart' \in {"none", "down"} \cup AllSizes
<1>1. /\ master \in Clients \cup {NoMaster}
      /\ overlapped \in BOOLEAN /\ deposed \in BOOLEAN /\ failed \in BOOLEAN /\ bare \in BOOLEAN
      /\ restart \in {"none", "down"} \cup AllSizes /\ size \in AllSizes
  BY DEF TypeOK
<1>2. ASSUME NEW c \in Clients, Calls(c)
      PROVE  /\ master' = master /\ restart' = restart /\ deposed' = deposed
             /\ overlapped' \in BOOLEAN /\ failed' \in BOOLEAN /\ bare' \in BOOLEAN
  <2>1. master' = master /\ restart' = restart /\ deposed' = deposed
    BY <1>2 DEF Calls, Batching, Request, Collect, Number, Announce, Resize, ResizeFails, Record,
                Undo, TellBack, histVars
  <2>2. overlapped' = overlapped \/ overlapped' = (overlapped \/ AtWork # {} \/ restart # "none")
    BY <1>2 DEF Calls, Batching, Request, Collect, Number, Announce, Resize, ResizeFails, Record,
                Undo, TellBack, histVars
  <2>3. (failed' = failed \/ failed' = TRUE) /\ (bare' = bare \/ bare' = TRUE)
    BY <1>2 DEF Calls, Batching, Request, Collect, Number, Announce, Resize, ResizeFails, Record,
                Undo, TellBack, histVars
  <2>4. (overlapped \/ AtWork # {} \/ restart # "none") \in BOOLEAN
    OBVIOUS
  <2> QED
    BY <1>1, <2>1, <2>2, <2>3, <2>4
<1>3. ASSUME NEW c \in Clients, TakeControl(c) \/ Receive(c)
      PROVE  /\ master' \in {master, c} /\ restart' = restart
             /\ overlapped' = overlapped /\ failed' = failed /\ bare' = bare
             /\ deposed' \in BOOLEAN
  BY <1>1, <1>3 DEF TakeControl, Receive, histVars
<1>4. CASE RestartDown \/ RestartSession \/ RestartInstall \/ BuildState \/ QueueState
  <2>1. /\ master' = master /\ deposed' = deposed /\ failed' = failed /\ bare' = bare
        /\ restart' \in {restart, "none", "down", size}
    BY <1>4 DEF RestartDown, RestartSession, RestartInstall, BuildState, QueueState, histVars
  <2>2. overlapped' = overlapped \/ overlapped' = (overlapped \/ AtWork # {})
    BY <1>4 DEF RestartDown, RestartSession, RestartInstall, BuildState, QueueState, histVars
  <2>3. (overlapped \/ AtWork # {}) \in BOOLEAN
    OBVIOUS
  <2> QED
    BY <1>1, <2>1, <2>2, <2>3
<1>5. CASE Beside
  BY <1>1, <1>5 DEF Beside, histVars
<1> QED
  BY <1>1, <1>2, <1>3, <1>4, <1>5, NextSplits

LEMMA StepKeepsPty ==
    ASSUME TypeOK, Counted, InHand, Aimed, [Next]_vars
    PROVE  /\ pty' \in Ptys
           /\ ptys' \in 1 .. 1 + MaxRestarts
           /\ size' \in AllSizes /\ applied' \in AllSizes \cup {NoSize}
<1>1. /\ pty \in Ptys /\ ptys \in 1 .. 1 + MaxRestarts
      /\ size \in AllSizes /\ applied \in AllSizes \cup {NoSize}
      /\ restart \in {"none", "down"} \cup AllSizes /\ budget.restarts \in Nat
  BY DEF TypeOK, Counted, Budgets, Ptys
<1>2. ASSUME NEW c \in Clients, Calls(c)
      PROVE  /\ ptys' = ptys
             /\ \/ pty' = pty
                \/ (pty' = [pty EXCEPT !.size = batch[c].want] /\ batch[c].want \in AllSizes)
             /\ size' = size \/ (size' = batch[c].want /\ batch[c].want \in AllSizes)
             /\ applied' = applied \/ (applied' = batch[c].want /\ batch[c].want \in AllSizes)
  <2>1. CASE Resize(c) \/ Record(c)
    <3>1. batch[c].want \in AllSizes
      BY <2>1 DEF Resize, Record, At, InHand, Equipped
    <3> QED
      BY <2>1, <3>1 DEF Resize, Record
  <2>2. CASE ~Resize(c) /\ ~Record(c)
    BY <1>2, <2>2 DEF Calls, Batching, Request, Collect, Number, Announce, ResizeFails,
                      Undo, TellBack, paneVars
  <2> QED
    BY <2>1, <2>2
<1>3. CASE RestartInstall
  <2>1. restart # "none" /\ restart \in AllSizes
    BY <1>3, Constants DEF RestartInstall
  <2>2. ptys + 1 \in 1 .. 1 + MaxRestarts
    BY <1>1, <2>1, Constants DEF Counted
  <2>3. [id |-> ptys + 1, size |-> restart] \in Ptys
    <3>1. ptys + 1 \in 0 .. 1 + MaxRestarts
      BY <2>2, Constants
    <3> QED
      BY <2>1, <3>1 DEF Ptys
  <2> QED
    BY <1>1, <1>3, <2>1, <2>2, <2>3 DEF RestartInstall
<1>4. CASE RestartDown
  BY <1>1, <1>4, Constants DEF RestartDown, Ptys
<1>5. CASE \/ \E c \in Clients : TakeControl(c) \/ Receive(c)
           \/ RestartSession \/ BuildState \/ QueueState \/ Beside
  <2>1. UNCHANGED <<ptys, size, applied>> /\ (pty' = pty \/ \E k \in Kickers : Kicking(k))
    BY <1>5 DEF TakeControl, Receive, RestartSession, BuildState, QueueState, Beside, paneVars
  <2> QED
    BY <1>1, <2>1, KicksKeepTypes
<1>6. \A s \in AllSizes : [pty EXCEPT !.size = s] \in Ptys
  BY <1>1 DEF Ptys
<1> QED
  BY <1>1, <1>2, <1>3, <1>4, <1>5, <1>6, NextSplits

\* What the numbers a step takes do: they grow by one, and only with a size
\* that is announced under the new one.
LEMMA NumbersGrow ==
    ASSUME TypeOK, Counted, InHand, Numbers, [Next]_vars
    PROVE  /\ colsSeq' \in Seqs /\ sizeSeq' \in Seqs /\ colsSeq <= colsSeq' /\ colsSeq' <= sizeSeq'
           /\ sizeSeq <= sizeSeq'
           /\ DOMAIN announced' = 1 .. sizeSeq'
           /\ \A n \in 1 .. sizeSeq : announced'[n] = announced[n]
<1>1. /\ colsSeq \in Seqs /\ sizeSeq \in Seqs /\ colsSeq <= sizeSeq
      /\ DOMAIN announced = 1 .. sizeSeq /\ \A c \in Clients : batch[c].seq <= sizeSeq
      /\ Seqs \subseteq Nat
  BY DEF TypeOK, Numbers, Seqs
<1>2. ASSUME NEW c \in Clients, NEW s, Numbered(c, s), UNCHANGED colsSeq,
             batch[c].pc \in {"number", "undo"}
      PROVE  /\ colsSeq' \in Seqs /\ sizeSeq' \in Seqs /\ colsSeq <= colsSeq' /\ colsSeq' <= sizeSeq'
             /\ sizeSeq <= sizeSeq'
             /\ DOMAIN announced' = 1 .. sizeSeq'
             /\ \A n \in 1 .. sizeSeq : announced'[n] = announced[n]
  <2>1. sizeSeq + 1 \in Seqs /\ sizeSeq' = sizeSeq + 1
    <3>1. sizeSeq + 1 \in Seqs
      BY <1>2, RoomForNumber
    <3>2. sizeSeq' = sizeSeq + 1
      BY <1>2 DEF Numbered
    <3> QED
      BY <3>1, <3>2
  <2>2. (1 .. sizeSeq) \cup {sizeSeq + 1} = 1 .. sizeSeq + 1
    <3>1. sizeSeq \in Nat
      BY <1>1
    <3> QED
      BY <3>1
  <2>3. /\ DOMAIN announced' = 1 .. sizeSeq + 1
        /\ \A n \in 1 .. sizeSeq : announced'[n] = announced[n]
    BY <1>1, <1>2, <2>2 DEF Numbered
  <2> QED
    BY <1>1, <1>2, <2>1, <2>3
<1>3. ASSUME NEW c \in Clients, Number(c) \/ Undo(c)
      PROVE  /\ \E s : Numbered(c, s)
             /\ UNCHANGED colsSeq /\ batch[c].pc \in {"number", "undo"}
  BY <1>3 DEF Number, Undo, At
<1>4. ASSUME NEW c \in Clients, Record(c)
      PROVE  /\ sizeSeq' = sizeSeq /\ announced' = announced
             /\ colsSeq' \in Seqs /\ colsSeq <= colsSeq' /\ colsSeq' <= sizeSeq'
  <2>1. /\ batch[c].seq \in Seqs /\ colsSeq' = Later(colsSeq, batch[c].seq)
        /\ sizeSeq' = sizeSeq /\ announced' = announced
    BY <1>4 DEF Record, At, InHand, Equipped
  <2>2. /\ colsSeq' \in {colsSeq, batch[c].seq} /\ colsSeq <= colsSeq'
    BY <1>1, <2>1 DEF Later
  <2> QED
    BY <1>1, <2>1, <2>2
<1>5. ASSUME NEW c \in Clients, Calls(c), ~Number(c), ~Undo(c), ~Record(c)
      PROVE  UNCHANGED <<colsSeq, sizeSeq, announced>>
  BY <1>5 DEF Calls, Batching, Request, Collect, Announce, Resize, ResizeFails, TellBack, paneVars
<1>6. CASE \/ \E c \in Clients : TakeControl(c) \/ Receive(c)
           \/ RestartDown \/ RestartSession \/ RestartInstall \/ BuildState \/ QueueState
           \/ Beside
  <2>1. UNCHANGED <<colsSeq, sizeSeq, announced>>
    BY <1>6 DEF TakeControl, Receive, RestartDown, RestartSession, RestartInstall, BuildState,
                QueueState, Beside, paneVars
  <2> QED
    BY <1>1, <2>1
<1>7. CASE \E c \in Clients : Calls(c)
  <2>1. PICK c \in Clients : Calls(c)
    BY <1>7
  <2>2. CASE Number(c) \/ Undo(c)
    BY <1>2, <1>3, <2>2
  <2>3. CASE Record(c)
    BY <1>1, <1>4, <2>3
  <2>4. CASE ~Number(c) /\ ~Undo(c) /\ ~Record(c)
    BY <1>1, <1>5, <2>1, <2>4
  <2> QED
    BY <2>2, <2>3, <2>4
<1> QED
  BY <1>6, <1>7, NextSplits

LEMMA StepKeepsTypes ==
    ASSUME TypeOK, Counted, InHand, Numbers, Aimed, [Next]_vars
    PROVE  TypeOK'
<1>1. DOMAIN announced' \subseteq Seqs
  BY NumbersGrow, Constants DEF Seqs
<1> QED
  BY <1>1, NumbersGrow, StepKeepsPty, StepKeepsFlags, StepKeepsFrames, StepKeepsBatches,
     StepKeepsKicks
  DEF TypeOK, Frames, Ptys

-----------------------------------------------------------------------------
(* What each step of applyResizes does, field by field *)

\* A step that goes on with its batch.
Keeps(c) ==
    /\ batch'[c].want = batch[c].want /\ batch'[c].pty = batch[c].pty
    /\ batch'[c].prev = batch[c].prev

LEMMA OthersStay ==
    ASSUME TypeOK, Counted, InHand, NEW c \in Clients, Calls(c)
    PROVE  \A d \in Clients : d # c => batch'[d] = batch[d]
<1>1. PICK b \in Batches : batch' = [batch EXCEPT ![c] = b]
  BY CallWrites
<1> QED
  BY <1>1 DEF TypeOK

LEMMA Becomes ==
    ASSUME TypeOK, NEW c \in Clients, NEW b, Become(c, b)
    PROVE  batch'[c] = b
  BY DEF TypeOK, Become

LEMMA Moves ==
    ASSUME TypeOK, NEW c \in Clients
    PROVE  /\ Number(c) =>
                /\ batch[c].pc = "number" /\ batch'[c].pc = "announce"
                /\ batch'[c].seq = sizeSeq + 1
                /\ Keeps(c)
           /\ Announce(c) =>
                /\ batch[c].pc = "announce" /\ batch'[c].pc = "resize"
                /\ batch'[c].to = Followers(c)
                /\ Keeps(c) /\ batch'[c].seq = batch[c].seq
           /\ Resize(c) =>
                /\ batch[c].pc = "resize" /\ batch'[c].pc = "record"
                /\ Keeps(c) /\ batch'[c].seq = batch[c].seq
                /\ batch'[c].to = batch[c].to
           /\ Undo(c) =>
                /\ batch[c].pc = "undo" /\ batch'[c].pc = "tellback"
                /\ batch'[c].seq = sizeSeq + 1
                /\ Keeps(c)
           /\ Record(c) => batch[c].pc = "record" /\ batch'[c] = NoBatch
           /\ TellBack(c) => batch[c].pc = "tellback" /\ batch'[c] = NoBatch
<1>1. batch[c] \in Batches
  BY DEF TypeOK
<1>2. Number(c) =>
        /\ batch[c].pc = "number" /\ batch'[c].pc = "announce"
        /\ batch'[c].seq = sizeSeq + 1
        /\ Keeps(c)
  <2>1. CASE Number(c)
    <3>1. batch'[c] = [batch[c] EXCEPT !.pc = "announce", !.seq = sizeSeq + 1]
      BY <2>1, Becomes DEF Number, At
    <3> QED
      BY <1>1, <2>1, <3>1 DEF Batches, Number, At, Keeps
  <2> QED
    BY <2>1
<1>3. Announce(c) =>
        /\ batch[c].pc = "announce" /\ batch'[c].pc = "resize"
        /\ batch'[c].to = Followers(c)
        /\ Keeps(c) /\ batch'[c].seq = batch[c].seq
  <2>1. CASE Announce(c)
    <3>1. batch'[c] = [batch[c] EXCEPT !.pc = "resize", !.to = Followers(c)]
      BY <2>1, Becomes DEF Announce, At
    <3> QED
      BY <1>1, <2>1, <3>1 DEF Batches, Announce, At, Keeps
  <2> QED
    BY <2>1
<1>4. Resize(c) =>
        /\ batch[c].pc = "resize" /\ batch'[c].pc = "record"
        /\ Keeps(c) /\ batch'[c].seq = batch[c].seq
        /\ batch'[c].to = batch[c].to
  <2>1. CASE Resize(c)
    <3>1. batch'[c] = [batch[c] EXCEPT !.pc = "record"]
      BY <2>1, Becomes DEF Resize, Goto
    <3> QED
      BY <1>1, <2>1, <3>1 DEF Batches, Resize, At, Keeps
  <2> QED
    BY <2>1
<1>5. Undo(c) =>
        /\ batch[c].pc = "undo" /\ batch'[c].pc = "tellback"
        /\ batch'[c].seq = sizeSeq + 1
        /\ Keeps(c)
  <2>1. CASE Undo(c)
    <3>1. batch'[c] = [batch[c] EXCEPT !.pc = "tellback", !.seq = sizeSeq + 1]
      BY <2>1, Becomes DEF Undo, At
    <3> QED
      BY <1>1, <2>1, <3>1 DEF Batches, Undo, At, Keeps
  <2> QED
    BY <2>1
<1>6. /\ Record(c) => batch[c].pc = "record" /\ batch'[c] = NoBatch
      /\ TellBack(c) => batch[c].pc = "tellback" /\ batch'[c] = NoBatch
  BY Becomes DEF Record, TellBack, At, EndBatch
<1> QED
  BY <1>2, <1>3, <1>4, <1>5, <1>6

LEMMA Branches ==
    ASSUME TypeOK, NEW c \in Clients
    PROVE  /\ (\E s \in Sizes : Request(c, s)) =>
                /\ batch[c].pc = "idle" /\ batch'[c].pc = "read"
                /\ batch'[c].seq = 0
           /\ Collect(c) =>
                /\ batch[c].pc = "read"
                /\ \/ batch'[c] = NoBatch /\ overlapped' = overlapped
                   \/ /\ batch'[c].pc = "number"
                      /\ batch'[c].pty = pty.id /\ batch'[c].prev = applied
                      /\ batch'[c].want = batch[c].want /\ batch'[c].seq = batch[c].seq
                      /\ overlapped' = (overlapped \/ AtWork # {} \/ restart # "none")
           /\ ResizeFails(c) =>
                /\ batch[c].pc = "resize" /\ failed' = TRUE
                /\ \/ batch'[c] = NoBatch /\ bare' = TRUE
                   \/ /\ batch[c].prev # NoSize /\ batch'[c].pc = "undo" /\ bare' = bare
                      /\ Keeps(c) /\ batch'[c].seq = batch[c].seq
<1>1. batch[c] \in Batches
  BY DEF TypeOK
<1>2. (\E s \in Sizes : Request(c, s)) =>
        /\ batch[c].pc = "idle" /\ batch'[c].pc = "read"
        /\ batch'[c].seq = 0
  BY Becomes DEF Request, At, NoBatch
<1>3. Collect(c) =>
        /\ batch[c].pc = "read"
        /\ \/ batch'[c] = NoBatch /\ overlapped' = overlapped
           \/ /\ batch'[c].pc = "number"
              /\ batch'[c].pty = pty.id /\ batch'[c].prev = applied
              /\ batch'[c].want = batch[c].want /\ batch'[c].seq = batch[c].seq
              /\ overlapped' = (overlapped \/ AtWork # {} \/ restart # "none")
  <2>1. CASE Collect(c)
    <3>1. \/ batch'[c] = NoBatch /\ overlapped' = overlapped
          \/ /\ batch'[c] = [batch[c] EXCEPT !.pc = "number", !.pty = pty.id, !.prev = applied]
             /\ overlapped' = (overlapped \/ AtWork # {} \/ restart # "none")
      BY <2>1, Becomes DEF Collect, EndBatch
    <3> QED
      BY <1>1, <2>1, <3>1 DEF Batches, Collect, At
  <2> QED
    BY <2>1
<1>4. ResizeFails(c) =>
        /\ batch[c].pc = "resize" /\ failed' = TRUE
        /\ \/ batch'[c] = NoBatch /\ bare' = TRUE
           \/ /\ batch[c].prev # NoSize /\ batch'[c].pc = "undo" /\ bare' = bare
              /\ Keeps(c) /\ batch'[c].seq = batch[c].seq
  <2>1. CASE ResizeFails(c)
    <3>1. \/ batch'[c] = NoBatch /\ bare' = TRUE
          \/ /\ batch'[c] = [batch[c] EXCEPT !.pc = "undo"]
             /\ batch[c].prev # NoSize /\ bare' = bare
      BY <2>1, Becomes DEF ResizeFails, EndBatch, Goto
    <3> QED
      BY <1>1, <2>1, <3>1 DEF Batches, ResizeFails, At, Keeps
  <2> QED
    BY <2>1
<1> QED
  BY <1>2, <1>3, <1>4

\* The steps between the phases of a batch, and those that leave it.
LEMMA Phases ==
    ASSUME TypeOK, NEW c \in Clients
    PROVE  /\ (\E s \in Sizes : Request(c, s)) => batch[c].pc = "idle" /\ batch'[c].pc = "read"
           /\ Collect(c) => batch[c].pc = "read" /\ batch'[c].pc \in {"idle", "number"}
           /\ ResizeFails(c) => batch[c].pc = "resize" /\ batch'[c].pc \in {"idle", "undo"}
           /\ Record(c) => batch[c].pc = "record" /\ batch'[c].pc = "idle"
           /\ TellBack(c) => batch[c].pc = "tellback" /\ batch'[c].pc = "idle"
<1>1. NoBatch.pc = "idle"
  BY DEF NoBatch
<1>2. (\E s \in Sizes : Request(c, s)) => batch[c].pc = "idle" /\ batch'[c].pc = "read"
  BY Branches
<1>3. Collect(c) => batch[c].pc = "read" /\ batch'[c].pc \in {"idle", "number"}
  <2>1. Collect(c) => /\ batch[c].pc = "read"
                      /\ batch'[c] = NoBatch \/ batch'[c].pc = "number"
    BY Branches
  <2> QED
    BY <1>1, <2>1
<1>4. ResizeFails(c) => batch[c].pc = "resize" /\ batch'[c].pc \in {"idle", "undo"}
  <2>1. ResizeFails(c) => /\ batch[c].pc = "resize"
                          /\ batch'[c] = NoBatch \/ batch'[c].pc = "undo"
    BY Branches
  <2> QED
    BY <1>1, <2>1
<1>5. /\ Record(c) => batch[c].pc = "record" /\ batch'[c].pc = "idle"
      /\ TellBack(c) => batch[c].pc = "tellback" /\ batch'[c].pc = "idle"
  BY <1>1, Moves
<1> QED
  BY <1>2, <1>3, <1>4, <1>5

-----------------------------------------------------------------------------
(* Frames and numbers *)

AnnounceFrame(c) == [size |-> batch[c].want, seq |-> batch[c].seq]
TellBackFrame(c) == [size |-> batch[c].prev, seq |-> batch[c].seq]

\* What a client has after a step it had before, or was just told.
LEMMA ToldMoves ==
    ASSUME TypeOK, InHand, [Next]_vars, NEW f \in Clients, NEW x \in Told(f)'
    PROVE  \/ x \in Told(f)
           \/ \E c \in Clients : Announce(c) /\ f \in Followers(c) /\ x = AnnounceFrame(c)
           \/ \E c \in Clients : TellBack(c) /\ f \in Followers(c) /\ x = TellBackFrame(c)
           \/ QueueState /\ x = cast
<1>1. ASSUME NEW c \in Clients, Announce(c)
      PROVE  x \in Told(f) \/ (f \in Followers(c) /\ x = AnnounceFrame(c))
  <2>1. AnnounceFrame(c) \in Frames
    BY <1>1 DEF Announce, At, InHand, Equipped, Frames, AnnounceFrame
  <2>2. QueueFor(Followers(c), AnnounceFrame(c)) /\ held' = held
    BY <1>1 DEF Announce, AnnounceFrame
  <2> QED
    BY <2>1, <2>2, Queues
<1>2. ASSUME NEW c \in Clients, TellBack(c)
      PROVE  x \in Told(f) \/ (f \in Followers(c) /\ x = TellBackFrame(c))
  <2>1. TellBackFrame(c) \in Frames
    BY <1>2 DEF TellBack, At, InHand, Equipped, Frames, TellBackFrame
  <2>2. QueueFor(Followers(c), TellBackFrame(c)) /\ held' = held
    BY <1>2 DEF TellBack, TellBackFrame, frameVars
  <2> QED
    BY <2>1, <2>2, Queues
<1>3. CASE QueueState
  <2>1. cast \in Frames /\ QueueFor(Clients, cast) /\ held' = held
    BY <1>3 DEF QueueState, TypeOK, Frames
  <2> QED
    BY <1>3, <2>1, Queues
<1>4. ASSUME NEW c \in Clients, Receive(c)
      PROVE  x \in Told(f)
  BY <1>4, Reads
<1>5. CASE UNCHANGED <<inbox, held>>
  BY <1>5 DEF Told
<1>6. ASSUME NEW c \in Clients, Calls(c), ~Announce(c), ~TellBack(c)
      PROVE  UNCHANGED <<inbox, held>>
  BY <1>6 DEF Calls, Batching, Request, Collect, Number, Resize, ResizeFails, Record, Undo,
              frameVars
<1>7. CASE \/ \E c \in Clients : TakeControl(c)
           \/ RestartDown \/ RestartSession \/ RestartInstall \/ BuildState
           \/ Beside
  <2>1. UNCHANGED <<inbox, held>>
    BY <1>7 DEF TakeControl, RestartDown, RestartSession, RestartInstall, BuildState, Beside, frameVars
  <2> QED
    BY <1>5, <2>1
<1> QED
  BY <1>1, <1>2, <1>3, <1>4, <1>5, <1>6, <1>7, NextSplits

LEMMA StepKeepsNumbers ==
    ASSUME TypeOK, Counted, InHand, Numbers, [Next]_vars
    PROVE  Numbers'
<1>1. /\ colsSeq' \in Nat /\ sizeSeq' \in Nat /\ colsSeq <= colsSeq' /\ colsSeq' <= sizeSeq'
      /\ sizeSeq <= sizeSeq' /\ DOMAIN announced' = 1 .. sizeSeq'
  BY NumbersGrow DEF Seqs
<1>2. /\ colsSeq \in Nat /\ sizeSeq \in Nat /\ colsSeq <= sizeSeq
      /\ \A c \in Clients : batch[c].seq \in Nat /\ batch[c].seq <= sizeSeq
      /\ \A c \in Clients : \A x \in Told(c) : x.seq \in Nat /\ x.seq <= sizeSeq
      /\ cast.seq \in Nat /\ cast.seq <= colsSeq
  <2>1. colsSeq \in Nat /\ sizeSeq \in Nat /\ colsSeq <= sizeSeq
    BY DEF TypeOK, Seqs
  <2>2. \A c \in Clients : batch[c].seq \in Nat
    BY DEF TypeOK, Batches, Seqs
  <2>3. \A c \in Clients : \A x \in Told(c) : x.seq \in Nat
    BY ToldFrames DEF Frames, Seqs
  <2>4. cast.seq \in Nat
    BY DEF TypeOK, NoFrame, Seqs
  <2> QED
    BY <2>1, <2>2, <2>3, <2>4 DEF Numbers
<1>3. cast'.seq <= colsSeq'
  <2>1. CASE BuildState
    BY <1>1, <2>1 DEF BuildState, Frame
  <2>2. CASE QueueState
    BY <1>1, <2>2 DEF QueueState, NoFrame
  <2>3. CASE cast' = cast
    BY <1>1, <1>2, <2>3
  <2> QED
    BY <2>1, <2>2, <2>3, NextSplits
    DEF Calls, Batching, Request, Collect, Number, Announce, Resize, ResizeFails, Record, Undo,
        TellBack, TakeControl, Receive, RestartDown, RestartSession, RestartInstall, Beside, frameVars
<1>4. applied' \in {NoSize, size'}
  <2>1. UNCHANGED <<applied, size>> \/ RestartInstall \/ \E c \in Clients : Record(c)
    BY NextSplits
    DEF Calls, Batching, Request, Collect, Number, Announce, Resize, ResizeFails, Undo,
        TellBack, TakeControl, Receive, RestartDown, RestartSession, BuildState, QueueState,
        Beside, paneVars
  <2> QED
    BY <2>1 DEF Numbers, RestartInstall, Record
<1>5. ASSUME NEW c \in Clients
      PROVE  batch'[c].seq <= sizeSeq'
  <2>1. ASSUME NEW d \in Clients, Calls(d)
        PROVE  batch'[c].seq <= sizeSeq'
    <3>1. CASE c # d
      BY <1>1, <1>2, <2>1, <3>1, OthersStay
    <3>2. CASE Number(c) \/ Undo(c)
      <4>1. batch'[c].seq = sizeSeq + 1 /\ sizeSeq' = sizeSeq + 1
        BY <3>2, Moves DEF Number, Undo, Numbered
      <4> QED
        BY <1>2, <4>1
    <3>3. CASE ~Number(c) /\ ~Undo(c) /\ Calls(c)
      <4>0. NoBatch.seq = 0
        BY DEF NoBatch
      <4>1. CASE Announce(c) \/ Resize(c) \/ Record(c) \/ TellBack(c)
        <5>1. batch'[c].seq \in {0, batch[c].seq}
          BY <4>0, <4>1, Moves
        <5> QED
          BY <1>1, <1>2, <5>1
      <4>2. CASE (\E s \in Sizes : Request(c, s)) \/ Collect(c) \/ ResizeFails(c)
        <5>1. batch'[c].seq \in {0, batch[c].seq}
          BY <4>0, <4>2, Branches
        <5> QED
          BY <1>1, <1>2, <5>1
      <4> QED
        BY <3>3, <4>1, <4>2 DEF Calls, Batching
    <3> QED
      BY <2>1, <3>1, <3>2, <3>3
  <2>2. CASE UNCHANGED batch
    BY <1>1, <1>2, <2>2
  <2> QED
    BY <2>1, <2>2, NextSplits
    DEF TakeControl, Receive, RestartDown, RestartSession, RestartInstall, BuildState, QueueState,
        Beside
<1>6. ASSUME NEW c \in Clients, NEW x \in Told(c)'
      PROVE  x.seq <= sizeSeq'
  <2>1. ASSUME NEW d \in Clients
        PROVE  AnnounceFrame(d).seq = batch[d].seq /\ TellBackFrame(d).seq = batch[d].seq
    BY DEF AnnounceFrame, TellBackFrame
  <2>2. x \in Told(c) \/ x = cast \/ \E d \in Clients : x.seq = batch[d].seq
    BY <2>1, ToldMoves
  <2>3. x.seq \in Nat /\ x.seq <= sizeSeq
    BY <1>2, <2>2
  <2> QED
    BY <1>1, <1>2, <2>3
<1> QED
  BY <1>1, <1>3, <1>4, <1>5, <1>6 DEF Numbers

-----------------------------------------------------------------------------
(* Alone with the pane *)

Marking(c) ==
    Number(c) \/ Announce(c) \/ Resize(c) \/ ResizeFails(c) \/ Record(c) \/ Undo(c) \/ TellBack(c)

LEMMA OverlapStays ==
    ASSUME TypeOK, [Next]_vars, ~overlapped'
    PROVE  ~overlapped
<1>1. overlapped \in BOOLEAN
  BY DEF TypeOK
<1> QED
  BY <1>1, NextSplits
  DEF Calls, Batching, Request, Collect, Number, Announce, Resize, ResizeFails, Record, Undo,
      TellBack, TakeControl, Receive, RestartDown, RestartSession, RestartInstall, BuildState,
      QueueState, Beside, histVars

LEMMA WorkerSteps ==
    ASSUME NEW c \in Clients, Marking(c)
    PROVE  c \in AtWork /\ restart' = restart /\ overlapped' = overlapped /\ master' = master
  BY DEF Marking, Number, Announce, Resize, ResizeFails, Record, Undo, TellBack, At, AtWork,
         Working, histVars

\* Whoever takes a step of its work has the pane to itself.
LEMMA LoneWorker ==
    ASSUME TypeOK, Counted, InHand, Alone, ~overlapped, NEW c \in Clients, Marking(c)
    PROVE  /\ restart = "none" /\ AtWork = {c} /\ AtWork' \subseteq {c}
           /\ \A d \in Clients : d # c =>
                /\ batch'[d] = batch[d]
                /\ batch[d].pc \in {"idle", "read"} /\ batch'[d].pc \in {"idle", "read"}
<1>1. restart = "none" /\ AtWork = {c}
  BY WorkerSteps DEF Alone
<1>2. Calls(c)
  BY DEF Marking, Calls, Batching
<1>3. \A d \in Clients : batch[d].pc \in {"idle", "read"} \cup Working
  BY DEF TypeOK, Batches
<1>4. ASSUME NEW d \in Clients, d # c
      PROVE  /\ batch'[d] = batch[d]
             /\ batch[d].pc \in {"idle", "read"} /\ batch'[d].pc \in {"idle", "read"}
  <2>1. batch'[d] = batch[d]
    BY <1>2, <1>4, OthersStay
  <2>2. batch[d].pc \notin Working
    BY <1>1, <1>4 DEF AtWork
  <2> QED
    BY <1>3, <2>1, <2>2
<1>5. AtWork' \subseteq {c}
  <2>1. \A d \in Clients : d # c => batch'[d].pc \notin Working
    BY <1>4 DEF Working
  <2> QED
    BY <2>1 DEF AtWork
<1> QED
  BY <1>1, <1>4, <1>5

\* A batch that begins its work finds nobody else at work.
LEMMA BeginsAlone ==
    ASSUME TypeOK, Counted, InHand, ~overlapped', NEW c \in Clients, Collect(c)
    PROVE  /\ restart' = restart /\ master' = master
           /\ \/ AtWork' = AtWork /\ batch'[c] = NoBatch
              \/ /\ AtWork = {} /\ AtWork' = {c} /\ restart = "none"
                 /\ batch'[c].pc = "number" /\ batch'[c].pty = pty.id /\ batch'[c].prev = applied
           /\ \A d \in Clients : d # c => batch'[d] = batch[d]
           /\ batch[c].pc = "read"
<1>1. \A d \in Clients : d # c => batch'[d] = batch[d]
  BY OthersStay DEF Calls, Batching
<1>2. /\ batch[c].pc = "read" /\ NoBatch.pc = "idle"
      /\ "read" \notin Working /\ "idle" \notin Working /\ "number" \in Working
  BY Branches DEF NoBatch, Working
<1>3. CASE batch'[c] = NoBatch /\ overlapped' = overlapped
  <2>1. AtWork' = AtWork
    BY <1>1, <1>2, <1>3 DEF AtWork
  <2> QED
    BY <1>1, <1>2, <1>3, <2>1 DEF Collect
<1>4. CASE /\ batch'[c].pc = "number" /\ batch'[c].pty = pty.id /\ batch'[c].prev = applied
           /\ overlapped' = (overlapped \/ AtWork # {} \/ restart # "none")
  <2>1. AtWork = {} /\ restart = "none"
    BY <1>4
  <2>2. AtWork' = {c}
    BY <1>1, <1>2, <1>4, <2>1 DEF AtWork
  <2> QED
    BY <1>1, <1>2, <1>4, <2>1, <2>2 DEF Collect
<1> QED
  BY <1>3, <1>4, Branches

\* The steps that leave the batches alone.
Apart ==
    \/ \E c \in Clients : TakeControl(c) \/ Receive(c)
    \/ BuildState \/ QueueState
    \/ Beside
Restarts == RestartDown \/ RestartSession \/ RestartInstall

LEMMA RestartAlone ==
    ASSUME TypeOK, Alone, ~overlapped, ~overlapped', Restarts
    PROVE  /\ AtWork = {} /\ AtWork' = {} /\ batch' = batch /\ master' = master
<1>1. batch' = batch /\ master' = master
  BY DEF Restarts, RestartDown, RestartSession, RestartInstall
<1>2. AtWork = {}
  <2>1. CASE RestartDown
    BY <2>1 DEF RestartDown
  <2>2. CASE RestartSession \/ RestartInstall
    BY <2>2, Constants DEF RestartSession, RestartInstall, Alone
  <2> QED
    BY <2>1, <2>2 DEF Restarts
<1> QED
  BY <1>1, <1>2 DEF AtWork

LEMMA StepIs ==
    ASSUME [Next]_vars
    PROVE  \/ \E c \in Clients : (\E s \in Sizes : Request(c, s)) \/ Collect(c) \/ Marking(c)
           \/ Restarts \/ Apart
<1>1. \A c \in Clients : Calls(c) => (\E s \in Sizes : Request(c, s)) \/ Collect(c) \/ Marking(c)
  BY DEF Calls, Batching, Marking
<1> QED
  BY <1>1, NextSplits DEF Restarts, Apart

LEMMA RequestsRead ==
    ASSUME TypeOK, Counted, InHand, NEW c \in Clients, \E s \in Sizes : Request(c, s)
    PROVE  /\ \A d \in Clients : d # c => batch'[d] = batch[d]
           /\ batch[c].pc = "idle" /\ batch'[c].pc = "read" /\ AtWork' = AtWork
           /\ UNCHANGED <<master, paneVars, restart, frameVars, held, histVars, announced>>
<1>1. \A d \in Clients : d # c => batch'[d] = batch[d]
  BY OthersStay DEF Calls
<1>2. batch[c].pc = "idle" /\ batch'[c].pc = "read" /\ "idle" \notin Working /\ "read" \notin Working
  BY Branches DEF Working
<1>3. AtWork' = AtWork
  BY <1>1, <1>2 DEF AtWork
<1> QED
  BY <1>1, <1>2, <1>3 DEF Request

\* What Alone says of one batch.
Newest(c) == batch[c].pc \in {"announce", "resize", "record", "tellback"} => batch[c].seq = sizeSeq
Fresh(c) == batch[c].pc \in Working => batch[c].pty = pty.id /\ batch[c].prev = applied

LEMMA AloneIs ==
    Alone <=> (~overlapped =>
        /\ \A c, d \in AtWork : c = d
        /\ AtWork # {} => restart = "none"
        /\ restart \in AllSizes => restart = size
        /\ \A c \in Clients : Fresh(c) /\ Newest(c))
  BY DEF Alone, Fresh, Newest, AtWork

\* The steps apart leave the pane to whoever is at work on it.
LEMMA ApartStays ==
    ASSUME TypeOK, Apart
    PROVE  UNCHANGED <<batch, restart, size, sizeSeq, pty.id, applied>>
<1>1. UNCHANGED <<batch, restart, size, sizeSeq, applied>>
  BY DEF Apart, TakeControl, Receive, BuildState, QueueState, Beside, paneVars
<1>2. pty' = pty \/ \E k \in Kickers : Kicking(k)
  BY DEF Apart, TakeControl, Receive, BuildState, QueueState, Beside, paneVars
<1>3. ASSUME NEW k \in Kickers, Kicking(k) PROVE pty'.id = pty.id
  <2>1. pty' = pty \/ \E s : pty' = [pty EXCEPT !.size = s]
    BY <1>3, KickMoves DEF Kicking
  <2> QED
    BY <2>1 DEF TypeOK
<1> QED
  BY <1>1, <1>2, <1>3

LEMMA StepKeepsAlone ==
    ASSUME TypeOK, Counted, InHand, Alone, [Next]_vars, ~overlapped'
    PROVE  /\ \A c, d \in AtWork' : c = d
           /\ AtWork' # {} => restart' = "none"
           /\ restart' \in AllSizes => restart' = size'
           /\ \A c \in Clients : Fresh(c)' /\ Newest(c)'
<1>1. ~overlapped
  BY OverlapStays
<1>2. /\ \A c, d \in AtWork : c = d
      /\ AtWork # {} => restart = "none"
      /\ restart \in AllSizes => restart = size
      /\ \A c \in Clients : Fresh(c) /\ Newest(c)
  BY <1>1, AloneIs
<1>3. CASE Apart
  <2>1. UNCHANGED <<batch, restart, size, sizeSeq, pty.id, applied>>
    BY <1>3, ApartStays
  <2> QED
    BY <1>2, <2>1 DEF AtWork, Fresh, Newest
<1>4. ASSUME NEW c \in Clients, \E s \in Sizes : Request(c, s)
      PROVE  /\ \A d, e \in AtWork' : d = e
             /\ AtWork' # {} => restart' = "none"
             /\ restart' \in AllSizes => restart' = size'
             /\ \A d \in Clients : Fresh(d)' /\ Newest(d)'
  <2>1. Fresh(c)' /\ Newest(c)'
    BY <1>4, RequestsRead DEF Fresh, Newest, Working
  <2>2. ASSUME NEW d \in Clients, d # c PROVE Fresh(d)' /\ Newest(d)'
    BY <1>2, <1>4, <2>2, RequestsRead DEF Fresh, Newest, paneVars
  <2> QED
    BY <1>2, <1>4, <2>1, <2>2, RequestsRead DEF paneVars
<1>5. ASSUME NEW c \in Clients, Collect(c)
      PROVE  /\ \A d, e \in AtWork' : d = e
             /\ AtWork' # {} => restart' = "none"
             /\ restart' \in AllSizes => restart' = size'
             /\ \A d \in Clients : Fresh(d)' /\ Newest(d)'
  <2>1. UNCHANGED <<size, sizeSeq, pty, applied>>
    BY <1>5 DEF Collect, paneVars
  <2>2. NoBatch.pc = "idle"
    BY DEF NoBatch
  <2>3. Fresh(c)' /\ Newest(c)'
    BY <1>5, <2>1, <2>2, BeginsAlone DEF Fresh, Newest, Working
  <2>4. ASSUME NEW d \in Clients, d # c PROVE Fresh(d)' /\ Newest(d)'
    BY <1>2, <1>5, <2>1, <2>4, BeginsAlone DEF Fresh, Newest
  <2> QED
    BY <1>2, <1>5, <2>1, <2>3, <2>4, BeginsAlone
<1>6. ASSUME NEW c \in Clients, Marking(c)
      PROVE  /\ \A d, e \in AtWork' : d = e
             /\ AtWork' # {} => restart' = "none"
             /\ restart' \in AllSizes => restart' = size'
             /\ \A d \in Clients : Fresh(d)' /\ Newest(d)'
  <2>1. /\ restart = "none" /\ restart' = restart /\ AtWork = {c} /\ AtWork' \subseteq {c}
        /\ \A d \in Clients : d # c => batch'[d].pc \in {"idle", "read"}
    BY <1>1, <1>6, LoneWorker, WorkerSteps
  <2>2. Fresh(c) /\ Newest(c) /\ batch[c].pc \in Working
    BY <1>2, <2>1 DEF AtWork
  <2>3. NoBatch.pc = "idle"
    BY DEF NoBatch
  <2>4. pty'.id = pty.id
    BY <1>6 DEF Marking, Number, Announce, Resize, ResizeFails, Record, Undo, TellBack, paneVars,
                TypeOK
  <2>5. Record(c) \/ applied' = applied
    BY <1>6 DEF Marking, Number, Announce, Resize, ResizeFails, Undo, TellBack, paneVars
  <2>6. Fresh(c)'
    <3>1. CASE batch'[c] = NoBatch
      BY <2>3, <3>1 DEF Fresh, Working
    <3>2. CASE Keeps(c) /\ ~Record(c)
      BY <2>2, <2>4, <2>5, <3>2 DEF Fresh, Keeps
    <3>3. batch'[c] = NoBatch \/ (Keeps(c) /\ ~Record(c))
      BY <1>6, Moves, Branches DEF Marking, Keeps
    <3> QED
      BY <3>1, <3>2, <3>3
  <2>7. Newest(c)'
    <3>1. CASE Number(c) \/ Undo(c)
      BY <3>1, Moves DEF Newest, Number, Undo, Numbered
    <3>2. CASE Announce(c) \/ Resize(c)
      BY <2>2, <3>2, Moves DEF Newest, Announce, Resize, paneVars
    <3>3. CASE ResizeFails(c) \/ Record(c) \/ TellBack(c)
      BY <2>3, <3>3, Moves, Branches DEF Newest
    <3> QED
      BY <1>6, <3>1, <3>2, <3>3 DEF Marking
  <2>8. ASSUME NEW d \in Clients, d # c PROVE Fresh(d)' /\ Newest(d)'
    BY <2>1, <2>8 DEF Fresh, Newest, Working
  <2> QED
    BY <2>1, <2>6, <2>7, <2>8, Constants
<1>7. CASE Restarts
  <2>1. AtWork' = {} /\ batch' = batch /\ AtWork = {}
    BY <1>1, <1>7, RestartAlone
  <2>2. restart' \in AllSizes => restart' = size'
    BY <1>7, Constants DEF Restarts, RestartDown, RestartSession, RestartInstall, paneVars
  <2>3. \A c \in Clients : Fresh(c)' /\ Newest(c)'
    BY <2>1 DEF AtWork, Fresh, Newest, Working
  <2> QED
    BY <2>1, <2>2, <2>3
<1> QED
  BY <1>3, <1>4, <1>5, <1>6, <1>7, StepIs

-----------------------------------------------------------------------------
(* The PTY's size and the record *)

LEMMA StepKeepsAimed ==
    ASSUME TypeOK, Counted, InHand, Aimed, [Next]_vars
    PROVE  Aimed'
<1>1. /\ ptys \in Nat /\ pty.id \in Nat /\ pty.id <= ptys /\ size \in AllSizes
      /\ \A k \in Kickers : kick[k].pc # "idle" => kick[k].pty \in 1 .. ptys /\ kick[k].size \in AllSizes
  BY Constants DEF TypeOK, Aimed
<1>2. ASSUME NEW j \in Kickers, Kicking(j)
      PROVE  Aimed'
  <2>1. ptys' = ptys /\ pty'.id = pty.id
    BY <1>2, KicksKeepTypes DEF Kicking, KickRead, KickJiggle, KickApply, paneVars
  <2>2. ASSUME NEW k \in Kickers, kick'[k].pc # "idle"
        PROVE  kick'[k].pty \in 1 .. ptys /\ kick'[k].size \in AllSizes
    <3>1. CASE k # j
      <4>1. kick'[k] = kick[k]
        BY <1>2, <3>1, KickMoved
      <4> QED
        BY <1>1, <2>2, <4>1
    <3>2. CASE k = j
      <4>1. CASE KickRead(j)
        <5>1. kick'[j] = [pc |-> "jiggle", pty |-> pty.id, size |-> size] /\ pty.id # 0
          BY <1>2, <4>1, KickMoves, KickMoved
        <5> QED
          BY <1>1, <3>2, <5>1
      <4>2. CASE KickJiggle(j)
        <5>1. /\ kick'[j] = [pc |-> "apply", pty |-> kick[j].pty, size |-> kick[j].size]
              /\ kick[j].pc = "jiggle"
          BY <1>2, <4>2, KickMoves, KickMoved
        <5> QED
          BY <1>1, <3>2, <5>1
      <4>3. CASE KickApply(j)
        <5>1. kick'[j] = NoKick
          BY <1>2, <4>3, KickMoved
        <5> QED
          BY <2>2, <3>2, <5>1 DEF NoKick
      <4> QED
        BY <1>2, <4>1, <4>2, <4>3 DEF Kicking
    <3> QED
      BY <3>1, <3>2
  <2> QED
    BY <1>1, <2>1, <2>2 DEF Aimed
<1>3. ASSUME NEW c \in Clients, Calls(c)
      PROVE  ptys' = ptys /\ pty'.id = pty.id
  BY <1>3 DEF Calls, Batching, Request, Collect, Number, Announce, Resize, ResizeFails, Record,
              Undo, TellBack, paneVars, TypeOK
<1>4. CASE RestartDown \/ RestartSession \/ RestartInstall
  <2>1. ptys' \in Nat /\ ptys <= ptys' /\ pty'.id <= ptys'
    <3>1. CASE RestartDown
      BY <1>1, <3>1 DEF RestartDown, TypeOK
    <3>2. CASE RestartSession
      BY <1>1, <3>2 DEF RestartSession, paneVars
    <3>3. CASE RestartInstall
      BY <1>1, <3>3 DEF RestartInstall
    <3> QED
      BY <1>4, <3>1, <3>2, <3>3
  <2>2. kick' = kick
    BY <1>4 DEF RestartDown, RestartSession, RestartInstall, kickVars
  <2> QED
    BY <1>1, <2>1, <2>2 DEF Aimed
<1>5. CASE Apart
  <2>1. ptys' = ptys
    BY <1>5 DEF Apart, TakeControl, Receive, BuildState, QueueState, Beside, paneVars
  <2>2. pty'.id = pty.id
    BY <1>5, ApartStays
  <2> QED
    BY <1>1, <1>2, <2>1, <2>2, KicksStay DEF Aimed
<1>6. ASSUME NEW c \in Clients, Calls(c) PROVE Aimed'
  <2>1. ptys' = ptys /\ pty'.id = pty.id
    BY <1>3, <1>6
  <2> QED
    BY <1>1, <1>2, <2>1, KicksStay DEF Aimed
<1> QED
  BY <1>4, <1>5, <1>6, NextSplits DEF Apart

LEMMA StrayingStays ==
    ASSUME TypeOK, [Next]_vars, ~strayed'
    PROVE  ~strayed
<1>1. strayed \in BOOLEAN
  BY DEF TypeOK
<1>2. ASSUME NEW k \in Kickers, Kicking(k) PROVE ~strayed
  BY <1>1, <1>2, KickMoves DEF Kicking
<1>3. ASSUME NEW c \in Clients, Collect(c) PROVE ~strayed
  BY <1>1, <1>3 DEF Collect
<1> QED
  BY <1>1, <1>2, <1>3, KicksStay

\* A kick of the pane's PTY and a batch at work are not there together.
LEMMA StepKeepsKicksAlone ==
    ASSUME TypeOK, Counted, InHand, Alone, Aimed, KicksAlone, [Next]_vars,
           ~overlapped', ~strayed', NEW k \in AtKick'
    PROVE  AtWork' = {} /\ kick'[k].size = size'
<1>1. /\ ~overlapped /\ ~strayed /\ k \in Kickers /\ kick'[k].pc # "idle" /\ kick'[k].pty = pty'.id
  BY OverlapStays, StrayingStays DEF AtKick
<1>2. k \in AtKick => AtWork = {} /\ kick[k].size = size
  BY <1>1 DEF KicksAlone
<1>3. ASSUME NEW j \in Kickers, Kicking(j)
      PROVE  AtWork' = {} /\ kick'[k].size = size'
  <2>1. AtWork' = AtWork /\ size' = size
    BY <1>3 DEF Kicking, KickRead, KickJiggle, KickApply, AtWork, paneVars
  <2>2. pty'.id = pty.id
    BY <1>3, KicksKeepTypes
  <2>3. CASE k # j
    <3>1. kick'[k] = kick[k]
      BY <1>1, <1>3, <2>3, KickMoved
    <3> QED
      BY <1>1, <1>2, <2>1, <2>2, <3>1 DEF AtKick
  <2>4. CASE k = j /\ KickRead(j)
    <3>1. /\ kick'[j] = [pc |-> "jiggle", pty |-> pty.id, size |-> size]
          /\ strayed' = (strayed \/ AtWork # {})
      BY <1>3, <2>4, KickMoves, KickMoved
    <3>2. AtWork = {}
      BY <3>1, Zenon
    <3> QED
      BY <2>1, <2>4, <3>1, <3>2
  <2>5. CASE k = j /\ KickJiggle(j)
    <3>1. /\ kick'[j] = [pc |-> "apply", pty |-> kick[j].pty, size |-> kick[j].size]
          /\ kick[j].pc = "jiggle"
      BY <1>3, <2>5, KickMoves, KickMoved
    <3>2. k \in AtKick
      BY <1>1, <2>2, <2>5, <3>1 DEF AtKick
    <3> QED
      BY <1>2, <2>1, <2>5, <3>1, <3>2
  <2>6. CASE k = j /\ KickApply(j)
    <3>1. kick'[j] = NoKick
      BY <1>3, <2>6, KickMoved
    <3>2. NoKick.pc = "idle"
      BY DEF NoKick
    <3> QED
      BY <1>1, <2>6, <3>1, <3>2
  <2> QED
    BY <1>3, <2>3, <2>4, <2>5, <2>6 DEF Kicking
<1>4. ASSUME kick' = kick, pty'.id = pty.id, AtWork' = AtWork, size' = size
      PROVE  AtWork' = {} /\ kick'[k].size = size'
  BY <1>1, <1>2, <1>4 DEF AtKick
<1>5. ASSUME NEW c \in Clients, Collect(c)
      PROVE  AtWork' = {} /\ kick'[k].size = size'
  <2>1. UNCHANGED <<kick, pty, size>>
    BY <1>5 DEF Collect, paneVars
  <2>2. AtWork' = AtWork \/ strayed' = (strayed \/ AtKick # {})
    <3>1. batch'[c] # NoBatch => strayed' = (strayed \/ AtKick # {})
      BY <1>5, Becomes DEF Collect, EndBatch
    <3>2. batch'[c] = NoBatch => AtWork' = AtWork
      <4>1. NoBatch.pc = "idle"
        BY DEF NoBatch
      <4> QED
        BY <1>5, <4>1, BeginsAlone
    <3> QED
      BY <3>1, <3>2
  <2>3. CASE AtWork' = AtWork
    BY <1>4, <2>1, <2>3
  <2>4. CASE AtKick = {}
    BY <1>1, <2>1, <2>4 DEF AtKick
  <2> QED
    BY <2>2, <2>3, <2>4
<1>6. ASSUME NEW c \in Clients, \E s \in Sizes : Request(c, s)
      PROVE  AtWork' = {} /\ kick'[k].size = size'
  <2>1. UNCHANGED <<kick, pty, size>> /\ AtWork' = AtWork
    BY <1>6, RequestsRead DEF Request, paneVars, kickVars
  <2> QED
    BY <1>4, <2>1
<1>7. ASSUME NEW c \in Clients, Marking(c)
      PROVE  FALSE
  <2>1. c \in AtWork
    BY <1>7, WorkerSteps
  <2>2. kick' = kick /\ pty'.id = pty.id
    BY <1>7 DEF Marking, Number, Announce, Resize, ResizeFails, Record, Undo, TellBack, paneVars,
                kickVars, TypeOK
  <2>3. k \in AtKick
    BY <1>1, <2>2 DEF AtKick
  <2> QED
    BY <1>2, <2>1, <2>3
<1>8. CASE Restarts
  <2>1. kick' = kick /\ kick[k].pc # "idle" /\ kick[k].pty \in 1 .. ptys /\ ptys \in Nat
    <3>1. kick' = kick
      BY <1>8 DEF Restarts, RestartDown, RestartSession, RestartInstall, kickVars
    <3> QED
      BY <1>1, <3>1 DEF Aimed, TypeOK
  <2>2. CASE RestartDown
    <3>1. pty'.id = 0
      BY <2>2 DEF RestartDown, TypeOK
    <3> QED
      BY <1>1, <2>1, <3>1
  <2>3. CASE RestartSession
    <3>1. UNCHANGED <<pty, size, batch>>
      BY <2>3 DEF RestartSession, paneVars
    <3> QED
      BY <1>4, <2>1, <3>1 DEF AtWork
  <2>4. CASE RestartInstall
    <3>1. pty'.id = ptys + 1
      BY <2>4 DEF RestartInstall
    <3> QED
      BY <1>1, <2>1, <3>1
  <2> QED
    BY <1>8, <2>2, <2>3, <2>4 DEF Restarts
<1>9. CASE Apart
  <2>1. pty'.id = pty.id /\ size' = size /\ AtWork' = AtWork
    BY <1>9, ApartStays DEF AtWork
  <2> QED
    BY <1>3, <1>4, <1>5, <2>1, KicksStay
<1> QED
  BY <1>5, <1>6, <1>7, <1>8, <1>9, StepIs

\* What Real says when nothing has overlapped or strayed.
Reached == pty.size = size \/ \E k \in AtKick : kick[k].pc = "apply"
RealNow ==
    /\ \A c \in Clients : batch[c].pc = "record" => pty.size = batch[c].want
    /\ restart = "none" /\ (\A c \in Clients : batch[c].pc # "record") => Reached

LEMMA KicksKeepReal ==
    ASSUME TypeOK, Aimed, KicksAlone, RealNow, ~overlapped, ~strayed, ~strayed',
           NEW j \in Kickers, Kicking(j)
    PROVE  RealNow'
<1>1. UNCHANGED <<batch, restart, size>> /\ pty'.id = pty.id
  BY KicksKeepTypes DEF Kicking, KickRead, KickJiggle, KickApply, paneVars
<1>2. AtWork = {} => \A c \in Clients : batch[c].pc # "record"
  BY DEF AtWork, Working
<1>3. \A k \in Kickers : k # j => kick'[k] = kick[k]
  BY KickMoves DEF Kicking, TypeOK
<1>4. ASSUME pty' = pty, kick[j].pc # "apply" \/ j \notin AtKick
      PROVE  RealNow'
  <2>1. Reached => Reached'
    BY <1>1, <1>3, <1>4 DEF Reached, AtKick
  <2> QED
    BY <1>1, <1>4, <2>1 DEF RealNow
<1>5. CASE KickRead(j)
  BY <1>4, <1>5, KickMoves DEF KickRead
<1>6. CASE KickJiggle(j)
  <2>1. /\ kick'[j] = [pc |-> "apply", pty |-> kick[j].pty, size |-> kick[j].size]
        /\ kick[j].pc = "jiggle" /\ (pty' = pty \/ j \in AtKick)
    BY <1>6, KickMoves DEF TypeOK
  <2>2. CASE j \in AtKick
    <3>1. j \in AtKick'
      BY <1>1, <2>1, <2>2 DEF AtKick
    <3>2. AtWork = {}
      BY <2>2 DEF KicksAlone
    <3>3. Reached'
      BY <2>1, <3>1 DEF Reached
    <3> QED
      BY <1>1, <1>2, <3>2, <3>3 DEF RealNow
  <2> QED
    BY <1>4, <2>1, <2>2
<1>7. CASE KickApply(j)
  <2>1. pty' = IF j \in AtKick THEN [pty EXCEPT !.size = kick[j].size] ELSE pty
    BY <1>7, KickMoves
  <2>2. CASE j \in AtKick
    <3>1. AtWork = {} /\ kick[j].size = size
      BY <2>2 DEF KicksAlone
    <3>2. pty'.size = size
      BY <2>1, <2>2, <3>1 DEF TypeOK
    <3> QED
      BY <1>1, <1>2, <3>1, <3>2 DEF RealNow, Reached
  <2> QED
    BY <1>4, <2>1, <2>2
<1> QED
  BY <1>5, <1>6, <1>7 DEF Kicking

LEMMA StepKeepsReal ==
    ASSUME TypeOK, Counted, InHand, Alone, Aimed, KicksAlone, Real, [Next]_vars,
           ~overlapped', ~strayed'
    PROVE  RealNow'
<1>1. ~overlapped /\ ~strayed
  BY OverlapStays, StrayingStays
<1>2. RealNow
  BY <1>1 DEF Real, RealNow, Reached, At
<1>3. CASE Apart
  <2>1. \/ UNCHANGED <<batch, restart, size, pty, kick>>
        \/ \E k \in Kickers : Kicking(k)
    BY <1>3 DEF Apart, TakeControl, Receive, BuildState, QueueState, Beside, paneVars, kickVars
  <2>2. UNCHANGED <<batch, restart, size, pty, kick>> => RealNow'
    BY <1>2 DEF RealNow, Reached, AtKick
  <2> QED
    BY <1>1, <1>2, <2>1, <2>2, KicksKeepReal
<1>4. ASSUME NEW c \in Clients, (\E s \in Sizes : Request(c, s)) \/ Collect(c)
      PROVE  RealNow'
  <2>1. UNCHANGED <<size, pty, restart, kick>>
    BY <1>4 DEF Request, Collect, paneVars, kickVars
  <2>2. batch[c].pc # "record" /\ batch'[c].pc # "record"
    BY <1>4, Phases
  <2>3. \A d \in Clients : d # c => batch'[d] = batch[d]
    BY <1>4, OthersStay DEF Calls, Batching
  <2>4. Reached' = Reached
    BY <2>1 DEF Reached, AtKick
  <2> QED
    BY <1>2, <2>1, <2>2, <2>3, <2>4 DEF RealNow
<1>5. ASSUME NEW c \in Clients, Marking(c)
      PROVE  RealNow'
  <2>1. \A d \in Clients : d # c => batch[d].pc # "record" /\ batch'[d].pc # "record"
    BY <1>1, <1>5, LoneWorker
  <2>2. batch[c].pty = pty.id /\ restart = "none" /\ AtKick = {}
    BY <1>1, <1>5, WorkerSteps DEF Alone, KicksAlone
  <2>3. (\A d \in Clients : batch[d].pc # "record") => pty.size = size
    BY <1>2, <2>2 DEF RealNow, Reached
  <2>4. CASE Resize(c)
    <3>1. pty'.size = batch[c].want
      BY <2>2, <2>4 DEF Resize, TypeOK
    <3>2. batch'[c].pc = "record" /\ batch'[c].want = batch[c].want
      BY <2>4, Moves DEF Keeps
    <3> QED
      BY <2>1, <3>1, <3>2 DEF RealNow
  <2>5. CASE Record(c)
    <3>1. pty' = pty /\ size' = batch[c].want /\ batch[c].pc = "record"
      BY <2>5 DEF Record, At
    <3>2. batch'[c].pc # "record"
      BY <2>5, Moves DEF NoBatch
    <3>3. pty.size = batch[c].want
      BY <1>2, <3>1 DEF RealNow
    <3> QED
      BY <2>1, <3>1, <3>2, <3>3 DEF RealNow, Reached
  <2>6. CASE Number(c) \/ Announce(c) \/ ResizeFails(c) \/ Undo(c) \/ TellBack(c)
    <3>1. pty' = pty /\ size' = size
      BY <2>6 DEF Number, Announce, ResizeFails, Undo, TellBack, paneVars
    <3>2. batch[c].pc # "record" /\ batch'[c].pc # "record"
      <4>1. CASE Number(c) \/ Announce(c) \/ Undo(c)
        BY <4>1, Moves
      <4>2. CASE ResizeFails(c) \/ TellBack(c)
        BY <4>2, Phases
      <4> QED
        BY <2>6, <4>1, <4>2
    <3> QED
      BY <2>1, <2>3, <3>1, <3>2 DEF RealNow, Reached
  <2> QED
    BY <1>5, <2>4, <2>5, <2>6 DEF Marking
<1>6. CASE Restarts
  <2>1. AtWork = {} /\ batch' = batch
    BY <1>1, <1>6, RestartAlone
  <2>2. \A c \in Clients : batch'[c].pc # "record"
    BY <2>1 DEF AtWork, Working
  <2>3. restart' = "none" => pty'.size = size'
    <3>1. CASE RestartInstall
      BY <1>1, <3>1 DEF RestartInstall, Alone
    <3>2. CASE RestartDown
      BY <3>2 DEF RestartDown
    <3>3. CASE RestartSession
      <4>1. restart' \in AllSizes
        BY <3>3 DEF RestartSession, TypeOK
      <4> QED
        BY <4>1, Constants
    <3> QED
      BY <1>6, <3>1, <3>2, <3>3 DEF Restarts
  <2> QED
    BY <2>2, <2>3 DEF RealNow, Reached
<1> QED
  BY <1>3, <1>4, <1>5, <1>6, StepIs

-----------------------------------------------------------------------------
(* Sizes and their numbers *)

\* What Paired says of one batch.
PairedBatch(c) ==
    /\ batch[c].pc \in {"announce", "resize", "record"} =>
           batch[c].want = announced[batch[c].seq]
    /\ batch[c].pc = "tellback" => batch[c].prev = announced[batch[c].seq]

LEMMA StepKeepsPairedBatches ==
    ASSUME TypeOK, Counted, InHand, Numbers, Alone, Paired, [Next]_vars, ~overlapped'
    PROVE  \A c \in Clients : PairedBatch(c)'
<1>1. ~overlapped
  BY OverlapStays
<1>2. \A c \in Clients : PairedBatch(c)
  BY <1>1 DEF Paired, PairedBatch, At
<1>3. /\ \A n \in 1 .. sizeSeq : announced'[n] = announced[n]
      /\ sizeSeq \in Nat
  <2>1. sizeSeq \in Nat
    BY DEF TypeOK, Seqs
  <2> QED
    BY <2>1, NumbersGrow
<1>4. \A c \in Clients : batch[c].pc \in {"announce", "resize", "record", "tellback"} =>
        batch[c].seq \in 1 .. sizeSeq
  BY <1>3 DEF InHand, Equipped, Numbers, Seqs
<1>5. ASSUME NEW c \in Clients, batch'[c] = batch[c]
      PROVE  PairedBatch(c)'
  BY <1>2, <1>3, <1>4, <1>5 DEF PairedBatch
<1>6. ASSUME NEW c \in Clients, (\E s \in Sizes : Request(c, s)) \/ Collect(c)
      PROVE  PairedBatch(c)'
  BY <1>6, Phases DEF PairedBatch
<1>7. ASSUME NEW c \in Clients, Marking(c)
      PROVE  PairedBatch(c)'
  <2>1. CASE Number(c)
    <3>1. announced'[sizeSeq + 1] = batch[c].want
      BY <1>3, <2>1 DEF Number, Numbered
    <3> QED
      BY <2>1, <3>1, Moves DEF PairedBatch, Keeps
  <2>2. CASE Undo(c)
    <3>1. announced'[sizeSeq + 1] = batch[c].prev
      BY <1>3, <2>2 DEF Undo, Numbered
    <3> QED
      BY <2>2, <3>1, Moves DEF PairedBatch, Keeps
  <2>3. CASE Announce(c) \/ Resize(c)
    <3>1. /\ batch[c].pc \in {"announce", "resize"} /\ batch'[c].pc \in {"resize", "record"}
          /\ batch'[c].want = batch[c].want /\ batch'[c].seq = batch[c].seq
      BY <2>3, Moves DEF Keeps
    <3> QED
      BY <1>2, <1>3, <1>4, <3>1 DEF PairedBatch
  <2>4. CASE ResizeFails(c) \/ Record(c) \/ TellBack(c)
    BY <2>4, Phases DEF PairedBatch
  <2> QED
    BY <1>7, <2>1, <2>2, <2>3, <2>4 DEF Marking
<1>8. CASE Restarts \/ Apart
  <2>1. batch' = batch
    BY <1>8 DEF Restarts, RestartDown, RestartSession, RestartInstall, Apart, TakeControl,
                Receive, BuildState, QueueState, Beside
  <2> QED
    BY <1>5, <2>1
<1>9. ASSUME NEW c \in Clients, (\E s \in Sizes : Request(c, s)) \/ Collect(c) \/ Marking(c)
      PROVE  \A d \in Clients : PairedBatch(d)'
  <2>1. \A d \in Clients : d # c => batch'[d] = batch[d]
    BY <1>9, OthersStay DEF Calls, Batching, Marking
  <2> QED
    BY <1>5, <1>6, <1>7, <1>9, <2>1
<1> QED
  BY <1>8, <1>9, StepIs

LEMMA StepKeepsPaired ==
    ASSUME TypeOK, Counted, InHand, Numbers, Alone, Paired, [Next]_vars
    PROVE  Paired'
<1> SUFFICES ASSUME ~overlapped'
             PROVE  /\ \A c \in Clients : \A x \in Told(c)' : x.size = announced'[x.seq]
                    /\ cast' # NoFrame => cast'.size = announced'[cast'.seq]
                    /\ size' = announced'[colsSeq']
                    /\ \A c \in Clients : PairedBatch(c)'
  BY DEF Paired, PairedBatch, At
<1>1. /\ \A c \in Clients : \A x \in Told(c) : x.size = announced[x.seq]
      /\ cast # NoFrame => cast.size = announced[cast.seq]
      /\ size = announced[colsSeq]
      /\ \A c \in Clients : PairedBatch(c)
  BY OverlapStays DEF Paired, PairedBatch, At
<1>2. /\ \A n \in 1 .. sizeSeq : announced'[n] = announced[n]
      /\ sizeSeq \in Nat /\ colsSeq \in 1 .. sizeSeq
  <2>1. sizeSeq \in Nat /\ colsSeq \in 1 .. sizeSeq
    BY DEF TypeOK, Seqs
  <2> QED
    BY <2>1, NumbersGrow
<1>3. /\ \A c \in Clients : \A x \in Told(c) : x.seq \in 1 .. sizeSeq
      /\ cast # NoFrame => cast.seq \in 1 .. sizeSeq
      /\ \A c \in Clients : batch[c].pc \in {"announce", "resize", "record", "tellback"} =>
           batch[c].seq \in 1 .. sizeSeq
  <2>1. \A c \in Clients : \A x \in Told(c) : x.seq \in Seqs /\ x.seq <= sizeSeq
    BY ToldFrames DEF Frames, Numbers
  <2>2. cast # NoFrame => cast.seq \in Seqs /\ cast.seq <= colsSeq
    BY DEF TypeOK, Numbers
  <2> QED
    BY <1>2, <2>1, <2>2 DEF InHand, Equipped, Numbers, Seqs
<1>4. \A c \in Clients : \A x \in Told(c)' : x.size = announced'[x.seq]
  <2> SUFFICES ASSUME NEW f \in Clients, NEW x \in Told(f)'
               PROVE  x.size = announced[x.seq] /\ x.seq \in 1 .. sizeSeq
    BY <1>2
  <2>1. ASSUME NEW c \in Clients, Announce(c), x = AnnounceFrame(c)
        PROVE  x.size = announced[x.seq] /\ x.seq \in 1 .. sizeSeq
    BY <1>1, <1>3, <2>1 DEF Announce, At, AnnounceFrame, PairedBatch
  <2>2. ASSUME NEW c \in Clients, TellBack(c), x = TellBackFrame(c)
        PROVE  x.size = announced[x.seq] /\ x.seq \in 1 .. sizeSeq
    BY <1>1, <1>3, <2>2 DEF TellBack, At, TellBackFrame, PairedBatch
  <2>3. CASE QueueState /\ x = cast
    BY <1>1, <1>3, <2>3 DEF QueueState
  <2> QED
    BY <1>1, <1>3, <2>1, <2>2, <2>3, ToldMoves
<1>5. cast' # NoFrame => cast'.size = announced'[cast'.seq]
  <2>1. CASE BuildState
    BY <1>1, <1>2, <2>1 DEF BuildState, Frame
  <2>2. CASE cast' \in {cast, NoFrame}
    BY <1>1, <1>2, <1>3, <2>2
  <2> QED
    BY <2>1, <2>2, NextSplits
    DEF Calls, Batching, Request, Collect, Number, Announce, Resize, ResizeFails, Record, Undo,
        TellBack, TakeControl, Receive, RestartDown, RestartSession, RestartInstall, QueueState,
        Beside, frameVars
<1>6. size' = announced'[colsSeq']
  <2>1. ASSUME NEW c \in Clients, Record(c)
        PROVE  size' = announced'[colsSeq']
    <3>1. batch[c].pc = "record" /\ size' = batch[c].want /\ colsSeq' = Later(colsSeq, batch[c].seq)
      BY <2>1 DEF Record, At
    <3>2. batch[c].seq = sizeSeq
      BY <3>1, OverlapStays DEF Alone
    <3>3. colsSeq' = sizeSeq
      BY <1>2, <3>1, <3>2 DEF Later
    <3>4. size' = announced[sizeSeq] /\ sizeSeq \in 1 .. sizeSeq
      BY <1>1, <1>3, <3>1, <3>2 DEF PairedBatch
    <3> QED
      BY <1>2, <3>3, <3>4
  <2>2. CASE UNCHANGED <<size, colsSeq>>
    BY <1>1, <1>2, <2>2
  <2>3. ASSUME NEW c \in Clients, Calls(c), ~Record(c)
        PROVE  UNCHANGED <<size, colsSeq>>
    BY <2>3 DEF Calls, Batching, Request, Collect, Number, Announce, Resize, ResizeFails, Undo,
                TellBack, paneVars
  <2>4. CASE ~ \E c \in Clients : Calls(c)
    <3>1. UNCHANGED <<size, colsSeq>>
      BY <2>4, NextSplits
      DEF TakeControl, Receive, RestartDown, RestartSession, RestartInstall, BuildState,
          QueueState, Beside, paneVars
    <3> QED
      BY <2>2, <3>1
  <2> QED
    BY <2>1, <2>2, <2>3, <2>4
<1> QED
  BY <1>4, <1>5, <1>6, StepKeepsPairedBatches

-----------------------------------------------------------------------------
(* Told before the resize *)

\* What each sender adds to what a client was told.
LEMMA Sends ==
    ASSUME TypeOK, InHand, NEW c \in Clients, NEW f \in Clients
    PROVE  /\ Announce(c) => Told(f)' = IF f \in Followers(c) THEN Told(f) \cup {AnnounceFrame(c)}
                                                              ELSE Told(f)
           /\ TellBack(c) => Told(f)' = IF f \in Followers(c) THEN Told(f) \cup {TellBackFrame(c)}
                                                              ELSE Told(f)
           /\ QueueState => Told(f)' = Told(f) \cup {cast}
<1>1. ASSUME Announce(c)
      PROVE  Told(f)' = IF f \in Followers(c) THEN Told(f) \cup {AnnounceFrame(c)} ELSE Told(f)
  <2>1. AnnounceFrame(c) \in Frames
    BY <1>1 DEF Announce, At, InHand, Equipped, Frames, AnnounceFrame
  <2>2. QueueFor(Followers(c), AnnounceFrame(c)) /\ held' = held
    BY <1>1 DEF Announce, AnnounceFrame
  <2> QED
    BY <2>1, <2>2, Queues
<1>2. ASSUME TellBack(c)
      PROVE  Told(f)' = IF f \in Followers(c) THEN Told(f) \cup {TellBackFrame(c)} ELSE Told(f)
  <2>1. TellBackFrame(c) \in Frames
    BY <1>2 DEF TellBack, At, InHand, Equipped, Frames, TellBackFrame
  <2>2. QueueFor(Followers(c), TellBackFrame(c)) /\ held' = held
    BY <1>2 DEF TellBack, TellBackFrame, frameVars
  <2> QED
    BY <2>1, <2>2, Queues
<1>3. ASSUME QueueState
      PROVE  Told(f)' = Told(f) \cup {cast}
  <2>1. cast \in Frames /\ QueueFor(Clients, cast) /\ held' = held
    BY <1>3 DEF QueueState, TypeOK, Frames
  <2> QED
    BY <2>1, Queues
<1> QED
  BY <1>1, <1>2, <1>3

\* The other steps tell nobody anything.
LEMMA OthersAreSilent ==
    ASSUME NEW f \in Clients,
           \/ \E c \in Clients : \/ (\E s \in Sizes : Request(c, s)) \/ Collect(c) \/ Number(c)
                                 \/ Resize(c) \/ ResizeFails(c) \/ Record(c) \/ Undo(c)
                                 \/ TakeControl(c)
           \/ Restarts \/ BuildState \/ Beside
    PROVE  Told(f)' = Told(f)
<1>1. UNCHANGED <<inbox, held>>
  BY Zenon
  DEF Request, Collect, Number, Resize, ResizeFails, Record, Undo, TakeControl, Restarts,
      RestartDown, RestartSession, RestartInstall, BuildState, Beside, frameVars
<1> QED
  BY <1>1 DEF Told

LEMMA StepKeepsToldFirst ==
    ASSUME TypeOK, Counted, InHand, Numbers, Alone, ToldFirst, [Next]_vars
    PROVE  ToldFirst'
<1> SUFFICES ASSUME ~overlapped', NEW c \in Clients, batch'[c].pc \in {"resize", "record"},
                    NEW f \in batch'[c].to
             PROVE  \E x \in Told(f)' : x.seq = batch'[c].seq
  BY DEF ToldFirst
<1>1. ~overlapped
  BY OverlapStays
<1>2. f \in Clients
  BY StepKeepsBatches DEF Batches
<1>3. CASE Announce(c)
  <2>1. f \in Followers(c) /\ batch'[c].seq = batch[c].seq
    BY <1>3, Moves
  <2>2. AnnounceFrame(c) \in Told(f)'
    BY <1>2, <1>3, <2>1, Sends
  <2>3. AnnounceFrame(c).seq = batch[c].seq
    BY DEF AnnounceFrame
  <2> QED
    BY <2>1, <2>2, <2>3
<1>4. CASE ~Announce(c)
  <2>1. /\ batch[c].pc \in {"resize", "record"} /\ batch'[c].seq = batch[c].seq
        /\ batch'[c].to = batch[c].to
    <3>1. CASE Calls(c)
      <4>1. Resize(c)
        <5>1. ~Number(c) /\ ~Undo(c)
          BY Moves
        <5>2. /\ ~(\E s \in Sizes : Request(c, s)) /\ ~Collect(c) /\ ~ResizeFails(c)
              /\ ~Record(c) /\ ~TellBack(c)
          BY Phases
        <5> QED
          BY <1>4, <3>1, <5>1, <5>2 DEF Calls, Batching
      <4> QED
        BY <4>1, Moves
    <3>2. CASE ~Calls(c)
      <4>1. batch'[c] = batch[c]
        <5>1. ASSUME NEW d \in Clients, Calls(d) PROVE batch'[c] = batch[c]
          BY <3>2, <5>1, OthersStay
        <5>2. batch' = batch \/ \E d \in Clients : Calls(d)
          BY NextSplits
          DEF TakeControl, Receive, RestartDown, RestartSession, RestartInstall, BuildState,
              QueueState, Beside
        <5> QED
          BY <5>1, <5>2
      <4> QED
        BY <4>1
    <3> QED
      BY <3>1, <3>2
  <2>2. PICK x \in Told(f) : x.seq = batch[c].seq
    BY <1>1, <2>1 DEF ToldFirst
  <2>3. CASE \E g \in Clients : Receive(g)
    <3>1. PICK g \in Clients : Receive(g)
      BY <2>3
    <3>2. CASE f # g
      BY <1>2, <2>1, <2>2, <3>1, <3>2, Reads
    <3>3. CASE f = g
      <4>1. PICK kept \in Told(f), lost \in Told(f) :
               kept.seq >= lost.seq /\ kept \in Told(f)' /\ Told(f) \subseteq Told(f)' \cup {lost}
        BY <3>1, <3>3, Reads
      <4>2. CASE x \in Told(f)'
        BY <2>1, <2>2, <4>2
      <4>3. CASE x = lost
        <5>1. batch[c].seq = sizeSeq
          BY <1>1, <2>1, AloneIs, StepKeepsBatches DEF Newest, Alone
        <5>2. kept.seq \in Nat /\ kept.seq <= sizeSeq /\ sizeSeq \in Nat
          <6>1. kept.seq \in Nat
            BY <1>2, ToldFrames DEF Frames, Seqs
          <6>2. sizeSeq \in Nat
            BY DEF TypeOK, Seqs
          <6> QED
            BY <1>2, <6>1, <6>2 DEF Numbers
        <5>3. kept.seq = sizeSeq
          BY <2>2, <4>1, <4>3, <5>1, <5>2
        <5> QED
          BY <2>1, <4>1, <5>1, <5>3
      <4> QED
        BY <2>2, <4>1, <4>2, <4>3
    <3> QED
      BY <3>2, <3>3
  <2>4. CASE ~ \E g \in Clients : Receive(g)
    <3>1. Told(f) \subseteq Told(f)'
      <4>1. ASSUME NEW d \in Clients, Announce(d) \/ TellBack(d) PROVE Told(f) \subseteq Told(f)'
        BY <1>2, <4>1, Sends
      <4>2. CASE QueueState
        BY <1>2, <4>2, Sends
      <4>3. CASE ~QueueState /\ ~ \E d \in Clients : Announce(d) \/ TellBack(d)
        <5>1. Told(f)' = Told(f)
          BY <1>2, <2>4, <4>3, StepIs, OthersAreSilent DEF Marking, Apart
        <5> QED
          BY <5>1
      <4> QED
        BY <4>1, <4>2, <4>3
    <3> QED
      BY <2>1, <2>2, <3>1
  <2> QED
    BY <2>3, <2>4
<1> QED
  BY <1>3, <1>4

-----------------------------------------------------------------------------
(* Recorded at last, or taken back *)

LEMMA NoFailureStays ==
    ASSUME TypeOK, [Next]_vars
    PROVE  /\ ~failed' => ~failed
           /\ ~bare' => ~bare
           /\ ~deposed' => ~deposed
<1>1. failed \in BOOLEAN /\ bare \in BOOLEAN /\ deposed \in BOOLEAN
  BY DEF TypeOK
<1>2. ~failed' => ~failed
  BY <1>1, NextSplits
  DEF Calls, Batching, Request, Collect, Number, Announce, Resize, ResizeFails, Record, Undo,
      TellBack, TakeControl, Receive, RestartDown, RestartSession, RestartInstall, BuildState,
      QueueState, Beside, histVars
<1>3. ~bare' => ~bare
  BY <1>1, NextSplits
  DEF Calls, Batching, Request, Collect, Number, Announce, Resize, ResizeFails, Record, Undo,
      TellBack, TakeControl, Receive, RestartDown, RestartSession, RestartInstall, BuildState,
      QueueState, Beside, histVars
<1>4. ~deposed' => ~deposed
  BY <1>1, NextSplits
  DEF Calls, Batching, Request, Collect, Number, Announce, Resize, ResizeFails, Record, Undo,
      TellBack, TakeControl, Receive, RestartDown, RestartSession, RestartInstall, BuildState,
      QueueState, Beside, histVars
<1> QED
  BY <1>2, <1>3, <1>4

\* A batch that has the newest number and will record it.
Recording(c) ==
    batch[c].pc \in {"announce", "resize", "record"} /\ batch[c].seq = sizeSeq

LEMMA StepKeepsRecorded ==
    ASSUME TypeOK, Counted, InHand, Numbers, Recorded, [Next]_vars
    PROVE  Recorded'
<1> SUFFICES ASSUME ~failed'
             PROVE  /\ \A c \in Clients : batch'[c].pc \notin {"undo", "tellback"}
                    /\ sizeSeq' <= colsSeq' \/ \E c \in Clients : Recording(c)'
  BY DEF Recorded, Recording
<1>1. /\ \A c \in Clients : batch[c].pc \notin {"undo", "tellback"}
      /\ sizeSeq <= colsSeq \/ \E c \in Clients : Recording(c)
  BY NoFailureStays DEF Recorded, Recording
<1>2. \A c \in Clients : ~Undo(c) /\ ~TellBack(c) /\ ~ResizeFails(c)
  BY <1>1 DEF Undo, TellBack, At, ResizeFails
<1>3. colsSeq \in Nat /\ sizeSeq \in Nat /\ colsSeq' \in Nat /\ colsSeq <= colsSeq'
  <2>1. colsSeq \in Nat /\ sizeSeq \in Nat
    BY DEF TypeOK, Seqs
  <2>2. colsSeq' \in Seqs /\ colsSeq <= colsSeq'
    BY NumbersGrow
  <2> QED
    BY <2>1, <2>2 DEF Seqs
<1>4. ASSUME NEW c \in Clients, Number(c)
      PROVE  batch'[c].pc = "announce" /\ Recording(c)'
  BY <1>4, Moves DEF Number, Numbered, Recording
<1>5. ASSUME NEW c \in Clients, Calls(c), ~Number(c)
      PROVE  /\ batch'[c].pc \notin {"undo", "tellback"}
             /\ sizeSeq' = sizeSeq
             /\ Recording(c) => sizeSeq' <= colsSeq' \/ Recording(c)'
  <2>1. CASE Announce(c) \/ Resize(c)
    <3>1. sizeSeq' = sizeSeq
      BY <2>1 DEF Announce, Resize, paneVars
    <3>2. batch'[c].pc \in {"resize", "record"} /\ batch'[c].seq = batch[c].seq
      BY <2>1, Moves
    <3> QED
      BY <3>1, <3>2 DEF Recording
  <2>2. CASE (\E s \in Sizes : Request(c, s)) \/ Collect(c)
    <3>1. sizeSeq' = sizeSeq
      BY <2>2 DEF Request, Collect, paneVars
    <3>2. batch[c].pc \in {"idle", "read"} /\ batch'[c].pc \in {"idle", "read", "number"}
      BY <2>2, Phases
    <3> QED
      BY <3>1, <3>2 DEF Recording
  <2>3. CASE Record(c)
    <3>1. sizeSeq' = sizeSeq /\ colsSeq' = Later(colsSeq, batch[c].seq)
      BY <2>3 DEF Record
    <3>2. batch'[c].pc = "idle"
      BY <2>3, Phases
    <3>3. Recording(c) => sizeSeq <= colsSeq'
      BY <1>3, <3>1 DEF Recording, Later
    <3> QED
      BY <3>1, <3>2, <3>3
  <2> QED
    BY <1>2, <1>5, <2>1, <2>2, <2>3 DEF Calls, Batching
<1>6. ASSUME NEW c \in Clients, Calls(c)
      PROVE  /\ \A d \in Clients : batch'[d].pc \notin {"undo", "tellback"}
             /\ sizeSeq' <= colsSeq' \/ \E d \in Clients : Recording(d)'
  <2>1. \A d \in Clients : d # c => batch'[d] = batch[d]
    BY <1>6, OthersStay
  <2>2. CASE Number(c)
    BY <1>1, <1>4, <2>1, <2>2
  <2>3. CASE ~Number(c)
    <3>1. \A d \in Clients : batch'[d].pc \notin {"undo", "tellback"}
      BY <1>1, <1>5, <1>6, <2>1, <2>3
    <3>2. sizeSeq' = sizeSeq
      BY <1>5, <1>6, <2>3
    <3>3. ASSUME NEW d \in Clients, Recording(d)
          PROVE  sizeSeq' <= colsSeq' \/ Recording(d)'
      <4>1. CASE d = c
        BY <1>5, <1>6, <2>3, <3>3, <4>1
      <4>2. CASE d # c
        BY <2>1, <3>2, <3>3, <4>2 DEF Recording
      <4> QED
        BY <4>1, <4>2
    <3>4. sizeSeq <= colsSeq => sizeSeq' <= colsSeq'
      BY <1>3, <3>2
    <3> QED
      BY <1>1, <3>1, <3>3, <3>4
  <2> QED
    BY <2>2, <2>3
<1>7. CASE UNCHANGED <<batch, sizeSeq, colsSeq>>
  BY <1>1, <1>7 DEF Recording
<1> QED
  BY <1>6, <1>7, NextSplits
  DEF TakeControl, Receive, RestartDown, RestartSession, RestartInstall, BuildState, QueueState,
      Beside, paneVars

\* Without a retreat the frames that put one right stay, or newer ones do.
Righted(f) == \A x \in Told(f) : Astray(x) => Corrected(f, x) \/ Pending(f)

\* A step that moves neither the record nor the newer frames of f.
LEMMA RightedStays ==
    ASSUME NEW f \in Clients, Righted(f), UNCHANGED <<size, colsSeq>>, Told(f)' = Told(f),
           Pending(f) => Pending(f)'
    PROVE  Righted(f)'
<1> SUFFICES ASSUME NEW x \in Told(f)', Astray(x)'
             PROVE  Corrected(f, x)' \/ Pending(f)'
  BY DEF Righted
<1>1. x \in Told(f) /\ Astray(x)
  BY DEF Astray
<1> QED
  BY <1>1 DEF Righted, Corrected

\* A follower that reads loses a frame only to one as new.
LEMMA ReadingRights ==
    ASSUME TypeOK, NEW f \in Clients, Receive(f), Righted(f)
    PROVE  Righted(f)'
<1> SUFFICES ASSUME NEW x \in Told(f)', Astray(x)'
             PROVE  Corrected(f, x)' \/ Pending(f)'
  BY DEF Righted
<1>1. UNCHANGED <<size, colsSeq, batch, master>>
  BY DEF Receive, paneVars
<1>2. PICK kept \in Told(f), lost \in Told(f) :
        /\ kept.seq >= lost.seq /\ kept \in Told(f)'
        /\ Told(f)' \subseteq Told(f) /\ Told(f) \subseteq Told(f)' \cup {lost}
  BY Reads
<1>3. Pending(f) => Pending(f)'
  BY <1>1 DEF Pending, AtWork, Followers
<1>4. x \in Told(f) /\ Astray(x) /\ x.seq > colsSeq
  BY <1>1, <1>2 DEF Astray
<1>5. \A y \in Told(f) : y.seq \in Nat
  BY ToldFrames DEF Frames, Seqs
<1>6. colsSeq \in Nat
  BY DEF TypeOK, Seqs
<1>7. CASE Corrected(f, x)
  <2>1. PICK y \in Told(f) : y.seq > x.seq /\ y.size = size
    BY <1>7 DEF Corrected
  <2>2. CASE y \in Told(f)'
    BY <1>1, <2>1, <2>2 DEF Corrected
  <2>3. CASE y = lost
    <3>1. kept.seq > x.seq /\ kept.seq > colsSeq
      BY <1>2, <1>4, <1>5, <1>6, <2>1, <2>3
    <3>2. CASE kept.size = size
      BY <1>1, <1>2, <3>1, <3>2 DEF Corrected
    <3>3. CASE kept.size # size
      <4>1. Corrected(f, kept) \/ Pending(f)
        BY <3>1, <3>3 DEF Astray, Righted
      <4>2. CASE Corrected(f, kept)
        <5>1. PICK z \in Told(f) : z.seq > kept.seq /\ z.size = size
          BY <4>2 DEF Corrected
        <5>2. z.seq > lost.seq /\ z.seq > x.seq
          BY <1>2, <1>4, <1>5, <3>1, <5>1
        <5>3. z \in Told(f)'
          BY <1>2, <1>5, <5>2
        <5> QED
          BY <1>1, <5>1, <5>2, <5>3 DEF Corrected
      <4> QED
        BY <1>3, <4>1, <4>2
    <3> QED
      BY <3>2, <3>3
  <2> QED
    BY <1>2, <2>2, <2>3
<1> QED
  BY <1>3, <1>4, <1>7 DEF Righted

\* The step of the batch at work.
LEMMA WorkRights ==
    ASSUME TypeOK, Counted, InHand, Numbers, Alone, Paired, ~overlapped, ~bare',
           NEW c \in Clients, Marking(c), NEW f \in Clients, Righted(f)
    PROVE  Righted(f)'
<1>1. /\ AtWork = {c} /\ master' = master
      /\ batch[c].pty = pty.id /\ batch[c].prev = applied
  BY LoneWorker, WorkerSteps DEF Alone
<1>2. CASE Record(c)
  <2>1. /\ batch[c].pc = "record" /\ colsSeq' = Later(colsSeq, batch[c].seq)
        /\ sizeSeq' = sizeSeq /\ UNCHANGED <<inbox, held>>
    BY <1>2 DEF Record, At, frameVars
  <2>2. batch[c].seq = sizeSeq
    BY <2>1, AloneIs DEF Newest
  <2>3. sizeSeq \in Nat /\ colsSeq \in Nat /\ colsSeq <= sizeSeq
    BY DEF TypeOK, Seqs
  <2>4. colsSeq' = sizeSeq
    BY <2>1, <2>2, <2>3 DEF Later
  <2>5. \A x \in Told(f) : x.seq \in Nat /\ x.seq <= sizeSeq
    BY ToldFrames DEF Numbers, Frames, Seqs
  <2>6. Told(f)' = Told(f)
    BY <2>1 DEF Told
  <2>7. \A x \in Told(f)' : ~Astray(x)'
    BY <2>3, <2>4, <2>5, <2>6 DEF Astray
  <2> QED
    BY <2>7 DEF Righted
<1>3. CASE ~Record(c) /\ f \notin Followers(c)
  <2>1. UNCHANGED <<size, colsSeq>>
    BY <1>3 DEF Marking, Number, Announce, Resize, ResizeFails, Undo, TellBack, paneVars
  <2>2. Told(f)' = Told(f)
    <3>1. CASE Announce(c) \/ TellBack(c)
      BY <1>3, <3>1, Sends
    <3>2. CASE Number(c) \/ Resize(c) \/ ResizeFails(c) \/ Undo(c)
      BY <3>2, OthersAreSilent
    <3> QED
      BY <1>3, <3>1, <3>2 DEF Marking
  <2>3. ~Pending(f)
    BY <1>1, <1>3 DEF Pending
  <2> QED
    BY <2>1, <2>2, <2>3, RightedStays
<1>4. CASE ~Record(c) /\ ~TellBack(c) /\ f \in Followers(c)
  <2>1. batch'[c].pc \in {"announce", "resize", "record", "undo", "tellback"}
    <3>1. CASE ResizeFails(c)
      <4>1. bare' # TRUE
        OBVIOUS
      <4> QED
        BY <3>1, <4>1, Branches
    <3>2. CASE Number(c) \/ Announce(c) \/ Resize(c) \/ Undo(c)
      BY <3>2, Moves
    <3> QED
      BY <1>4, <3>1, <3>2 DEF Marking
  <2>2. c \in AtWork'
    BY <2>1 DEF AtWork, Working
  <2>3. Pending(f)'
    BY <1>1, <1>4, <2>2 DEF Pending, Followers
  <2> QED
    BY <2>3 DEF Righted
<1>5. CASE TellBack(c) /\ f \in Followers(c)
  <2> DEFINE y == TellBackFrame(c)
  <2>1. Told(f)' = Told(f) \cup {y}
    BY <1>5, Sends
  <2>2. /\ UNCHANGED <<size, colsSeq>> /\ batch[c].pc = "tellback"
    BY <1>5 DEF TellBack, At, paneVars
  <2>3. batch[c].seq = sizeSeq
    BY <2>2, AloneIs DEF Newest
  <2>4. batch[c].prev = size
    BY <1>1, <2>2, Constants DEF InHand, Equipped, Numbers
  <2>5. y.size = size /\ y.seq = sizeSeq
    BY <2>3, <2>4 DEF TellBackFrame
  <2>6. announced[sizeSeq] = size
    BY <2>2, <2>3, <2>4 DEF Paired, At
  <2> HIDE DEF y
  <2>7. ASSUME NEW x \in Told(f)', Astray(x)'
        PROVE  Corrected(f, x)'
    <3>1. x.size # size /\ x \in Told(f)
      BY <2>1, <2>2, <2>5, <2>7 DEF Astray
    <3>2. x.size = announced[x.seq] /\ x.seq <= sizeSeq
      BY <3>1 DEF Paired, Numbers
    <3>3. x.seq \in Nat /\ sizeSeq \in Nat
      <4>1. x.seq \in Nat
        BY <3>1, ToldFrames DEF Frames, Seqs
      <4>2. sizeSeq \in Nat
        BY DEF TypeOK, Seqs
      <4> QED
        BY <4>1, <4>2
    <3>4. x.seq # sizeSeq
      BY <2>6, <3>1, <3>2
    <3>5. y.seq > x.seq
      BY <2>5, <3>2, <3>3, <3>4
    <3> QED
      BY <2>1, <2>2, <2>5, <3>5 DEF Corrected
  <2> QED
    BY <2>7 DEF Righted
<1> QED
  BY <1>2, <1>3, <1>4, <1>5

LEMMA StepKeepsTakenBack ==
    ASSUME TypeOK, Counted, InHand, Numbers, Alone, Paired, TakenBack, [Next]_vars
    PROVE  TakenBack'
<1> SUFFICES ASSUME ~bare', ~overlapped', ~deposed', NEW f \in Clients
             PROVE  Righted(f)'
  BY DEF TakenBack, Righted
<1>1. Righted(f) /\ ~overlapped
  BY NoFailureStays, OverlapStays DEF TakenBack, Righted
<1>2. ASSUME NEW c \in Clients, Marking(c) PROVE Righted(f)'
  BY <1>1, <1>2, WorkRights
<1>3. ASSUME NEW c \in Clients, \E s \in Sizes : Request(c, s) PROVE Righted(f)'
  <2>1. UNCHANGED <<size, colsSeq, master>> /\ AtWork' = AtWork
    BY <1>3, RequestsRead DEF paneVars
  <2>2. Told(f)' = Told(f)
    BY <1>3, OthersAreSilent
  <2>3. Pending(f) => Pending(f)'
    BY <2>1 DEF Pending, Followers
  <2> QED
    BY <1>1, <2>1, <2>2, <2>3, RightedStays
<1>4. ASSUME NEW c \in Clients, Collect(c) PROVE Righted(f)'
  <2>1. UNCHANGED <<size, colsSeq, master>>
    BY <1>4 DEF Collect, paneVars
  <2>2. Told(f)' = Told(f)
    BY <1>4, OthersAreSilent
  <2>3. AtWork' = AtWork \/ AtWork = {}
    BY <1>4, BeginsAlone
  <2>4. Pending(f) => Pending(f)'
    BY <2>1, <2>3 DEF Pending, Followers
  <2> QED
    BY <1>1, <2>1, <2>2, <2>4, RightedStays
<1>5. CASE Restarts
  <2>1. UNCHANGED <<size, colsSeq>>
    BY <1>5 DEF Restarts, RestartDown, RestartSession, RestartInstall, paneVars
  <2>2. Told(f)' = Told(f)
    BY <1>5, OthersAreSilent
  <2>3. ~Pending(f)
    BY <1>1, <1>5, RestartAlone DEF Pending
  <2> QED
    BY <1>1, <2>1, <2>2, <2>3, RightedStays
<1>6. ASSUME NEW c \in Clients, TakeControl(c) PROVE Righted(f)'
  <2>1. UNCHANGED <<size, colsSeq>> /\ AtWork = {}
    BY <1>6 DEF TakeControl, paneVars
  <2>2. Told(f)' = Told(f)
    BY <1>6, OthersAreSilent
  <2> QED
    BY <1>1, <2>1, <2>2, RightedStays DEF Pending
<1>7. ASSUME NEW c \in Clients, Receive(c) PROVE Righted(f)'
  <2>1. CASE c = f
    BY <1>1, <1>7, <2>1, ReadingRights
  <2>2. CASE c # f
    <3>1. UNCHANGED <<size, colsSeq, batch, master>>
      BY <1>7 DEF Receive, paneVars
    <3>2. Told(f)' = Told(f)
      BY <1>7, <2>2, Reads
    <3>3. Pending(f) => Pending(f)'
      BY <3>1 DEF Pending, AtWork, Followers
    <3> QED
      BY <1>1, <3>1, <3>2, <3>3, RightedStays
  <2> QED
    BY <2>1, <2>2
<1>8. CASE QueueState
  <2>1. UNCHANGED <<size, colsSeq, batch, master>>
    BY <1>8 DEF QueueState, paneVars
  <2>2. Told(f)' = Told(f) \cup {cast}
    BY <1>8, Sends
  <2>3. Pending(f) => Pending(f)'
    BY <2>1 DEF Pending, AtWork, Followers
  <2>4. cast.seq <= colsSeq /\ cast.seq \in Nat /\ colsSeq \in Nat
    <3>1. cast.seq \in Nat /\ colsSeq \in Nat
      BY DEF TypeOK, NoFrame, Seqs
    <3> QED
      BY <3>1 DEF Numbers
  <2>5. ASSUME NEW x \in Told(f)', Astray(x)' PROVE Corrected(f, x)' \/ Pending(f)'
    <3>1. x \in Told(f) /\ Astray(x)
      BY <2>1, <2>2, <2>4, <2>5 DEF Astray
    <3> QED
      BY <1>1, <2>1, <2>2, <2>3, <3>1 DEF Righted, Corrected
  <2> QED
    BY <2>5 DEF Righted
<1>9. CASE BuildState \/ Beside
  <2>1. UNCHANGED <<size, colsSeq, batch, master>>
    BY <1>9 DEF BuildState, Beside, paneVars
  <2>2. Told(f)' = Told(f)
    BY <1>9, OthersAreSilent
  <2>3. Pending(f) => Pending(f)'
    BY <2>1 DEF Pending, AtWork, Followers
  <2> QED
    BY <1>1, <2>1, <2>2, <2>3, RightedStays
<1> QED
  BY <1>2, <1>3, <1>4, <1>5, <1>6, <1>7, <1>8, <1>9, StepIs DEF Apart

-----------------------------------------------------------------------------
(* The invariant and what follows from it *)

LEMMA StepKeepsIInv ==
    ASSUME IInv, [Next]_vars
    PROVE  IInv'
<1>1. TypeOK' /\ Counted' /\ InHand' /\ Numbers'
  BY StepKeepsTypes, StepKeepsCounted, StepKeepsBatches, StepKeepsNumbers DEF IInv
<1>2. Alone'
  <2>1. Alone' <=> (~overlapped' =>
          /\ \A c, d \in AtWork' : c = d
          /\ AtWork' # {} => restart' = "none"
          /\ restart' \in AllSizes => restart' = size'
          /\ \A c \in Clients : Fresh(c)' /\ Newest(c)')
    BY DEF Alone, Fresh, Newest, AtWork
  <2> QED
    BY <2>1, StepKeepsAlone DEF IInv
<1>3. Aimed' /\ KicksAlone' /\ Real'
  <2>1. Aimed' /\ KicksAlone'
    BY StepKeepsAimed, StepKeepsKicksAlone DEF IInv, KicksAlone
  <2>2. RealNow' => Real'
    BY DEF RealNow, Reached, Real, At
  <2>3. ~overlapped' /\ ~strayed' => RealNow'
    BY StepKeepsReal DEF IInv
  <2>4. ~(~overlapped' /\ ~strayed') => Real'
    BY DEF Real
  <2> QED
    BY <2>1, <2>2, <2>3, <2>4
<1>4. Paired' /\ ToldFirst' /\ Recorded' /\ TakenBack'
  BY StepKeepsPaired, StepKeepsToldFirst, StepKeepsRecorded, StepKeepsTakenBack DEF IInv
<1> QED
  BY <1>1, <1>2, <1>3, <1>4 DEF IInv

\* The types, what the numbers and the PTY are to one another, and who is told
\* what, whatever the batches, the restarts and the frames do.
THEOREM PaneInvariance == Spec => []IInv
<1>1. Init => IInv
  BY InitInv
<1>2. IInv /\ [Next]_vars => IInv'
  BY StepKeepsIInv
<1> QED
  BY <1>1, <1>2, PTL DEF Spec

\* No client ever holds one announcement's size under another's number, and a
\* PTY gets its new size only when every follower of the batch has it or is
\* about to read it (sizeSeq, sendPaneSizes, adoptDaemonSize).
THEOREM SizesKeepTheirNumbers == Spec => []SizesSound
<1>1. IInv => SizesSound
  <2> SUFFICES ASSUME IInv PROVE SizesSound
    OBVIOUS
  <2>1. TypeOK
    BY DEF IInv
  <2>2. HeldIsAnnounced
    BY <2>1, ToldFrames DEF IInv, Paired, HeldIsAnnounced
  <2>3. AnnouncedFirst
    <3> SUFFICES ASSUME ~overlapped, NEW c \in Sizers, At(c, "record"), NEW f \in batch[c].to
                 PROVE  \/ held[f].size = batch[c].want
                        \/ \E i \in DOMAIN inbox[f] : inbox[f][i].seq = batch[c].seq
      BY DEF AnnouncedFirst
    <3>1. c \in Clients /\ batch[c].pc = "record"
      BY Constants DEF At
    <3>2. f \in Clients
      BY <2>1, <3>1 DEF TypeOK, Batches
    <3>3. PICK x \in Told(f) : x.seq = batch[c].seq
      BY <3>1 DEF IInv, ToldFirst
    <3>4. x.size = announced[x.seq] /\ batch[c].want = announced[batch[c].seq]
      BY <3>1, <3>2 DEF IInv, Paired
    <3> QED
      BY <3>3, <3>4 DEF Told
  <2> QED
    BY <2>1, <2>2, <2>3 DEF SizesSound
<1> QED
  BY <1>1, PaneInvariance, PTL

\* Once nobody is at work the recorded size is the PTY's, however many kicks
\* and restarts there were, when batches overlapped neither a restart nor a kick
\* of the same PTY and no kick failed (applyResizes, restartPaneInPlace,
\* resizeKick).
THEOREM RecordIsReached == Spec => []LoneRecordIsReal
<1>1. IInv => LoneRecordIsReal
  <2> SUFFICES ASSUME IInv, Quiet, NoKicks, ~overlapped, ~strayed PROVE size = pty.size
    BY DEF LoneRecordIsReal
  <2>1. restart = "none" /\ (\A c \in Clients : ~At(c, "record")) /\ AtKick = {}
    BY DEF Quiet, At, NoKicks, NoKick, AtKick
  <2> QED
    BY <2>1 DEF IInv, Real
<1> QED
  BY <1>1, PaneInvariance, PTL

\* No follower is left out of reach of the state frames: not by batches of any
\* number of clients and restarts in any order, and not by a refused resize on
\* its own (applyResizes, broadcastState, adoptDaemonSize).
THEOREM FollowersStayInReach == Spec => []FramesCorrect
<1>1. IInv => FramesCorrect
  <2> SUFFICES ASSUME IInv, Quiet, ~bare, ~(failed /\ (overlapped \/ deposed)),
                      NEW c \in Clients, inbox[c] = <<>>
               PROVE  held[c].size = size \/ held[c].seq <= colsSeq
    BY DEF FramesCorrect, InReach
  <2>1. \A d \in Clients : batch[d].pc = "idle"
    BY DEF Quiet, At
  <2>2. Told(c) = {held[c]}
    BY DEF Told
  <2>3. held[c].seq \in Nat /\ colsSeq \in Nat /\ sizeSeq \in Nat /\ held[c].seq <= sizeSeq
    <3>1. held[c].seq \in Nat
      BY <2>2, ToldFrames DEF IInv, Frames, Seqs
    <3>2. colsSeq \in Nat /\ sizeSeq \in Nat
      BY DEF IInv, TypeOK, Seqs
    <3>3. held[c].seq <= sizeSeq
      BY <2>2 DEF IInv, Numbers
    <3> QED
      BY <3>1, <3>2, <3>3
  <2>4. CASE ~failed
    <3>1. sizeSeq <= colsSeq
      BY <2>1, <2>4 DEF IInv, Recorded
    <3> QED
      BY <2>3, <3>1
  <2>5. CASE failed
    <3>1. ~overlapped /\ ~deposed
      BY <2>5
    <3>2. Astray(held[c]) => Corrected(c, held[c]) \/ Pending(c)
      BY <2>2, <3>1 DEF IInv, TakenBack
    <3>3. ~Pending(c)
      BY <2>1 DEF Pending, AtWork, Working
    <3>4. ~Corrected(c, held[c])
      BY <2>2, <2>3 DEF Corrected
    <3> QED
      BY <2>3, <3>2, <3>3, <3>4 DEF Astray
  <2> QED
    BY <2>4, <2>5
<1> QED
  BY <1>1, PaneInvariance, PTL
=============================================================================
