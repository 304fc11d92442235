------------------------- MODULE SnapshotStore_proofs -------------------------
(***************************************************************************)
(* What SnapshotStore keeps for every number of clients, changes, outputs, *)
(* notes, faults and deaths.                                               *)
(*                                                                         *)
(* What Load finds rests on the rotation having a primary to rotate.  What *)
(* a skipped buffer holds rests on the generation recorded being read      *)
(* before the bytes: the bytes may be ahead of it, never behind.  That a   *)
(* save replaces no unseen text rests on revisions and texts counting      *)
(* alike until a process ends behind.                                      *)
(***************************************************************************)
EXTENDS SnapshotStore, TLAPS

Writing == {"bufwrite", "bufremove", "bufrename"}
Marking == {"mark"} \cup Writing

\* The last state saved is the primary, or the backup on the primary's way.
Rotates ==
    /\ Loaded = saved
    /\ snap = "rotate" => primary # NoFile

\* The generation read is no newer than the bytes in hand, and it is the one
\* recorded until they are in the file, which is never ahead of the pane.
BufferKept ==
    /\ snap \in {"copy"} \cup Marking => view.gen <= gen
    /\ snap \in Marking => view.gen <= view.bytes /\ view.bytes <= gen
    /\ snap \in Writing => view.gen = snapGen
    /\ snap \notin Writing /\ snapGen # -1 /\ ~spoilt => snapGen <= buffer
    /\ snapGen <= gen /\ buffer <= gen

\* No revision is ahead of the texts written.
RevBehind ==
    /\ rev <= note /\ view.rev <= note /\ primary.rev <= note /\ backup.rev <= note
    /\ saver # Nobody => rev < note

Held == IF saver = Nobody THEN 0 ELSE 1

\* Until a process ends behind, a revision is the number of its text, nothing
\* on disk is ahead of the memory, and a client has the text of its revision,
\* unless that revision is too old to be saved on.
NotesAgree ==
    /\ note = rev + Held
    /\ view.rev <= rev /\ primary.rev <= rev /\ backup.rev <= rev
    /\ \A c \in Clients :
          c # saver => editor[c].text = editor[c].rev \/ editor[c].rev < rev
    /\ saver # Nobody => editor[saver].text = note /\ editor[saver].rev = rev
    /\ ~blind

IInv ==
    /\ TypeOK /\ Rotates /\ BufferKept /\ RevBehind
    /\ lagged \/ NotesAgree

----------------------------------------------------------------------------
LEMMA BoundTypes ==
    /\ MaxVersion \in Nat /\ MaxGen \in Nat /\ MaxNotes \in Nat /\ MaxFaults \in Nat
    /\ MaxDowns \in Nat /\ MaxGen > 0
  BY SnapshotStoreAssumption

LEMMA FileTypes ==
    /\ NoFile \notin Files /\ NoFile.rev = -1
    /\ \A f \in Files : f.rev \in 0 .. MaxNotes /\ f.version \in 0 .. MaxVersion
  BY BoundTypes DEF NoFile, Files

LEMMA NoViewTypes == NoView \in Views /\ NoView.rev = 0
  BY BoundTypes DEF NoView, Views

\* A view with another generation.
LEMMA GenTypes ==
    ASSUME NEW v \in Views, NEW g \in 0 .. MaxGen
    PROVE  LET w == [v EXCEPT !.gen = g] IN w \in Views /\ w.gen = g /\ w.rev = v.rev
  BY DEF Views

\* A field of the session alone changes, outside the snapshot and the notes.
SessionSteps == Change \/ Request \/ Output \/ TakeRequest \/ DebounceFires \/ Killed
Begins == Tick \/ TakeDue \/ BeginStop

LEMMA InitInv == Init => IInv
<1> SUFFICES ASSUME Init PROVE IInv
  OBVIOUS
<1> USE BoundTypes DEF Init
<1>1. /\ primary = [version |-> 0, rev |-> 0] /\ primary \in Files /\ primary.rev = 0
      /\ view.rev = 0 /\ view \in Views
      /\ backup.rev = -1
  BY FileTypes, NoViewTypes DEF Files, NoFile, Views
<1>2. \A c \in Clients : editor[c] = [rev |-> 0, text |-> 0]
  OBVIOUS
<1>3. editor \in [Clients -> [rev : 0 .. MaxNotes, text : 0 .. MaxNotes]]
  OBVIOUS
<1>4. TypeOK
  <2>1. /\ asked \in BOOLEAN /\ debouncing \in BOOLEAN /\ due \in BOOLEAN
        /\ spoilt \in BOOLEAN /\ lagged \in BOOLEAN /\ blind \in BOOLEAN
    OBVIOUS
  <2>2. saved \in Files /\ snap \in SnapPCs
    BY <1>1 DEF SnapPCs
  <2> QED
    BY <1>1, <1>3, <2>1, <2>2 DEF TypeOK
<1>5. Rotates
  BY <1>1, FileTypes DEF Rotates, Loaded
<1>6. BufferKept
  BY DEF BufferKept, Writing, Marking
<1>7. RevBehind /\ NotesAgree
  BY <1>1, <1>2 DEF RevBehind, NotesAgree, Held
<1> QED
  BY <1>4, <1>5, <1>6, <1>7 DEF IInv

----------------------------------------------------------------------------
(* The types *)

LEMMA LoadedTypes ==
    ASSUME TypeOK, Loaded # NoFile
    PROVE  Loaded \in Files
  BY DEF TypeOK, Loaded

\* The flags, and all else.
Flags ==
    /\ asked \in BOOLEAN /\ debouncing \in BOOLEAN /\ due \in BOOLEAN
    /\ spoilt \in BOOLEAN /\ lagged \in BOOLEAN /\ blind \in BOOLEAN
Values ==
    /\ phase \in {"up", "last", "down"}
    /\ version \in 0 .. MaxVersion /\ rev \in 0 .. MaxNotes
    /\ gen \in 0 .. MaxGen /\ snapGen \in -1 .. MaxGen
    /\ snap \in SnapPCs
    /\ view \in Views
    /\ primary \in Files \cup {NoFile} /\ backup \in Files \cup {NoFile}
    /\ buffer \in -1 .. MaxGen
    /\ note \in 0 .. MaxNotes
    /\ editor \in [Clients -> [rev : 0 .. MaxNotes, text : 0 .. MaxNotes]]
    /\ saver \in Clients \cup {Nobody}
    /\ faults \in 0 .. MaxFaults /\ downs \in 0 .. MaxDowns
    /\ saved \in Files

LEMMA TypesSplit == TypeOK <=> Flags /\ Values
  BY DEF TypeOK, Flags, Values

LEMMA StepKeepsFlags ==
    ASSUME Flags, [Next]_vars
    PROVE  Flags'
<1> USE DEF Flags
<1>1. CASE SessionSteps \/ Begins
  BY <1>1 DEF SessionSteps, Begins, Change, Request, Output, TakeRequest, DebounceFires, Killed,
              Tick, TakeDue, BeginStop, loopVars, histVars
<1>2. CASE Snapshotting
  BY <1>2 DEF Snapshotting, SaveWrite, DropBackup, Rotate, Promote, Collect, CopyBytes,
              MarkSaved, BufWrite, BufRemove, BufRename, loopVars, histVars
<1>3. ASSUME NEW c \in Clients, NoteGet(c) \/ NoteWrite(c) \/ NoteStore(c) PROVE Flags'
  BY <1>3 DEF NoteGet, NoteWrite, NoteStore, loopVars, histVars
<1>4. CASE Start
  BY <1>4 DEF Start
<1>5. CASE UNCHANGED vars
  BY <1>5 DEF vars, loopVars, histVars
<1> QED
  BY <1>1, <1>2, <1>3, <1>4, <1>5 DEF Next, SessionSteps, Begins

LEMMA StepKeepsValues ==
    ASSUME TypeOK, RevBehind, [Next]_vars
    PROVE  Values'
<1> USE BoundTypes, FileTypes
<1>1. CASE SessionSteps
  BY <1>1 DEF SessionSteps, Change, Request, Output, TakeRequest, DebounceFires, Killed, TypeOK, Values,
              memVars, loopVars, snapVars, diskVars, noteVars, histVars
<1>2. CASE Begins
  <2>1. [version |-> version, rev |-> rev, gen |-> 0, bytes |-> 0] \in Views
    BY DEF TypeOK, Views
  <2> QED
    BY <1>2, <2>1 DEF Begins, Tick, TakeDue, BeginStop, BeginSnapshot, TypeOK, Values, SnapPCs,
                      memVars, loopVars, diskVars, noteVars, histVars
<1>3. CASE SaveWrite \/ DropBackup \/ Rotate
  BY <1>3 DEF SaveWrite, DropBackup, Rotate, Fault, NoFault, TypeOK, Values, SnapPCs,
              memVars, loopVars, diskVars, noteVars, histVars
<1>4. CASE Promote
  <2>1. [version |-> view.version, rev |-> view.rev] \in Files
    BY DEF TypeOK, Files, Views
  <2> QED
    BY <1>4, <2>1 DEF Promote, Fault, NoFault, TypeOK, Values, SnapPCs, memVars, loopVars, noteVars
<1>5. CASE Collect \/ CopyBytes \/ MarkSaved
  <2>1. /\ [view EXCEPT !.bytes = gen] \in Views /\ view.gen \in -1 .. MaxGen
        /\ [NoView EXCEPT !.gen = gen] \in Views /\ NoView \in Views
    <3>1. [view EXCEPT !.bytes = gen] \in Views /\ view.gen \in -1 .. MaxGen
      BY DEF TypeOK, Views
    <3>2. [NoView EXCEPT !.gen = gen] \in Views
      BY NoViewTypes, GenTypes DEF TypeOK
    <3> QED
      BY <3>1, <3>2, NoViewTypes
  <2>2. /\ view' \in Views /\ snapGen' \in -1 .. MaxGen /\ snap' \in SnapPCs
        /\ phase' \in {"up", "last", "down"}
    <3>1. CASE Collect
      BY <2>1, <3>1 DEF Collect, EndSnapshot, TypeOK, SnapPCs, memVars
    <3>2. CASE CopyBytes
      BY <2>1, <3>2 DEF CopyBytes, EndSnapshot, TypeOK, SnapPCs, memVars
    <3>3. CASE MarkSaved
      BY <2>1, <3>3 DEF MarkSaved, Marked, TypeOK, SnapPCs
    <3> QED
      BY <1>5, <3>1, <3>2, <3>3
  <2>3. UNCHANGED <<version, rev, gen, primary, backup, buffer, note, editor, saver, faults,
                    downs, saved>>
    BY <1>5 DEF Collect, CopyBytes, MarkSaved, memVars, diskVars, noteVars, histVars
  <2> QED
    BY <2>2, <2>3 DEF TypeOK, Values
<1>6. CASE BufWrite \/ BufRemove \/ BufRename
  <2>1. CASE BufWrite
    BY <2>1, NoViewTypes DEF BufWrite, Fault, NoFault, EndSnapshot, TypeOK, Values, SnapPCs, memVars, diskVars,
                noteVars
  <2>2. CASE BufRemove
    BY <2>2 DEF BufRemove, Fault, NoFault, TypeOK, Values, SnapPCs, memVars, noteVars, histVars
  <2>3. view.bytes \in -1 .. MaxGen
    BY DEF TypeOK, Views
  <2>4. CASE BufRename
    BY <2>3, <2>4, NoViewTypes DEF BufRename, Fault, NoFault, EndSnapshot, TypeOK, Values, SnapPCs, memVars,
                      noteVars
  <2> QED
    BY <1>6, <2>1, <2>2, <2>4
<1>7. ASSUME NEW c \in Clients, NoteGet(c) \/ NoteWrite(c) \/ NoteStore(c) PROVE Values'
  <2>1. /\ editor[c] \in [rev : 0 .. MaxNotes, text : 0 .. MaxNotes]
        /\ [rev |-> rev, text |-> note] \in [rev : 0 .. MaxNotes, text : 0 .. MaxNotes]
    BY DEF TypeOK
  <2>2. CASE NoteGet(c)
    BY <2>1, <2>2 DEF NoteGet, TypeOK, Values, memVars, loopVars, snapVars, diskVars, histVars
  <2>3. CASE NoteWrite(c)
    <3>1. note' \in 0 .. MaxNotes
      BY <2>3 DEF NoteWrite, TypeOK
    <3>2. \A r \in [rev : 0 .. MaxNotes, text : 0 .. MaxNotes] :
            [r EXCEPT !.text = note'] \in [rev : 0 .. MaxNotes, text : 0 .. MaxNotes]
      BY <3>1
    <3>3. editor' \in [Clients -> [rev : 0 .. MaxNotes, text : 0 .. MaxNotes]]
      BY <2>1, <2>3, <3>2 DEF NoteWrite, TypeOK
    <3> QED
      BY <2>3, <3>1, <3>3 DEF NoteWrite, TypeOK, Values, memVars, loopVars, snapVars, diskVars
  <2>4. CASE NoteStore(c)
    <3>1. rev' = rev + 1 /\ rev' \in 0 .. MaxNotes
      BY <2>4, NobodyIsNoClient DEF NoteStore, TypeOK, RevBehind
    <3>2. \A r \in [rev : 0 .. MaxNotes, text : 0 .. MaxNotes] :
            [r EXCEPT !.rev = rev + 1] \in [rev : 0 .. MaxNotes, text : 0 .. MaxNotes]
      BY <3>1
    <3>3. editor' \in [Clients -> [rev : 0 .. MaxNotes, text : 0 .. MaxNotes]]
      BY <2>1, <2>4, <3>2 DEF NoteStore, TypeOK
    <3> QED
      BY <2>4, <3>1, <3>3 DEF NoteStore, TypeOK, Values, snapVars, diskVars, histVars
  <2> QED
    BY <1>7, <2>2, <2>3, <2>4
<1>8. CASE Start
  <2>1. Loaded \in Files
    BY <1>8, LoadedTypes DEF Start
  <2>2. gen' \in 0 .. MaxGen
    BY <1>8 DEF Start, TypeOK
  <2>3. rev' \in 0 .. MaxNotes
    BY <1>8, <2>1 DEF Start, Restored, TypeOK
  <2> QED
    BY <1>8, <2>1, <2>2, <2>3, NoViewTypes DEF Start, TypeOK, Values, SnapPCs, diskVars
<1>9. CASE UNCHANGED vars
  BY <1>9 DEF TypeOK, Values, vars, memVars, loopVars, snapVars, diskVars, noteVars, histVars
<1> QED
  BY <1>1, <1>2, <1>3, <1>4, <1>5, <1>6, <1>7, <1>8, <1>9
  DEF Next, Snapshotting, SessionSteps, Begins

LEMMA StepKeepsTypes ==
    ASSUME TypeOK, RevBehind, [Next]_vars
    PROVE  TypeOK'
<1>1. Flags'
  BY TypesSplit, StepKeepsFlags
<1>2. Values'
  BY StepKeepsValues
<1> QED
  BY <1>1, <1>2 DEF TypeOK, Flags, Values

----------------------------------------------------------------------------
(* The files *)

LEMMA StepKeepsRotates ==
    ASSUME TypeOK, Rotates, [Next]_vars
    PROVE  Rotates'
<1> USE FileTypes DEF Rotates, Loaded
<1>1. CASE SessionSteps \/ Begins
  BY <1>1 DEF SessionSteps, Begins, Change, Request, Output, TakeRequest, DebounceFires, Killed,
              Tick, TakeDue, BeginStop, BeginSnapshot, snapVars, diskVars, histVars
<1>2. CASE SaveWrite \/ Collect \/ CopyBytes \/ MarkSaved
  BY <1>2 DEF SaveWrite, Collect, CopyBytes, MarkSaved, EndSnapshot, diskVars, histVars
<1>3. CASE DropBackup
  BY <1>3 DEF DropBackup, histVars
<1>4. CASE Rotate
  BY <1>4 DEF Rotate, histVars
<1>5. CASE Promote
  <2>1. [version |-> view.version, rev |-> view.rev] \in Files
    BY DEF TypeOK, Files, Views
  <2> QED
    BY <1>5, <2>1 DEF Promote
<1>6. CASE BufWrite \/ BufRemove \/ BufRename
  BY <1>6 DEF BufWrite, BufRemove, BufRename, EndSnapshot, diskVars, histVars
<1>7. ASSUME NEW c \in Clients, NoteGet(c) \/ NoteWrite(c) \/ NoteStore(c) PROVE Rotates'
  BY <1>7 DEF NoteGet, NoteWrite, NoteStore, snapVars, diskVars, histVars
<1>8. CASE Start
  BY <1>8 DEF Start, diskVars
<1>9. CASE UNCHANGED vars
  BY <1>9 DEF vars, snapVars, diskVars, histVars
<1> QED
  BY <1>1, <1>2, <1>3, <1>4, <1>5, <1>6, <1>7, <1>8, <1>9
  DEF Next, Snapshotting, SessionSteps, Begins

LEMMA BufferTypes ==
    ASSUME TypeOK
    PROVE  /\ gen \in Nat /\ snapGen \in Int /\ buffer \in Int
           /\ view.gen \in Nat /\ view.bytes \in Nat
  BY BoundTypes DEF TypeOK, Views

LEMMA StepKeepsBuffer ==
    ASSUME TypeOK, BufferKept, [Next]_vars
    PROVE  BufferKept'
<1> USE DEF BufferKept, Writing, Marking
<1>1. CASE SessionSteps
  BY <1>1, BufferTypes DEF SessionSteps, Change, Request, Output, TakeRequest, DebounceFires, Killed,
              memVars, snapVars, diskVars, histVars
<1>2. CASE Begins
  <2>1. snap = "idle" /\ snap' = "write" /\ UNCHANGED <<gen, snapGen, buffer, spoilt>>
    BY <1>2 DEF Begins, Tick, TakeDue, BeginStop, BeginSnapshot, AtSelect, memVars, diskVars, histVars
  <2> QED
    BY <2>1
<1>3. CASE SaveWrite \/ DropBackup \/ Rotate \/ Promote
  <2>1. /\ snap \in {"write", "drop", "rotate", "promote"}
        /\ snap' \in {"drop", "rotate", "promote", "collect"}
        /\ UNCHANGED <<gen, snapGen, buffer, spoilt, view>>
    <3>1. CASE SaveWrite
      BY <3>1 DEF SaveWrite, memVars, diskVars, histVars
    <3>2. CASE DropBackup
      BY <3>2 DEF DropBackup, memVars, histVars
    <3>3. CASE Rotate
      BY <3>3 DEF Rotate, memVars, histVars
    <3>4. CASE Promote
      BY <3>4 DEF Promote, memVars
    <3> QED
      BY <1>3, <3>1, <3>2, <3>3, <3>4
  <2> QED
    BY <2>1
<1>4. CASE Collect
  <2>1. UNCHANGED <<gen, snapGen, buffer, spoilt>> /\ snap = "collect"
    BY <1>4 DEF Collect, memVars, diskVars, histVars
  <2>2. snap' = "idle" \/ (snap' = "copy" /\ view' = [NoView EXCEPT !.gen = gen])
    BY <1>4 DEF Collect, EndSnapshot
  <2>3. snap' = "copy" => view'.gen = gen
    BY <2>2, NoViewTypes, GenTypes DEF TypeOK
  <2> QED
    BY <2>1, <2>2, <2>3, BufferTypes
<1>5. CASE CopyBytes
  <2>1. UNCHANGED <<gen, snapGen, buffer, spoilt>> /\ snap = "copy"
    BY <1>5 DEF CopyBytes, memVars, diskVars, histVars
  <2>2. snap' = "idle" \/ (snap' = "mark" /\ view' = [view EXCEPT !.bytes = gen])
    BY <1>5 DEF CopyBytes, EndSnapshot
  <2>3. snap' = "mark" => view'.gen = view.gen /\ view'.bytes = gen
    BY <2>2 DEF TypeOK, Views
  <2> QED
    BY <2>1, <2>2, <2>3, BufferTypes
<1>6. CASE MarkSaved
  BY <1>6, BufferTypes DEF MarkSaved, Marked, diskVars, histVars
<1>7. CASE BufWrite
  BY <1>7 DEF BufWrite, EndSnapshot, memVars, diskVars
<1>8. CASE BufRemove
  BY <1>8, BufferTypes DEF BufRemove, memVars, histVars
<1>9. CASE BufRename
  BY <1>9, BufferTypes DEF BufRename, EndSnapshot, memVars
<1>10. ASSUME NEW c \in Clients, NoteGet(c) \/ NoteWrite(c) \/ NoteStore(c) PROVE BufferKept'
  BY <1>10 DEF NoteGet, NoteWrite, NoteStore, memVars, snapVars, diskVars, histVars
<1>11. CASE Start
  <2>1. /\ snap' = "idle" /\ snapGen' = -1 /\ buffer' = buffer
        /\ gen' = (IF buffer = -1 THEN 0 ELSE buffer)
    BY <1>11 DEF Start, diskVars
  <2>2. buffer >= -1
    BY BoundTypes DEF TypeOK
  <2> QED
    BY <2>1, <2>2, BufferTypes
<1>12. CASE UNCHANGED vars
  BY <1>12 DEF vars, memVars, snapVars, diskVars, histVars
<1> QED
  BY <1>1, <1>2, <1>3, <1>4, <1>5, <1>6, <1>7, <1>8, <1>9, <1>10, <1>11, <1>12
  DEF Next, Snapshotting, SessionSteps, Begins

----------------------------------------------------------------------------
(* The notes *)

\* A step of the files: they take a file of before, the view's or none.
LEMMA FilesTaken ==
    ASSUME TypeOK, SaveWrite \/ DropBackup \/ Rotate \/ Promote \/ Collect \/ CopyBytes
                       \/ MarkSaved \/ BufWrite \/ BufRemove \/ BufRename
    PROVE  /\ primary'.rev \in {primary.rev, view.rev, -1}
           /\ backup'.rev \in {backup.rev, primary.rev, -1}
           /\ view'.rev \in {view.rev, 0}
           /\ UNCHANGED <<rev, note, editor, saver, lagged, blind>>
<1> USE FileTypes
<1>1. CASE SaveWrite \/ DropBackup \/ Rotate \/ BufWrite \/ BufRemove \/ BufRename
  BY <1>1, NoViewTypes DEF SaveWrite, DropBackup, Rotate, BufWrite, BufRemove, BufRename,
                           EndSnapshot, memVars, diskVars, noteVars, histVars
<1>2. CASE Promote
  BY <1>2 DEF Promote, memVars, noteVars
<1>3. CASE Collect \/ CopyBytes \/ MarkSaved
  <2>1. [view EXCEPT !.bytes = gen].rev = view.rev
    BY DEF TypeOK, Views
  <2>2. [NoView EXCEPT !.gen = gen].rev = 0 /\ NoView.rev = 0
    BY NoViewTypes, GenTypes DEF TypeOK
  <2> QED
    BY <1>3, <2>1, <2>2 DEF Collect, CopyBytes, MarkSaved, EndSnapshot, memVars, diskVars, noteVars, histVars
<1> QED
  BY <1>1, <1>2, <1>3

LEMMA RevTypes ==
    ASSUME TypeOK
    PROVE  /\ rev \in Nat /\ note \in Nat /\ view.rev \in Nat
           /\ primary.rev \in Int /\ backup.rev \in Int
           /\ primary = NoFile => primary.rev = -1
           /\ primary # NoFile => primary.rev \in Nat
           /\ backup # NoFile => backup.rev \in Nat
  BY BoundTypes, FileTypes DEF TypeOK, Views

LEMMA StepKeepsRevs ==
    ASSUME TypeOK, RevBehind, [Next]_vars
    PROVE  RevBehind'
<1> USE RevTypes DEF RevBehind
<1>1. CASE SessionSteps
  BY <1>1 DEF SessionSteps, Change, Request, Output, TakeRequest, DebounceFires, Killed,
              memVars, snapVars, diskVars, noteVars
<1>2. CASE Begins
  <2>1. view'.rev = rev
    BY <1>2 DEF Begins, Tick, TakeDue, BeginStop, BeginSnapshot
  <2> QED
    BY <1>2, <2>1 DEF Begins, Tick, TakeDue, BeginStop, memVars, diskVars, noteVars
<1>3. CASE Snapshotting
  BY <1>3, FilesTaken DEF Snapshotting
<1>4. ASSUME NEW c \in Clients, NoteGet(c) PROVE RevBehind'
  BY <1>4 DEF NoteGet, memVars, snapVars, diskVars
<1>5. ASSUME NEW c \in Clients, NoteWrite(c) PROVE RevBehind'
  BY <1>5 DEF NoteWrite, memVars, snapVars, diskVars
<1>6. ASSUME NEW c \in Clients, NoteStore(c) PROVE RevBehind'
  BY <1>6, NobodyIsNoClient DEF NoteStore, snapVars, diskVars
<1>7. CASE Start
  BY <1>7, NoViewTypes DEF Start, Restored, Loaded, diskVars
<1>8. CASE UNCHANGED vars
  BY <1>8 DEF vars, memVars, snapVars, diskVars, noteVars
<1> QED
  BY <1>1, <1>2, <1>3, <1>4, <1>5, <1>6, <1>7, <1>8 DEF Next, SessionSteps, Begins

LEMMA StepKeepsNotes ==
    ASSUME TypeOK, NotesAgree, [Next]_vars
    PROVE  lagged' \/ NotesAgree'
<1> USE RevTypes DEF NotesAgree, Held
<1>a. \A c \in Clients : editor[c] \in [rev : 0 .. MaxNotes, text : 0 .. MaxNotes]
  BY DEF TypeOK
<1>1. CASE SessionSteps
  BY <1>1 DEF SessionSteps, Change, Request, Output, TakeRequest, DebounceFires, Killed,
              memVars, snapVars, diskVars, noteVars, histVars
<1>2. CASE Begins
  <2>1. view'.rev = rev
    BY <1>2 DEF Begins, Tick, TakeDue, BeginStop, BeginSnapshot
  <2> QED
    BY <1>2, <2>1 DEF Begins, Tick, TakeDue, BeginStop, memVars, diskVars, noteVars, histVars
<1>3. CASE Snapshotting
  BY <1>3, FilesTaken DEF Snapshotting
<1>4. ASSUME NEW c \in Clients, NoteGet(c) PROVE NotesAgree'
  <2>1. /\ saver = Nobody /\ saver' = Nobody /\ rev = note
        /\ editor'[c].rev = rev /\ editor'[c].text = note
        /\ \A d \in Clients \ {c} : editor'[d] = editor[d]
    BY <1>4 DEF NoteGet, TypeOK
  <2> QED
    BY <1>4, <2>1, NobodyIsNoClient DEF NoteGet, memVars, snapVars, diskVars, histVars
<1>5. ASSUME NEW c \in Clients, NoteWrite(c) PROVE NotesAgree'
  <2>1. /\ saver = Nobody /\ saver' = c /\ rev = note /\ note' = note + 1 /\ rev' = rev
        /\ editor'[c].text = note'
        /\ \A d \in Clients \ {c} : editor'[d] = editor[d]
    BY <1>5, <1>a DEF NoteWrite, TypeOK, memVars
  <2>2. editor[c].text = note
    <3>1. editor[c].rev = rev
      BY <1>5 DEF NoteWrite, BaseCurrent
    <3> QED
      BY <2>1, <3>1, NobodyIsNoClient
  <2>3. ~blind'
    BY <1>5, <2>2 DEF NoteWrite
  <2>4. editor'[c].rev = rev
    <3>1. editor' = [editor EXCEPT ![c].text = note'] /\ editor[c].rev = rev
      BY <1>5 DEF NoteWrite, BaseCurrent
    <3> QED
      BY <3>1, <1>a DEF TypeOK
  <2>5. \A d \in Clients : d # c => editor'[d].text = editor'[d].rev \/ editor'[d].rev < rev'
    BY <2>1, NobodyIsNoClient
  <2>6. UNCHANGED <<view, primary, backup>>
    BY <1>5 DEF NoteWrite, snapVars, diskVars
  <2>7. c # Nobody
    BY NobodyIsNoClient
  <2> QED
    BY <2>1, <2>3, <2>4, <2>5, <2>6, <2>7
<1>6. ASSUME NEW c \in Clients, NoteStore(c) PROVE NotesAgree'
  <2>1. /\ saver = c /\ saver' = Nobody /\ rev' = rev + 1 /\ note' = note /\ note = rev + 1
        /\ editor'[c].rev = rev + 1 /\ editor'[c].text = editor[c].text
        /\ \A d \in Clients \ {c} : editor'[d] = editor[d]
    BY <1>6, <1>a, NobodyIsNoClient DEF NoteStore, TypeOK
  <2>2. editor[c].text = note
    BY <2>1, NobodyIsNoClient
  <2>3. \A d \in Clients : editor'[d].text = editor'[d].rev \/ editor'[d].rev < rev'
    <3> SUFFICES ASSUME NEW d \in Clients
                 PROVE  editor'[d].text = editor'[d].rev \/ editor'[d].rev < rev'
      OBVIOUS
    <3>1. CASE d = c
      BY <2>1, <2>2, <3>1
    <3>2. CASE d # c
      <4>1. editor'[d] = editor[d] /\ editor[d].rev \in Nat
        BY <2>1, <3>2, <1>a, BoundTypes
      <4>2. editor[d].text = editor[d].rev \/ editor[d].rev < rev
        BY <2>1, <3>2
      <4> QED
        BY <2>1, <4>1, <4>2
    <3> QED
      BY <3>1, <3>2
  <2>4. UNCHANGED <<view, primary, backup, blind>>
    BY <1>6 DEF NoteStore, snapVars, diskVars, histVars
  <2> QED
    BY <2>1, <2>3, <2>4
<1>7. CASE Start
  <2>1. rev' < rev + Held => lagged'
    BY <1>7 DEF Start
  <2>2. Loaded.rev <= rev /\ Loaded.rev \in Int
    BY DEF Loaded
  <2>3. rev' <= rev + Held /\ rev' \in Int
    <3>1. rev' = Loaded.rev \/ (rev' = 1 /\ note # 0)
      BY <1>7 DEF Start, Restored
    <3> QED
      BY <2>2, <3>1
  <2>4. CASE rev' = rev + Held
    <3>1. /\ saver' = Nobody /\ rev' = note /\ note' = note /\ editor' = editor /\ ~blind'
          /\ view'.rev = 0 /\ UNCHANGED <<primary, backup>>
      BY <1>7, <2>4, NoViewTypes DEF Start, diskVars
    <3>2. \A c \in Clients :
            editor'[c].text = editor'[c].rev \/ editor'[c].rev < rev'
      <4> SUFFICES ASSUME NEW c \in Clients
                   PROVE  editor[c].text = editor[c].rev \/ editor[c].rev < rev + Held
        BY <2>4, <3>1
      <4>1. editor[c].rev \in Nat
        BY <1>a, BoundTypes
      <4>2. CASE saver = c
        BY <4>1, <4>2, NobodyIsNoClient
      <4>3. CASE saver # c
        BY <4>1, <4>3
      <4> QED
        BY <4>2, <4>3
    <3> QED
      BY <2>2, <2>4, <3>1, <3>2
  <2> QED
    BY <2>1, <2>3, <2>4
<1>8. CASE UNCHANGED vars
  BY <1>8 DEF vars, memVars, snapVars, diskVars, noteVars, histVars
<1> QED
  BY <1>1, <1>2, <1>3, <1>4, <1>5, <1>6, <1>7, <1>8 DEF Next, SessionSteps, Begins

\* Once a process has ended behind, it has.
LEMMA LaggedStays ==
    ASSUME lagged, [Next]_vars
    PROVE  lagged'
  BY DEF Next, Snapshotting, vars, histVars, Change, Request, Output, TakeRequest, DebounceFires,
         Killed, Tick, TakeDue, BeginStop, SaveWrite, DropBackup, Rotate, Promote, Collect,
         CopyBytes, MarkSaved, BufWrite, BufRemove, BufRename, NoteGet, NoteWrite, NoteStore, Start

----------------------------------------------------------------------------
\* The inductive invariant.
THEOREM StoreInvariance == Spec => []IInv
<1>1. Init => IInv
  BY InitInv
<1>2. IInv /\ [Next]_vars => IInv'
  <2> SUFFICES ASSUME IInv, [Next]_vars PROVE IInv'
    OBVIOUS
  <2>1. TypeOK' /\ RevBehind'
    BY StepKeepsTypes, StepKeepsRevs DEF IInv
  <2>2. Rotates' /\ BufferKept'
    BY StepKeepsRotates, StepKeepsBuffer DEF IInv
  <2>3. lagged' \/ NotesAgree'
    BY StepKeepsNotes, LaggedStays DEF IInv
  <2> QED
    BY <2>1, <2>2, <2>3 DEF IInv
<1> QED
  BY <1>1, <1>2, PTL DEF Spec

\* The types, and that a pane skipped as unchanged has its output on disk
\* unless a write of its buffer failed.
THEOREM SkippedIsOnDisk == Spec => []StoreSound
<1>1. IInv => StoreSound
  <2> SUFFICES ASSUME IInv, snap = "idle", snapGen = gen, ~spoilt PROVE buffer = gen
    BY DEF IInv, StoreSound, SkippedMeansSaved
  <2>1. snap \notin Writing /\ snapGen # -1
    BY BoundTypes DEF IInv, TypeOK, Writing
  <2> QED
    BY <2>1, BufferTypes DEF IInv, BufferKept
<1> QED
  BY <1>1, StoreInvariance, PTL

\* Whenever the process ends and whichever step of Save fails, Load finds what
\* the last successful Save wrote.
THEOREM LoadFindsLast == Spec => []LoadFindsLastSaved
<1>1. IInv => LoadFindsLastSaved
  BY DEF IInv, Rotates, LoadFindsLastSaved
<1> QED
  BY <1>1, StoreInvariance, PTL

\* A save replaces only a text its client has had, as long as no process ended
\* with a revision that had not reached the disk.
THEOREM OverwritesAreSeen == Spec => []OverwriteOnlyAfterLag
<1>1. IInv => OverwriteOnlyAfterLag
  BY DEF IInv, NotesAgree, OverwriteOnlyAfterLag
<1> QED
  BY <1>1, StoreInvariance, PTL
=============================================================================
