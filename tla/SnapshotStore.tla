--------------------------- MODULE SnapshotStore ---------------------------
(***************************************************************************)
(* What the daemon keeps on disk: workspace.json and its backup            *)
(* (internal/persist/snapshot.go, Daemon.Wait and Daemon.snapshot in       *)
(* internal/daemon/daemon.go), a pane's ghost buffer                       *)
(* (internal/persist/ghostbuf.go) and its note                             *)
(* (internal/daemon/notes.go).                                             *)
(*                                                                         *)
(* The session is a version number, which every change that asks for a     *)
(* snapshot increments; one pane has a buffer and a note, and outlives the *)
(* run.  A file is what was last written to it; a call of the file system  *)
(* either happens or fails, and the process may be killed between any two. *)
(* Deletes and the size cap of note_set are saves and errors like others.  *)
(***************************************************************************)
EXTENDS Integers

CONSTANTS
    Clients,     \* clients editing the pane's note
    MaxVersion,  \* bound: changes to the session
    MaxGen,      \* bound: writes to the pane's output buffer
    MaxNotes,    \* bound: texts written to the note file
    MaxFaults,   \* bound: file operations that fail
    MaxDowns     \* bound: times the daemon dies or is stopped

ASSUME SnapshotStoreAssumption ==
    /\ {MaxVersion, MaxGen, MaxNotes, MaxFaults, MaxDowns} \subseteq Nat
    /\ MaxGen > 0

VARIABLES
    phase,       \* "up", "last" (in Stop's final snapshot), or "down"
    version, rev,\* in memory: the session, and the pane's NoteRev
    gen,         \* in memory: the generation of the pane's OutputBuf
    snapGen,     \* in memory: snapGens of the pane, -1 for none
    asked,       \* a request is in snapshotCh
    debouncing,  \* the debounce timer is running
    due,         \* debounceCh holds its token
    snap,        \* where snapshot() is
    view,        \* what the snapshot in hand writes
    primary, backup,   \* workspace.json and workspace.json.bak
    buffer,      \* the pane's .bin file, -1 for none
    note,        \* the pane's note file: which text, 0 for none
    editor,      \* [Clients -> the revision and text the client last had]
    saver,       \* who holds noteMu between writing the file and Store
    faults, downs,
    saved,       \* history: what the last successful Save wrote
    spoilt,      \* history: a write of the buffer failed since it last held all
    lagged,      \* history: a process ended with a note revision not on disk
    blind        \* history: a save replaced a text its client never had

memVars == <<version, rev, gen, snapGen>>
loopVars == <<asked, debouncing, due>>
snapVars == <<snap, view>>
diskVars == <<primary, backup, buffer>>
noteVars == <<note, editor, saver>>
histVars == <<saved, spoilt, lagged, blind>>
vars == <<phase, memVars, loopVars, snapVars, diskVars, noteVars, faults, downs, histVars>>

Nobody == "nobody"

ASSUME NobodyIsNoClient == Nobody \notin Clients

NoFile == [version |-> -1, rev |-> -1]
Files == [version : 0 .. MaxVersion, rev : 0 .. MaxNotes]
SnapPCs == {"idle", "write", "drop", "rotate", "promote", "collect", "copy", "mark",
            "bufwrite", "bufremove", "bufrename"}

\* The session and the note's revision a snapshot writes, and of the buffer the
\* generation it read and the one its bytes are of.
Views == [version : 0 .. MaxVersion, rev : 0 .. MaxNotes, gen : 0 .. MaxGen, bytes : 0 .. MaxGen]
NoView == [version |-> 0, rev |-> 0, gen |-> 0, bytes |-> 0]

TypeOK ==
    /\ phase \in {"up", "last", "down"}
    /\ version \in 0 .. MaxVersion /\ rev \in 0 .. MaxNotes
    /\ gen \in 0 .. MaxGen /\ snapGen \in -1 .. MaxGen
    /\ asked \in BOOLEAN /\ debouncing \in BOOLEAN /\ due \in BOOLEAN
    /\ snap \in SnapPCs
    /\ view \in Views
    /\ primary \in Files \cup {NoFile} /\ backup \in Files \cup {NoFile}
    /\ buffer \in -1 .. MaxGen
    /\ note \in 0 .. MaxNotes
    /\ editor \in [Clients -> [rev : 0 .. MaxNotes, text : 0 .. MaxNotes]]
    /\ saver \in Clients \cup {Nobody}
    /\ faults \in 0 .. MaxFaults /\ downs \in 0 .. MaxDowns
    /\ saved \in Files
    /\ spoilt \in BOOLEAN /\ lagged \in BOOLEAN /\ blind \in BOOLEAN

\* A daemon that has just restored a session whose pane has some output and no
\* note.
Init ==
    /\ phase = "up"
    /\ version = 0 /\ rev = 0 /\ gen = 1 /\ snapGen = -1
    /\ asked = FALSE /\ debouncing = FALSE /\ due = FALSE
    /\ snap = "idle" /\ view = NoView
    /\ primary = [version |-> 0, rev |-> 0] /\ backup = NoFile /\ buffer = 1
    /\ note = 0 /\ editor = [c \in Clients |-> [rev |-> 0, text |-> 0]]
    /\ saver = Nobody
    /\ faults = 0 /\ downs = 0
    /\ saved = primary /\ spoilt = FALSE /\ lagged = FALSE /\ blind = FALSE

Fault == faults < MaxFaults /\ faults' = faults + 1
NoFault == UNCHANGED faults

\* Load: the primary, or the backup when there is none.
Loaded == IF primary # NoFile THEN primary ELSE backup

-----------------------------------------------------------------------------
(* The session changes, and asks for a snapshot. *)

Running == phase # "down"

\* A handler still running while Stop does is not waited for.
Change ==
    /\ Running /\ version < MaxVersion
    /\ version' = version + 1
    /\ asked' = TRUE
    /\ UNCHANGED <<phase, rev, gen, snapGen, debouncing, due, snapVars, diskVars, noteVars,
                   faults, downs, histVars>>

\* Any other call of requestSnapshot.
Request ==
    /\ Running /\ ~asked
    /\ asked' = TRUE
    /\ UNCHANGED <<phase, memVars, debouncing, due, snapVars, diskVars, noteVars,
                   faults, downs, histVars>>

\* The pane writes; output asks for no snapshot.
Output ==
    /\ Running /\ gen < MaxGen
    /\ gen' = gen + 1
    /\ UNCHANGED <<phase, version, rev, snapGen, loopVars, snapVars, diskVars, noteVars,
                   faults, downs, histVars>>

-----------------------------------------------------------------------------
(* Daemon.Wait. *)

AtSelect == phase = "up" /\ snap = "idle"

BeginSnapshot ==
    /\ snap' = "write"
    /\ view' = [version |-> version, rev |-> rev, gen |-> 0, bytes |-> 0]

\* Fault: it asks like everybody else.
Tick_Debounced ==
    /\ AtSelect
    /\ asked' = TRUE
    /\ UNCHANGED <<phase, memVars, debouncing, due, snapVars, diskVars, noteVars,
                   faults, downs, histVars>>
\* The ticker calls snapshot itself: it must not go through the debounce timer,
\* which every request restarts.
Tick ==
    /\ AtSelect
    /\ BeginSnapshot
    /\ UNCHANGED <<phase, memVars, loopVars, diskVars, noteVars, faults, downs, histVars>>

TakeRequest ==
    /\ AtSelect /\ asked
    /\ asked' = FALSE /\ debouncing' = TRUE
    /\ UNCHANGED <<phase, memVars, due, snapVars, diskVars, noteVars, faults, downs, histVars>>

DebounceFires ==
    /\ phase = "up" /\ debouncing
    /\ debouncing' = FALSE /\ due' = TRUE
    /\ UNCHANGED <<phase, memVars, asked, snapVars, diskVars, noteVars, faults, downs, histVars>>

TakeDue ==
    /\ AtSelect /\ due
    /\ due' = FALSE
    /\ BeginSnapshot
    /\ UNCHANGED <<phase, memVars, asked, debouncing, diskVars, noteVars, faults, downs, histVars>>

-----------------------------------------------------------------------------
(* Daemon.snapshot: Save, then the buffer. *)

\* Save writes the temporary file.  A failure leaves the files, and the buffers
\* follow all the same.
SaveWrite ==
    /\ snap = "write"
    /\ \/ snap' = "drop" /\ NoFault
       \/ snap' = "collect" /\ Fault
    /\ UNCHANGED <<phase, memVars, loopVars, view, diskVars, noteVars, downs, histVars>>

\* Fault: the backup goes also when there is no primary to take its place.
DropBackup_Always ==
    /\ snap = "drop"
    /\ snap' = IF primary = NoFile THEN "promote" ELSE "rotate"
    /\ \/ backup' = NoFile /\ NoFault
       \/ UNCHANGED backup /\ Fault
    /\ UNCHANGED <<phase, memVars, loopVars, view, primary, buffer, noteVars, downs, histVars>>
\* Rotation is for a primary that is there, and best effort: the backup
\* goes first.
DropBackup ==
    /\ snap = "drop"
    /\ IF primary = NoFile
         THEN snap' = "promote" /\ UNCHANGED <<backup, faults>>
         ELSE /\ snap' = "rotate"
              /\ \/ backup' = NoFile /\ NoFault
                 \/ UNCHANGED backup /\ Fault
    /\ UNCHANGED <<phase, memVars, loopVars, view, primary, buffer, noteVars, downs, histVars>>

\* The primary takes its place, and if it cannot the promotion replaces it.
Rotate ==
    /\ snap = "rotate"
    /\ \/ backup' = primary /\ primary' = NoFile /\ NoFault
       \/ UNCHANGED <<primary, backup>> /\ Fault
    /\ snap' = "promote"
    /\ UNCHANGED <<phase, memVars, loopVars, view, buffer, noteVars, downs, histVars>>

Promote ==
    /\ snap = "promote"
    /\ \/ /\ primary' = [version |-> view.version, rev |-> view.rev]
          /\ saved' = primary' /\ NoFault
       \/ Fault /\ UNCHANGED <<primary, saved>>
    /\ snap' = "collect"
    /\ UNCHANGED <<phase, memVars, loopVars, view, backup, buffer, noteVars, downs,
                   spoilt, lagged, blind>>

\* The snapshot is over, and the daemon with it when it was the last.
EndSnapshot ==
    /\ snap' = "idle" /\ view' = NoView
    /\ phase' = IF phase = "last" THEN "down" ELSE phase

\* The buffer's generation, to be compared with the one last saved.
Collect ==
    /\ snap = "collect"
    /\ IF snapGen # gen
         THEN snap' = "copy" /\ view' = [NoView EXCEPT !.gen = gen] /\ UNCHANGED phase
         ELSE EndSnapshot
    /\ UNCHANGED <<memVars, loopVars, diskVars, noteVars, faults, downs, histVars>>

\* Its bytes, under the ring's lock a second time: the pane may have written.
CopyBytes ==
    /\ snap = "copy"
    /\ IF gen > 0
         THEN snap' = "mark" /\ view' = [view EXCEPT !.bytes = gen] /\ UNCHANGED phase
         ELSE EndSnapshot
    /\ UNCHANGED <<memVars, loopVars, diskVars, noteVars, faults, downs, histVars>>

\* Fault: the generation is read after the bytes.
Marked_After == gen
Marked == view.gen

\* It is recorded before the file is written.
MarkSaved ==
    /\ snap = "mark"
    /\ snap' = "bufwrite" /\ snapGen' = Marked
    /\ UNCHANGED <<phase, version, rev, gen, loopVars, view, diskVars, noteVars, faults,
                   downs, histVars>>

BufWrite ==
    /\ snap = "bufwrite"
    /\ \/ /\ snap' = "bufremove" /\ NoFault
          /\ UNCHANGED <<phase, view, spoilt>>
       \/ EndSnapshot /\ Fault /\ spoilt' = TRUE
    /\ UNCHANGED <<memVars, loopVars, diskVars, noteVars, downs, saved, lagged, blind>>

\* The old file goes first; a failure to remove it is only logged.
BufRemove ==
    /\ snap = "bufremove"
    /\ \/ buffer' = -1 /\ NoFault
       \/ UNCHANGED buffer /\ Fault
    /\ snap' = "bufrename"
    /\ UNCHANGED <<phase, memVars, loopVars, view, primary, backup, noteVars, downs, histVars>>

BufRename ==
    /\ snap = "bufrename"
    /\ \/ buffer' = view.bytes /\ spoilt' = FALSE /\ NoFault
       \/ UNCHANGED buffer /\ spoilt' = TRUE /\ Fault
    /\ EndSnapshot
    /\ UNCHANGED <<memVars, loopVars, primary, backup, noteVars, downs,
                   saved, lagged, blind>>

-----------------------------------------------------------------------------
(* Notes. *)

\* A client reads the note with its revision, under noteMu.
NoteGet(c) ==
    /\ Running /\ saver = Nobody
    /\ editor' = [editor EXCEPT ![c] = [rev |-> rev, text |-> note]]
    /\ UNCHANGED <<phase, memVars, loopVars, snapVars, diskVars, note, saver, faults, downs,
                   histVars>>

\* Fault: base_rev is not compared.
BaseCurrent_Any(c) == TRUE
BaseCurrent(c) == editor[c].rev = rev

\* note_set takes noteMu, finds the save based on the current revision, and
\* writes the file.  The worker outlives Stop's closing of the connection.
NoteWrite(c) ==
    /\ Running /\ saver = Nobody
    /\ BaseCurrent(c)
    /\ note < MaxNotes
    /\ note' = note + 1
    /\ blind' = (blind \/ editor[c].text # note)
    /\ editor' = [editor EXCEPT ![c].text = note']
    /\ saver' = c
    /\ UNCHANGED <<phase, memVars, loopVars, snapVars, diskVars, faults, downs,
                   saved, spoilt, lagged>>

\* Fault: the reply and the store each count the save.
NoteStore_CountsTwice(c) ==
    /\ Running /\ saver = c
    /\ editor' = [editor EXCEPT ![c].rev = rev + 1]
    /\ rev' = rev + 2
    /\ saver' = Nobody
    /\ asked' = TRUE
    /\ UNCHANGED <<phase, version, gen, snapGen, debouncing, due, snapVars, diskVars, note,
                   faults, downs, histVars>>
\* The reply, then NoteRev.Store, the unlock and the request for a snapshot.
NoteStore(c) ==
    /\ Running /\ saver = c
    /\ editor' = [editor EXCEPT ![c].rev = rev + 1]
    /\ rev' = rev + 1
    /\ saver' = Nobody
    /\ asked' = TRUE
    /\ UNCHANGED <<phase, version, gen, snapGen, debouncing, due, snapVars, diskVars, note,
                   faults, downs, histVars>>

-----------------------------------------------------------------------------
(* Stopping, dying and starting again. *)

BeginStop ==
    /\ AtSelect /\ downs < MaxDowns
    /\ downs' = downs + 1
    /\ phase' = "last"
    /\ BeginSnapshot
    /\ UNCHANGED <<memVars, loopVars, diskVars, noteVars, faults, histVars>>

Killed ==
    /\ Running /\ downs < MaxDowns
    /\ downs' = downs + 1
    /\ phase' = "down"
    /\ UNCHANGED <<memVars, loopVars, snapVars, diskVars, noteVars, faults, histVars>>

\* The note's revision as restored: a file whose revision is not in the
\* snapshot is adopted as revision 1, unless the last save deleted it.
Restored == {Loaded.rev} \cup (IF Loaded.rev = 0 /\ note # 0 THEN {1} ELSE {})

\* restoreWorkspace.  The worker of a save in hand is gone with the process.
Start ==
    LET written == rev + (IF saver = Nobody THEN 0 ELSE 1)
    IN  /\ phase = "down" /\ Loaded # NoFile
        /\ phase' = "up"
        /\ version' = Loaded.version
        /\ rev' \in Restored
        /\ lagged' = (lagged \/ rev' < written)
        /\ gen' = IF buffer = -1 THEN 0 ELSE buffer
        /\ snapGen' = -1
        /\ asked' = FALSE /\ debouncing' = FALSE /\ due' = FALSE
        /\ snap' = "idle" /\ view' = NoView
        /\ saver' = Nobody
        /\ spoilt' = FALSE
        /\ UNCHANGED <<diskVars, note, editor, faults, downs, saved, blind>>

-----------------------------------------------------------------------------
Snapshotting ==
    SaveWrite \/ DropBackup \/ Rotate \/ Promote
        \/ Collect \/ CopyBytes \/ MarkSaved \/ BufWrite \/ BufRemove \/ BufRename

Next ==
    \/ Change \/ Request \/ Output
    \/ Tick \/ TakeDue \/ TakeRequest \/ DebounceFires \/ (Running /\ Snapshotting)
    \/ \E c \in Clients : NoteGet(c) \/ NoteWrite(c) \/ NoteStore(c)
    \/ BeginStop \/ Killed \/ Start

Spec == Init /\ [][Next]_vars

\* The event loop and the snapshot it runs go on.  The debounce timer gets no
\* fairness: requests that keep coming restart it for ever.  Nobody has to
\* change anything, and nothing starts the daemon again.
Fairness ==
    WF_vars(Tick) /\ WF_vars(Running /\ Snapshotting)

FairSpec == Spec /\ Fairness

-----------------------------------------------------------------------------
(* Properties. *)

\* Whenever the process ends, and whichever step of Save failed before, Load
\* finds what the last successful Save wrote: not an older state, and not
\* nothing (persist.Save's rotation, persist.Load's fallback).
LoadFindsLastSaved == Loaded = saved

\* Every change reaches the disk, while the daemon is up and however many
\* requests restart the debounce timer (Wait's direct call from the ticker).
EventuallySaved ==
    \A v \in 1 .. MaxVersion :
        (version >= v) ~> (Loaded.version >= v \/ version < v \/ phase = "down")

\* A save replaces only a text its client has had, as long as no process ended
\* with a revision that had not reached workspace.json (handleNoteSet's check
\* of base_rev under noteMu).
OverwriteOnlyAfterLag == blind => lagged

\* A pane that snapshot skips as unchanged has its output on disk, unless a
\* write of its buffer failed (snapGens, SaveBuffer).
SkippedMeansSaved ==
    phase = "up" /\ snap = "idle" /\ snapGen = gen /\ ~spoilt => buffer = gen

\* The types, and the skipped buffer's place on the disk.
StoreSound == TypeOK /\ SkippedMeansSaved
=============================================================================
