-------------------------- MODULE MCSnapshotStore --------------------------
(***************************************************************************)
(* SnapshotStore with one or two clients editing the note.                 *)
(***************************************************************************)
EXTENDS SnapshotStore

CONSTANTS c1, c2

OneClient == {c1}
TwoClients == {c1, c2}
=============================================================================
