---------------------------- MODULE MCAttachHold ----------------------------
(***************************************************************************)
(* AttachHold on one pane with a replay and one without.                   *)
(***************************************************************************)
EXTENDS AttachHold

CONSTANTS p1, p2

TwoPanes == {p1, p2}
BlankP2 == {p2}
MortalP1 == {p1}
\* The larger instance: both write two.
TwoEach == [p \in Panes |-> 2]

\* The pane with a replay writes two bytes, one to be replayed and one to be
\* held or sent live; the other writes one.
TwoThenOne == [p \in Panes |-> IF p = p1 THEN 2 ELSE 1]
=============================================================================
