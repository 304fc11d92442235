---------------------------- MODULE MCLayoutSync ----------------------------
(***************************************************************************)
(* LayoutSync on one or two clients, and tabs of one to three panes.       *)
(***************************************************************************)
EXTENDS LayoutSync

CONSTANTS c1, c2, p1, p2, p3

OneClient == {c1}
TwoClients == {c1, c2}
OnePane == {p1}
TwoPanes == {p1, p2}
NewPane == {p3}
NoPane == {}
CloseP2 == {p2}
CloseAny == {p2, p3}
=============================================================================
