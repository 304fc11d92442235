----------------------------- MODULE MCPaneSize -----------------------------
(* Instances of PaneSize for TLC. *)
EXTENDS PaneSize, TLC

CONSTANTS c1, c2, c3, k1, k2, wide, tall

ThreeClients == {c1, c2, c3}
TwoSizers == {c1, c2}
TwoClients == {c1, c2}
NoKickers == {}
OneKicker == {k1}
TwoKickers == {k1, k2}
OneMaster == {c1}
AnyMaster == {c1, c2, NoMaster}
TwoSizes == {wide, tall}

SizeSymmetry == Permutations(TwoSizes)
KickSymmetry == Permutations(TwoSizes) \cup Permutations(TwoKickers)
SizerSymmetry == Permutations(TwoSizers) \cup Permutations(TwoSizes)
=============================================================================
