---------------------------- MODULE MCWatchEvents ----------------------------
(* Instances of WatchEvents for TLC. *)
EXTENDS WatchEvents, TLC

CONSTANTS s1, s2, s3, g1, g2

TwoSources == {s1, s2}
ThreeSources == {s1, s2, s3}
OneEmitter == {g1}
TwoEmitters == {g1, g2}

Symmetry == Permutations(ThreeSources) \cup Permutations(TwoEmitters)
=============================================================================
