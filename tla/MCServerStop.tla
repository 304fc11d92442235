---------------------------- MODULE MCServerStop ----------------------------
(* Instances of ServerStop for TLC. *)
EXTENDS ServerStop, TLC

CONSTANTS u1, u2, t1, t2

OneLocal == {u1}
TwoLocal == {u1, u2}
NoRemote == {}
OneRemote == {t1}
TwoRemote == {t1, t2}

ConnSymmetry == Permutations(TwoRemote)
=============================================================================
