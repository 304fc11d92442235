----------------------------- MODULE MCTcpLogin -----------------------------
(* Instances of TcpLogin for TLC. *)
EXTENDS TcpLogin, TLC

CONSTANTS c1, c2, t1, t2

OneConn == {c1}
TwoConns == {c1, c2}
OneToken == {t1}
TwoTokens == {t1, t2}

Symmetry == Permutations(TwoConns) \cup Permutations(TwoTokens)
ConnSymmetry == Permutations(TwoConns)
=============================================================================
