---------------------------- MODULE MCTaskLedger ----------------------------
(***************************************************************************)
(* TaskLedger with two goroutines emitting and two settle windows.         *)
(***************************************************************************)
EXTENDS TaskLedger

CONSTANTS t1, t2, e1, e2, s1, s2

NoTask == {}
OneTask == {t1}
TwoTasks == {t1, t2}
OneEmitter == {e1}
TwoEmitters == {e1, e2}
OneSettler == {s1}
TwoSettlers == {s1, s2}
=============================================================================
