----------------------------- MODULE MCIpcConn -----------------------------
(***************************************************************************)
(* IpcConn on small sets of goroutines.  A headroom of one keeps places    *)
(* that only Send may take, the shape of the code's 64 and 32.             *)
(***************************************************************************)
EXTENDS IpcConn, TLC

CONSTANTS s1, s2, b1, f1

OneSender == {s1}
TwoSenders == {s1, s2}
OneBulk == {b1}
OneFlusher == {f1}
NoFlusher == {}

\* Sound for the safety run only: its properties name no goroutine.
SenderSymmetry == Permutations(TwoSenders)
=============================================================================
