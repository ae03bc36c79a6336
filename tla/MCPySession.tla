---------------------------- MODULE MCPySession ----------------------------
(* Small instances of PySession for TLC. *)
EXTENDS PySession, TLC

CONSTANTS t1, t2, t3
ThreeThreads == {t1, t2, t3}
AnyThread == Permutations(ThreeThreads)
=============================================================================
