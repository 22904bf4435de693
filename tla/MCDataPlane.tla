---------------------------- MODULE MCDataPlane ----------------------------
(* The threads of a process, and one server that goes away and comes back. *)
EXTENDS DataPlane, TLC

CONSTANTS t1, t2

OneThread == {t1}
TwoThreads == {t1, t2}
Interchangeable == Permutations(TwoThreads)
AnyOutage == {"unreachable", "busy"}
=============================================================================
