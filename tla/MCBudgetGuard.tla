--------------------------- MODULE MCBudgetGuard ---------------------------
(* Two threads, a call and an undo_apply, a window that opens and closes in  *)
(* time.                                                                     *)
EXTENDS BudgetGuard, TLC

CONSTANTS t1, t2, poll, undo

Interchangeable == Permutations({t1, t2})
TwoThreads == {t1, t2}
TwoCalls == {poll, undo}
OnlyUndo == {undo}
=============================================================================
