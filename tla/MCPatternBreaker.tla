-------------------------- MODULE MCPatternBreaker --------------------------
(* Two threads, one target, a day of three ticks; a pattern file with caps, *)
(* one without whose breaker trips at the first failure, and an unsigned one. *)
EXTENDS PatternBreaker, TLC

CONSTANTS t1, t2, web

TwoThreads == {t1, t2}
Interchangeable == Permutations(TwoThreads)
OneTarget == {web}

Tight == [armable |-> TRUE, perHour |-> 1, perDay |-> 2, threshold |-> 2, disable |-> 1]
Loose == [Tight EXCEPT !.perHour = 0, !.perDay = 0, !.threshold = 1, !.disable = 2]
Unsigned == [Tight EXCEPT !.armable = FALSE]
EditedFiles == {Tight, Loose, Unsigned}

\* Without caps: the first failure disables for two ticks, or for one.
Short == [Loose EXCEPT !.disable = 1]
Long == [Loose EXCEPT !.disable = 2]
TwoDisables == {Short, Long}
=============================================================================
