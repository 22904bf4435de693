---------------------------- MODULE MCCommandLine ----------------------------
(* One operator, one command after another, against an HAProxy target.      *)
EXTENDS CommandLine

CONSTANTS cli, n1, h1, h2, v1, v2

OneProcess == {cli}
OneHost == {h1}
OneName == {n1}
OneTarget == <<[name |-> n1, host |-> h1]>>
TwoHosts == {h1, h2}
TwoValues == {v1, v2}
TwoOps == [a \in Actors |-> 2]
\* 0 stops a command, 1 the inverse of `undo apply`, 2 neither.
AllBudgets == {0, 1, 2}
NoFaults == {}
=============================================================================
