--------------------------- MODULE MCUndoExecutor ---------------------------
(* One operator, or an operator beside an MCP server, against one or two    *)
(* HAProxy targets.                                                         *)
EXTENDS UndoExecutor

CONSTANTS cli, server, n1, n2, h1, h2, v1, v2, v3

OneProcess == {cli}
TwoProcesses == {cli, server}
OneHost == {h1}
TwoHosts == {h1, h2}
OneName == {n1}
OneTarget == <<[name |-> n1, host |-> h1]>>
TwoNames == {n1, n2}
TwoTargets == <<[name |-> n1, host |-> h1], [name |-> n2, host |-> h2]>>
OneValue == {v1}
TwoValues == {v1, v2}
ThreeValues == {v1, v2, v3}
TwoOps == [a \in Actors |-> 2]
TwoAndOne == [a \in Actors |-> IF a = cli THEN 2 ELSE 1]
OneAndOne == [a \in Actors |-> 1]
NoFaults == {}
Moves == {"reconfigure"}
Losses == {"lost"}
=============================================================================
