--------------------------- MODULE MCCaddyConfig ---------------------------
(* A Caddy with one or two routes, a tls app larger than a write may be    *)
(* and a listener that is named in its config, and the whole configs that  *)
(* tell the guards apart.                                                  *)
EXTENDS CaddyConfig

CONSTANTS cli, server, here, there, r1, r2, big

OneProcess == {cli}
TwoProcesses == {cli, server}
TwoOps == [a \in Actors |-> 2]
TwoAndOne == [a \in Actors |-> IF a = cli THEN 2 ELSE 1]
ThreeItems == {r1, r2, big}
BigIsThree == [item \in Items |-> IF item = big THEN 3 ELSE 1]
TwoAddrs == {here, there}

Block(disabled, listen) == [disabled |-> disabled, listen |-> listen]
Config(admin) == [admin |-> admin, routes |-> <<r1>>, tls |-> Absent]
Named == [admin |-> Block(FALSE, here), routes |-> <<r1, r2>>, tls |-> big]
Blocks == {Absent, Block(FALSE, Absent), Block(FALSE, here), Block(FALSE, there),
           Block(TRUE, here)}
WholeConfigs == {Nothing, Empty} \cup {Config(b) : b \in Blocks}
=============================================================================
