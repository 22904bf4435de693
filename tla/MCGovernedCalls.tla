-------------------------- MODULE MCGovernedCalls --------------------------
(* Actors of one host: threads of one process, or of two processes (an MCP  *)
(* server and a CLI command) that share the audit database.                 *)
EXTENDS GovernedCalls, TLC

CONSTANTS t1, t2, t3, server, cli

OneActor == {t1}
TwoActors == {t1, t2}
ThreeActors == {t1, t2, t3}
OneProcess == {server}
TwoProcesses == {server, cli}

SameProcess == [a \in Actors |-> server]
OwnProcess == (t1 :> server) @@ (t2 :> cli)
ServerAndCommand == (t1 :> server) @@ (t2 :> server) @@ (t3 :> cli)

\* The two threads of the server are interchangeable.
Threads == Permutations({t1, t2})

OneCallEach == [a \in Actors |-> 1]
TwoAndOne == (t1 :> 2) @@ (t2 :> 1)
=============================================================================
