--------------------------- MODULE MCSecretStore ---------------------------
(* One or two command-line processes, two targets, two master passwords.   *)
(* The targets' names, keys and imported names are those that              *)
(* _secret_env_key and migrate_legacy_env compute.                         *)
EXTENDS SecretStore

CONSTANTS cli1, cli2, s1, s2, old, new

OneProcess == {cli1}
TwoProcesses == {cli1, cli2}
Two == [p \in Procs |-> 2]
Four == [p \in Procs |-> 4]
TwoValues == {s1, s2}
OneValue == {s1}
TwoPasswords == {old, new}

PlainNames == {"edge-1", "lb"}
MixedNames == {"edge-1", "Edge_1"}
SomeKeys == {"EDGE_1", "LB"}
KeyOf == [n \in Names |-> IF n = "lb" THEN "LB" ELSE "EDGE_1"]
NameOf == [k \in Keys |-> IF k = "LB" THEN "lb" ELSE "edge-1"]
EdgeKey == {"EDGE_1"}

NoEnv == <<>>
TwoLines == << <<"EDGE_1", s1>>, <<"LB", s2>> >>
OneLine == << <<"EDGE_1", s1>> >>
=============================================================================
