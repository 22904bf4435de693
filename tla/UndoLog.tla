------------------------------- MODULE UndoLog -------------------------------
(***************************************************************************)
(* What the undo log promises, whatever processes, failures and files are  *)
(* behind it.  A call changes a proxy, or inverts a call that did.  Its     *)
(* token appears once the proxy has accepted it, is there for as many       *)
(* attempts as it takes, and is used up by an attempt the proxy accepted.   *)
(***************************************************************************)
CONSTANTS
  Calls,   \* identities of calls, and of their tokens
  NoOp     \* "inverts nothing"

VARIABLES
  token,     \* token[c]: the token of call c
  accepted,  \* the calls a proxy accepted, each with the call it inverts
  effect     \* the calls that changed a proxy, each with the call it inverts

log == <<token, accepted, effect>>

Attempts(i) == {<<c, i>> : c \in Calls}
Sent == {p[1] : p \in accepted \cup effect}

Init ==
  /\ token = [c \in Calls |-> "none"]
  /\ accepted = {} /\ effect = {}

\* A call is sent once, and an inverse only while its token is there.  The change
\* may happen without being accepted, and be accepted without happening.
Send(c, i) ==
  /\ c \notin Sent
  /\ i # NoOp => token[i] = "recorded"
  /\ accepted' \in {accepted, accepted \cup {<<c, i>>}}
  /\ effect' \in {effect, effect \cup {<<c, i>>}}
  /\ UNCHANGED token

Record(c) ==
  /\ token[c] = "none"
  /\ \E i \in Calls \cup {NoOp} : <<c, i>> \in accepted
  /\ token' = [token EXCEPT ![c] = "recorded"]
  /\ UNCHANGED <<accepted, effect>>

Use(i) ==
  /\ token[i] = "recorded"
  /\ Attempts(i) \cap accepted # {}
  /\ token' = [token EXCEPT ![i] = "applied"]
  /\ UNCHANGED <<accepted, effect>>

Next ==
  \/ \E c \in Calls, i \in Calls \cup {NoOp} : Send(c, i)
  \/ \E c \in Calls : Record(c) \/ Use(c)

Spec == Init /\ [][Next]_log
=============================================================================
