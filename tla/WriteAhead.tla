----------------------------- MODULE WriteAhead -----------------------------
(***************************************************************************)
(* What the audit trail promises, whatever files, processes, rotations and *)
(* failures are behind it: a ledger of at most one row per call, in which  *)
(* a write is first intended, may then take effect, and is resolved once.  *)
(***************************************************************************)
CONSTANTS
  Calls,    \* the governed calls
  Results   \* the statuses a finished write can have

VARIABLES
  ledger,   \* the rows, [call, status]
  effect    \* the calls that took effect upstream

vars == <<ledger, effect>>

Recorded(c) == \E r \in ledger : r.call = c
Intent(c) == [call |-> c, status |-> "pending"]

Init == ledger = {} /\ effect = {}

\* The write is announced before anything is sent.
Intend(c) ==
  /\ ~Recorded(c)
  /\ ledger' = ledger \cup {Intent(c)}
  /\ UNCHANGED effect

\* Only an announced, unresolved write takes effect.
TakeEffect(c) ==
  /\ Intent(c) \in ledger
  /\ effect' = effect \cup {c}
  /\ UNCHANGED ledger

\* The announcement becomes the outcome.
Resolve(c, v) ==
  /\ Intent(c) \in ledger
  /\ ledger' = (ledger \ {Intent(c)}) \cup {[call |-> c, status |-> v]}
  /\ UNCHANGED effect

\* A call that announced nothing and changed nothing is noted at its end.
Note(c, v) ==
  /\ ~Recorded(c) /\ c \notin effect
  /\ ledger' = ledger \cup {[call |-> c, status |-> v]}
  /\ UNCHANGED effect

Next == \E c \in Calls : \/ Intend(c)
                         \/ TakeEffect(c)
                         \/ \E v \in Results : Resolve(c, v)
                         \/ \E v \in Results \cup {"budget_exceeded"} : Note(c, v)

Spec == Init /\ [][Next]_vars
=============================================================================
