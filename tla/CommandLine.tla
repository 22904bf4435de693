----------------------------- MODULE CommandLine -----------------------------
(***************************************************************************)
(* What an operator at a shell learns of a call.  A command confirms, runs *)
(* a governed tool in a process of its own and ends with an exit code made *)
(* of the answer of the tool.  `undo apply` is a governed call whose body  *)
(* runs another one, so it has two rows in the ledger.                     *)
(*                                                                         *)
(* The calls, the undo store and the proxies are those of UndoExecutor;    *)
(* rows[i] of UndoExecutor is the row of a call it runs, book[c].row the   *)
(* row of the outermost governed call of command c.  They are one row for  *)
(* a write and two for an undo.  Bound: process a runs MaxOps[a] commands. *)
(* Abstractions: the ledger is the row of a call (GovernedCalls models the *)
(* files, and Ctrl-C); the two confirmations are one; the row of an        *)
(* inverse that was refused before it began is left out.                   *)
(***************************************************************************)
EXTENDS UndoExecutor

CONSTANT Budgets   \* values of PROXY_MAX_TOOL_CALLS a command may find

ASSUME BudgetsAssumption == Budgets \subseteq Nat /\ Budgets # {}

VARIABLES
  cmd,   \* cmd[a]: the command process a is running
  book   \* history: what became of each command

cliVars == <<vars, cmd, book>>

Kinds == {"write", "apply", "preview", "list", "read"}
Mutating == {"write", "apply"}
Phases == {"shell", "confirm", "govern", "body", "call", "close", "answer"}
Results == {"none", "ok", "error", "unknown", "raised"}
Command == [phase : Phases, n : Nat, kind : Kinds, token : ById, budget : Budgets,
            ran : BOOLEAN, result : Results]
Entry == [kind : Kinds, call : ById,
          row : {"none", "pending", "ok", "error", "unknown", "budget_exceeded"},
          exit : {"none", "success", "failure", "undetermined", "killed"}]

CommandTypeOK ==
  /\ TypeOK
  /\ cmd \in [Actors -> Command]
  /\ book \in [Ids -> Entry]

AtShell(n) == [phase |-> "shell", n |-> n, kind |-> "read", token |-> NoOp,
               budget |-> CHOOSE b \in Budgets : TRUE, ran |-> FALSE, result |-> "none"]
Blank == [kind |-> "read", call |-> NoOp, row |-> "none", exit |-> "none"]

CmdInit ==
  /\ Init
  /\ cmd = [a \in Actors |-> AtShell(0)]
  /\ book = [c \in Ids |-> Blank]

Cid(a) == <<a, cmd[a].n>>
In(a, phase) == cmd[a].phase = phase
Writes(a) == cmd[a].kind \in Mutating
Move(a, phase) == cmd' = [cmd EXCEPT ![a].phase = phase]
Answered(a, phase, result) ==
  cmd' = [cmd EXCEPT ![a].phase = phase, ![a].result = result]
SetRow(a, row) == book' = [book EXCEPT ![Cid(a)].row = row]

\* audit.log, which never fails the call it is about.
BestEffort(a, row) == SetRow(a, row) \/ ("store" \in Faults /\ UNCHANGED book)
----------------------------------------------------------------------------
(* The process of a command.                                               *)

EndProcess(a) == IF loaded[a] # <<>> THEN Exit(a) ELSE UNCHANGED vars

Ends(a, exit) ==
  /\ EndProcess(a)
  /\ cmd' = [cmd EXCEPT ![a] = AtShell(cmd[a].n)]
  /\ book' = [book EXCEPT ![Cid(a)].exit = exit]

Invoke(a, kind, i, budget) ==
  /\ In(a, "shell") /\ cmd[a].n < MaxOps[a]
  /\ i # NoOp => kind \in {"apply", "preview"}
  /\ kind = "apply" => i # NoOp
  /\ cmd' = [cmd EXCEPT ![a] =
               [AtShell(cmd[a].n + 1) EXCEPT !.kind = kind, !.token = i, !.budget = budget,
                  !.phase = IF kind \in Mutating THEN "confirm" ELSE "govern"]]
  /\ book' = [book EXCEPT ![<<a, cmd[a].n + 1>>].kind = kind]
  /\ UNCHANGED vars

\* double_confirm: an abort ends the command before any governed call.
Confirm(a) ==
  /\ In(a, "confirm")
  /\ \/ Move(a, "govern") /\ UNCHANGED <<vars, book>>
     \/ Ends(a, "failure")

Kill(a) ==
  /\ "crash" \in Faults /\ ~In(a, "shell")
  /\ Ends(a, "killed")
----------------------------------------------------------------------------
(* The outermost governed call, up to its body.                            *)

\* _pre_check raises BudgetExceeded.
TripBudget(a) ==
  /\ In(a, "govern") /\ cmd[a].budget = 0
  /\ BestEffort(a, "budget_exceeded")
  /\ Answered(a, "answer", "raised")
  /\ UNCHANGED vars

\* _begin_write: a write needs its intent on disk, a read or a dry run none.
Intend(a) ==
  /\ In(a, "govern") /\ cmd[a].budget > 0
  /\ IF Writes(a) THEN SetRow(a, "pending") ELSE UNCHANGED book
  /\ Move(a, "body")
  /\ UNCHANGED vars

IntentFails(a) ==
  /\ In(a, "govern") /\ cmd[a].budget > 0
  /\ "store" \in Faults /\ Writes(a)
  /\ BestEffort(a, "error")
  /\ Answered(a, "answer", "raised")
  /\ UNCHANGED vars
----------------------------------------------------------------------------
(* The body.                                                               *)

\* A write past its guard, or the inverse of a token past its own _pre_check and
\* _begin_write.
BeginCall(a) ==
  /\ In(a, "body")
  /\ \/ /\ cmd[a].kind = "write"
        /\ \E attr \in Attrs, v \in Values, t \in Names \cup {NoTarget} :
             StartWrite(a, attr, v, t)
     \/ /\ cmd[a].kind = "apply" /\ cmd[a].budget > 1
        /\ \E t \in Names \cup {NoTarget} : StartUndo(a, cmd[a].token, t)
  /\ cmd' = [cmd EXCEPT ![a].phase = "call", ![a].ran = TRUE]
  /\ book' = [book EXCEPT ![Cid(a)].call = <<a, op[a].n + 1>>]

\* The guard of a write, the status check of undo_apply and a refusal of its
\* inverse (the budget, the intent, a store that cannot be read) are errors that
\* tool_errors makes answers of.
RefuseBody(a) ==
  /\ In(a, "body")
  /\ cmd[a].kind = "apply" =>
       ~Appliable(cmd[a].token) \/ cmd[a].budget = 1 \/ "store" \in Faults
  /\ Answered(a, "close", "error")
  /\ UNCHANGED <<vars, book>>

\* A read, a list of tokens, or a preview.
Reports(a) ==
  /\ In(a, "body") /\ ~Writes(a)
  /\ cmd[a].token # NoOp => Appliable(cmd[a].token)
  /\ Answered(a, "close", "ok")
  /\ UNCHANGED <<vars, book>>

Work(a) ==
  /\ In(a, "call")
  /\ GetPrior(a) \/ Put(a) \/ ReadBack(a) \/ Record(a)
  /\ UNCHANGED <<cmd, book>>

\* _finalize of the write: its row is the row of the command.
FinishWrite(a) ==
  /\ In(a, "call") /\ cmd[a].kind = "write"
  /\ Finish(a)
  /\ IF rows' # rows
     THEN SetRow(a, op[a].verdict) /\ Answered(a, "answer", op[a].verdict)
     ELSE UNCHANGED book /\ Answered(a, "answer", "raised")

\* _finalize of the inverse.  Its answer, an error or not, is nested in the
\* answer of undo_apply; an exception becomes an error of undo_apply.
FinishInverse(a) ==
  /\ In(a, "call") /\ cmd[a].kind = "apply"
  /\ Finish(a)
  /\ IF op'[a].pc = "mark" THEN UNCHANGED cmd
     ELSE Answered(a, "close", IF rows' # rows THEN "ok" ELSE "error")
  /\ UNCHANGED book

SwallowedMark(a, marked) == "ok"  \* mutant: a token that was not marked is reported as applied
AfterMark(a, marked) == IF marked THEN "ok" ELSE "error"

MarkToken(a) ==
  /\ In(a, "call")
  /\ Mark(a)
  /\ \/ /\ tokens'[cmd[a].token].status = "applied"
        /\ Answered(a, "close", AfterMark(a, TRUE))
     \/ /\ "store" \in Faults /\ tokens' = tokens
        /\ Answered(a, "close", AfterMark(a, FALSE))
  /\ UNCHANGED book
----------------------------------------------------------------------------
(* The end of the outermost call, and the exit code.                       *)

\* _finalize: finish_write of an intent, log of a call without one.
Close(a) ==
  /\ In(a, "close")
  /\ \/ SetRow(a, cmd[a].result) /\ Move(a, "answer")
     \/ /\ "store" \in Faults /\ UNCHANGED book
        /\ IF Writes(a) THEN Answered(a, "answer", "raised") ELSE Move(a, "answer")
  /\ UNCHANGED vars

\* checked: undetermined before failed before confirmed.
CheckedTwoWays(result) ==  \* mutant: outcomeUnknown is not looked at
  IF result = "error" THEN "failure" ELSE "success"
Checked(result) ==
  CASE result = "unknown" -> "undetermined"
    [] result = "error" -> "failure"
    [] OTHER -> "success"

\* cli_errors, or Python itself, ends a command that raised with code 1.  `undo
\* list` prints what it got; the others check it.
ExitCode(kind, result) ==
  IF result = "raised" THEN "failure"
  ELSE IF kind = "list" THEN "success" ELSE Checked(result)

Answer(a) == In(a, "answer") /\ Ends(a, ExitCode(cmd[a].kind, cmd[a].result))
----------------------------------------------------------------------------
CmdNext ==
  \/ \E a \in Actors :
       \/ \E kind \in Kinds, i \in ById, b \in Budgets : Invoke(a, kind, i, b)
       \/ Confirm(a) \/ Kill(a) \/ TripBudget(a) \/ Intend(a) \/ IntentFails(a)
       \/ BeginCall(a) \/ RefuseBody(a) \/ Reports(a) \/ Work(a)
       \/ FinishWrite(a) \/ FinishInverse(a) \/ MarkToken(a) \/ Close(a) \/ Answer(a)
  \/ \E gone \in Names \cup {NoTarget}, n \in Names, h \in Hosts :
       SaveTarget(gone, n, h) /\ UNCHANGED <<cmd, book>>

CmdSpec == CmdInit /\ [][CmdNext]_cliVars
----------------------------------------------------------------------------
(* Properties.                                                             *)

\* The exit code, the row of the ledger and the proxy agree: 0 is a row that says
\* ok and, of a write, a change the proxy accepted; 2 is a row that says unknown;
\* 1 is neither (cli/_common.py:79: "a script must be able to tell all three
\* apart").  `undo list` is left out, as it does not check its answer.
ExitTellsTheRow ==
  \A c \in Ids : LET b == book[c] IN
    b.kind # "list" =>
      /\ b.exit = "success" =>
           /\ b.row \in (IF b.kind \in Mutating THEN {"ok"} ELSE {"ok", "none"})
           /\ b.kind = "write" => <<b.call, NoOp>> \in accepted
      /\ b.exit = "undetermined" => b.row = "unknown"
      /\ b.exit = "failure" => b.row \notin {"ok", "unknown"}

\* The answer of undo_apply tells what became of the token: without an error it
\* is used up exactly if the inverse did not fail, and with an error it can be
\* applied again (tools/undo.py:185: "Only mark applied when the inverse did not
\* itself return an error dict").
AnswerTellsTheToken ==
  \A a \in Actors :
    In(a, "close") /\ cmd[a].kind = "apply" /\ cmd[a].ran =>
      LET status == tokens[cmd[a].token].status IN
      /\ cmd[a].result = "ok" => (status = "applied" <=> rows[Id(a)] # "error")
      /\ cmd[a].result = "error" => status = "recorded"

\* The undo store keeps what UndoLog promises, for one operator: no inverse is
\* sent after its token is used up, none is used up without an accepted inverse,
\* and no call has a token the proxy did not accept (undo.py:72).
Log == INSTANCE UndoLog WITH
  Calls <- Ids,
  token <- [i \in Ids |-> tokens[i].status],
  effect <- {<<effects[k].id, effects[k].inverts>> : k \in DOMAIN effects}
UndoLogSpec == Log!Spec

\* Every command that calls a governed tool checks its result (cli/_common.py:89).
EveryExitTellsTheRow ==
  \A c \in Ids : book[c].exit = "success" => book[c].row \in {"ok", "none"}

\* An `undo apply` that exits with 0 has undone something (cli/_common.py:92: "a
\* command that prints its result unconditionally reports a refused or failed
\* operation exactly like a successful one").
AppliedExitIsAnUndo ==
  \A c \in Ids :
    book[c].kind = "apply" /\ book[c].exit = "success" => rows[book[c].call] # "error"
=============================================================================
