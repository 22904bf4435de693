--------------------------- MODULE GovernedCalls ---------------------------
(***************************************************************************)
(* The governance harness around every tool call, and the audit database   *)
(* it shares with the other local processes.                               *)
(*                                                                         *)
(* A call goes through @governed_tool (governance/decorators.py): budget   *)
(* check, durable write intent, tool body, undo recording, finalisation.   *)
(* The intent and the final row are rows of audit.db, which the engine     *)
(* (governance/audit.py) rotates into an archive when it grows too large.  *)
(*                                                                         *)
(* Actors are threads; each runs inside one process and the threads of a   *)
(* process share its AuditEngine singleton.  Rotation and insertion run    *)
(* under _rotation_guard (a thread lock and a flock on audit.lock, POSIX); *)
(* finish_write and reconcile_pending do not take it.                      *)
(*                                                                         *)
(* call[a].row is the status of the row log() is inserting for the call.   *)
(*                                                                         *)
(* Bound: MaxCalls[a] calls of actor a.  Abstractions: _MAX_DB_SIZE_BYTES  *)
(* is a number of rows (RotateAt); the columns of a row other than its     *)
(* status are the identity of the call that owns it.                       *)
(***************************************************************************)
EXTENDS Naturals, Sequences, FiniteSets

CONSTANTS
  Actors,        \* threads that run governed tools
  Procs,         \* operating-system processes (MCP server, CLI invocations)
  ProcOf,        \* ProcOf[a]: the process actor a runs in
  NoActor,       \* the value of lock when _rotation_guard is free
  MaxCalls,      \* bound: MaxCalls[a] calls started by actor a
  RotateAt,      \* rows at which _maybe_rotate considers the file too large
  MaxArchives    \* _MAX_ARCHIVES

ASSUME ActorsAssumption == ProcOf \in [Actors -> Procs] /\ NoActor \notin Actors
ASSUME BoundsAssumption == /\ MaxCalls \in [Actors -> Nat]
                           /\ RotateAt \in Nat \ {0}
                           /\ MaxArchives \in Nat \ {0}

VARIABLES
  engine,    \* engine[p]: is the process up, did __init__ succeed, _write_blocked
  call,      \* call[a]: the governed call actor a is running (its _CallState)
  lock,      \* the holder of _rotation_guard, or NoActor
  db,        \* rows of audit.db; a row's id is its position (AUTOINCREMENT)
  table,     \* does audit.db have the audit_log table
  archives,  \* the rotated files, oldest first
  purged,    \* history: rows of the archives _cleanup_archives deleted
  effect,    \* history: the calls whose write reached the upstream proxy
  tokens,    \* undo.db: the calls with a recorded inverse, and effect_verified
  abandoned  \* history: processes that left an intent unresolved since they started

vars == <<engine, call, lock, db, table, archives, purged, effect, tokens,
          abandoned>>
storage == <<db, table, archives, purged>>
history == <<effect, tokens, abandoned>>

\* "read" is any call that changes nothing: a low-risk tool, or a dry run.
Kinds    == {"read", "write"}
Results  == {"ok", "error", "unknown"}
Verdicts == Results \cup {"budget_exceeded"}
CallIds  == UNION {{a} \X (1..MaxCalls[a]) : a \in Actors}
Row      == [call : CallIds, status : Verdicts \cup {"pending"}]

\* The places a call can be: between two steps of the wrapper.
Pcs == {"idle", "check", "begin", "guard", "decide", "rotate", "create",
        "insert", "run", "final"}

\* Places where the actor holds _rotation_guard.
Guarded == {"decide", "rotate", "create", "insert"}

Id(a) == <<a, call[a].n>>
Live(c) == \E a \in Actors : call[a].pc # "idle" /\ c = Id(a)
At(a, pc) == call[a].pc = pc
Elements(s) == {s[i] : i \in DOMAIN s}

\* Every row written so far, wherever it is now.
Archived == UNION {Elements(archives[i]) : i \in DOMAIN archives}
AllRows == Elements(db) \cup Archived \cup purged

Engine == [up : BOOLEAN, ok : BOOLEAN, blocked : BOOLEAN]
CallState == [pc : Pcs, n : Nat, kind : Kinds, status : Verdicts,
              row : Verdicts \cup {"pending"}, intent : Nat, late : BOOLEAN]

TypeOK ==
  /\ engine \in [Procs -> Engine]
  /\ call \in [Actors -> CallState]
  /\ \A a \in Actors : call[a].n <= MaxCalls[a]
  /\ lock \in Actors \cup {NoActor}
  /\ db \in Seq(Row)
  /\ table \in BOOLEAN
  /\ archives \in Seq(Seq(Row))
  /\ purged \subseteq Row
  /\ effect \subseteq CallIds
  /\ tokens \subseteq (CallIds \X BOOLEAN)
  /\ abandoned \subseteq Procs

\* No call running, n calls done; no process running.
NoCall(n) == [pc |-> "idle", n |-> n, kind |-> "read", status |-> "ok",
              row |-> "pending", intent |-> 0, late |-> FALSE]
Down == [up |-> FALSE, ok |-> FALSE, blocked |-> FALSE]

\* A fresh machine: no process has run yet, no database exists.
Init ==
  /\ engine = [p \in Procs |-> Down]
  /\ call = [a \in Actors |-> NoCall(0)]
  /\ lock = NoActor
  /\ db = <<>>
  /\ table = FALSE
  /\ archives = <<>>
  /\ purged = {}
  /\ effect = {}
  /\ tokens = {}
  /\ abandoned = {}
----------------------------------------------------------------------------
(* Processes.                                                              *)

\* get_engine builds the AuditEngine: _init_db creates the table if it is
\* missing; on failure, before or after that, the engine stays unusable for the
\* lifetime of the process.
StartProcess(p) ==
  /\ ~engine[p].up
  /\ \E ok \in BOOLEAN :
       /\ engine' = [engine EXCEPT ![p] = [up |-> TRUE, ok |-> ok, blocked |-> FALSE]]
       /\ table' \in {table, TRUE}
       /\ ok => table'
  /\ abandoned' = abandoned \ {p}
  /\ UNCHANGED <<call, lock, db, archives, purged, effect, tokens>>

\* The process dies between two steps: its calls vanish and the kernel drops
\* its flock.  _write_blocked is in memory only, so it is forgotten too.
Crash(p) ==
  /\ engine[p].up
  /\ engine' = [engine EXCEPT ![p] = Down]
  /\ call' = [a \in Actors |-> IF ProcOf[a] = p THEN NoCall(call[a].n) ELSE call[a]]
  /\ lock' = IF lock \in Actors /\ ProcOf[lock] = p THEN NoActor ELSE lock
  /\ UNCHANGED <<storage, history>>
----------------------------------------------------------------------------
(* The wrapper of governed_tool.                                           *)

Goto(a, pc) == call' = [call EXCEPT ![a].pc = pc]

\* _CallState.__init__
StartCall(a, kind) ==
  /\ At(a, "idle") /\ engine[ProcOf[a]].up
  /\ call[a].n < MaxCalls[a]
  /\ call' = [call EXCEPT ![a] = [NoCall(call[a].n + 1) EXCEPT
                 !.pc = "check", !.kind = kind, !.late = ProcOf[a] \in abandoned]]
  /\ UNCHANGED <<engine, lock, storage, history>>

OverBudgetDenied(a) ==  \* mutant: a status of the approval gate that was removed
  call' = [call EXCEPT ![a].pc = "final", ![a].status = "denied"]
OverBudget(a) ==
  call' = [call EXCEPT ![a].pc = "final", ![a].status = "budget_exceeded"]

\* _pre_check: either within budget, or BudgetExceeded (audited, no intent).
PreCheck(a) ==
  /\ At(a, "check")
  /\ \/ Goto(a, "begin")
     \/ OverBudget(a)
  /\ UNCHANGED <<engine, lock, storage, history>>

\* The intent could not be recorded: AuditUnavailable reaches _capture_error.
RefuseNothing(a) == Goto(a, "run")  \* mutant: fail open
Refuse(a) == call' = [call EXCEPT ![a].pc = "final", ![a].status = "error"]

\* _begin_write, AuditEngine.begin_write and the first lines of log(strict).
BeginWrite(a) ==
  LET p == ProcOf[a] IN
  /\ At(a, "begin")
  /\ \/ /\ call[a].kind # "write"
        /\ Goto(a, "run")
        /\ UNCHANGED engine
     \/ /\ call[a].kind = "write"
        /\ engine[p].blocked
        /\ Refuse(a)
        /\ UNCHANGED engine
     \/ /\ call[a].kind = "write"
        /\ ~engine[p].blocked /\ ~engine[p].ok
        /\ engine' = [engine EXCEPT ![p].blocked = TRUE]
        /\ Refuse(a)
     \/ /\ call[a].kind = "write"
        /\ ~engine[p].blocked /\ engine[p].ok
        /\ Goto(a, "guard")
        /\ UNCHANGED engine
  /\ UNCHANGED <<lock, storage, history>>

\* The write reaches the proxy and takes effect there.
UpstreamApplies(a) ==
  /\ At(a, "run") /\ call[a].kind = "write"
  /\ Id(a) \notin effect
  /\ effect' = effect \cup {Id(a)}
  /\ UNCHANGED <<engine, call, lock, storage, tokens, abandoned>>

\* _record_undo: which tokens a call of this kind and result may leave behind.
\* Recording is best-effort, and an unknown outcome has an inverse only when
\* the body captured the prior state.
MayRecordAlways(kind, result) ==  \* mutant: failures are not told apart
  {"none"} \cup IF kind # "write" THEN {}
                ELSE {IF result = "ok" THEN "verified" ELSE "unverified"}
MayRecord(kind, result) ==
  {"none"} \cup IF kind # "write" \/ result = "error" THEN {}
                ELSE {IF result = "ok" THEN "verified" ELSE "unverified"}

\* The tool body returns or raises; _annotate_result runs; _finalize settles
\* the status.  A body says "ok" for a write only when upstream accepted it;
\* an error or an unknown may or may not have taken effect.
Return(a, result) ==
  /\ At(a, "run")
  /\ result = "ok" /\ call[a].kind = "write" => Id(a) \in effect
  /\ \E t \in MayRecord(call[a].kind, result) :
       tokens' = IF t = "none" THEN tokens
                 ELSE tokens \cup {<<Id(a), t = "verified">>}
  /\ call' = [call EXCEPT ![a].pc = "final", ![a].status = result]
  /\ UNCHANGED <<engine, lock, storage, effect, abandoned>>

\* Ctrl-C inside the tool body: a BaseException passes `except Exception` by,
\* so the status is still "ok" and the result None when _finalize runs.
Interrupt(a) ==
  /\ At(a, "run")
  /\ Goto(a, "final")
  /\ UNCHANGED <<engine, lock, storage, history>>

\* The call is over.
End(a) == call' = [call EXCEPT ![a] = NoCall(call[a].n)]

\* finish_write's UPDATE: resolves the row only if it is still pending.
AnyRow(i) == i \in DOMAIN db  \* mutant: UPDATE without AND status = 'pending'
Pending(i) == i \in DOMAIN db /\ db[i].status = "pending"

FinishSucceeds(a) ==
  /\ table /\ Pending(call[a].intent)
  /\ db' = [db EXCEPT ![call[a].intent].status = call[a].status]
  /\ UNCHANGED <<engine, abandoned>>

\* The UPDATE failed or matched no row: AuditUnavailable, and no further
\* write of this process may begin.
FinishFailsQuietly(a) ==  \* mutant: the process is not blocked
  /\ abandoned' = abandoned \cup {ProcOf[a]}
  /\ UNCHANGED <<engine, db>>
FinishFails(a) ==
  /\ engine' = [engine EXCEPT ![ProcOf[a]].blocked = TRUE]
  /\ abandoned' = abandoned \cup {ProcOf[a]}
  /\ UNCHANGED db

\* _finalize of a call that holds an intent.
FinishWrite(a) ==
  /\ At(a, "final") /\ call[a].intent # 0
  /\ FinishSucceeds(a) \/ FinishFails(a)
  /\ End(a)
  /\ UNCHANGED <<lock, table, archives, purged, effect, tokens>>

\* _finalize of a call without one: a best-effort log() of its final row.
NoIntent(a) == call[a].intent = 0

FinalLog(a) ==
  /\ At(a, "final") /\ NoIntent(a)
  /\ IF engine[ProcOf[a]].ok
     THEN call' = [call EXCEPT ![a].pc = "guard", ![a].row = call[a].status]
     ELSE End(a)
  /\ UNCHANGED <<engine, lock, storage, effect, tokens, abandoned>>
----------------------------------------------------------------------------
(* AuditEngine.log: rotation and insertion under _rotation_guard.  Before  *)
(* the tool body it inserts the pending intent, after it the final row.    *)

NotExclusive == TRUE  \* mutant: a guard that excludes nobody
GuardFree == lock = NoActor
KeepGuard == UNCHANGED lock  \* mutant: no `finally`
ReleaseGuard == lock' = NoActor

AcquireGuard(a) ==
  /\ At(a, "guard") /\ GuardFree
  /\ lock' = a
  /\ Goto(a, "decide")
  /\ UNCHANGED <<engine, storage, history>>

NeedsRotationNow == Len(db) >= RotateAt  \* mutant: pending intents are not looked for
NeedsRotation ==
  /\ Len(db) >= RotateAt
  /\ \A i \in DOMAIN db : db[i].status # "pending"

\* _maybe_rotate up to the checkpoint.  A checkpoint that fails or is busy
\* leaves the file alone.
DecideRotation(a) ==
  /\ At(a, "decide")
  /\ \/ NeedsRotation /\ table /\ Goto(a, "rotate")
     \/ Goto(a, "insert")
  /\ UNCHANGED <<engine, lock, storage, history>>

\* What the renamed file holds: every row, the WAL having been truncated into it.
UncheckpointedFile == <<>>  \* mutant: rows left behind in audit.db-wal
CheckpointedFile == db

\* The rename: the live file becomes the newest archive.
RenameToArchive(a) ==
  /\ At(a, "rotate")
  /\ archives' = Append(archives, CheckpointedFile)
  /\ db' = <<>>
  /\ table' = FALSE
  /\ Goto(a, "create")
  /\ UNCHANGED <<engine, lock, purged, history>>

\* _cleanup_archives keeps the MaxArchives newest.
Surplus == IF Len(archives) > MaxArchives THEN Len(archives) - MaxArchives ELSE 0

\* It deletes the surplus from the newest to the oldest; a file that cannot be
\* unlinked ends the deletion after k files.
DropArchives(k) ==
  /\ archives' = SubSeq(archives, 1, Surplus - k)
                   \o SubSeq(archives, Surplus + 1, Len(archives))
  /\ purged' = purged \cup UNION {Elements(archives[i]) : i \in (Surplus - k + 1)..Surplus}

\* _init_db on the new file, then _cleanup_archives.  A failure is swallowed
\* wherever it happens; one of _init_db can leave a file without the table.
CreateTable(a) ==
  /\ At(a, "create")
  /\ \/ /\ table' = TRUE
        /\ \E k \in 0..Surplus : DropArchives(k)
     \/ UNCHANGED <<table, archives, purged>>
  /\ Goto(a, "insert")
  /\ UNCHANGED <<engine, lock, db, history>>

\* INSERT and COMMIT end the guarded section.  The row is the intent of a
\* write (row = "pending": the call goes on to its body) or a final row.
InsertRow(a) ==
  /\ At(a, "insert") /\ table
  /\ ReleaseGuard
  /\ db' = Append(db, [call |-> Id(a), status |-> call[a].row])
  /\ IF call[a].row = "pending"
     THEN call' = [call EXCEPT ![a].pc = "run", ![a].intent = Len(db) + 1]
     ELSE End(a)
  /\ UNCHANGED <<engine, table, archives, purged, history>>

\* The INSERT fails (disk full, locked, no table): strict mode blocks the
\* process and refuses the write, otherwise the row is given up.
InsertFails(a) ==
  /\ At(a, "insert")
  /\ ReleaseGuard
  /\ IF call[a].row = "pending"
     THEN /\ engine' = [engine EXCEPT ![ProcOf[a]].blocked = TRUE]
          /\ Refuse(a)
     ELSE End(a) /\ UNCHANGED engine
  /\ UNCHANGED <<storage, history>>
----------------------------------------------------------------------------
\* reconcile_pending: an operator resolves an orphaned intent, after checking
\* that the call that owns it is no longer executing (the procedure of
\* SECURITY.md, "Audit availability").
Reconcile(i) ==
  /\ table /\ Pending(i)
  /\ ~Live(db[i].call)
  /\ db' = [db EXCEPT ![i].status = "unknown"]
  /\ UNCHANGED <<engine, call, lock, table, archives, purged, history>>

\* One step of the code of actor a: what its scheduling must not starve.
Step(a) ==
  \/ PreCheck(a)
  \/ BeginWrite(a)
  \/ \E r \in Results : Return(a, r)
  \/ FinishWrite(a)
  \/ FinalLog(a)
  \/ AcquireGuard(a)
  \/ DecideRotation(a)
  \/ RenameToArchive(a)
  \/ CreateTable(a)
  \/ InsertRow(a)
  \/ InsertFails(a)

Next ==
  \/ \E p \in Procs : StartProcess(p) \/ Crash(p)
  \/ \E a \in Actors : \/ \E k \in Kinds : StartCall(a, k)
                       \/ UpstreamApplies(a)
                       \/ Interrupt(a)
                       \/ Step(a)
  \/ \E i \in DOMAIN db : Reconcile(i)

Spec == Init /\ [][Next]_vars

\* The operating system schedules every live thread, and an HTTP call comes
\* back (httpx has a timeout).  Nothing makes a process start, crash or a user
\* press Ctrl-C.
FairSpec == Spec /\ \A a \in Actors : WF_vars(Step(a))
----------------------------------------------------------------------------
(* Properties.                                                             *)

\* A call in its body or finalising with an intent owns a pending row of the
\* live database under the id it holds: whatever the other processes rotate,
\* resolve or reconcile meanwhile, finish_write will find it (audit.py:238).
OpenIntent ==
  \A a \in Actors : call[a].intent # 0 =>
    /\ call[a].intent \in DOMAIN db
    /\ db[call[a].intent] = [call |-> Id(a), status |-> "pending"]

\* A write that reached the proxy has its row, in the database or in an archive,
\* until the archive is cleaned up: no crash, storage failure or rotation leaves
\* an unaudited effect.
EffectIsAudited == \A c \in effect : \E r \in AllRows : r.call = c

\* Rotation never archives an unresolved intent, so that an operator looking
\* at audit.db sees every one of them (audit.py:309).
PendingStaysVisible == \A r \in Archived \cup purged : r.status # "pending"

\* Once a process has left an intent unresolved, no write it begins afterwards
\* reaches the proxy or even records an intent, until the process is restarted
\* (SECURITY.md:102: "further writes in that process are blocked").
LateWritesNeverRun ==
  \A a \in Actors : call[a].late => call[a].intent = 0 /\ Id(a) \notin effect

\* Undo tokens agree with the audit trail: a token belongs to an intended
\* write, an unverified one to a row that never says "ok", and no row says
\* "error" while undo.db offers its inverse (decorators.py:320).
TokenMatchesRow ==
  \A t \in tokens : \E r \in AllRows :
    /\ r.call = t[1]
    /\ r.status \in {"pending", "unknown"} \cup IF t[2] THEN {"ok"} ELSE {}

\* Rows only accumulate, and a row is resolved once, by the call that owns it
\* and with that call's status, or to "unknown" when its owner is gone.  Ids
\* restart in a rotated database, and yet no call ever resolves the row of
\* another one.
ResolvedByOwner ==
  [][ db' # <<>> =>
        \A i \in DOMAIN db :
          /\ i \in DOMAIN db'
          /\ db'[i].call = db[i].call
          /\ \/ db'[i] = db[i]
             \/ /\ db[i].status = "pending"
                /\ \/ db'[i].status = "unknown" /\ ~Live(db[i].call)
                   \/ \E a \in Actors : /\ At(a, "final") /\ db[i].call = Id(a)
                                         /\ db'[i].status = call[a].status ]_vars

\* Every call comes to an end: a process that dies inside the guarded section
\* does not leave the others waiting for _rotation_guard.
CallsEnd == \A a \in Actors : call[a].pc # "idle" ~> call[a].pc = "idle"

\* What the audit trail says of an effect (outcome.py:16): a write recorded as
\* "ok" took effect.
OkMeansEffect ==
  \A r \in AllRows : r.status = "ok" => r.call \in effect

\* The harness implements the ledger: the rows of the database and of every
\* archive, deleted ones included, are the abstract rows.
Ledger == INSTANCE WriteAhead WITH Calls <- CallIds, ledger <- AllRows
LedgerSpec == Ledger!Spec
=============================================================================
