# Proxy-AIops in TLA+

Proxy-AIops lets an AI agent, or an operator at a shell, work on reverse
proxies: Traefik, Caddy and HAProxy. Every tool call goes through a governance
harness that budgets it, writes down what it is about to do, runs it, records
how to undo it, and settles the record. This directory models that program:
TLA+ modules that follow the source line by line where order and failure
matter, TLC runs that check them on small instances, and theorems that TLAPS
proves for instances of any size. `PROJECT.json` ties every definition to the
lines it stands for and lists every run, hazard and finding.

To check a run: `tlc -config MCCallsShared.cfg MCGovernedCalls`.
To check the proofs: `tlapm GovernedCallsProofs.tla`, and likewise for the other
modules named `...Proofs`.

## The system

Several operating-system processes of one user share files in
`~/.proxy-aiops`: an MCP server, which lives as long as the agent's session and
runs synchronous tools on worker threads, and CLI commands, which live for one
call. They share no memory. They talk to proxies that other people and other
programs change too.

| Component | State | Operations | What is hard |
|---|---|---|---|
| Harness, `governance/decorators.py` | the running call: verdict, intent id, result | the wrapper of `governed_tool`: check, intent, body, undo, finalise | every step can fail or be the last one of the process; Ctrl-C goes past `except Exception` |
| Audit ledger, `governance/audit.py` | `audit.db`, its archives, `audit.lock`, `_write_blocked` | `log`, `begin_write`, `finish_write`, `reconcile_pending`, rotation | the file is renamed under the feet of other processes; row ids restart; WAL frames; `finish_write` takes no lock |
| Undo, `governance/undo.py`, `mcp_server/tools/undo.py` | `undo.db`: one token per reversible write | record, list, apply (replays the inverse as a governed call), mark | check, act and mark are separate; the world moves between a write and its undo |
| Writes, `ops/writes.py` | none; the proxies' state | five writes, their guards and dry runs, pre-read, read-back | the prior state is read before the change; responses get lost; a build accepts and discards |
| Budget, `governance/budget.py` | call and time totals, a window per fingerprint | `check_and_record`, `add_duration` | the clock is read before the lock; the time is charged after the call |
| Patterns, `governance/patterns.py` | loaded patterns, mtimes, counters | reload, match and arm, report | reloading takes no lock; outcomes arrive after a trip |
| Secret store, `secretstore.py`, `cli/secret.py` | `secrets.enc`, `.env` | set, rm, rotate, migrate, unlock | read, modify, write by several processes through one temporary file |
| Configuration, `config.py`, `cli/init.py` | `config.yaml` | load once per process, init | the default target is a position in a list that init changes |
| Connections, `connection.py`, `_shared.py` | the manager, a session per target, the API generation | connect, probe, rewrite, request | made lazily by whichever thread comes first, without locks; a probe is kept for good |
| Route analysis, `ops/routes.py`, `ops/analysis.py` | none | shadowed and dead routes, redirect loops | a verdict on a table must hold of the proxy's requests |
| Health analysis, `ops/services.py`, `ops/analysis.py` | none | rows per server, verdict, rank, summary | verdict and summary are computed apart; several requests make one report |
| Error rates, `ops/traffic.py`, `ops/analysis.py` | none | counters per service, flagged services, dominant code | two platforms count differently; lists are cut before and after they are sorted |
| Certificates, `ops/certs.py`, `ops/analysis.py` | none | inventory, one handshake per domain, buckets by expiry | the handshakes are spread over time; certificates age and are renewed meanwhile |
| Command line, `cli/` | none | confirm, call a governed tool, print, choose an exit code | a failed or undetermined write must not look like a success; `undo apply` is two governed calls |
| Doctor, read tools, `platform.py`, policy, sanitising | none | one request, one answer | nothing that a unit test would not reach |

The harness calls the budget, the pattern engine, the ledger, the tool body
(which calls a connection, which calls the proxy), the undo store and the
ledger again. `undo_apply` is itself a governed tool and calls another one: one
command counts twice against the budget, and has two intents and two rows. The
components meet in files and in the proxies, never in memory of two processes.

What makes each correct, in short. *Harness and ledger*: no write reaches a
proxy unless its intent is on disk, every intent is resolved once and by its
owner, and nobody loses sight of one that is not. *Undo*: an inverse restores
what its write overwrote, where it overwrote it, once. *Writes*: no sequence of
accepted calls cuts the tool off from the proxy it administers; success means
the proxy changed. *Budget*: a ceiling is one whatever threads do. *Patterns*:
caps and trips hold across reloads. *Secrets*: no crash and no migration loses
one. *Connections*: whichever generation a server is, calls reach it.
*Command line*: exit code, row and proxy tell the same story.
*Analyses*: what a report says is true of the proxy.

## The modules

A model keeps every guard, early return, failure path and their order, and
abstracts the data. Threads and processes interleave at the points where the
code reads or writes something shared, so "read, then write" is two actions.

* **GovernedCalls** (harness, ledger). An actor is a thread; `ProcOf` says which
  process it is in, and so which `AuditEngine` it shares. `call[a].pc` is the
  place in the wrapper; `db`, `table` and `archives` are the files. Rotation and
  insertion run under `_rotation_guard` (`lock`), which on POSIX excludes other
  processes too; on Windows the code has no `flock`, and that is not modelled. A
  failure of SQLite or the disk is possible at every access. Archive names are
  distinct: two rotations within one second, which the code names alike, are
  left out.
* **WriteAhead** is what the ledger promises, whatever files are behind it.
  GovernedCalls implements it under the refinement `ledger <- AllRows`.
* **UndoExecutor** (undo store, HAProxy runtime writes, `config.yaml`). An actor
  is a process that runs one call after another. `Faults` says which failures a
  run has: lost responses, weights discarded by an API build that answers 200,
  failing stores, crashes, a change of targets. A target has a name and a host:
  `init` adds a name; it asks for the `base_url` of one that it overwrites, which
  may then be another host, and moves to the end of the list, so that the default
  may change; and it loses an overwritten name when a mistyped platform makes
  the operator start the round again under another one. A running process keeps
  the config it loaded. The block of a process after a failed
  finalisation is left to GovernedCalls; without it the model has more
  behaviours, not fewer. No tool calls `capture_prior_state`, so an undetermined
  write has no token.
* **UndoLog** is what the undo store promises: an inverse is sent only while its
  token is there, a token appears after its write was accepted, and is used up
  after an inverse was. With one operator UndoExecutor implements it.
* **CommandLine** (command line, nested calls) extends UndoExecutor. A command
  is confirmed, runs its outermost governed call step by step (budget, intent,
  body, row) and ends in an exit code; the body of a write or of an inverse is
  the call of UndoExecutor, so that `undo apply` has two rows, `book[c].row` and
  that of the inverse. The operator can abort, or kill the process at any step.
  Ctrl-C inside of a governed call stays in GovernedCalls, and the two
  confirmations are one. Previews and reads have no intent.
* **CaddyConfig** (Caddy writes). The tree has the admin block, one array and
  one map key; each value has a size, and a write of more than MaxSize is
  refused, whether a tool or a replay sends it (`TooLarge`), while the pre-read
  captures a prior value of any size. What Caddy does with a request is external, modelled from how the
  code answers its responses. An insert is only sent for array elements.
* **BudgetGuard** (budget). The time at which a thread reads the clock and the
  step that takes the lock are apart. The body of `undo_apply` makes a governed
  call of its own in the same thread: it is checked, counted and charged like
  any other, and its time is charged again with that of the outer call
  (`Enter`, `Replay`, `Resume`). The limits of the environment are fixed.
* **PatternBreaker** (patterns). A reload is the four steps of the code: compare
  mtimes, open, swap the patterns, record the mtimes. There is one pattern file,
  and an edit always changes its mtime. The times at which a target was armed
  are a set, each with the number of its call: the code filters and counts its
  list, and never reads the order. `trips` is the history of the circuit
  breaker.
* **SecretStore** (secrets). Files are inodes, because a rename moves a name and
  not an open descriptor. Refused commands change nothing and are left out; the
  environment of a new process is what `.env` exports.
* **RouteConflicts** (route analysis). The table grows row by row, so TLC visits
  every table of a set of rows. `Takes` and `Served` are what the proxy does
  with a request. A prefix `/`, which takes every path, counts for the analysis
  as a path like any other; the reference definition says so too. A route names
  hosts or wildcards (`Patterns`): the proxy goes by what one matches
  (`MatchedBy`), the analysis by the text. A redirect names a whole target, or
  leaves parts of it to the request (`AsSent`: `/a` has no host,
  `{http.request.host}` is the request's own); `SplitUrl` is what the analysis
  makes of it, `NextRequest` what a client does, and a client gives up after
  `Patience` redirects. A route is "reported" when it is counted; the answer's
  lists are cut at 100 entries, and tables beyond the 500 routes that are read
  are not modelled. The several
  matcher sets of one Caddy route, which the code flattens, are not told apart.
* **ErrorRates** (error rates). The target is on either platform, chosen at the
  start. The proxy serves requests and restarts; the
  counters are what each platform tells of them, per code on Traefik and per
  class on HAProxy. A rate is a number of hundredths of a percent, rounded as
  the code rounds it (a tie, which floating point may round either way, goes up),
  and the flagged services are ranked by that number; causes, severities and the fleet baseline are left out.
* **CertSweep** (certificates). Time passes, certificates are renewed and hosts
  fall silent between the handshakes of one sweep. The unit of time is small
  enough for the rounding of the code to a tenth of a day to show: a certificate
  that expired within the last 72 minutes counts as critical, not as expired,
  and `SweepIsExact` allows just that.
* **HealthReport** (health analysis). Servers are counted by status. Services
  are deployed, retired, fail and recover between the requests of one report.
  The list of services and the list of server rows are each cut at MaxRows: the
  rows come service after service (`CutViews`), so that one service may be seen
  in part and the next ones not at all, and the summary counts what is seen. The
  findings are ranked by `Score` and cut at MaxFindings; equally bad ones may
  come in any order (`Pages`). Nothing is checked of the verdicts on Caddy,
  whose rows name no service.
* **DataPlane** (connections). Threads make the manager and the connection,
  probe, and build a path from two reads of the prefix.

Modules named `MC...` hold the constants of the runs. An operator marked
`mutant` is a plausible bug; it is used by no run of this directory, and
`PROJECT.json` names the property that must fail when it replaces the operator
below it.

CommandLine composes the command line, the undo store and the writes in one
state, and MCAnalyses composes RouteConflicts, ErrorRates, CertSweep and
HealthReport, of which a behaviour runs one: they share no state. The other
components compose through what they promise one another rather than in one
product state: UndoExecutor reduces the ledger to the status of a call, which
GovernedCalls justifies, and UndoExecutor's connections are the ones that
DataPlane resolves.

## The runs

| Run | Question | Bounds, and why they are enough |
|---|---|---|
| `calls_shared` | what two threads of a server and a command do to one database | three calls, a rotation at one row, one archive kept: a rotation falls between any two steps of another call, ids restart, the second rotation deletes the first archive, and one thread's failed finalisation meets a call of the other in flight or later |
| `calls_end` | calls end; WriteAhead is implemented | one call for each of two processes: a holder of the guard can die while the other waits |
| `undo_operator` | inverses, tokens, exit codes; UndoLog is implemented | two commands of one operator: a write and its undo; one name that is given a second host in between; two values, each fault and the death of the process at every step; a budget that stops the outer call, the inner one or neither |
| `undo_targets` | an inverse runs where its write ran | a write and its undo in two processes; two names and two hosts, and two changes of the config: a name can be lost and come back on another host, or the default move and a name be overwritten |
| `caddy_shared` | exact undo; the admin API is never disabled | three calls of two processes; indexes up to one past the end; one item too large to be written, in the config from the start |
| `budget_threads` | ceilings, runaway breaker | two threads overtake each other, each with an `undo_apply` and the call it makes or a call alone; five calls, and a second of time where one call takes up to two: both threads are admitted below the ceiling and charge two calls each; the window opens and closes within the clock |
| `pattern_threads` | caps, trips, reloads | an hour and a day that end within the run; two edits, so that a reload can meet both; removal and return of the file |
| `secret_alone` | a crash at any step | four commands, a migration of two lines |
| `analyses` | the analyses of a target: routes against requests, rates against responses, buckets against certificates, verdicts against servers | three routes: a cycle of two and a route in front of it, a host and a path no route names, a wildcard that matches two hosts of three, and redirects that keep the host or all of the request; a client follows one redirect more than there are routes. Two services of up to five requests with two kinds of 5xx, of which a report shows one. Two domains, a wildcard first, and certificates on both sides of each threshold, with two units of time between the first handshake and the last. Two HAProxy services of up to two servers, three requests; both services and three rows of the up to four are listed, and one finding is shown |
| `dataplane_threads` | calls reach the server | two threads, of which each can make the manager, the connection and the probe; two outages of either kind |
| `undo_twice`, `caddy_lockout` | code against documentation | see below |

Deadlock is checked where the system has no end: DataPlane. The other models stop
when the bounded calls are used up, or run next to one that does.

Symmetry among threads of one process is used in `calls_shared`,
`budget_threads`, `pattern_threads` and `dataplane_threads`. Their properties
are invariants, or action properties, which TLC evaluates on every step it
takes; no definition chooses a thread.

**Fairness.** Only `calls_end` has a liveness property. It assumes weak fairness
of each live thread's next step: the operating system schedules threads, and a
tool body comes back because every HTTP request has a timeout of 30 seconds
(`connection.py:33`). Nothing is assumed of crashes, starts, budgets, Ctrl-C or
reconciliation. A thread that waits for the guard gets it because the guarded
section is finite and the kernel drops the lock of a dead holder.

**Where the properties say "unless".** Some properties would be false of the
code as it is without a condition, and each condition is kept as narrow as it
can be, in a history variable or in the property itself. `NamedOriginIsKept`
leaves out names that were given another `base_url` since the write.
`UndoRestoresTree` leaves out writes that another process overtook between their
read and their change, inverses that are refused because the prior value is too
large, and those whose config the guard refuses. `ShadowedIsExact` says that a
reported route is precluded by one other, wildcards included, and that every
route precluded by one that names no wildcard is reported. `LoopsAreExact` is
about tables whose redirects name a whole target that only routes naming its
host would take (`TargetsAreNamed`). `EveryOutageIsReported` is about the
services of which all servers are listed, and about the findings shown; an
outage is off the page only if the page is full of others.
`ServesTheFileUnlessOverlapping` leaves out engines that two threads reloaded at
the same time. `ProbedServerIsReached` leaves out connections of which a probe
met an outage. `NoSpuriousTrip` and `RunawayBound` allow one call for each other
thread, as the clock is read before the lock. `ExitTellsTheRow` leaves out
`undo list`. `RatesAreExact`, `SweepIsExact` and `DeadIsExact` are checked where
no list of the code is cut before it is analysed. `UndoLogSpec` is about one
operator; with two processes it would contradict `undo_twice`. What happens in
the cases left out is below.

## What the runs found

The passing runs show that what the governance code sets out to do across
crashes and processes, it does: no effect without a row, no lost or doubly
resolved intent, no write after a block, exact inverses where nobody raced, no
way to disable Caddy's admin API, ceilings and caps that hold under threads, a
breaker that no success in flight resets, and exit codes that agree with the
rows wherever a command checks its answer.

Two runs expect a violation. `undo_twice`: two processes apply one token, both
find it recorded, and both inverses take effect. `caddy_lockout`: a load without
an admin block is accepted, then one that names another listener, and the admin
API has moved from under `base_url`.

Further configurations reproduce other places where code and documentation
part. Each property of theirs quotes the sentence it states, and TLC finds a
counterexample in seconds; where a configuration has several properties, keep one
of them at a time to see its own.

| Configuration of module | What happens |
|---|---|
| `MCCallsInterrupt`, MCGovernedCalls | Ctrl-C in the body of a write leaves a row that says `ok` |
| `MCUndoRace`, MCUndoExecutor | `UndoRestores`: a prior value read before the change is not what the change overwrote. `ErrorMeansNoEffect`: a write whose response is lost is recorded as an error, without a token |
| `MCUndoMoved`, MCUndoExecutor | `init` moves the default target, or overwrites a name with another `base_url`, and an undo runs on another host |
| `MCExitCodes`, MCCommandLine | `AppliedExitIsAnUndo`: `undo apply` exits with 0 though its inverse failed, as the error is nested in the answer, where `checked` does not look (`cli/undo.py:69`). `EveryExitTellsTheRow`: `undo list` prints an error and exits with 0 (`cli/undo.py:43`) |
| `MCCaddyReload`, MCCaddyConfig | `SubtreeIsUndoable`: a prior value of more than 200,000 bytes is captured for the undo of a set or a delete, and the tool refuses to write it back (`writes.py:47`). With `WholeConfigIsUndoable` in its place: the guard refuses the recorded undo of an accepted load |
| `MCPatternStale`, MCPatternBreaker | `ServesTheFile`: two reloads leave old patterns with a new mtime, until the next edit. `EveryTripHolds`: a failure in flight trips again under a pattern edited meanwhile, whose shorter time replaces that of the first trip |
| `MCSecretShared`, MCSecretStore | two processes lose each other's secrets or install a torn file |
| `MCSecretNames`, MCSecretStore | migrating `.env` loses the secret of a target with a capital or `_` |
| `MCAnalysesCut`, MCAnalyses | `ShadowedNeverMatch`: a route behind an exact path gets requests and is reported as shadowed. `PrecludedIsShadowed`: a route behind one with a wildcard for its host gets none and is not reported. `LoopsNeverEnd`: the redirect from http to https is reported as a loop. `EndlessIsLoop`: a redirect that leaves out its host sends a client in circles and is not reported. `RatesAreExact`: a faulty service past MAX_SERVICES is not flagged, and the report does not say that it was cut. `EveryDomainIsSwept`: a domain past MAX_PROBES is in no bucket, nor among the unknown ones. `DeadIsExact`: the routes of services past MAX_ROWS are reported as dead. `NoOutageIsMissed`: a service past the rows that are listed is out, and is in no finding, nor in the summary |
| `MCHealthUnchecked`, MCHealthReport | a service without health checks is "Healthy — all servers up" and an outage at once |
| `MCHealthCaddyRoutes`, MCHealthReport | on Caddy every proxied route is reported as dead |
| `MCHealthRanks`, MCHealthReport | `OutagesComeFirst`: a service with one server up and 101 down is ranked before one that has no server left, as each server down adds 10 to the score and the outage 1000 (`analysis.py:127`) |
| `MCDataPlaneOutage`, MCDataPlane | `BothGenerationsWork`: a first call during an outage breaks the connection for good. `PathsAreWhole`: a path is reshaped for v2 and numbered for v3 |

## The proofs

Eight modules prove 43 theorems, for any number of actors, threads, processes,
calls, targets, values, edits, routes, services and domains. They assume what the ASSUMEs of the models
say: that the constants are of their types, that the values which stand for
"none" are no values, and a few facts of the code, each named where it is used
below. Some results rest on one more hypothesis: that there is a single process
(`OneOperator`, `Alone`). With two of them the statements are false, and
`undo_twice`, `MCUndoRace` and `MCSecretShared` show how. TLC
checked the inductive invariants on the instances of the runs, except for the
windows of BudgetGuard (`Covered`, `Disorder`, `Tracked`), which quantify over all
of Nat.

| Module | Theorems |
|---|---|
| GovernedCallsProofs | `TypeCorrect`, `OpenIntentHolds`, `PendingStaysVisibleHolds`, `EffectIsAuditedHolds`, `ResolvedByOwnerHolds`, `TokenMatchesRowHolds`, `LateWritesNeverRunHolds`, `LedgerImplemented` |
| CommandLineProofs | of UndoExecutor: `UndoTypeCorrect`, `NamedOriginIsKeptHolds`; for one operator `UndoRestoresForOne`, `OkMeansInPlaceForOne`. Of CommandLine: `CommandTypeCorrect`, `ExitTellsTheRowHolds`, `CommandsAreCalls`; for one operator `AnswerTellsTheTokenHolds`, `UndoLogImplemented` |
| CaddyConfigProofs | `TypeCorrect`, `AdminStaysEnabled`, `UndoRestores` |
| BudgetGuardProofs | `TypeCorrect`, `CallCeilingHolds`, `BoundedOverrunHolds`, `WindowInvariance`, `RunawayBoundHolds`, `NoSpuriousTripHolds` |
| PatternBreakerProofs | `TypeCorrect`, `ServesTheFileHolds`, `TripDisablesHolds`, `CapsHoldAlways` |
| DataPlaneProofs | `TypeCorrect`, `ProbedServerIsReachedHolds` |
| SecretStoreProofs | `TypeCorrect`; for one process `StoreIsExactForOne`, `StaysServedForOne` |
| AnalysesProofs | of RouteConflicts: `ShadowedIsExactHolds`, `LoopsAreExactHolds`, `LoopsNeverEndHolds`; of HealthReport: `HealthTypeCorrect`, `DeadIsExactHolds`, `EveryOutageIsReportedHolds`; of CertSweep: `SweepIsExactHolds`; of ErrorRates: `RatesAreExactHolds` |

**GovernedCalls.** `OpenIntent` (`finish_write`, which takes no lock, finds its own
pending row) could break at a rotation: the check for pending rows and the rename
are two steps, and another process might insert an intent between them. It cannot,
as both happen inside the guarded section and so does insertion. The invariant
that says this is `QuietRotation` (while an actor is about to rename, no row is
pending), which needs `Control` (an actor is in the guarded section exactly if it
holds the lock, and has an intent only in its body and at its end), and
`CallNumbered` (identities of running calls are fresh). `PendingStaysVisible`
follows from `QuietRotation` at the one step that makes an archive, and
`EffectIsAudited` from `OpenIntent`, as a write takes effect only in its body, and
from the fact that rows are never lost: rotation moves the rows of the file,
clean-up moves those of an archive to history. `IInv` is their conjunction.

`LInv` adds what the ledger needs: the rows of the database and the archives
belong to distinct calls, all of them begun, and a running call without an
intent has none. `TokenMatchesRow` follows from the order of the wrapper
(`VerdictAfterBody`, `TokenAfterBody`), and `LateWritesNeverRun` from two facts:
an actor whose finalisation failed has blocked its process, and a write that
began after that is refused. `ResolvedByOwner`, an action property, needs only
`OpenIntent` and that ids are unique in a file. `LedgerImplemented` is the
refinement of WriteAhead, action by action: a rotation, a clean-up, an acquired
guard or a crash is a stutter, since `AllRows` spans the database, the archives
and what was deleted.

**UndoExecutor and CommandLine.** A token that exists tells what its call did
and where (`TokensTell`), a call that replays it does what it says
(`CallsFollowTokens`), and an inverse in the history did
(`InversesFollowTokens`); tokens and effects belong to calls that are past the
step that makes them (`TokensOfPast`, `EffectsOfPast`). `OriginInv` is their
conjunction; it holds for any number of processes. `NamedOriginIsKept` needs in
addition that a config tells where each name pointed: every host that a config, a
call or a token knows for a name is one the name had (`Entries`, `OnTarget`), so
that a name which was given one host only is that host wherever it is resolved,
by a process with an old config as well (`OneHost`). For one operator, the prior value is the current one until
the request (`PriorIsCurrent`), so that the token holds the value its effect
replaced (`TokensHoldPrior`), which is what `UndoRestores` needs.

The commands of CommandLine run the calls of UndoExecutor (`CommandsAreCalls`), so
all of that holds of them. `BookInv` says what each phase of a command knows of
its entry and its call (`CommandsFit`): `Fits` for the row, from the intent to the
answer, `Runs` for the call, and `Told` for the answer before an exit code is made
of it. It needs `AcceptedBeforeRecord`: a call that has not failed was accepted by
its proxy. `UndoLogImplemented` needs in addition that the token of an inverse is
not used up while it runs (`InvertsIsThere`): true of one operator, as nobody else
marks it between the check and the end, and the very thing `undo_twice` refutes of
two.

**CaddyConfig.** The guard reads the config, and so does the call, before the
change is sent; another process may have changed it by then. That the API stays
enabled needs neither reading to be fresh: `GuardStopsHarm` shows that a request
that is let pass does not touch the admin block and does not carry a config that
disables it, whatever config the guard saw, and `ResultHarmless` that such a
request keeps the API enabled in whatever config it meets. `IInv` says that every
call in flight holds a harmless request (`SafeCall`) and every token one that a
tool could send (`SafeToken`; the guard sees it again at the replay). The address
of the listener has no such argument, as whether a change moves it depends on the
config the change meets, and `MCCaddyLockout.cfg` shows it move. The argument
assumes that Caddy was not started with its admin API disabled.

`UndoRestores` is about the exact tree. Lemmas on `InsertAt` and `RemoveAt` show
that removing what was inserted, and inserting what was removed at the same
index, give back the sequence; one lemma per kind of request and place shows that
the recorded inverse leads back. `UndoInv` carries that to the tokens, with the
condition that what a quiet call has read still is so (`Fresh`). An inverse that
restores its prior tree when it is sent is sent unless a guard or the limit on
its size refuses it (`InverseUndoes`), and those two are the exceptions that the
property names.

**BudgetGuard.** `CallCeiling` follows from the counter. The other three are
about threads that overtake each other. `BoundedOverrun` needs a bound on what
is spent by the calls already charged and the threads still in a body
(`Overrun`), for the ceiling is checked at the start of a call and charged at
its end. A thread has room for two calls in it, as an `undo_apply` admitted below
the ceiling may have its inner call admitted below it too (`Room`, `EnterRoom`,
`FinishRoom`). It assumes that no call takes longer than MaxDuration, which the
timeout of a request gives. For the runaway breaker, an entry of the window may
stand behind a younger one, by at most one for each thread that has read its
clock and waits for the lock. `Covered` and `Disorder` say just that, `Tracked`
relates the window to the calls that were admitted, and `WindowInv`, their
conjunction, gives `RunawayBound` and `NoSpuriousTrip`.

**PatternBreaker.** `ServeInv`: unless two threads reloaded at once, a reload is
alone, and what it carries is the content of the file it has the mtime of, up to
its last step; an edit in the middle makes the two mtimes differ. `TripInv`: a
target is disabled until the deadline of its last trip, at least. `CapInv`: the
times kept for a target hold every call armed on it within a day, so that
counting them bounds what is armed; it needs an hour to be no longer than a day.

**DataPlane.** `ReachInv`: the prefix of a connection that no outage misled is
right or unknown (`Truthful`), so both parts of every path taken from it are right
(`Shaped`), whichever thread made the connection or probed.

**SecretStore.** For one process. What a command derives its map from is what the
store holds, at every edit of a migration as at the first, and the file it writes
is one nobody reads until it is renamed (`KnowsStore`): a crash leaves a torn
temporary file and the store as it was. `KeepsLines` says that each line of the
`.env` is in the map of a migration or among the edits it has left, so that the
`.env` is renamed when all of it is in the store. `StaysServedForOne` assumes
`ImportsBack`: a variable is imported under the name it is looked up for. Names with
capitals or `_` are not, and `MCSecretNames` shows what becomes of them.

**The analyses.** Their theorems hold an algorithm against a reference that is
defined over the same data in another way, for data of any size, and so need
inductions. The library's induction theorems take an operator, which the provers
cannot instantiate; the induction is done instead on sets of numbers, by way of
the least counterexample (`Least`, `Upto`), and on the subsets of a finite set
(`OnSubsets`). Each theorem names what it asks of the constants beyond the ASSUMEs of
its model.

*RouteConflicts.* `ShadowedIsExactHolds` assumes `RowsTellAll`, that no path is
exact and every route is on every entry point, which is all that a row of the
analysis can tell, and `SomeHostIsFree`, that a client can ask for a host which no
route names and no wildcard keeps from the route in question. One row that covers
another takes all of its requests (`CoversMeansTakes`); conversely, a request is
made up that only the later route would take, unless the earlier one names a
wildcard (`TakesMeansCovers`). For the loops, the recursive walk is shown to be
iterated rounds (`WalkIsRounds`). `WalkInv` says what is true after n of them: a
walk that goes on has been to n + 1 distinct routes, one that loops is back at one
of them. So a loop that is reported repeats for as long as a client has patience, however
few hops the analysis follows (`LoopsNeverEndHolds`), where redirects name their
targets: then the route that the analysis finds for a target is the one that
serves the client (`OntoIsHop`, under `TargetsAreNamed`); and a walk that is cut has more distinct
redirects behind it than there are, unless more routes redirect than
_MAX_REDIRECT_HOPS (`HopsSuffice` in `LoopsAreExactHolds`). `MCAnalysesCut` shows
both results fail without `RowsTellAll`, and a loop go unreported without
`TargetsAreNamed`.

*HealthReport.* `FleetOK` and `PullOK` give the types on every platform. `Agrees`
says what a running pull holds of the services that stayed as they were, each
field from the moment it is asked for (`RoutesAgree`, `NamesAgree`,
`TotalAgrees`, `UpAgrees`), and that the routes are asked for before the
services: a service deployed between the two is in neither or in the second only.
That order is what `DeadIsExactHolds` rests on. It assumes that rows name their
services (not so on Caddy, `MCHealthCaddyRoutes`), that every server is checked
(`MCHealthUnchecked`) and that no service is cut from the list (`MCAnalysesCut`).
`EveryOutageIsReportedHolds` needs the first two, and that no service has more
than 100 servers (`ServicesAreSmall`), as `MCHealthRanks` shows: then a service
that is out outranks every one that is degraded (`ScoreOfCounts`), so that a page
without it is full of outages (`PageIsFull`). It needs no bound on the rows: what
a service that is listed whole has in its bucket is what it has (`OwnBucket`),
wherever the list of rows is cut.

*CertSweep.* `SweepOK` says that the rows of a sweep and the domains it has left
are those of the inventory in order, and that each row of a certificate that was
not replaced tells what it had left at some moment since the start. The report is
then exact because buckets are monotone (`BucketsInOrder`), a rounding moves an
expiry by one unit at most (`RoundedNear`), and a finite set can be sorted
(`SortExists`). It uses the assumption of CertSweep that the inventory names a
domain once, as the code that collects it sees to.

*ErrorRates.* The counters of a row are those of the requests served on either
platform (`RowsCount`): codes without a request, for which Traefik has no sample,
weigh nothing in a sum (`SumOfPart`). The rest is arithmetic on rounded rates
(`RateReached`, `RateAbove`, `RatesCompare`), for any number of requests. It
assumes that no service is cut before the analysis (`NoServiceIsCut`;
`MCAnalysesCut` shows it needed).

The proof corrected two models. The list of flagged services is sorted by the
rounded rate, so with enough requests a service that is cut can be worse than one
that is shown, by up to a hundredth of a percent; on the few requests of a run no
two rates are that close, and the property used to claim the exact order. And the
sorts are stable, which the models now say, as what is kept of equal rows was
left open.

Only model-checked: the liveness of GovernedCalls (`CallsEnd`), as the prover
has no fairness.

## Not modelled

The doctor, the read tools, the platform table, policy, sanitising and the
registration with the MCP library; why is in the notes of `PROJECT.json`. Of the
analyses: `find_route`, `traffic_stats` and the collection of the TLS domains,
which only select, sort and lay out the rows of one answer. Parsing, formatting,
cryptography, telemetry and rate limits of HTTP are outside every model.

## Plan

1. *Prove.* `BothGenerationsWork` of DataPlane without outages; that a second
   process which only reads undoes none of the results for one operator.
2. *Extend.* GovernedCalls on a system without `flock`, and archives named alike;
   the doctor on a failing secret store; `find_route` against what the proxy does
   with the request.
3. *Compose.* CommandLine over the ledger of GovernedCalls instead of the status
   of a row, with `reconcile_pending` after an undo that crashed.
