---------------------------- MODULE UndoExecutor ----------------------------
(***************************************************************************)
(* The reversible writes of HAProxy runtime servers, the undo store and    *)
(* undo_apply, which replays a recorded inverse through its own governed   *)
(* tool.                                                                   *)
(*                                                                         *)
(* An actor is a process (an MCP server, a CLI invocation) that runs one   *)
(* call after another; the processes share undo.db, config.yaml and the    *)
(* proxies.  A write reads the prior value, sends the new one and, for a   *)
(* weight, reads it back; its undo token holds the prior value.            *)
(*                                                                         *)
(* Bounds: MaxOps[a] calls of process a, MaxSaves entries saved by `init`. *)
(* Abstractions: one server of one backend per host; admin states and      *)
(* weights are members of Values; the audit row is the status of the call  *)
(* (GovernedCalls models the ledger); a host is what a base_url reaches,   *)
(* with the platform of its entry, and one that is no HAProxy refuses      *)
(* every request.                                                          *)
(***************************************************************************)
EXTENDS Naturals, Sequences, FiniteSets

CONSTANTS
  Actors,      \* processes
  Names,       \* names of targets
  Hosts,       \* proxies, as a base_url reaches them
  Targets0,    \* the targets of config.yaml at first, in order
  Values,      \* values of an attribute
  MaxOps,      \* bound: MaxOps[a] calls of process a
  MaxSaves,    \* bound: entries that `init` saves
  NoTarget,    \* the call names no target
  NoHost,      \* the call names a target that is not configured
  NoOp,        \* "inverts nothing"
  Faults       \* which failures happen: subset of AllFaults

AllFaults == {"lost", "discard", "store", "crash", "reconfigure"}

\* An entry of config.yaml: a name, and its base_url and platform.
Target == [name : Names, host : Hosts]

ASSUME HostsAssumption == /\ Targets0 \in Seq(Target) /\ Targets0 # <<>>
                          /\ NoTarget \notin Names /\ NoHost \notin Hosts
                          /\ \A i, j \in DOMAIN Targets0 :
                               Targets0[i].name = Targets0[j].name => i = j
ASSUME ValuesAssumption == Values # {}
ASSUME OpsAssumption == /\ MaxOps \in [Actors -> Nat] /\ MaxSaves \in Nat
                        /\ Faults \subseteq AllFaults

VARIABLES
  config,    \* the targets of config.yaml, in order; the first is the default
  saved,     \* history: the entries config.yaml has had, as they were saved
  loaded,    \* loaded[a]: the config the process of a has cached, <<>> if none
  exposes,   \* exposes[h]: the API build of h represents the weight of a server
  live,      \* live[h]: the values of the attributes of the server on h
  op,        \* op[a]: the call process a is running
  tokens,    \* undo.db
  rows,      \* history: the status of each finished call
  accepted,  \* history: the calls answered with 2xx, and the token they invert
  effects    \* history: the changes of the proxies, in order

vars == <<config, saved, loaded, exposes, live, op, tokens, rows, accepted, effects>>

Attrs == {"state", "weight"}
Ids == UNION {{a} \X (1..MaxOps[a]) : a \in Actors}
ASSUME NoOpAssumption == NoOp \notin Ids

Verdicts == {"ok", "error", "unknown"}
Pcs == {"idle", "get", "put", "readback", "record", "finish", "mark"}
ById == Ids \cup {NoOp}

Op == [pc : Pcs, n : Nat, attr : Attrs, value : Values, prior : Values,
       target : Names \cup {NoTarget}, host : Hosts \cup {NoHost}, verdict : Verdicts,
       inverts : ById, named : BOOLEAN]
Token == [status : {"none", "recorded", "applied"}, attr : Attrs, value : Values,
          target : Names \cup {NoTarget}]
Effect == [id : Ids, attr : Attrs, host : Hosts, from : Values, to : Values,
           inverts : ById, named : BOOLEAN]

TypeOK ==
  /\ config \in Seq(Target) /\ saved \in Seq(Target)
  /\ loaded \in [Actors -> Seq(Target)]
  /\ exposes \in [Hosts -> BOOLEAN]
  /\ live \in [Hosts -> [Attrs -> Values]]
  /\ op \in [Actors -> Op]
  /\ tokens \in [Ids -> Token]
  /\ rows \in [Ids -> Verdicts \cup {"none"}]
  /\ accepted \subseteq (Ids \X ById)
  /\ effects \in Seq(Effect)

AnyValue == CHOOSE v \in Values : TRUE
Idle(n) == [pc |-> "idle", n |-> n, attr |-> "state", value |-> AnyValue,
            prior |-> AnyValue, target |-> NoTarget, host |-> NoHost,
            verdict |-> "ok", inverts |-> NoOp, named |-> FALSE]
NoToken == [status |-> "none", attr |-> "state", value |-> AnyValue, target |-> NoTarget]

Init ==
  /\ config = Targets0 /\ saved = Targets0
  /\ loaded = [a \in Actors |-> <<>>]
  /\ exposes \in [Hosts -> BOOLEAN]
  /\ live = [h \in Hosts |-> [t \in Attrs |-> AnyValue]]
  /\ op = [a \in Actors |-> Idle(0)]
  /\ tokens = [i \in Ids |-> NoToken]
  /\ rows = [i \in Ids |-> "none"]
  /\ accepted = {}
  /\ effects = <<>>

Id(a) == <<a, op[a].n>>
At(a, pc) == op[a].pc = pc
Goto(a, pc) == op' = [op EXCEPT ![a].pc = pc]
Conclude(a, verdict) == op' = [op EXCEPT ![a].pc = "finish", ![a].verdict = verdict]
----------------------------------------------------------------------------
(* Starting a call.                                                        *)

\* _get_connection: the config is loaded once per process.
Config(a) == IF loaded[a] = <<>> THEN config ELSE loaded[a]
Load(a) == loaded' = [loaded EXCEPT ![a] = Config(a)]

\* AppConfig.get_target: where a name points, if it is configured.
HostOf(targets, name) ==
  IF \A i \in DOMAIN targets : targets[i].name # name THEN NoHost
  ELSE targets[CHOOSE i \in DOMAIN targets : targets[i].name = name].host

\* ConnectionManager.connect: no target means the first one.
NameOfDefault(a, target) ==  \* mutant: a name is taken for an address
  IF target = NoTarget THEN Config(a)[1].name ELSE HostOf(Config(a), target)
Resolve(a, target) ==
  IF target = NoTarget THEN Config(a)[1].host ELSE HostOf(Config(a), target)

Begin(a, attr, value, target, inverts, named) ==
  /\ At(a, "idle") /\ op[a].n < MaxOps[a]
  /\ Load(a)
  /\ op' = [op EXCEPT ![a] =
              [Idle(op[a].n + 1) EXCEPT !.pc = "get", !.attr = attr, !.value = value,
                 !.target = target, !.host = Resolve(a, target),
                 !.inverts = inverts, !.named = named]]
  /\ UNCHANGED <<config, saved, exposes, live, tokens, rows, accepted, effects>>

\* set_server_state or set_server_weight, past its guard.
StartWrite(a, attr, value, target) == Begin(a, attr, value, target, NoOp, FALSE)

\* The status check of undo_apply, on the record store.get returned.
Appliable(i) == tokens[i].status = "recorded"

\* The target of the replay: the caller's, or the one the original call named.
CallersTarget(i, target) == target  \* mutant: the recorded target is ignored
ReplayTarget(i, target) == IF target # NoTarget THEN target ELSE tokens[i].target

\* undo_apply up to the dispatch of the inverse tool.
StartUndo(a, i, target) ==
  /\ Appliable(i)
  /\ Begin(a, tokens[i].attr, tokens[i].value, ReplayTarget(i, target), i,
           target # NoTarget)
----------------------------------------------------------------------------
(* The body of the write.  A request can be refused, or get no response:   *)
(* connection._request makes a ProxyApiError of both, which tool_errors    *)
(* turns into an error payload; a target that is not configured does not   *)
(* get that far.                                                           *)

\* Reading the prior value.  A build without runtime weights is refused.
Current(a) == live[op[a].host][op[a].attr]
Requested(a) == op[a].value  \* mutant: the prior value is taken from the request
Prior(a) == Current(a)

GetPrior(a) ==
  /\ At(a, "get")
  /\ \/ /\ op[a].host # NoHost
        /\ op[a].attr = "weight" => exposes[op[a].host]
        /\ op' = [op EXCEPT ![a].pc = "put", ![a].prior = Prior(a)]
     \/ Conclude(a, "error")
  /\ UNCHANGED <<config, saved, loaded, exposes, live, tokens, rows, accepted, effects>>

\* The change of the proxy that the request of a makes.
Apply(a) ==
  /\ live' = [live EXCEPT ![op[a].host][op[a].attr] = op[a].value]
  /\ effects' = Append(effects,
       [id |-> Id(a), attr |-> op[a].attr, host |-> op[a].host, from |-> Current(a),
        to |-> op[a].value, inverts |-> op[a].inverts, named |-> op[a].named])

\* After an accepted PUT: a weight is read back, a state is not.
SkipReadBack(a) == Goto(a, "record")  \* mutant: a 2xx is taken for a change
AfterPut(a) == Goto(a, IF op[a].attr = "weight" THEN "readback" ELSE "record")

Put(a) ==
  /\ At(a, "put")
  /\ \/ /\ Apply(a) /\ AfterPut(a)                    \* answered 2xx
        /\ accepted' = accepted \cup {<<Id(a), op[a].inverts>>}
     \/ /\ "discard" \in Faults /\ op[a].attr = "weight"   \* 2xx and no change
        /\ AfterPut(a)
        /\ accepted' = accepted \cup {<<Id(a), op[a].inverts>>}
        /\ UNCHANGED <<live, effects>>
     \/ /\ Conclude(a, "error")                       \* refused, or never sent
        /\ UNCHANGED <<live, effects, accepted>>
     \/ /\ "lost" \in Faults                          \* applied, no response
        /\ Apply(a) /\ Conclude(a, "error")
        /\ UNCHANGED accepted
  /\ UNCHANGED <<config, saved, loaded, exposes, tokens, rows>>

\* The read-back of set_server_weight: an unreadable value is undetermined, and
\* the harness records no inverse for it because no write captures its prior
\* state.
ReadBack(a) ==
  /\ At(a, "readback")
  /\ \/ Current(a) = op[a].value /\ Goto(a, "record")
     \/ Current(a) # op[a].value /\ Conclude(a, "error")
     \/ Conclude(a, "unknown")
  /\ UNCHANGED <<config, saved, loaded, exposes, live, tokens, rows, accepted, effects>>

\* _record_undo of a call that succeeded; the store may fail, silently.
Record(a) ==
  /\ At(a, "record")
  /\ \/ tokens' = [tokens EXCEPT ![Id(a)] =
                     [status |-> "recorded", attr |-> op[a].attr,
                      value |-> op[a].prior, target |-> op[a].target]]
     \/ "store" \in Faults /\ UNCHANGED tokens
  /\ Conclude(a, "ok")
  /\ UNCHANGED <<config, saved, loaded, exposes, live, rows, accepted, effects>>

End(a) == op' = [op EXCEPT ![a] = Idle(op[a].n)]

\* undo_apply marks the token unless the inverse returned an error payload.
MarkAlways(a) == op[a].inverts # NoOp  \* mutant: a failed inverse uses the token up
MayMark(a) == op[a].inverts # NoOp /\ op[a].verdict # "error"

\* _finalize of the write.  When its row cannot be finalised AuditUnavailable
\* reaches the caller, and undo_apply sees an exception instead of a result.
Finish(a) ==
  /\ At(a, "finish")
  /\ \/ /\ rows' = [rows EXCEPT ![Id(a)] = op[a].verdict]
        /\ IF MayMark(a) THEN Goto(a, "mark") ELSE End(a)
     \/ "store" \in Faults /\ End(a) /\ UNCHANGED rows
  /\ UNCHANGED <<config, saved, loaded, exposes, live, tokens, accepted, effects>>

\* UndoStore.mark: an unconditional UPDATE.
Mark(a) ==
  /\ At(a, "mark")
  /\ \/ tokens' = [tokens EXCEPT ![op[a].inverts].status = "applied"]
     \/ "store" \in Faults /\ UNCHANGED tokens
  /\ End(a)
  /\ UNCHANGED <<config, saved, loaded, exposes, live, rows, accepted, effects>>
----------------------------------------------------------------------------
\* The process ends: between two calls, or in the middle of one.
Exit(a) ==
  /\ loaded[a] # <<>>
  /\ At(a, "idle") \/ "crash" \in Faults
  /\ loaded' = [loaded EXCEPT ![a] = <<>>]
  /\ End(a)
  /\ UNCHANGED <<config, saved, exposes, live, tokens, rows, accepted, effects>>

\* A round of `init`.  The entry of an existing name is removed once its overwriting
\* is confirmed, and a platform that is mistyped then starts the round again: the
\* name `gone` stays removed.  What is asked for is appended and saved.
Without(targets, name) ==
  IF \A i \in DOMAIN targets : targets[i].name # name THEN targets
  ELSE LET i == CHOOSE i \in DOMAIN targets : targets[i].name = name
       IN  SubSeq(targets, 1, i - 1) \o SubSeq(targets, i + 1, Len(targets))

SaveTarget(gone, name, host) ==
  LET entry == [name |-> name, host |-> host] IN
  /\ "reconfigure" \in Faults
  /\ Len(saved) < Len(Targets0) + MaxSaves
  /\ config' = Append(Without(Without(config, gone), name), entry)
  /\ saved' = Append(saved, entry)
  /\ UNCHANGED <<loaded, exposes, live, op, tokens, rows, accepted, effects>>

Next ==
  \/ \E a \in Actors :
       \/ \E attr \in Attrs, v \in Values, t \in Names \cup {NoTarget} :
            StartWrite(a, attr, v, t)
       \/ \E i \in Ids, t \in Names \cup {NoTarget} : StartUndo(a, i, t)
       \/ GetPrior(a) \/ Put(a) \/ ReadBack(a) \/ Record(a) \/ Finish(a) \/ Mark(a)
       \/ Exit(a)
  \/ \E gone \in Names \cup {NoTarget}, n \in Names, h \in Hosts : SaveTarget(gone, n, h)

Spec == Init /\ [][Next]_vars
----------------------------------------------------------------------------
(* Properties.                                                             *)

IsInverse(i) == effects[i].inverts # NoOp
EffectsOf(id) == {i \in DOMAIN effects : effects[i].id = id}

\* An inverse puts back exactly what the write it inverts overwrote, on the same
\* attribute (writes.py:376: "capturing the prior weight. Undo restores it").
UndoRestores ==
  \A i \in DOMAIN effects : IsInverse(i) =>
    \A j \in EffectsOf(effects[i].inverts) :
      /\ j < i
      /\ effects[i].attr = effects[j].attr /\ effects[i].to = effects[j].from

\* When a write reports success the proxy has the requested value: an API build
\* that answers 200 and discards the weight is never believed (writes.py:386).
OkMeansInPlace ==
  \A a \in Actors : At(a, "finish") /\ op[a].verdict = "ok" => Current(a) = op[a].value

\* config.yaml has had two hosts under the name.
Repointed(name) ==
  \E i, j \in DOMAIN saved : /\ saved[i].name = name /\ saved[j].name = name
                             /\ saved[i].host # saved[j].host

\* A write that named its target is undone on the host it changed, whatever the
\* default has become and whatever other names have been overwritten or lost,
\* unless the caller of undo_apply names another target (tools/undo.py:90).  Only
\* `init` giving the name itself another base_url stands in the way.
NamedOriginIsKept ==
  \A i \in DOMAIN effects : IsInverse(i) /\ ~effects[i].named =>
    \A j \in EffectsOf(effects[i].inverts) :
      LET name == tokens[effects[i].inverts].target IN
      name # NoTarget /\ ~Repointed(name) => effects[i].host = effects[j].host

\* The same of every write (tools/undo.py:91: "The target the ORIGINAL write
\* ran against").
UndoHitsOrigin ==
  \A i \in DOMAIN effects : IsInverse(i) /\ ~effects[i].named =>
    \A j \in EffectsOf(effects[i].inverts) : effects[i].host = effects[j].host

\* The inverse of a token takes effect at most once (tools/undo.py:124: "A token
\* can only be applied once").
TokenOnce ==
  \A i, j \in DOMAIN effects :
    IsInverse(i) /\ effects[i].inverts = effects[j].inverts => i = j

\* A write recorded as "error" changed nothing (decorators.py:362: "definite
\* failure - no change happened").
ErrorMeansNoEffect == \A id \in Ids : rows[id] = "error" => EffectsOf(id) = {}
=============================================================================
