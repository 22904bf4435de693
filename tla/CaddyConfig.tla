---------------------------- MODULE CaddyConfig ----------------------------
(***************************************************************************)
(* The governed writes of the Caddy config tree: set_config_value,         *)
(* delete_config_path and load_config, the SelfLockout guards in front of  *)
(* them, and the inverses their undo tokens hold.                          *)
(*                                                                         *)
(* An actor is a process that runs one call after another.  A call checks  *)
(* its guard (which the dry run shares), reads the prior subtree, and      *)
(* sends the change.  Caddy applies a change immediately.                  *)
(*                                                                         *)
(* Bound: MaxOps[a] calls of process a.  Abstractions: the tree has the    *)
(* admin block, one array (routes) and one map key (tls); array indexes    *)
(* start at 1; insert is used on array elements; a tree is as large as its *)
(* items.  Responses are not lost and stores do not fail here              *)
(* (UndoExecutor has those).                                               *)
(***************************************************************************)
EXTENDS SequencesExt

CONSTANTS
  Actors,       \* processes
  MaxOps,       \* bound: MaxOps[a] calls of process a
  Items,        \* values of a route and of tls
  Addrs,        \* addresses of the admin listener
  DefaultAddr,  \* where Caddy listens when the config does not say
  BaseUrl,      \* the address in the target's base_url
  Absent,       \* a key the tree does not have
  Nothing,      \* null as a whole config
  Initial,      \* the config Caddy was started with
  Incoming,     \* the whole configs callers send
  MaxIndex,     \* bound: array indexes callers send
  Size,         \* how large an item is as JSON
  MaxSize       \* _MAX_VALUE_BYTES

AdminBlock == [disabled : BOOLEAN, listen : Addrs \cup {Absent}]
Tree == [admin : AdminBlock \cup {Absent}, routes : Seq(Items) \cup {Absent},
         tls : Items \cup {Absent}]
Empty == [admin |-> Absent, routes |-> Absent, tls |-> Absent]
Root == Tree \cup {Nothing}

Disabled(root) == /\ root # Nothing /\ root.admin # Absent
                  /\ root.admin.disabled

ASSUME AddrsAssumption == {DefaultAddr, BaseUrl} \subseteq Addrs
ASSUME BoundsAssumption == MaxOps \in [Actors -> Nat] /\ MaxIndex \in Nat
ASSUME SizeAssumption == Size \in [Items -> Nat] /\ MaxSize \in Nat
ASSUME AbsentAssumption == Absent \notin Items \cup Addrs \cup AdminBlock \cup Root \cup Seq(Items)
ASSUME NothingAssumption == Nothing \notin Items \cup Tree
ASSUME ConfigsAssumption == /\ Initial \in Tree /\ ~Disabled(Initial)
                            /\ Incoming \subseteq Root

VARIABLES
  live,     \* Caddy's running config
  op,       \* op[a]: the call process a is running
  tokens,   \* undo.db: the inverse of each call, and its status
  change    \* history: the config before and after each call that took effect

vars == <<live, op, tokens, change>>

Path == [key : {"", "admin", "tls", "routes"}, at : Nat]
RootPath == [key |-> "", at |-> 0]
Admin == [key |-> "admin", at |-> 0]
Tls == [key |-> "tls", at |-> 0]
Route(i) == [key |-> "routes", at |-> i]

Ids == UNION {{a} \X (1..MaxOps[a]) : a \in Actors}
Request == [tool : {"set", "delete", "load"}, path : Path, value : Items \cup Root,
            insert : BOOLEAN]
Set(path, value, insert) ==
  [tool |-> "set", path |-> path, value |-> value, insert |-> insert]
Delete(path) == [tool |-> "delete", path |-> path, value |-> Nothing, insert |-> FALSE]
Load(config) == [tool |-> "load", path |-> RootPath, value |-> config, insert |-> FALSE]

NoId == <<"", 0>>
NoToken == [status |-> "none", inverse |-> Load(Empty)]
Idle(n) == [pc |-> "idle", n |-> n, req |-> Load(Empty), prior |-> Absent,
            existed |-> FALSE, inverts |-> NoId,
            quiet |-> TRUE]

TypeOK ==
  /\ live \in Root
  /\ op \in [Actors -> [pc : {"idle", "read", "send"}, n : Nat, req : Request,
                        prior : Items \cup Root \cup {Absent}, existed : BOOLEAN,
                        inverts : Ids \cup {NoId},
                        quiet : BOOLEAN]]  \* history: nothing changed since the read
  /\ tokens \in [Ids -> [status : {"none", "recorded", "applied"}, inverse : Request]]
  /\ change \in [Ids -> [before : Root, after : Root, quiet : BOOLEAN]]

Init ==
  /\ live = Initial
  /\ op = [a \in Actors |-> Idle(0)]
  /\ tokens = [i \in Ids |-> NoToken]
  /\ change = [i \in Ids |-> [before |-> Nothing, after |-> Nothing, quiet |-> TRUE]]
----------------------------------------------------------------------------
(* Caddy: what a request does to the tree.                                 *)

\* A path GET answers with a value or 404: not through a null config, and not
\* past the end of an array, which is a 400.
Readable(root, path) ==
  path = RootPath \/ /\ root # Nothing
                     /\ path.key = "routes" => /\ root.routes # Absent
                                               /\ path.at \in DOMAIN root.routes
Value(root, path) ==
  CASE path = RootPath -> root
    [] path.key = "routes" -> root.routes[path.at]
    [] OTHER -> root[path.key]
Exists(root, path) == Readable(root, path) /\ Value(root, path) # Absent

Accepts(method, root, path) ==
  CASE method \in {"patch", "delete"} -> Exists(root, path)
    [] method = "put" -> /\ root # Nothing /\ root.routes # Absent
                         /\ path.at \in 1..(Len(root.routes) + 1)
    [] OTHER -> \/ path = RootPath
                \/ root # Nothing /\ path.key # "routes"

Result(method, root, path, value) ==
  IF path = RootPath THEN value
  ELSE IF path.key = "routes"
  THEN [root EXCEPT !.routes = CASE method = "put"    -> InsertAt(@, path.at, value)
                                 [] method = "delete" -> RemoveAt(@, path.at)
                                 [] OTHER             -> ReplaceAt(@, path.at, value)]
  ELSE [root EXCEPT ![path.key] = IF method = "delete" THEN Absent ELSE value]
----------------------------------------------------------------------------
(* The guards and the bodies of the writes.                                *)

\* _admin_teardown_reason: the incoming config disables the admin API, or moves
\* a listener that both configs name.
ListenOnly(prior, incoming) ==  \* mutant: admin.disabled is not looked at
  /\ incoming # Nothing /\ incoming.admin # Absent
  /\ prior # Nothing /\ prior.admin # Absent
  /\ incoming.admin.listen \notin {Absent, prior.admin.listen}
TearsDown(prior, incoming) ==
  /\ incoming # Nothing /\ incoming.admin # Absent
  /\ \/ incoming.admin.disabled
     \/ /\ prior # Nothing /\ prior.admin # Absent
        /\ incoming.admin.listen \notin {Absent, prior.admin.listen}

\* The SelfLockout that guard_* raises, in front of the dry run and of the write.
GuardRefuses(req, root) ==
  \/ req.tool # "load" /\ req.path.key = "admin"
  \/ req.tool = "set" /\ req.path = RootPath /\ TearsDown(root, req.value)
  \/ req.tool = "delete" /\ req.path = RootPath
  \/ req.tool = "load" /\ req.value \notin {Nothing, Empty} /\ TearsDown(root, req.value)

\* _validate_value_size, of an item or of a whole tree.
SizeOf(value) ==
  LET Of(item) == IF item = Absent THEN 0 ELSE Size[item] IN
  CASE value \in Items -> Size[value]
    [] value = Nothing -> 0
    [] OTHER -> Of(value.tls) + IF value.routes = Absent THEN 0
                                ELSE FoldSeq(LAMBDA item, sum : Of(item) + sum, 0, value.routes)
TooLarge(value) == SizeOf(value) > MaxSize

\* What the write function raises, on the value and on the prior state it reads.
BodyRefuses(req, root) ==
  \/ GuardRefuses(req, root)
  \/ req.tool \in {"set", "load"} /\ TooLarge(req.value)
  \/ req.tool = "set" /\ ~req.insert /\ ~Readable(root, req.path)
  \/ req.tool = "delete" /\ ~Exists(root, req.path)
  \/ req.tool = "load" /\ req.value \in {Nothing, Empty}

Method(req, existed) ==
  IF req.tool # "set" THEN req.tool
  ELSE IF req.insert THEN "put"
  ELSE IF existed THEN "patch" ELSE "post"

\* The undo descriptors: _set_config_undo, _delete_config_undo, _load_config_undo.
NullForMissing(req, prior, existed) ==  \* mutant: a created path is not deleted
  IF req.tool = "load" THEN Load(prior) ELSE Set(req.path, prior, FALSE)
Recreated(req, prior, existed) ==  \* mutant: a deleted element is not inserted
  CASE req.tool = "load" -> Load(prior)
    [] req.tool = "set" /\ ~existed -> Delete(req.path)
    [] OTHER -> Set(req.path, prior, FALSE)
UndoOf(req, prior, existed) ==
  CASE req.tool = "load" -> Load(prior)
    [] req.tool = "set" /\ ~existed -> Delete(req.path)
    [] OTHER -> Set(req.path, prior, req.tool = "delete" /\ req.path.key = "routes")
HasUndo(req, prior) == req.tool = "load" => prior \notin {Nothing, Empty}
----------------------------------------------------------------------------
(* A call: guard, read, send.                                              *)

Id(a) == <<a, op[a].n>>
End(a) == op' = [op EXCEPT ![a] = Idle(op[a].n)]

Start(a, req, inverts) ==
  /\ op[a].pc = "idle" /\ op[a].n < MaxOps[a]
  /\ op' = [op EXCEPT ![a] =
              IF GuardRefuses(req, live) THEN Idle(op[a].n + 1)
              ELSE [Idle(op[a].n + 1) EXCEPT !.pc = "read", !.req = req,
                                             !.inverts = inverts]]
  /\ UNCHANGED <<live, tokens, change>>

\* undo_apply: the inverse goes through its own governed tool.
StartUndo(a, i) ==
  /\ tokens[i].status = "recorded"
  /\ Start(a, tokens[i].inverse, i)

\* The pre-read; an insert does without.
Read(a) ==
  LET req == op[a].req
      existed == ~req.insert /\ Exists(live, req.path)
  IN /\ op[a].pc = "read"
     /\ IF BodyRefuses(req, live) THEN End(a)
        ELSE op' = [op EXCEPT ![a].pc = "send", ![a].existed = existed,
                      ![a].prior = IF existed THEN Value(live, req.path) ELSE Absent]
     /\ UNCHANGED <<live, tokens, change>>

\* The change, the token of the call, and the status of the token it inverts.
Send(a) ==
  LET req == op[a].req
      method == Method(req, op[a].existed)
      recorded == IF HasUndo(req, op[a].prior)
                  THEN [tokens EXCEPT ![Id(a)] =
                          [status |-> "recorded",
                           inverse |-> UndoOf(req, op[a].prior, op[a].existed)]]
                  ELSE tokens
  IN /\ op[a].pc = "send"
     /\ \/ /\ Accepts(method, live, req.path)
           /\ live' = Result(method, live, req.path, req.value)
           /\ tokens' = IF op[a].inverts = NoId THEN recorded
                        ELSE [recorded EXCEPT ![op[a].inverts].status = "applied"]
           /\ change' = [change EXCEPT ![Id(a)] =
                           [before |-> live, after |-> live', quiet |-> op[a].quiet]]
           /\ op' = [b \in Actors |-> IF b = a THEN Idle(op[a].n)
                                      ELSE [op[b] EXCEPT !.quiet = (op[b].pc # "send" /\ @)]]
        \/ /\ ~Accepts(method, live, req.path)
           /\ UNCHANGED <<live, tokens, change>>
           /\ End(a)

Elements == {Route(i) : i \in 1..MaxIndex}
Requests ==
  (UNION {{Set(p, v, FALSE) : v \in Items} : p \in {Admin, Tls} \cup Elements})
    \cup (UNION {{Set(p, v, TRUE) : v \in Items} : p \in Elements})
    \cup {Set(RootPath, c, FALSE) : c \in Incoming}
    \cup {Delete(p) : p \in {RootPath, Admin, Tls} \cup Elements}
    \cup {Load(c) : c \in Incoming}

Next == \E a \in Actors : \/ \E req \in Requests : Start(a, req, NoId)
                          \/ \E i \in Ids : StartUndo(a, i)
                          \/ Read(a)
                          \/ Send(a)

Spec == Init /\ [][Next]_vars
----------------------------------------------------------------------------
(* Properties.                                                             *)

\* No sequence of accepted writes, replays included, ever disables the admin
\* API, the only transport of the tool (writes.py:110).
AdminNeverDisabled == ~Disabled(live)

\* Where Caddy serves its admin API (setup-guide.md:10: "on localhost:2019 by
\* default"; the admin key controls the listener).
Listening(root) ==
  IF root = Nothing \/ root.admin = Absent \/ root.admin.listen = Absent
  THEN DefaultAddr ELSE root.admin.listen

\* ... nor moves it from under base_url (writes.py:25: "it must not be able to
\* cause it").
TransportKept == ~Disabled(live) /\ Listening(live) = BaseUrl

\* What a request would do, run now and alone.
Outcome(req, root) ==
  LET method == Method(req, ~req.insert /\ Exists(root, req.path)) IN
  IF GuardRefuses(req, root) \/ BodyRefuses(req, root) \/ ~Accepts(method, root, req.path)
  THEN [refused |-> TRUE, root |-> root]
  ELSE [refused |-> FALSE, root |-> Result(method, root, req.path, req.value)]

Undoable(i) ==
  tokens[i].status = "recorded" /\ change[i].quiet /\ live = change[i].after

\* Unless another process changed the tree between the read and the change, or
\* since, the token of a write leads back to the exact tree before it: created
\* keys disappear, deleted elements return to their index, whole configs are
\* put back.  Two refusals may stand in the way: what was there before is larger
\* than a write may be (writes.py:47), or putting the whole config back would
\* move or end the admin listener (writes.py:12).
UndoRestoresTree ==
  \A i \in Ids : Undoable(i) =>
    LET inverse == tokens[i].inverse
        out == Outcome(inverse, live)
    IN IF out.refused
       THEN \/ TooLarge(inverse.value)
            \/ inverse.path = RootPath /\ TearsDown(live, inverse.value)
       ELSE out.root = change[i].before

\* The token of a set or a delete can always be replayed (writes.py:205:
\* "capturing the prior subtree for a replayable undo").
SubtreeIsUndoable ==
  \A i \in Ids : Undoable(i) /\ tokens[i].inverse.path # RootPath =>
    ~Outcome(tokens[i].inverse, live).refused

\* ... and so can the token of a load (writes.py:285: "snapshotting the prior
\* config first (undo re-loads it)").
WholeConfigIsUndoable ==
  \A i \in Ids : Undoable(i) /\ tokens[i].inverse.tool = "load" =>
    ~Outcome(tokens[i].inverse, live).refused
=============================================================================
