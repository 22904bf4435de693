------------------------- MODULE CaddyConfigProofs -------------------------
(***************************************************************************)
(* Proofs about CaddyConfig, for any number of processes and calls and any *)
(* configs that callers send: the admin API of Caddy is never disabled.    *)
(*                                                                         *)
(* The guards read the config before the change is sent, and another       *)
(* process may change it in between.  That a config which disables the     *)
(* admin API is refused does not depend on what they read, and no other    *)
(* request reaches the admin block: so no request in flight is Harmful.    *)
(***************************************************************************)
EXTENDS CaddyConfig, SequenceTheorems, TLAPS

\* A request of a tool, or the inverse of one.
WellFormed(req) ==
  /\ req \in Request
  /\ req.path = RootPath => req.value \in Root
  /\ req.path # RootPath => /\ req.tool # "load"
                            /\ req.path.key # ""
                            /\ req.tool = "set" => req.value \in Items
  /\ req.insert => req.tool = "set" /\ req.path.key = "routes"

\* A request that touches the admin block by its path, or sends a config that
\* disables the admin API.
Harmful(req) ==
  \/ req.path.key = "admin"
  \/ req.path = RootPath /\ (req.tool = "delete" \/ Disabled(req.value))

\* What a call in flight knows of the prior value.
PriorFits(o) ==
  /\ o.existed => o.prior \in IF o.req.path = RootPath THEN Root ELSE Items
  /\ ~o.existed => o.req.tool = "set" /\ o.req.path # RootPath

Flight(o) == /\ o.pc # "idle" => WellFormed(o.req) /\ ~Harmful(o.req)
             /\ o.pc = "send" => PriorFits(o)

\* The calls that may be in flight, and the tokens that may be recorded.
Call == [pc : {"idle", "read", "send"}, n : Nat, req : Request,
         prior : Items \cup Root \cup {Absent}, existed : BOOLEAN,
         inverts : Ids \cup {NoId}, quiet : BOOLEAN]
Token == [status : {"none", "recorded", "applied"}, inverse : Request]
SafeCall == {o \in Call : Flight(o)}
SafeToken == {t \in Token : WellFormed(t.inverse)}

\* The inductive invariant.
IInv == /\ live \in Root
        /\ op \in [Actors -> SafeCall]
        /\ tokens \in [Ids -> SafeToken]
        /\ change \in [Ids -> [before : Root, after : Root, quiet : BOOLEAN]]
        /\ AdminNeverDisabled
----------------------------------------------------------------------------
(* Requests.                                                               *)

LEMMA EmptyIsTree == Empty \in Tree
  BY DEF Empty, Tree

LEMMA RootIsPath == RootPath \in Path /\ RootPath.key = ""
  BY DEF RootPath, Path

LEMMA LoadWellFormed ==
  ASSUME NEW config \in Root
  PROVE  WellFormed(Load(config))
<1>2. QED
  BY RootIsPath DEF Load, WellFormed, Request

LEMMA SetWellFormed ==
  ASSUME NEW path \in Path, path.key # "", NEW value \in Items, NEW insert \in BOOLEAN,
         insert => path.key = "routes"
  PROVE  WellFormed(Set(path, value, insert))
<1>1. path # RootPath
  BY RootIsPath
<1>2. QED
  BY <1>1 DEF Set, WellFormed, Request

LEMMA SetRootWellFormed ==
  ASSUME NEW config \in Root
  PROVE  WellFormed(Set(RootPath, config, FALSE))
<1>2. QED
  BY RootIsPath DEF Set, WellFormed, Request

LEMMA DeleteWellFormed ==
  ASSUME NEW path \in Path, path = RootPath \/ path.key # ""
  PROVE  WellFormed(Delete(path))
  BY DEF Delete, WellFormed, Request, Root

\* Every request that a caller sends is well formed.
LEMMA RequestsWellFormed ==
  ASSUME NEW req \in Requests
  PROVE  WellFormed(req)
<1>1. /\ Admin \in Path /\ Admin.key # ""
      /\ Tls \in Path /\ Tls.key # ""
  BY DEF Admin, Tls, Path
<1>2. ASSUME NEW p \in Elements
      PROVE  p \in Path /\ p.key = "routes"
  <2>1. PICK i \in 1..MaxIndex : p = Route(i)
    BY DEF Elements
  <2>2. i \in Nat
    BY BoundsAssumption
  <2>3. QED
    BY <2>1, <2>2 DEF Route, Path
<1>3. ASSUME NEW p \in {Admin, Tls} \cup Elements, NEW v \in Items
      PROVE  WellFormed(Set(p, v, FALSE))
  BY <1>1, <1>2, SetWellFormed
<1>4. ASSUME NEW p \in Elements, NEW v \in Items
      PROVE  WellFormed(Set(p, v, TRUE))
  BY <1>2, SetWellFormed
<1>5. ASSUME NEW c \in Incoming
      PROVE  WellFormed(Set(RootPath, c, FALSE)) /\ WellFormed(Load(c))
  BY ConfigsAssumption, SetRootWellFormed, LoadWellFormed
<1>6. ASSUME NEW p \in {RootPath, Admin, Tls} \cup Elements
      PROVE  WellFormed(Delete(p))
  BY <1>1, <1>2, RootIsPath, DeleteWellFormed
<1> DEFINE Edits == UNION {{Set(p, v, FALSE) : v \in Items} : p \in {Admin, Tls} \cup Elements}
           Inserts == UNION {{Set(p, v, TRUE) : v \in Items} : p \in Elements}
           Wholes == {Set(RootPath, c, FALSE) : c \in Incoming}
           Deletes == {Delete(p) : p \in {RootPath, Admin, Tls} \cup Elements}
           Loads == {Load(c) : c \in Incoming}
<1>7. Requests = Edits \cup Inserts \cup Wholes \cup Deletes \cup Loads
  BY DEF Requests
<1>8. CASE req \in Edits
  BY <1>3, <1>8
<1>9. CASE req \in Inserts
  BY <1>4, <1>9
<1>10. CASE req \in Wholes \cup Loads
  BY <1>5, <1>10
<1>11. CASE req \in Deletes
  BY <1>6, <1>11
<1> HIDE DEF Edits, Inserts, Wholes, Deletes, Loads
<1>12. QED
  BY <1>7, <1>8, <1>9, <1>10, <1>11

\* What the guard lets pass does no harm, whatever config it has read.
LEMMA GuardStopsHarm ==
  ASSUME NEW req, WellFormed(req), NEW root, ~GuardRefuses(req, root)
  PROVE  ~Harmful(req)
<1>1. req.path.key = "admin" => FALSE
  <2>1. req.tool = "load" => req.path = RootPath
    BY DEF WellFormed
  <2>2. QED
    BY <2>1, RootIsPath DEF GuardRefuses
<1>2. ASSUME req.path = RootPath, req.tool # "delete", Disabled(req.value)
      PROVE  FALSE
  <2>1. TearsDown(root, req.value)
    BY <1>2 DEF Disabled, TearsDown
  <2>2. req.value \notin {Nothing, Empty}
    <3>1. Empty.admin = Absent
      BY DEF Empty
    <3>2. QED
      BY <1>2, <3>1 DEF Disabled
  <2>3. req.tool \in {"set", "load"}
    BY <1>2 DEF WellFormed, Request
  <2>4. QED
    BY <1>2, <2>1, <2>2, <2>3 DEF GuardRefuses
<1>3. QED
  BY <1>1, <1>2 DEF Harmful, GuardRefuses
----------------------------------------------------------------------------
(* What a request does to the tree.                                        *)

LEMMA ArraysStayArrays ==
  ASSUME NEW s \in Seq(Items), NEW v \in Items, NEW i \in Nat
  PROVE  /\ i \in 1..(Len(s) + 1) => InsertAt(s, i, v) \in Seq(Items)
         /\ i \in DOMAIN s => RemoveAt(s, i) \in Seq(Items)
         /\ i \in DOMAIN s => ReplaceAt(s, i, v) \in Seq(Items)
<1>1. ASSUME i \in 1..(Len(s) + 1) PROVE InsertAt(s, i, v) \in Seq(Items)
  <2>1. SubSeq(s, 1, i - 1) \in Seq(Items)
    BY <1>1
  <2>2. SubSeq(s, i, Len(s)) \in Seq(Items)
    BY <1>1
  <2>3. QED
    BY <2>1, <2>2 DEF InsertAt
<1>2. ASSUME i \in DOMAIN s PROVE RemoveAt(s, i) \in Seq(Items)
  <2>1. SubSeq(s, 1, i - 1) \in Seq(Items)
    BY <1>2
  <2>2. SubSeq(s, i + 1, Len(s)) \in Seq(Items)
    BY <1>2
  <2>3. QED
    BY <2>1, <2>2 DEF RemoveAt
<1>3. ASSUME i \in DOMAIN s PROVE ReplaceAt(s, i, v) \in Seq(Items)
  BY <1>3 DEF ReplaceAt
<1>4. QED
  BY <1>1, <1>2, <1>3

\* A value the tree holds at a path other than the admin block.
LEMMA ValueTyped ==
  ASSUME NEW root \in Root, NEW path \in Path, path.key \in {"tls", "routes"},
         Exists(root, path)
  PROVE  Value(root, path) \in Items
<1>2. path # RootPath
  BY RootIsPath
<1>1. root \in Tree
  BY <1>2 DEF Exists, Readable, Root
<1>3. CASE path.key = "tls"
  BY <1>1, <1>2, <1>3 DEF Exists, Value, Tree
<1>4. CASE path.key = "routes"
  <2>1. root.routes \in Seq(Items) /\ path.at \in DOMAIN root.routes
    BY <1>1, <1>2, <1>4 DEF Exists, Readable, Tree
  <2>2. QED
    BY <1>2, <1>4, <2>1 DEF Value
<1>5. QED
  BY <1>3, <1>4

LEMMA RootExists ==
  ASSUME NEW root \in Root
  PROVE  Exists(root, RootPath) /\ Value(root, RootPath) = root
<1>1. Value(root, RootPath) = root
  BY RootIsPath DEF Value
<1>2. QED
  BY <1>1, AbsentAssumption DEF Exists, Readable

\* A request that does no harm makes a config of a config, and does not disable
\* the admin API.
LEMMA ResultHarmless ==
  ASSUME NEW root \in Root, ~Disabled(root),
         NEW req, WellFormed(req), ~Harmful(req),
         NEW existed \in BOOLEAN, Accepts(Method(req, existed), root, req.path)
  PROVE  LET new == Result(Method(req, existed), root, req.path, req.value)
         IN  new \in Root /\ ~Disabled(new)
<1> DEFINE method == Method(req, existed)
           new == Result(method, root, req.path, req.value)
<1>1. CASE req.path = RootPath
  BY <1>1 DEF WellFormed, Harmful, Result
<1>2. CASE req.path # RootPath
  <2>1. /\ req \in Request /\ req.path \in Path /\ req.path.at \in Nat
        /\ req.path.key \in {"tls", "routes"}
        /\ req.tool \in {"set", "delete"}
        /\ req.tool = "set" => req.value \in Items
        /\ req.insert => req.path.key = "routes"
    BY <1>2 DEF WellFormed, Harmful, Request, Path
  <2>2. /\ method \in {"put", "patch", "post", "delete"}
        /\ method # "delete" => req.value \in Items
        /\ method = "put" => req.path.key = "routes"
    BY <2>1 DEF Method
  <2>3. root \in Tree
    BY <1>2, <2>2 DEF Accepts, Exists, Readable, Root
  <2>4. new \in Tree /\ new.admin = root.admin
    <3>1. CASE req.path.key = "tls"
      <4>1. new = [root EXCEPT !.tls = IF method = "delete" THEN Absent ELSE req.value]
        BY <1>2, <3>1 DEF Result
      <4>2. QED
        BY <2>2, <2>3, <4>1 DEF Tree
    <3>2. CASE req.path.key = "routes"
      <4> DEFINE i == req.path.at
                 s == root.routes
                 array == CASE method = "put"    -> InsertAt(s, i, req.value)
                            [] method = "delete" -> RemoveAt(s, i)
                            [] OTHER             -> ReplaceAt(s, i, req.value)
      <4>1. new = [root EXCEPT !.routes = array]
        BY <1>2, <2>3, <3>2 DEF Result, Tree
      <4>2. s \in Seq(Items) /\ i \in Nat
        BY <1>2, <2>1, <2>2, <2>3, <3>2 DEF Accepts, Exists, Readable, Tree
      <4>3. CASE method = "put"
        <5>1. i \in 1..(Len(s) + 1)
          BY <4>3 DEF Accepts
        <5>2. InsertAt(s, i, req.value) \in Seq(Items)
          BY <2>2, <4>2, <4>3, <5>1, ArraysStayArrays
        <5>3. QED
          BY <2>3, <4>1, <4>3, <5>2 DEF Tree
      <4>4. CASE method = "delete"
        <5>1. i \in DOMAIN s
          BY <1>2, <3>2, <4>4 DEF Accepts, Exists, Readable
        <5>2. s[i] \in Items
          BY <4>2, <5>1
        <5>3. RemoveAt(s, i) \in Seq(Items)
          BY <4>2, <5>1, <5>2, ArraysStayArrays
        <5>4. QED
          BY <2>3, <4>1, <4>4, <5>3 DEF Tree
      <4>5. CASE method = "patch"
        <5>1. i \in DOMAIN s
          BY <1>2, <3>2, <4>5 DEF Accepts, Exists, Readable
        <5>2. ReplaceAt(s, i, req.value) \in Seq(Items)
          BY <2>2, <4>2, <4>5, <5>1, ArraysStayArrays
        <5>3. QED
          BY <2>3, <4>1, <4>5, <5>2 DEF Tree
      <4>6. method # "post"
        BY <1>2, <3>2 DEF Accepts
      <4>7. QED
        BY <2>2, <4>3, <4>4, <4>5, <4>6
    <3>3. QED
      BY <2>1, <3>1, <3>2
  <2>5. QED
    BY <2>3, <2>4, NothingAssumption DEF Root, Disabled
<1>3. QED
  BY <1>1, <1>2
----------------------------------------------------------------------------
(* The calls.                                                              *)

LEMMA EmptyLoad == Load(Empty) \in Request /\ WellFormed(Load(Empty))
<1>1. WellFormed(Load(Empty))
  BY EmptyIsTree, LoadWellFormed DEF Root
<1>2. QED
  BY <1>1 DEF WellFormed

LEMMA IdleSafe ==
  ASSUME NEW n \in Nat
  PROVE  Idle(n) \in SafeCall
<1>1. Idle(n) \in Call
  BY EmptyLoad DEF Idle, Call
<1>2. Idle(n).pc = "idle"
  BY DEF Idle
<1>3. Flight(Idle(n))
  BY <1>2 DEF Flight
<1>4. QED
  BY <1>1, <1>3 DEF SafeCall

LEMMA StartSafe ==
  ASSUME NEW n \in Nat, NEW req, WellFormed(req), ~Harmful(req),
         NEW inverts \in Ids \cup {NoId}
  PROVE  [Idle(n) EXCEPT !.pc = "read", !.req = req, !.inverts = inverts] \in SafeCall
<1> DEFINE o == [Idle(n) EXCEPT !.pc = "read", !.req = req, !.inverts = inverts]
<1>1. req \in Request
  BY DEF WellFormed
<1>2. Idle(n) \in Call
  BY IdleSafe DEF SafeCall
<1>3. o \in Call
  BY <1>1, <1>2 DEF Call
<1>4. o.pc = "read" /\ o.req = req
  BY <1>2 DEF Call
<1> HIDE DEF o
<1>5. Flight(o)
  BY <1>4 DEF Flight
<1>6. o \in SafeCall
  BY <1>3, <1>5 DEF SafeCall
<1>7. QED
  BY <1>6 DEF o

\* What the pre-read finds fits the request.
LEMMA ReadFits ==
  ASSUME NEW o \in SafeCall, o.pc = "read", live \in Root,
         ~BodyRefuses(o.req, live)
  PROVE  LET existed == ~o.req.insert /\ Exists(live, o.req.path)
             prior == IF existed THEN Value(live, o.req.path) ELSE Absent
         IN  /\ existed => prior \in IF o.req.path = RootPath THEN Root ELSE Items
             /\ ~existed => o.req.tool = "set" /\ o.req.path # RootPath
<1> DEFINE req == o.req
           existed == ~req.insert /\ Exists(live, req.path)
<1>1. WellFormed(req) /\ ~Harmful(req)
  BY DEF SafeCall, Flight
<1>2. req \in Request /\ req.path \in Path
  BY <1>1 DEF WellFormed, Request
<1>3. CASE req.path = RootPath
  <2>1. ~req.insert
    BY <1>1, <1>3, RootIsPath DEF WellFormed
  <2>2. existed /\ Value(live, req.path) = live
    BY <1>3, <2>1, RootExists
  <2>3. QED
    BY <1>3, <2>2
<1>4. CASE req.path # RootPath
  <2>1. req.path.key \in {"tls", "routes"}
    BY <1>1, <1>2, <1>4 DEF WellFormed, Harmful, Path
  <2>2. existed => Value(live, req.path) \in Items
    BY <1>2, <2>1, ValueTyped
  <2>3. req.tool \in {"set", "delete"}
    BY <1>1, <1>2, <1>4 DEF WellFormed, Request
  <2>4. req.tool = "delete" => existed
    BY <1>1 DEF BodyRefuses, WellFormed
  <2>5. QED
    BY <1>4, <2>2, <2>3, <2>4
<1>5. QED
  BY <1>3, <1>4

LEMMA ReadSafe ==
  ASSUME NEW o \in SafeCall, o.pc = "read", NEW existed \in BOOLEAN, NEW prior,
         existed => prior \in IF o.req.path = RootPath THEN Root ELSE Items,
         ~existed => o.req.tool = "set" /\ o.req.path # RootPath,
         ~existed => prior = Absent
  PROVE  [o EXCEPT !.pc = "send", !.existed = existed, !.prior = prior] \in SafeCall
<1> DEFINE new == [o EXCEPT !.pc = "send", !.existed = existed, !.prior = prior]
<1>1. o \in Call /\ Flight(o)
  BY DEF SafeCall
<1>2. prior \in Items \cup Root \cup {Absent}
  OBVIOUS
<1>3. new \in Call
  BY <1>1, <1>2 DEF Call
<1>4. /\ new.pc = "send" /\ new.req = o.req
      /\ new.existed = existed /\ new.prior = prior
  BY <1>1 DEF Call
<1> HIDE DEF new
<1>5. Flight(new)
  BY <1>1, <1>4 DEF Flight, PriorFits
<1>6. new \in SafeCall
  BY <1>3, <1>5 DEF SafeCall
<1>7. QED
  BY <1>6 DEF new

LEMMA QuietSafe ==
  ASSUME NEW o \in SafeCall, NEW quiet \in BOOLEAN
  PROVE  [o EXCEPT !.quiet = quiet] \in SafeCall
<1> DEFINE new == [o EXCEPT !.quiet = quiet]
<1>1. o \in Call /\ Flight(o)
  BY DEF SafeCall
<1>2. new \in Call
  BY <1>1 DEF Call
<1>3. /\ new.pc = o.pc /\ new.req = o.req
      /\ new.existed = o.existed /\ new.prior = o.prior
  BY <1>1 DEF Call
<1> HIDE DEF new
<1>4. Flight(new)
  BY <1>1, <1>3 DEF Flight, PriorFits
<1>5. new \in SafeCall
  BY <1>2, <1>4 DEF SafeCall
<1>6. QED
  BY <1>5 DEF new

\* The inverse of a call is a request of a tool.
LEMMA UndoWellFormed ==
  ASSUME NEW o \in SafeCall, o.pc = "send"
  PROVE  WellFormed(UndoOf(o.req, o.prior, o.existed))
<1> DEFINE req == o.req
<1>1. o \in Call /\ WellFormed(req) /\ ~Harmful(req) /\ PriorFits(o)
  BY DEF SafeCall, Flight
<1>2. req \in Request /\ req.path \in Path /\ req.tool \in {"set", "delete", "load"}
  BY <1>1 DEF WellFormed, Request
<1>3. CASE req.tool = "load"
  <2>1. o.prior \in Root
    BY <1>1, <1>3 DEF PriorFits, WellFormed
  <2>2. UndoOf(req, o.prior, o.existed) = Load(o.prior)
    BY <1>3 DEF UndoOf
  <2>3. QED
    BY <2>1, <2>2, LoadWellFormed
<1>4. CASE req.tool = "set" /\ ~o.existed
  <2>1. UndoOf(req, o.prior, o.existed) = Delete(req.path)
    BY <1>4 DEF UndoOf
  <2>2. req.path.key # ""
    BY <1>1, <1>4 DEF PriorFits, WellFormed
  <2>3. QED
    BY <1>2, <2>1, <2>2, DeleteWellFormed
<1>5. CASE req.tool # "load" /\ ~(req.tool = "set" /\ ~o.existed)
  <2> DEFINE insert == req.tool = "delete" /\ req.path.key = "routes"
  <2>1. UndoOf(req, o.prior, o.existed) = Set(req.path, o.prior, insert)
    BY <1>5 DEF UndoOf
  <2>2. o.existed
    BY <1>1, <1>2, <1>5 DEF PriorFits
  <2>3. CASE req.path = RootPath
    <3>1. o.prior \in Root
      BY <1>1, <2>2, <2>3 DEF PriorFits
    <3>2. insert = FALSE
      BY <2>3, RootIsPath
    <3>3. QED
      BY <2>1, <2>3, <3>1, <3>2, SetRootWellFormed
  <2>4. CASE req.path # RootPath
    <3>1. o.prior \in Items /\ req.path.key # ""
      BY <1>1, <2>2, <2>4 DEF PriorFits, WellFormed
    <3>2. insert \in BOOLEAN /\ (insert => req.path.key = "routes")
      OBVIOUS
    <3> HIDE DEF insert
    <3>3. QED
      BY <1>2, <2>1, <3>1, <3>2, SetWellFormed
  <2>5. QED
    BY <2>3, <2>4
<1>6. QED
  BY <1>3, <1>4, <1>5
----------------------------------------------------------------------------
(* The steps.                                                              *)

LEMMA InitSafe == Init => IInv
<1> SUFFICES ASSUME Init PROVE IInv
  OBVIOUS
<1>1. live \in Root /\ AdminNeverDisabled
  BY ConfigsAssumption DEF Init, Root, AdminNeverDisabled
<1>2. op \in [Actors -> SafeCall]
  BY IdleSafe DEF Init
<1>3. NoToken \in SafeToken
  BY EmptyLoad DEF NoToken, SafeToken, Token
<1>4. tokens \in [Ids -> SafeToken]
  BY <1>3 DEF Init
<1>5. change \in [Ids -> [before : Root, after : Root, quiet : BOOLEAN]]
  BY DEF Init, Root
<1>6. QED
  BY <1>1, <1>2, <1>4, <1>5 DEF IInv

LEMMA StartStep ==
  ASSUME IInv, NEW a \in Actors, NEW req, WellFormed(req),
         NEW inverts \in Ids \cup {NoId}, Start(a, req, inverts)
  PROVE  IInv'
<1>1. op[a] \in SafeCall /\ op[a].n \in Nat
  BY DEF IInv, SafeCall, Call
<1>2. CASE GuardRefuses(req, live)
  <2>1. Idle(op[a].n + 1) \in SafeCall
    BY <1>1, IdleSafe
  <2>2. op' = [op EXCEPT ![a] = Idle(op[a].n + 1)]
    BY <1>2 DEF Start
  <2>3. op' \in [Actors -> SafeCall]
    BY <2>1, <2>2 DEF IInv
  <2>4. QED
    BY <2>3 DEF IInv, Start, AdminNeverDisabled
<1>3. CASE ~GuardRefuses(req, live)
  <2> DEFINE o == [Idle(op[a].n + 1) EXCEPT !.pc = "read", !.req = req, !.inverts = inverts]
  <2>1. ~Harmful(req)
    BY <1>3, GuardStopsHarm
  <2>2. o \in SafeCall
    <3> DEFINE n == op[a].n + 1
    <3>1. n \in Nat
      BY <1>1
    <3> HIDE DEF n
    <3>2. [Idle(n) EXCEPT !.pc = "read", !.req = req, !.inverts = inverts] \in SafeCall
      BY <2>1, <3>1, StartSafe
    <3>3. QED
      BY <3>2 DEF n
  <2>3. op' = [op EXCEPT ![a] = o]
    BY <1>3 DEF Start
  <2> HIDE DEF o
  <2>4. op' \in [Actors -> SafeCall]
    BY <2>2, <2>3 DEF IInv
  <2>5. QED
    BY <2>4 DEF IInv, Start, AdminNeverDisabled
<1>4. QED
  BY <1>2, <1>3

LEMMA EndStep ==
  ASSUME IInv, NEW a \in Actors, End(a)
  PROVE  op' \in [Actors -> SafeCall]
<1>1. op[a].n \in Nat
  BY DEF IInv, SafeCall, Call
<1>2. Idle(op[a].n) \in SafeCall
  BY <1>1, IdleSafe
<1>3. QED
  BY <1>2 DEF IInv, End

LEMMA ReadStep ==
  ASSUME IInv, NEW a \in Actors, Read(a)
  PROVE  IInv'
<1> DEFINE req == op[a].req
           existed == ~req.insert /\ Exists(live, req.path)
           prior == IF existed THEN Value(live, req.path) ELSE Absent
<1>1. op[a] \in SafeCall /\ op[a].pc = "read"
  BY DEF IInv, Read
<1>2. CASE BodyRefuses(req, live)
  <2>1. End(a)
    BY <1>2 DEF Read
  <2>2. op' \in [Actors -> SafeCall]
    BY <2>1, EndStep
  <2>3. QED
    BY <2>2 DEF IInv, Read, AdminNeverDisabled
<1>3. CASE ~BodyRefuses(req, live)
  <2> DEFINE o == [op[a] EXCEPT !.pc = "send", !.existed = existed, !.prior = prior]
  <2>1. /\ existed \in BOOLEAN
        /\ ~existed => prior = Absent
    OBVIOUS
  <2>2. /\ existed => prior \in IF req.path = RootPath THEN Root ELSE Items
        /\ ~existed => req.tool = "set" /\ req.path # RootPath
    BY <1>1, <1>3, ReadFits DEF IInv
  <2>3. op' = [op EXCEPT ![a].pc = "send", ![a].existed = existed, ![a].prior = prior]
    BY <1>3 DEF Read
  <2> HIDE DEF existed, prior
  <2>4. o \in SafeCall
    BY <1>1, <2>1, <2>2, ReadSafe
  <2>5. op' = [op EXCEPT ![a] = o]
    BY <2>3 DEF IInv
  <2> HIDE DEF o
  <2>6. op' \in [Actors -> SafeCall]
    BY <2>4, <2>5 DEF IInv
  <2>7. QED
    BY <2>6 DEF IInv, Read, AdminNeverDisabled
<1>4. QED
  BY <1>2, <1>3

\* The tokens after a call that took effect.
LEMMA TokensSafe ==
  ASSUME IInv, NEW a \in Actors, Send(a), tokens' # tokens
  PROVE  tokens' \in [Ids -> SafeToken]
<1> DEFINE o == op[a]
           inverse == UndoOf(o.req, o.prior, o.existed)
           fresh == [status |-> "recorded", inverse |-> inverse]
           recorded == IF HasUndo(o.req, o.prior) THEN [tokens EXCEPT ![Id(a)] = fresh]
                                                  ELSE tokens
<1>1. tokens \in [Ids -> SafeToken] /\ o \in SafeCall /\ o.pc = "send"
  BY DEF IInv, Send
<1>2. WellFormed(inverse) /\ inverse \in Request
  BY <1>1, UndoWellFormed DEF WellFormed
<1>3. fresh \in SafeToken
  <2> HIDE DEF inverse
  <2>1. QED
    BY <1>2 DEF SafeToken, Token
<1>4. tokens' = IF o.inverts = NoId THEN recorded
                ELSE [recorded EXCEPT ![o.inverts].status = "applied"]
  BY DEF Send
<1>5. recorded \in [Ids -> SafeToken]
  <2> HIDE DEF fresh
  <2>1. QED
    BY <1>1, <1>3
<1> HIDE DEF recorded
<1>6. ASSUME NEW t \in SafeToken
      PROVE  [t EXCEPT !.status = "applied"] \in SafeToken
  BY DEF SafeToken, Token
<1>7. CASE o.inverts \in Ids
  <2>1. [recorded EXCEPT ![o.inverts].status = "applied"]
          = [recorded EXCEPT ![o.inverts] = [recorded[o.inverts] EXCEPT !.status = "applied"]]
    BY <1>5, <1>7
  <2>2. [recorded[o.inverts] EXCEPT !.status = "applied"] \in SafeToken
    BY <1>5, <1>6, <1>7
  <2>3. QED
    BY <1>4, <1>5, <2>1, <2>2
<1>8. CASE o.inverts = NoId
  BY <1>4, <1>5, <1>8
<1>9. QED
  BY <1>1, <1>7, <1>8 DEF SafeCall, Call

LEMMA SendStep ==
  ASSUME IInv, NEW a \in Actors, Send(a)
  PROVE  IInv'
<1> DEFINE o == op[a]
           req == o.req
           method == Method(req, o.existed)
<1>1. /\ o \in SafeCall /\ o.pc = "send" /\ o.n \in Nat
      /\ o.existed \in BOOLEAN /\ o.quiet \in BOOLEAN
      /\ WellFormed(req) /\ ~Harmful(req)
  BY DEF IInv, Send, SafeCall, Call, Flight
<1>2. CASE Accepts(method, live, req.path) /\ live' = Result(method, live, req.path, req.value)
  <2>1. live' \in Root /\ AdminNeverDisabled'
    BY <1>1, <1>2, ResultHarmless DEF IInv, AdminNeverDisabled
  <2>2. tokens' \in [Ids -> SafeToken]
    BY TokensSafe DEF IInv
  <2>3. change' \in [Ids -> [before : Root, after : Root, quiet : BOOLEAN]]
    <3>1. \/ change' = [change EXCEPT ![Id(a)] =
                          [before |-> live, after |-> live', quiet |-> o.quiet]]
          \/ change' = change
      BY DEF Send
    <3>2. QED
      BY <1>1, <2>1, <3>1 DEF IInv
  <2>4. op' \in [Actors -> SafeCall]
    <3>1. CASE End(a)
      BY <3>1, EndStep
    <3>2. CASE op' = [b \in Actors |-> IF b = a THEN Idle(o.n)
                                       ELSE [op[b] EXCEPT !.quiet = (op[b].pc # "send" /\ @)]]
      <4>1. Idle(o.n) \in SafeCall
        BY <1>1, IdleSafe
      <4>2. ASSUME NEW b \in Actors
            PROVE  [op[b] EXCEPT !.quiet = (op[b].pc # "send" /\ @)] \in SafeCall
        <5> DEFINE quiet == op[b].pc # "send" /\ op[b].quiet
        <5>1. op[b] \in SafeCall
          BY DEF IInv
        <5>2. quiet \in BOOLEAN
          OBVIOUS
        <5> HIDE DEF quiet
        <5>3. [op[b] EXCEPT !.quiet = quiet] \in SafeCall
          BY <5>1, <5>2, QuietSafe
        <5>4. QED
          BY <5>3 DEF quiet
      <4>3. QED
        BY <3>2, <4>1, <4>2
    <3>3. QED
      BY <3>1, <3>2 DEF Send
  <2>5. QED
    BY <2>1, <2>2, <2>3, <2>4 DEF IInv
<1>3. CASE UNCHANGED <<live, tokens, change>> /\ End(a)
  <2>1. op' \in [Actors -> SafeCall]
    BY <1>3, EndStep
  <2>2. QED
    BY <1>3, <2>1 DEF IInv, AdminNeverDisabled
<1>4. QED
  BY <1>2, <1>3 DEF Send

LEMMA NextSafe == IInv /\ [Next]_vars => IInv'
<1> SUFFICES ASSUME IInv, [Next]_vars
             PROVE  IInv'
  OBVIOUS
<1>1. ASSUME NEW a \in Actors, NEW req \in Requests, Start(a, req, NoId)
      PROVE  IInv'
  BY <1>1, RequestsWellFormed, StartStep
<1>2. ASSUME NEW a \in Actors, NEW i \in Ids, StartUndo(a, i)
      PROVE  IInv'
  <2>1. WellFormed(tokens[i].inverse)
    BY DEF IInv, SafeToken
  <2>2. QED
    BY <1>2, <2>1, StartStep DEF StartUndo
<1>3. ASSUME NEW a \in Actors, Read(a)
      PROVE  IInv'
  BY <1>3, ReadStep
<1>4. ASSUME NEW a \in Actors, Send(a)
      PROVE  IInv'
  BY <1>4, SendStep
<1>5. CASE UNCHANGED vars
  BY <1>5 DEF vars, IInv, AdminNeverDisabled
<1>6. QED
  BY <1>1, <1>2, <1>3, <1>4, <1>5 DEF Next

LEMMA InvariantHolds == Spec => []IInv
  BY InitSafe, NextSafe, PTL DEF Spec
----------------------------------------------------------------------------
(* The theorems.                                                           *)

\* In every state the config is one that Caddy can have, every call holds a
\* request that a tool of writes.py sends, and every token of the undo store an
\* inverse that one of them can replay.
THEOREM TypeCorrect == Spec => []TypeOK
<1>1. IInv => TypeOK
  <2>1. SafeCall \subseteq Call /\ SafeToken \subseteq Token
    BY DEF SafeCall, SafeToken
  <2>2. QED
    BY <2>1 DEF IInv, TypeOK, Call, Token
<1>2. QED
  BY <1>1, InvariantHolds, PTL

\* The SelfLockout guards of writes.py, which run before the change is sent and
\* may have read a config that is gone by then, keep the admin API enabled: for
\* any number of processes, writes and replays of undo tokens.
THEOREM AdminStaysEnabled == Spec => []AdminNeverDisabled
<1>1. IInv => AdminNeverDisabled
  BY DEF IInv
<1>2. QED
  BY <1>1, InvariantHolds, PTL
----------------------------------------------------------------------------
(* Exact undo.                                                             *)

\* Run on after, the inverse leads back to before, unless what it puts back is
\* too large or moves or ends the admin listener.
Undoes(inverse, after, before) ==
  LET out == Outcome(inverse, after) IN
  IF out.refused
  THEN \/ TooLarge(inverse.value)
       \/ inverse.path = RootPath /\ TearsDown(after, inverse.value)
  ELSE out.root = before

\* What a call has read still is so.
Fresh(o, root) ==
  /\ o.existed = (~o.req.insert /\ Exists(root, o.req.path))
  /\ o.prior = IF o.existed THEN Value(root, o.req.path) ELSE Absent
  /\ ~BodyRefuses(o.req, root)

\* The token of a quiet call leads back, a quiet call in flight knows the tree,
\* and nobody holds a token under the number of a call that has not ended.
UndoInv ==
  /\ \A i \in Ids : tokens[i].status = "recorded" /\ change[i].quiet =>
       Undoes(tokens[i].inverse, change[i].after, change[i].before)
  /\ \A a \in Actors : op[a].pc = "send" /\ op[a].quiet => Fresh(op[a], live)
  /\ \A i \in Ids : tokens[i].status = "recorded" =>
       i[2] <= op[i[1]].n /\ (i[2] = op[i[1]].n => op[i[1]].pc = "idle")

LEMMA Inserted ==
  ASSUME NEW s \in Seq(Items), NEW v \in Items, NEW i \in 1..(Len(s) + 1)
  PROVE  /\ InsertAt(s, i, v) \in Seq(Items) /\ Len(InsertAt(s, i, v)) = Len(s) + 1
         /\ \A j \in 1..(Len(s) + 1) :
              InsertAt(s, i, v)[j] = IF j < i THEN s[j] ELSE IF j = i THEN v ELSE s[j - 1]
<1> DEFINE x == SubSeq(s, 1, i - 1)
           y == <<v>>
           z == SubSeq(s, i, Len(s))
<1>0. Len(s) \in Nat /\ i \in Nat /\ \A j \in 1..Len(s) : s[j] \in Items
  BY LenProperties, ElementOfSeq
<1>1. /\ x \in Seq(Items) /\ Len(x) = i - 1 /\ \A j \in 1..(i - 1) : x[j] = s[j]
  BY <1>0, SubSeqProperties
<1>2. /\ z \in Seq(Items) /\ Len(z) = Len(s) - i + 1
      /\ \A j \in 1..(Len(s) - i + 1) : z[j] = s[i + j - 1]
  BY <1>0, SubSeqProperties
<1>3. y \in Seq(Items) /\ Len(y) = 1 /\ y[1] = v
  OBVIOUS
<1> HIDE DEF x, y, z
<1>4. /\ x \o y \in Seq(Items) /\ Len(x \o y) = i
      /\ \A j \in 1..i : (x \o y)[j] = IF j < i THEN s[j] ELSE v
  <2>1. /\ x \o y \in Seq(Items) /\ Len(x \o y) = Len(x) + Len(y)
        /\ \A j \in 1..(Len(x) + Len(y)) :
             (x \o y)[j] = IF j <= Len(x) THEN x[j] ELSE y[j - Len(x)]
    BY <1>1, <1>3, ConcatProperties
  <2>2. Len(x) + Len(y) = i
    BY <1>0, <1>1, <1>3
  <2> DEFINE w == x \o y
  <2> HIDE DEF w
  <2>3. ASSUME NEW j \in 1..i PROVE w[j] = IF j < i THEN s[j] ELSE v
    <3>0. \A k \in 1..i : w[k] = IF k <= Len(x) THEN x[k] ELSE y[k - Len(x)]
      BY <2>1, <2>2 DEF w
    <3>1. CASE j < i
      BY <1>0, <1>1, <3>0, <3>1
    <3>2. CASE j = i
      <4>1. j - Len(x) = 1 /\ ~(j <= Len(x))
        BY <1>0, <1>1, <3>2
      <4>2. QED
        BY <1>3, <3>0, <3>2, <4>1
    <3>3. QED
      BY <1>0, <3>1, <3>2
  <2>4. QED
    BY <2>1, <2>2, <2>3 DEF w
<1>5. /\ (x \o y) \o z \in Seq(Items) /\ Len((x \o y) \o z) = Len(s) + 1
      /\ \A j \in 1..(Len(s) + 1) :
           ((x \o y) \o z)[j] = IF j <= i THEN (x \o y)[j] ELSE z[j - i]
  <2> DEFINE w == x \o y
  <2> HIDE DEF w
  <2>0. w \in Seq(Items) /\ Len(w) = i
    BY <1>4 DEF w
  <2>1. /\ w \o z \in Seq(Items) /\ Len(w \o z) = Len(w) + Len(z)
        /\ \A j \in 1..(Len(w) + Len(z)) :
             (w \o z)[j] = IF j <= Len(w) THEN w[j] ELSE z[j - Len(w)]
    BY <1>2, <2>0, ConcatProperties
  <2>2. Len(w) = i /\ Len(w) + Len(z) = Len(s) + 1
    BY <1>0, <1>2, <2>0
  <2>3. QED
    BY <2>1, <2>2 DEF w
<1>6. \A j \in 1..(Len(s) + 1) : j > i => z[j - i] = s[j - 1]
  BY <1>0, <1>2
<1> DEFINE t == (x \o y) \o z
<1>7. InsertAt(s, i, v) = t
  BY DEF InsertAt, x, y, z
<1>8. /\ t \in Seq(Items) /\ Len(t) = Len(s) + 1
      /\ \A j \in 1..(Len(s) + 1) : t[j] = IF j <= i THEN (x \o y)[j] ELSE z[j - i]
  BY <1>5
<1> HIDE DEF t
<1>9. ASSUME NEW j \in 1..(Len(s) + 1)
      PROVE  t[j] = IF j < i THEN s[j] ELSE IF j = i THEN v ELSE s[j - 1]
  <2> DEFINE w == x \o y
  <2>1. \A k \in 1..i : w[k] = IF k < i THEN s[k] ELSE v
    BY <1>4
  <2>2. t[j] = IF j <= i THEN w[j] ELSE z[j - i]
    BY <1>8
  <2> HIDE DEF w
  <2>3. CASE j <= i
    BY <1>0, <2>1, <2>2, <2>3
  <2>4. CASE j > i
    <3>1. ~(j <= i) /\ ~(j < i) /\ j # i
      BY <1>0, <2>4
    <3>2. QED
      BY <1>6, <2>2, <2>4, <3>1
  <2>5. QED
    BY <1>0, <2>3, <2>4
<1>10. QED
  BY <1>7, <1>8, <1>9

LEMMA Removed ==
  ASSUME NEW s \in Seq(Items), NEW i \in 1..Len(s)
  PROVE  /\ RemoveAt(s, i) \in Seq(Items) /\ Len(RemoveAt(s, i)) = Len(s) - 1
         /\ \A j \in 1..(Len(s) - 1) : RemoveAt(s, i)[j] = IF j < i THEN s[j] ELSE s[j + 1]
<1> DEFINE x == SubSeq(s, 1, i - 1)
           z == SubSeq(s, i + 1, Len(s))
<1>0. Len(s) \in Nat /\ i \in Nat /\ \A j \in 1..Len(s) : s[j] \in Items
  BY LenProperties, ElementOfSeq
<1>1. /\ x \in Seq(Items) /\ Len(x) = i - 1 /\ \A j \in 1..(i - 1) : x[j] = s[j]
  BY <1>0, SubSeqProperties
<1>2. /\ z \in Seq(Items) /\ Len(z) = Len(s) - i
      /\ \A j \in 1..(Len(s) - i) : z[j] = s[i + j]
  BY <1>0, SubSeqProperties
<1> HIDE DEF x, z
<1>3. /\ x \o z \in Seq(Items) /\ Len(x \o z) = Len(s) - 1
      /\ \A j \in 1..(Len(s) - 1) : (x \o z)[j] = IF j < i THEN x[j] ELSE z[j - i + 1]
  BY <1>0, <1>1, <1>2, ConcatProperties
<1>4. \A j \in 1..(Len(s) - 1) : j >= i => z[j - i + 1] = s[j + 1]
  BY <1>0, <1>2
<1>5. RemoveAt(s, i) = x \o z
  BY DEF RemoveAt, x, z
<1>6. QED
  BY <1>0, <1>1, <1>3, <1>4, <1>5

\* Inserting and removing, and replacing, are inverse to each other.
LEMMA ArrayInverses ==
  ASSUME NEW s \in Seq(Items), NEW v \in Items, NEW i \in Nat
  PROVE  /\ i \in 1..(Len(s) + 1) =>
              RemoveAt(InsertAt(s, i, v), i) = s /\ i \in DOMAIN InsertAt(s, i, v)
         /\ i \in DOMAIN s => /\ InsertAt(RemoveAt(s, i), i, s[i]) = s
                              /\ i \in 1..(Len(RemoveAt(s, i)) + 1)
                              /\ ReplaceAt(ReplaceAt(s, i, v), i, s[i]) = s
                              /\ i \in DOMAIN ReplaceAt(s, i, v)
                              /\ ReplaceAt(s, i, v)[i] = v
<1>0. Len(s) \in Nat /\ DOMAIN s = 1..Len(s) /\ \A j \in 1..Len(s) : s[j] \in Items
  BY LenProperties, ElementOfSeq
<1>1. ASSUME i \in 1..(Len(s) + 1)
      PROVE  RemoveAt(InsertAt(s, i, v), i) = s /\ i \in DOMAIN InsertAt(s, i, v)
  <2> DEFINE t == InsertAt(s, i, v)
  <2>2. /\ t \in Seq(Items) /\ Len(t) = Len(s) + 1 /\ DOMAIN t = 1..Len(t)
        /\ \A j \in 1..(Len(s) + 1) :
              t[j] = IF j < i THEN s[j] ELSE IF j = i THEN v ELSE s[j - 1]
    <3>1. /\ t \in Seq(Items) /\ Len(t) = Len(s) + 1
          /\ \A j \in 1..(Len(s) + 1) :
                t[j] = IF j < i THEN s[j] ELSE IF j = i THEN v ELSE s[j - 1]
      BY <1>1, Inserted
    <3> HIDE DEF t
    <3>2. DOMAIN t = 1..Len(t)
      BY <3>1, LenProperties
    <3>3. QED
      BY <3>1, <3>2
  <2> HIDE DEF t
  <2>3. i \in 1..Len(t)
    BY <1>1, <2>2
  <2>4. PICK u : u = RemoveAt(t, i)
    OBVIOUS
  <2>5. /\ u \in Seq(Items) /\ Len(u) = Len(s)
        /\ \A j \in 1..Len(s) : u[j] = IF j < i THEN t[j] ELSE t[j + 1]
    <3>1. /\ u \in Seq(Items) /\ Len(u) = Len(t) - 1
          /\ \A j \in 1..(Len(t) - 1) : u[j] = IF j < i THEN t[j] ELSE t[j + 1]
      BY <2>2, <2>3, <2>4, Removed, Zenon
    <3>2. Len(t) - 1 = Len(s)
      BY <1>0, <2>2
    <3>3. QED
      BY <3>1, <3>2
  <2>6. \A j \in 1..Len(s) : u[j] = s[j]
    BY <1>0, <2>2, <2>5
  <2>7. u = s
    BY <2>5, <2>6, SeqEqual
  <2>8. QED
    BY <2>2, <2>3, <2>4, <2>7 DEF t
<1>2. ASSUME i \in DOMAIN s
      PROVE  /\ InsertAt(RemoveAt(s, i), i, s[i]) = s
             /\ i \in 1..(Len(RemoveAt(s, i)) + 1)
  <2>1. PICK t : t = RemoveAt(s, i)
    OBVIOUS
  <2>2. /\ t \in Seq(Items) /\ Len(t) = Len(s) - 1
        /\ \A j \in 1..(Len(s) - 1) : t[j] = IF j < i THEN s[j] ELSE s[j + 1]
    BY <1>0, <1>2, <2>1, Removed
  <2>3. i \in 1..(Len(t) + 1) /\ s[i] \in Items
    BY <1>0, <1>2, <2>2
  <2>4. PICK u : u = InsertAt(t, i, s[i])
    OBVIOUS
  <2>5. /\ u \in Seq(Items) /\ Len(u) = Len(s)
        /\ \A j \in 1..Len(s) :
              u[j] = IF j < i THEN t[j] ELSE IF j = i THEN s[i] ELSE t[j - 1]
    BY <1>0, <2>2, <2>3, <2>4, Inserted
  <2>6. ASSUME NEW j \in 1..Len(s) PROVE u[j] = s[j]
    <3>1. CASE j < i
      <4>1. j \in 1..(Len(s) - 1)
        BY <1>0, <1>2, <3>1
      <4>2. u[j] = t[j] /\ t[j] = s[j]
        BY <2>2, <2>5, <3>1, <4>1
      <4>3. QED
        BY <4>2
    <3>2. CASE j = i
      BY <1>0, <2>2, <2>3, <2>5, <3>2
    <3>3. CASE j > i
      <4>1. j - 1 \in 1..(Len(s) - 1) /\ ~(j - 1 < i) /\ (j - 1) + 1 = j
        BY <1>0, <2>3, <3>3
      <4>2. u[j] = t[j - 1]
        BY <1>0, <2>3, <2>5, <3>3
      <4>3. t[j - 1] = s[(j - 1) + 1]
        BY <2>2, <4>1
      <4>4. QED
        BY <4>1, <4>2, <4>3
    <3>4. QED
      <4>1. j \in Int /\ i \in Int
        BY <1>0
      <4>2. QED
        BY <3>1, <3>2, <3>3, <4>1
  <2>7. u = s
    BY <2>5, <2>6, SeqEqual
  <2>8. QED
    BY <2>1, <2>3, <2>4, <2>7
<1>3. ASSUME i \in DOMAIN s
      PROVE  /\ ReplaceAt(ReplaceAt(s, i, v), i, s[i]) = s
             /\ i \in DOMAIN ReplaceAt(s, i, v) /\ ReplaceAt(s, i, v)[i] = v
  BY <1>0, <1>3, LenProperties DEF ReplaceAt
<1>4. QED
  BY <1>1, <1>2, <1>3

\* The inverse of a whole-config write.
LEMMA RootUndone ==
  ASSUME NEW root \in Root, NEW after \in Root, NEW inverse \in Request,
         inverse.path = RootPath, inverse.value = root, ~inverse.insert,
         inverse.tool \in {"set", "load"},
         inverse.tool = "load" => root \notin {Nothing, Empty}
  PROVE  Undoes(inverse, after, root)
<1> DEFINE method == Method(inverse, ~inverse.insert /\ Exists(after, inverse.path))
<1>1. Exists(after, RootPath) /\ Readable(after, RootPath)
  BY RootExists DEF Exists
<1>2. method \in {"load", "patch"}
  BY <1>1 DEF Method
<1>3. Accepts(method, after, RootPath) /\ Result(method, after, RootPath, root) = root
  BY <1>1, <1>2 DEF Accepts, Result
<1> HIDE DEF method
<1>4. ASSUME ~TooLarge(inverse.value), ~TearsDown(after, inverse.value)
      PROVE  ~Outcome(inverse, after).refused
  <2>1. ~GuardRefuses(inverse, after)
    BY <1>4, RootIsPath DEF GuardRefuses
  <2>2. ~BodyRefuses(inverse, after)
    BY <1>1, <1>4, <2>1 DEF BodyRefuses
  <2>3. QED
    BY <1>3, <2>1, <2>2 DEF Outcome, method
<1>5. Outcome(inverse, after).refused \/ Outcome(inverse, after).root = root
  BY <1>3 DEF Outcome, method
<1>6. QED
  BY <1>4, <1>5 DEF Undoes

\* The inverse of a write below the root is sent, with the method that the tree
\* asks for.
LEMMA PathUndone ==
  ASSUME NEW after \in Tree, NEW before,
         NEW inverse \in Request, inverse.tool # "load",
         inverse.path # RootPath, inverse.path.key \in {"tls", "routes"},
         inverse.tool = "set" /\ ~inverse.insert => Readable(after, inverse.path),
         inverse.tool = "delete" => Exists(after, inverse.path),
         NEW method, method = Method(inverse, ~inverse.insert /\ Exists(after, inverse.path)),
         Accepts(method, after, inverse.path),
         Result(method, after, inverse.path, inverse.value) = before
  PROVE  Undoes(inverse, after, before)
<1>1. ~GuardRefuses(inverse, after)
  BY DEF GuardRefuses
<1>2. CASE TooLarge(inverse.value)
  BY <1>2 DEF Undoes, Outcome
<1>3. CASE ~TooLarge(inverse.value)
  <2>1. ~BodyRefuses(inverse, after)
    BY <1>1, <1>3 DEF BodyRefuses, Request
  <2>2. QED
    BY <1>1, <2>1 DEF Undoes, Outcome
<1>4. QED
  BY <1>2, <1>3

LEMMA SetFields ==
  ASSUME NEW path, NEW value, NEW insert
  PROVE  /\ Set(path, value, insert).tool = "set" /\ Set(path, value, insert).path = path
         /\ Set(path, value, insert).value = value /\ Set(path, value, insert).insert = insert
         /\ Delete(path).tool = "delete" /\ Delete(path).path = path
         /\ Delete(path).insert = FALSE /\ Load(value).path = RootPath
         /\ Load(value).value = value
  BY DEF Set, Delete, Load

\* The tls key: created, replaced or deleted.
LEMMA TlsUndone ==
  ASSUME NEW root \in Tree, NEW path \in Path, path.key = "tls",
         NEW x \in Items \cup {Absent}, NEW inverse \in Request,
         \/ root.tls # Absent /\ inverse = Set(path, root.tls, FALSE)
         \/ root.tls = Absent /\ x # Absent /\ inverse = Delete(path)
  PROVE  Undoes(inverse, [root EXCEPT !.tls = x], root)
<1> DEFINE after == [root EXCEPT !.tls = x]
<1>1. path # RootPath
  BY RootIsPath
<1>2. after \in Tree /\ after.tls = x /\ [after EXCEPT !.tls = root.tls] = root
  BY DEF Tree
<1> HIDE DEF after
<1>3. after # Nothing /\ after["tls"] = x
  BY <1>2, NothingAssumption
<1>4. Readable(after, path) /\ (Exists(after, path) <=> x # Absent)
  BY <1>1, <1>3 DEF Readable, Exists, Value
<1>5. CASE root.tls # Absent /\ inverse = Set(path, root.tls, FALSE)
  <2>1. /\ inverse.tool = "set" /\ inverse.path = path /\ inverse.value = root.tls
        /\ inverse.insert = FALSE
    BY <1>5 DEF Set
  <2> DEFINE method == Method(inverse, ~inverse.insert /\ Exists(after, path))
  <2>2. method = IF x # Absent THEN "patch" ELSE "post"
    BY <1>4, <2>1 DEF Method
  <2> HIDE DEF method
  <2>3. Accepts(method, after, path)
    BY <1>3, <1>4, <2>2 DEF Accepts
  <2>4. Result(method, after, path, root.tls) = root
    BY <1>1, <1>2, <2>2 DEF Result
  <2>5. QED
    BY <1>1, <1>2, <1>4, <2>1, <2>3, <2>4, PathUndone DEF method, after
<1>6. CASE root.tls = Absent /\ x # Absent /\ inverse = Delete(path)
  <2>1. /\ inverse.tool = "delete" /\ inverse.path = path /\ inverse.insert = FALSE
    BY <1>6, SetFields
  <2> DEFINE method == Method(inverse, ~inverse.insert /\ Exists(after, path))
  <2>2. method = "delete"
    BY <2>1 DEF Method
  <2> HIDE DEF method
  <2>3. Accepts(method, after, path)
    BY <1>4, <1>6, <2>2 DEF Accepts
  <2>4. Result(method, after, path, inverse.value) = root
    BY <1>1, <1>2, <1>6, <2>2 DEF Result
  <2>5. QED
    BY <1>1, <1>2, <1>4, <1>6, <2>1, <2>3, <2>4, PathUndone DEF method, after
<1>7. QED
  BY <1>5, <1>6

\* A route: replaced, inserted or deleted.
LEMMA RouteUndone ==
  ASSUME NEW root \in Tree, root.routes \in Seq(Items), NEW path \in Path, path.key = "routes",
         NEW v \in Items, NEW x, NEW inverse \in Request,
         \/ /\ path.at \in DOMAIN root.routes /\ x = ReplaceAt(root.routes, path.at, v)
            /\ inverse = Set(path, root.routes[path.at], FALSE)
         \/ /\ path.at \in 1..(Len(root.routes) + 1) /\ x = InsertAt(root.routes, path.at, v)
            /\ inverse = Delete(path)
         \/ /\ path.at \in DOMAIN root.routes /\ x = RemoveAt(root.routes, path.at)
            /\ inverse = Set(path, root.routes[path.at], TRUE)
  PROVE  Undoes(inverse, [root EXCEPT !.routes = x], root)
<1> DEFINE after == [root EXCEPT !.routes = x]
           s == root.routes
           i == path.at
<1>1. path # RootPath /\ i \in Nat
  BY RootIsPath DEF Path
<1>2. DOMAIN s = 1..Len(s) /\ Len(s) \in Nat /\ \A j \in 1..Len(s) : s[j] \in Items
  BY LenProperties, ElementOfSeq
<1>3. x \in Seq(Items)
  BY <1>1, <1>2, ArraysStayArrays
<1>4. after \in Tree /\ after.routes = x /\ [after EXCEPT !.routes = s] = root
  BY <1>3 DEF Tree
<1>5. x # Absent /\ Absent \notin Items
  BY <1>3, AbsentAssumption
<1> HIDE DEF after, s, i
<1>6. after # Nothing
  BY <1>4, NothingAssumption
<1>7. /\ Readable(after, path) <=> i \in DOMAIN x
      /\ i \in DOMAIN x => Value(after, path) = x[i]
  BY <1>1, <1>4, <1>5, <1>6 DEF Readable, Value, i
<1>8. CASE /\ i \in DOMAIN s /\ x = ReplaceAt(s, i, v)
           /\ inverse = Set(path, s[i], FALSE)
  <2>1. /\ inverse.tool = "set" /\ inverse.path = path /\ inverse.value = s[i]
        /\ inverse.insert = FALSE
    BY <1>8 DEF Set
  <2>2. i \in DOMAIN x /\ x[i] = v /\ ReplaceAt(x, i, s[i]) = s
    BY <1>1, <1>8, ArrayInverses DEF s
  <2>3. Exists(after, path)
    BY <1>5, <1>7, <2>2 DEF Exists
  <2> DEFINE method == Method(inverse, ~inverse.insert /\ Exists(after, path))
  <2>4. method = "patch"
    BY <2>1, <2>3 DEF Method
  <2> HIDE DEF method
  <2>5. Accepts(method, after, path)
    BY <2>3, <2>4 DEF Accepts
  <2>6. Result(method, after, path, s[i]) = root
    BY <1>1, <1>4, <2>2, <2>4 DEF Result, i
  <2>7. QED
    BY <1>1, <1>4, <1>7, <2>1, <2>2, <2>5, <2>6, PathUndone DEF method, after
<1>9. CASE /\ i \in 1..(Len(s) + 1) /\ x = InsertAt(s, i, v)
           /\ inverse = Delete(path)
  <2>1. /\ inverse.tool = "delete" /\ inverse.path = path /\ inverse.insert = FALSE
    BY <1>9, SetFields
  <2>2. i \in DOMAIN x /\ RemoveAt(x, i) = s
    BY <1>1, <1>9, ArrayInverses DEF s
  <2>3. x[i] \in Items
    BY <1>3, <2>2, LenProperties, ElementOfSeq
  <2>4. Exists(after, path)
    BY <1>5, <1>7, <2>2, <2>3 DEF Exists
  <2> DEFINE method == Method(inverse, ~inverse.insert /\ Exists(after, path))
  <2>5. method = "delete"
    BY <2>1 DEF Method
  <2> HIDE DEF method
  <2>6. Accepts(method, after, path)
    BY <2>4, <2>5 DEF Accepts
  <2>7. Result(method, after, path, inverse.value) = root
    BY <1>1, <1>4, <2>2, <2>5 DEF Result, i
  <2>8. QED
    BY <1>1, <1>4, <2>1, <2>4, <2>6, <2>7, PathUndone DEF method, after
<1>10. CASE /\ i \in DOMAIN s /\ x = RemoveAt(s, i)
            /\ inverse = Set(path, s[i], TRUE)
  <2>1. /\ inverse.tool = "set" /\ inverse.path = path /\ inverse.value = s[i]
        /\ inverse.insert = TRUE
    BY <1>10 DEF Set
  <2>2. i \in 1..(Len(x) + 1) /\ InsertAt(x, i, s[i]) = s
    BY <1>1, <1>10, ArrayInverses DEF s
  <2> DEFINE method == Method(inverse, ~inverse.insert /\ Exists(after, path))
  <2>3. method = "put"
    BY <2>1 DEF Method
  <2> HIDE DEF method
  <2>4. Accepts(method, after, path)
    BY <1>4, <1>5, <1>6, <2>2, <2>3 DEF Accepts, i
  <2>5. Result(method, after, path, s[i]) = root
    BY <1>1, <1>4, <2>2, <2>3 DEF Result, i
  <2>6. QED
    BY <1>1, <1>4, <2>1, <2>4, <2>5, PathUndone DEF method, after
<1>11. QED
  BY <1>8, <1>9, <1>10 DEF s, i

\* The heart of the matter: whatever a write has done to the tree it had read,
\* its inverse undoes.
LEMMA InverseUndoes ==
  ASSUME NEW root \in Root, NEW o \in SafeCall, o.pc = "send", Fresh(o, root),
         NEW method, method = Method(o.req, o.existed),
         Accepts(method, root, o.req.path), HasUndo(o.req, o.prior)
  PROVE  Undoes(UndoOf(o.req, o.prior, o.existed),
                Result(method, root, o.req.path, o.req.value), root)
<1> DEFINE req == o.req
           path == o.req.path
           v == o.req.value
           inverse == UndoOf(o.req, o.prior, o.existed)
<1>1. /\ WellFormed(req) /\ ~Harmful(req) /\ req \in Request /\ path \in Path
      /\ req.tool \in {"set", "delete", "load"} /\ req.insert \in BOOLEAN
      /\ path.key \in {"", "admin", "tls", "routes"} /\ path.at \in Nat
      /\ req.insert => req.tool = "set" /\ path.key = "routes"
      /\ path # RootPath => path.key \in {"tls", "routes"} /\ req.tool \in {"set", "delete"}
      /\ path # RootPath /\ req.tool = "set" => v \in Items
      /\ path = RootPath => req.tool # "delete"
  BY DEF SafeCall, Flight, WellFormed, Harmful, Request, Path
<1>2. WellFormed(inverse) /\ inverse \in Request
  BY UndoWellFormed DEF WellFormed
<1>3. /\ o.existed = (~req.insert /\ Exists(root, path))
      /\ o.prior = IF o.existed THEN Value(root, path) ELSE Absent
      /\ req.tool = "set" /\ ~req.insert => Readable(root, path)
      /\ req.tool = "delete" => Exists(root, path)
  BY DEF Fresh, BodyRefuses
<1>4. method = IF req.tool # "set" THEN req.tool ELSE IF req.insert THEN "put"
               ELSE IF o.existed THEN "patch" ELSE "post"
  BY DEF Method
<1>5. inverse = IF req.tool = "load" THEN Load(o.prior)
                ELSE IF req.tool = "set" /\ ~o.existed THEN Delete(path)
                ELSE Set(path, o.prior, req.tool = "delete" /\ path.key = "routes")
  BY <1>1 DEF UndoOf
<1>6. Absent \notin Items
  BY AbsentAssumption
<1> HIDE DEF inverse
<1>7. CASE path = RootPath
  <2>1. o.existed /\ o.prior = root
    BY <1>1, <1>3, <1>7, RootExists, RootIsPath
  <2>2. /\ inverse.path = RootPath /\ inverse.value = root /\ ~inverse.insert
        /\ inverse.tool = IF req.tool = "load" THEN "load" ELSE "set"
    BY <1>1, <1>5, <1>7, <2>1, RootIsPath DEF Set, Load
  <2>3. inverse.tool = "load" => root \notin {Nothing, Empty}
    BY <2>1, <2>2 DEF HasUndo
  <2>4. Result(method, root, path, v) = v /\ v \in Root
    BY <1>1, <1>7 DEF Result, WellFormed, Request
  <2>5. QED
    BY <1>2, <1>7, <2>2, <2>3, <2>4, RootUndone DEF inverse
<1>8. CASE path # RootPath /\ path.key = "tls"
  <2> DEFINE x == IF method = "delete" THEN Absent ELSE v
  <2>1. root # Nothing /\ root \in Tree
    BY <1>1, <1>3, <1>8 DEF Exists, Readable, Root
  <2>2. Readable(root, path) /\ Value(root, path) = root.tls
    BY <1>8, <2>1 DEF Readable, Value, Tree
  <2>3. o.existed <=> root.tls # Absent
    BY <1>1, <1>3, <1>8, <2>2 DEF Exists
  <2>4. Result(method, root, path, v) = [root EXCEPT !.tls = x]
    BY <1>8 DEF Result
  <2>5. x \in Items \cup {Absent}
    BY <1>1, <1>4, <1>8
  <2>6. \/ root.tls # Absent /\ inverse = Set(path, root.tls, FALSE)
        \/ root.tls = Absent /\ x # Absent /\ inverse = Delete(path)
    <3>1. CASE o.existed
      <4>1. inverse = Set(path, root.tls, FALSE)
        BY <1>1, <1>3, <1>5, <1>8, <2>2, <3>1
      <4>2. QED
        BY <2>3, <3>1, <4>1
    <3>2. CASE ~o.existed
      <4>1. req.tool = "set"
        BY <1>1, <1>3, <1>8, <3>2
      <4>2. inverse = Delete(path) /\ x \in Items
        BY <1>1, <1>4, <1>5, <1>8, <3>2, <4>1
      <4>3. QED
        BY <1>6, <2>3, <3>2, <4>2
    <3>3. QED
      BY <3>1, <3>2
  <2> HIDE DEF x
  <2>7. Undoes(inverse, [root EXCEPT !.tls = x], root)
    BY <1>1, <1>2, <1>8, <2>1, <2>5, <2>6, TlsUndone
  <2>8. QED
    BY <2>4, <2>7 DEF inverse
<1>9. CASE path # RootPath /\ path.key = "routes"
  <2> DEFINE s == root.routes
             i == path.at
  <2>1. CASE req.insert
    <3>1. method = "put" /\ ~o.existed /\ req.tool = "set"
      BY <1>1, <1>3, <1>4, <2>1
    <3>2. /\ root \in Tree /\ s \in Seq(Items) /\ i \in 1..(Len(s) + 1)
      BY <1>9, <3>1 DEF Accepts, Root, Tree
    <3>3. inverse = Delete(path) /\ v \in Items
      BY <1>1, <1>5, <1>9, <3>1
    <3>4. Result(method, root, path, v) = [root EXCEPT !.routes = InsertAt(s, i, v)]
      BY <1>9, <3>1, <3>2 DEF Result, Tree
    <3>5. PICK x : x = InsertAt(s, i, v)
      OBVIOUS
    <3>6. Undoes(inverse, [root EXCEPT !.routes = x], root)
      BY <1>1, <1>2, <1>9, <3>2, <3>3, <3>5, RouteUndone
    <3>7. QED
      BY <3>4, <3>5, <3>6 DEF inverse
  <2>2. CASE ~req.insert
    <3>1. /\ root \in Tree /\ s \in Seq(Items) /\ i \in DOMAIN s
          /\ Value(root, path) = s[i] /\ Readable(root, path)
      BY <1>1, <1>3, <1>9, <2>2 DEF Exists, Readable, Value, Root, Tree
    <3>2. s[i] \in Items
      BY <3>1, LenProperties, ElementOfSeq
    <3>3. o.existed /\ o.prior = s[i]
      <4>1. Exists(root, path)
        BY <1>6, <3>1, <3>2 DEF Exists
      <4>2. QED
        BY <1>3, <2>2, <3>1, <4>1
    <3>4. CASE req.tool = "set"
      <4>1. method = "patch" /\ inverse = Set(path, s[i], FALSE) /\ v \in Items
        BY <1>1, <1>4, <1>5, <1>9, <2>2, <3>3, <3>4
      <4>2. Result(method, root, path, v) = [root EXCEPT !.routes = ReplaceAt(s, i, v)]
        BY <1>9, <3>1, <4>1 DEF Result, Tree
      <4>3. PICK x : x = ReplaceAt(s, i, v)
        OBVIOUS
      <4>4. Undoes(inverse, [root EXCEPT !.routes = x], root)
        BY <1>1, <1>2, <1>9, <3>1, <4>1, <4>3, RouteUndone
      <4>5. QED
        BY <4>2, <4>3, <4>4 DEF inverse
    <3>5. CASE req.tool = "delete"
      <4>1. method = "delete" /\ inverse = Set(path, s[i], TRUE)
        BY <1>1, <1>4, <1>5, <1>9, <3>3, <3>5
      <4>2. Result(method, root, path, v) = [root EXCEPT !.routes = RemoveAt(s, i)]
        BY <1>9, <3>1, <4>1 DEF Result, Tree
      <4>3. PICK x : x = RemoveAt(s, i)
        OBVIOUS
      <4>4. Undoes(inverse, [root EXCEPT !.routes = x], root)
        BY <1>1, <1>2, <1>9, <3>1, <3>2, <4>1, <4>3, RouteUndone
      <4>5. QED
        BY <4>2, <4>3, <4>4 DEF inverse
    <3>6. QED
      BY <1>1, <1>9, <3>4, <3>5
  <2>3. QED
    BY <1>1, <2>1, <2>2
<1>10. QED
  BY <1>1, <1>7, <1>8, <1>9

LEMMA StartUndoes ==
  ASSUME IInv, UndoInv, NEW a \in Actors, NEW req, NEW inverts, Start(a, req, inverts)
  PROVE  UndoInv'
<1>1. op \in [Actors -> SafeCall] /\ op[a].n \in Nat /\ op[a].pc = "idle"
  BY DEF IInv, SafeCall, Call, Start
<1> DEFINE new == IF GuardRefuses(req, live) THEN Idle(op[a].n + 1)
                  ELSE [Idle(op[a].n + 1) EXCEPT !.pc = "read", !.req = req,
                                                 !.inverts = inverts]
<1>2. /\ op' = [op EXCEPT ![a] = new] /\ UNCHANGED <<live, tokens, change>>
  BY DEF Start
<1>3. new.pc # "send" /\ new.n = op[a].n + 1
  BY DEF Idle
<1> HIDE DEF new
<1>4. op'[a] = new /\ \A b \in Actors : b # a => op'[b] = op[b]
  BY <1>1, <1>2
<1>5. \A b \in Actors : op'[b].pc = "send" /\ op'[b].quiet => Fresh(op'[b], live')
  BY <1>2, <1>3, <1>4 DEF UndoInv
<1>6. ASSUME NEW i \in Ids, tokens'[i].status = "recorded"
      PROVE  i[2] <= op'[i[1]].n /\ (i[2] = op'[i[1]].n => op'[i[1]].pc = "idle")
  <2>1. i[1] \in Actors /\ i[2] \in Nat
    BY BoundsAssumption DEF Ids
  <2>2. i[2] <= op[i[1]].n /\ (i[2] = op[i[1]].n => op[i[1]].pc = "idle")
    BY <1>2, <1>6 DEF UndoInv
  <2>3. CASE i[1] = a
    BY <1>1, <1>3, <1>4, <2>1, <2>2, <2>3
  <2>4. CASE i[1] # a
    BY <1>4, <2>1, <2>2, <2>4
  <2>5. QED
    BY <2>3, <2>4
<1>7. QED
  BY <1>2, <1>5, <1>6 DEF UndoInv

\* A call that ends without an effect leaves nothing to be undone.
LEMMA EndUndoes ==
  ASSUME IInv, UndoInv, NEW a \in Actors, End(a), op[a].pc # "idle",
         UNCHANGED <<live, tokens, change>>
  PROVE  UndoInv'
<1>1. op \in [Actors -> SafeCall]
  BY DEF IInv
<1>2. Idle(op[a].n).pc = "idle" /\ Idle(op[a].n).n = op[a].n
  BY DEF Idle
<1>3. op'[a] = Idle(op[a].n) /\ \A b \in Actors : b # a => op'[b] = op[b]
  BY <1>1 DEF End
<1>4. \A b \in Actors : op'[b].pc = "send" /\ op'[b].quiet => Fresh(op'[b], live')
  BY <1>2, <1>3 DEF UndoInv
<1>5. ASSUME NEW i \in Ids, tokens'[i].status = "recorded"
      PROVE  i[2] <= op'[i[1]].n /\ (i[2] = op'[i[1]].n => op'[i[1]].pc = "idle")
  <2>1. i[1] \in Actors
    BY DEF Ids
  <2>2. i[2] <= op[i[1]].n /\ (i[2] = op[i[1]].n => op[i[1]].pc = "idle")
    BY <1>5 DEF UndoInv
  <2>3. QED
    BY <1>2, <1>3, <2>1, <2>2
<1>6. QED
  BY <1>4, <1>5 DEF UndoInv

LEMMA ReadUndoes ==
  ASSUME IInv, UndoInv, NEW a \in Actors, Read(a)
  PROVE  UndoInv'
<1> DEFINE req == op[a].req
           existed == ~req.insert /\ Exists(live, req.path)
           prior == IF existed THEN Value(live, req.path) ELSE Absent
           new == [op[a] EXCEPT !.pc = "send", !.existed = existed, !.prior = prior]
<1>1. op \in [Actors -> SafeCall] /\ op[a] \in Call /\ op[a].pc = "read"
  BY DEF IInv, SafeCall, Read
<1>2. CASE BodyRefuses(req, live)
  BY <1>1, <1>2, EndUndoes DEF Read
<1>3. CASE ~BodyRefuses(req, live)
  <2>1. op' = [op EXCEPT ![a] = new] /\ UNCHANGED <<live, tokens, change>>
    BY <1>1, <1>3 DEF Read
  <2>2. /\ new.pc = "send" /\ new.n = op[a].n /\ new.req = req /\ new.existed = existed
        /\ new.prior = prior
    <3> HIDE DEF existed, prior
    <3>1. QED
      BY <1>1 DEF Call
  <2>3. Fresh(new, live)
    <3> HIDE DEF new
    <3>1. QED
      BY <1>3, <2>2 DEF Fresh
  <2> HIDE DEF new
  <2>4. op'[a] = new /\ \A b \in Actors : b # a => op'[b] = op[b]
    BY <1>1, <2>1
  <2>5. \A b \in Actors : op'[b].pc = "send" /\ op'[b].quiet => Fresh(op'[b], live')
    BY <2>1, <2>3, <2>4 DEF UndoInv
  <2>6. ASSUME NEW i \in Ids, tokens'[i].status = "recorded"
        PROVE  i[2] <= op'[i[1]].n /\ (i[2] = op'[i[1]].n => op'[i[1]].pc = "idle")
    <3>1. i[1] \in Actors
      BY DEF Ids
    <3>2. i[2] <= op[i[1]].n /\ (i[2] = op[i[1]].n => op[i[1]].pc = "idle")
      BY <2>1, <2>6 DEF UndoInv
    <3>3. QED
      BY <1>1, <2>2, <2>4, <3>1, <3>2
  <2>7. QED
    BY <2>1, <2>5, <2>6 DEF UndoInv
<1>4. QED
  BY <1>2, <1>3

LEMMA SendUndoes ==
  ASSUME IInv, UndoInv, NEW a \in Actors, Send(a)
  PROVE  UndoInv'
<1> DEFINE o == op[a]
           req == o.req
           method == Method(req, o.existed)
           inverse == UndoOf(req, o.prior, o.existed)
           fresh == [status |-> "recorded", inverse |-> inverse]
           recorded == IF HasUndo(req, o.prior) THEN [tokens EXCEPT ![Id(a)] = fresh]
                                                ELSE tokens
           done == [before |-> live, after |-> live', quiet |-> o.quiet]
<1>1. /\ op \in [Actors -> SafeCall] /\ tokens \in [Ids -> SafeToken]
      /\ DOMAIN change = Ids /\ live \in Root
      /\ o \in SafeCall /\ o.pc = "send" /\ o.n \in Nat /\ o.quiet \in BOOLEAN
  BY DEF IInv, Send, SafeCall, Call
<1>2. CASE UNCHANGED <<live, tokens, change>> /\ End(a)
  BY <1>1, <1>2, EndUndoes
<1>3. CASE /\ Accepts(method, live, req.path)
           /\ live' = Result(method, live, req.path, req.value)
           /\ tokens' = IF o.inverts = NoId THEN recorded
                        ELSE [recorded EXCEPT ![o.inverts].status = "applied"]
           /\ change' = [change EXCEPT ![Id(a)] = done]
           /\ op' = [b \in Actors |-> IF b = a THEN Idle(o.n)
                                      ELSE [op[b] EXCEPT !.quiet = (op[b].pc # "send" /\ @)]]
  <2>1. o.quiet /\ HasUndo(req, o.prior) => Undoes(inverse, live', live)
    <3>1. o.quiet => Fresh(o, live)
      BY <1>1 DEF UndoInv
    <3>2. QED
      BY <1>1, <1>3, <3>1, InverseUndoes
  <2>2. Idle(o.n).pc = "idle" /\ Idle(o.n).n = o.n
    BY DEF Idle
  <2>3. /\ op'[a].pc = "idle" /\ op'[a].n = o.n
        /\ \A b \in Actors : b # a =>
             /\ op'[b].pc = op[b].pc /\ op'[b].n = op[b].n
             /\ op'[b].pc = "send" => ~op'[b].quiet
    <3>1. ASSUME NEW b \in Actors, b # a
          PROVE  /\ op'[b].pc = op[b].pc /\ op'[b].n = op[b].n
                 /\ op'[b].pc = "send" => ~op'[b].quiet
      <4> DEFINE q == op[b].pc # "send" /\ op[b].quiet
      <4>1. op[b] \in Call
        BY <1>1 DEF SafeCall
      <4>2. op'[b] = [op[b] EXCEPT !.quiet = q]
        BY <1>3, <3>1
      <4>3. op[b].pc = "send" => q = FALSE
        OBVIOUS
      <4> HIDE DEF q
      <4>4. /\ op'[b].pc = op[b].pc /\ op'[b].n = op[b].n /\ op'[b].quiet = q
        BY <4>1, <4>2 DEF Call
      <4>5. QED
        BY <4>3, <4>4
    <3>2. QED
      BY <1>3, <2>2, <3>1
  <2>4. \A b \in Actors : op'[b].pc = "send" /\ op'[b].quiet => Fresh(op'[b], live')
    BY <2>3
  <2>5. Id(a)[1] = a /\ Id(a)[2] = o.n
    BY DEF Id
  <2>6. recorded \in [Ids -> SafeToken]
    <3>1. fresh \in SafeToken
      <4>1. WellFormed(inverse) /\ inverse \in Request
        BY <1>1, UndoWellFormed DEF WellFormed
      <4> HIDE DEF inverse
      <4>2. QED
        BY <4>1 DEF SafeToken, Token
    <3> HIDE DEF fresh
    <3>2. QED
      BY <1>1, <3>1
  <2>7. ASSUME NEW i \in Ids, tokens'[i].status = "recorded"
        PROVE  tokens'[i] = recorded[i]
    <3> HIDE DEF recorded
    <3>1. CASE o.inverts = NoId
      BY <1>3, <3>1
    <3>2. CASE o.inverts # NoId
      <4>1. tokens' = [recorded EXCEPT ![o.inverts].status = "applied"]
        BY <1>3, <3>2
      <4>2. i # o.inverts
        <5>1. ASSUME i = o.inverts PROVE FALSE
          <6>1. tokens'[i] = [recorded[i] EXCEPT !.status = "applied"]
            BY <2>6, <4>1, <5>1
          <6>2. recorded[i] \in Token
            BY <2>6 DEF SafeToken
          <6>3. tokens'[i].status = "applied"
            BY <6>1, <6>2 DEF Token
          <6>4. QED
            BY <2>7, <6>3
        <5>2. QED
          BY <5>1
      <4>3. QED
        BY <2>6, <4>1, <4>2
    <3>3. QED
      BY <3>1, <3>2
  <2>8. ASSUME NEW i \in Ids, tokens'[i].status = "recorded", i # Id(a)
        PROVE  /\ tokens'[i] = tokens[i] /\ change'[i] = change[i]
               /\ i[2] <= op'[i[1]].n /\ (i[2] = op'[i[1]].n => op'[i[1]].pc = "idle")
    <3>1. tokens'[i] = tokens[i]
      <4>1. tokens'[i] = recorded[i]
        BY <2>7, <2>8
      <4> HIDE DEF fresh
      <4>2. QED
        BY <1>1, <2>8, <4>1
    <3>2. change'[i] = change[i]
      <4> HIDE DEF done
      <4>1. QED
        BY <1>1, <1>3, <2>8
    <3>3. i[2] <= op[i[1]].n /\ (i[2] = op[i[1]].n => op[i[1]].pc = "idle")
      BY <2>8, <3>1 DEF UndoInv
    <3>4. i[1] \in Actors
      BY DEF Ids
    <3>5. QED
      BY <2>3, <3>1, <3>2, <3>3, <3>4
  <2>9. ASSUME NEW i \in Ids, tokens'[i].status = "recorded", i = Id(a)
        PROVE  /\ tokens'[i] = fresh /\ change'[i] = done /\ HasUndo(req, o.prior)
               /\ i[2] <= op'[i[1]].n /\ (i[2] = op'[i[1]].n => op'[i[1]].pc = "idle")
    <3>1. tokens[i].status # "recorded"
      BY <1>1, <2>5, <2>9 DEF UndoInv
    <3>2. tokens'[i] = recorded[i]
      BY <2>7, <2>9
    <3>3. HasUndo(req, o.prior)
      BY <2>9, <3>1, <3>2
    <3>4. tokens'[i] = fresh
      <4> HIDE DEF fresh
      <4>1. QED
        BY <1>1, <2>9, <3>2, <3>3
    <3>5. change'[i] = done
      <4> HIDE DEF done
      <4>1. QED
        BY <1>1, <1>3, <2>9
    <3>6. QED
      BY <1>1, <2>3, <2>5, <2>9, <3>3, <3>4, <3>5
  <2>10. ASSUME NEW i \in Ids, tokens'[i].status = "recorded"
         PROVE  /\ change'[i].quiet =>
                     Undoes(tokens'[i].inverse, change'[i].after, change'[i].before)
                /\ i[2] <= op'[i[1]].n /\ (i[2] = op'[i[1]].n => op'[i[1]].pc = "idle")
    <3>1. CASE i = Id(a)
      <4>1. tokens'[i].inverse = inverse
        BY <2>9, <2>10, <3>1
      <4>2. /\ change'[i].quiet = o.quiet /\ change'[i].after = live'
            /\ change'[i].before = live
        BY <2>9, <2>10, <3>1
      <4>3. QED
        BY <2>1, <2>9, <2>10, <3>1, <4>1, <4>2
    <3>2. CASE i # Id(a)
      <4>1. change[i].quiet => Undoes(tokens[i].inverse, change[i].after, change[i].before)
        BY <2>8, <2>10, <3>2 DEF UndoInv
      <4>2. QED
        BY <2>8, <2>10, <3>2, <4>1
    <3>3. QED
      BY <3>1, <3>2
  <2>11. QED
    BY <2>4, <2>10 DEF UndoInv, Undoes
<1>4. QED
  BY <1>2, <1>3 DEF Send

LEMMA NextUndoes == IInv /\ UndoInv /\ [Next]_vars => UndoInv'
<1> SUFFICES ASSUME IInv, UndoInv, [Next]_vars
             PROVE  UndoInv'
  OBVIOUS
<1>1. CASE UNCHANGED vars
  BY <1>1 DEF vars, UndoInv
<1>2. QED
  BY <1>1, StartUndoes, ReadUndoes, SendUndoes DEF Next, StartUndo

\* The token of a write leads back to the exact tree before it, unless another
\* process changed the tree between the read and the change, or since, what was
\* there is larger than a write may be (writes.py:47), or putting a whole config
\* back would move or end the admin listener.
THEOREM UndoRestores == Spec => []UndoRestoresTree
<1>1. Init => UndoInv
  BY DEF Init, UndoInv, NoToken, Idle
<1>2. UndoInv => UndoRestoresTree
  BY DEF UndoInv, UndoRestoresTree, Undoable, Undoes
<1>3. QED
  BY <1>1, <1>2, InitSafe, NextSafe, NextUndoes, PTL DEF Spec
=============================================================================
