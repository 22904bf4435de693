-------------------------- MODULE CommandLineProofs --------------------------
(***************************************************************************)
(* Proofs about UndoExecutor and about CommandLine, which extends it, for  *)
(* any number of processes, commands, calls, targets, values and budgets.  *)
(*                                                                         *)
(* The first part is about the calls, with any of the failures: where an   *)
(* inverse runs, and for one operator also what it puts back.  The second  *)
(* is about the commands that run these calls: the exit code of a command  *)
(* agrees with its row and the proxy; and, for one operator, an answer of  *)
(* undo_apply tells what became of the token, and the undo store           *)
(* implements UndoLog.                                                     *)
(***************************************************************************)
EXTENDS CommandLine, SequenceTheorems, TLAPS

----------------------------------------------------------------------------
(* UndoExecutor.  Types.                                                   *)

\* The entries of config.yaml and of its cached copies have all been saved once.
Entries(s) == {s[k] : k \in DOMAIN s}

\* A call that has read the prior value reaches a proxy.
Reaches(o) == o.pc \in {"put", "readback", "record"} => o.host \in Hosts

\* The default target is there, and a call is one of those that MaxOps admits.
Numbered ==
  /\ config # <<>>
  /\ config \in Seq(Entries(saved)) /\ loaded \in [Actors -> Seq(Entries(saved))]
  /\ \A a \in Actors : /\ op[a].n <= MaxOps[a]
                       /\ op[a].pc # "idle" => op[a].n >= 1
                       /\ Reaches(op[a])

TypeInv == TypeOK /\ Numbered

LEMMA IdParts ==
  ASSUME NEW id \in Ids
  PROVE  /\ id[1] \in Actors /\ id[2] \in Nat /\ id[2] \in 1..MaxOps[id[1]]
         /\ id = <<id[1], id[2]>>
BY OpsAssumption DEF Ids

LEMMA OpType ==
  ASSUME TypeInv, NEW a \in Actors
  PROVE  /\ op \in [Actors -> Op] /\ op[a] \in Op
         /\ op[a].pc \in Pcs /\ op[a].n \in Nat /\ op[a].attr \in Attrs
         /\ op[a].value \in Values /\ op[a].prior \in Values
         /\ op[a].target \in Names \cup {NoTarget} /\ op[a].host \in Hosts \cup {NoHost}
         /\ op[a].pc \in {"put", "readback", "record"} => op[a].host \in Hosts
         /\ op[a].verdict \in Verdicts /\ op[a].inverts \in ById
         /\ op[a].named \in BOOLEAN
         /\ op[a].pc # "idle" => Id(a) \in Ids
         /\ Id(a)[1] = a /\ Id(a)[2] = op[a].n
<1>1. op \in [Actors -> Op] /\ op[a] \in Op
  BY DEF TypeInv, TypeOK
<1>2. op[a].n \in Nat /\ MaxOps[a] \in Nat
  BY <1>1, OpsAssumption DEF Op
<1>3. ASSUME op[a].pc # "idle" PROVE Id(a) \in Ids
  <2>1. op[a].n \in 1..MaxOps[a]
    BY <1>2, <1>3 DEF TypeInv, Numbered
  <2>2. QED
    BY <2>1 DEF Id, Ids
<1>4. op[a].pc \in {"put", "readback", "record"} => op[a].host \in Hosts
  BY DEF TypeInv, Numbered, Reaches
<1>5. QED
  BY <1>1, <1>3, <1>4 DEF Op, Id

LEMMA IdleType ==
  ASSUME NEW n \in Nat
  PROVE  Idle(n) \in Op /\ Idle(n).pc = "idle" /\ Idle(n).n = n
<1>1. AnyValue \in Values
  BY ValuesAssumption DEF AnyValue
<1>2. QED
  BY <1>1 DEF Idle, Op, Pcs, Attrs, Verdicts, ById

\* The call that Begin starts.
Begun(n, attr, value, target, host, inverts, named) ==
  [Idle(n) EXCEPT !.pc = "get", !.attr = attr, !.value = value, !.target = target,
                  !.host = host, !.inverts = inverts, !.named = named]

LEMMA BegunType ==
  ASSUME NEW n \in Nat, NEW attr \in Attrs, NEW value \in Values,
         NEW target \in Names \cup {NoTarget}, NEW host \in Hosts \cup {NoHost},
         NEW inverts \in ById,
         NEW named \in BOOLEAN
  PROVE  LET new == Begun(n, attr, value, target, host, inverts, named) IN
         /\ new \in Op /\ new.pc = "get" /\ new.n = n /\ new.attr = attr
         /\ new.value = value /\ new.target = target /\ new.host = host
         /\ new.inverts = inverts /\ new.named = named
<1>1. PICK idle : idle = Idle(n)
  OBVIOUS
<1>2. idle \in Op /\ idle.n = n
  BY <1>1, IdleType
<1> DEFINE new == [idle EXCEPT !.pc = "get", !.attr = attr, !.value = value,
                     !.target = target, !.host = host, !.inverts = inverts, !.named = named]
<1>3. /\ new \in Op /\ new.pc = "get" /\ new.n = n /\ new.attr = attr
      /\ new.value = value /\ new.target = target /\ new.host = host
      /\ new.inverts = inverts /\ new.named = named
  BY <1>2 DEF Op, Pcs
<1> HIDE DEF new
<1>4. Begun(n, attr, value, target, host, inverts, named) = new
  BY <1>1 DEF Begun, new
<1>5. QED
  BY <1>3, <1>4

LEMMA SavedTargets ==
  ASSUME TypeInv
  PROVE  /\ Entries(saved) \subseteq Target /\ Seq(Entries(saved)) \subseteq Seq(Target)
         /\ [Actors -> Seq(Entries(saved))] \subseteq [Actors -> Seq(Target)]
<1>1. saved \in Seq(Target)
  BY DEF TypeInv, TypeOK
<1>2. \A k \in DOMAIN saved : saved[k] \in Target
  BY <1>1, LenProperties, ElementOfSeq
<1>3. Entries(saved) \subseteq Target
  BY <1>2 DEF Entries
<1>4. Seq(Entries(saved)) \subseteq Seq(Target)
  BY <1>3, SeqMonotonic
<1>5. QED
  BY <1>3, <1>4

\* A step that only moves the call of a keeps its type, if the call does.
LEMMA MoveType ==
  ASSUME TypeInv, NEW a \in Actors, NEW new \in Op, op' = [op EXCEPT ![a] = new],
         new.n <= MaxOps[a], new.pc # "idle" => new.n >= 1, Reaches(new),
         UNCHANGED <<config, saved, exposes>>, loaded' \in [Actors -> Seq(Entries(saved))],
         live' \in [Hosts -> [Attrs -> Values]], tokens' \in [Ids -> Token],
         rows' \in [Ids -> Verdicts \cup {"none"}], accepted' \subseteq (Ids \X ById),
         effects' \in Seq(Effect)
  PROVE  TypeInv'
<1>1. /\ op' \in [Actors -> Op] /\ op'[a] = new
      /\ \A b \in Actors : b # a => op'[b] = op[b]
  BY DEF TypeInv, TypeOK
<1>2. loaded' \in [Actors -> Seq(Target)]
  BY SavedTargets
<1>3. TypeOK'
  BY <1>1, <1>2 DEF TypeInv, TypeOK
<1>4. Numbered'
  BY <1>1 DEF TypeInv, Numbered
<1>5. QED
  BY <1>3, <1>4 DEF TypeInv

\* Everything but the call and what it changes.
LEMMA StateType ==
  ASSUME TypeInv
  PROVE  /\ config \in Seq(Entries(saved)) /\ config # <<>> /\ loaded \in [Actors -> Seq(Entries(saved))]
         /\ live \in [Hosts -> [Attrs -> Values]] /\ tokens \in [Ids -> Token]
         /\ rows \in [Ids -> Verdicts \cup {"none"}] /\ accepted \subseteq (Ids \X ById)
         /\ effects \in Seq(Effect) /\ MaxOps \in [Actors -> Nat]
  BY OpsAssumption DEF TypeInv, TypeOK, Numbered

\* The steps of a call after its start: it stays the same call, or ends.
Later(a, new) ==
  \/ new = Idle(op[a].n)
  \/ /\ new \in Op /\ new.n = op[a].n /\ new.attr = op[a].attr /\ new.value = op[a].value
     /\ new.target = op[a].target /\ new.host = op[a].host /\ new.inverts = op[a].inverts
     /\ new.named = op[a].named /\ op[a].pc # "idle" /\ Reaches(new)

LEMMA LaterType ==
  ASSUME TypeInv, NEW a \in Actors, NEW new, Later(a, new)
  PROVE  /\ new \in Op /\ new.n = op[a].n /\ new.n <= MaxOps[a]
         /\ (new.pc # "idle" => new.n >= 1) /\ Reaches(new)
<1>1. op[a].n \in Nat /\ op[a].n <= MaxOps[a] /\ (op[a].pc # "idle" => op[a].n >= 1)
  BY OpType DEF TypeInv, Numbered
<1>2. CASE new = Idle(op[a].n)
  BY <1>1, <1>2, IdleType DEF Reaches
<1>3. CASE new # Idle(op[a].n)
  BY <1>1, <1>3 DEF Later
<1>4. QED
  BY <1>2, <1>3

\* A call that has moved on.
Moved(o, pc, verdict, prior) == [o EXCEPT !.pc = pc, !.verdict = verdict, !.prior = prior]

LEMMA GotoLater ==
  ASSUME TypeInv, NEW a \in Actors, op[a].pc # "idle", NEW pc \in Pcs, NEW verdict \in Verdicts,
         NEW prior \in Values, pc \in {"put", "readback", "record"} => op[a].host \in Hosts
  PROVE  LET new == Moved(op[a], pc, verdict, prior) IN
         Later(a, new) /\ new.pc = pc /\ new.verdict = verdict /\ new.prior = prior
<1>1. op[a] \in Op
  BY OpType
<1> DEFINE new == Moved(op[a], pc, verdict, prior)
<1>2. /\ new \in Op /\ new.pc = pc /\ new.verdict = verdict /\ new.prior = prior
      /\ new.n = op[a].n /\ new.attr = op[a].attr /\ new.value = op[a].value
      /\ new.target = op[a].target /\ new.host = op[a].host
      /\ new.inverts = op[a].inverts /\ new.named = op[a].named
  BY <1>1 DEF Op, Moved
<1> HIDE DEF new
<1>3. Later(a, new)
  BY <1>2 DEF Later, Reaches
<1>4. QED
  BY <1>2, <1>3 DEF new

LEMMA EndLater == ASSUME NEW a \in Actors PROVE Later(a, Idle(op[a].n))
  BY DEF Later

\* What the steps of a call, other than its start, do to the call.
Steps(a, new, pcs) == Later(a, new) /\ op' = [op EXCEPT ![a] = new] /\ new.pc \in pcs

LEMMA GotoSteps ==
  ASSUME TypeInv, NEW a \in Actors, op[a].pc # "idle"
  PROVE  /\ \A pc \in Pcs :
              Goto(a, pc) /\ (pc \in {"put", "readback", "record"} => op[a].host \in Hosts) =>
              \E new : Steps(a, new, {pc}) /\ new.prior = op[a].prior
         /\ \A verdict \in Verdicts : Conclude(a, verdict) =>
              \E new : Steps(a, new, {"finish"}) /\ new.prior = op[a].prior
                                                 /\ new.verdict = verdict
         /\ End(a) => Steps(a, Idle(op[a].n), {"idle"})
<1>0. op \in [Actors -> Op] /\ op[a] \in Op /\ op[a].n \in Nat
  BY OpType
<1>1. ASSUME NEW pc \in Pcs, Goto(a, pc),
             pc \in {"put", "readback", "record"} => op[a].host \in Hosts
      PROVE  \E new : Steps(a, new, {pc}) /\ new.prior = op[a].prior
  <2>0. PICK verdict \in Verdicts, prior \in Values :
          verdict = op[a].verdict /\ prior = op[a].prior
    BY OpType
  <2> DEFINE new == Moved(op[a], pc, verdict, prior)
  <2>1. Later(a, new) /\ new.pc = pc /\ new.prior = op[a].prior
    BY <1>1, <2>0, GotoLater
  <2>2. new = [op[a] EXCEPT !.pc = pc]
    BY <1>0, <2>0 DEF Op, Moved
  <2>3. op' = [op EXCEPT ![a] = [op[a] EXCEPT !.pc = pc]]
    BY <1>0, <1>1 DEF Goto
  <2> HIDE DEF new
  <2>4. QED
    BY <2>1, <2>2, <2>3 DEF Steps
<1>2. ASSUME NEW verdict \in Verdicts, Conclude(a, verdict)
      PROVE  \E new : Steps(a, new, {"finish"}) /\ new.prior = op[a].prior
                                                /\ new.verdict = verdict
  <2>0. PICK prior \in Values, pc \in Pcs : prior = op[a].prior /\ pc = "finish"
    BY OpType DEF Pcs
  <2> DEFINE new == Moved(op[a], pc, verdict, prior)
  <2>1. Later(a, new) /\ new.pc = "finish" /\ new.verdict = verdict /\ new.prior = op[a].prior
    BY <2>0, GotoLater
  <2>2. new = [op[a] EXCEPT !.pc = "finish", !.verdict = verdict]
    BY <1>0, <2>0 DEF Op, Moved
  <2>3. op' = [op EXCEPT ![a] = [op[a] EXCEPT !.pc = "finish", !.verdict = verdict]]
    BY <1>0, <1>2 DEF Conclude
  <2> HIDE DEF new
  <2>4. QED
    BY <2>1, <2>2, <2>3 DEF Steps
<1>3. End(a) => Steps(a, Idle(op[a].n), {"idle"})
  BY <1>0, EndLater, IdleType DEF End, Steps
<1>4. QED
  BY <1>1, <1>2, <1>3
----------------------------------------------------------------------------
(* What the steps of a call do.                                            *)

LEMMA GetPriorCases ==
  ASSUME TypeInv, NEW a \in Actors, GetPrior(a)
  PROVE  /\ op[a].pc = "get"
         /\ \E new : /\ Steps(a, new, {"put", "finish"})
                     /\ new.pc = "put" => new.prior = Current(a)
                     /\ new.pc = "finish" => new.verdict = "error"
         /\ UNCHANGED <<config, saved, loaded, exposes, live, tokens, rows, accepted, effects>>
<1>1. /\ op[a].pc = "get"
      /\ UNCHANGED <<config, saved, loaded, exposes, live, tokens, rows, accepted, effects>>
      /\ op \in [Actors -> Op] /\ op[a] \in Op
  BY OpType DEF GetPrior, At
<1>2. CASE /\ op[a].host # NoHost
            /\ op' = [op EXCEPT ![a].pc = "put", ![a].prior = Prior(a)]
  <2>0. op[a].host \in Hosts
    BY <1>2, OpType
  <2>1. Current(a) \in Values
    BY <2>0, OpType, StateType DEF Current
  <2>2. PICK verdict \in Verdicts, prior \in Values, pc \in Pcs :
          verdict = op[a].verdict /\ prior = Current(a) /\ pc = "put"
    BY <2>1, OpType DEF Pcs
  <2> DEFINE new == Moved(op[a], pc, verdict, prior)
  <2>3. Later(a, new) /\ new.pc = "put" /\ new.prior = Current(a)
    BY <1>1, <2>0, <2>2, GotoLater
  <2>4. new = [op[a] EXCEPT !.pc = "put", !.prior = Current(a)]
    BY <1>1, <2>2 DEF Op, Moved
  <2>5. op' = [op EXCEPT ![a] = [op[a] EXCEPT !.pc = "put", !.prior = Current(a)]]
    BY <1>1, <1>2 DEF Prior
  <2> HIDE DEF new
  <2>6. QED
    BY <1>1, <2>3, <2>4, <2>5 DEF Steps
<1>3. CASE Conclude(a, "error")
  <2>1. "error" \in Verdicts
    BY DEF Verdicts
  <2>2. PICK new : Steps(a, new, {"finish"}) /\ new.verdict = "error"
    BY <1>1, <1>3, <2>1, GotoSteps
  <2>3. QED
    BY <1>1, <2>2 DEF Steps
<1>4. QED
  BY <1>2, <1>3 DEF GetPrior

LEMMA PutCases ==
  ASSUME TypeInv, NEW a \in Actors, Put(a)
  PROVE  /\ op[a].pc = "put"
         /\ UNCHANGED <<config, saved, loaded, exposes, tokens, rows>>
         /\ \E new :
              /\ Steps(a, new, {"readback", "record", "finish"}) /\ new.prior = op[a].prior
              /\ \/ /\ new.pc \in {"readback", "record"} /\ Apply(a)
                    /\ accepted' = accepted \cup {<<Id(a), op[a].inverts>>}
                 \/ /\ new.pc = "readback" /\ UNCHANGED <<live, effects>>
                    /\ accepted' = accepted \cup {<<Id(a), op[a].inverts>>}
                 \/ /\ new.pc = "finish" /\ new.verdict = "error" /\ UNCHANGED accepted
                    /\ Apply(a) \/ UNCHANGED <<live, effects>>
<1>1. op[a].pc = "put" /\ UNCHANGED <<config, saved, loaded, exposes, tokens, rows>>
  BY DEF Put, At
<1>2. ASSUME AfterPut(a)
      PROVE  \E new : /\ Steps(a, new, {"readback", "record", "finish"})
                      /\ new.prior = op[a].prior
                      /\ new.pc = IF op[a].attr = "weight" THEN "readback" ELSE "record"
  <2>1. PICK pc \in Pcs : /\ pc = IF op[a].attr = "weight" THEN "readback" ELSE "record"
                          /\ Goto(a, pc)
    BY <1>2 DEF AfterPut, Pcs
  <2>2. PICK new : Steps(a, new, {pc}) /\ new.prior = op[a].prior
    BY <1>1, <2>1, GotoSteps, OpType
  <2>3. new.pc = pc /\ pc \in {"readback", "record"}
    BY <2>1, <2>2 DEF Steps
  <2>4. Steps(a, new, {"readback", "record", "finish"})
    BY <2>2, <2>3 DEF Steps
  <2>5. QED
    BY <2>1, <2>2, <2>3, <2>4
<1>3. ASSUME Conclude(a, "error")
      PROVE  \E new : /\ Steps(a, new, {"readback", "record", "finish"})
                      /\ new.prior = op[a].prior /\ new.pc = "finish" /\ new.verdict = "error"
  <2>1. "error" \in Verdicts
    BY DEF Verdicts
  <2>2. PICK new : /\ Steps(a, new, {"finish"}) /\ new.prior = op[a].prior
                   /\ new.verdict = "error"
    BY <1>1, <1>3, <2>1, GotoSteps
  <2>3. QED
    BY <2>2 DEF Steps
<1>4. \/ /\ Apply(a) /\ AfterPut(a)
         /\ accepted' = accepted \cup {<<Id(a), op[a].inverts>>}
      \/ /\ op[a].attr = "weight" /\ AfterPut(a)
         /\ accepted' = accepted \cup {<<Id(a), op[a].inverts>>}
         /\ UNCHANGED <<live, effects>>
      \/ /\ Conclude(a, "error") /\ UNCHANGED accepted
         /\ Apply(a) \/ UNCHANGED <<live, effects>>
  BY DEF Put
<1>5. QED
  BY <1>1, <1>2, <1>3, <1>4, Zenon

LEMMA ReadBackCases ==
  ASSUME TypeInv, NEW a \in Actors, ReadBack(a)
  PROVE  /\ op[a].pc = "readback"
         /\ \E new : /\ Steps(a, new, {"record", "finish"}) /\ new.prior = op[a].prior
                     /\ new.pc = "record" => Current(a) = op[a].value
                     /\ new.pc = "finish" => new.verdict # "ok"
         /\ UNCHANGED <<config, saved, loaded, exposes, live, tokens, rows, accepted, effects>>
<1>1. /\ op[a].pc = "readback"
      /\ UNCHANGED <<config, saved, loaded, exposes, live, tokens, rows, accepted, effects>>
  BY DEF ReadBack, At
<1>2. CASE Current(a) = op[a].value /\ Goto(a, "record")
  <2>1. "record" \in Pcs
    BY DEF Pcs
  <2>2. PICK new : Steps(a, new, {"record"}) /\ new.prior = op[a].prior
    BY <1>1, <1>2, <2>1, GotoSteps, OpType
  <2>3. QED
    BY <1>1, <1>2, <2>2 DEF Steps
<1>3. ASSUME NEW verdict \in {"error", "unknown"}, Conclude(a, verdict)
      PROVE  \E new : /\ Steps(a, new, {"record", "finish"}) /\ new.prior = op[a].prior
                      /\ new.pc = "record" => Current(a) = op[a].value
                      /\ new.pc = "finish" => new.verdict # "ok"
  <2>1. verdict \in Verdicts
    BY DEF Verdicts
  <2>2. PICK new : /\ Steps(a, new, {"finish"}) /\ new.prior = op[a].prior
                   /\ new.verdict = verdict
    BY <1>1, <1>3, <2>1, GotoSteps
  <2>3. QED
    BY <1>3, <2>2 DEF Steps
<1>4. QED
  BY <1>1, <1>2, <1>3 DEF ReadBack

Recorded(a) == [status |-> "recorded", attr |-> op[a].attr, value |-> op[a].prior,
                target |-> op[a].target]

LEMMA RecordCases ==
  ASSUME TypeInv, NEW a \in Actors, Record(a)
  PROVE  /\ op[a].pc = "record"
         /\ \E new : /\ Steps(a, new, {"finish"}) /\ new.prior = op[a].prior
                     /\ new.verdict = "ok"
         /\ tokens' = [tokens EXCEPT ![Id(a)] = Recorded(a)] \/ UNCHANGED tokens
         /\ UNCHANGED <<config, saved, loaded, exposes, live, rows, accepted, effects>>
<1>1. op[a].pc = "record" /\ Conclude(a, "ok") /\ "ok" \in Verdicts
  BY DEF Record, At, Verdicts
<1>2. QED
  BY <1>1, GotoSteps DEF Record, Recorded

LEMMA FinishCases ==
  ASSUME TypeInv, NEW a \in Actors, Finish(a)
  PROVE  /\ op[a].pc = "finish"
         /\ \E new : /\ Steps(a, new, {"mark", "idle"})
                     /\ new.pc = "mark" =>
                          /\ new.prior = op[a].prior /\ MayMark(a)
                          /\ rows' = [rows EXCEPT ![Id(a)] = op[a].verdict]
         /\ UNCHANGED rows \/ /\ rows' = [rows EXCEPT ![Id(a)] = op[a].verdict]
                              /\ MayMark(a) => op'[a].pc = "mark"
         /\ UNCHANGED <<config, saved, loaded, exposes, live, tokens, accepted, effects>>
<1>1. /\ op[a].pc = "finish" /\ "mark" \in Pcs
      /\ UNCHANGED <<config, saved, loaded, exposes, live, tokens, accepted, effects>>
  BY DEF Finish, At, Pcs
<1>2. CASE /\ rows' = [rows EXCEPT ![Id(a)] = op[a].verdict] /\ MayMark(a) /\ Goto(a, "mark")
  <2>1. PICK new : Steps(a, new, {"mark"}) /\ new.prior = op[a].prior
    BY <1>1, <1>2, GotoSteps
  <2>2. op'[a].pc = "mark"
    BY <2>1, OpType DEF Steps
  <2>3. QED
    BY <1>1, <1>2, <2>1, <2>2 DEF Steps
<1>3. CASE End(a) /\ ((rows' = [rows EXCEPT ![Id(a)] = op[a].verdict] /\ ~MayMark(a))
                      \/ UNCHANGED rows)
  <2>1. Steps(a, Idle(op[a].n), {"idle"})
    BY <1>1, <1>3, GotoSteps
  <2>2. QED
    BY <1>1, <1>3, <2>1 DEF Steps
<1>4. QED
  BY <1>2, <1>3 DEF Finish

LEMMA MarkCases ==
  ASSUME TypeInv, NEW a \in Actors, Mark(a)
  PROVE  /\ op[a].pc = "mark" /\ Steps(a, Idle(op[a].n), {"idle"})
         /\ tokens' = [tokens EXCEPT ![op[a].inverts].status = "applied"] \/ UNCHANGED tokens
         /\ UNCHANGED <<config, saved, loaded, exposes, live, rows, accepted, effects>>
  BY GotoSteps DEF Mark, At

LEMMA ExitCases ==
  ASSUME TypeInv, NEW a \in Actors, Exit(a)
  PROVE  /\ Steps(a, Idle(op[a].n), {"idle"}) /\ loaded' = [loaded EXCEPT ![a] = <<>>]
         /\ UNCHANGED <<config, saved, exposes, live, tokens, rows, accepted, effects>>
<1>1. op' = [op EXCEPT ![a] = Idle(op[a].n)] /\ Idle(op[a].n).pc = "idle"
  BY OpType, IdleType DEF Exit, End
<1>2. QED
  BY <1>1, EndLater DEF Exit, Steps

\* The host is one that config.yaml has had under the name of the target, if any.
OnTarget(s, target, host) ==
  target # NoTarget => host = NoHost \/ [name |-> target, host |-> host] \in Entries(s)

LEMMA HostOfType ==
  ASSUME TypeInv, NEW targets \in Seq(Entries(saved)), NEW name \in Names
  PROVE  LET host == HostOf(targets, name) IN
         host \in Hosts \cup {NoHost} /\ OnTarget(saved, name, host)
<1>1. CASE \A i \in DOMAIN targets : targets[i].name # name
  BY <1>1 DEF HostOf, OnTarget
<1>2. CASE \E i \in DOMAIN targets : targets[i].name = name
  <2>1. PICK i : i = CHOOSE j \in DOMAIN targets : targets[j].name = name
    OBVIOUS
  <2>2. i \in 1..Len(targets) /\ targets[i].name = name
    BY <1>2, <2>1, LenProperties
  <2>3. targets[i] \in Entries(saved)
    BY <2>2, ElementOfSeq
  <2>4. targets[i] \in Target
    BY <2>3, SavedTargets
  <2>5. PICK host \in Hosts : host = targets[i].host
    BY <2>4 DEF Target
  <2>6. [name |-> name, host |-> host] = targets[i]
    BY <2>2, <2>4, <2>5 DEF Target
  <2>7. HostOf(targets, name) = host
    BY <1>2, <2>1, <2>5 DEF HostOf
  <2>8. QED
    BY <2>3, <2>6, <2>7 DEF OnTarget
<1>3. QED
  BY <1>1, <1>2

LEMMA BeginCases ==
  ASSUME TypeInv, NEW a \in Actors, NEW attr \in Attrs, NEW value \in Values,
         NEW target \in Names \cup {NoTarget}, NEW inverts \in ById, NEW named \in BOOLEAN,
         Begin(a, attr, value, target, inverts, named)
  PROVE  /\ op[a].pc = "idle" /\ op[a].n < MaxOps[a]
         /\ \E host \in Hosts \cup {NoHost} :
              /\ OnTarget(saved, target, host)
              /\ op' = [op EXCEPT ![a] = Begun(op[a].n + 1, attr, value, target, host,
                                               inverts, named)]
         /\ loaded' \in [Actors -> Seq(Entries(saved))]
         /\ UNCHANGED <<config, saved, exposes, live, tokens, rows, accepted, effects>>
<1>1. Config(a) \in Seq(Entries(saved)) /\ Config(a) # <<>>
  BY StateType DEF Config
<1>2. loaded' \in [Actors -> Seq(Entries(saved))]
  <2>1. PICK c \in Seq(Entries(saved)) : c = Config(a)
    BY <1>1
  <2>2. QED
    BY <2>1, StateType DEF Begin, Load
<1>3. Config(a)[1].host \in Hosts
  <2>1. 1 \in 1..Len(Config(a))
    BY <1>1, EmptySeq, LenProperties
  <2>2. Config(a)[1] \in Target
    BY <1>1, <2>1, ElementOfSeq, SavedTargets
  <2>3. QED
    BY <2>2 DEF Target
<1>4. Resolve(a, target) \in Hosts \cup {NoHost} /\ OnTarget(saved, target, Resolve(a, target))
  <2>1. CASE target = NoTarget
    BY <1>3, <2>1 DEF Resolve, OnTarget
  <2>2. CASE target \in Names
    BY <1>1, <2>2, HostOfType, HostsAssumption DEF Resolve
  <2>3. QED
    BY <2>1, <2>2
<1>5. QED
  BY <1>2, <1>4 DEF Begin, At, Begun
----------------------------------------------------------------------------
(* Types are kept.                                                         *)

\* The state of the proxies and the history after the request of a.
NewEffect(a) == [id |-> Id(a), attr |-> op[a].attr, host |-> op[a].host,
                 from |-> Current(a), to |-> op[a].value, inverts |-> op[a].inverts,
                 named |-> op[a].named]

LEMMA ApplyType ==
  ASSUME TypeInv, NEW a \in Actors, op[a].pc = "put", Apply(a)
  PROVE  /\ live' \in [Hosts -> [Attrs -> Values]] /\ NewEffect(a) \in Effect
         /\ effects' = Append(effects, NewEffect(a)) /\ effects' \in Seq(Effect)
<1>1. NewEffect(a) \in Effect
  <2>1. Current(a) \in Values
    BY OpType, StateType DEF Current
  <2>2. QED
    BY <2>1, OpType DEF NewEffect, Effect
<1>2. live' \in [Hosts -> [Attrs -> Values]]
  <2>1. PICK h \in Hosts, attr \in Attrs, v \in Values :
          h = op[a].host /\ attr = op[a].attr /\ v = op[a].value
    BY OpType
  <2>2. live' = [live EXCEPT ![h][attr] = v]
    BY <2>1 DEF Apply
  <2>3. QED
    BY <2>2, StateType
<1>3. effects' = Append(effects, NewEffect(a))
  BY DEF Apply, NewEffect
<1>4. QED
  BY <1>1, <1>2, <1>3, StateType, AppendProperties

\* A step of a call that is under way.
LEMMA LaterKeepsTypes ==
  ASSUME TypeInv, NEW a \in Actors, NEW new, NEW pcs, Steps(a, new, pcs),
         UNCHANGED <<config, saved, exposes>>, loaded' \in [Actors -> Seq(Entries(saved))],
         live' \in [Hosts -> [Attrs -> Values]], tokens' \in [Ids -> Token],
         rows' \in [Ids -> Verdicts \cup {"none"}], accepted' \subseteq (Ids \X ById),
         effects' \in Seq(Effect)
  PROVE  TypeInv'
<1>1. Later(a, new) /\ op' = [op EXCEPT ![a] = new]
  BY DEF Steps
<1>2. /\ new \in Op /\ new.n <= MaxOps[a] /\ (new.pc # "idle" => new.n >= 1)
      /\ Reaches(new)
  BY <1>1, LaterType
<1>3. QED
  BY <1>1, <1>2, MoveType

\* StartUndo is a Begin with the attribute and the value of a token.
LEMMA StartUndoCases ==
  ASSUME TypeInv, NEW a \in Actors, NEW i \in Ids, NEW t \in Names \cup {NoTarget},
         StartUndo(a, i, t)
  PROVE  /\ tokens[i].status = "recorded" /\ tokens[i].attr \in Attrs
         /\ tokens[i].value \in Values /\ ReplayTarget(i, t) \in Names \cup {NoTarget}
         /\ t = NoTarget => ReplayTarget(i, t) = tokens[i].target
         /\ (t # NoTarget) \in BOOLEAN /\ i \in ById
         /\ Begin(a, tokens[i].attr, tokens[i].value, ReplayTarget(i, t), i, t # NoTarget)
<1>1. tokens[i] \in Token
  BY StateType
<1>2. QED
  BY <1>1 DEF StartUndo, Appliable, ReplayTarget, Token, ById

LEMMA BeginKeepsTypes ==
  ASSUME TypeInv, NEW a \in Actors, NEW attr \in Attrs, NEW value \in Values,
         NEW target \in Names \cup {NoTarget}, NEW inverts \in ById, NEW named \in BOOLEAN,
         Begin(a, attr, value, target, inverts, named)
  PROVE  TypeInv'
<1>1. PICK host \in Hosts \cup {NoHost} :
        op' = [op EXCEPT ![a] = Begun(op[a].n + 1, attr, value, target, host, inverts, named)]
  BY BeginCases
<1>2. PICK m \in Nat : m = op[a].n + 1 /\ m >= 1 /\ m <= MaxOps[a]
  <2>1. op[a].n \in Nat /\ MaxOps[a] \in Nat
    BY OpType, StateType
  <2>2. op[a].n < MaxOps[a]
    BY BeginCases
  <2>3. QED
    BY <2>1, <2>2
<1>3. PICK new : new = Begun(m, attr, value, target, host, inverts, named)
  OBVIOUS
<1>4. new \in Op /\ new.n = m /\ Reaches(new)
  BY <1>3, BegunType DEF Reaches
<1>5. op' = [op EXCEPT ![a] = new]
  BY <1>1, <1>2, <1>3
<1>6. /\ loaded' \in [Actors -> Seq(Entries(saved))]
      /\ UNCHANGED <<config, saved, exposes, live, tokens, rows, accepted, effects>>
  BY BeginCases
<1>7. /\ live' \in [Hosts -> [Attrs -> Values]] /\ tokens' \in [Ids -> Token]
      /\ rows' \in [Ids -> Verdicts \cup {"none"}] /\ accepted' \subseteq (Ids \X ById)
      /\ effects' \in Seq(Effect)
  BY <1>6, StateType
<1>8. QED
  BY <1>2, <1>4, <1>5, <1>6, <1>7, MoveType

LEMMA WithoutType ==
  ASSUME NEW S, NEW targets \in Seq(S), NEW name
  PROVE  Without(targets, name) \in Seq(S)
<1>1. CASE \A i \in DOMAIN targets : targets[i].name # name
  BY <1>1 DEF Without
<1>2. CASE \E i \in DOMAIN targets : targets[i].name = name
  <2>1. PICK i : i = CHOOSE j \in DOMAIN targets : targets[j].name = name
    OBVIOUS
  <2>2. i \in 1..Len(targets)
    BY <1>2, <2>1, LenProperties
  <2>3. Without(targets, name) = SubSeq(targets, 1, i - 1) \o SubSeq(targets, i + 1, Len(targets))
    BY <1>2, <2>1 DEF Without
  <2>4. \A j \in 1..Len(targets) : targets[j] \in S
    BY ElementOfSeq
  <2>5. SubSeq(targets, 1, i - 1) \in Seq(S)
    BY <2>2, <2>4, SubSeqProperties, LenProperties
  <2>6. SubSeq(targets, i + 1, Len(targets)) \in Seq(S)
    BY <2>2, <2>4, SubSeqProperties, LenProperties
  <2>7. QED
    BY <2>3, <2>5, <2>6, ConcatProperties
<1>3. QED
  BY <1>1, <1>2

\* What has been saved stays saved.
LEMMA SavedGrows ==
  ASSUME TypeInv, NEW entry \in Target, saved' = Append(saved, entry)
  PROVE  /\ saved' \in Seq(Target) /\ entry \in Entries(saved')
         /\ Entries(saved) \subseteq Entries(saved')
<1>1. saved \in Seq(Target)
  BY DEF TypeInv, TypeOK
<1>2. /\ saved' \in Seq(Target) /\ Len(saved') = Len(saved) + 1 /\ Len(saved) \in Nat
      /\ saved'[Len(saved) + 1] = entry
      /\ \A k \in 1..Len(saved) : saved'[k] = saved[k]
  BY <1>1, AppendProperties, LenProperties
<1>3. DOMAIN saved = 1..Len(saved) /\ DOMAIN saved' = 1..Len(saved')
  BY <1>1, <1>2, LenProperties
<1>4. QED
  BY <1>2, <1>3 DEF Entries

LEMMA SaveKeepsTypes ==
  ASSUME TypeInv, NEW gone \in Names \cup {NoTarget}, NEW n \in Names, NEW h \in Hosts,
         SaveTarget(gone, n, h)
  PROVE  TypeInv' /\ Entries(saved) \subseteq Entries(saved')
<1>1. PICK entry \in Target : entry = [name |-> n, host |-> h]
  BY DEF Target
<1>2. /\ config' = Append(Without(Without(config, gone), n), entry)
      /\ saved' = Append(saved, entry)
      /\ UNCHANGED <<loaded, exposes, live, op, tokens, rows, accepted, effects>>
  BY <1>1 DEF SaveTarget
<1>3. /\ saved' \in Seq(Target) /\ entry \in Entries(saved')
      /\ Entries(saved) \subseteq Entries(saved')
  BY <1>2, SavedGrows
<1>4. Seq(Entries(saved)) \subseteq Seq(Entries(saved'))
  BY <1>3, SeqMonotonic
<1>5. config \in Seq(Entries(saved')) /\ loaded \in [Actors -> Seq(Entries(saved'))]
  BY <1>4, StateType
<1>6. Without(Without(config, gone), n) \in Seq(Entries(saved'))
  BY <1>5, WithoutType
<1>7. config' \in Seq(Entries(saved')) /\ config' # <<>>
  BY <1>2, <1>3, <1>6, AppendProperties, EmptySeq
<1>8. Entries(saved') \subseteq Target
  <2>1. \A k \in DOMAIN saved' : saved'[k] \in Target
    BY <1>3, LenProperties, ElementOfSeq
  <2>2. QED
    BY <2>1 DEF Entries
<1>9. config' \in Seq(Target)
  BY <1>7, <1>8, SeqMonotonic
<1>10. TypeOK'
  BY <1>2, <1>3, <1>9 DEF TypeInv, TypeOK
<1>11. Numbered'
  BY <1>2, <1>5, <1>7 DEF TypeInv, Numbered
<1>12. QED
  BY <1>3, <1>10, <1>11 DEF TypeInv

\* The step of a call that is under way, or its end.
LEMMA CallKeepsTypes ==
  ASSUME TypeInv, NEW a \in Actors,
         GetPrior(a) \/ Put(a) \/ ReadBack(a) \/ Record(a) \/ Finish(a) \/ Mark(a) \/ Exit(a)
  PROVE  TypeInv'
<1>0. /\ loaded \in [Actors -> Seq(Entries(saved))]
      /\ live \in [Hosts -> [Attrs -> Values]] /\ tokens \in [Ids -> Token]
      /\ rows \in [Ids -> Verdicts \cup {"none"}] /\ accepted \subseteq (Ids \X ById)
      /\ effects \in Seq(Effect)
  BY StateType
<1>1. CASE GetPrior(a)
  <2>1. PICK new : Steps(a, new, {"put", "finish"})
    BY <1>1, GetPriorCases
  <2>2. UNCHANGED <<config, saved, loaded, exposes, live, tokens, rows, accepted, effects>>
    BY <1>1, GetPriorCases
  <2>3. QED
    BY <1>0, <2>1, <2>2, LaterKeepsTypes
<1>2. CASE Put(a)
  <2>1. op[a].pc = "put" /\ UNCHANGED <<config, saved, loaded, exposes, tokens, rows>>
    BY <1>2, PutCases
  <2>2. PICK new : /\ Steps(a, new, {"readback", "record", "finish"})
                   /\ accepted' = accepted \cup {<<Id(a), op[a].inverts>>} \/ UNCHANGED accepted
                   /\ Apply(a) \/ UNCHANGED <<live, effects>>
    BY <1>2, PutCases, Zenon
  <2>3. accepted' \subseteq (Ids \X ById)
    <3>1. <<Id(a), op[a].inverts>> \in Ids \X ById
      BY <2>1, OpType
    <3>2. QED
      BY <1>0, <2>2, <3>1
  <2>4. live' \in [Hosts -> [Attrs -> Values]] /\ effects' \in Seq(Effect)
    BY <1>0, <2>1, <2>2, ApplyType
  <2>5. QED
    BY <1>0, <2>1, <2>2, <2>3, <2>4, LaterKeepsTypes
<1>3. CASE ReadBack(a)
  <2>1. PICK new : Steps(a, new, {"record", "finish"})
    BY <1>3, ReadBackCases
  <2>2. UNCHANGED <<config, saved, loaded, exposes, live, tokens, rows, accepted, effects>>
    BY <1>3, ReadBackCases
  <2>3. QED
    BY <1>0, <2>1, <2>2, LaterKeepsTypes
<1>4. CASE Record(a)
  <2>1. PICK new : Steps(a, new, {"finish"})
    BY <1>4, RecordCases
  <2>2. /\ op[a].pc = "record"
        /\ tokens' = [tokens EXCEPT ![Id(a)] = Recorded(a)] \/ UNCHANGED tokens
        /\ UNCHANGED <<config, saved, loaded, exposes, live, rows, accepted, effects>>
    BY <1>4, RecordCases
  <2>3. Recorded(a) \in Token
    BY OpType DEF Recorded, Token
  <2>4. tokens' \in [Ids -> Token]
    BY <1>0, <2>2, <2>3, OpType
  <2>5. QED
    BY <1>0, <2>1, <2>2, <2>4, LaterKeepsTypes
<1>5. CASE Finish(a)
  <2>1. PICK new : Steps(a, new, {"mark", "idle"})
    BY <1>5, FinishCases
  <2>2. /\ op[a].pc = "finish"
        /\ UNCHANGED rows \/ rows' = [rows EXCEPT ![Id(a)] = op[a].verdict]
        /\ UNCHANGED <<config, saved, loaded, exposes, live, tokens, accepted, effects>>
    BY <1>5, FinishCases
  <2>3. rows' \in [Ids -> Verdicts \cup {"none"}]
    BY <1>0, <2>2, OpType
  <2>4. QED
    BY <1>0, <2>1, <2>2, <2>3, LaterKeepsTypes
<1>6. CASE Mark(a)
  <2>1. /\ op[a].pc = "mark" /\ Steps(a, Idle(op[a].n), {"idle"})
        /\ tokens' = [tokens EXCEPT ![op[a].inverts].status = "applied"] \/ UNCHANGED tokens
        /\ UNCHANGED <<config, saved, loaded, exposes, live, rows, accepted, effects>>
    BY <1>6, MarkCases
  <2>2. tokens' \in [Ids -> Token]
    <3>1. PICK i : i = op[a].inverts
      OBVIOUS
    <3>2. CASE i \in Ids
      <4>1. [tokens[i] EXCEPT !.status = "applied"] \in Token
        BY <1>0, <3>2 DEF Token
      <4>2. QED
        BY <1>0, <2>1, <3>1, <3>2, <4>1
    <3>3. CASE i \notin Ids
      BY <1>0, <2>1, <3>1, <3>3
    <3>4. QED
      BY <3>2, <3>3
  <2>3. PICK new : Steps(a, new, {"idle"})
    BY <2>1
  <2>4. QED
    BY <1>0, <2>1, <2>2, <2>3, LaterKeepsTypes
<1>7. CASE Exit(a)
  <2>1. /\ Steps(a, Idle(op[a].n), {"idle"}) /\ loaded' = [loaded EXCEPT ![a] = <<>>]
        /\ UNCHANGED <<config, saved, exposes, live, tokens, rows, accepted, effects>>
    BY <1>7, ExitCases
  <2>2. loaded' \in [Actors -> Seq(Entries(saved))]
    BY <1>0, <2>1, EmptySeq
  <2>3. PICK new : Steps(a, new, {"idle"})
    BY <2>1
  <2>4. QED
    BY <1>0, <2>1, <2>2, <2>3, LaterKeepsTypes
<1>8. QED
  BY <1>1, <1>2, <1>3, <1>4, <1>5, <1>6, <1>7

LEMMA InitType == Init => TypeInv
<1> SUFFICES ASSUME Init PROVE TypeInv
  OBVIOUS
<1>1. AnyValue \in Values
  BY ValuesAssumption DEF AnyValue
<1>2. NoToken \in Token
  BY <1>1 DEF NoToken, Token, Attrs
<1>3. \A a \in Actors : op[a] = Idle(0)
  BY DEF Init
<1>4. op \in [Actors -> Op]
  BY IdleType DEF Init
<1>5. TypeOK
  BY <1>1, <1>2, <1>4, HostsAssumption, EmptySeq DEF Init, TypeOK, Attrs
<1>6. Numbered
  <2>1. \A k \in DOMAIN Targets0 : Targets0[k] \in Entries(saved)
    BY DEF Init, Entries
  <2>2. config \in Seq(Entries(saved)) /\ config # <<>>
    BY <2>1, HostsAssumption, LenProperties, SeqDef DEF Init
  <2>3. loaded \in [Actors -> Seq(Entries(saved))]
    BY EmptySeq DEF Init
  <2>4. QED
    BY <1>3, <2>2, <2>3, IdleType, OpsAssumption DEF Numbered, Reaches
<1>7. QED
  BY <1>5, <1>6 DEF TypeInv

LEMMA StutterKeepsTypes == ASSUME TypeInv, UNCHANGED vars PROVE TypeInv'
  BY DEF TypeInv, TypeOK, Numbered, vars

LEMMA NextType == ASSUME TypeInv, [Next]_vars PROVE TypeInv'
<1>1. ASSUME NEW a \in Actors, NEW attr \in Attrs, NEW v \in Values,
             NEW t \in Names \cup {NoTarget}, StartWrite(a, attr, v, t)
      PROVE  TypeInv'
  BY <1>1, BeginKeepsTypes DEF StartWrite, ById
<1>2. ASSUME NEW a \in Actors, NEW i \in Ids, NEW t \in Names \cup {NoTarget}, StartUndo(a, i, t)
      PROVE  TypeInv'
  BY <1>2, StartUndoCases, BeginKeepsTypes
<1>3. QED
  BY <1>1, <1>2, CallKeepsTypes, SaveKeepsTypes, StutterKeepsTypes DEF Next

\* Every variable keeps its type, and the default target is always there
\* (connection.py:211 takes the first one).
THEOREM UndoTypeCorrect == Spec => []TypeOK
<1>1. Init => TypeInv
  BY InitType
<1>2. TypeInv /\ [Next]_vars => TypeInv'
  BY NextType
<1>3. TypeInv => TypeOK
  BY DEF TypeInv
<1>4. QED
  BY <1>1, <1>2, <1>3, PTL DEF Spec
----------------------------------------------------------------------------
(* Where an inverse runs.                                                  *)

Busy(a) == op[a].pc # "idle"

Present(i) == tokens[i].status # "none"

\* Only a call that is past its record has a token.
TokensOfPast ==
  \A i \in Ids : Present(i) =>
    /\ i[2] <= op[i[1]].n
    /\ i[2] = op[i[1]].n => op[i[1]].pc \in {"idle", "finish", "mark"}

\* Only a call that is past its request has an effect, where it runs.
EffectsOfPast ==
  \A k \in DOMAIN effects : LET e == effects[k] IN
    /\ e.id[2] <= op[e.id[1]].n
    /\ e.id[2] = op[e.id[1]].n =>
         /\ op[e.id[1]].pc \notin {"get", "put"}
         /\ Busy(e.id[1]) => op[e.id[1]].host = e.host /\ op[e.id[1]].attr = e.attr

\* A call runs on the target it names, and an inverse does what its token says.
CallsFollowTokens ==
  \A a \in Actors : Busy(a) =>
    /\ OnTarget(saved, op[a].target, op[a].host)
    /\ op[a].inverts # NoOp => /\ Present(op[a].inverts)
                               /\ op[a].attr = tokens[op[a].inverts].attr
                               /\ op[a].value = tokens[op[a].inverts].value
                               /\ ~op[a].named => op[a].target = tokens[op[a].inverts].target

\* A token tells what its call did, and where if the call named its target.
TokensTell ==
  \A k \in DOMAIN effects : LET e == effects[k] t == tokens[e.id] IN
    Present(e.id) => e.attr = t.attr /\ OnTarget(saved, t.target, e.host)

\* An inverse did what its token says, after the call of the token.
InversesFollowTokens ==
  \A k \in DOMAIN effects : LET e == effects[k] IN e.inverts # NoOp =>
    /\ Present(e.inverts)
    /\ e.attr = tokens[e.inverts].attr /\ e.to = tokens[e.inverts].value
    /\ ~e.named => OnTarget(saved, tokens[e.inverts].target, e.host)
    /\ \A j \in EffectsOf(e.inverts) : j < k

OriginInv == /\ TypeInv /\ TokensOfPast /\ EffectsOfPast /\ CallsFollowTokens
             /\ TokensTell /\ InversesFollowTokens

----------------------------------------------------------------------------
(* The steps, as far as calls, tokens and effects can tell them apart.     *)

\* A token that is there stays, with what it holds; none appears.
TokensKept ==
  \A i \in Ids : /\ Present(i)' <=> Present(i)
                 /\ tokens'[i].attr = tokens[i].attr /\ tokens'[i].value = tokens[i].value
                 /\ tokens'[i].target = tokens[i].target

\* The call moves on, or ends.
Moves(a, new) ==
  /\ Steps(a, new, Pcs)
  /\ new.pc \in {"get", "put"} => op[a].pc = "get"
  /\ op[a].pc \in {"idle", "finish", "mark"} => new.pc \in {"idle", "finish", "mark"}
  /\ new.pc # "idle" /\ op[a].pc # "get" => new.prior = op[a].prior
  /\ new.pc = "put" => new.prior = Current(a)
  /\ \/ new.pc = "record" \/ (new.pc = "finish" /\ new.verdict = "ok")
     => Current(a) = op[a].value \/ op[a].pc = "record"
  /\ UNCHANGED <<saved, live, effects>> /\ TokensKept

\* The request takes effect.
TakesEffect(a, new) ==
  /\ op[a].pc = "put" /\ Steps(a, new, {"readback", "record", "finish"})
  /\ new.prior = op[a].prior /\ (new.pc = "finish" => new.verdict = "error")
  /\ Apply(a) /\ UNCHANGED <<saved, tokens>>

\* The token is recorded.
RecordsToken(a, new) ==
  /\ op[a].pc = "record" /\ Steps(a, new, {"finish"}) /\ new.prior = op[a].prior
  /\ tokens' = [tokens EXCEPT ![Id(a)] = Recorded(a)]
  /\ UNCHANGED <<saved, live, effects>>

\* A call begins.
Begins(a, new) ==
  /\ op[a].pc = "idle" /\ new \in Op /\ new.pc = "get" /\ new.n = op[a].n + 1
  /\ OnTarget(saved, new.target, new.host)
  /\ new.inverts # NoOp => /\ tokens[new.inverts].status = "recorded"
                           /\ new.attr = tokens[new.inverts].attr
                           /\ new.value = tokens[new.inverts].value
                           /\ ~new.named => new.target = tokens[new.inverts].target
  /\ op' = [op EXCEPT ![a] = new]
  /\ UNCHANGED <<saved, live, tokens, effects>>

\* Nothing but config.yaml changes.
Rests == UNCHANGED <<op, tokens, effects, live>> /\ Entries(saved) \subseteq Entries(saved')

LEMMA BeginBegins ==
  ASSUME TypeInv, NEW a \in Actors, NEW attr \in Attrs, NEW value \in Values,
         NEW target \in Names \cup {NoTarget}, NEW inverts \in ById, NEW named \in BOOLEAN,
         Begin(a, attr, value, target, inverts, named),
         inverts # NoOp => /\ tokens[inverts].status = "recorded"
                           /\ attr = tokens[inverts].attr /\ value = tokens[inverts].value
                           /\ ~named => target = tokens[inverts].target
  PROVE  \E new : Begins(a, new)
<1>1. PICK host \in Hosts \cup {NoHost} :
        /\ OnTarget(saved, target, host)
        /\ op' = [op EXCEPT ![a] = Begun(op[a].n + 1, attr, value, target, host, inverts, named)]
  BY BeginCases
<1>2. op[a].n \in Nat
  BY OpType
<1>3. PICK m \in Nat : m = op[a].n + 1
  BY <1>2
<1>4. PICK new : new = Begun(m, attr, value, target, host, inverts, named)
  OBVIOUS
<1>5. /\ new \in Op /\ new.pc = "get" /\ new.n = m /\ new.attr = attr /\ new.value = value
      /\ new.target = target /\ new.host = host /\ new.inverts = inverts /\ new.named = named
  BY <1>4, BegunType
<1>6. op' = [op EXCEPT ![a] = new]
  BY <1>1, <1>3, <1>4
<1>7. op[a].pc = "idle" /\ UNCHANGED <<saved, live, tokens, effects>>
  BY DEF Begin, At
<1>8. /\ OnTarget(saved, new.target, new.host)
      /\ new.n = op[a].n + 1
  BY <1>1, <1>3, <1>5
<1>9. new.inverts # NoOp => /\ tokens[new.inverts].status = "recorded"
                            /\ new.attr = tokens[new.inverts].attr
                            /\ new.value = tokens[new.inverts].value
                            /\ ~new.named => new.target = tokens[new.inverts].target
  BY <1>5
<1>10. Begins(a, new)
  BY <1>5, <1>6, <1>7, <1>8, <1>9 DEF Begins
<1>11. QED
  BY <1>10

LEMMA KeptWhenUnchanged == tokens' = tokens => TokensKept
  BY DEF TokensKept, Present

\* Marking a token leaves what it holds: it is there, as the call inverts it.
LEMMA MarkKeepsTokens ==
  ASSUME TypeInv, CallsFollowTokens, NEW a \in Actors, Mark(a)
  PROVE  TokensKept
<1>1. /\ op[a].pc = "mark"
      /\ tokens' = [tokens EXCEPT ![op[a].inverts].status = "applied"] \/ UNCHANGED tokens
  BY MarkCases
<1>2. PICK i \in ById : i = op[a].inverts
  BY OpType
<1>3. CASE i = NoOp
  BY <1>1, <1>2, <1>3, NoOpAssumption, StateType, KeptWhenUnchanged
<1>4. CASE i # NoOp /\ UNCHANGED tokens
  BY <1>4, KeptWhenUnchanged
<1>5. CASE i # NoOp /\ tokens' = [tokens EXCEPT ![i].status = "applied"]
  <2>1. i \in Ids /\ tokens[i] \in Token /\ tokens \in [Ids -> Token]
    BY <1>2, <1>5, StateType DEF ById
  <2>2. Present(i)
    BY <1>1, <1>2, <1>5 DEF CallsFollowTokens, Busy
  <2>3. PICK t : t = [tokens[i] EXCEPT !.status = "applied"]
    OBVIOUS
  <2>4. /\ t.status = "applied" /\ t.attr = tokens[i].attr /\ t.value = tokens[i].value
        /\ t.target = tokens[i].target
    BY <2>1, <2>3 DEF Token
  <2>5. tokens'[i] = t /\ \A j \in Ids : j # i => tokens'[j] = tokens[j]
    BY <1>5, <2>1, <2>3
  <2>6. QED
    BY <2>2, <2>4, <2>5 DEF TokensKept, Present
<1>6. QED
  BY <1>1, <1>2, <1>3, <1>4, <1>5

LEMMA CallSteps ==
  ASSUME TypeInv, CallsFollowTokens, NEW a \in Actors,
         GetPrior(a) \/ Put(a) \/ ReadBack(a) \/ Record(a) \/ Finish(a) \/ Mark(a) \/ Exit(a)
  PROVE  \E new : Moves(a, new) \/ TakesEffect(a, new) \/ RecordsToken(a, new)
<1>0. \A new, pcs : pcs \subseteq Pcs /\ Steps(a, new, pcs) => Steps(a, new, Pcs)
  BY DEF Steps
<1>9. saved' = saved
  BY DEF GetPrior, Put, ReadBack, Record, Finish, Mark, Exit
<1>1. CASE GetPrior(a)
  <2>1. PICK new : /\ Steps(a, new, {"put", "finish"})
                   /\ new.pc = "put" => new.prior = Current(a)
                   /\ new.pc = "finish" => new.verdict = "error"
    BY <1>1, GetPriorCases
  <2>2. /\ op[a].pc = "get" /\ TokensKept /\ UNCHANGED <<live, effects>>
    BY <1>1, GetPriorCases, KeptWhenUnchanged
  <2>3. Steps(a, new, Pcs) /\ new.pc \in {"put", "finish"}
    BY <1>0, <2>1 DEF Steps, Pcs
  <2>4. Moves(a, new)
    BY <1>9, <2>1, <2>2, <2>3 DEF Moves
  <2>5. QED
    BY <2>4
<1>2. CASE Put(a)
  <2>1. /\ op[a].pc = "put" /\ UNCHANGED tokens /\ TokensKept
    BY <1>2, PutCases, KeptWhenUnchanged
  <2>2. PICK new :
          /\ Steps(a, new, {"readback", "record", "finish"}) /\ new.prior = op[a].prior
          /\ \/ /\ new.pc \in {"readback", "record"} /\ Apply(a)
             \/ /\ new.pc = "readback" /\ UNCHANGED <<live, effects>>
             \/ /\ new.pc = "finish" /\ new.verdict = "error"
                /\ Apply(a) \/ UNCHANGED <<live, effects>>
    BY <1>2, PutCases, Zenon
  <2>3. Steps(a, new, Pcs) /\ new.pc \in {"readback", "record", "finish"}
    BY <1>0, <2>2 DEF Steps, Pcs
  <2>4. CASE Apply(a)
    BY <1>9, <2>1, <2>2, <2>3, <2>4 DEF TakesEffect
  <2>5. CASE ~Apply(a)
    BY <1>9, <2>1, <2>2, <2>3, <2>5 DEF Moves
  <2>6. QED
    BY <2>4, <2>5
<1>3. CASE ReadBack(a)
  <2>1. PICK new : /\ Steps(a, new, {"record", "finish"}) /\ new.prior = op[a].prior
                   /\ new.pc = "record" => Current(a) = op[a].value
                   /\ new.pc = "finish" => new.verdict # "ok"
    BY <1>3, ReadBackCases
  <2>2. op[a].pc = "readback" /\ TokensKept /\ UNCHANGED <<live, effects>>
    BY <1>3, ReadBackCases, KeptWhenUnchanged
  <2>3. Steps(a, new, Pcs) /\ new.pc \in {"record", "finish"}
    BY <1>0, <2>1 DEF Steps, Pcs
  <2>4. Moves(a, new)
    BY <1>9, <2>1, <2>2, <2>3 DEF Moves
  <2>5. QED
    BY <2>4
<1>4. CASE Record(a)
  <2>1. PICK new : Steps(a, new, {"finish"}) /\ new.prior = op[a].prior
    BY <1>4, RecordCases
  <2>2. /\ op[a].pc = "record" /\ UNCHANGED <<live, effects>>
        /\ tokens' = [tokens EXCEPT ![Id(a)] = Recorded(a)] \/ UNCHANGED tokens
    BY <1>4, RecordCases
  <2>3. Steps(a, new, Pcs) /\ new.pc = "finish"
    BY <1>0, <2>1 DEF Steps, Pcs
  <2>4. CASE UNCHANGED tokens
    BY <1>9, <2>1, <2>2, <2>3, <2>4, KeptWhenUnchanged DEF Moves
  <2>5. CASE tokens' = [tokens EXCEPT ![Id(a)] = Recorded(a)]
    BY <1>9, <2>1, <2>2, <2>5 DEF RecordsToken
  <2>6. QED
    BY <2>2, <2>4, <2>5
<1>5. CASE Finish(a)
  <2>1. PICK new : /\ Steps(a, new, {"mark", "idle"})
                   /\ new.pc = "mark" => new.prior = op[a].prior
    BY <1>5, FinishCases
  <2>2. op[a].pc = "finish" /\ TokensKept /\ UNCHANGED <<live, effects>>
    BY <1>5, FinishCases, KeptWhenUnchanged
  <2>3. Steps(a, new, Pcs) /\ new.pc \in {"mark", "idle"}
    BY <1>0, <2>1 DEF Steps, Pcs
  <2>4. Moves(a, new)
    BY <1>9, <2>1, <2>2, <2>3 DEF Moves
  <2>5. QED
    BY <2>4
<1>6. CASE Mark(a)
  <2>1. /\ op[a].pc = "mark" /\ Steps(a, Idle(op[a].n), {"idle"})
        /\ tokens' = [tokens EXCEPT ![op[a].inverts].status = "applied"] \/ UNCHANGED tokens
        /\ UNCHANGED <<live, effects>>
    BY <1>6, MarkCases
  <2>2. PICK new : Steps(a, new, {"idle"})
    BY <2>1
  <2>3. Steps(a, new, Pcs) /\ new.pc = "idle"
    BY <1>0, <2>2 DEF Steps, Pcs
  <2>4. TokensKept
    BY <1>6, MarkKeepsTokens
  <2>5. Moves(a, new)
    BY <1>9, <2>1, <2>3, <2>4 DEF Moves
  <2>6. QED
    BY <2>5
<1>7. CASE Exit(a)
  <2>1. Steps(a, Idle(op[a].n), {"idle"}) /\ TokensKept /\ UNCHANGED <<live, effects>>
    BY <1>7, ExitCases, KeptWhenUnchanged
  <2>2. PICK new : Steps(a, new, {"idle"})
    BY <2>1
  <2>3. Steps(a, new, Pcs) /\ new.pc = "idle"
    BY <1>0, <2>2 DEF Steps, Pcs
  <2>4. Moves(a, new)
    BY <1>9, <2>1, <2>3 DEF Moves
  <2>5. QED
    BY <2>4
<1>8. QED
  BY <1>1, <1>2, <1>3, <1>4, <1>5, <1>6, <1>7

\* What [Next]_vars does to calls, tokens, effects and the servers.
LEMMA NextSteps ==
  ASSUME TypeInv, CallsFollowTokens, [Next]_vars
  PROVE  \/ \E a \in Actors : \E new :
              Moves(a, new) \/ TakesEffect(a, new) \/ RecordsToken(a, new) \/ Begins(a, new)
         \/ Rests
<1>1. ASSUME NEW a \in Actors, NEW attr \in Attrs, NEW v \in Values,
             NEW t \in Names \cup {NoTarget}, StartWrite(a, attr, v, t)
      PROVE  \E new : Begins(a, new)
  BY <1>1, BeginBegins DEF StartWrite, ById
<1>2. ASSUME NEW a \in Actors, NEW i \in Ids, NEW t \in Names \cup {NoTarget}, StartUndo(a, i, t)
      PROVE  \E new : Begins(a, new)
  BY <1>2, StartUndoCases, BeginBegins
<1>3. ASSUME NEW gone \in Names \cup {NoTarget}, NEW n \in Names, NEW h \in Hosts,
             SaveTarget(gone, n, h)
      PROVE  Rests
  BY <1>3, SaveKeepsTypes DEF SaveTarget, Rests
<1>4. ASSUME UNCHANGED vars PROVE Rests
  BY <1>4 DEF vars, Rests
<1>5. QED
  BY <1>1, <1>2, <1>3, <1>4, CallSteps DEF Next
----------------------------------------------------------------------------
(* The steps keep OriginInv.                                               *)

LEMMA EffectType ==
  ASSUME TypeInv, NEW k \in DOMAIN effects
  PROVE  /\ k \in 1..Len(effects) /\ k \in Nat /\ effects[k] \in Effect
         /\ effects[k].id \in Ids /\ effects[k].id[1] \in Actors /\ effects[k].id[2] \in Nat
         /\ effects[k].id = <<effects[k].id[1], effects[k].id[2]>>
         /\ effects[k].inverts \in ById
         /\ effects[k].inverts # NoOp => effects[k].inverts \in Ids
<1>1. effects \in Seq(Effect)
  BY StateType
<1>2. k \in 1..Len(effects) /\ Len(effects) \in Nat
  BY <1>1, LenProperties
<1>3. effects[k] \in Effect
  BY <1>1, <1>2, ElementOfSeq
<1>4. effects[k].id \in Ids /\ effects[k].inverts \in ById
  BY <1>3 DEF Effect
<1>5. QED
  BY <1>2, <1>3, <1>4, IdParts DEF ById

LEMMA StepFacts ==
  ASSUME TypeInv, NEW a \in Actors, NEW new, NEW pcs, Steps(a, new, pcs)
  PROVE  /\ op'[a] = new /\ \A b \in Actors : b # a => op'[b] = op[b]
         /\ new.pc \in pcs /\ new.n = op[a].n
         /\ new.pc # "idle" =>
              /\ op[a].pc # "idle" /\ new.attr = op[a].attr /\ new.value = op[a].value
              /\ new.target = op[a].target /\ new.host = op[a].host
              /\ new.inverts = op[a].inverts /\ new.named = op[a].named
<1>1. Later(a, new) /\ op' = [op EXCEPT ![a] = new] /\ new.pc \in pcs
  BY DEF Steps
<1>2. new.n = op[a].n
  BY <1>1, LaterType
<1>3. op[a].n \in Nat
  BY OpType
<1>4. Idle(op[a].n).pc = "idle"
  BY <1>3, IdleType
<1>5. QED
  BY <1>1, <1>2, <1>4, StateType, OpType DEF Later

LEMMA MovesKeep ==
  ASSUME OriginInv, NEW a \in Actors, NEW new, Moves(a, new), TypeInv'
  PROVE  OriginInv'
<1>0. TypeInv
  BY DEF OriginInv
<1>1. /\ op'[a] = new /\ \A b \in Actors : b # a => op'[b] = op[b]
      /\ new.n = op[a].n
      /\ new.pc # "idle" =>
           /\ op[a].pc # "idle" /\ new.attr = op[a].attr /\ new.value = op[a].value
           /\ new.target = op[a].target /\ new.host = op[a].host
           /\ new.inverts = op[a].inverts /\ new.named = op[a].named
  BY <1>0, StepFacts DEF Moves
<1>2. /\ new.pc \in {"get", "put"} => op[a].pc = "get"
      /\ op[a].pc \in {"idle", "finish", "mark"} => new.pc \in {"idle", "finish", "mark"}
      /\ effects' = effects /\ saved' = saved
  BY DEF Moves
<1>3. \A i \in Ids : /\ Present(i)' <=> Present(i)
                     /\ tokens'[i].attr = tokens[i].attr /\ tokens'[i].value = tokens[i].value
                     /\ tokens'[i].target = tokens[i].target
  BY DEF Moves, TokensKept
<1>4. \A b \in Actors : op'[b].n = op[b].n
  BY <1>1
<1>5. TokensOfPast'
  <2>1. ASSUME NEW i \in Ids, Present(i)'
        PROVE  /\ i[2] <= op'[i[1]].n
               /\ i[2] = op'[i[1]].n => op'[i[1]].pc \in {"idle", "finish", "mark"}
    <3>1. i[1] \in Actors /\ Present(i)
      BY <1>3, <2>1, IdParts
    <3>2. /\ i[2] <= op[i[1]].n
          /\ i[2] = op[i[1]].n => op[i[1]].pc \in {"idle", "finish", "mark"}
      BY <3>1 DEF OriginInv, TokensOfPast
    <3>3. QED
      BY <1>1, <1>2, <1>4, <3>1, <3>2
  <2>2. QED
    BY <2>1 DEF TokensOfPast
<1>6. EffectsOfPast'
  <2>1. ASSUME NEW k \in DOMAIN effects, NEW e, e = effects[k]
        PROVE  /\ e.id[2] <= op'[e.id[1]].n
               /\ e.id[2] = op'[e.id[1]].n =>
                    /\ op'[e.id[1]].pc \notin {"get", "put"}
                    /\ op'[e.id[1]].pc # "idle" => op'[e.id[1]].host = e.host
                                                   /\ op'[e.id[1]].attr = e.attr
    <3>1. e.id[1] \in Actors
      BY <1>0, <2>1, EffectType
    <3>2. /\ e.id[2] <= op[e.id[1]].n
          /\ e.id[2] = op[e.id[1]].n =>
               /\ op[e.id[1]].pc \notin {"get", "put"}
               /\ op[e.id[1]].pc # "idle" => op[e.id[1]].host = e.host
                                              /\ op[e.id[1]].attr = e.attr
      BY <2>1 DEF OriginInv, EffectsOfPast, Busy
    <3>3. QED
      BY <1>1, <1>2, <1>4, <3>1, <3>2
  <2>2. QED
    BY <1>2, <2>1 DEF EffectsOfPast, Busy
<1>7. CallsFollowTokens'
  <2>1. ASSUME NEW b \in Actors, op'[b].pc # "idle"
        PROVE  /\ OnTarget(saved, op'[b].target, op'[b].host)
               /\ op'[b].inverts # NoOp =>
                    /\ tokens'[op'[b].inverts].status # "none"
                    /\ op'[b].attr = tokens'[op'[b].inverts].attr
                    /\ op'[b].value = tokens'[op'[b].inverts].value
                    /\ ~op'[b].named => op'[b].target = tokens'[op'[b].inverts].target
    <3>1. /\ op[b].pc # "idle" /\ op'[b].target = op[b].target /\ op'[b].host = op[b].host
          /\ op'[b].inverts = op[b].inverts /\ op'[b].attr = op[b].attr
          /\ op'[b].value = op[b].value /\ op'[b].named = op[b].named
      BY <1>1, <2>1
    <3>2. PICK i : i = op[b].inverts
      OBVIOUS
    <3>3. i # NoOp => i \in Ids
      BY <1>0, <3>2, OpType DEF ById
    <3>4. /\ OnTarget(saved, op[b].target, op[b].host)
          /\ i # NoOp => /\ Present(i) /\ op[b].attr = tokens[i].attr
                         /\ op[b].value = tokens[i].value
                         /\ ~op[b].named => op[b].target = tokens[i].target
      BY <3>1, <3>2 DEF OriginInv, CallsFollowTokens, Busy
    <3>5. i # NoOp => /\ Present(i)' /\ op[b].attr = tokens'[i].attr
                      /\ op[b].value = tokens'[i].value
                      /\ ~op[b].named => op[b].target = tokens'[i].target
      BY <1>3, <3>3, <3>4
    <3>6. QED
      BY <3>1, <3>2, <3>4, <3>5 DEF Present
  <2>2. QED
    BY <1>2, <2>1 DEF CallsFollowTokens, Busy, Present
<1>8. TokensTell'
  <2>1. ASSUME NEW k \in DOMAIN effects, NEW e, e = effects[k], Present(e.id)'
        PROVE  /\ e.attr = tokens'[e.id].attr
               /\ OnTarget(saved, tokens'[e.id].target, e.host)
    <3>1. e.id \in Ids
      BY <1>0, <2>1, EffectType
    <3>2. QED
      BY <1>3, <2>1, <3>1 DEF OriginInv, TokensTell
  <2>2. QED
    BY <1>2, <2>1 DEF TokensTell, Present
<1>9. InversesFollowTokens'
  <2>1. ASSUME NEW k \in DOMAIN effects, NEW e, e = effects[k], e.inverts # NoOp
        PROVE  /\ Present(e.inverts)'
               /\ e.attr = tokens'[e.inverts].attr /\ e.to = tokens'[e.inverts].value
               /\ ~e.named => OnTarget(saved, tokens'[e.inverts].target, e.host)
               /\ \A j \in EffectsOf(e.inverts) : j < k
    <3>1. e.inverts \in Ids
      BY <1>0, <2>1, EffectType
    <3>2. QED
      BY <1>3, <2>1, <3>1 DEF OriginInv, InversesFollowTokens
  <2>2. QED
    BY <1>2, <2>1 DEF InversesFollowTokens, Present, EffectsOf
<1>10. QED
  BY <1>5, <1>6, <1>7, <1>8, <1>9 DEF OriginInv

LEMMA OnTargetStays ==
  ASSUME NEW s, NEW t, Entries(s) \subseteq Entries(t), NEW target, NEW host,
         OnTarget(s, target, host)
  PROVE  OnTarget(t, target, host)
BY DEF OnTarget

LEMMA RestsKeeps == ASSUME OriginInv, Rests, TypeInv' PROVE OriginInv'
<1>1. UNCHANGED <<op, tokens, effects>> /\ Entries(saved) \subseteq Entries(saved')
  BY DEF Rests
<1>2. TokensOfPast' /\ EffectsOfPast'
  BY <1>1 DEF OriginInv, TokensOfPast, EffectsOfPast, Busy, Present
<1>3. CallsFollowTokens'
  BY <1>1, OnTargetStays DEF OriginInv, CallsFollowTokens, Busy, Present
<1>4. TokensTell'
  BY <1>1, OnTargetStays DEF OriginInv, TokensTell, Present
<1>5. InversesFollowTokens'
  BY <1>1, OnTargetStays DEF OriginInv, InversesFollowTokens, Present, EffectsOf
<1>6. QED
  BY <1>2, <1>3, <1>4, <1>5 DEF OriginInv

\* The effects after one more.
LEMMA EffectsGrow ==
  ASSUME TypeInv, NEW a \in Actors, op[a].pc = "put", Apply(a)
  PROVE  LET last == Len(effects) + 1 IN
         /\ last \in Nat /\ DOMAIN effects' = DOMAIN effects \cup {last}
         /\ effects'[last] = NewEffect(a)
         /\ \A k \in DOMAIN effects : effects'[k] = effects[k] /\ k < last
<1>1. effects \in Seq(Effect) /\ Len(effects) \in Nat /\ DOMAIN effects = 1..Len(effects)
  BY StateType, LenProperties
<1>2. PICK e \in Effect : e = NewEffect(a) /\ effects' = Append(effects, e)
  BY ApplyType
<1>3. /\ effects' \in Seq(Effect) /\ Len(effects') = Len(effects) + 1
      /\ effects'[Len(effects) + 1] = e
      /\ \A k \in 1..Len(effects) : effects'[k] = effects[k]
  BY <1>1, <1>2, AppendProperties
<1>4. DOMAIN effects' = 1..(Len(effects) + 1)
  BY <1>3, LenProperties
<1>5. QED
  BY <1>1, <1>2, <1>3, <1>4

LEMMA TakesEffectKeeps ==
  ASSUME OriginInv, NEW a \in Actors, NEW new, TakesEffect(a, new), TypeInv'
  PROVE  OriginInv'
<1>0. TypeInv
  BY DEF OriginInv
<1>1. /\ op'[a] = new /\ \A b \in Actors : b # a => op'[b] = op[b]
      /\ new.n = op[a].n /\ new.pc \in {"readback", "record", "finish"}
      /\ new.attr = op[a].attr /\ new.value = op[a].value
      /\ new.target = op[a].target /\ new.host = op[a].host
      /\ new.inverts = op[a].inverts /\ new.named = op[a].named
  BY <1>0, StepFacts DEF TakesEffect
<1>2. op[a].pc = "put" /\ tokens' = tokens /\ Apply(a) /\ saved' = saved
  BY DEF TakesEffect
<1>3. PICK last \in Nat : last = Len(effects) + 1
  BY <1>0, StateType, LenProperties
<1>4. PICK e0 : e0 = NewEffect(a)
  OBVIOUS
<1>5. /\ e0.id = Id(a) /\ e0.attr = op[a].attr /\ e0.host = op[a].host
      /\ e0.to = op[a].value /\ e0.inverts = op[a].inverts /\ e0.named = op[a].named
  BY <1>4 DEF NewEffect
<1>6. /\ DOMAIN effects' = DOMAIN effects \cup {last} /\ effects'[last] = e0
      /\ \A k \in DOMAIN effects : effects'[k] = effects[k] /\ k < last
  BY <1>0, <1>2, <1>3, <1>4, EffectsGrow
<1>7. Id(a) \in Ids /\ Id(a)[1] = a /\ Id(a)[2] = op[a].n /\ op[a].n \in Nat
  BY <1>0, <1>2, OpType
<1>8. ~Present(Id(a))
  BY <1>2, <1>7 DEF OriginInv, TokensOfPast
<1>9. \A b \in Actors : op'[b].n = op[b].n
  BY <1>1
<1>10. TokensOfPast'
  <2>1. ASSUME NEW i \in Ids, Present(i)
        PROVE  /\ i[2] <= op'[i[1]].n
               /\ i[2] = op'[i[1]].n => op'[i[1]].pc \in {"idle", "finish", "mark"}
    <3>1. /\ i[1] \in Actors /\ i[2] <= op[i[1]].n
          /\ i[2] = op[i[1]].n => op[i[1]].pc \in {"idle", "finish", "mark"}
      BY <2>1, IdParts DEF OriginInv, TokensOfPast
    <3>2. QED
      BY <1>1, <1>2, <1>9, <3>1
  <2>2. QED
    BY <1>2, <2>1 DEF TokensOfPast, Present
<1>11. EffectsOfPast'
  <2>1. ASSUME NEW k \in DOMAIN effects', NEW e, e = effects'[k]
        PROVE  /\ e.id[2] <= op'[e.id[1]].n
               /\ e.id[2] = op'[e.id[1]].n =>
                    /\ op'[e.id[1]].pc \notin {"get", "put"}
                    /\ op'[e.id[1]].pc # "idle" => op'[e.id[1]].host = e.host
                                                   /\ op'[e.id[1]].attr = e.attr
    <3>1. CASE k = last
      BY <1>1, <1>5, <1>6, <1>7, <2>1, <3>1
    <3>2. CASE k \in DOMAIN effects
      <4>1. e = effects[k] /\ e.id[1] \in Actors
        BY <1>0, <1>6, <2>1, <3>2, EffectType
      <4>2. /\ e.id[2] <= op[e.id[1]].n
            /\ e.id[2] = op[e.id[1]].n =>
                 /\ op[e.id[1]].pc \notin {"get", "put"}
                 /\ op[e.id[1]].pc # "idle" => op[e.id[1]].host = e.host
                                                /\ op[e.id[1]].attr = e.attr
        BY <3>2, <4>1 DEF OriginInv, EffectsOfPast, Busy
      <4>3. QED
        BY <1>1, <1>2, <1>9, <4>1, <4>2
    <3>3. QED
      BY <1>6, <2>1, <3>1, <3>2
  <2>2. QED
    BY <2>1 DEF EffectsOfPast, Busy
<1>12. CallsFollowTokens'
  <2>1. ASSUME NEW b \in Actors, op'[b].pc # "idle"
        PROVE  /\ OnTarget(saved, op'[b].target, op'[b].host)
               /\ op'[b].inverts # NoOp =>
                    /\ tokens[op'[b].inverts].status # "none"
                    /\ op'[b].attr = tokens[op'[b].inverts].attr
                    /\ op'[b].value = tokens[op'[b].inverts].value
                    /\ ~op'[b].named => op'[b].target = tokens[op'[b].inverts].target
    <3>1. /\ op[b].pc # "idle" /\ op'[b].target = op[b].target /\ op'[b].host = op[b].host
          /\ op'[b].inverts = op[b].inverts /\ op'[b].attr = op[b].attr
          /\ op'[b].value = op[b].value /\ op'[b].named = op[b].named
      BY <1>1, <1>2, <2>1
    <3>2. QED
      BY <3>1 DEF OriginInv, CallsFollowTokens, Busy, Present
  <2>2. QED
    BY <1>2, <2>1 DEF CallsFollowTokens, Busy, Present
<1>13. TokensTell'
  <2>1. ASSUME NEW k \in DOMAIN effects', NEW e, e = effects'[k], Present(e.id)
        PROVE  /\ e.attr = tokens[e.id].attr
               /\ OnTarget(saved, tokens[e.id].target, e.host)
    BY <1>5, <1>6, <1>8, <2>1 DEF OriginInv, TokensTell
  <2>2. QED
    BY <1>2, <2>1 DEF TokensTell, Present
<1>14. InversesFollowTokens'
  <2>1. ASSUME NEW k \in DOMAIN effects', NEW e, e = effects'[k], e.inverts # NoOp
        PROVE  /\ Present(e.inverts)
               /\ e.attr = tokens[e.inverts].attr /\ e.to = tokens[e.inverts].value
               /\ ~e.named => OnTarget(saved, tokens[e.inverts].target, e.host)
               /\ \A j \in DOMAIN effects' : effects'[j].id = e.inverts => j < k
    <3>1. CASE k = last
      <4>1. e = e0 /\ e.inverts = op[a].inverts
        BY <1>5, <1>6, <2>1, <3>1
      <4>2. /\ OnTarget(saved, op[a].target, op[a].host)
            /\ Present(e.inverts) /\ op[a].attr = tokens[e.inverts].attr
            /\ op[a].value = tokens[e.inverts].value
            /\ ~op[a].named => op[a].target = tokens[e.inverts].target
        BY <1>2, <2>1, <4>1 DEF OriginInv, CallsFollowTokens, Busy
      <4>3. e.inverts # Id(a)
        BY <1>8, <4>2
      <4>4. \A j \in DOMAIN effects' : effects'[j].id = e.inverts => j < k
        BY <1>5, <1>6, <3>1, <4>3
      <4>5. QED
        BY <1>5, <4>1, <4>2, <4>4
    <3>2. CASE k \in DOMAIN effects
      <4>1. e = effects[k]
        BY <1>6, <2>1, <3>2
      <4>2. /\ Present(e.inverts)
            /\ e.attr = tokens[e.inverts].attr /\ e.to = tokens[e.inverts].value
            /\ ~e.named => OnTarget(saved, tokens[e.inverts].target, e.host)
            /\ \A j \in DOMAIN effects : effects[j].id = e.inverts => j < k
        BY <2>1, <3>2, <4>1 DEF OriginInv, InversesFollowTokens, EffectsOf
      <4>3. \A j \in DOMAIN effects' : effects'[j].id = e.inverts => j < k
        BY <1>5, <1>6, <1>8, <4>2
      <4>4. QED
        BY <4>2, <4>3
    <3>3. QED
      BY <1>6, <2>1, <3>1, <3>2
  <2>2. QED
    BY <1>2, <2>1 DEF InversesFollowTokens, Present, EffectsOf
<1>15. QED
  BY <1>10, <1>11, <1>12, <1>13, <1>14 DEF OriginInv

LEMMA RecordedToken ==
  ASSUME TypeInv, NEW a \in Actors, op[a].pc # "idle",
         tokens' = [tokens EXCEPT ![Id(a)] = Recorded(a)]
  PROVE  /\ tokens'[Id(a)].status = "recorded" /\ tokens'[Id(a)].attr = op[a].attr
         /\ tokens'[Id(a)].value = op[a].prior /\ tokens'[Id(a)].target = op[a].target
         /\ \A i \in Ids : i # Id(a) => tokens'[i] = tokens[i]
<1>1. PICK t : t = Recorded(a)
  OBVIOUS
<1>2. /\ t.status = "recorded" /\ t.attr = op[a].attr /\ t.value = op[a].prior
      /\ t.target = op[a].target
  BY <1>1 DEF Recorded
<1>3. Id(a) \in Ids
  BY OpType
<1>4. tokens'[Id(a)] = t /\ \A i \in Ids : i # Id(a) => tokens'[i] = tokens[i]
  BY <1>1, <1>3, StateType
<1>5. QED
  BY <1>2, <1>4

LEMMA RecordsTokenKeeps ==
  ASSUME OriginInv, NEW a \in Actors, NEW new, RecordsToken(a, new), TypeInv'
  PROVE  OriginInv'
<1>0. TypeInv
  BY DEF OriginInv
<1>1. /\ op'[a] = new /\ \A b \in Actors : b # a => op'[b] = op[b]
      /\ new.n = op[a].n /\ new.pc = "finish"
      /\ new.attr = op[a].attr /\ new.value = op[a].value
      /\ new.target = op[a].target /\ new.host = op[a].host
      /\ new.inverts = op[a].inverts /\ new.named = op[a].named
  BY <1>0, StepFacts DEF RecordsToken
<1>2. op[a].pc = "record" /\ effects' = effects /\ saved' = saved
  BY DEF RecordsToken
<1>3. Id(a) \in Ids /\ Id(a)[1] = a /\ Id(a)[2] = op[a].n /\ op[a].n \in Nat
  BY <1>0, <1>2, OpType
<1>4. ~Present(Id(a))
  BY <1>2, <1>3 DEF OriginInv, TokensOfPast
<1>5. /\ tokens'[Id(a)].status = "recorded" /\ tokens'[Id(a)].attr = op[a].attr
      /\ tokens'[Id(a)].target = op[a].target
      /\ \A i \in Ids : i # Id(a) => tokens'[i] = tokens[i]
  BY <1>0, <1>2, RecordedToken DEF RecordsToken
<1>6. \A i \in Ids : Present(i) => i # Id(a) /\ tokens'[i] = tokens[i]
  BY <1>4, <1>5
<1>7. \A b \in Actors : op'[b].n = op[b].n
  BY <1>1
<1>8. TokensOfPast'
  <2>1. ASSUME NEW i \in Ids, tokens'[i].status # "none"
        PROVE  /\ i[2] <= op'[i[1]].n
               /\ i[2] = op'[i[1]].n => op'[i[1]].pc \in {"idle", "finish", "mark"}
    <3>1. CASE i = Id(a)
      BY <1>1, <1>3, <3>1
    <3>2. CASE i # Id(a)
      <4>1. i[1] \in Actors /\ Present(i)
        BY <1>5, <2>1, <3>2, IdParts DEF Present
      <4>2. /\ i[2] <= op[i[1]].n
            /\ i[2] = op[i[1]].n => op[i[1]].pc \in {"idle", "finish", "mark"}
        BY <4>1 DEF OriginInv, TokensOfPast
      <4>3. QED
        BY <1>1, <1>7, <4>1, <4>2
    <3>3. QED
      BY <3>1, <3>2
  <2>2. QED
    BY <2>1 DEF TokensOfPast, Present
<1>9. EffectsOfPast'
  <2>1. ASSUME NEW k \in DOMAIN effects, NEW e, e = effects[k]
        PROVE  /\ e.id[2] <= op'[e.id[1]].n
               /\ e.id[2] = op'[e.id[1]].n =>
                    /\ op'[e.id[1]].pc \notin {"get", "put"}
                    /\ op'[e.id[1]].pc # "idle" => op'[e.id[1]].host = e.host
                                                   /\ op'[e.id[1]].attr = e.attr
    <3>1. e.id[1] \in Actors
      BY <1>0, <2>1, EffectType
    <3>2. /\ e.id[2] <= op[e.id[1]].n
          /\ e.id[2] = op[e.id[1]].n =>
               /\ op[e.id[1]].pc \notin {"get", "put"}
               /\ op[e.id[1]].pc # "idle" => op[e.id[1]].host = e.host
                                              /\ op[e.id[1]].attr = e.attr
      BY <2>1 DEF OriginInv, EffectsOfPast, Busy
    <3>3. QED
      BY <1>1, <1>2, <1>7, <3>1, <3>2
  <2>2. QED
    BY <1>2, <2>1 DEF EffectsOfPast, Busy
<1>10. CallsFollowTokens'
  <2>1. ASSUME NEW b \in Actors, op'[b].pc # "idle"
        PROVE  /\ OnTarget(saved, op'[b].target, op'[b].host)
               /\ op'[b].inverts # NoOp =>
                    /\ tokens'[op'[b].inverts].status # "none"
                    /\ op'[b].attr = tokens'[op'[b].inverts].attr
                    /\ op'[b].value = tokens'[op'[b].inverts].value
                    /\ ~op'[b].named => op'[b].target = tokens'[op'[b].inverts].target
    <3>1. /\ op[b].pc # "idle" /\ op'[b].target = op[b].target /\ op'[b].host = op[b].host
          /\ op'[b].inverts = op[b].inverts /\ op'[b].attr = op[b].attr
          /\ op'[b].value = op[b].value /\ op'[b].named = op[b].named
      BY <1>1, <1>2, <2>1
    <3>2. PICK i : i = op[b].inverts
      OBVIOUS
    <3>3. i # NoOp => i \in Ids
      BY <1>0, <3>2, OpType DEF ById
    <3>4. /\ OnTarget(saved, op[b].target, op[b].host)
          /\ i # NoOp => /\ Present(i) /\ op[b].attr = tokens[i].attr
                         /\ op[b].value = tokens[i].value
                         /\ ~op[b].named => op[b].target = tokens[i].target
      BY <3>1, <3>2 DEF OriginInv, CallsFollowTokens, Busy
    <3>5. i # NoOp => /\ tokens'[i].status # "none" /\ op[b].attr = tokens'[i].attr
                      /\ op[b].value = tokens'[i].value
                      /\ ~op[b].named => op[b].target = tokens'[i].target
      BY <1>6, <3>3, <3>4 DEF Present
    <3>6. QED
      BY <3>1, <3>2, <3>4, <3>5
  <2>2. QED
    BY <1>2, <2>1 DEF CallsFollowTokens, Busy, Present
<1>11. TokensTell'
  <2>1. ASSUME NEW k \in DOMAIN effects, NEW e, e = effects[k], tokens'[e.id].status # "none"
        PROVE  /\ e.attr = tokens'[e.id].attr
               /\ OnTarget(saved, tokens'[e.id].target, e.host)
    <3>1. e.id \in Ids
      BY <1>0, <2>1, EffectType
    <3>2. CASE e.id = Id(a)
      <4>1. op[a].host = e.host /\ op[a].attr = e.attr
        BY <1>2, <1>3, <2>1, <3>2 DEF OriginInv, EffectsOfPast, Busy
      <4>2. OnTarget(saved, op[a].target, op[a].host)
        BY <1>2 DEF OriginInv, CallsFollowTokens, Busy
      <4>3. QED
        BY <1>5, <3>2, <4>1, <4>2
    <3>3. CASE e.id # Id(a)
      <4>1. tokens'[e.id] = tokens[e.id]
        BY <1>5, <3>1, <3>3
      <4>2. QED
        BY <2>1, <4>1 DEF OriginInv, TokensTell, Present
    <3>4. QED
      BY <3>2, <3>3
  <2>2. QED
    BY <1>2, <2>1 DEF TokensTell, Present
<1>12. InversesFollowTokens'
  <2>1. ASSUME NEW k \in DOMAIN effects, NEW e, e = effects[k], e.inverts # NoOp
        PROVE  /\ tokens'[e.inverts].status # "none"
               /\ e.attr = tokens'[e.inverts].attr /\ e.to = tokens'[e.inverts].value
               /\ ~e.named => OnTarget(saved, tokens'[e.inverts].target, e.host)
               /\ \A j \in EffectsOf(e.inverts) : j < k
    <3>1. e.inverts \in Ids
      BY <1>0, <2>1, EffectType
    <3>2. /\ Present(e.inverts)
          /\ e.attr = tokens[e.inverts].attr /\ e.to = tokens[e.inverts].value
          /\ ~e.named => OnTarget(saved, tokens[e.inverts].target, e.host)
          /\ \A j \in EffectsOf(e.inverts) : j < k
      BY <2>1 DEF OriginInv, InversesFollowTokens
    <3>3. tokens'[e.inverts] = tokens[e.inverts]
      BY <1>6, <3>1, <3>2
    <3>4. QED
      BY <3>2, <3>3 DEF Present
  <2>2. QED
    BY <1>2, <2>1 DEF InversesFollowTokens, Present, EffectsOf
<1>13. QED
  BY <1>8, <1>9, <1>10, <1>11, <1>12 DEF OriginInv

LEMMA BeginsKeeps ==
  ASSUME OriginInv, NEW a \in Actors, NEW new, Begins(a, new), TypeInv'
  PROVE  OriginInv'
<1>0. TypeInv
  BY DEF OriginInv
<1>1. /\ op'[a] = new /\ \A b \in Actors : b # a => op'[b] = op[b]
      /\ new.n = op[a].n + 1 /\ op[a].n \in Nat
  BY <1>0, OpType DEF Begins
<1>2. tokens' = tokens /\ effects' = effects /\ saved' = saved
  BY DEF Begins
<1>3. TokensOfPast'
  <2>1. ASSUME NEW i \in Ids, Present(i)
        PROVE  /\ i[2] <= op'[i[1]].n
               /\ i[2] = op'[i[1]].n => op'[i[1]].pc \in {"idle", "finish", "mark"}
    <3>1. /\ i[1] \in Actors /\ i[2] \in Nat /\ i[2] <= op[i[1]].n
          /\ i[2] = op[i[1]].n => op[i[1]].pc \in {"idle", "finish", "mark"}
      BY <2>1, IdParts DEF OriginInv, TokensOfPast
    <3>2. CASE i[1] = a
      BY <1>1, <3>1, <3>2
    <3>3. CASE i[1] # a
      BY <1>1, <3>1, <3>3
    <3>4. QED
      BY <3>2, <3>3
  <2>2. QED
    BY <1>2, <2>1 DEF TokensOfPast, Present
<1>4. EffectsOfPast'
  <2>1. ASSUME NEW k \in DOMAIN effects, NEW e, e = effects[k]
        PROVE  /\ e.id[2] <= op'[e.id[1]].n
               /\ e.id[2] = op'[e.id[1]].n =>
                    /\ op'[e.id[1]].pc \notin {"get", "put"}
                    /\ op'[e.id[1]].pc # "idle" => op'[e.id[1]].host = e.host
                                                   /\ op'[e.id[1]].attr = e.attr
    <3>1. e.id[1] \in Actors /\ e.id[2] \in Nat
      BY <1>0, <2>1, EffectType
    <3>2. /\ e.id[2] <= op[e.id[1]].n
          /\ e.id[2] = op[e.id[1]].n =>
               /\ op[e.id[1]].pc \notin {"get", "put"}
               /\ op[e.id[1]].pc # "idle" => op[e.id[1]].host = e.host
                                              /\ op[e.id[1]].attr = e.attr
      BY <2>1 DEF OriginInv, EffectsOfPast, Busy
    <3>3. CASE e.id[1] = a
      BY <1>1, <3>1, <3>2, <3>3
    <3>4. CASE e.id[1] # a
      BY <1>1, <3>1, <3>2, <3>4
    <3>5. QED
      BY <3>3, <3>4
  <2>2. QED
    BY <1>2, <2>1 DEF EffectsOfPast, Busy
<1>5. CallsFollowTokens'
  <2>1. ASSUME NEW b \in Actors, op'[b].pc # "idle"
        PROVE  /\ OnTarget(saved, op'[b].target, op'[b].host)
               /\ op'[b].inverts # NoOp =>
                    /\ tokens[op'[b].inverts].status # "none"
                    /\ op'[b].attr = tokens[op'[b].inverts].attr
                    /\ op'[b].value = tokens[op'[b].inverts].value
                    /\ ~op'[b].named => op'[b].target = tokens[op'[b].inverts].target
    <3>1. CASE b = a
      BY <1>1, <3>1 DEF Begins
    <3>2. CASE b # a
      BY <1>1, <2>1, <3>2 DEF OriginInv, CallsFollowTokens, Busy, Present
    <3>3. QED
      BY <3>1, <3>2
  <2>2. QED
    BY <1>2, <2>1 DEF CallsFollowTokens, Busy, Present
<1>6. TokensTell' /\ InversesFollowTokens'
  BY <1>2 DEF OriginInv, TokensTell, InversesFollowTokens, Present, EffectsOf
<1>7. QED
  BY <1>3, <1>4, <1>5, <1>6 DEF OriginInv

LEMMA OriginStep == ASSUME OriginInv, [Next]_vars PROVE OriginInv'
<1>1. TypeInv /\ CallsFollowTokens
  BY DEF OriginInv
<1>2. TypeInv'
  BY <1>1, NextType
<1>3. \/ \E a \in Actors : \E new :
           Moves(a, new) \/ TakesEffect(a, new) \/ RecordsToken(a, new) \/ Begins(a, new)
      \/ Rests
  BY <1>1, NextSteps
<1>4. QED
  BY <1>2, <1>3, MovesKeep, TakesEffectKeeps, RecordsTokenKeeps, BeginsKeeps, RestsKeeps

LEMMA OriginInit == Init => OriginInv
<1> SUFFICES ASSUME Init PROVE OriginInv
  OBVIOUS
<1>1. TypeInv
  BY InitType
<1>2. \A a \in Actors : op[a].pc = "idle"
  BY IdleType DEF Init
<1>3. \A i \in Ids : ~Present(i)
  BY DEF Init, NoToken, Present
<1>4. effects = <<>> /\ DOMAIN effects = {}
  BY DEF Init
<1>5. QED
  BY <1>1, <1>2, <1>3, <1>4
  DEF OriginInv, TokensOfPast, EffectsOfPast, CallsFollowTokens, TokensTell,
      InversesFollowTokens, Busy

\* A name that has had one host only tells where its calls ran.
LEMMA OneHost ==
  ASSUME NEW name \in Names, ~Repointed(name), NEW g \in Hosts, NEW h \in Hosts,
         OnTarget(saved, name, g), OnTarget(saved, name, h)
  PROVE  g = h
<1>1. /\ [name |-> name, host |-> g] \in Entries(saved)
      /\ [name |-> name, host |-> h] \in Entries(saved)
  BY HostsAssumption DEF OnTarget
<1>2. PICK i \in DOMAIN saved, j \in DOMAIN saved :
        saved[i] = [name |-> name, host |-> g] /\ saved[j] = [name |-> name, host |-> h]
  BY <1>1 DEF Entries
<1>3. saved[i].name = name /\ saved[j].name = name /\ saved[i].host = g /\ saved[j].host = h
  BY <1>2
<1>4. QED
  BY <1>3 DEF Repointed

LEMMA OriginHolds == OriginInv => NamedOriginIsKept
<1> SUFFICES ASSUME OriginInv, NEW i \in DOMAIN effects, IsInverse(i), ~effects[i].named,
                    NEW j \in EffectsOf(effects[i].inverts), NEW name,
                    name = tokens[effects[i].inverts].target,
                    name # NoTarget, ~Repointed(name)
             PROVE  effects[i].host = effects[j].host
  BY DEF NamedOriginIsKept
<1>1. Present(effects[i].inverts) /\ OnTarget(saved, name, effects[i].host)
  BY DEF OriginInv, InversesFollowTokens, IsInverse
<1>2. j \in DOMAIN effects /\ effects[j].id = effects[i].inverts
  BY DEF EffectsOf
<1>3. OnTarget(saved, name, effects[j].host)
  BY <1>1, <1>2 DEF OriginInv, TokensTell
<1>4. effects[i] \in Effect /\ effects[j] \in Effect /\ effects[j].id \in Ids
  BY <1>2, EffectType DEF OriginInv
<1>5. effects[i].host \in Hosts /\ effects[j].host \in Hosts
  BY <1>4 DEF Effect
<1>6. tokens[effects[j].id] \in Token
  BY <1>4, StateType DEF OriginInv
<1>7. name \in Names
  BY <1>2, <1>6 DEF Token
<1>8. QED
  BY <1>1, <1>3, <1>5, <1>7, OneHost

\* Whoever writes beside the operator, whatever fails, whatever the default has
\* become and whatever other names `init` has overwritten or lost: the inverse of a
\* write that named its target runs on the host of that write (tools/undo.py:90),
\* unless `init` has given the name another base_url.
THEOREM NamedOriginIsKeptHolds == Spec => []NamedOriginIsKept
<1>1. Init => OriginInv
  BY OriginInit
<1>2. OriginInv /\ [Next]_vars => OriginInv'
  BY OriginStep
<1>3. QED
  BY <1>1, <1>2, OriginHolds, PTL DEF Spec
----------------------------------------------------------------------------
(* What an inverse puts back, with one operator.                           *)

\* The prior value is the current one until the request, and the one the effect
\* of the call replaced after it.
PriorIsCurrent == \A a \in Actors : op[a].pc = "put" => op[a].prior = Current(a)
EffectsFromPrior ==
  \A k \in DOMAIN effects : LET e == effects[k] IN
    Busy(e.id[1]) /\ e.id[2] = op[e.id[1]].n => e.from = op[e.id[1]].prior

\* A token holds the value its call replaced.
TokensHoldPrior ==
  \A k \in DOMAIN effects : LET e == effects[k] IN Present(e.id) => tokens[e.id].value = e.from

\* A call that reports success has been believed with reason.
SuccessInPlace ==
  \A a \in Actors :
    op[a].pc = "record" \/ (op[a].pc = "finish" /\ op[a].verdict = "ok") =>
      Current(a) = op[a].value

OneInv == OriginInv /\ PriorIsCurrent /\ EffectsFromPrior /\ TokensHoldPrior /\ SuccessInPlace

OneOperator == \E a : Actors = {a}

LEMMA SameActor == ASSUME OneOperator, NEW a \in Actors PROVE Actors = {a}
  BY DEF OneOperator

LEMMA OneRests ==
  ASSUME OneInv, Rests, OriginInv' PROVE OneInv'
  BY DEF Rests, OneInv, PriorIsCurrent, EffectsFromPrior, TokensHoldPrior, SuccessInPlace, Busy,
         Present, Current

LEMMA OneMoves ==
  ASSUME OneOperator, OneInv, NEW a \in Actors, NEW new, Moves(a, new), OriginInv'
  PROVE  OneInv'
<1>0. TypeInv /\ Actors = {a}
  BY SameActor DEF OneInv, OriginInv
<1>1. /\ op'[a] = new /\ new.n = op[a].n
      /\ new.pc # "idle" =>
           /\ op[a].pc # "idle" /\ new.attr = op[a].attr /\ new.value = op[a].value
           /\ new.host = op[a].host
  BY <1>0, StepFacts DEF Moves
<1>2. /\ new.pc \in {"get", "put"} => op[a].pc = "get"
      /\ new.pc # "idle" /\ op[a].pc # "get" => new.prior = op[a].prior
      /\ new.pc = "put" => new.prior = Current(a)
      /\ new.pc = "record" \/ (new.pc = "finish" /\ new.verdict = "ok") =>
           Current(a) = op[a].value \/ op[a].pc = "record"
      /\ effects' = effects /\ live' = live
  BY DEF Moves
<1>3. \A i \in Ids : /\ tokens'[i].status # "none" <=> Present(i)
                     /\ tokens'[i].value = tokens[i].value
  BY DEF Moves, TokensKept, Present
<1>4. new.pc # "idle" => Current(a)' = Current(a)
  BY <1>1, <1>2 DEF Current
<1>5. PriorIsCurrent'
  BY <1>0, <1>1, <1>2, <1>4 DEF PriorIsCurrent
<1>6. EffectsFromPrior'
  <2>1. ASSUME NEW k \in DOMAIN effects, NEW e, e = effects[k],
               op'[e.id[1]].pc # "idle", e.id[2] = op'[e.id[1]].n
        PROVE  e.from = op'[e.id[1]].prior
    <3>1. e.id[1] = a
      BY <1>0, <2>1, EffectType
    <3>2. op[a].pc \notin {"get", "put", "idle"} /\ new.prior = op[a].prior
      BY <1>1, <1>2, <2>1, <3>1 DEF OneInv, OriginInv, EffectsOfPast
    <3>3. e.from = op[a].prior
      BY <1>1, <2>1, <3>1, <3>2 DEF OneInv, EffectsFromPrior, Busy
    <3>4. QED
      BY <1>1, <3>1, <3>2, <3>3
  <2>2. QED
    BY <1>2, <2>1 DEF EffectsFromPrior, Busy
<1>7. TokensHoldPrior'
  <2>1. ASSUME NEW k \in DOMAIN effects, NEW e, e = effects[k], tokens'[e.id].status # "none"
        PROVE  tokens'[e.id].value = e.from
    <3>1. e.id \in Ids
      BY <1>0, <2>1, EffectType
    <3>2. QED
      BY <1>3, <2>1, <3>1 DEF OneInv, TokensHoldPrior
  <2>2. QED
    BY <1>2, <2>1 DEF TokensHoldPrior, Present
<1>8. SuccessInPlace'
  <2>1. ASSUME new.pc = "record" \/ (new.pc = "finish" /\ new.verdict = "ok")
        PROVE  Current(a)' = new.value
    <3>1. Current(a) = op[a].value
      BY <1>2, <2>1 DEF OneInv, SuccessInPlace
    <3>2. QED
      BY <1>1, <1>4, <2>1, <3>1
  <2>2. QED
    BY <1>0, <1>1, <2>1 DEF SuccessInPlace
<1>9. QED
  BY <1>5, <1>6, <1>7, <1>8 DEF OneInv

LEMMA OneTakesEffect ==
  ASSUME OneOperator, OneInv, NEW a \in Actors, NEW new, TakesEffect(a, new), OriginInv'
  PROVE  OneInv'
<1>0. TypeInv /\ Actors = {a}
  BY SameActor DEF OneInv, OriginInv
<1>1. /\ op'[a] = new /\ new.n = op[a].n
      /\ new.pc \in {"readback", "record", "finish"} /\ new.pc # "idle"
      /\ new.attr = op[a].attr /\ new.value = op[a].value /\ new.host = op[a].host
  BY <1>0, StepFacts DEF TakesEffect
<1>2. /\ op[a].pc = "put" /\ tokens' = tokens /\ Apply(a)
      /\ new.prior = op[a].prior /\ (new.pc = "finish" => new.verdict = "error")
  BY DEF TakesEffect
<1>3. PICK last \in Nat : last = Len(effects) + 1
  BY <1>0, StateType, LenProperties
<1>4. PICK e0 : e0 = NewEffect(a)
  OBVIOUS
<1>5. e0.id = Id(a) /\ e0.from = Current(a)
  BY <1>4 DEF NewEffect
<1>6. /\ DOMAIN effects' = DOMAIN effects \cup {last} /\ effects'[last] = e0
      /\ \A k \in DOMAIN effects : effects'[k] = effects[k] /\ k < last
  BY <1>0, <1>2, <1>3, <1>4, EffectsGrow
<1>7. Id(a) \in Ids /\ Id(a)[1] = a /\ Id(a)[2] = op[a].n
  BY <1>0, <1>2, OpType
<1>8. ~Present(Id(a))
  BY <1>2, <1>7 DEF OneInv, OriginInv, TokensOfPast
<1>9. PriorIsCurrent'
  BY <1>0, <1>1 DEF PriorIsCurrent
<1>10. EffectsFromPrior'
  <2>1. ASSUME NEW k \in DOMAIN effects', NEW e, e = effects'[k], e.id[2] = op'[e.id[1]].n
        PROVE  e.from = op'[e.id[1]].prior
    <3>1. CASE k = last
      BY <1>1, <1>2, <1>5, <1>6, <1>7, <2>1, <3>1 DEF OneInv, PriorIsCurrent
    <3>2. CASE k \in DOMAIN effects
      <4>1. e = effects[k] /\ e.id[1] = a
        BY <1>0, <1>6, <2>1, <3>2, EffectType
      <4>2. QED
        BY <1>1, <1>2, <2>1, <3>2, <4>1 DEF OneInv, EffectsFromPrior, Busy
    <3>3. QED
      BY <1>6, <2>1, <3>1, <3>2
  <2>2. QED
    BY <2>1 DEF EffectsFromPrior
<1>11. TokensHoldPrior'
  <2>1. ASSUME NEW k \in DOMAIN effects', NEW e, e = effects'[k], Present(e.id)
        PROVE  tokens[e.id].value = e.from
    BY <1>5, <1>6, <1>8, <2>1 DEF OneInv, TokensHoldPrior
  <2>2. QED
    BY <1>2, <2>1 DEF TokensHoldPrior, Present
<1>12. SuccessInPlace'
  <2>1. Current(a)' = op[a].value
    <3>1. op[a].host \in Hosts /\ op[a].attr \in Attrs
      BY <1>0, <1>2, OpType
    <3>2. live \in [Hosts -> [Attrs -> Values]]
      BY <1>0, StateType
    <3>3. live' = [live EXCEPT ![op[a].host][op[a].attr] = op[a].value]
      BY <1>2 DEF Apply
    <3>4. live'[op[a].host][op[a].attr] = op[a].value
      BY <3>1, <3>2, <3>3
    <3>5. QED
      BY <1>1, <3>4 DEF Current
  <2>2. QED
    BY <1>0, <1>1, <2>1 DEF SuccessInPlace
<1>13. QED
  BY <1>9, <1>10, <1>11, <1>12 DEF OneInv

LEMMA OneRecordsToken ==
  ASSUME OneOperator, OneInv, NEW a \in Actors, NEW new, RecordsToken(a, new), OriginInv'
  PROVE  OneInv'
<1>0. TypeInv /\ Actors = {a}
  BY SameActor DEF OneInv, OriginInv
<1>1. /\ op'[a] = new /\ new.n = op[a].n /\ new.pc = "finish"
      /\ new.attr = op[a].attr /\ new.value = op[a].value /\ new.host = op[a].host
  BY <1>0, StepFacts DEF RecordsToken
<1>2. /\ op[a].pc = "record" /\ effects' = effects /\ live' = live
      /\ new.prior = op[a].prior
  BY DEF RecordsToken
<1>3. Id(a) \in Ids /\ Id(a)[1] = a /\ Id(a)[2] = op[a].n
  BY <1>0, <1>2, OpType
<1>4. /\ tokens'[Id(a)].value = op[a].prior
      /\ \A i \in Ids : i # Id(a) => tokens'[i] = tokens[i]
  BY <1>0, <1>2, RecordedToken DEF RecordsToken
<1>5. Current(a)' = Current(a)
  BY <1>1, <1>2 DEF Current
<1>6. PriorIsCurrent'
  BY <1>0, <1>1 DEF PriorIsCurrent
<1>7. EffectsFromPrior'
  <2>1. ASSUME NEW k \in DOMAIN effects, NEW e, e = effects[k], e.id[2] = op'[e.id[1]].n
        PROVE  e.from = op'[e.id[1]].prior
    <3>1. e.id[1] = a
      BY <1>0, <2>1, EffectType
    <3>2. QED
      BY <1>1, <1>2, <2>1, <3>1 DEF OneInv, EffectsFromPrior, Busy
  <2>2. QED
    BY <1>2, <2>1 DEF EffectsFromPrior
<1>8. TokensHoldPrior'
  <2>1. ASSUME NEW k \in DOMAIN effects, NEW e, e = effects[k], tokens'[e.id].status # "none"
        PROVE  tokens'[e.id].value = e.from
    <3>1. e.id \in Ids
      BY <1>0, <2>1, EffectType
    <3>2. CASE e.id = Id(a)
      BY <1>2, <1>3, <1>4, <2>1, <3>2 DEF OneInv, EffectsFromPrior, Busy
    <3>3. CASE e.id # Id(a)
      <4>1. tokens'[e.id] = tokens[e.id]
        BY <1>4, <3>1, <3>3
      <4>2. QED
        BY <2>1, <4>1 DEF OneInv, TokensHoldPrior, Present
    <3>4. QED
      BY <3>2, <3>3
  <2>2. QED
    BY <1>2, <2>1 DEF TokensHoldPrior, Present
<1>9. SuccessInPlace'
  BY <1>0, <1>1, <1>2, <1>5 DEF OneInv, SuccessInPlace
<1>10. QED
  BY <1>6, <1>7, <1>8, <1>9 DEF OneInv

LEMMA OneBegins ==
  ASSUME OneOperator, OneInv, NEW a \in Actors, NEW new, Begins(a, new), OriginInv'
  PROVE  OneInv'
<1>0. TypeInv /\ Actors = {a}
  BY SameActor DEF OneInv, OriginInv
<1>1. op'[a] = new /\ new.n = op[a].n + 1 /\ op[a].n \in Nat /\ new.pc = "get"
  BY <1>0, OpType DEF Begins
<1>2. tokens' = tokens /\ effects' = effects
  BY DEF Begins
<1>3. PriorIsCurrent' /\ SuccessInPlace'
  BY <1>0, <1>1 DEF PriorIsCurrent, SuccessInPlace
<1>4. EffectsFromPrior'
  <2>1. ASSUME NEW k \in DOMAIN effects, NEW e, e = effects[k]
        PROVE  e.id[1] = a /\ e.id[2] # op'[a].n
    <3>1. e.id[1] = a /\ e.id[2] \in Nat
      BY <1>0, <2>1, EffectType
    <3>2. e.id[2] <= op[a].n
      BY <2>1, <3>1 DEF OneInv, OriginInv, EffectsOfPast
    <3>3. QED
      BY <1>1, <3>1, <3>2
  <2>2. QED
    BY <1>2, <2>1 DEF EffectsFromPrior
<1>5. TokensHoldPrior'
  BY <1>2 DEF OneInv, TokensHoldPrior, Present
<1>6. QED
  BY <1>3, <1>4, <1>5 DEF OneInv

LEMMA OneStep == ASSUME OneOperator, OneInv, [Next]_vars PROVE OneInv'
<1>1. OriginInv /\ TypeInv /\ CallsFollowTokens
  BY DEF OneInv, OriginInv
<1>2. OriginInv'
  BY <1>1, OriginStep
<1>3. \/ \E a \in Actors : \E new :
           Moves(a, new) \/ TakesEffect(a, new) \/ RecordsToken(a, new) \/ Begins(a, new)
      \/ Rests
  BY <1>1, NextSteps
<1>4. QED
  BY <1>2, <1>3, OneMoves, OneTakesEffect, OneRecordsToken, OneBegins, OneRests

LEMMA OneInit == Init => OneInv
<1> SUFFICES ASSUME Init PROVE OneInv
  OBVIOUS
<1>1. \A a \in Actors : op[a].pc = "idle"
  BY IdleType DEF Init
<1>2. effects = <<>> /\ DOMAIN effects = {}
  BY DEF Init
<1>3. QED
  BY <1>1, <1>2, OriginInit
  DEF OneInv, PriorIsCurrent, EffectsFromPrior, TokensHoldPrior, SuccessInPlace

LEMMA OneRestores == OneInv => UndoRestores
<1> SUFFICES ASSUME OneInv, NEW i \in DOMAIN effects, IsInverse(i),
                    NEW j \in EffectsOf(effects[i].inverts)
             PROVE  /\ j < i /\ effects[i].attr = effects[j].attr
                    /\ effects[i].to = effects[j].from
  BY DEF UndoRestores
<1>1. PICK t : t = effects[i].inverts
  OBVIOUS
<1>2. /\ Present(t) /\ effects[i].attr = tokens[t].attr /\ effects[i].to = tokens[t].value
      /\ j < i
  BY <1>1 DEF OneInv, OriginInv, InversesFollowTokens, IsInverse
<1>3. j \in DOMAIN effects /\ effects[j].id = t
  BY <1>1 DEF EffectsOf
<1>4. effects[j].attr = tokens[t].attr
  BY <1>2, <1>3 DEF OneInv, OriginInv, TokensTell
<1>5. tokens[t].value = effects[j].from
  BY <1>2, <1>3 DEF OneInv, TokensHoldPrior
<1>6. QED
  BY <1>2, <1>4, <1>5

\* Beside nobody else who writes, and whatever fails, an inverse puts back what
\* the write it inverts overwrote, later and on the same attribute
\* (writes.py:376).
THEOREM UndoRestoresForOne == ASSUME OneOperator PROVE Spec => []UndoRestores
<1>1. Init => OneInv
  BY OneInit
<1>2. OneInv /\ [Next]_vars => OneInv'
  BY OneStep
<1>3. QED
  BY <1>1, <1>2, OneRestores, PTL DEF Spec

\* And a write that reports success is in place on the proxy, whatever its build
\* does with a weight (writes.py:386).
THEOREM OkMeansInPlaceForOne == ASSUME OneOperator PROVE Spec => []OkMeansInPlace
<1>1. Init => OneInv
  BY OneInit
<1>2. OneInv /\ [Next]_vars => OneInv'
  BY OneStep
<1>3. OneInv => OkMeansInPlace
  BY DEF OneInv, SuccessInPlace, OkMeansInPlace, At
<1>4. QED
  BY <1>1, <1>2, <1>3, PTL DEF Spec
----------------------------------------------------------------------------
(* What the proxies accepted, and the rows of the calls.                   *)

\* Only a call that is past its request has been accepted.
AcceptedOfPast ==
  \A p \in accepted : /\ p[1][2] <= op[p[1][1]].n
                      /\ p[1][2] = op[p[1][1]].n => op[p[1][1]].pc \notin {"get", "put"}

\* A call that goes on after its request, or ends without an error, was accepted.
GoesOn(o) == o.pc \in {"readback", "record", "mark"} \/ (o.pc = "finish" /\ o.verdict # "error")
AcceptedBeforeRecord ==
  \A a \in Actors : GoesOn(op[a]) => <<Id(a), op[a].inverts>> \in accepted

\* Only a call that is past its end has a row, and one that goes on to mark a
\* token has not failed.
RowsOfPast ==
  \A i \in Ids : rows[i] # "none" =>
    /\ i[2] <= op[i[1]].n
    /\ i[2] = op[i[1]].n => op[i[1]].pc \in {"idle", "mark"}
MarkedRows ==
  \A a \in Actors : op[a].pc = "mark" =>
    op[a].inverts # NoOp /\ rows[Id(a)] \notin {"none", "error"}

HistoryInv == OriginInv /\ AcceptedOfPast /\ AcceptedBeforeRecord /\ RowsOfPast /\ MarkedRows

\* With one operator, the token a call inverts is not used up before its end.
InvertsIsThere ==
  \A a \in Actors : Busy(a) /\ op[a].inverts # NoOp => tokens[op[a].inverts].status = "recorded"

LogInv == OneInv /\ HistoryInv /\ InvertsIsThere

\* The steps of a call after its start, as far as these tell them apart.
Progresses(a, new) ==
  /\ Steps(a, new, Pcs)
  /\ new.pc \in {"get", "put"} => op[a].pc = "get"
  /\ op[a].pc = "mark" => new.pc = "idle"
  /\ \/ accepted' = accepted
     \/ op[a].pc = "put" /\ accepted' = accepted \cup {<<Id(a), op[a].inverts>>}
  /\ GoesOn(new) => <<Id(a), op[a].inverts>> \in accepted'
  /\ \/ rows' = rows /\ new.pc # "mark"
     \/ /\ op[a].pc = "finish" /\ new.pc \in {"mark", "idle"}
        /\ rows' = [rows EXCEPT ![Id(a)] = op[a].verdict]
        /\ new.pc = "mark" => op[a].verdict # "error" /\ op[a].inverts # NoOp
  /\ new.pc # "idle" =>
       \/ tokens' = tokens
       \/ op[a].pc = "record" /\ tokens' = [tokens EXCEPT ![Id(a)] = Recorded(a)]

LEMMA CallProgresses ==
  ASSUME TypeInv, AcceptedBeforeRecord, NEW a \in Actors,
         GetPrior(a) \/ Put(a) \/ ReadBack(a) \/ Record(a) \/ Finish(a) \/ Mark(a) \/ Exit(a)
  PROVE  \E new : Progresses(a, new)
<1>0. /\ \A new, pcs : pcs \subseteq Pcs /\ Steps(a, new, pcs) =>
           Steps(a, new, Pcs) /\ new.pc \in pcs
      /\ GoesOn(op[a]) => <<Id(a), op[a].inverts>> \in accepted
  BY DEF Steps, AcceptedBeforeRecord
<1>1. CASE GetPrior(a)
  <2>1. PICK new : /\ Steps(a, new, {"put", "finish"})
                   /\ new.pc = "finish" => new.verdict = "error"
    BY <1>1, GetPriorCases
  <2>2. op[a].pc = "get" /\ UNCHANGED <<tokens, rows, accepted>>
    BY <1>1, GetPriorCases
  <2>3. Steps(a, new, Pcs) /\ new.pc \in {"put", "finish"}
    BY <1>0, <2>1 DEF Pcs
  <2>4. Progresses(a, new)
    BY <2>1, <2>2, <2>3 DEF Progresses, GoesOn
  <2>5. QED
    BY <2>4
<1>2. CASE Put(a)
  <2>1. op[a].pc = "put" /\ UNCHANGED <<tokens, rows>>
    BY <1>2, PutCases
  <2>2. PICK new :
          /\ Steps(a, new, {"readback", "record", "finish"})
          /\ \/ accepted' = accepted \cup {<<Id(a), op[a].inverts>>}
             \/ /\ new.pc = "finish" /\ new.verdict = "error" /\ accepted' = accepted
    BY <1>2, PutCases, Zenon
  <2>3. Steps(a, new, Pcs) /\ new.pc \in {"readback", "record", "finish"}
    BY <1>0, <2>2 DEF Pcs
  <2>4. Progresses(a, new)
    BY <2>1, <2>2, <2>3 DEF Progresses, GoesOn
  <2>5. QED
    BY <2>4
<1>3. CASE ReadBack(a)
  <2>1. PICK new : Steps(a, new, {"record", "finish"})
    BY <1>3, ReadBackCases
  <2>2. op[a].pc = "readback" /\ UNCHANGED <<tokens, rows, accepted>>
    BY <1>3, ReadBackCases
  <2>3. Steps(a, new, Pcs) /\ new.pc \in {"record", "finish"}
    BY <1>0, <2>1 DEF Pcs
  <2>4. <<Id(a), op[a].inverts>> \in accepted
    BY <1>0, <2>2 DEF GoesOn
  <2>5. Progresses(a, new)
    BY <2>2, <2>3, <2>4 DEF Progresses
  <2>6. QED
    BY <2>5
<1>4. CASE Record(a)
  <2>1. PICK new : Steps(a, new, {"finish"})
    BY <1>4, RecordCases
  <2>2. /\ op[a].pc = "record" /\ UNCHANGED <<rows, accepted>>
        /\ tokens' = [tokens EXCEPT ![Id(a)] = Recorded(a)] \/ UNCHANGED tokens
    BY <1>4, RecordCases
  <2>3. Steps(a, new, Pcs) /\ new.pc = "finish"
    BY <1>0, <2>1 DEF Pcs
  <2>4. <<Id(a), op[a].inverts>> \in accepted
    BY <1>0, <2>2 DEF GoesOn
  <2>5. Progresses(a, new)
    BY <2>2, <2>3, <2>4 DEF Progresses
  <2>6. QED
    BY <2>5
<1>5. CASE Finish(a)
  <2>1. PICK new : /\ Steps(a, new, {"mark", "idle"})
                   /\ new.pc = "mark" => /\ MayMark(a)
                                         /\ rows' = [rows EXCEPT ![Id(a)] = op[a].verdict]
    BY <1>5, FinishCases
  <2>2. /\ op[a].pc = "finish" /\ UNCHANGED <<tokens, accepted>>
        /\ UNCHANGED rows \/ rows' = [rows EXCEPT ![Id(a)] = op[a].verdict]
    BY <1>5, FinishCases
  <2>3. Steps(a, new, Pcs) /\ new.pc \in {"mark", "idle"}
    BY <1>0, <2>1 DEF Pcs
  <2>4. new.pc = "mark" => /\ op[a].verdict # "error" /\ op[a].inverts # NoOp
                           /\ rows' = [rows EXCEPT ![Id(a)] = op[a].verdict]
    BY <2>1 DEF MayMark
  <2>5. GoesOn(new) => <<Id(a), op[a].inverts>> \in accepted
    BY <1>0, <2>2, <2>3, <2>4 DEF GoesOn
  <2>6. Progresses(a, new)
    BY <2>2, <2>3, <2>4, <2>5 DEF Progresses
  <2>7. QED
    BY <2>6
<1>6. CASE Mark(a) \/ Exit(a)
  <2>1. Steps(a, Idle(op[a].n), {"idle"}) /\ UNCHANGED <<rows, accepted>>
    BY <1>6, MarkCases, ExitCases
  <2>2. PICK new : Steps(a, new, {"idle"})
    BY <2>1
  <2>3. Steps(a, new, Pcs) /\ new.pc = "idle"
    BY <1>0, <2>2 DEF Pcs
  <2>4. Progresses(a, new)
    BY <2>1, <2>3 DEF Progresses, GoesOn
  <2>5. QED
    BY <2>4
<1>7. QED
  BY <1>1, <1>2, <1>3, <1>4, <1>5, <1>6

\* What is left of the steps.
LEMMA NextProgresses ==
  ASSUME HistoryInv, [Next]_vars
  PROVE  \/ \E a \in Actors : \E new : Progresses(a, new)
         \/ /\ \E a \in Actors : \E new : Begins(a, new)
            /\ UNCHANGED <<rows, accepted>>
         \/ UNCHANGED <<op, tokens, rows, accepted>>
<1>0. TypeInv /\ AcceptedBeforeRecord
  BY DEF HistoryInv, OriginInv
<1>1. ASSUME NEW a \in Actors, NEW attr \in Attrs, NEW v \in Values,
             NEW t \in Names \cup {NoTarget}, StartWrite(a, attr, v, t)
      PROVE  (\E new : Begins(a, new)) /\ UNCHANGED <<rows, accepted>>
  <2>1. Begin(a, attr, v, t, NoOp, FALSE)
    BY <1>1 DEF StartWrite
  <2>2. UNCHANGED <<rows, accepted>>
    BY <2>1 DEF Begin
  <2>3. QED
    BY <1>0, <2>1, <2>2, BeginBegins DEF ById
<1>2. ASSUME NEW a \in Actors, NEW i \in Ids, NEW t \in Names \cup {NoTarget}, StartUndo(a, i, t)
      PROVE  (\E new : Begins(a, new)) /\ UNCHANGED <<rows, accepted>>
  <2>1. UNCHANGED <<rows, accepted>>
    BY <1>2 DEF StartUndo, Begin
  <2>2. QED
    BY <1>0, <1>2, <2>1, StartUndoCases, BeginBegins
<1>3. ASSUME NEW gone \in Names \cup {NoTarget}, NEW n \in Names, NEW h \in Hosts,
             SaveTarget(gone, n, h)
      PROVE  UNCHANGED <<op, tokens, rows, accepted>>
  BY <1>3 DEF SaveTarget
<1>4. QED
  BY <1>0, <1>1, <1>2, <1>3, CallProgresses DEF Next, vars

LEMMA AcceptedType ==
  ASSUME TypeInv, NEW p \in accepted
  PROVE  p[1] \in Ids /\ p[1][1] \in Actors /\ p[1][2] \in Nat
BY StateType, IdParts

LEMMA ProgressKeeps ==
  ASSUME HistoryInv, NEW a \in Actors, NEW new, Progresses(a, new), OriginInv'
  PROVE  HistoryInv'
<1>0. TypeInv /\ TypeInv'
  BY DEF HistoryInv, OriginInv
<1>1. /\ op'[a] = new /\ \A b \in Actors : b # a => op'[b] = op[b]
      /\ new.n = op[a].n
      /\ new.pc # "idle" => op[a].pc # "idle" /\ new.inverts = op[a].inverts
  BY <1>0, StepFacts DEF Progresses
<1>2. /\ new.pc \in {"get", "put"} => op[a].pc = "get"
      /\ op[a].pc = "mark" => new.pc = "idle"
      /\ \/ accepted' = accepted
         \/ op[a].pc = "put" /\ accepted' = accepted \cup {<<Id(a), op[a].inverts>>}
      /\ GoesOn(new) => <<Id(a), op[a].inverts>> \in accepted'
      /\ \/ rows' = rows /\ new.pc # "mark"
         \/ /\ op[a].pc = "finish" /\ new.pc \in {"mark", "idle"}
            /\ rows' = [rows EXCEPT ![Id(a)] = op[a].verdict]
            /\ new.pc = "mark" => op[a].verdict # "error" /\ op[a].inverts # NoOp
  BY DEF Progresses
<1>3. \A b \in Actors : op'[b].n = op[b].n /\ Id(b)' = Id(b)
  BY <1>1 DEF Id
<1>4. Id(a)[1] = a /\ Id(a)[2] = op[a].n
  BY <1>0, OpType
<1>5. AcceptedOfPast'
  <2>1. ASSUME NEW p \in accepted'
        PROVE  /\ p[1][2] <= op'[p[1][1]].n
               /\ p[1][2] = op'[p[1][1]].n => op'[p[1][1]].pc \notin {"get", "put"}
    <3>1. CASE p \in accepted
      <4>1. /\ p[1][1] \in Actors /\ p[1][2] <= op[p[1][1]].n
            /\ p[1][2] = op[p[1][1]].n => op[p[1][1]].pc \notin {"get", "put"}
        BY <1>0, <3>1, AcceptedType DEF HistoryInv, AcceptedOfPast
      <4>2. QED
        BY <1>1, <1>2, <1>3, <4>1
    <3>2. CASE p \notin accepted
      <4>1. op[a].pc = "put" /\ p[1] = Id(a)
        BY <1>2, <2>1, <3>2
      <4>2. p[1][1] = a /\ p[1][2] = op[a].n /\ op[a].n \in Nat
        BY <1>0, <1>4, <4>1, OpType
      <4>3. QED
        BY <1>1, <1>2, <4>1, <4>2
    <3>3. QED
      BY <3>1, <3>2
  <2>2. QED
    BY <2>1 DEF AcceptedOfPast
<1>6. AcceptedBeforeRecord'
  <2>1. ASSUME NEW b \in Actors, GoesOn(op'[b])
        PROVE  <<Id(b), op'[b].inverts>> \in accepted'
    <3>1. CASE b = a
      BY <1>1, <1>2, <2>1, <3>1 DEF GoesOn
    <3>2. CASE b # a
      BY <1>1, <1>2, <2>1, <3>2 DEF HistoryInv, AcceptedBeforeRecord
    <3>3. QED
      BY <3>1, <3>2
  <2>2. QED
    BY <1>3, <2>1 DEF AcceptedBeforeRecord, GoesOn
<1>7. RowsOfPast'
  <2>1. ASSUME NEW i \in Ids, rows'[i] # "none"
        PROVE  /\ i[2] <= op'[i[1]].n
               /\ i[2] = op'[i[1]].n => op'[i[1]].pc \in {"idle", "mark"}
    <3>1. i[1] \in Actors /\ op[a].n \in Nat
      BY <1>0, IdParts, OpType
    <3>2. CASE rows[i] # "none"
      <4>1. /\ i[2] <= op[i[1]].n
            /\ i[2] = op[i[1]].n => op[i[1]].pc \in {"idle", "mark"}
        BY <3>2 DEF HistoryInv, RowsOfPast
      <4>2. QED
        BY <1>1, <1>2, <1>3, <3>1, <4>1
    <3>3. CASE rows[i] = "none"
      <4>1. i = Id(a) /\ new.pc \in {"mark", "idle"}
        BY <1>0, <1>2, <2>1, <3>3, StateType
      <4>2. QED
        BY <1>1, <1>4, <3>1, <4>1
    <3>4. QED
      BY <3>2, <3>3
  <2>2. QED
    BY <2>1 DEF RowsOfPast
<1>8. MarkedRows'
  <2>1. ASSUME NEW b \in Actors, op'[b].pc = "mark"
        PROVE  op'[b].inverts # NoOp /\ rows'[Id(b)] \notin {"none", "error"}
    <3>1. rows \in [Ids -> Verdicts \cup {"none"}]
      BY <1>0, StateType
    <3>2. CASE b = a
      <4>1. /\ op[a].pc = "finish" /\ op[a].verdict # "error" /\ op'[a].inverts # NoOp
            /\ rows' = [rows EXCEPT ![Id(a)] = op[a].verdict]
        BY <1>1, <1>2, <2>1, <3>2
      <4>2. Id(a) \in Ids /\ op[a].verdict \in Verdicts
        BY <1>0, <4>1, OpType
      <4>3. rows'[Id(a)] = op[a].verdict
        BY <3>1, <4>1, <4>2
      <4>4. QED
        BY <3>2, <4>1, <4>2, <4>3 DEF Verdicts
    <3>3. CASE b # a
      <4>1. /\ op[b].pc = "mark" /\ rows[Id(b)] \notin {"none", "error"}
            /\ op'[b].inverts # NoOp
        BY <1>1, <2>1, <3>3 DEF HistoryInv, MarkedRows
      <4>2. Id(b) \in Ids /\ Id(b) # Id(a)
        BY <1>0, <1>4, <3>3, <4>1, OpType
      <4>3. rows'[Id(b)] = rows[Id(b)]
        BY <1>2, <3>1, <4>2
      <4>4. QED
        BY <4>1, <4>3
    <3>4. QED
      BY <3>2, <3>3
  <2>2. QED
    BY <1>3, <2>1 DEF MarkedRows
<1>9. QED
  BY <1>5, <1>6, <1>7, <1>8 DEF HistoryInv

LEMMA BeginsKeepsHistory ==
  ASSUME HistoryInv, NEW a \in Actors, NEW new, Begins(a, new), UNCHANGED <<rows, accepted>>,
         OriginInv'
  PROVE  HistoryInv'
<1>0. TypeInv
  BY DEF HistoryInv, OriginInv
<1>1. /\ op'[a] = new /\ \A b \in Actors : b # a => op'[b] = op[b]
      /\ new.n = op[a].n + 1 /\ op[a].n \in Nat /\ new.pc = "get"
  BY <1>0, OpType DEF Begins
<1>2. AcceptedOfPast'
  <2>1. ASSUME NEW p \in accepted
        PROVE  /\ p[1][2] <= op'[p[1][1]].n
               /\ p[1][2] = op'[p[1][1]].n => op'[p[1][1]].pc \notin {"get", "put"}
    <3>1. /\ p[1][1] \in Actors /\ p[1][2] \in Nat /\ p[1][2] <= op[p[1][1]].n
          /\ p[1][2] = op[p[1][1]].n => op[p[1][1]].pc \notin {"get", "put"}
      BY <1>0, AcceptedType DEF HistoryInv, AcceptedOfPast
    <3>2. CASE p[1][1] = a
      BY <1>1, <3>1, <3>2
    <3>3. CASE p[1][1] # a
      BY <1>1, <3>1, <3>3
    <3>4. QED
      BY <3>2, <3>3
  <2>2. QED
    BY <2>1 DEF AcceptedOfPast
<1>3. AcceptedBeforeRecord' /\ MarkedRows'
  BY <1>1 DEF HistoryInv, AcceptedBeforeRecord, MarkedRows, GoesOn, Id
<1>4. RowsOfPast'
  <2>1. ASSUME NEW i \in Ids, rows[i] # "none"
        PROVE  /\ i[2] <= op'[i[1]].n
               /\ i[2] = op'[i[1]].n => op'[i[1]].pc \in {"idle", "mark"}
    <3>1. /\ i[1] \in Actors /\ i[2] \in Nat /\ i[2] <= op[i[1]].n
          /\ i[2] = op[i[1]].n => op[i[1]].pc \in {"idle", "mark"}
      BY <2>1, IdParts DEF HistoryInv, RowsOfPast
    <3>2. CASE i[1] = a
      BY <1>1, <3>1, <3>2
    <3>3. CASE i[1] # a
      BY <1>1, <3>1, <3>3
    <3>4. QED
      BY <3>2, <3>3
  <2>2. QED
    BY <2>1 DEF RowsOfPast
<1>5. QED
  BY <1>2, <1>3, <1>4 DEF HistoryInv

LEMMA HistoryStep == ASSUME HistoryInv, [Next]_vars PROVE HistoryInv'
<1>1. OriginInv'
  BY OriginStep DEF HistoryInv
<1>2. \/ \E a \in Actors : \E new : Progresses(a, new)
      \/ /\ \E a \in Actors : \E new : Begins(a, new)
         /\ UNCHANGED <<rows, accepted>>
      \/ UNCHANGED <<op, tokens, rows, accepted>>
  BY NextProgresses
<1>3. ASSUME UNCHANGED <<op, tokens, rows, accepted>> PROVE HistoryInv'
  BY <1>1, <1>3 DEF HistoryInv, AcceptedOfPast, AcceptedBeforeRecord, RowsOfPast,
                    MarkedRows, GoesOn, Id
<1>4. QED
  BY <1>1, <1>2, <1>3, ProgressKeeps, BeginsKeepsHistory

LEMMA HistoryInit == Init => HistoryInv
<1> SUFFICES ASSUME Init PROVE HistoryInv
  OBVIOUS
<1>1. \A a \in Actors : op[a].pc = "idle"
  BY IdleType DEF Init
<1>2. accepted = {} /\ \A i \in Ids : rows[i] = "none"
  BY DEF Init
<1>3. QED
  BY <1>1, <1>2, OriginInit
  DEF HistoryInv, AcceptedOfPast, AcceptedBeforeRecord, RowsOfPast, MarkedRows, GoesOn

\* The inverse of an operator finds its token until it is done.
LEMMA InvertsStep ==
  ASSUME OneOperator, HistoryInv, InvertsIsThere, [Next]_vars
  PROVE  InvertsIsThere'
<1>0. TypeInv /\ OriginInv
  BY DEF HistoryInv, OriginInv
<1>1. ASSUME NEW a \in Actors, NEW new, Progresses(a, new)
      PROVE  InvertsIsThere'
  <2>1. Actors = {a}
    BY SameActor
  <2>2. /\ op'[a] = new
        /\ new.pc # "idle" => op[a].pc # "idle" /\ new.inverts = op[a].inverts
    BY <1>0, <1>1, StepFacts DEF Progresses
  <2>3. ASSUME new.pc # "idle", new.inverts # NoOp
        PROVE  tokens'[new.inverts].status = "recorded"
    <3>1. tokens[op[a].inverts].status = "recorded" /\ op[a].inverts = new.inverts
      BY <2>2, <2>3 DEF InvertsIsThere, Busy
    <3>2. op[a].inverts \in Ids
      BY <1>0, <2>3, <3>1, OpType DEF ById
    <3>3. CASE tokens' = tokens
      BY <3>1, <3>3
    <3>4. CASE op[a].pc = "record" /\ tokens' = [tokens EXCEPT ![Id(a)] = Recorded(a)]
      <4>1. \A i \in Ids : i # Id(a) => tokens'[i] = tokens[i]
        BY <1>0, <3>4, RecordedToken
      <4>2. Id(a) \in Ids /\ Id(a)[1] = a /\ Id(a)[2] = op[a].n
        BY <1>0, <3>4, OpType
      <4>3. op[a].inverts # Id(a)
        BY <1>0, <3>1, <3>4, <4>2 DEF OriginInv, TokensOfPast, Present
      <4>4. QED
        BY <3>1, <3>2, <4>1, <4>3
    <3>5. QED
      BY <1>1, <2>3, <3>3, <3>4 DEF Progresses
  <2>4. QED
    BY <2>1, <2>2, <2>3 DEF InvertsIsThere, Busy
<1>2. ASSUME NEW a \in Actors, NEW new, Begins(a, new)
      PROVE  InvertsIsThere'
  <2>1. Actors = {a} /\ op'[a] = new /\ tokens' = tokens
    BY <1>0, <1>2, SameActor, OpType DEF Begins
  <2>2. QED
    BY <1>2, <2>1 DEF InvertsIsThere, Begins
<1>3. ASSUME UNCHANGED <<op, tokens, rows, accepted>> PROVE InvertsIsThere'
  BY <1>3 DEF InvertsIsThere, Busy
<1>4. QED
  BY <1>1, <1>2, <1>3, NextProgresses

LEMMA LogStep == ASSUME OneOperator, LogInv, [Next]_vars PROVE LogInv'
  BY OneStep, HistoryStep, InvertsStep DEF LogInv

LEMMA LogInit == Init => LogInv
<1> SUFFICES ASSUME Init PROVE LogInv
  OBVIOUS
<1>1. \A a \in Actors : op[a].pc = "idle"
  BY IdleType DEF Init
<1>2. QED
  BY <1>1, OneInit, HistoryInit DEF LogInv, InvertsIsThere, Busy
----------------------------------------------------------------------------
(* CommandLine.  The invariant: a command, its entry and its call, phase by *)
(* phase.                                                                  *)

\* The row of a governed call that has begun.
Opened(kind) == IF kind \in Mutating THEN "pending" ELSE "none"

\* The answer of the outermost call and its row, before the exit code is made of
\* them; sent are the calls the proxies accepted.
Told(c, b, sent) ==
  /\ c.result # "none"
  /\ c.result \in {"raised", "error"} => b.row \notin {"ok", "unknown"}
  /\ c.result = "unknown" => b.row = "unknown"
  /\ c.result = "ok" =>
       /\ b.row \in (IF c.kind \in Mutating THEN {"ok"} ELSE {"ok", "none"})
       /\ c.kind = "write" => <<b.call, NoOp>> \in sent

\* A command that has not ended, and its entry.
Fits(c, b, sent) ==
  /\ b.exit = "none" /\ b.kind = c.kind
  /\ c.kind = "apply" => c.token # NoOp
  /\ c.phase = "confirm" => c.kind \in Mutating
  /\ c.phase \in {"confirm", "govern"} => b.row = "none"
  /\ c.phase \in {"confirm", "govern", "body"} => ~c.ran
  /\ c.phase \in {"body", "call", "close"} => b.row = Opened(c.kind)
  /\ c.phase = "close" => c.result \in {"ok", "error"} /\ (c.kind = "write" => c.result = "error")
  /\ c.phase = "answer" => Told(c, b, sent)

\* A command and the call it runs, in a process that has loaded its config.
Runs(c, b, o, id, config_of) ==
  /\ c.phase = "call" <=> o.pc # "idle"
  /\ c.phase = "call" => /\ config_of # <<>> /\ b.call = id /\ c.kind \in Mutating
                         /\ o.inverts = IF c.kind = "apply" THEN c.token ELSE NoOp

CommandsFit ==
  \A a \in Actors :
    /\ cmd[a].n <= MaxOps[a]
    /\ ~In(a, "shell") => cmd[a].n >= 1 /\ Fits(cmd[a], book[Cid(a)], accepted)
    /\ Runs(cmd[a], book[Cid(a)], op[a], Id(a), loaded[a])

\* A command that has not begun has no row.
Unused ==
  \A i \in Ids : i[2] > cmd[i[1]].n => book[i].exit = "none" /\ book[i].row = "none"

\* What ExitTellsTheRow says of an entry.
Tells(b, sent) ==
  b.kind # "list" =>
    /\ b.exit = "success" =>
         /\ b.row \in (IF b.kind \in Mutating THEN {"ok"} ELSE {"ok", "none"})
         /\ b.kind = "write" => <<b.call, NoOp>> \in sent
    /\ b.exit = "undetermined" => b.row = "unknown"
    /\ b.exit = "failure" => b.row \notin {"ok", "unknown"}

BookInv ==
  /\ CommandTypeOK /\ HistoryInv /\ CommandsFit /\ Unused
  /\ \A i \in Ids : Tells(book[i], accepted)

----------------------------------------------------------------------------
(* Types.                                                                  *)

LEMMA CommandType ==
  ASSUME BookInv, NEW a \in Actors
  PROVE  /\ cmd \in [Actors -> Command] /\ book \in [Ids -> Entry] /\ cmd[a] \in Command
         /\ cmd[a].phase \in Phases /\ cmd[a].n \in Nat /\ cmd[a].kind \in Kinds
         /\ cmd[a].token \in ById /\ cmd[a].budget \in Budgets /\ cmd[a].ran \in BOOLEAN
         /\ cmd[a].result \in Results /\ MaxOps[a] \in Nat /\ cmd[a].n <= MaxOps[a]
         /\ Cid(a)[1] = a /\ Cid(a)[2] = cmd[a].n
         /\ cmd[a].phase # "shell" =>
              Cid(a) \in Ids /\ book[Cid(a)] \in Entry /\ cmd[a].n >= 1
              /\ Fits(cmd[a], book[Cid(a)], accepted)
         /\ Runs(cmd[a], book[Cid(a)], op[a], Id(a), loaded[a])
         /\ TypeInv
<1>1. /\ cmd \in [Actors -> Command] /\ book \in [Ids -> Entry] /\ cmd[a] \in Command
      /\ TypeInv /\ MaxOps[a] \in Nat
  BY OpsAssumption DEF BookInv, CommandTypeOK, HistoryInv, OriginInv
<1>2. /\ cmd[a].phase \in Phases /\ cmd[a].n \in Nat /\ cmd[a].kind \in Kinds
      /\ cmd[a].token \in ById /\ cmd[a].budget \in Budgets /\ cmd[a].ran \in BOOLEAN
      /\ cmd[a].result \in Results
  BY <1>1 DEF Command
<1>3. /\ cmd[a].n <= MaxOps[a]
      /\ cmd[a].phase # "shell" => cmd[a].n >= 1 /\ Fits(cmd[a], book[Cid(a)], accepted)
      /\ Runs(cmd[a], book[Cid(a)], op[a], Id(a), loaded[a])
  BY DEF BookInv, CommandsFit, In
<1>4. Cid(a)[1] = a /\ Cid(a)[2] = cmd[a].n
  BY DEF Cid
<1>5. cmd[a].phase # "shell" => Cid(a) \in Ids
  BY <1>1, <1>2, <1>3 DEF Cid, Ids
<1>6. QED
  BY <1>1, <1>2, <1>3, <1>4, <1>5

LEMMA AtShellType ==
  ASSUME NEW n \in Nat
  PROVE  AtShell(n) \in Command /\ AtShell(n).phase = "shell" /\ AtShell(n).n = n
<1>1. (CHOOSE b \in Budgets : TRUE) \in Budgets
  BY BudgetsAssumption
<1>2. QED
  BY <1>1 DEF AtShell, Command, Phases, Kinds, Results, ById

\* A command that has moved on.
Onward(c, phase, result, ran) ==
  [c EXCEPT !.phase = phase, !.result = result, !.ran = ran]

LEMMA OnwardType ==
  ASSUME NEW c \in Command, NEW phase \in Phases, NEW result \in Results, NEW ran \in BOOLEAN
  PROVE  LET new == Onward(c, phase, result, ran) IN
         /\ new \in Command /\ new.phase = phase /\ new.result = result /\ new.ran = ran
         /\ new.n = c.n /\ new.kind = c.kind /\ new.token = c.token /\ new.budget = c.budget
  BY DEF Onward, Command

\* What the actions do to the command of a.
Becomes(a, phase, result, ran) ==
  \E c \in Command :
    /\ cmd' = [cmd EXCEPT ![a] = c]
    /\ c.phase = phase /\ c.result = result /\ c.ran = ran
    /\ c.n = cmd[a].n /\ c.kind = cmd[a].kind /\ c.token = cmd[a].token

LEMMA CommandMoves ==
  ASSUME BookInv, NEW a \in Actors, NEW phase \in Phases, NEW result \in Results
  PROVE  /\ Move(a, phase) => Becomes(a, phase, cmd[a].result, cmd[a].ran)
         /\ Answered(a, phase, result) => Becomes(a, phase, result, cmd[a].ran)
         /\ cmd' = [cmd EXCEPT ![a].phase = phase, ![a].ran = TRUE] =>
              Becomes(a, phase, cmd[a].result, TRUE)
<1>0. cmd \in [Actors -> Command] /\ cmd[a] \in Command /\ cmd[a].result \in Results
      /\ cmd[a].ran \in BOOLEAN
  BY CommandType
<1>1. \A r \in Results, ran \in BOOLEAN :
        cmd' = [cmd EXCEPT ![a] = Onward(cmd[a], phase, r, ran)] => Becomes(a, phase, r, ran)
  <2>1. ASSUME NEW r \in Results, NEW ran \in BOOLEAN,
               cmd' = [cmd EXCEPT ![a] = Onward(cmd[a], phase, r, ran)]
        PROVE  Becomes(a, phase, r, ran)
    <3>1. PICK c : c = Onward(cmd[a], phase, r, ran)
      OBVIOUS
    <3>2. /\ c \in Command /\ c.phase = phase /\ c.result = r /\ c.ran = ran
          /\ c.n = cmd[a].n /\ c.kind = cmd[a].kind /\ c.token = cmd[a].token
      BY <1>0, <3>1, OnwardType
    <3>3. cmd' = [cmd EXCEPT ![a] = c]
      BY <2>1, <3>1
    <3>4. QED
      BY <3>2, <3>3 DEF Becomes
  <2>2. QED
    BY <2>1
<1>2. ASSUME Move(a, phase) PROVE Becomes(a, phase, cmd[a].result, cmd[a].ran)
  <2>1. [cmd[a] EXCEPT !.phase = phase] = Onward(cmd[a], phase, cmd[a].result, cmd[a].ran)
    BY <1>0 DEF Onward, Command
  <2>2. cmd' = [cmd EXCEPT ![a] = [cmd[a] EXCEPT !.phase = phase]]
    BY <1>0, <1>2 DEF Move
  <2>3. QED
    BY <1>0, <1>1, <2>1, <2>2
<1>3. ASSUME Answered(a, phase, result) PROVE Becomes(a, phase, result, cmd[a].ran)
  <2>1. [cmd[a] EXCEPT !.phase = phase, !.result = result]
          = Onward(cmd[a], phase, result, cmd[a].ran)
    BY <1>0 DEF Onward, Command
  <2>2. cmd' = [cmd EXCEPT ![a] = [cmd[a] EXCEPT !.phase = phase, !.result = result]]
    BY <1>0, <1>3 DEF Answered
  <2>3. QED
    BY <1>0, <1>1, <2>1, <2>2
<1>4. ASSUME cmd' = [cmd EXCEPT ![a].phase = phase, ![a].ran = TRUE]
      PROVE  Becomes(a, phase, cmd[a].result, TRUE)
  <2>1. [cmd[a] EXCEPT !.phase = phase, !.ran = TRUE]
          = Onward(cmd[a], phase, cmd[a].result, TRUE)
    BY <1>0 DEF Onward, Command
  <2>2. cmd' = [cmd EXCEPT ![a] = [cmd[a] EXCEPT !.phase = phase, !.ran = TRUE]]
    BY <1>0, <1>4
  <2>3. QED
    BY <1>0, <1>1, <2>1, <2>2
<1>5. QED
  BY <1>2, <1>3, <1>4

\* What the actions do to the entry of the command of a.
Writ(b, row, call, exit) == [b EXCEPT !.row = row, !.call = call, !.exit = exit]
Notes(a, row, call, exit) ==
  \E b \in Entry :
    /\ book' = [book EXCEPT ![Cid(a)] = b]
    /\ b.row = row /\ b.call = call /\ b.exit = exit /\ b.kind = book[Cid(a)].kind

Rows == {"none", "pending", "ok", "error", "unknown", "budget_exceeded"}
Exits == {"none", "success", "failure", "undetermined", "killed"}

LEMMA BookMoves ==
  ASSUME BookInv, NEW a \in Actors, cmd[a].phase # "shell", NEW row \in Rows, NEW call \in ById,
         NEW exit \in Exits
  PROVE  /\ SetRow(a, row) => Notes(a, row, book[Cid(a)].call, book[Cid(a)].exit)
         /\ book' = [book EXCEPT ![Cid(a)].call = call] =>
              Notes(a, book[Cid(a)].row, call, book[Cid(a)].exit)
         /\ book' = [book EXCEPT ![Cid(a)].exit = exit] =>
              Notes(a, book[Cid(a)].row, book[Cid(a)].call, exit)
         /\ book' = book => Notes(a, book[Cid(a)].row, book[Cid(a)].call, book[Cid(a)].exit)
<1>0. Cid(a) \in Ids /\ book \in [Ids -> Entry] /\ book[Cid(a)] \in Entry
  BY CommandType
<1> DEFINE b == book[Cid(a)]
<1>1. b.row \in Rows /\ b.call \in ById /\ b.exit \in Exits
  BY <1>0 DEF Entry, Rows, Exits
<1>2. \A r \in Rows, c \in ById, x \in Exits :
        book' = [book EXCEPT ![Cid(a)] = Writ(b, r, c, x)] => Notes(a, r, c, x)
  <2>1. ASSUME NEW r \in Rows, NEW c \in ById, NEW x \in Exits,
               book' = [book EXCEPT ![Cid(a)] = Writ(b, r, c, x)]
        PROVE  Notes(a, r, c, x)
    <3>1. PICK e : e = Writ(b, r, c, x)
      OBVIOUS
    <3>2. e \in Entry /\ e.row = r /\ e.call = c /\ e.exit = x /\ e.kind = b.kind
      BY <1>0, <3>1 DEF Writ, Entry, Rows, Exits
    <3>3. book' = [book EXCEPT ![Cid(a)] = e]
      BY <2>1, <3>1
    <3>4. QED
      BY <3>2, <3>3 DEF Notes
  <2>2. QED
    BY <2>1
<1>3. ASSUME SetRow(a, row) PROVE Notes(a, row, b.call, b.exit)
  <2>1. [b EXCEPT !.row = row] = Writ(b, row, b.call, b.exit)
    BY <1>0 DEF Writ, Entry
  <2>2. book' = [book EXCEPT ![Cid(a)] = [b EXCEPT !.row = row]]
    BY <1>0, <1>3 DEF SetRow
  <2>3. QED
    BY <1>1, <1>2, <2>1, <2>2
<1>4. ASSUME book' = [book EXCEPT ![Cid(a)].call = call] PROVE Notes(a, b.row, call, b.exit)
  <2>1. [b EXCEPT !.call = call] = Writ(b, b.row, call, b.exit)
    BY <1>0 DEF Writ, Entry
  <2>2. book' = [book EXCEPT ![Cid(a)] = [b EXCEPT !.call = call]]
    BY <1>0, <1>4
  <2>3. QED
    BY <1>1, <1>2, <2>1, <2>2
<1>5. ASSUME book' = [book EXCEPT ![Cid(a)].exit = exit] PROVE Notes(a, b.row, b.call, exit)
  <2>1. [b EXCEPT !.exit = exit] = Writ(b, b.row, b.call, exit)
    BY <1>0 DEF Writ, Entry
  <2>2. book' = [book EXCEPT ![Cid(a)] = [b EXCEPT !.exit = exit]]
    BY <1>0, <1>5
  <2>3. QED
    BY <1>1, <1>2, <2>1, <2>2
<1>6. ASSUME book' = book PROVE Notes(a, b.row, b.call, b.exit)
  <2>1. book' = [book EXCEPT ![Cid(a)] = b]
    BY <1>0, <1>6
  <2>2. QED
    BY <1>0, <2>1 DEF Notes
<1>7. QED
  BY <1>3, <1>4, <1>5, <1>6
----------------------------------------------------------------------------
(* One step of one command.                                                *)

LEMMA FitsStays ==
  ASSUME NEW c, NEW b, NEW sent, NEW more, sent \subseteq more
  PROVE  /\ Fits(c, b, sent) => Fits(c, b, more)
         /\ Tells(b, sent) => Tells(b, more)
<1>1. Fits(c, b, sent) => Fits(c, b, more)
  BY DEF Fits, Told
<1>2. Tells(b, sent) => Tells(b, more)
  BY DEF Tells
<1>3. QED
  BY <1>1, <1>2

\* The other processes, while a moves.
OthersRest(a) ==
  /\ \A d \in Actors : d # a => op'[d] = op[d] /\ loaded'[d] = loaded[d]
  /\ accepted \subseteq accepted'

LEMMA CommandStep ==
  ASSUME BookInv, HistoryInv', NEW a \in Actors, OthersRest(a),
         NEW c \in Command, cmd' = [cmd EXCEPT ![a] = c], c.n >= cmd[a].n, c.n <= MaxOps[a],
         c.n >= 1, NEW b \in Entry, book' = [book EXCEPT ![<<a, c.n>>] = b],
         c.phase # "shell" => Fits(c, b, accepted'),
         Runs(c, b, op'[a], <<a, op'[a].n>>, loaded'[a]),
         Tells(b, accepted')
  PROVE  BookInv'
<1>0. /\ cmd \in [Actors -> Command] /\ book \in [Ids -> Entry]
      /\ \A d \in Actors : cmd[d].n \in Nat
      /\ TypeOK' /\ c.n \in Nat /\ MaxOps[a] \in Nat
  BY CommandType DEF HistoryInv, OriginInv, TypeInv, Command
<1>1. PICK i \in Ids : i = <<a, c.n>>
  BY <1>0 DEF Ids
<1>2. /\ cmd' \in [Actors -> Command] /\ cmd'[a] = c
      /\ \A d \in Actors : d # a => cmd'[d] = cmd[d]
      /\ book' \in [Ids -> Entry] /\ book'[i] = b
      /\ \A j \in Ids : j # i => book'[j] = book[j]
  BY <1>0, <1>1
<1>3. CommandTypeOK'
  BY <1>0, <1>2 DEF CommandTypeOK
<1>4. CommandsFit'
  <2>1. ASSUME NEW d \in Actors
        PROVE  /\ cmd'[d].n <= MaxOps[d]
               /\ cmd'[d].phase # "shell" =>
                    cmd'[d].n >= 1 /\ Fits(cmd'[d], book'[<<d, cmd'[d].n>>], accepted')
               /\ Runs(cmd'[d], book'[<<d, cmd'[d].n>>], op'[d], <<d, op'[d].n>>, loaded'[d])
    <3>1. CASE d = a
      BY <1>1, <1>2, <3>1
    <3>2. CASE d # a
      <4>1. /\ cmd'[d] = cmd[d] /\ op'[d] = op[d] /\ loaded'[d] = loaded[d]
            /\ accepted \subseteq accepted'
        BY <1>2, <3>2 DEF OthersRest
      <4>2. /\ cmd[d].n <= MaxOps[d]
            /\ cmd[d].phase # "shell" =>
                 Cid(d) \in Ids /\ cmd[d].n >= 1 /\ Fits(cmd[d], book[Cid(d)], accepted)
            /\ Runs(cmd[d], book[Cid(d)], op[d], Id(d), loaded[d])
        BY CommandType
      <4>3. Cid(d) = <<d, cmd[d].n>> /\ Id(d) = <<d, op[d].n>> /\ Cid(d) # i
        BY <1>1, <3>2 DEF Cid, Id
      <4>4. CASE cmd[d].phase # "shell"
        <5>1. book'[Cid(d)] = book[Cid(d)]
          BY <1>2, <4>2, <4>3, <4>4
        <5>2. Fits(cmd[d], book[Cid(d)], accepted')
          BY <4>1, <4>2, <4>4, FitsStays
        <5>3. QED
          BY <4>1, <4>2, <4>3, <4>4, <5>1, <5>2
      <4>5. CASE cmd[d].phase = "shell"
        <5>1. Runs(cmd[d], book'[Cid(d)], op[d], Id(d), loaded[d])
          BY <4>2, <4>5 DEF Runs
        <5>2. QED
          BY <4>1, <4>2, <4>3, <4>5, <5>1
      <4>6. QED
        BY <4>4, <4>5
    <3>3. QED
      BY <3>1, <3>2
  <2>2. QED
    BY <2>1 DEF CommandsFit, In, Cid, Id
<1>5. Unused'
  <2>1. ASSUME NEW j \in Ids, j[2] > cmd'[j[1]].n
        PROVE  book'[j].exit = "none" /\ book'[j].row = "none"
    <3>1. j[1] \in Actors /\ j[2] \in Nat /\ j = <<j[1], j[2]>>
      BY IdParts
    <3>2. j # i /\ j[2] > cmd[j[1]].n
      BY <1>0, <1>1, <1>2, <2>1, <3>1
    <3>3. QED
      BY <1>2, <3>2 DEF BookInv, Unused
  <2>2. QED
    BY <2>1 DEF Unused
<1>6. \A j \in Ids : Tells(book'[j], accepted')
  <2>1. ASSUME NEW j \in Ids PROVE Tells(book'[j], accepted')
    <3>1. CASE j = i
      BY <1>2, <3>1
    <3>2. CASE j # i
      <4>1. Tells(book[j], accepted) /\ accepted \subseteq accepted'
        BY DEF BookInv, OthersRest
      <4>2. QED
        BY <1>2, <3>2, <4>1, FitsStays
    <3>3. QED
      BY <3>1, <3>2
  <2>2. QED
    BY <2>1
<1>7. QED
  BY <1>3, <1>4, <1>5, <1>6 DEF BookInv

\* The same for a command that stays the same command.
LEMMA GoesFurther ==
  ASSUME BookInv, HistoryInv', NEW a \in Actors, OthersRest(a), cmd[a].phase # "shell",
         NEW c \in Command, cmd' = [cmd EXCEPT ![a] = c], c.n = cmd[a].n,
         NEW b \in Entry, book' = [book EXCEPT ![Cid(a)] = b],
         c.phase # "shell" => Fits(c, b, accepted'),
         Runs(c, b, op'[a], <<a, op'[a].n>>, loaded'[a]),
         Tells(b, accepted')
  PROVE  BookInv'
<1>1. cmd[a].n \in Nat /\ cmd[a].n >= 1 /\ cmd[a].n <= MaxOps[a]
  BY CommandType
<1>2. Cid(a) = <<a, c.n>>
  BY DEF Cid
<1>3. c.n >= cmd[a].n /\ c.n >= 1 /\ c.n <= MaxOps[a]
  BY <1>1
<1>4. book' = [book EXCEPT ![<<a, c.n>>] = b]
  BY <1>2
<1>5. QED
  BY <1>3, <1>4, CommandStep

LEMMA QuietRest == ASSUME NEW a \in Actors, UNCHANGED vars PROVE OthersRest(a)
  BY DEF OthersRest, vars

LEMMA QuietHistory == ASSUME BookInv, UNCHANGED vars PROVE HistoryInv'
  BY HistoryStep DEF BookInv

\* A step outside of the call of the command.
LEMMA QuietStep ==
  ASSUME BookInv, NEW a \in Actors, UNCHANGED vars, cmd[a].phase \notin {"shell", "call"},
         NEW phase, phase \notin {"shell", "call"}, NEW result, NEW ran, NEW row, NEW call,
         Becomes(a, phase, result, ran), Notes(a, row, call, "none"),
         \A c \in Command, b \in Entry :
           /\ c.phase = phase /\ c.result = result /\ c.ran = ran /\ c.kind = cmd[a].kind
           /\ c.token = cmd[a].token
           /\ b.row = row /\ b.call = call /\ b.exit = "none" /\ b.kind = cmd[a].kind
           => Fits(c, b, accepted)
  PROVE  BookInv'
<1>1. PICK c \in Command :
        /\ cmd' = [cmd EXCEPT ![a] = c]
        /\ c.phase = phase /\ c.result = result /\ c.ran = ran
        /\ c.n = cmd[a].n /\ c.kind = cmd[a].kind /\ c.token = cmd[a].token
  BY DEF Becomes
<1>2. PICK b \in Entry :
        /\ book' = [book EXCEPT ![Cid(a)] = b]
        /\ b.row = row /\ b.call = call /\ b.exit = "none" /\ b.kind = book[Cid(a)].kind
  BY DEF Notes
<1>3. /\ Fits(cmd[a], book[Cid(a)], accepted)
      /\ Runs(cmd[a], book[Cid(a)], op[a], Id(a), loaded[a])
  BY CommandType
<1>4. b.kind = cmd[a].kind
  BY <1>2, <1>3 DEF Fits
<1>5. accepted' = accepted /\ op' = op /\ loaded' = loaded
  BY DEF vars
<1>6. Fits(c, b, accepted)
  BY <1>1, <1>2, <1>4
<1>7. Runs(c, b, op'[a], <<a, op'[a].n>>, loaded'[a])
  BY <1>1, <1>3, <1>5 DEF Runs
<1>8. Tells(b, accepted')
  BY <1>2 DEF Tells
<1>9. HistoryInv' /\ OthersRest(a)
  BY QuietRest, QuietHistory
<1>10. QED
  BY <1>1, <1>2, <1>5, <1>6, <1>7, <1>8, <1>9, GoesFurther
----------------------------------------------------------------------------
(* The steps of a command outside of its call.                             *)

\* Where a command stands, and its entry.
LEMMA Standing ==
  ASSUME BookInv, NEW a \in Actors, cmd[a].phase # "shell"
  PROVE  LET b == book[Cid(a)] IN
         /\ Fits(cmd[a], b, accepted) /\ b.exit = "none" /\ b.kind = cmd[a].kind
         /\ b \in Entry /\ b.row \in Rows /\ b.call \in ById
         /\ cmd[a].kind = "apply" => cmd[a].token # NoOp
<1>1. book[Cid(a)] \in Entry /\ Fits(cmd[a], book[Cid(a)], accepted)
  BY CommandType
<1>2. QED
  BY <1>1 DEF Fits, Entry, Rows

LEMMA ConfirmKeeps ==
  ASSUME BookInv, NEW a \in Actors, In(a, "confirm"), Move(a, "govern"),
         UNCHANGED <<vars, book>>
  PROVE  BookInv'
<1>1. cmd[a].phase = "confirm" /\ UNCHANGED vars /\ book' = book
  BY DEF In
<1>2. PICK row \in Rows, call \in ById : row = book[Cid(a)].row /\ call = book[Cid(a)].call
  BY <1>1, Standing
<1>3. Becomes(a, "govern", cmd[a].result, cmd[a].ran)
  <2>1. "govern" \in Phases /\ cmd[a].result \in Results
    BY CommandType DEF Phases
  <2>2. QED
    BY <2>1, CommandMoves
<1>4. Notes(a, row, call, "none")
  BY <1>1, <1>2, Standing, BookMoves DEF Exits
<1>5. \A c \in Command, b \in Entry :
        /\ c.phase = "govern" /\ c.ran = cmd[a].ran /\ c.kind = cmd[a].kind
        /\ c.token = cmd[a].token
        /\ b.row = row /\ b.exit = "none" /\ b.kind = cmd[a].kind
        => Fits(c, b, accepted)
  BY <1>1, <1>2, Standing DEF Fits
<1>6. QED
  BY <1>1, <1>3, <1>4, <1>5, QuietStep

\* A refusal before the body: the answer is an exception, and the row, if there
\* is one, says so.
LEMMA RefusedKeeps ==
  ASSUME BookInv, NEW a \in Actors, In(a, "govern"), NEW row \in {"budget_exceeded", "error"},
         BestEffort(a, row), Answered(a, "answer", "raised"), UNCHANGED vars
  PROVE  BookInv'
<1>1. cmd[a].phase = "govern"
  BY DEF In
<1>2. PICK call \in ById : call = book[Cid(a)].call
  BY <1>1, Standing
<1>3. Becomes(a, "answer", "raised", cmd[a].ran)
  BY CommandMoves DEF Phases, Results
<1>4. book[Cid(a)].row = "none"
  BY <1>1, Standing DEF Fits
<1>5. \E r \in {row, "none"} : Notes(a, r, call, "none")
  <2>1. row \in Rows /\ "none" \in Rows /\ "none" \in Exits
    BY DEF Rows, Exits
  <2>2. SetRow(a, row) => Notes(a, row, call, "none")
    BY <1>1, <1>2, <2>1, Standing, BookMoves
  <2>3. book' = book => Notes(a, "none", call, "none")
    BY <1>1, <1>2, <1>4, <2>1, Standing, BookMoves
  <2>4. QED
    BY <2>2, <2>3 DEF BestEffort
<1>6. PICK r \in {row, "none"} : Notes(a, r, call, "none")
  BY <1>5
<1>7. \A c \in Command, b \in Entry :
        /\ c.phase = "answer" /\ c.result = "raised" /\ c.kind = cmd[a].kind
        /\ c.token = cmd[a].token
        /\ b.row = r /\ b.exit = "none" /\ b.kind = cmd[a].kind
        => Fits(c, b, accepted)
  BY <1>1, <1>6, Standing DEF Fits, Told
<1>8. QED
  BY <1>1, <1>3, <1>6, <1>7, QuietStep

LEMMA IntendKeeps ==
  ASSUME BookInv, NEW a \in Actors, Intend(a)
  PROVE  BookInv'
<1>1. cmd[a].phase = "govern" /\ UNCHANGED vars /\ Move(a, "body")
  BY DEF Intend, In
<1>2. PICK call \in ById : call = book[Cid(a)].call
  BY <1>1, Standing
<1>3. Becomes(a, "body", cmd[a].result, cmd[a].ran)
  <2>1. "body" \in Phases /\ cmd[a].result \in Results
    BY CommandType DEF Phases
  <2>2. QED
    BY <1>1, <2>1, CommandMoves
<1>4. book[Cid(a)].row = "none"
  BY <1>1, Standing DEF Fits
<1>5. Notes(a, Opened(cmd[a].kind), call, "none")
  <2>1. "pending" \in Rows /\ "none" \in Rows /\ "none" \in Exits
    BY DEF Rows, Exits
  <2>2. SetRow(a, "pending") => Notes(a, "pending", call, "none")
    BY <1>1, <1>2, <2>1, Standing, BookMoves
  <2>3. book' = book => Notes(a, "none", call, "none")
    BY <1>1, <1>2, <1>4, <2>1, Standing, BookMoves
  <2>4. QED
    BY <2>2, <2>3 DEF Intend, Writes, Opened
<1>6. \A c \in Command, b \in Entry :
        /\ c.phase = "body" /\ c.ran = cmd[a].ran /\ c.kind = cmd[a].kind
        /\ c.token = cmd[a].token
        /\ b.row = Opened(cmd[a].kind) /\ b.exit = "none" /\ b.kind = cmd[a].kind
        => Fits(c, b, accepted)
  BY <1>1, Standing DEF Fits
<1>7. QED
  BY <1>1, <1>3, <1>5, <1>6, QuietStep

\* A body without a call: refused, or a read.
LEMMA BodyKeeps ==
  ASSUME BookInv, NEW a \in Actors, In(a, "body"), NEW result \in {"ok", "error"},
         result = "ok" => ~Writes(a),
         Answered(a, "close", result), UNCHANGED <<vars, book>>
  PROVE  BookInv'
<1>1. cmd[a].phase = "body" /\ UNCHANGED vars /\ book' = book
  BY DEF In
<1>2. PICK row \in Rows, call \in ById : row = book[Cid(a)].row /\ call = book[Cid(a)].call
  BY <1>1, Standing
<1>3. Becomes(a, "close", result, cmd[a].ran)
  BY CommandMoves DEF Phases, Results
<1>4. Notes(a, row, call, "none")
  BY <1>1, <1>2, Standing, BookMoves DEF Exits
<1>5. row = Opened(cmd[a].kind)
  BY <1>1, <1>2, Standing DEF Fits
<1>6. cmd[a].kind = "write" => result = "error"
  BY DEF Writes, Mutating
<1>7. \A c \in Command, b \in Entry :
        /\ c.phase = "close" /\ c.result = result /\ c.kind = cmd[a].kind
        /\ c.token = cmd[a].token
        /\ b.row = row /\ b.exit = "none" /\ b.kind = cmd[a].kind
        => Fits(c, b, accepted)
  BY <1>1, <1>5, <1>6, Standing DEF Fits
<1>8. QED
  BY <1>1, <1>3, <1>4, <1>7, QuietStep

LEMMA CloseKeeps ==
  ASSUME BookInv, NEW a \in Actors, Close(a)
  PROVE  BookInv'
<1>1. cmd[a].phase = "close" /\ UNCHANGED vars
  BY DEF Close, In
<1>2. PICK call \in ById : call = book[Cid(a)].call
  BY <1>1, Standing
<1>3. /\ book[Cid(a)].row = Opened(cmd[a].kind) /\ cmd[a].result \in {"ok", "error"}
      /\ cmd[a].kind = "write" => cmd[a].result = "error"
      /\ cmd[a].kind = "apply" => cmd[a].token # NoOp
  BY <1>1, Standing DEF Fits
<1>4. /\ "answer" \in Phases /\ cmd[a].result \in Results /\ "raised" \in Results
      /\ cmd[a].result \in Rows /\ "none" \in Exits /\ Opened(cmd[a].kind) \in Rows
  BY <1>3 DEF Phases, Results, Rows, Exits, Opened
<1>5. CASE SetRow(a, cmd[a].result) /\ Move(a, "answer")
  <2>1. Becomes(a, "answer", cmd[a].result, cmd[a].ran)
    BY <1>4, <1>5, CommandMoves
  <2>2. Notes(a, cmd[a].result, call, "none")
    BY <1>1, <1>2, <1>4, <1>5, Standing, BookMoves
  <2>3. \A c \in Command, b \in Entry :
          /\ c.phase = "answer" /\ c.result = cmd[a].result /\ c.kind = cmd[a].kind
          /\ c.token = cmd[a].token
          /\ b.row = cmd[a].result /\ b.exit = "none" /\ b.kind = cmd[a].kind
          => Fits(c, b, accepted)
    BY <1>3 DEF Fits, Told
  <2>4. QED
    BY <1>1, <2>1, <2>2, <2>3, QuietStep
<1>6. CASE book' = book /\ (IF Writes(a) THEN Answered(a, "answer", "raised")
                            ELSE Move(a, "answer"))
  <2>1. PICK result \in {"raised", cmd[a].result} :
          /\ Becomes(a, "answer", result, cmd[a].ran)
          /\ result = (IF Writes(a) THEN "raised" ELSE cmd[a].result)
    BY <1>4, <1>6, CommandMoves
  <2>2. Notes(a, Opened(cmd[a].kind), call, "none")
    BY <1>1, <1>2, <1>3, <1>4, <1>6, Standing, BookMoves
  <2>3. \A c \in Command, b \in Entry :
          /\ c.phase = "answer" /\ c.result = result /\ c.kind = cmd[a].kind
          /\ c.token = cmd[a].token
          /\ b.row = Opened(cmd[a].kind) /\ b.exit = "none" /\ b.kind = cmd[a].kind
          => Fits(c, b, accepted)
    BY <1>3, <2>1 DEF Fits, Told, Opened, Writes, Mutating
  <2>4. QED
    BY <1>1, <2>1, <2>2, <2>3, QuietStep
<1>7. QED
  BY <1>5, <1>6 DEF Close

\* The command ends: the process does, whatever call is under way, and what the
\* exit code says is the row.
LEMMA EndsKeeps ==
  ASSUME BookInv, NEW a \in Actors, cmd[a].phase # "shell", NEW exit \in Exits, Ends(a, exit),
         \A b \in Entry :
           /\ b.exit = exit /\ b.kind = cmd[a].kind /\ b.row = book[Cid(a)].row
           /\ b.call = book[Cid(a)].call
           => Tells(b, accepted)
  PROVE  BookInv'
<1>0. TypeInv /\ HistoryInv
  BY DEF BookInv, HistoryInv, OriginInv
<1>1. PICK c : c = AtShell(cmd[a].n)
  OBVIOUS
<1>2. c \in Command /\ c.phase = "shell" /\ c.n = cmd[a].n
  BY <1>1, CommandType, AtShellType
<1>3. cmd' = [cmd EXCEPT ![a] = c]
  BY <1>1 DEF Ends
<1>4. PICK b \in Entry :
        /\ book' = [book EXCEPT ![Cid(a)] = b]
        /\ b.row = book[Cid(a)].row /\ b.call = book[Cid(a)].call /\ b.exit = exit
        /\ b.kind = book[Cid(a)].kind
  <2>1. PICK row \in Rows, call \in ById : row = book[Cid(a)].row /\ call = book[Cid(a)].call
    BY Standing
  <2>2. Notes(a, row, call, exit)
    BY <2>1, BookMoves DEF Ends
  <2>3. QED
    BY <2>1, <2>2 DEF Notes
<1>5. b.kind = cmd[a].kind /\ Tells(b, accepted)
  BY <1>4, Standing
<1>6. CASE Exit(a)
  <2>1. /\ Steps(a, Idle(op[a].n), {"idle"}) /\ loaded' = [loaded EXCEPT ![a] = <<>>]
        /\ accepted' = accepted
    BY <1>0, <1>6, ExitCases
  <2>2. PICK new : Steps(a, new, {"idle"})
    BY <2>1
  <2>3. /\ op'[a] = new /\ \A d \in Actors : d # a => op'[d] = op[d]
        /\ new.pc = "idle"
    BY <1>0, <2>2, StepFacts
  <2>4. OthersRest(a)
    BY <1>0, <2>1, <2>3, StateType DEF OthersRest
  <2>5. Runs(c, b, op'[a], <<a, op'[a].n>>, loaded'[a])
    BY <1>2, <2>3 DEF Runs
  <2>6. HistoryInv'
    <3>1. Next
      BY <1>6 DEF Next
    <3>2. QED
      BY <1>0, <3>1, HistoryStep
  <2>7. QED
    BY <1>2, <1>3, <1>4, <1>5, <2>1, <2>4, <2>5, <2>6, GoesFurther
<1>7. CASE loaded[a] = <<>> /\ UNCHANGED vars
  <2>1. op' = op /\ accepted' = accepted /\ loaded' = loaded
    BY <1>7 DEF vars
  <2>2. cmd[a].phase # "call" /\ op[a].pc = "idle"
    BY <1>7, CommandType DEF Runs
  <2>3. Runs(c, b, op'[a], <<a, op'[a].n>>, loaded'[a])
    BY <1>2, <2>1, <2>2 DEF Runs
  <2>4. HistoryInv' /\ OthersRest(a)
    BY <1>7, QuietRest, QuietHistory
  <2>5. QED
    BY <1>2, <1>3, <1>4, <1>5, <2>1, <2>3, <2>4, GoesFurther
<1>8. QED
  BY <1>6, <1>7 DEF Ends, EndProcess

LEMMA AbortKeeps ==
  ASSUME BookInv, NEW a \in Actors, In(a, "confirm"), Ends(a, "failure")
  PROVE  BookInv'
<1>1. cmd[a].phase = "confirm" /\ book[Cid(a)].row = "none"
  BY Standing DEF In, Fits
<1>2. QED
  BY <1>1, EndsKeeps DEF Tells, Exits

LEMMA KillKeeps ==
  ASSUME BookInv, NEW a \in Actors, Kill(a)
  PROVE  BookInv'
  BY EndsKeeps DEF Kill, In, Tells, Exits

LEMMA AnswerKeeps ==
  ASSUME BookInv, NEW a \in Actors, Answer(a)
  PROVE  BookInv'
<1>1. cmd[a].phase = "answer"
  BY DEF Answer, In
<1>2. PICK exit : exit = ExitCode(cmd[a].kind, cmd[a].result)
  OBVIOUS
<1>3. exit \in Exits /\ Ends(a, exit)
  BY <1>2 DEF Answer, ExitCode, Checked, Exits
<1>4. Told(cmd[a], book[Cid(a)], accepted)
  BY <1>1, Standing DEF Fits
<1>5. cmd[a].result \in Results
  BY CommandType
<1>6. ASSUME NEW b \in Entry, b.exit = exit, b.kind = cmd[a].kind, b.row = book[Cid(a)].row,
             b.call = book[Cid(a)].call
      PROVE  Tells(b, accepted)
  BY <1>2, <1>4, <1>5, <1>6 DEF Told, Tells, ExitCode, Checked, Results
<1>7. QED
  BY <1>1, <1>3, <1>6, EndsKeeps
----------------------------------------------------------------------------
(* The call of a command.                                                  *)

LEMMA BeginRuns ==
  ASSUME TypeInv, NEW a \in Actors, NEW attr \in Attrs, NEW value \in Values,
         NEW target \in Names \cup {NoTarget}, NEW inverts \in ById, NEW named \in BOOLEAN,
         Begin(a, attr, value, target, inverts, named)
  PROVE  /\ op'[a].pc = "get" /\ op'[a].n = op[a].n + 1 /\ op'[a].inverts = inverts
         /\ loaded'[a] # <<>> /\ OthersRest(a) /\ <<a, op[a].n + 1>> \in Ids
<1>1. PICK host \in Hosts \cup {NoHost} :
        op' = [op EXCEPT ![a] = Begun(op[a].n + 1, attr, value, target, host, inverts, named)]
  BY BeginCases
<1>2. op[a].n \in Nat /\ MaxOps[a] \in Nat
  BY OpType, StateType
<1>3. PICK m \in Nat : m = op[a].n + 1
  BY <1>2
<1>4. PICK new : new = Begun(m, attr, value, target, host, inverts, named)
  OBVIOUS
<1>5. /\ new \in Op /\ new.pc = "get" /\ new.n = m /\ new.attr = attr /\ new.value = value
      /\ new.target = target /\ new.host = host /\ new.inverts = inverts /\ new.named = named
  BY <1>4, BegunType
<1>6. op' = [op EXCEPT ![a] = new]
  BY <1>1, <1>3, <1>4
<1>7. op'[a] = new /\ \A d \in Actors : d # a => op'[d] = op[d]
  BY <1>6, StateType, OpType
<1>8. /\ loaded' = [loaded EXCEPT ![a] = Config(a)] /\ accepted' = accepted
      /\ op[a].n < MaxOps[a]
  BY DEF Begin, Load
<1>9. Config(a) # <<>>
  BY StateType DEF Config
<1>10. loaded'[a] # <<>> /\ \A d \in Actors : d # a => loaded'[d] = loaded[d]
  BY <1>8, <1>9, StateType
<1>11. m \in 1..MaxOps[a]
  BY <1>2, <1>3, <1>8
<1>12. <<a, m>> \in Ids
  BY <1>11 DEF Ids
<1>13. QED
  BY <1>3, <1>5, <1>7, <1>8, <1>10, <1>12 DEF OthersRest

LEMMA BeginCallKeeps ==
  ASSUME BookInv, HistoryInv', NEW a \in Actors, BeginCall(a)
  PROVE  BookInv'
<1>0. TypeInv
  BY CommandType
<1>1. /\ cmd[a].phase = "body"
      /\ cmd' = [cmd EXCEPT ![a].phase = "call", ![a].ran = TRUE]
      /\ book' = [book EXCEPT ![Cid(a)].call = <<a, op[a].n + 1>>]
  BY DEF BeginCall, In
<1>2. /\ op'[a].pc = "get" /\ op'[a].n = op[a].n + 1
      /\ op'[a].inverts = IF cmd[a].kind = "apply" THEN cmd[a].token ELSE NoOp
      /\ cmd[a].kind \in Mutating
      /\ loaded'[a] # <<>> /\ OthersRest(a) /\ <<a, op[a].n + 1>> \in Ids
  <2>1. CASE cmd[a].kind = "write"
    <3>1. PICK attr \in Attrs, v \in Values, t \in Names \cup {NoTarget} :
            Begin(a, attr, v, t, NoOp, FALSE)
      BY <2>1 DEF BeginCall, StartWrite
    <3>2. NoOp \in ById
      BY DEF ById
    <3>3. QED
      BY <1>0, <2>1, <3>1, <3>2, BeginRuns DEF Mutating
  <2>2. CASE cmd[a].kind = "apply"
    <3>1. PICK t \in Names \cup {NoTarget} : StartUndo(a, cmd[a].token, t)
      BY <2>2 DEF BeginCall
    <3>2. cmd[a].token \in Ids
      BY <1>1, <2>2, Standing, CommandType DEF ById
    <3>3. /\ tokens[cmd[a].token].attr \in Attrs /\ tokens[cmd[a].token].value \in Values
          /\ ReplayTarget(cmd[a].token, t) \in Names \cup {NoTarget}
          /\ (t # NoTarget) \in BOOLEAN /\ cmd[a].token \in ById
          /\ Begin(a, tokens[cmd[a].token].attr, tokens[cmd[a].token].value,
                   ReplayTarget(cmd[a].token, t), cmd[a].token, t # NoTarget)
      BY <1>0, <3>1, <3>2, StartUndoCases
    <3>4. PICK attr \in Attrs, v \in Values, target \in Names \cup {NoTarget},
                inverts \in ById, named \in BOOLEAN :
            Begin(a, attr, v, target, inverts, named) /\ inverts = cmd[a].token
      BY <3>3
    <3>5. /\ op'[a].pc = "get" /\ op'[a].n = op[a].n + 1 /\ op'[a].inverts = inverts
          /\ loaded'[a] # <<>> /\ OthersRest(a) /\ <<a, op[a].n + 1>> \in Ids
      BY <1>0, <3>4, BeginRuns
    <3>6. QED
      BY <2>2, <3>4, <3>5 DEF Mutating
  <2>3. QED
    BY <2>1, <2>2 DEF BeginCall
<1>3. PICK result \in Results : result = cmd[a].result
  BY CommandType
<1>4. Becomes(a, "call", result, TRUE)
  BY <1>1, <1>3, CommandMoves DEF Phases
<1>5. PICK c \in Command :
        /\ cmd' = [cmd EXCEPT ![a] = c] /\ c.phase = "call" /\ c.n = cmd[a].n
        /\ c.kind = cmd[a].kind /\ c.token = cmd[a].token
  BY <1>4 DEF Becomes
<1>6. PICK row \in Rows, id \in ById : row = book[Cid(a)].row /\ id = <<a, op[a].n + 1>>
  BY <1>1, <1>2, Standing DEF ById
<1>7. Notes(a, row, id, "none")
  BY <1>1, <1>6, Standing, BookMoves DEF Exits
<1>8. PICK b \in Entry :
        /\ book' = [book EXCEPT ![Cid(a)] = b]
        /\ b.row = row /\ b.call = id /\ b.exit = "none" /\ b.kind = book[Cid(a)].kind
  BY <1>7 DEF Notes
<1>9. row = Opened(cmd[a].kind) /\ b.kind = cmd[a].kind
  BY <1>1, <1>6, <1>8, Standing DEF Fits
<1>10. Fits(c, b, accepted')
  BY <1>1, <1>5, <1>8, <1>9, Standing DEF Fits
<1>11. Runs(c, b, op'[a], <<a, op'[a].n>>, loaded'[a])
  BY <1>2, <1>5, <1>6, <1>8 DEF Runs
<1>12. Tells(b, accepted')
  BY <1>8 DEF Tells
<1>13. QED
  BY <1>1, <1>2, <1>5, <1>8, <1>10, <1>11, <1>12, GoesFurther

\* What a step of the call of a leaves alone.
LEMMA CallRest ==
  ASSUME BookInv, NEW a \in Actors, cmd[a].phase = "call",
         GetPrior(a) \/ Put(a) \/ ReadBack(a) \/ Record(a) \/ Finish(a) \/ Mark(a)
  PROVE  /\ OthersRest(a) /\ op'[a].n = op[a].n /\ loaded' = loaded
         /\ op'[a].pc # "idle" => op'[a].inverts = op[a].inverts
<1>0. TypeInv /\ AcceptedBeforeRecord
  BY DEF BookInv, HistoryInv, OriginInv
<1>1. PICK new : Progresses(a, new)
  BY <1>0, CallProgresses
<1>2. /\ op'[a] = new /\ \A d \in Actors : d # a => op'[d] = op[d]
      /\ new.n = op[a].n
      /\ new.pc # "idle" => new.inverts = op[a].inverts
  BY <1>0, <1>1, StepFacts DEF Progresses
<1>3. accepted \subseteq accepted'
  BY <1>1 DEF Progresses
<1>4. loaded' = loaded
  BY DEF GetPrior, Put, ReadBack, Record, Finish, Mark
<1>5. QED
  BY <1>2, <1>3, <1>4 DEF OthersRest

LEMMA WorkKeeps ==
  ASSUME BookInv, HistoryInv', NEW a \in Actors, Work(a)
  PROVE  BookInv'
<1>0. TypeInv
  BY CommandType
<1>1. /\ cmd[a].phase = "call" /\ UNCHANGED <<cmd, book>>
      /\ GetPrior(a) \/ Put(a) \/ ReadBack(a) \/ Record(a)
  BY DEF Work, In
<1>2. /\ OthersRest(a) /\ op'[a].n = op[a].n /\ loaded' = loaded
      /\ op'[a].pc # "idle" => op'[a].inverts = op[a].inverts
  BY <1>1, CallRest
<1>3. op'[a].pc # "idle"
  <2>1. \E new, pcs : Steps(a, new, pcs) /\ "idle" \notin pcs
    <3>1. CASE GetPrior(a)
      <4>1. PICK new : Steps(a, new, {"put", "finish"})
        BY <1>0, <3>1, GetPriorCases
      <4>2. "idle" \notin {"put", "finish"}
        OBVIOUS
      <4>3. QED
        BY <4>1, <4>2, Zenon
    <3>2. CASE Put(a)
      <4>1. PICK new : Steps(a, new, {"readback", "record", "finish"})
        BY <1>0, <3>2, PutCases, Zenon
      <4>2. "idle" \notin {"readback", "record", "finish"}
        OBVIOUS
      <4>3. QED
        BY <4>1, <4>2, Zenon
    <3>3. CASE ReadBack(a)
      <4>1. PICK new : Steps(a, new, {"record", "finish"})
        BY <1>0, <3>3, ReadBackCases
      <4>2. "idle" \notin {"record", "finish"}
        OBVIOUS
      <4>3. QED
        BY <4>1, <4>2, Zenon
    <3>4. CASE Record(a)
      <4>1. PICK new : Steps(a, new, {"finish"})
        BY <1>0, <3>4, RecordCases
      <4>2. "idle" \notin {"finish"}
        OBVIOUS
      <4>3. QED
        BY <4>1, <4>2, Zenon
    <3>5. QED
      BY <1>1, <3>1, <3>2, <3>3, <3>4
  <2>2. PICK new, pcs : Steps(a, new, pcs) /\ "idle" \notin pcs
    BY <2>1
  <2>3. QED
    BY <1>0, <2>2, StepFacts
<1>4. PICK c \in Command : c = cmd[a]
  BY CommandType
<1>5. PICK b \in Entry : b = book[Cid(a)]
  BY <1>1, Standing
<1>6. /\ Fits(c, b, accepted) /\ Runs(c, b, op[a], Id(a), loaded[a]) /\ b.exit = "none"
      /\ accepted \subseteq accepted'
  BY <1>1, <1>2, <1>4, <1>5, CommandType, Standing DEF OthersRest
<1>7. Fits(c, b, accepted') /\ Tells(b, accepted')
  BY <1>6, FitsStays DEF Tells
<1>8. Runs(c, b, op'[a], <<a, op'[a].n>>, loaded'[a])
  BY <1>1, <1>2, <1>3, <1>4, <1>6 DEF Runs, Id
<1>9. cmd' = [cmd EXCEPT ![a] = c] /\ book' = [book EXCEPT ![Cid(a)] = b] /\ c.n = cmd[a].n
  BY <1>1, <1>4, <1>5, CommandType
<1>10. QED
  BY <1>1, <1>2, <1>7, <1>8, <1>9, GoesFurther

\* The end of the call, and where the command goes from there.
LEMMA FinishedKeeps ==
  ASSUME BookInv, HistoryInv', NEW a \in Actors, cmd[a].phase = "call", Finish(a) \/ Mark(a),
         op'[a].pc = "idle", NEW phase \in {"close", "answer"}, NEW result \in Results,
         Answered(a, phase, result), NEW row \in Rows,
         SetRow(a, row) \/ (book' = book /\ row = book[Cid(a)].row),
         \A c \in Command, b \in Entry :
           /\ c.phase = phase /\ c.result = result /\ c.kind = cmd[a].kind
           /\ c.token = cmd[a].token
           /\ b.row = row /\ b.call = Id(a) /\ b.exit = "none" /\ b.kind = cmd[a].kind
           => Fits(c, b, accepted')
  PROVE  BookInv'
<1>1. OthersRest(a) /\ op'[a].n = op[a].n /\ loaded' = loaded
  BY CallRest
<1>2. Becomes(a, phase, result, cmd[a].ran)
  BY CommandMoves DEF Phases
<1>3. PICK c \in Command :
        /\ cmd' = [cmd EXCEPT ![a] = c] /\ c.phase = phase /\ c.result = result
        /\ c.n = cmd[a].n /\ c.kind = cmd[a].kind /\ c.token = cmd[a].token
  BY <1>2 DEF Becomes
<1>4. PICK call \in ById : call = book[Cid(a)].call
  BY Standing
<1>5. call = Id(a)
  BY <1>4, CommandType DEF Runs
<1>6. Notes(a, row, call, "none")
  BY <1>4, Standing, BookMoves DEF Exits
<1>7. PICK b \in Entry :
        /\ book' = [book EXCEPT ![Cid(a)] = b]
        /\ b.row = row /\ b.call = call /\ b.exit = "none" /\ b.kind = book[Cid(a)].kind
  BY <1>6 DEF Notes
<1>8. b.kind = cmd[a].kind
  BY <1>7, Standing
<1>9. Fits(c, b, accepted') /\ Tells(b, accepted')
  BY <1>3, <1>5, <1>7, <1>8 DEF Tells
<1>10. Runs(c, b, op'[a], <<a, op'[a].n>>, loaded'[a])
  BY <1>3 DEF Runs
<1>11. QED
  BY <1>1, <1>3, <1>7, <1>9, <1>10, GoesFurther

LEMMA FinishWriteKeeps ==
  ASSUME BookInv, HistoryInv', NEW a \in Actors, FinishWrite(a)
  PROVE  BookInv'
<1>0. TypeInv /\ AcceptedBeforeRecord
  BY DEF BookInv, HistoryInv, OriginInv
<1>1. cmd[a].phase = "call" /\ cmd[a].kind = "write" /\ Finish(a)
  BY DEF FinishWrite, In
<1>2. /\ Fits(cmd[a], book[Cid(a)], accepted) /\ op[a].inverts = NoOp
      /\ book[Cid(a)].row = "pending"
  BY <1>1, CommandType, Standing DEF Runs, Fits, Opened, Mutating
<1>3. /\ op[a].pc = "finish" /\ op'[a].pc = "idle" /\ accepted' = accepted
  <2>1. PICK new : Steps(a, new, {"mark", "idle"}) /\ (new.pc = "mark" => MayMark(a))
    BY <1>0, <1>1, FinishCases
  <2>2. op'[a] = new /\ new.pc \in {"mark", "idle"}
    BY <1>0, <2>1, StepFacts
  <2>3. QED
    BY <1>0, <1>1, <1>2, <2>1, <2>2, FinishCases DEF MayMark
<1>4. /\ op[a].verdict \in {"ok", "error", "unknown"}
      /\ op[a].verdict # "error" => <<Id(a), NoOp>> \in accepted
  BY <1>0, <1>2, <1>3, OpType DEF Verdicts, AcceptedBeforeRecord, GoesOn
<1>5. CASE SetRow(a, op[a].verdict) /\ Answered(a, "answer", op[a].verdict)
  <2>1. op[a].verdict \in Results /\ op[a].verdict \in Rows
    BY <1>4 DEF Results, Rows
  <2>2. \A c \in Command, b \in Entry :
          /\ c.phase = "answer" /\ c.result = op[a].verdict /\ c.kind = cmd[a].kind
          /\ b.row = op[a].verdict /\ b.call = Id(a) /\ b.exit = "none"
          /\ b.kind = cmd[a].kind
          => Fits(c, b, accepted')
    BY <1>1, <1>3, <1>4 DEF Fits, Told, Mutating
  <2>3. QED
    BY <1>1, <1>3, <1>5, <2>1, <2>2, FinishedKeeps
<1>6. CASE book' = book /\ Answered(a, "answer", "raised")
  <2>1. "raised" \in Results /\ "pending" \in Rows
    BY DEF Results, Rows
  <2>2. \A c \in Command, b \in Entry :
          /\ c.phase = "answer" /\ c.result = "raised" /\ c.kind = cmd[a].kind
          /\ b.row = "pending" /\ b.exit = "none" /\ b.kind = cmd[a].kind
          => Fits(c, b, accepted')
    BY <1>1 DEF Fits, Told
  <2>3. QED
    BY <1>1, <1>2, <1>3, <1>6, <2>1, <2>2, FinishedKeeps
<1>7. QED
  BY <1>5, <1>6 DEF FinishWrite

\* The end of an inverse, or of its mark.
LEMMA AppliedKeeps ==
  ASSUME BookInv, HistoryInv', NEW a \in Actors, cmd[a].phase = "call", Finish(a) \/ Mark(a),
         op'[a].pc = "idle", NEW result \in {"ok", "error"}, Answered(a, "close", result),
         book' = book, cmd[a].kind # "write"
  PROVE  BookInv'
<1>1. /\ book[Cid(a)].row = Opened(cmd[a].kind)
      /\ cmd[a].kind = "apply" => cmd[a].token # NoOp
  BY Standing DEF Fits
<1>2. result \in Results
  BY DEF Results
<1>3. PICK row \in Rows : row = book[Cid(a)].row
  BY Standing
<1>4. \A c \in Command, b \in Entry :
        /\ c.phase = "close" /\ c.result = result /\ c.kind = cmd[a].kind
        /\ c.token = cmd[a].token
        /\ b.row = row /\ b.exit = "none" /\ b.kind = cmd[a].kind
        => Fits(c, b, accepted')
  BY <1>1, <1>3 DEF Fits
<1>5. QED
  BY <1>2, <1>3, <1>4, FinishedKeeps

LEMMA FinishInverseKeeps ==
  ASSUME BookInv, HistoryInv', NEW a \in Actors, FinishInverse(a)
  PROVE  BookInv'
<1>0. TypeInv
  BY CommandType
<1>1. cmd[a].phase = "call" /\ cmd[a].kind = "apply" /\ Finish(a) /\ book' = book
  BY DEF FinishInverse, In
<1>2. op'[a].pc \in {"mark", "idle"}
  <2>1. PICK new : Steps(a, new, {"mark", "idle"})
    BY <1>0, <1>1, FinishCases
  <2>2. QED
    BY <1>0, <2>1, StepFacts
<1>3. CASE op'[a].pc = "idle"
  <2>1. PICK result \in {"ok", "error"} : Answered(a, "close", result)
    BY <1>3 DEF FinishInverse
  <2>2. QED
    BY <1>1, <1>3, <2>1, AppliedKeeps
<1>4. CASE op'[a].pc = "mark"
  <2>1. /\ OthersRest(a) /\ op'[a].n = op[a].n /\ loaded' = loaded
        /\ op'[a].inverts = op[a].inverts
    BY <1>1, <1>4, CallRest
  <2>2. cmd' = cmd
    BY <1>4 DEF FinishInverse
  <2>3. PICK c \in Command : c = cmd[a]
    BY CommandType
  <2>4. PICK b \in Entry : b = book[Cid(a)]
    BY <1>1, Standing
  <2>5. /\ Fits(c, b, accepted) /\ Runs(c, b, op[a], Id(a), loaded[a]) /\ b.exit = "none"
        /\ accepted \subseteq accepted'
    BY <1>1, <2>1, <2>3, <2>4, CommandType, Standing DEF OthersRest
  <2>6. Fits(c, b, accepted') /\ Tells(b, accepted')
    BY <2>5, FitsStays DEF Tells
  <2>7. Runs(c, b, op'[a], <<a, op'[a].n>>, loaded'[a])
    BY <1>1, <1>4, <2>1, <2>3, <2>5 DEF Runs, Id
  <2>8. cmd' = [cmd EXCEPT ![a] = c] /\ book' = [book EXCEPT ![Cid(a)] = b]
        /\ c.n = cmd[a].n
    BY <1>1, <2>2, <2>3, <2>4, CommandType
  <2>9. QED
    BY <1>1, <2>1, <2>6, <2>7, <2>8, GoesFurther
<1>5. QED
  BY <1>2, <1>3, <1>4

LEMMA MarkTokenKeeps ==
  ASSUME BookInv, HistoryInv', NEW a \in Actors, MarkToken(a)
  PROVE  BookInv'
<1>0. TypeInv /\ MarkedRows
  BY DEF BookInv, HistoryInv, OriginInv
<1>1. cmd[a].phase = "call" /\ Mark(a) /\ book' = book
  BY DEF MarkToken, In
<1>2. op'[a].pc = "idle"
  <2>1. Steps(a, Idle(op[a].n), {"idle"})
    BY <1>0, <1>1, MarkCases
  <2>2. QED
    BY <1>0, <2>1, StepFacts
<1>3. PICK result \in {"ok", "error"} : Answered(a, "close", result)
  BY DEF MarkToken, AfterMark
<1>4. cmd[a].kind # "write"
  <2>1. op[a].inverts # NoOp
    BY <1>0, <1>1 DEF Mark, At, MarkedRows
  <2>2. QED
    BY <1>1, <2>1, CommandType DEF Runs
<1>5. QED
  BY <1>1, <1>2, <1>3, <1>4, AppliedKeeps
----------------------------------------------------------------------------
(* The next command, and all the steps together.                           *)

LEMMA InvokeKeeps ==
  ASSUME BookInv, NEW a \in Actors, NEW kind \in Kinds, NEW i \in ById, NEW budget \in Budgets,
         Invoke(a, kind, i, budget)
  PROVE  BookInv'
<1>1. /\ cmd[a].phase = "shell" /\ cmd[a].n < MaxOps[a] /\ UNCHANGED vars
      /\ kind = "apply" => i # NoOp
  BY DEF Invoke, In
<1>2. cmd[a].n \in Nat /\ MaxOps[a] \in Nat /\ book \in [Ids -> Entry]
  BY CommandType
<1>3. PICK m \in Nat : m = cmd[a].n + 1 /\ m >= 1 /\ m <= MaxOps[a]
  BY <1>1, <1>2
<1>4. PICK id \in Ids : id = <<a, m>>
  <2>1. m \in 1..MaxOps[a]
    BY <1>2, <1>3
  <2>2. <<a, m>> \in Ids
    BY <2>1 DEF Ids
  <2>3. QED
    BY <2>2, Zenon
<1>5. PICK phase : phase = IF kind \in Mutating THEN "confirm" ELSE "govern"
  OBVIOUS
<1>6. PICK shell \in Command : shell = AtShell(m) /\ shell.n = m /\ ~shell.ran
  <2>1. AtShell(m) \in Command /\ AtShell(m).n = m
    BY AtShellType
  <2>2. ~AtShell(m).ran
    BY DEF AtShell
  <2>3. QED
    BY <2>1, <2>2
<1>7. PICK c : c = [shell EXCEPT !.kind = kind, !.token = i, !.budget = budget, !.phase = phase]
  OBVIOUS
<1>8. /\ c \in Command /\ c.n = m /\ c.kind = kind /\ c.token = i /\ c.phase = phase /\ ~c.ran
  BY <1>5, <1>6, <1>7 DEF Command, Phases
<1>9. PICK b : b = [book[id] EXCEPT !.kind = kind]
  OBVIOUS
<1>10. book[id].exit = "none" /\ book[id].row = "none"
  <2>1. id[1] = a /\ id[2] = m /\ m > cmd[a].n
    BY <1>2, <1>3, <1>4
  <2>2. QED
    BY <2>1 DEF BookInv, Unused
<1>11. b \in Entry /\ b.kind = kind /\ b.exit = "none" /\ b.row = "none"
  BY <1>2, <1>9, <1>10 DEF Entry
<1>12. /\ cmd' = [cmd EXCEPT ![a] = c] /\ book' = [book EXCEPT ![<<a, c.n>>] = b]
  <2>1. cmd' = [cmd EXCEPT ![a] = [AtShell(m) EXCEPT !.kind = kind, !.token = i,
                                     !.budget = budget, !.phase = phase]]
    BY <1>3, <1>5 DEF Invoke
  <2>2. book' = [book EXCEPT ![id].kind = kind]
    BY <1>3, <1>4 DEF Invoke
  <2>3. QED
    BY <1>2, <1>4, <1>6, <1>7, <1>8, <1>9, <2>1, <2>2
<1>13. Fits(c, b, accepted') /\ Tells(b, accepted')
  BY <1>1, <1>5, <1>8, <1>11 DEF Fits, Tells
<1>14. Runs(c, b, op'[a], <<a, op'[a].n>>, loaded'[a])
  <2>1. op[a].pc = "idle"
    BY <1>1, CommandType DEF Runs
  <2>2. c.phase # "call" /\ op' = op
    BY <1>1, <1>5, <1>8 DEF vars
  <2>3. QED
    BY <2>1, <2>2 DEF Runs
<1>15. HistoryInv' /\ OthersRest(a)
  BY <1>1, QuietRest, QuietHistory
<1>16. c.n >= cmd[a].n /\ c.n <= MaxOps[a] /\ c.n >= 1
  BY <1>2, <1>3, <1>8
<1>17. QED
  BY <1>8, <1>11, <1>12, <1>13, <1>14, <1>15, <1>16, CommandStep

LEMMA CommandIsCall ==
  ASSUME BookInv, [CmdNext]_cliVars PROVE [Next]_vars
<1>1. ASSUME NEW a \in Actors, BeginCall(a) PROVE Next
  <2>1. CASE cmd[a].kind = "write"
    <3>1. PICK attr \in Attrs, v \in Values, t \in Names \cup {NoTarget} :
            StartWrite(a, attr, v, t)
      BY <1>1, <2>1 DEF BeginCall
    <3>2. QED
      BY <3>1 DEF Next
  <2>2. CASE cmd[a].kind = "apply"
    <3>1. PICK t \in Names \cup {NoTarget} : StartUndo(a, cmd[a].token, t)
      BY <1>1, <2>2 DEF BeginCall
    <3>2. cmd[a].phase = "body"
      BY <1>1 DEF BeginCall, In
    <3>3. cmd[a].token \in Ids
      BY <2>2, <3>2, Standing, CommandType DEF ById
    <3>4. QED
      BY <3>1, <3>3 DEF Next
  <2>3. QED
    BY <1>1, <2>1, <2>2 DEF BeginCall
<1>2. ASSUME NEW a \in Actors, Work(a) \/ FinishWrite(a) \/ FinishInverse(a) \/ MarkToken(a)
      PROVE  Next
  BY <1>2 DEF Work, FinishWrite, FinishInverse, MarkToken, Next
<1>3. ASSUME NEW a \in Actors, NEW exit, Ends(a, exit) PROVE Next \/ UNCHANGED vars
  BY <1>3 DEF Ends, EndProcess, Next
<1>4. ASSUME NEW a \in Actors, Confirm(a) \/ Kill(a) \/ Answer(a) PROVE Next \/ UNCHANGED vars
  BY <1>3, <1>4 DEF Confirm, Kill, Answer
<1>5. ASSUME NEW a \in Actors,
             \/ \E kind \in Kinds, i \in ById, b \in Budgets : Invoke(a, kind, i, b)
             \/ TripBudget(a) \/ Intend(a) \/ IntentFails(a) \/ RefuseBody(a) \/ Reports(a)
             \/ Close(a)
      PROVE  UNCHANGED vars
  BY <1>5 DEF Invoke, TripBudget, Intend, IntentFails, RefuseBody, Reports, Close
<1>6. ASSUME NEW gone \in Names \cup {NoTarget}, NEW n \in Names, NEW h \in Hosts,
             SaveTarget(gone, n, h)
      PROVE  Next
  BY <1>6 DEF Next
<1>7. UNCHANGED cliVars => UNCHANGED vars
  BY DEF cliVars
<1>8. QED
  BY <1>1, <1>2, <1>4, <1>5, <1>6, <1>7 DEF CmdNext

LEMMA BookRests ==
  ASSUME BookInv, HistoryInv', TypeOK', UNCHANGED <<cmd, book, accepted>>,
         \A a \in Actors : op'[a] = op[a] /\ loaded'[a] = loaded[a]
  PROVE  BookInv'
  BY DEF BookInv, CommandTypeOK, CommandsFit, Unused, In, Cid, Id

LEMMA BookStep == ASSUME BookInv, [CmdNext]_cliVars PROVE BookInv'
<1>1. HistoryInv'
  BY CommandIsCall, HistoryStep DEF BookInv
<1>2. TypeOK'
  BY <1>1 DEF HistoryInv, OriginInv, TypeInv
<1>3. ASSUME NEW a \in Actors, Confirm(a) PROVE BookInv'
  BY <1>3, ConfirmKeeps, AbortKeeps DEF Confirm
<1>4. ASSUME NEW a \in Actors, TripBudget(a) \/ IntentFails(a) PROVE BookInv'
  BY <1>4, RefusedKeeps DEF TripBudget, IntentFails
<1>5. ASSUME NEW a \in Actors, RefuseBody(a) \/ Reports(a) PROVE BookInv'
  BY <1>5, BodyKeeps DEF RefuseBody, Reports
<1>6. ASSUME NEW a \in Actors,
             BeginCall(a) \/ Work(a) \/ FinishWrite(a) \/ FinishInverse(a) \/ MarkToken(a)
      PROVE  BookInv'
  BY <1>1, <1>6, BeginCallKeeps, WorkKeeps, FinishWriteKeeps, FinishInverseKeeps,
     MarkTokenKeeps
<1>7. ASSUME NEW gone \in Names \cup {NoTarget}, NEW n \in Names, NEW h \in Hosts,
             SaveTarget(gone, n, h), UNCHANGED <<cmd, book>>
      PROVE  BookInv'
  BY <1>1, <1>2, <1>7, BookRests DEF SaveTarget
<1>8. ASSUME UNCHANGED cliVars PROVE BookInv'
  BY <1>1, <1>2, <1>8, BookRests DEF cliVars, vars
<1>9. QED
  BY <1>3, <1>4, <1>5, <1>6, <1>7, <1>8, InvokeKeeps, KillKeeps, IntendKeeps, CloseKeeps,
     AnswerKeeps DEF CmdNext

LEMMA BookInit == CmdInit => BookInv
<1> SUFFICES ASSUME CmdInit PROVE BookInv
  OBVIOUS
<1>1. HistoryInv /\ TypeOK
  BY HistoryInit DEF CmdInit, HistoryInv, OriginInv, TypeInv
<1>2. \A a \in Actors : cmd[a] \in Command /\ cmd[a].phase = "shell" /\ cmd[a].n = 0
  BY AtShellType DEF CmdInit
<1>3. \A a \in Actors : op[a].pc = "idle" /\ MaxOps[a] \in Nat
  BY IdleType, OpsAssumption DEF CmdInit, Init
<1>4. Blank \in Entry /\ Blank.exit = "none" /\ Blank.row = "none"
  BY DEF Blank, Entry, Kinds, ById
<1>5. cmd \in [Actors -> Command] /\ book \in [Ids -> Entry]
      /\ \A i \in Ids : book[i].exit = "none" /\ book[i].row = "none"
  BY <1>2, <1>4 DEF CmdInit
<1>6. CommandTypeOK
  BY <1>1, <1>5 DEF CommandTypeOK
<1>7. CommandsFit
  BY <1>2, <1>3 DEF CommandsFit, In, Runs
<1>8. Unused /\ \A i \in Ids : Tells(book[i], accepted)
  BY <1>5 DEF Unused, Tells
<1>9. QED
  BY <1>1, <1>6, <1>7, <1>8 DEF BookInv

\* Commands, their entries, and the calls and files behind them keep their types.
THEOREM CommandTypeCorrect == CmdSpec => []CommandTypeOK
<1>1. CmdInit => BookInv
  BY BookInit
<1>2. BookInv /\ [CmdNext]_cliVars => BookInv'
  BY BookStep
<1>3. BookInv => CommandTypeOK
  BY DEF BookInv
<1>4. QED
  BY <1>1, <1>2, <1>3, PTL DEF CmdSpec

\* However commands are killed, refused or fail, and whoever else writes: an exit
\* code of 0 is a row that says ok and, of a write, a change the proxy accepted; 2
\* is a row that says unknown; 1 is neither (cli/_common.py:79).
THEOREM ExitTellsTheRowHolds == CmdSpec => []ExitTellsTheRow
<1>1. CmdInit => BookInv
  BY BookInit
<1>2. BookInv /\ [CmdNext]_cliVars => BookInv'
  BY BookStep
<1>3. BookInv => ExitTellsTheRow
  BY DEF BookInv, ExitTellsTheRow, Tells
<1>4. QED
  BY <1>1, <1>2, <1>3, PTL DEF CmdSpec

\* The commands are callers of UndoExecutor: every behaviour of theirs is one of
\* its behaviours, and what is proved of those holds of these.
THEOREM CommandsAreCalls == CmdSpec => Spec
<1>1. CmdInit => BookInv /\ Init
  BY BookInit DEF CmdInit
<1>2. BookInv /\ [CmdNext]_cliVars => BookInv' /\ [Next]_vars
  BY BookStep, CommandIsCall
<1>3. QED
  BY <1>1, <1>2, PTL DEF CmdSpec, Spec

----------------------------------------------------------------------------
(* One operator: the answer of undo_apply, and the undo log.               *)

LEMMA LogOfCommands ==
  /\ CmdInit => LogInv
  /\ OneOperator /\ BookInv /\ LogInv /\ [CmdNext]_cliVars => LogInv'
<1>1. CmdInit => LogInv
  BY LogInit DEF CmdInit
<1>2. ASSUME OneOperator, BookInv, LogInv, [CmdNext]_cliVars PROVE LogInv'
  BY <1>2, CommandIsCall, LogStep
<1>3. QED
  BY <1>1, <1>2

\* Where a command of a goes outside of its call.
LEMMA NotClosing ==
  ASSUME BookInv, NEW a \in Actors,
         \/ \E kind \in Kinds, i \in ById, b \in Budgets : Invoke(a, kind, i, b)
         \/ Confirm(a) \/ Kill(a) \/ TripBudget(a) \/ Intend(a) \/ IntentFails(a)
         \/ BeginCall(a) \/ RefuseBody(a) \/ Reports(a) \/ Work(a) \/ FinishWrite(a)
         \/ Close(a) \/ Answer(a)
  PROVE  cmd'[a].phase # "close" \/ ~cmd'[a].ran
<1>0. cmd \in [Actors -> Command] /\ cmd[a] \in Command /\ cmd[a].n \in Nat
  BY CommandType
<1>1. ASSUME NEW phase, phase # "close", NEW result, NEW ran, Becomes(a, phase, result, ran)
      PROVE  cmd'[a].phase # "close"
  BY <1>0, <1>1 DEF Becomes
<1>2. ASSUME NEW exit, Ends(a, exit) PROVE cmd'[a].phase # "close"
  <2>1. cmd'[a] = AtShell(cmd[a].n)
    BY <1>0, <1>2 DEF Ends
  <2>2. QED
    BY <1>0, <2>1, AtShellType
<1>3. ASSUME NEW phase \in Phases \ {"close"},
             Move(a, phase) \/ \E r \in Results : Answered(a, phase, r)
      PROVE  cmd'[a].phase # "close"
  <2>1. phase \in Phases /\ phase # "close" /\ cmd[a].result \in Results
    BY <1>3, CommandType
  <2>2. CASE Move(a, phase)
    <3>1. Becomes(a, phase, cmd[a].result, cmd[a].ran)
      BY <2>1, <2>2, CommandMoves
    <3>2. QED
      BY <1>1, <2>1, <3>1
  <2>3. CASE \E r \in Results : Answered(a, phase, r)
    <3>1. PICK r \in Results : Answered(a, phase, r)
      BY <2>3
    <3>2. Becomes(a, phase, r, cmd[a].ran)
      BY <2>1, <3>1, CommandMoves
    <3>3. QED
      BY <1>1, <2>1, <3>2
  <2>4. QED
    BY <1>3, <2>2, <2>3
<1>4. ASSUME \E kind \in Kinds, i \in ById, b \in Budgets : Invoke(a, kind, i, b)
      PROVE  cmd'[a].phase # "close"
  <2>1. PICK kind \in Kinds, i \in ById, b \in Budgets : Invoke(a, kind, i, b)
    BY <1>4
  <2>2. PICK phase : phase = IF kind \in Mutating THEN "confirm" ELSE "govern"
    OBVIOUS
  <2>3. PICK shell \in Command : shell = AtShell(cmd[a].n + 1)
    BY <1>0, AtShellType
  <2>4. cmd' = [cmd EXCEPT ![a] = [shell EXCEPT !.kind = kind, !.token = i, !.budget = b,
                                                !.phase = phase]]
    BY <2>1, <2>2, <2>3 DEF Invoke
  <2>5. [shell EXCEPT !.kind = kind, !.token = i, !.budget = b, !.phase = phase].phase = phase
    BY <2>3 DEF Command
  <2>6. QED
    BY <1>0, <2>2, <2>4, <2>5
<1>5. CASE Confirm(a) \/ Kill(a) \/ Answer(a)
  BY <1>2, <1>3, <1>5 DEF Confirm, Kill, Answer, Phases
<1>6. CASE TripBudget(a) \/ IntentFails(a)
  BY <1>3, <1>6 DEF TripBudget, IntentFails, Phases, Results
<1>7. CASE Intend(a)
  BY <1>3, <1>7 DEF Intend, Phases
<1>8. CASE Close(a)
  BY <1>3, <1>8 DEF Close, Phases, Results
<1>9. CASE BeginCall(a)
  BY <1>0, <1>1, <1>9, CommandMoves DEF BeginCall, Phases, Results
<1>10. CASE RefuseBody(a) \/ Reports(a)
  <2>1. cmd[a].phase = "body" /\ ~cmd[a].ran
    BY <1>10, Standing DEF RefuseBody, Reports, In, Fits
  <2>2. \E result \in {"ok", "error"} : Answered(a, "close", result)
    BY <1>10 DEF RefuseBody, Reports
  <2>3. \E result \in Results : Becomes(a, "close", result, cmd[a].ran)
    BY <2>2, CommandMoves DEF Phases, Results
  <2>4. QED
    BY <1>0, <2>1, <2>3 DEF Becomes
<1>11. CASE Work(a)
  BY <1>11 DEF Work, In
<1>12. CASE FinishWrite(a)
  <2>1. op[a].verdict \in Results /\ "raised" \in Results /\ "answer" \in Phases \ {"close"}
    BY CommandType, OpType DEF Verdicts, Results, Phases
  <2>2. QED
    BY <1>3, <1>12, <2>1 DEF FinishWrite
<1>13. QED
  BY <1>4, <1>5, <1>6, <1>7, <1>8, <1>9, <1>10, <1>11, <1>12

\* What AnswerTellsTheToken says of a command that is about to answer.
AnswerTells(c, status, row) ==
  c.phase = "close" /\ c.kind = "apply" /\ c.ran =>
    /\ c.result = "ok" => (status = "applied" <=> row # "error")
    /\ c.result = "error" => status = "recorded"

\* The token of an inverse that is under way.
LEMMA UnderWay ==
  ASSUME BookInv, InvertsIsThere, NEW a \in Actors, cmd[a].phase = "call",
         cmd[a].kind = "apply"
  PROVE  /\ op[a].pc # "idle" /\ op[a].inverts = cmd[a].token /\ op[a].inverts # NoOp
         /\ cmd[a].token \in Ids /\ tokens[cmd[a].token].status = "recorded"
<1>1. Runs(cmd[a], book[Cid(a)], op[a], Id(a), loaded[a]) /\ cmd[a].token \in ById
  BY CommandType
<1>2. cmd[a].token # NoOp
  BY Standing
<1>3. QED
  BY <1>1, <1>2 DEF Runs, InvertsIsThere, Busy, ById

LEMMA FinishInverseTells ==
  ASSUME BookInv, LogInv, NEW a \in Actors, FinishInverse(a)
  PROVE  AnswerTells(cmd'[a], tokens'[cmd'[a].token].status, rows'[<<a, op'[a].n>>])
<1>0. TypeInv /\ cmd \in [Actors -> Command]
  BY CommandType
<1>1. cmd[a].phase = "call" /\ cmd[a].kind = "apply" /\ Finish(a)
  BY DEF FinishInverse, In
<1>2. /\ op[a].inverts # NoOp /\ tokens[cmd[a].token].status = "recorded"
  BY <1>1, UnderWay DEF LogInv
<1>3. op[a].pc = "finish" /\ tokens' = tokens
  BY <1>0, <1>1, FinishCases
<1>4. CASE op'[a].pc = "mark"
  BY <1>1, <1>4 DEF FinishInverse, AnswerTells
<1>5. CASE op'[a].pc # "mark"
  <2>1. PICK result \in {"ok", "error"} :
          /\ Answered(a, "close", result)
          /\ result = "ok" => rows' # rows
    BY <1>5 DEF FinishInverse
  <2>2. Becomes(a, "close", result, cmd[a].ran)
    BY <2>1, CommandMoves DEF Phases, Results
  <2>3. cmd'[a].result = result /\ cmd'[a].token = cmd[a].token
    BY <1>0, <2>2 DEF Becomes
  <2>4. ASSUME rows' # rows PROVE rows'[<<a, op'[a].n>>] = "error"
    <3>1. rows' = [rows EXCEPT ![Id(a)] = op[a].verdict] /\ ~MayMark(a)
      BY <1>0, <1>1, <1>5, <2>4, FinishCases
    <3>2. op[a].verdict = "error"
      BY <1>2, <3>1 DEF MayMark
    <3>3. Id(a) \in Ids /\ rows \in [Ids -> Verdicts \cup {"none"}]
      BY <1>0, <1>3, OpType, StateType
    <3>4. op'[a].n = op[a].n
      BY <1>1, CallRest
    <3>5. QED
      BY <3>1, <3>2, <3>3, <3>4 DEF Id
  <2>5. QED
    BY <1>2, <1>3, <2>1, <2>3, <2>4 DEF AnswerTells
<1>6. QED
  BY <1>4, <1>5

LEMMA MarkTokenTells ==
  ASSUME BookInv, LogInv, NEW a \in Actors, MarkToken(a)
  PROVE  AnswerTells(cmd'[a], tokens'[cmd'[a].token].status, rows'[<<a, op'[a].n>>])
<1>0. TypeInv /\ cmd \in [Actors -> Command] /\ MarkedRows
  BY CommandType DEF BookInv, HistoryInv
<1>1. cmd[a].phase = "call" /\ Mark(a)
  BY DEF MarkToken, In
<1>2. op[a].pc = "mark" /\ rows' = rows /\ rows[Id(a)] # "error"
  BY <1>0, <1>1, MarkCases DEF MarkedRows
<1>3. op'[a].n = op[a].n
  BY <1>1, CallRest
<1>4. PICK result \in {"ok", "error"} :
        /\ Answered(a, "close", result)
        /\ result = "ok" => tokens'[cmd[a].token].status = "applied"
        /\ result = "error" => tokens' = tokens
  BY DEF MarkToken, AfterMark
<1>5. Becomes(a, "close", result, cmd[a].ran)
  BY <1>4, CommandMoves DEF Phases, Results
<1>6. /\ cmd'[a].result = result /\ cmd'[a].token = cmd[a].token
      /\ cmd'[a].kind = cmd[a].kind
  BY <1>0, <1>5 DEF Becomes
<1>7. CASE cmd[a].kind # "apply"
  BY <1>6, <1>7 DEF AnswerTells
<1>8. CASE cmd[a].kind = "apply"
  <2>1. tokens[cmd[a].token].status = "recorded"
    BY <1>1, <1>8, UnderWay DEF LogInv
  <2>2. QED
    BY <1>2, <1>3, <1>4, <1>6, <2>1 DEF AnswerTells, Id
<1>9. QED
  BY <1>7, <1>8

LEMMA AnswerStep ==
  ASSUME OneOperator, BookInv, LogInv, AnswerTellsTheToken, [CmdNext]_cliVars
  PROVE  AnswerTellsTheToken'
<1>1. ASSUME NEW a \in Actors,
             AnswerTells(cmd'[a], tokens'[cmd'[a].token].status, rows'[<<a, op'[a].n>>])
      PROVE  AnswerTellsTheToken'
  BY <1>1, SameActor DEF AnswerTellsTheToken, AnswerTells, In, Id
<1>2. ASSUME NEW a \in Actors, cmd'[a].phase # "close" \/ ~cmd'[a].ran
      PROVE  AnswerTellsTheToken'
  BY <1>1, <1>2 DEF AnswerTells
<1>3. ASSUME UNCHANGED <<cmd, tokens, rows, op>> PROVE AnswerTellsTheToken'
  BY <1>3 DEF AnswerTellsTheToken, In, Id
<1>4. ASSUME NEW gone \in Names \cup {NoTarget}, NEW n \in Names, NEW h \in Hosts,
             SaveTarget(gone, n, h), UNCHANGED <<cmd, book>>
      PROVE  UNCHANGED <<cmd, tokens, rows, op>>
  BY <1>4 DEF SaveTarget
<1>5. UNCHANGED cliVars => UNCHANGED <<cmd, tokens, rows, op>>
  BY DEF cliVars, vars
<1>6. QED
  BY <1>1, <1>2, <1>3, <1>4, <1>5, NotClosing, FinishInverseTells, MarkTokenTells DEF CmdNext

\* For one operator, and whatever fails: when `undo apply` answers, no error means
\* that the token is used up exactly if the inverse did not fail, and an error that
\* the token can be applied again (tools/undo.py:185).
THEOREM AnswerTellsTheTokenHolds == ASSUME OneOperator PROVE CmdSpec => []AnswerTellsTheToken
<1>1. CmdInit => BookInv /\ LogInv /\ AnswerTellsTheToken
  <2>1. CmdInit => AnswerTellsTheToken
    BY AtShellType DEF CmdInit, AnswerTellsTheToken, In
  <2>2. QED
    BY <2>1, BookInit, LogOfCommands
<1>2. /\ BookInv /\ LogInv /\ AnswerTellsTheToken /\ [CmdNext]_cliVars
      => BookInv' /\ LogInv' /\ AnswerTellsTheToken'
  BY BookStep, LogOfCommands, AnswerStep
<1>3. QED
  BY <1>1, <1>2, PTL DEF CmdSpec

----------------------------------------------------------------------------
(* UndoLog is implemented.                                                 *)

Changes == {<<effects[k].id, effects[k].inverts>> : k \in DOMAIN effects}
Statuses == [i \in Ids |-> tokens[i].status]

LEMMA SameLog ==
  ASSUME Statuses' = Statuses, accepted' = accepted, Changes' = Changes
  PROVE  UNCHANGED (Log!log)
  BY DEF Log!log, Statuses, Changes

\* A request is a Send of the log.
LEMMA PutSends ==
  ASSUME LogInv, NEW a \in Actors, Put(a)
  PROVE  Log!Next
<1>0. TypeInv
  BY DEF LogInv, HistoryInv, OriginInv
<1>1. /\ op[a].pc = "put" /\ tokens' = tokens
      /\ accepted' \in {accepted, accepted \cup {<<Id(a), op[a].inverts>>}}
      /\ Apply(a) \/ effects' = effects
  BY <1>0, PutCases
<1>2. PICK id \in Ids, i \in ById : id = Id(a) /\ i = op[a].inverts
  BY <1>0, <1>1, OpType
<1>3. id[1] = a /\ id[2] = op[a].n
  BY <1>0, <1>2, OpType
<1>4. \A p \in accepted \cup Changes : p[1] # id
  <2>1. \A p \in accepted : p[1] # id
    BY <1>1, <1>3 DEF LogInv, HistoryInv, AcceptedOfPast
  <2>2. \A k \in DOMAIN effects : effects[k].id # id
    BY <1>1, <1>3 DEF LogInv, HistoryInv, OriginInv, EffectsOfPast
  <2>3. QED
    BY <2>1, <2>2 DEF Changes
<1>5. i # NoOp => Statuses[i] = "recorded"
  BY <1>1, <1>2 DEF LogInv, InvertsIsThere, Busy, Statuses, ById
<1>6. Changes' \in {Changes, Changes \cup {<<id, i>>}}
  <2>1. CASE effects' = effects
    BY <2>1 DEF Changes
  <2>2. CASE Apply(a)
    <3>1. PICK e0 : e0 = NewEffect(a)
      OBVIOUS
    <3>2. PICK last \in Nat :
            /\ DOMAIN effects' = DOMAIN effects \cup {last}
            /\ effects'[last] = e0
            /\ \A k \in DOMAIN effects : effects'[k] = effects[k] /\ k < last
      BY <1>0, <1>1, <2>2, <3>1, EffectsGrow
    <3>3. e0.id = id /\ e0.inverts = i
      BY <1>2, <3>1 DEF NewEffect
    <3>4. Changes' = {<<effects'[k].id, effects'[k].inverts>> : k \in DOMAIN effects'}
      BY DEF Changes
    <3>5. \A p : p \in Changes' <=> p \in Changes \/ p = <<id, i>>
      BY <3>2, <3>3, <3>4 DEF Changes
    <3>6. QED
      BY <3>5
  <2>3. QED
    BY <1>1, <2>1, <2>2
<1>7. Statuses' = Statuses
  BY <1>1 DEF Statuses
<1>8. Log!Send(id, i)
  BY <1>1, <1>2, <1>4, <1>5, <1>6, <1>7 DEF Log!Send, Log!Sent, Changes, Statuses
<1>9. QED
  BY <1>8 DEF Log!Next, ById

LEMMA RecordRecords ==
  ASSUME LogInv, NEW a \in Actors, Record(a)
  PROVE  [Log!Next]_(Log!log)
<1>0. TypeInv
  BY DEF LogInv, HistoryInv, OriginInv
<1>1. /\ op[a].pc = "record" /\ accepted' = accepted /\ effects' = effects
      /\ tokens' = [tokens EXCEPT ![Id(a)] = Recorded(a)] \/ UNCHANGED tokens
  BY <1>0, RecordCases
<1>2. CASE tokens' = tokens
  BY <1>1, <1>2, SameLog DEF Changes, Statuses
<1>3. CASE tokens' = [tokens EXCEPT ![Id(a)] = Recorded(a)]
  <2>1. PICK id \in Ids, i \in ById : id = Id(a) /\ i = op[a].inverts
    BY <1>0, <1>1, OpType
  <2>2. id[1] = a /\ id[2] = op[a].n
    BY <1>0, <2>1, OpType
  <2>3. tokens[id].status = "none"
    BY <1>1, <2>2 DEF LogInv, HistoryInv, OriginInv, TokensOfPast, Present
  <2>4. <<id, i>> \in accepted
    BY <1>1, <2>1 DEF LogInv, HistoryInv, AcceptedBeforeRecord, GoesOn
  <2>5. tokens'[id].status = "recorded" /\ \A j \in Ids : j # id => tokens'[j] = tokens[j]
    BY <1>0, <1>1, <1>3, <2>1, RecordedToken
  <2>6. Statuses' = [Statuses EXCEPT ![id] = "recorded"] /\ Statuses[id] = "none"
    BY <2>3, <2>5 DEF Statuses
  <2>7. Changes' = Changes
    BY <1>1 DEF Changes
  <2>8. Log!Record(id)
    BY <1>1, <2>4, <2>6, <2>7 DEF Log!Record, Statuses, Changes, ById
  <2>9. QED
    BY <2>8 DEF Log!Next
<1>4. QED
  BY <1>1, <1>2, <1>3

LEMMA MarkUses ==
  ASSUME LogInv, NEW a \in Actors, Mark(a)
  PROVE  [Log!Next]_(Log!log)
<1>0. TypeInv /\ tokens \in [Ids -> Token]
  BY StateType DEF LogInv, HistoryInv, OriginInv
<1>1. /\ op[a].pc = "mark" /\ accepted' = accepted /\ effects' = effects
      /\ tokens' = [tokens EXCEPT ![op[a].inverts].status = "applied"] \/ UNCHANGED tokens
  BY <1>0, MarkCases
<1>2. CASE tokens' = tokens
  BY <1>1, <1>2, SameLog DEF Changes, Statuses
<1>3. CASE tokens' = [tokens EXCEPT ![op[a].inverts].status = "applied"]
  <2>1. op[a].inverts # NoOp
    BY <1>1 DEF LogInv, HistoryInv, MarkedRows
  <2>2. PICK id \in Ids, i \in Ids : id = Id(a) /\ i = op[a].inverts
    BY <1>0, <1>1, <2>1, OpType DEF ById
  <2>3. tokens[i].status = "recorded" /\ i # NoOp
    BY <1>1, <2>1, <2>2 DEF LogInv, InvertsIsThere, Busy
  <2>4. <<id, i>> \in accepted
    BY <1>1, <2>2 DEF LogInv, HistoryInv, AcceptedBeforeRecord, GoesOn
  <2>5. tokens'[i].status = "applied" /\ \A j \in Ids : j # i => tokens'[j] = tokens[j]
    <3>1. PICK t : t = [tokens[i] EXCEPT !.status = "applied"]
      OBVIOUS
    <3>2. tokens[i] \in Token
      BY <1>0
    <3>3. t.status = "applied"
      BY <3>1, <3>2 DEF Token
    <3>4. tokens'[i] = t /\ \A j \in Ids : j # i => tokens'[j] = tokens[j]
      BY <1>0, <1>3, <2>2, <3>1
    <3>5. QED
      BY <3>3, <3>4
  <2>6. Statuses' = [Statuses EXCEPT ![i] = "applied"] /\ Statuses[i] = "recorded"
    BY <2>3, <2>5 DEF Statuses
  <2>7. Changes' = Changes
    BY <1>1 DEF Changes
  <2>8. Log!Use(i)
    BY <1>1, <2>2, <2>4, <2>6, <2>7 DEF Log!Use, Log!Attempts, Statuses, Changes
  <2>9. QED
    BY <2>8 DEF Log!Next
<1>4. QED
  BY <1>1, <1>2, <1>3

LEMMA StepOfLog ==
  ASSUME LogInv, [Next]_vars
  PROVE  [Log!Next]_(Log!log)
<1>1. ASSUME UNCHANGED <<tokens, accepted, effects>> PROVE UNCHANGED (Log!log)
  BY <1>1, SameLog DEF Changes, Statuses
<1>2. ASSUME NEW a \in Actors,
             \/ \E attr \in Attrs, v \in Values, t \in Names \cup {NoTarget} :
                  StartWrite(a, attr, v, t)
             \/ \E i \in Ids, t \in Names \cup {NoTarget} : StartUndo(a, i, t)
             \/ GetPrior(a) \/ ReadBack(a) \/ Finish(a) \/ Exit(a)
      PROVE  UNCHANGED <<tokens, accepted, effects>>
  BY <1>2 DEF StartWrite, StartUndo, Begin, GetPrior, ReadBack, Finish, Exit
<1>3. ASSUME NEW gone \in Names \cup {NoTarget}, NEW n \in Names, NEW h \in Hosts,
             SaveTarget(gone, n, h)
      PROVE  UNCHANGED <<tokens, accepted, effects>>
  BY <1>3 DEF SaveTarget
<1>4. UNCHANGED vars => UNCHANGED <<tokens, accepted, effects>>
  BY DEF vars
<1>5. QED
  BY <1>1, <1>2, <1>3, <1>4, PutSends, RecordRecords, MarkUses DEF Next

\* For one operator, and whatever fails, the undo store is an UndoLog: no inverse is
\* sent after its token is used up, none is used up without an accepted inverse, and
\* no call has a token the proxy did not accept (undo.py:72).
THEOREM UndoLogImplemented == ASSUME OneOperator PROVE CmdSpec => UndoLogSpec
<1>1. CmdInit => BookInv /\ LogInv /\ Log!Init
  <2>1. CmdInit => Log!Init
    BY DEF CmdInit, Init, Log!Init, NoToken
  <2>2. QED
    BY <2>1, BookInit, LogOfCommands
<1>2. BookInv /\ LogInv /\ [CmdNext]_cliVars => BookInv' /\ LogInv' /\ [Log!Next]_(Log!log)
  BY BookStep, LogOfCommands, CommandIsCall, StepOfLog
<1>3. QED
  BY <1>1, <1>2, PTL DEF CmdSpec, UndoLogSpec, Log!Spec
=============================================================================
