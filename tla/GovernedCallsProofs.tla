------------------------ MODULE GovernedCallsProofs ------------------------
(***************************************************************************)
(* Proofs about GovernedCalls, for any number of actors, processes and     *)
(* calls and any rotation and retention thresholds.                        *)
(***************************************************************************)
EXTENDS GovernedCalls, SequenceTheorems, TLAPS

\* A running call has been numbered.
CallNumbered == \A a \in Actors : call[a].pc # "idle" => call[a].n >= 1

\* The identity of a running call is a call identity.
LEMMA RunningId ==
  ASSUME TypeOK, CallNumbered, NEW a \in Actors, call[a].pc # "idle"
  PROVE  Id(a) \in CallIds
<1>1. call[a].n \in 1..MaxCalls[a]
  BY BoundsAssumption DEF TypeOK, CallNumbered, CallState
<1>2. <<a, call[a].n>> \in {a} \X (1..MaxCalls[a])
  BY <1>1
<1>3. QED
  BY <1>2 DEF Id, CallIds

\* The initial state is well typed, and no call is running.
LEMMA InitTypeOK == Init => TypeOK /\ CallNumbered
<1> SUFFICES ASSUME Init PROVE TypeOK /\ CallNumbered
  OBVIOUS
<1>1. NoCall(0) \in CallState
  BY DEF NoCall, CallState, Pcs, Kinds, Verdicts, Results
<1>2. call \in [Actors -> CallState]
  BY <1>1 DEF Init
<1>3. \A a \in Actors : call[a].n <= MaxCalls[a]
  BY BoundsAssumption DEF Init, NoCall
<1>4. engine \in [Procs -> Engine]
  BY DEF Init, Down, Engine
<1>5. db \in Seq(Row) /\ archives \in Seq(Seq(Row))
  BY DEF Init
<1>6. CallNumbered
  BY DEF Init, NoCall, CallNumbered
<1>7. QED
  BY <1>2, <1>3, <1>4, <1>5, <1>6 DEF Init, TypeOK

\* The steps of an actor that rewrite its own call record and no other.
LEMMA CallStep ==
  ASSUME call \in [Actors -> CallState], db \in Seq(Row), NEW a \in Actors,
         Step(a) \/ Interrupt(a) \/ UpstreamApplies(a)
  PROVE  /\ call[a].pc # "idle"
         /\ call' \in [Actors -> CallState]
         /\ \A b \in Actors : b # a => call'[b] = call[b]
         /\ call'[a].n = call[a].n
<1> USE DEF At
<1>1. call[a] \in CallState /\ call[a].n \in Nat
  BY DEF CallState
<1>2. NoCall(call[a].n) \in CallState /\ NoCall(call[a].n).n = call[a].n
  BY <1>1 DEF NoCall, CallState, Pcs, Kinds, Verdicts, Results
<1>3. ASSUME End(a)
      PROVE  /\ call' \in [Actors -> CallState]
             /\ \A b \in Actors : b # a => call'[b] = call[b]
             /\ call'[a].n = call[a].n
  BY <1>2, <1>3 DEF End
<1>4. ASSUME NEW pc \in Pcs, Goto(a, pc)
      PROVE  /\ call' \in [Actors -> CallState]
             /\ \A b \in Actors : b # a => call'[b] = call[b]
             /\ call'[a].n = call[a].n
  BY <1>4 DEF Goto, CallState
<1>5. ASSUME NEW v \in Verdicts,
             call' = [call EXCEPT ![a].pc = "final", ![a].status = v]
      PROVE  /\ call' \in [Actors -> CallState]
             /\ \A b \in Actors : b # a => call'[b] = call[b]
             /\ call'[a].n = call[a].n
  BY <1>5 DEF CallState, Pcs
<1>6. CASE PreCheck(a)
  BY <1>4, <1>5, <1>6 DEF PreCheck, OverBudget, Pcs, Verdicts
<1>7. CASE BeginWrite(a)
  BY <1>4, <1>5, <1>7 DEF BeginWrite, Refuse, Pcs, Verdicts, Results
<1>8. CASE \E r \in Results : Return(a, r)
  BY <1>5, <1>8 DEF Return, Verdicts
<1>9. CASE FinishWrite(a)
  BY <1>3, <1>9 DEF FinishWrite
<1>10. CASE FinalLog(a)
  <2>1. CASE End(a)
    BY <1>3, <1>10, <2>1 DEF FinalLog
  <2>2. CASE call' = [call EXCEPT ![a].pc = "guard", ![a].row = call[a].status]
    BY <1>1, <1>10, <2>2 DEF FinalLog, CallState, Pcs
  <2>3. QED
    BY <1>10, <2>1, <2>2 DEF FinalLog
<1>11. CASE \/ AcquireGuard(a) \/ DecideRotation(a) \/ RenameToArchive(a)
            \/ CreateTable(a) \/ Interrupt(a)
  BY <1>4, <1>11 DEF AcquireGuard, DecideRotation, RenameToArchive, CreateTable,
                     Interrupt, Pcs
<1>12. CASE UpstreamApplies(a)
  BY <1>12 DEF UpstreamApplies
<1>13. CASE InsertRow(a)
  <2>1. CASE End(a)
    BY <1>3, <1>13, <2>1 DEF InsertRow
  <2>2. CASE call' = [call EXCEPT ![a].pc = "run", ![a].intent = Len(db) + 1]
    <3>1. Len(db) + 1 \in Nat
      OBVIOUS
    <3> DEFINE id == Len(db) + 1
    <3> HIDE DEF id
    <3>2. call' = [call EXCEPT ![a].pc = "run", ![a].intent = id] /\ id \in Nat
      BY <2>2, <3>1 DEF id
    <3>3. QED
      BY <1>1, <1>13, <3>2 DEF InsertRow, CallState, Pcs
  <2>3. QED
    BY <1>13, <2>1, <2>2 DEF InsertRow
<1>14. CASE InsertFails(a)
  BY <1>3, <1>5, <1>14 DEF InsertFails, Refuse, Verdicts, Results
<1>15. QED
  BY <1>6, <1>7, <1>8, <1>9, <1>10, <1>11, <1>12, <1>13, <1>14 DEF Step

\* The call records stay well typed, and a running call stays numbered.
LEMMA NextCallType ==
  ASSUME TypeOK, CallNumbered, [Next]_vars
  PROVE  /\ call' \in [Actors -> CallState]
         /\ \A a \in Actors : call'[a].n <= MaxCalls[a]
         /\ CallNumbered'
<1> USE BoundsAssumption DEF TypeOK, CallNumbered
<1>1. CASE UNCHANGED call
  BY <1>1
<1>2. ASSUME NEW p \in Procs, Crash(p)
      PROVE  /\ call' \in [Actors -> CallState]
             /\ \A a \in Actors : call'[a].n <= MaxCalls[a]
             /\ CallNumbered'
  <2>1. \A a \in Actors : /\ NoCall(call[a].n) \in CallState
                          /\ NoCall(call[a].n).n = call[a].n
                          /\ NoCall(call[a].n).pc = "idle"
    BY DEF NoCall, CallState, Pcs, Kinds, Verdicts, Results
  <2>2. \A a \in Actors : call'[a] \in {call[a], NoCall(call[a].n)}
    BY <1>2 DEF Crash
  <2>3. call' \in [Actors -> CallState]
    BY <1>2, <2>1 DEF Crash
  <2>4. QED
    BY <2>1, <2>2, <2>3
<1>3. ASSUME NEW a \in Actors, NEW k \in Kinds, StartCall(a, k)
      PROVE  /\ call' \in [Actors -> CallState]
             /\ \A b \in Actors : call'[b].n <= MaxCalls[b]
             /\ CallNumbered'
  <2> DEFINE late == ProcOf[a] \in abandoned
             new == [NoCall(call[a].n + 1) EXCEPT
                       !.pc = "check", !.kind = k, !.late = late]
  <2>1. call[a].n \in Nat /\ late \in BOOLEAN
    BY DEF CallState
  <2>2. call' = [call EXCEPT ![a] = new] /\ call[a].n < MaxCalls[a]
    BY <1>3 DEF StartCall
  <2> HIDE DEF late
  <2>3. NoCall(call[a].n + 1) \in CallState /\ NoCall(call[a].n + 1).n = call[a].n + 1
    BY <2>1 DEF NoCall, CallState, Pcs, Kinds, Verdicts, Results
  <2>4. new \in CallState /\ new.n = call[a].n + 1
    BY <2>1, <2>3 DEF CallState, Pcs
  <2> HIDE DEF new
  <2>5. QED
    BY <2>1, <2>2, <2>4
<1>4. ASSUME NEW a \in Actors, Step(a) \/ Interrupt(a) \/ UpstreamApplies(a)
      PROVE  /\ call' \in [Actors -> CallState]
             /\ \A b \in Actors : call'[b].n <= MaxCalls[b]
             /\ CallNumbered'
  BY <1>4, CallStep
<1>5. QED
  BY <1>1, <1>2, <1>3, <1>4 DEF Next, StartProcess, Reconcile, vars

\* What finish_write and reconcile_pending do to the database: a pending row
\* gets a final status, from the call that holds it or from the operator.
Resolved(i, v) ==
  /\ Pending(i)
  /\ db' = [db EXCEPT ![i].status = v]
  /\ UNCHANGED <<archives, purged>>
  /\ \/ v = "unknown" /\ ~Live(db[i].call) /\ UNCHANGED call
     \/ \E a \in Actors : /\ FinishWrite(a)
                          /\ i = call[a].intent /\ v = call[a].status

\* Every step leaves the rows alone, resolves one, inserts one, renames the
\* live file, or drops old archives.
LEMMA StorageStep ==
  ASSUME TypeOK, [Next]_vars
  PROVE  \/ UNCHANGED <<db, archives, purged>>
         \/ \E i \in DOMAIN db, v \in Verdicts : Resolved(i, v)
         \/ \E a \in Actors : InsertRow(a) \/ RenameToArchive(a)
         \/ \E a \in Actors : CreateTable(a)
<1> USE DEF storage, history
<1>1. CASE UNCHANGED vars
  BY <1>1 DEF vars
<1>2. ASSUME NEW p \in Procs, StartProcess(p) \/ Crash(p)
      PROVE  UNCHANGED <<db, archives, purged>>
  BY <1>2 DEF StartProcess, Crash
<1>3. ASSUME NEW a \in Actors,
             \/ \E k \in Kinds : StartCall(a, k)
             \/ UpstreamApplies(a) \/ Interrupt(a)
             \/ PreCheck(a) \/ BeginWrite(a) \/ FinalLog(a) \/ AcquireGuard(a)
             \/ \E r \in Results : Return(a, r)
             \/ DecideRotation(a) \/ InsertFails(a)
      PROVE  UNCHANGED <<db, archives, purged>>
  BY <1>3 DEF StartCall, UpstreamApplies, Interrupt, PreCheck, BeginWrite, FinalLog,
              AcquireGuard, Return, DecideRotation, InsertFails
<1>4. ASSUME NEW a \in Actors, FinishWrite(a)
      PROVE  \/ UNCHANGED <<db, archives, purged>>
             \/ \E i \in DOMAIN db, v \in Verdicts : Resolved(i, v)
  <2>1. CASE FinishSucceeds(a)
    <3>1. call[a].status \in Verdicts
      BY DEF TypeOK, CallState
    <3>2. Resolved(call[a].intent, call[a].status) /\ call[a].intent \in DOMAIN db
      BY <1>4, <2>1 DEF FinishWrite, FinishSucceeds, Resolved, Pending
    <3>3. QED
      BY <3>1, <3>2
  <2>2. CASE FinishFails(a)
    BY <1>4, <2>2 DEF FinishWrite, FinishFails
  <2>3. QED
    BY <1>4, <2>1, <2>2 DEF FinishWrite
<1>5. ASSUME NEW i \in DOMAIN db, Reconcile(i)
      PROVE  \E v \in Verdicts : Resolved(i, v)
  <2>1. Resolved(i, "unknown") /\ "unknown" \in Verdicts
    BY <1>5 DEF Reconcile, Resolved, Verdicts, Results
  <2>2. QED
    BY <2>1
<1>6. QED
  BY <1>1, <1>2, <1>3, <1>4, <1>5 DEF Next, Step

\* Resolving a row keeps its owner, its place and every other row.
LEMMA ResolveRow ==
  ASSUME db \in Seq(Row), NEW i \in DOMAIN db, NEW v \in Verdicts, Resolved(i, v)
  PROVE  /\ db' \in Seq(Row)
         /\ DOMAIN db' = DOMAIN db
         /\ db'[i] = [call |-> db[i].call, status |-> v]
         /\ \A j \in DOMAIN db : db'[j].call = db[j].call
         /\ \A j \in DOMAIN db : j # i => db'[j] = db[j]
<1>1. db[i] \in Row
  OBVIOUS
<1> DEFINE row == [db[i] EXCEPT !.status = v]
<1>2. row = [call |-> db[i].call, status |-> v] /\ row \in Row
  BY <1>1 DEF Row
<1>3. db' = [db EXCEPT ![i] = row]
  BY DEF Resolved
<1>4. row.call = db[i].call
  BY <1>2
<1> HIDE DEF row
<1>5. QED
  BY <1>2, <1>3, <1>4

\* Where the archives that survive a deletion end up.
LEMMA DroppedIndices ==
  ASSUME archives \in Seq(Seq(Row)), NEW k \in 0..Surplus, DropArchives(k)
  PROVE  /\ archives' \in Seq(Seq(Row))
         /\ DOMAIN archives' = 1..(Len(archives) - k)
         /\ \A i \in DOMAIN archives' :
              archives'[i] = IF i <= Surplus - k THEN archives[i] ELSE archives[i + k]
<1> DEFINE low == SubSeq(archives, 1, Surplus - k)
           high == SubSeq(archives, Surplus + 1, Len(archives))
<1>1. Surplus \in Nat /\ Surplus <= Len(archives) /\ Surplus - k \in Nat
  BY BoundsAssumption DEF Surplus
<1>2. /\ low \in Seq(Seq(Row)) /\ Len(low) = Surplus - k
      /\ \A i \in 1..(Surplus - k) : low[i] = archives[i]
  BY <1>1
<1>3. /\ high \in Seq(Seq(Row)) /\ Len(high) = Len(archives) - Surplus
      /\ \A i \in 1..(Len(archives) - Surplus) : high[i] = archives[i + Surplus]
  BY <1>1
<1>4. archives' = low \o high
  BY DEF DropArchives
<1> HIDE DEF low, high
<1>5. /\ low \o high \in Seq(Seq(Row))
      /\ Len(low \o high) = Len(low) + Len(high)
      /\ \A i \in 1..(Len(low) + Len(high)) :
           (low \o high)[i] = IF i <= Len(low) THEN low[i] ELSE high[i - Len(low)]
  BY <1>2, <1>3, ConcatProperties, Zenon
<1>6. /\ archives' \in Seq(Seq(Row)) /\ Len(archives') = Len(archives) - k
      /\ DOMAIN archives' = 1..Len(archives')
  BY <1>1, <1>2, <1>3, <1>4, <1>5
<1>7. \A i \in 1..Len(archives') :
         archives'[i] = IF i <= Len(low) THEN low[i] ELSE high[i - Len(low)]
  BY <1>1, <1>2, <1>3, <1>4, <1>5, <1>6
<1>8. ASSUME NEW i \in 1..Len(archives')
      PROVE  archives'[i] = IF i <= Surplus - k THEN archives[i] ELSE archives[i + k]
  <2>1. CASE i <= Surplus - k
    BY <1>1, <1>2, <1>7, <2>1
  <2>2. CASE ~(i <= Surplus - k)
    <3>1. i - Len(low) \in 1..(Len(archives) - Surplus)
      BY <1>1, <1>2, <1>6, <2>2
    <3>2. i - Len(low) + Surplus = i + k
      BY <1>1, <1>2
    <3>3. QED
      BY <1>3, <1>7, <2>2, <1>2, <3>1, <3>2
  <2>3. QED
    BY <2>1, <2>2
<1>9. QED
  BY <1>6, <1>8

\* The database, the archives and the deleted rows stay well typed.
LEMMA NextStorageType ==
  ASSUME TypeOK, CallNumbered, [Next]_vars
  PROVE  db' \in Seq(Row) /\ archives' \in Seq(Seq(Row)) /\ purged' \subseteq Row
<1>0. db \in Seq(Row) /\ archives \in Seq(Seq(Row)) /\ purged \subseteq Row
  BY DEF TypeOK
<1>1. CASE UNCHANGED <<db, archives, purged>>
  BY <1>0, <1>1
<1>2. CASE \E i \in DOMAIN db, v \in Verdicts : Resolved(i, v)
  BY <1>0, <1>2, ResolveRow DEF Resolved
<1>3. ASSUME NEW a \in Actors, InsertRow(a)
      PROVE  db' \in Seq(Row) /\ UNCHANGED <<archives, purged>>
  <2>1. Id(a) \in CallIds
    BY <1>3, RunningId DEF InsertRow, At
  <2>2. call[a].row \in Verdicts \cup {"pending"}
    BY DEF TypeOK, CallState
  <2>3. [call |-> Id(a), status |-> call[a].row] \in Row
    BY <2>1, <2>2 DEF Row
  <2>4. QED
    BY <1>0, <1>3, <2>3 DEF InsertRow
<1>4. ASSUME NEW a \in Actors, RenameToArchive(a)
      PROVE  db' \in Seq(Row) /\ archives' \in Seq(Seq(Row)) /\ UNCHANGED purged
  BY <1>0, <1>4 DEF RenameToArchive, CheckpointedFile
<1>5. ASSUME NEW a \in Actors, CreateTable(a)
      PROVE  UNCHANGED db /\ archives' \in Seq(Seq(Row)) /\ purged' \subseteq Row
  <2>1. CASE UNCHANGED <<table, archives, purged>>
    BY <1>0, <1>5, <2>1 DEF CreateTable
  <2>2. ASSUME NEW k \in 0..Surplus, DropArchives(k)
        PROVE  UNCHANGED db /\ archives' \in Seq(Seq(Row)) /\ purged' \subseteq Row
    <3>1. Surplus \in Nat /\ Surplus <= Len(archives)
      BY <1>0, BoundsAssumption DEF Surplus
    <3>2. archives' \in Seq(Seq(Row))
      BY <1>0, <2>2, DroppedIndices
    <3>3. \A i \in (Surplus - k + 1)..Surplus : Elements(archives[i]) \subseteq Row
      BY <1>0, <3>1 DEF Elements
    <3>4. QED
      BY <1>0, <1>5, <2>2, <3>2, <3>3 DEF CreateTable, DropArchives
  <2>3. QED
    BY <1>5, <2>1, <2>2 DEF CreateTable
<1>6. QED
  BY <1>0, <1>1, <1>2, <1>3, <1>4, <1>5, StorageStep

\* The engines, the lock and the history variables stay well typed.
LEMMA NextRestType ==
  ASSUME TypeOK, CallNumbered, [Next]_vars
  PROVE  /\ engine' \in [Procs -> Engine]
         /\ lock' \in Actors \cup {NoActor} /\ table' \in BOOLEAN
         /\ effect' \subseteq CallIds /\ tokens' \subseteq (CallIds \X BOOLEAN)
         /\ abandoned' \subseteq Procs
<1>0. /\ engine \in [Procs -> Engine] /\ lock \in Actors \cup {NoActor}
      /\ table \in BOOLEAN /\ effect \subseteq CallIds
      /\ tokens \subseteq (CallIds \X BOOLEAN) /\ abandoned \subseteq Procs
  BY DEF TypeOK
<1> DEFINE Rest == <<engine, lock, table, effect, tokens, abandoned>>
<1>1. CASE UNCHANGED Rest
  BY <1>0, <1>1
<1>2. \A e \in Engine : [e EXCEPT !.blocked = TRUE] \in Engine
  BY DEF Engine
<1>3. ASSUME NEW a \in Actors, engine' = [engine EXCEPT ![ProcOf[a]].blocked = TRUE]
      PROVE  engine' \in [Procs -> Engine]
  BY <1>0, <1>2, <1>3, ActorsAssumption
<1>4. ASSUME NEW p \in Procs, StartProcess(p)
      PROVE  /\ engine' \in [Procs -> Engine] /\ table' \in BOOLEAN
             /\ abandoned' \subseteq Procs /\ UNCHANGED <<lock, effect, tokens>>
  <2>1. PICK ok \in BOOLEAN :
          /\ engine' = [engine EXCEPT ![p] = [up |-> TRUE, ok |-> ok, blocked |-> FALSE]]
          /\ table' \in {table, TRUE}
    BY <1>4 DEF StartProcess
  <2>2. [up |-> TRUE, ok |-> ok, blocked |-> FALSE] \in Engine
    BY DEF Engine
  <2>3. engine' \in [Procs -> Engine]
    BY <1>0, <2>1, <2>2
  <2>4. table' \in BOOLEAN
    BY <1>0, <2>1
  <2>5. QED
    BY <1>0, <1>4, <2>3, <2>4 DEF StartProcess
<1>5. ASSUME NEW p \in Procs, Crash(p)
      PROVE  /\ engine' \in [Procs -> Engine] /\ lock' \in Actors \cup {NoActor}
             /\ UNCHANGED <<table, effect, tokens, abandoned>>
  BY <1>0, <1>5 DEF Crash, Down, Engine, storage, history
<1>6. ASSUME NEW a \in Actors,
             \/ \E k \in Kinds : StartCall(a, k)
             \/ Interrupt(a) \/ PreCheck(a) \/ FinalLog(a) \/ DecideRotation(a)
      PROVE  UNCHANGED Rest
  BY <1>6 DEF StartCall, Interrupt, PreCheck, FinalLog, DecideRotation, storage, history
<1>7. ASSUME NEW a \in Actors, UpstreamApplies(a)
      PROVE  effect' \subseteq CallIds /\ UNCHANGED <<engine, lock, table, tokens, abandoned>>
  <2>1. Id(a) \in CallIds
    BY <1>7, RunningId DEF UpstreamApplies, At
  <2>2. QED
    BY <1>0, <1>7, <2>1 DEF UpstreamApplies, storage
<1>8. ASSUME NEW a \in Actors, NEW r \in Results, Return(a, r)
      PROVE  /\ tokens' \subseteq (CallIds \X BOOLEAN)
             /\ UNCHANGED <<engine, lock, table, effect, abandoned>>
  <2>1. Id(a) \in CallIds
    BY <1>8, RunningId DEF Return, At
  <2>2. PICK t : tokens' = IF t = "none" THEN tokens
                           ELSE tokens \cup {<<Id(a), t = "verified">>}
    BY <1>8 DEF Return
  <2>3. <<Id(a), t = "verified">> \in CallIds \X BOOLEAN
    BY <2>1, Zenon
  <2>4. QED
    BY <1>0, <1>8, <2>2, <2>3, Zenon DEF Return, storage
<1>9. ASSUME NEW a \in Actors, BeginWrite(a) \/ FinishWrite(a)
      PROVE  /\ engine' \in [Procs -> Engine] /\ abandoned' \subseteq Procs
             /\ UNCHANGED <<lock, table, effect, tokens>>
  BY <1>0, <1>3, <1>9, ActorsAssumption
     DEF BeginWrite, FinishWrite, FinishSucceeds, FinishFails, storage, history
<1>10. ASSUME NEW a \in Actors,
              AcquireGuard(a) \/ RenameToArchive(a) \/ CreateTable(a) \/ InsertRow(a)
       PROVE  /\ lock' \in Actors \cup {NoActor} /\ table' \in BOOLEAN
              /\ UNCHANGED <<engine, effect, tokens, abandoned>>
  BY <1>0, <1>10 DEF AcquireGuard, RenameToArchive, CreateTable, InsertRow,
                     ReleaseGuard, storage, history
<1>11. ASSUME NEW a \in Actors, InsertFails(a)
       PROVE  /\ engine' \in [Procs -> Engine] /\ lock' \in Actors \cup {NoActor}
              /\ UNCHANGED <<table, effect, tokens, abandoned>>
  BY <1>0, <1>3, <1>11 DEF InsertFails, ReleaseGuard, storage, history
<1>12. ASSUME NEW i \in DOMAIN db, Reconcile(i)
       PROVE  UNCHANGED Rest
  BY <1>12 DEF Reconcile, history
<1>13. ASSUME NEW a \in Actors, Step(a)
       PROVE  /\ engine' \in [Procs -> Engine]
              /\ lock' \in Actors \cup {NoActor} /\ table' \in BOOLEAN
              /\ effect' \subseteq CallIds /\ tokens' \subseteq (CallIds \X BOOLEAN)
              /\ abandoned' \subseteq Procs
  BY <1>0, <1>6, <1>8, <1>9, <1>10, <1>11, <1>13, Zenon DEF Step
<1>14. CASE UNCHANGED vars
  BY <1>0, <1>14 DEF vars
<1>15. CASE Next
  <2>1. CASE \E p \in Procs : StartProcess(p) \/ Crash(p)
    BY <1>0, <1>4, <1>5, <2>1
  <2>2. CASE \E a \in Actors : Step(a)
    BY <1>13, <2>2
  <2>3. CASE \E a \in Actors : \/ \E k \in Kinds : StartCall(a, k)
                               \/ UpstreamApplies(a) \/ Interrupt(a)
    BY <1>0, <1>6, <1>7, <2>3
  <2>4. CASE \E i \in DOMAIN db : Reconcile(i)
    BY <1>0, <1>12, <2>4
  <2>5. QED
    BY <1>15, <2>1, <2>2, <2>3, <2>4, Zenon DEF Next
<1>16. QED
  BY <1>14, <1>15

\* Type correctness, for every number of actors, processes and calls.
THEOREM TypeCorrect == Spec => [](TypeOK /\ CallNumbered)
<1>1. Init => TypeOK /\ CallNumbered
  BY InitTypeOK
<1>2. TypeOK /\ CallNumbered /\ [Next]_vars => (TypeOK /\ CallNumbered)'
  BY NextCallType, NextStorageType, NextRestType DEF TypeOK
<1>3. QED
  BY <1>1, <1>2, PTL DEF Spec
----------------------------------------------------------------------------
(* The inductive invariant behind OpenIntent, PendingStaysVisible and      *)
(* EffectIsAudited.                                                        *)

\* The guarded section is exclusive.
HolderInside == \A a \in Actors : call[a].pc \in Guarded => lock = a

\* An intent exists from its commit to the end of its call, and no body of a
\* write runs without one.
IntentWhileRunning ==
  \A a \in Actors :
    /\ call[a].intent # 0 => call[a].pc \in {"run", "final"}
    /\ At(a, "run") /\ call[a].kind = "write" => call[a].intent # 0

\* Between the decision to rotate and the rename no intent becomes pending:
\* the decision and the rename are in one guarded section, and so is every
\* insertion.
QuietRotation ==
  \A a \in Actors : At(a, "rotate") =>
    \A i \in DOMAIN db : db[i].status # "pending"

Control == HolderInside /\ IntentWhileRunning

\* What a step of an actor does to the guard and to its intent.
LEMMA Moves ==
  ASSUME TypeOK, IntentWhileRunning, NEW a \in Actors, Step(a) \/ Interrupt(a)
  PROVE  /\ \/ call[a].pc \notin Guarded /\ call'[a].pc \notin Guarded /\ UNCHANGED lock
            \/ call[a].pc = "guard" /\ lock = NoActor /\ lock' = a
            \/ call[a].pc \in Guarded /\ call'[a].pc \in Guarded /\ UNCHANGED lock
            \/ call[a].pc \in Guarded /\ call'[a].pc \notin Guarded /\ lock' = NoActor
         /\ \/ call'[a].intent = call[a].intent
            \/ call'[a].intent = 0 /\ call'[a].pc = "idle"
            \/ InsertRow(a) /\ call[a].row = "pending" /\ call'[a].intent = Len(db) + 1
         /\ call'[a].intent # 0 => call'[a].pc \in {"run", "final"}
         /\ call'[a].pc = "run" /\ call'[a].kind = "write" => call'[a].intent # 0
<1>1. /\ call \in [Actors -> CallState] /\ call[a] \in CallState /\ call[a].n \in Nat
      /\ Len(db) + 1 \in Nat \ {0}
      /\ call[a].intent # 0 => call[a].pc \in {"run", "final"}
  BY DEF TypeOK, CallState, IntentWhileRunning
<1> USE DEF At, Goto, Guarded, OverBudget, Refuse, End, NoCall, storage, history
<1>2. CASE PreCheck(a)
  BY <1>1, <1>2 DEF PreCheck, CallState
<1>3. CASE BeginWrite(a)
  BY <1>1, <1>3 DEF BeginWrite, CallState
<1>4. CASE \E r \in Results : Return(a, r)
  BY <1>1, <1>4 DEF Return, CallState
<1>5. CASE FinishWrite(a)
  BY <1>1, <1>5 DEF FinishWrite, CallState
<1>6. CASE FinalLog(a)
  BY <1>1, <1>6 DEF FinalLog, NoIntent, CallState
<1>7. CASE AcquireGuard(a)
  BY <1>1, <1>7 DEF AcquireGuard, GuardFree, CallState
<1>8. CASE DecideRotation(a)
  BY <1>1, <1>8 DEF DecideRotation, CallState
<1>9. CASE RenameToArchive(a) \/ CreateTable(a)
  BY <1>1, <1>9 DEF RenameToArchive, CreateTable, CallState
<1>10. CASE InsertRow(a)
  BY <1>1, <1>10 DEF InsertRow, ReleaseGuard, CallState
<1>11. CASE InsertFails(a)
  BY <1>1, <1>11 DEF InsertFails, ReleaseGuard, CallState
<1>12. CASE Interrupt(a)
  BY <1>1, <1>12 DEF Interrupt, CallState
<1>13. QED
  BY <1>2, <1>3, <1>4, <1>5, <1>6, <1>7, <1>8, <1>9, <1>10, <1>11, <1>12 DEF Step

\* What is left of a call when its process dies, and what a call starts with.
Blank(a) == /\ call'[a].intent = 0 /\ call'[a].row = "pending"
            /\ call'[a].status = "ok"
Forgotten(a) == /\ call'[a].pc = "idle" /\ Blank(a)
                /\ call'[a].n = call[a].n /\ ~call'[a].late
Started(a) == /\ call'[a].pc = "check" /\ Blank(a)
              /\ call'[a].n = call[a].n + 1
              /\ call'[a].late = (ProcOf[a] \in abandoned)
              /\ engine[ProcOf[a]].up
              /\ UNCHANGED <<engine, storage, history>>

\* Calls that are not running have neither an intent nor the guard; a call that
\* starts has neither yet.
LEMMA FreshCalls ==
  ASSUME TypeOK, [Next]_vars,
         \A a \in Actors : ~(Step(a) \/ Interrupt(a))
  PROVE  /\ \A a \in Actors : \/ call'[a] = call[a]
                              \/ Forgotten(a)
                              \/ Started(a)
         /\ \/ UNCHANGED lock
            \/ /\ lock' = NoActor
               /\ lock \in Actors => call'[lock].pc = "idle"
<1>1. CASE UNCHANGED <<call, lock>>
  BY <1>1
<1>2. ASSUME NEW p \in Procs, Crash(p)
      PROVE  /\ \A a \in Actors : call'[a] = call[a] \/ Forgotten(a)
             /\ \/ UNCHANGED lock
                \/ lock' = NoActor /\ (lock \in Actors => call'[lock].pc = "idle")
  BY <1>2 DEF Crash, NoCall, Forgotten, Blank
<1>3. ASSUME NEW a \in Actors, NEW k \in Kinds, StartCall(a, k)
      PROVE  /\ \A b \in Actors : call'[b] = call[b] \/ Started(b)
             /\ UNCHANGED lock
  <2>1. call \in [Actors -> CallState]
    BY DEF TypeOK
  <2> DEFINE late == ProcOf[a] \in abandoned
             new == [NoCall(call[a].n + 1) EXCEPT
                       !.pc = "check", !.kind = k, !.late = late]
  <2> HIDE DEF late
  <2>2. /\ new.pc = "check" /\ new.intent = 0 /\ new.row = "pending"
        /\ new.status = "ok" /\ new.n = call[a].n + 1 /\ new.late = late
    BY DEF NoCall
  <2>3. call' = [call EXCEPT ![a] = new] /\ engine[ProcOf[a]].up
        /\ UNCHANGED <<engine, storage, history, lock>>
    BY <1>3 DEF StartCall, late
  <2> HIDE DEF new
  <2>4. call'[a] = new /\ \A b \in Actors : b # a => call'[b] = call[b]
    BY <2>1, <2>3
  <2>5. Started(a)
    BY <2>2, <2>3, <2>4 DEF Started, Blank, late
  <2>6. QED
    BY <2>3, <2>4, <2>5
<1>4. QED
  BY <1>1, <1>2, <1>3 DEF Next, StartProcess, UpstreamApplies, Reconcile, vars

\* The guarded section stays exclusive, and intents stay where they belong.
LEMMA NextControl ==
  ASSUME TypeOK, Control, [Next]_vars
  PROVE  Control'
<1> USE DEF Control, HolderInside, IntentWhileRunning, At
<1>1. ASSUME NEW a \in Actors, Step(a) \/ Interrupt(a)
      PROVE  Control'
  <2>1. \A b \in Actors : b # a => call'[b] = call[b]
    BY <1>1, CallStep DEF TypeOK
  <2>2. HolderInside'
    BY <1>1, <2>1, Moves, ActorsAssumption DEF Guarded
  <2>3. IntentWhileRunning'
    BY <1>1, <2>1, Moves
  <2>4. QED
    BY <2>2, <2>3
<1>2. CASE \A a \in Actors : ~(Step(a) \/ Interrupt(a))
  BY <1>2, FreshCalls DEF Guarded, TypeOK, Forgotten, Started, Blank
<1>3. QED
  BY <1>1, <1>2

\* No intent becomes pending during a rotation.
LEMMA NextQuiet ==
  ASSUME TypeOK, Control, QuietRotation, [Next]_vars
  PROVE  QuietRotation'
<1> SUFFICES ASSUME NEW a \in Actors, call'[a].pc = "rotate",
                    NEW j \in DOMAIN db'
             PROVE  db'[j].status # "pending"
  BY DEF QuietRotation, At
<1>0. db \in Seq(Row) /\ call \in [Actors -> CallState]
  BY DEF TypeOK
<1>1. \/ call[a].pc = "rotate" /\ lock = a
      \/ DecideRotation(a) /\ NeedsRotation
  <2>1. ASSUME Step(a) \/ Interrupt(a) PROVE DecideRotation(a) /\ NeedsRotation
    <3>1. call[a] \in CallState
      BY <1>0
    <3> USE DEF At, Goto, Refuse, OverBudget, End, NoCall, CallState
    <3>2. ~Interrupt(a) /\ ~PreCheck(a) /\ ~BeginWrite(a) /\ ~FinishWrite(a)
      BY <1>0, <3>1 DEF Interrupt, PreCheck, BeginWrite, FinishWrite
    <3>3. ~FinalLog(a) /\ ~AcquireGuard(a) /\ \A r \in Results : ~Return(a, r)
      BY <1>0, <3>1 DEF FinalLog, AcquireGuard, Return
    <3>4. ~RenameToArchive(a) /\ ~CreateTable(a) /\ ~InsertRow(a) /\ ~InsertFails(a)
      BY <1>0, <3>1 DEF RenameToArchive, CreateTable, InsertRow, InsertFails
    <3>5. DecideRotation(a)
      BY <2>1, <3>2, <3>3, <3>4 DEF Step
    <3>6. NeedsRotation
      BY <1>0, <3>1, <3>5 DEF DecideRotation
    <3>7. QED
      BY <3>5, <3>6
  <2>2. ASSUME NEW b \in Actors, b # a, Step(b) \/ Interrupt(b)
        PROVE  call'[a] = call[a]
    BY <1>0, <2>2, CallStep
  <2>3. ASSUME \A b \in Actors : ~(Step(b) \/ Interrupt(b))
        PROVE  call'[a] = call[a]
    BY <2>3, FreshCalls DEF Forgotten, Started
  <2>4. call'[a] = call[a] => call[a].pc = "rotate" /\ lock = a
    BY DEF Control, HolderInside, Guarded
  <2>5. QED
    BY <2>1, <2>2, <2>3, <2>4
<1>2. \A i \in DOMAIN db : db[i].status # "pending"
  BY <1>1 DEF QuietRotation, NeedsRotation, At
<1>3. CASE UNCHANGED db
  BY <1>2, <1>3
<1>4. CASE \E i \in DOMAIN db, v \in Verdicts : Resolved(i, v)
  BY <1>2, <1>4 DEF Resolved, Pending
<1>5. ASSUME NEW b \in Actors, InsertRow(b)
      PROVE  FALSE
  <2>1. lock = b /\ call[b].pc = "insert"
    BY <1>5 DEF InsertRow, At, Control, HolderInside, Guarded
  <2>2. b # a
    BY <1>1, <2>1 DEF DecideRotation, At
  <2>3. lock # a /\ ~DecideRotation(a)
    BY <2>1, <2>2 DEF Control, HolderInside, DecideRotation, At, Guarded
  <2>4. QED
    BY <1>1, <2>3
<1>6. ASSUME NEW b \in Actors, RenameToArchive(b)
      PROVE  FALSE
  BY <1>6 DEF RenameToArchive
<1>7. ASSUME NEW b \in Actors, CreateTable(b)
      PROVE  UNCHANGED db
  BY <1>7 DEF CreateTable
<1>8. QED
  BY <1>2, <1>3, <1>4, <1>5, <1>6, <1>7, StorageStep

\* Appending the live file to the archives adds its rows to the archived ones.
LEMMA AppendedArchive ==
  ASSUME archives \in Seq(Seq(Row)), archives' = Append(archives, db)
  PROVE  Archived' = Archived \cup Elements(db)
<1>1. DOMAIN archives' = 1..(Len(archives) + 1) /\ DOMAIN archives = 1..Len(archives)
  OBVIOUS
<1>2. /\ archives'[Len(archives) + 1] = db
      /\ \A i \in DOMAIN archives : archives'[i] = archives[i]
  OBVIOUS
<1>3. QED
  BY <1>1, <1>2 DEF Archived, Elements

\* Dropping the oldest archives moves their rows to the deleted ones.
LEMMA DroppedArchives ==
  ASSUME archives \in Seq(Seq(Row)), NEW a \in Actors, CreateTable(a)
  PROVE  (Archived \cup purged)' = Archived \cup purged
<1>1. CASE UNCHANGED <<table, archives, purged>>
  BY <1>1 DEF Archived
<1>2. ASSUME NEW k \in 0..Surplus, DropArchives(k)
      PROVE  (Archived \cup purged)' = Archived \cup purged
  <2> DEFINE low == Surplus - k
  <2>1. Surplus \in Nat /\ Surplus <= Len(archives) /\ low \in Nat /\ low <= Surplus
    BY BoundsAssumption DEF Surplus
  <2>2. /\ DOMAIN archives = 1..Len(archives)
        /\ DOMAIN archives' = 1..(Len(archives) - k)
        /\ \A i \in DOMAIN archives' :
             archives'[i] = IF i <= low THEN archives[i] ELSE archives[i + k]
    BY <1>2, <2>1, DroppedIndices
  <2>3. ASSUME NEW r \in Archived' PROVE r \in Archived
    <3>1. PICK i \in DOMAIN archives' : r \in Elements(archives'[i])
      BY <2>3 DEF Archived, Elements
    <3>2. i \in DOMAIN archives /\ i + k \in DOMAIN archives
      BY <2>1, <2>2
    <3>3. QED
      BY <2>2, <3>1, <3>2 DEF Archived
  <2>4. ASSUME NEW r \in purged' PROVE r \in Archived \cup purged
    <3>1. \A i \in (low + 1)..Surplus : i \in DOMAIN archives
      BY <2>1, <2>2
    <3>2. QED
      BY <1>2, <2>4, <3>1 DEF Archived, DropArchives
  <2>5. ASSUME NEW r \in Archived PROVE r \in (Archived \cup purged)'
    <3>1. PICK i \in DOMAIN archives : r \in Elements(archives[i])
      BY <2>5 DEF Archived
    <3>2. CASE i <= low
      <4>1. i \in DOMAIN archives' /\ archives'[i] = archives[i]
        BY <2>1, <2>2, <3>2
      <4>2. r \in Elements(archives'[i])
        BY <3>1, <4>1 DEF Elements
      <4>3. QED
        BY <4>1, <4>2 DEF Archived
    <3>3. CASE i \in (low + 1)..Surplus
      BY <1>2, <3>1, <3>3 DEF DropArchives
    <3>4. CASE i > Surplus
      <4>1. i - k \in DOMAIN archives' /\ ~(i - k <= low) /\ i - k + k = i
        BY <2>1, <2>2, <3>4
      <4>3. archives'[i - k] = archives[i]
        BY <2>2, <4>1
      <4>2. r \in Elements(archives'[i - k])
        BY <3>1, <4>3 DEF Elements
      <4>4. QED
        BY <4>1, <4>2 DEF Archived
    <3>5. QED
      BY <2>1, <2>2, <3>2, <3>3, <3>4
  <2>6. QED
    BY <1>2, <2>3, <2>4, <2>5 DEF DropArchives
<1>3. QED
  BY <1>1, <1>2 DEF CreateTable

\* No step of others touches the row an open intent points to, and an intent
\* is opened together with its row.
LEMMA NextOpenIntent ==
  ASSUME TypeOK, CallNumbered, Control, QuietRotation, OpenIntent, [Next]_vars
  PROVE  OpenIntent'
<1> SUFFICES ASSUME NEW a \in Actors, call'[a].intent # 0
             PROVE  /\ call'[a].intent \in DOMAIN db'
                    /\ db'[call'[a].intent] = [call |-> Id(a)', status |-> "pending"]
  BY DEF OpenIntent
<1> DEFINE i == call[a].intent
<1>0. db \in Seq(Row) /\ call \in [Actors -> CallState]
  BY DEF TypeOK
<1>1. ASSUME InsertRow(a), call[a].row = "pending"
      PROVE  /\ call'[a].intent \in DOMAIN db'
             /\ db'[call'[a].intent] = [call |-> Id(a)', status |-> "pending"]
  <2>1. call'[a].intent = Len(db) + 1 /\ call'[a].n = call[a].n
    BY <1>0, <1>1 DEF InsertRow, CallState
  <2>2. db' = Append(db, [call |-> Id(a), status |-> "pending"])
    BY <1>1 DEF InsertRow
  <2>3. QED
    BY <1>0, <2>1, <2>2 DEF Id
<1>2. ASSUME ~(InsertRow(a) /\ call[a].row = "pending")
      PROVE  call'[a].intent = i /\ Id(a)' = Id(a) /\ i # 0
  <2>1. CASE Step(a) \/ Interrupt(a)
    BY <1>0, <1>2, <2>1, Moves, CallStep DEF Control, Id
  <2>2. CASE \E b \in Actors : b # a /\ (Step(b) \/ Interrupt(b))
    BY <1>0, <2>2, CallStep DEF Id
  <2>3. CASE \A b \in Actors : ~(Step(b) \/ Interrupt(b))
    BY <2>3, FreshCalls DEF Id, Forgotten, Started, Blank
  <2>4. QED
    BY <2>1, <2>2, <2>3
<1>3. ASSUME i # 0
      PROVE  /\ i \in DOMAIN db /\ db[i] = [call |-> Id(a), status |-> "pending"]
             /\ call[a].pc \in {"run", "final"}
  BY <1>3 DEF OpenIntent, Control, IntentWhileRunning
<1>4. ASSUME i # 0, NEW j \in DOMAIN db, NEW v \in Verdicts, Resolved(j, v),
             call'[a].intent = i
      PROVE  j # i
  <2>1. CASE ~Live(db[j].call)
    BY <1>3, <1>4, <2>1 DEF Live
  <2>2. ASSUME NEW b \in Actors, FinishWrite(b), j = call[b].intent, j = i
        PROVE  FALSE
    <3>1. /\ db[j] = [call |-> Id(b), status |-> "pending"]
          /\ db[j] = [call |-> Id(a), status |-> "pending"]
      BY <1>3, <1>4, <2>2 DEF OpenIntent, FinishWrite
    <3>2. b = a
      BY <3>1 DEF Id
    <3>3. call'[a].intent = 0
      BY <1>0, <2>2, <3>2 DEF FinishWrite, End, NoCall
    <3>4. QED
      BY <1>4, <3>3
  <2>3. QED
    BY <1>4, <2>1, <2>2 DEF Resolved
<1>5. ASSUME i # 0, call'[a].intent = i
      PROVE  i \in DOMAIN db' /\ db'[i] = db[i]
  <2>1. CASE UNCHANGED db
    BY <1>3, <1>5, <2>1
  <2>2. CASE \E j \in DOMAIN db, v \in Verdicts : Resolved(j, v)
    BY <1>0, <1>3, <1>4, <1>5, <2>2, ResolveRow
  <2>3. ASSUME NEW b \in Actors, InsertRow(b)
        PROVE  i \in DOMAIN db' /\ db'[i] = db[i]
    <3>1. PICK row : db' = Append(db, row)
      BY <2>3 DEF InsertRow
    <3>2. QED
      BY <1>0, <1>3, <1>5, <3>1
  <2>4. ASSUME NEW b \in Actors, RenameToArchive(b)
        PROVE  FALSE
    BY <1>3, <1>5, <2>4 DEF RenameToArchive, QuietRotation
  <2>5. ASSUME NEW b \in Actors, CreateTable(b)
        PROVE  UNCHANGED db
    BY <2>5 DEF CreateTable
  <2>6. QED
    BY <2>1, <2>2, <2>3, <2>4, <2>5, StorageStep
<1>6. QED
  BY <1>1, <1>2, <1>3, <1>5

\* Rotation moves settled rows only, and archived rows never change.
LEMMA NextVisible ==
  ASSUME TypeOK, QuietRotation, PendingStaysVisible, [Next]_vars
  PROVE  PendingStaysVisible'
<1>0. archives \in Seq(Seq(Row)) /\ db \in Seq(Row)
  BY DEF TypeOK
<1>1. CASE UNCHANGED <<archives, purged>>
  BY <1>1 DEF PendingStaysVisible, Archived
<1>2. ASSUME NEW a \in Actors, RenameToArchive(a)
      PROVE  PendingStaysVisible'
  <2>1. archives' = Append(archives, db) /\ purged' = purged
    BY <1>2 DEF RenameToArchive, CheckpointedFile
  <2>2. \A r \in Elements(db) : r.status # "pending"
    BY <1>2 DEF RenameToArchive, QuietRotation, Elements
  <2>3. Archived' = Archived \cup Elements(db)
    BY <1>0, <2>1, AppendedArchive
  <2>4. QED
    BY <2>1, <2>2, <2>3 DEF PendingStaysVisible
<1>3. ASSUME NEW a \in Actors, CreateTable(a)
      PROVE  PendingStaysVisible'
  BY <1>0, <1>3, DroppedArchives DEF PendingStaysVisible
<1>4. QED
  BY <1>1, <1>2, <1>3, StorageStep DEF Resolved, InsertRow

\* No row is ever lost: not by a resolution, a rotation or a crash.
LEMMA RowsKept ==
  ASSUME TypeOK, [Next]_vars, NEW r \in AllRows
  PROVE  \E s \in AllRows' : s.call = r.call
<1>0. db \in Seq(Row) /\ archives \in Seq(Seq(Row))
  BY DEF TypeOK
<1>1. CASE UNCHANGED <<db, archives, purged>>
  BY <1>1 DEF AllRows, Archived
<1>2. ASSUME NEW i \in DOMAIN db, NEW v \in Verdicts, Resolved(i, v)
      PROVE  \E s \in AllRows' : s.call = r.call
  <2>1. (Archived \cup purged)' = Archived \cup purged
    BY <1>2 DEF Resolved, Archived
  <2>2. CASE r \in Elements(db)
    <3>1. PICK j \in DOMAIN db : r = db[j]
      BY <2>2 DEF Elements
    <3>2. j \in DOMAIN db' /\ db'[j].call = db[j].call
      BY <1>0, <1>2, ResolveRow
    <3>3. db'[j] \in AllRows'
      BY <3>2 DEF AllRows, Elements
    <3>4. QED
      BY <3>1, <3>2, <3>3
  <2>3. QED
    BY <2>1, <2>2 DEF AllRows
<1>3. ASSUME NEW a \in Actors, InsertRow(a)
      PROVE  r \in AllRows'
  <2>1. PICK row : db' = Append(db, row)
    BY <1>3 DEF InsertRow
  <2>2. \A j \in DOMAIN db : j \in DOMAIN db' /\ db'[j] = db[j]
    BY <1>0, <2>1
  <2>3. Elements(db) \subseteq Elements(db')
    BY <2>2 DEF Elements
  <2>4. QED
    BY <1>3, <2>3 DEF AllRows, Archived, InsertRow
<1>4. ASSUME NEW a \in Actors, RenameToArchive(a)
      PROVE  r \in AllRows'
  <2>1. archives' = Append(archives, db) /\ purged' = purged
    BY <1>4 DEF RenameToArchive, CheckpointedFile
  <2>2. QED
    BY <1>0, <2>1, AppendedArchive DEF AllRows
<1>5. ASSUME NEW a \in Actors, CreateTable(a)
      PROVE  r \in AllRows'
  <2>1. db' = db
    BY <1>5 DEF CreateTable
  <2>2. QED
    BY <1>0, <1>5, <2>1, DroppedArchives DEF AllRows
<1>6. QED
  BY <1>1, <1>2, <1>3, <1>4, <1>5, StorageStep

\* The calls that took effect: the old ones, and the one whose write arrives.
LEMMA EffectStep ==
  ASSUME [Next]_vars
  PROVE  \/ effect' = effect
         \/ \E a \in Actors : UpstreamApplies(a) /\ effect' = effect \cup {Id(a)}
<1> USE DEF storage, history
<1>1. ASSUME NEW a \in Actors, Step(a) PROVE effect' = effect
  BY <1>1 DEF Step, PreCheck, BeginWrite, Return, FinishWrite, FinalLog, AcquireGuard,
              DecideRotation, RenameToArchive, CreateTable, InsertRow, InsertFails
<1>2. QED
  BY <1>1 DEF Next, StartProcess, Crash, StartCall, UpstreamApplies, Interrupt,
              Reconcile, vars

\* Nothing reaches the proxy before its intent is durable.
LEMMA NextAudited ==
  ASSUME TypeOK, Control, OpenIntent, EffectIsAudited, [Next]_vars
  PROVE  EffectIsAudited'
<1>1. ASSUME NEW c \in effect
      PROVE  \E s \in AllRows' : s.call = c
  <2>1. PICK r \in AllRows : r.call = c
    BY <1>1 DEF EffectIsAudited
  <2>2. QED
    BY <2>1, RowsKept
<1>2. ASSUME NEW a \in Actors, UpstreamApplies(a)
      PROVE  \E r \in AllRows' : r.call = Id(a)
  <2>1. call[a].intent # 0
    BY <1>2 DEF UpstreamApplies, At, Control, IntentWhileRunning
  <2> DEFINE row == db[call[a].intent]
  <2>2. call[a].intent \in DOMAIN db /\ row.call = Id(a)
    <3>1. call[a].intent \in DOMAIN db /\ row = [call |-> Id(a), status |-> "pending"]
      BY <2>1 DEF OpenIntent
    <3> HIDE DEF row
    <3>2. QED
      BY <3>1
  <2>3. db[call[a].intent] \in AllRows
    BY <2>2 DEF AllRows, Elements
  <2>4. QED
    BY <2>2, <2>3, RowsKept
<1>3. QED
  BY <1>1, <1>2, EffectStep DEF EffectIsAudited

\* The strengthening of the three safety invariants that is inductive.
IInv == /\ TypeOK /\ CallNumbered /\ Control /\ QuietRotation
        /\ OpenIntent /\ PendingStaysVisible /\ EffectIsAudited

\* Every step preserves it.
LEMMA NextIInv == IInv /\ [Next]_vars => IInv'
BY NextCallType, NextStorageType, NextRestType, NextControl, NextQuiet,
   NextOpenIntent, NextVisible, NextAudited DEF IInv, TypeOK

\* It holds on a fresh machine.
LEMMA InitIInv == Init => IInv
<1> SUFFICES ASSUME Init PROVE IInv
  OBVIOUS
<1>1. TypeOK /\ CallNumbered
  BY InitTypeOK
<1>2. Control /\ QuietRotation /\ OpenIntent
  BY DEF Init, NoCall, Control, HolderInside, IntentWhileRunning, Guarded,
         QuietRotation, OpenIntent, At
<1>3. Archived = {} /\ purged = {} /\ effect = {}
  BY DEF Init, Archived
<1>4. PendingStaysVisible /\ EffectIsAudited
  BY <1>3 DEF PendingStaysVisible, EffectIsAudited
<1>5. QED
  BY <1>1, <1>2, <1>4 DEF IInv

\* IInv holds in every behaviour.
LEMMA Invariance == Spec => []IInv
BY InitIInv, NextIInv, PTL DEF Spec

\* finish_write (audit.py:238) always finds its own pending row: no rotation,
\* resolution or reconciliation by any process takes it away.
THEOREM OpenIntentHolds == Spec => []OpenIntent
<1>1. IInv => OpenIntent
  BY DEF IInv
<1>2. QED
  BY <1>1, Invariance, PTL

\* No archive, kept or deleted, holds an unresolved intent (audit.py:302).
THEOREM PendingStaysVisibleHolds == Spec => []PendingStaysVisible
<1>1. IInv => PendingStaysVisible
  BY DEF IInv
<1>2. QED
  BY <1>1, Invariance, PTL

\* Every write that reached the proxy has a row in the database or an archive,
\* whatever crashes, fails or rotates (decorators.py:282).
THEOREM EffectIsAuditedHolds == Spec => []EffectIsAudited
<1>1. IInv => EffectIsAudited
  BY DEF IInv
<1>2. QED
  BY <1>1, Invariance, PTL

\* What ResolvedByOwner asks of the row at position i of the live database.
ResolvedOrKept(i) ==
  /\ i \in DOMAIN db'
  /\ db'[i].call = db[i].call
  /\ \/ db'[i] = db[i]
     \/ /\ db[i].status = "pending"
        /\ \/ db'[i].status = "unknown" /\ ~Live(db[i].call)
           \/ \E a \in Actors : /\ At(a, "final") /\ db[i].call = Id(a)
                                 /\ db'[i].status = call[a].status

\* One step resolves a row as its owner or the operator may, and touches no
\* other row of the live database.
LEMMA NextResolved ==
  ASSUME IInv, [Next]_vars, db' # <<>>, NEW i \in DOMAIN db
  PROVE  ResolvedOrKept(i)
<1> USE DEF ResolvedOrKept
<1>0. TypeOK /\ OpenIntent /\ db \in Seq(Row)
  BY DEF IInv, TypeOK
<1>1. CASE UNCHANGED db
  BY <1>1
<1>2. ASSUME NEW j \in DOMAIN db, NEW v \in Verdicts, Resolved(j, v)
      PROVE  ResolvedOrKept(i)
  <2>1. /\ DOMAIN db' = DOMAIN db /\ db'[i].call = db[i].call
        /\ db'[j] = [call |-> db[j].call, status |-> v]
        /\ i # j => db'[i] = db[i]
    BY <1>0, <1>2, ResolveRow
  <2>2. db'[j].status = v
    BY <2>1
  <2>3. CASE i = j
    <3>1. db[i].status = "pending"
      BY <1>2, <2>3 DEF Resolved, Pending
    <3>2. CASE v = "unknown" /\ ~Live(db[j].call)
      BY <2>1, <2>2, <2>3, <3>1, <3>2
    <3>3. ASSUME NEW a \in Actors, FinishWrite(a), j = call[a].intent,
                 v = call[a].status
          PROVE  At(a, "final") /\ db[i].call = Id(a) /\ db'[i].status = call[a].status
      <4>1. db[j] = [call |-> Id(a), status |-> "pending"]
        BY <1>0, <3>3 DEF FinishWrite, OpenIntent
      <4>2. db[j].call = Id(a)
        BY <4>1
      <4>3. QED
        BY <2>2, <2>3, <3>3, <4>2 DEF FinishWrite
    <3>4. QED
      BY <1>2, <2>1, <3>1, <3>2, <3>3 DEF Resolved
  <2>4. QED
    BY <2>1, <2>3
<1>3. ASSUME NEW a \in Actors, InsertRow(a)
      PROVE  i \in DOMAIN db' /\ db'[i] = db[i]
  <2>1. PICK row : db' = Append(db, row)
    BY <1>3 DEF InsertRow
  <2>2. QED
    BY <1>0, <2>1
<1>4. \A a \in Actors : ~RenameToArchive(a)
  BY DEF RenameToArchive
<1>5. \A a \in Actors : CreateTable(a) => UNCHANGED db
  BY DEF CreateTable
<1>6. QED
  BY <1>0, <1>1, <1>2, <1>3, <1>4, <1>5, StorageStep

\* A row is resolved once, by its owner or for an owner that is gone, although
\* ids restart in every rotated database (audit.py:238, audit.py:309).
THEOREM ResolvedByOwnerHolds == Spec => ResolvedByOwner
<1>1. IInv /\ [Next]_vars =>
        [db' # <<>> => \A i \in DOMAIN db : ResolvedOrKept(i)]_vars
  BY NextResolved
<1>2. QED
  BY <1>1, Invariance, PTL DEF Spec, ResolvedByOwner, ResolvedOrKept
----------------------------------------------------------------------------
(* The ledger: at most one row per call, whatever file it is in.           *)

\* No call has two rows.
DistinctRows ==
  /\ \A i, j \in DOMAIN db : db[i].call = db[j].call => i = j
  /\ \A i \in DOMAIN db, r \in Archived \cup purged : db[i].call # r.call
  /\ \A r, s \in Archived \cup purged : r.call = s.call => r = s

\* A call has no row before it begins, and while it runs none but its intent.
RowsOfBegunCalls ==
  \A r \in AllRows, a \in Actors :
    /\ r.call[1] = a => r.call[2] <= call[a].n
    /\ r.call = Id(a) /\ call[a].pc # "idle" => call[a].intent # 0

\* What each step means for the rows taken together.
LEMMA LedgerStep ==
  ASSUME TypeOK, DistinctRows, [Next]_vars
  PROVE  \/ AllRows' = AllRows
         \/ \E a \in Actors :
              /\ InsertRow(a)
              /\ AllRows' = AllRows \cup {[call |-> Id(a), status |-> call[a].row]}
         \/ \E i \in DOMAIN db, v \in Verdicts :
              /\ Resolved(i, v)
              /\ AllRows' = (AllRows \ {db[i]}) \cup {[call |-> db[i].call, status |-> v]}
<1>0. db \in Seq(Row) /\ archives \in Seq(Seq(Row))
  BY DEF TypeOK
<1>1. CASE UNCHANGED <<db, archives, purged>>
  BY <1>1 DEF AllRows, Archived
<1>2. ASSUME NEW i \in DOMAIN db, NEW v \in Verdicts, Resolved(i, v)
      PROVE  AllRows' = (AllRows \ {db[i]}) \cup {[call |-> db[i].call, status |-> v]}
  <2>1. /\ DOMAIN db' = DOMAIN db /\ db'[i] = [call |-> db[i].call, status |-> v]
        /\ \A j \in DOMAIN db : j # i => db'[j] = db[j]
    BY <1>0, <1>2, ResolveRow
  <2>2. \A j \in DOMAIN db : j # i => db[j] # db[i]
    BY DEF DistinctRows
  <2>3. Elements(db') = (Elements(db) \ {db[i]}) \cup {db'[i]}
    BY <2>1, <2>2 DEF Elements
  <2>4. db[i] \notin Archived \cup purged
    BY DEF DistinctRows
  <2>5. (Archived \cup purged)' = Archived \cup purged
    BY <1>2 DEF Resolved, Archived
  <2>6. QED
    BY <2>1, <2>3, <2>4, <2>5 DEF AllRows
<1>3. ASSUME NEW a \in Actors, InsertRow(a)
      PROVE  AllRows' = AllRows \cup {[call |-> Id(a), status |-> call[a].row]}
  <2> DEFINE row == [call |-> Id(a), status |-> call[a].row]
  <2> HIDE DEF row
  <2>1. db' = Append(db, row) /\ UNCHANGED <<archives, purged>>
    BY <1>3 DEF InsertRow, row
  <2>2. /\ DOMAIN db' = DOMAIN db \cup {Len(db) + 1} /\ db'[Len(db) + 1] = row
        /\ \A j \in DOMAIN db : db'[j] = db[j]
    BY <1>0, <2>1
  <2>3. Elements(db') = Elements(db) \cup {row}
    BY <2>2 DEF Elements
  <2>4. QED
    BY <2>1, <2>3 DEF AllRows, Archived, row
<1>4. ASSUME NEW a \in Actors, RenameToArchive(a)
      PROVE  AllRows' = AllRows
  <2>1. archives' = Append(archives, db) /\ purged' = purged /\ db' = <<>>
    BY <1>4 DEF RenameToArchive, CheckpointedFile
  <2>2. Elements(db') = {}
    BY <2>1 DEF Elements
  <2>3. QED
    BY <1>0, <2>1, <2>2, AppendedArchive DEF AllRows
<1>5. ASSUME NEW a \in Actors, CreateTable(a)
      PROVE  AllRows' = AllRows
  <2>1. db' = db
    BY <1>5 DEF CreateTable
  <2>2. QED
    BY <1>0, <1>5, <2>1, DroppedArchives DEF AllRows
<1>6. QED
  BY <1>1, <1>2, <1>3, <1>4, <1>5, StorageStep

\* A row that is inserted belongs to a call that has none.
LEMMA FirstRow ==
  ASSUME TypeOK, Control, RowsOfBegunCalls, NEW a \in Actors, InsertRow(a)
  PROVE  \A r \in AllRows : r.call # Id(a)
BY DEF InsertRow, At, Control, IntentWhileRunning, RowsOfBegunCalls

\* No step gives a call a second row.
LEMMA NextDistinct ==
  ASSUME TypeOK, Control, DistinctRows, RowsOfBegunCalls, [Next]_vars
  PROVE  DistinctRows'
<1>0. db \in Seq(Row) /\ archives \in Seq(Seq(Row))
  BY DEF TypeOK
<1>1. CASE UNCHANGED <<db, archives, purged>>
  BY <1>1 DEF DistinctRows, Archived
<1>2. ASSUME NEW i \in DOMAIN db, NEW v \in Verdicts, Resolved(i, v)
      PROVE  DistinctRows'
  <2>1. DOMAIN db' = DOMAIN db /\ \A j \in DOMAIN db : db'[j].call = db[j].call
    BY <1>0, <1>2, ResolveRow
  <2>2. (Archived \cup purged)' = Archived \cup purged
    BY <1>2 DEF Resolved, Archived
  <2>3. QED
    BY <2>1, <2>2 DEF DistinctRows
<1>3. ASSUME NEW a \in Actors, InsertRow(a)
      PROVE  DistinctRows'
  <2> DEFINE row == [call |-> Id(a), status |-> call[a].row]
  <2>1. row.call = Id(a)
    OBVIOUS
  <2>2. db' = Append(db, row) /\ UNCHANGED <<archives, purged>>
    BY <1>3 DEF InsertRow
  <2> HIDE DEF row
  <2>3. /\ DOMAIN db' = DOMAIN db \cup {Len(db) + 1} /\ db'[Len(db) + 1] = row
        /\ \A j \in DOMAIN db : db'[j] = db[j]
    BY <1>0, <2>2
  <2>4. \A r \in AllRows : r.call # row.call
    BY <1>3, <2>1, FirstRow
  <2>5. \A j \in DOMAIN db : db[j] \in AllRows
    BY DEF AllRows, Elements
  <2>6. (Archived \cup purged)' = Archived \cup purged
    BY <2>2 DEF Archived
  <2>7. QED
    BY <2>3, <2>4, <2>5, <2>6 DEF DistinctRows, AllRows
<1>4. ASSUME NEW a \in Actors, RenameToArchive(a)
      PROVE  DistinctRows'
  <2>1. archives' = Append(archives, db) /\ purged' = purged /\ db' = <<>>
    BY <1>4 DEF RenameToArchive, CheckpointedFile
  <2>2. (Archived \cup purged)' = Archived \cup purged \cup Elements(db)
    BY <1>0, <2>1, AppendedArchive
  <2>3. QED
    BY <2>1, <2>2 DEF DistinctRows, Elements
<1>5. ASSUME NEW a \in Actors, CreateTable(a)
      PROVE  DistinctRows'
  <2>1. db' = db
    BY <1>5 DEF CreateTable
  <2>2. QED
    BY <1>0, <1>5, <2>1, DroppedArchives DEF DistinctRows
<1>6. QED
  BY <1>1, <1>2, <1>3, <1>4, <1>5, StorageStep

\* Calls are numbered upwards: a call that begins has no row yet, one that
\* loses its intent is over.
LEMMA NextBegun ==
  ASSUME TypeOK, CallNumbered, Control, DistinctRows, RowsOfBegunCalls, [Next]_vars
  PROVE  RowsOfBegunCalls'
<1>0. /\ call \in [Actors -> CallState] /\ call' \in [Actors -> CallState]
      /\ db \in Seq(Row) /\ AllRows \subseteq Row
      /\ \A a \in Actors : call[a].n \in Nat
  <2>1. AllRows \subseteq Row
    BY DEF TypeOK, AllRows, Archived, Elements
  <2>2. QED
    BY <2>1, NextCallType DEF TypeOK, CallState
<1> SUFFICES ASSUME NEW r \in AllRows', NEW a \in Actors
             PROVE  /\ r.call[1] = a => r.call[2] <= call'[a].n
                    /\ r.call = Id(a)' /\ call'[a].pc # "idle" => call'[a].intent # 0
  BY DEF RowsOfBegunCalls
<1>1. \/ \E s \in AllRows : s.call = r.call
      \/ \E b \in Actors : InsertRow(b) /\ r.call = Id(b)
  <2>1. \A i \in DOMAIN db : db[i] \in AllRows
    BY DEF AllRows, Elements
  <2>2. QED
    BY <2>1, LedgerStep
<1>2. ASSUME NEW s \in AllRows, s.call = r.call
      PROVE  /\ r.call[1] = a => r.call[2] <= call'[a].n
             /\ r.call = Id(a)' /\ call'[a].pc # "idle" => call'[a].intent # 0
  <2>0. /\ r.call[1] = a => r.call[2] <= call[a].n
        /\ r.call = Id(a) /\ call[a].pc # "idle" => call[a].intent # 0
        /\ r.call[2] \in Nat
    <3>1. s.call[2] \in Nat
      BY <1>0, BoundsAssumption DEF Row, CallIds
    <3>2. QED
      BY <1>2, <3>1 DEF RowsOfBegunCalls
  <2>1. CASE Step(a) \/ Interrupt(a)
    <3>1. call'[a].n = call[a].n /\ call[a].pc # "idle"
      BY <1>0, <2>1, CallStep
    <3>2. call'[a].intent # 0 \/ call'[a].pc = "idle" \/ call'[a].intent = call[a].intent
      BY <1>0, <2>1, Moves DEF Control
    <3>3. QED
      BY <2>0, <3>1, <3>2 DEF Id
  <2>2. ASSUME NEW b \in Actors, b # a, Step(b) \/ Interrupt(b)
        PROVE  call'[a] = call[a]
    BY <1>0, <2>2, CallStep
  <2>3. ASSUME \A b \in Actors : ~(Step(b) \/ Interrupt(b))
        PROVE  call'[a] = call[a] \/ Forgotten(a) \/ Started(a)
    BY <2>3, FreshCalls
  <2>4. CASE call'[a] = call[a]
    BY <2>0, <2>4 DEF Id
  <2>5. CASE Forgotten(a)
    BY <2>0, <2>5 DEF Forgotten
  <2>6. CASE Started(a)
    <3>1. call'[a].n = call[a].n + 1
      BY <2>6 DEF Started
    <3>2. r.call # Id(a)'
      <4>1. SUFFICES ASSUME r.call = <<a, call[a].n + 1>> PROVE FALSE
        BY <3>1 DEF Id
      <4>2. r.call[1] = a /\ r.call[2] = call[a].n + 1
        BY <4>1
      <4>3. QED
        BY <1>0, <2>0, <4>2
    <3>3. QED
      BY <1>0, <2>0, <3>1, <3>2
  <2>7. QED
    BY <2>1, <2>2, <2>3, <2>4, <2>5, <2>6
<1>3. ASSUME NEW b \in Actors, InsertRow(b), r.call = Id(b)
      PROVE  /\ r.call[1] = a => r.call[2] <= call'[a].n
             /\ r.call = Id(a)' /\ call'[a].pc # "idle" => call'[a].intent # 0
  <2>1. Step(b)
    BY <1>3 DEF Step
  <2>2. call'[b].n = call[b].n /\ r.call[1] = b /\ r.call[2] = call[b].n
    BY <1>0, <1>3, <2>1, CallStep DEF Id
  <2>3. call'[b].pc # "idle" => call'[b].intent # 0
    BY <1>0, <1>3 DEF InsertRow, End, NoCall, CallState
  <2>4. r.call = Id(a)' => a = b
    BY <1>3 DEF Id
  <2>5. QED
    BY <1>0, <2>2, <2>3, <2>4
<1>4. QED
  BY <1>1, <1>2, <1>3

\* A call has a verdict only once it is over its body, and the verdict of one
\* that holds an intent is that of its body.
VerdictAfterBody ==
  \A a \in Actors :
    /\ call[a].row = "pending" /\ call[a].pc # "final" => call[a].status = "ok"
    /\ call[a].intent # 0 => call[a].status \in Results

LEMMA NextVerdict ==
  ASSUME TypeOK, Control, VerdictAfterBody, [Next]_vars
  PROVE  VerdictAfterBody'
<1>0. /\ call \in [Actors -> CallState] /\ "ok" \in Results
      /\ "pending" \notin Verdicts
  BY DEF TypeOK, Results, Verdicts
<1> SUFFICES ASSUME NEW a \in Actors
             PROVE  /\ call'[a].row = "pending" /\ call'[a].pc # "final"
                         => call'[a].status = "ok"
                    /\ call'[a].intent # 0 => call'[a].status \in Results
  BY DEF VerdictAfterBody
<1> DEFINE Known == /\ call'[a].row = "pending" /\ call'[a].pc # "final"
                         => call'[a].status = "ok"
                    /\ call'[a].intent # 0 => call'[a].status \in Results
<1>1. ASSUME Step(a) \/ Interrupt(a) PROVE Known
  <2>0. /\ call[a] \in CallState
        /\ call[a].row = "pending" /\ call[a].pc # "final" => call[a].status = "ok"
        /\ call[a].intent # 0 => call[a].status \in Results /\ call[a].pc \in {"run", "final"}
    BY <1>0 DEF VerdictAfterBody, Control, IntentWhileRunning
  <2> USE DEF At, Goto, OverBudget, Refuse, End, NoCall, CallState
  <2>1. CASE PreCheck(a) \/ BeginWrite(a)
    BY <1>0, <2>0, <2>1 DEF PreCheck, BeginWrite
  <2>2. CASE \E r \in Results : Return(a, r)
    BY <1>0, <2>0, <2>2 DEF Return
  <2>3. CASE Interrupt(a) \/ FinishWrite(a)
    BY <1>0, <2>0, <2>3 DEF Interrupt, FinishWrite
  <2>4. CASE FinalLog(a)
    BY <1>0, <2>0, <2>4 DEF FinalLog, NoIntent
  <2>5. CASE AcquireGuard(a) \/ DecideRotation(a) \/ RenameToArchive(a) \/ CreateTable(a)
    BY <1>0, <2>0, <2>5 DEF AcquireGuard, DecideRotation, RenameToArchive, CreateTable
  <2>6. CASE InsertRow(a) \/ InsertFails(a)
    BY <1>0, <2>0, <2>6 DEF InsertRow, InsertFails
  <2>7. QED
    BY <1>1, <2>1, <2>2, <2>3, <2>4, <2>5, <2>6 DEF Step
<1>2. ASSUME NEW b \in Actors, b # a, Step(b) \/ Interrupt(b)
      PROVE  call'[a] = call[a]
  BY <1>0, <1>2, CallStep DEF TypeOK
<1>3. ASSUME \A b \in Actors : ~(Step(b) \/ Interrupt(b))
      PROVE  call'[a] = call[a] \/ (call'[a].intent = 0 /\ call'[a].status = "ok")
  BY <1>3, FreshCalls DEF Forgotten, Started, Blank
<1>4. QED
  BY <1>0, <1>1, <1>2, <1>3 DEF VerdictAfterBody

\* What happens to one row in one step: it stays, or, if it is pending, it gets
\* the verdict of its owner or, the owner gone, of the operator.
LEMMA RowFate ==
  ASSUME IInv, DistinctRows, [Next]_vars, NEW r \in AllRows
  PROVE  \/ r \in AllRows'
         \/ /\ r.status = "pending"
            /\ \E s \in AllRows' :
                 /\ s.call = r.call
                 /\ \/ s.status = "unknown"
                    \/ \E a \in Actors : /\ FinishWrite(a) /\ r.call = Id(a)
                                         /\ s.status = call[a].status
<1>1. ASSUME NEW i \in DOMAIN db, NEW v \in Verdicts, Resolved(i, v), r = db[i],
             AllRows' = (AllRows \ {db[i]}) \cup {[call |-> db[i].call, status |-> v]}
      PROVE  /\ r.status = "pending"
             /\ \E s \in AllRows' :
                  /\ s.call = r.call
                  /\ \/ s.status = "unknown"
                     \/ \E a \in Actors : /\ FinishWrite(a) /\ r.call = Id(a)
                                          /\ s.status = call[a].status
  <2> DEFINE s == [call |-> db[i].call, status |-> v]
  <2>1. s \in AllRows' /\ s.call = r.call /\ s.status = v
    BY <1>1
  <2>2. r.status = "pending"
    BY <1>1 DEF Resolved, Pending
  <2>3. ASSUME NEW a \in Actors, FinishWrite(a), i = call[a].intent
        PROVE  r.call = Id(a)
    <3>1. db[i] = [call |-> Id(a), status |-> "pending"]
      BY <2>3 DEF IInv, OpenIntent, FinishWrite
    <3>2. QED
      BY <1>1, <3>1
  <2> HIDE DEF s
  <2>4. QED
    BY <1>1, <2>1, <2>2, <2>3 DEF Resolved
<1>2. QED
  BY <1>1, LedgerStep DEF IInv

\* An undo token of a call that is not over yet: its body returned, and its
\* verdict is one the token may accompany.
TokenAfterBody ==
  \A t \in tokens, a \in Actors :
    t[1] = Id(a) /\ call[a].pc # "idle" =>
      /\ call[a].pc = "final" /\ call[a].intent # 0
      /\ call[a].status \in {"unknown"} \cup IF t[2] THEN {"ok"} ELSE {}

\* The tokens after a step: the old ones, and at a return the one it records.
LEMMA TokensStep ==
  ASSUME [Next]_vars, NEW t \in tokens'
  PROVE  \/ t \in tokens
         \/ \E a \in Actors, r \in Results :
              /\ Return(a, r) /\ call[a].kind = "write"
              /\ t[1] = Id(a) /\ r \in {"unknown"} \cup IF t[2] THEN {"ok"} ELSE {}
<1> USE DEF storage, history
<1>1. ASSUME NEW a \in Actors, NEW r \in Results, Return(a, r), t \notin tokens
      PROVE  /\ call[a].kind = "write"
             /\ t[1] = Id(a) /\ r \in {"unknown"} \cup IF t[2] THEN {"ok"} ELSE {}
  <2>1. PICK m \in MayRecord(call[a].kind, r) :
          tokens' = IF m = "none" THEN tokens
                    ELSE tokens \cup {<<Id(a), m = "verified">>}
    BY <1>1 DEF Return
  <2>2. m # "none" /\ t = <<Id(a), m = "verified">>
    BY <1>1, <2>1, Zenon
  <2>3. t[1] = Id(a) /\ t[2] = (m = "verified")
    BY <2>2, Zenon
  <2>4. call[a].kind = "write" /\ r # "error"
        /\ m = IF r = "ok" THEN "verified" ELSE "unverified"
    BY <2>2 DEF MayRecord
  <2>5. CASE r = "ok"
    BY <2>3, <2>4, <2>5
  <2>6. CASE r = "unknown"
    BY <2>3, <2>4, <2>6
  <2>7. QED
    BY <2>3, <2>4, <2>5, <2>6 DEF Results
<1>2. ASSUME NEW a \in Actors,
             \/ PreCheck(a) \/ BeginWrite(a) \/ FinishWrite(a) \/ FinalLog(a)
             \/ AcquireGuard(a) \/ DecideRotation(a) \/ RenameToArchive(a)
             \/ CreateTable(a) \/ InsertRow(a) \/ InsertFails(a)
      PROVE  tokens' = tokens
  BY <1>2 DEF PreCheck, BeginWrite, FinishWrite, FinalLog, AcquireGuard,
              DecideRotation, RenameToArchive, CreateTable, InsertRow, InsertFails
<1>3. ASSUME NEW a \in Actors, Step(a)
      PROVE  tokens' = tokens \/ \E r \in Results : Return(a, r)
  BY <1>2, <1>3 DEF Step
<1>4. tokens' = tokens \/ \E a \in Actors, r \in Results : Return(a, r)
  BY <1>3 DEF Next, StartProcess, Crash, StartCall, UpstreamApplies, Interrupt,
              Reconcile, vars
<1>5. QED
  BY <1>1, <1>4

\* A body returns and records its inverse once; its call then only finalises.
LEMMA NextTokenAfterBody ==
  ASSUME IInv, RowsOfBegunCalls, TokenMatchesRow, TokenAfterBody, [Next]_vars
  PROVE  TokenAfterBody'
<1>0. /\ TypeOK /\ Control /\ call \in [Actors -> CallState] /\ db \in Seq(Row)
      /\ \A a \in Actors : call[a].n \in Nat
  BY DEF IInv, TypeOK, CallState
<1> SUFFICES ASSUME NEW t \in tokens', NEW a \in Actors,
                    t[1] = Id(a)', call'[a].pc # "idle"
             PROVE  /\ call'[a].pc = "final" /\ call'[a].intent # 0
                    /\ call'[a].status \in {"unknown"} \cup IF t[2] THEN {"ok"} ELSE {}
  BY DEF TokenAfterBody
<1>1. CASE t \in tokens
  <2>1. ASSUME Step(a) \/ Interrupt(a) PROVE FALSE
    <3>1. Id(a)' = Id(a) /\ call[a].pc # "idle"
      BY <1>0, <2>1, CallStep DEF Id
    <3>2. call[a].pc = "final" /\ call[a].intent # 0
      BY <1>1, <3>1 DEF TokenAfterBody
    <3>3. ~FinishWrite(a)
      BY <1>0 DEF FinishWrite, End, NoCall
    <3>4. QED
      BY <2>1, <3>2, <3>3 DEF Step, Interrupt, PreCheck, BeginWrite, Return, FinalLog,
         NoIntent, AcquireGuard, DecideRotation, RenameToArchive, CreateTable,
         InsertRow, InsertFails, At
  <2>2. ASSUME NEW b \in Actors, b # a, Step(b) \/ Interrupt(b)
        PROVE  call'[a] = call[a]
    BY <1>0, <2>2, CallStep
  <2>3. ASSUME \A b \in Actors : ~(Step(b) \/ Interrupt(b))
        PROVE  call'[a] = call[a] \/ Started(a)
    BY <1>0, <2>3, FreshCalls DEF Forgotten
  <2>4. ~Started(a)
    <3>1. PICK r \in AllRows : r.call = t[1]
      BY <1>1 DEF TokenMatchesRow
    <3>2. ASSUME Started(a) PROVE FALSE
      <4>1. r.call = <<a, call[a].n + 1>>
        BY <3>1, <3>2 DEF Started, Id
      <4>2. r.call[1] = a /\ r.call[2] = call[a].n + 1
        BY <4>1
      <4>3. QED
        BY <1>0, <4>2 DEF RowsOfBegunCalls
    <3>3. QED
      BY <3>2
  <2>5. CASE call'[a] = call[a]
    BY <1>1, <2>5 DEF TokenAfterBody, Id
  <2>6. QED
    BY <2>1, <2>2, <2>3, <2>4, <2>5
<1>2. ASSUME NEW b \in Actors, NEW r \in Results, Return(b, r),
             call[b].kind = "write", t[1] = Id(b),
             r \in {"unknown"} \cup IF t[2] THEN {"ok"} ELSE {}
      PROVE  /\ call'[a].pc = "final" /\ call'[a].intent # 0
             /\ call'[a].status \in {"unknown"} \cup IF t[2] THEN {"ok"} ELSE {}
  <2>1. a = b
    BY <1>2 DEF Id
  <2>2. call[b].intent # 0
    BY <1>0, <1>2 DEF Return, Control, IntentWhileRunning
  <2>3. call' = [call EXCEPT ![b].pc = "final", ![b].status = r]
    BY <1>2 DEF Return
  <2>4. call'[b].pc = "final" /\ call'[b].status = r /\ call'[b].intent = call[b].intent
    BY <1>0, <2>3 DEF CallState
  <2>5. QED
    BY <1>2, <2>1, <2>2, <2>4
<1>3. QED
  BY <1>1, <1>2, TokensStep

\* The row a token belongs to is resolved to a verdict the token may accompany.
LEMMA NextTokenMatches ==
  ASSUME IInv, DistinctRows, TokenMatchesRow, TokenAfterBody, [Next]_vars
  PROVE  TokenMatchesRow'
<1>0. TypeOK /\ Control /\ OpenIntent
  BY DEF IInv
<1> SUFFICES ASSUME NEW t \in tokens'
             PROVE  \E r \in AllRows' :
                      /\ r.call = t[1]
                      /\ r.status \in {"pending", "unknown"} \cup IF t[2] THEN {"ok"} ELSE {}
  BY DEF TokenMatchesRow
<1>1. CASE t \in tokens
  <2>1. PICK r \in AllRows :
          /\ r.call = t[1]
          /\ r.status \in {"pending", "unknown"} \cup IF t[2] THEN {"ok"} ELSE {}
    BY <1>1 DEF TokenMatchesRow
  <2>2. CASE r \in AllRows'
    BY <2>1, <2>2
  <2>3. ASSUME NEW s \in AllRows', s.call = r.call,
               \/ s.status = "unknown"
               \/ \E a \in Actors : /\ FinishWrite(a) /\ r.call = Id(a)
                                    /\ s.status = call[a].status
        PROVE  s.status \in {"unknown"} \cup IF t[2] THEN {"ok"} ELSE {}
    BY <1>1, <2>1, <2>3 DEF TokenAfterBody, FinishWrite, At
  <2>4. QED
    BY <2>1, <2>2, <2>3, RowFate
<1>2. ASSUME NEW a \in Actors, NEW r \in Results, Return(a, r),
             call[a].kind = "write", t[1] = Id(a)
      PROVE  \E s \in AllRows' : s.call = t[1] /\ s.status = "pending"
  <2> DEFINE row == db[call[a].intent]
  <2>1. call[a].intent # 0
    BY <1>0, <1>2 DEF Return, Control, IntentWhileRunning
  <2>2. call[a].intent \in DOMAIN db /\ row.call = Id(a) /\ row.status = "pending"
    <3>1. call[a].intent \in DOMAIN db /\ row = [call |-> Id(a), status |-> "pending"]
      BY <1>0, <2>1 DEF OpenIntent
    <3> HIDE DEF row
    <3>2. QED
      BY <3>1
  <2>3. row \in AllRows /\ AllRows' = AllRows
    BY <1>2, <2>2 DEF AllRows, Archived, Elements, Return, storage
  <2> HIDE DEF row
  <2>4. QED
    BY <1>2, <2>2, <2>3
<1>3. QED
  BY <1>1, <1>2, TokensStep

\* A process that left an intent unresolved is blocked as long as it is up; a
\* late call runs in such a process and never gets to insert an intent.
BlockedWhenAbandoned ==
  \A p \in abandoned : engine[p].up => engine[p].blocked
LateIsRefused ==
  \A a \in Actors : call[a].late =>
    /\ ProcOf[a] \in abandoned /\ engine[ProcOf[a]].up
    /\ call[a].pc \in Guarded \cup {"guard"} => call[a].row # "pending"

\* What a step means for one process.
LEMMA EngineStep ==
  ASSUME TypeOK, [Next]_vars, NEW p \in Procs
  PROVE  \/ StartProcess(p) \/ Crash(p)
         \/ /\ engine'[p].up = engine[p].up
            /\ engine[p].blocked => engine'[p].blocked
            /\ p \in abandoned => p \in abandoned'
            /\ p \in abandoned' => p \in abandoned \/ engine'[p].blocked
<1> USE DEF storage, history
<1> DEFINE Kept == /\ engine'[p].up = engine[p].up
                   /\ engine[p].blocked => engine'[p].blocked
                   /\ p \in abandoned => p \in abandoned'
                   /\ p \in abandoned' => p \in abandoned \/ engine'[p].blocked
<1>0. engine \in [Procs -> Engine]
  BY DEF TypeOK
<1>1. CASE UNCHANGED <<engine, abandoned>>
  BY <1>1
<1>2. ASSUME NEW q \in Procs, q # p, StartProcess(q) \/ Crash(q)
      PROVE  Kept
  BY <1>0, <1>2 DEF StartProcess, Crash
<1>3. ASSUME NEW a \in Actors, engine' = [engine EXCEPT ![ProcOf[a]].blocked = TRUE],
             abandoned' \in {abandoned, abandoned \cup {ProcOf[a]}}
      PROVE  Kept
  <2>1. ProcOf[a] \in Procs
    BY ActorsAssumption
  <2>2. CASE p = ProcOf[a]
    BY <1>0, <1>3, <2>2 DEF Engine
  <2>3. CASE p # ProcOf[a]
    BY <1>0, <1>3, <2>1, <2>3
  <2>4. QED
    BY <2>2, <2>3
<1>4. ASSUME NEW a \in Actors, Step(a)
      PROVE  Kept
  <2>1. CASE BeginWrite(a)
    BY <1>1, <1>3, <2>1 DEF BeginWrite
  <2>2. CASE FinishWrite(a)
    BY <1>1, <1>3, <2>2 DEF FinishWrite, FinishSucceeds, FinishFails
  <2>3. CASE InsertFails(a)
    BY <1>1, <1>3, <2>3 DEF InsertFails
  <2>4. CASE \/ PreCheck(a) \/ FinalLog(a) \/ AcquireGuard(a) \/ DecideRotation(a)
             \/ \E r \in Results : Return(a, r)
             \/ RenameToArchive(a) \/ CreateTable(a) \/ InsertRow(a)
    BY <1>1, <2>4 DEF PreCheck, FinalLog, AcquireGuard, DecideRotation, Return,
                      RenameToArchive, CreateTable, InsertRow
  <2>5. QED
    BY <1>4, <2>1, <2>2, <2>3, <2>4 DEF Step
<1>5. ASSUME NEW a \in Actors,
             (\E k \in Kinds : StartCall(a, k)) \/ UpstreamApplies(a) \/ Interrupt(a)
      PROVE  UNCHANGED <<engine, abandoned>>
  BY <1>5 DEF StartCall, UpstreamApplies, Interrupt
<1>6. QED
  BY <1>1, <1>2, <1>4, <1>5 DEF Next, Reconcile, vars

LEMMA NextBlocked ==
  ASSUME TypeOK, CallNumbered, BlockedWhenAbandoned, [Next]_vars
  PROVE  BlockedWhenAbandoned'
<1> SUFFICES ASSUME NEW p \in abandoned', engine'[p].up PROVE engine'[p].blocked
  BY DEF BlockedWhenAbandoned
<1>1. p \in Procs /\ engine \in [Procs -> Engine]
  BY NextRestType DEF TypeOK
<1>2. ~StartProcess(p)
  BY DEF StartProcess
<1>3. ~Crash(p)
  <2>1. Crash(p) => engine'[p] = Down
    BY <1>1 DEF Crash
  <2>2. QED
    BY <2>1 DEF Down
<1>4. QED
  BY <1>1, <1>2, <1>3, EngineStep DEF BlockedWhenAbandoned

\* Going from one place of the wrapper to another changes nothing else.
LEMMA GotoKeeps ==
  ASSUME call \in [Actors -> CallState], NEW a \in Actors, NEW pc \in Pcs, Goto(a, pc)
  PROVE  call'[a].pc = pc /\ call'[a].row = call[a].row /\ call'[a].late = call[a].late
BY DEF Goto, CallState

\* A call is late from its start or never.
LEMMA LateFromStart ==
  ASSUME TypeOK, NEW a \in Actors, Step(a) \/ Interrupt(a), call'[a].late
  PROVE  call[a].late
<1>0. call \in [Actors -> CallState] /\ call[a] \in CallState
  BY DEF TypeOK
<1> USE DEF At, OverBudget, Refuse, End, NoCall
<1>1. ASSUME NEW pc \in Pcs, Goto(a, pc) PROVE call[a].late
  BY <1>0, <1>1, GotoKeeps
<1>2. CASE PreCheck(a)
  BY <1>0, <1>1, <1>2 DEF PreCheck, Pcs, CallState
<1>3. CASE BeginWrite(a)
  BY <1>0, <1>1, <1>3 DEF BeginWrite, Pcs, CallState
<1>4. CASE \/ Interrupt(a) \/ AcquireGuard(a) \/ DecideRotation(a)
           \/ RenameToArchive(a) \/ CreateTable(a)
  BY <1>1, <1>4 DEF Interrupt, AcquireGuard, DecideRotation, RenameToArchive,
                    CreateTable, Pcs
<1>5. CASE \E r \in Results : Return(a, r)
  BY <1>0, <1>5 DEF Return, CallState
<1>6. CASE FinishWrite(a) \/ FinalLog(a)
  BY <1>0, <1>6 DEF FinishWrite, FinalLog, CallState
<1>7. CASE InsertRow(a) \/ InsertFails(a)
  BY <1>0, <1>7 DEF InsertRow, InsertFails, CallState
<1>8. QED
  BY <1>2, <1>3, <1>4, <1>5, <1>6, <1>7 DEF Step

\* A late call stays in the branch of _begin_write that refuses.
LEMMA NextLate ==
  ASSUME TypeOK, Control, BlockedWhenAbandoned, LateIsRefused, [Next]_vars
  PROVE  LateIsRefused'
<1>0. /\ call \in [Actors -> CallState] /\ db \in Seq(Row)
      /\ engine \in [Procs -> Engine] /\ \A a \in Actors : ProcOf[a] \in Procs
  BY ActorsAssumption DEF TypeOK
<1> SUFFICES ASSUME NEW a \in Actors, call'[a].late
             PROVE  /\ ProcOf[a] \in abandoned' /\ engine'[ProcOf[a]].up
                    /\ call'[a].pc \in Guarded \cup {"guard"} => call'[a].row # "pending"
  BY DEF LateIsRefused
<1>1. ASSUME Step(a) \/ Interrupt(a)
      PROVE  /\ call[a].late
             /\ call'[a].pc \in Guarded \cup {"guard"} => call'[a].row # "pending"
  <2>0. /\ call[a].late /\ call[a] \in CallState
        /\ engine[ProcOf[a]].blocked
        /\ call[a].pc \in Guarded \cup {"guard"} => call[a].row # "pending"
    BY <1>0, <1>1, LateFromStart DEF LateIsRefused, BlockedWhenAbandoned
  <2> USE DEF At, OverBudget, Refuse, End, NoCall, Guarded
  <2>1. ASSUME NEW pc \in Pcs, Goto(a, pc)
        PROVE  call'[a].pc = pc /\ call'[a].row = call[a].row
    BY <1>0, <2>1, GotoKeeps
  <2>2. CASE PreCheck(a) \/ BeginWrite(a)
    BY <1>0, <2>0, <2>1, <2>2 DEF PreCheck, BeginWrite, Pcs, CallState
  <2>3. CASE \E r \in Results : Return(a, r)
    BY <1>0, <2>0, <2>3 DEF Return, CallState
  <2>4. CASE Interrupt(a) \/ AcquireGuard(a) \/ DecideRotation(a)
    BY <2>0, <2>1, <2>4 DEF Interrupt, AcquireGuard, DecideRotation, Pcs
  <2>5. CASE RenameToArchive(a) \/ CreateTable(a)
    BY <2>0, <2>1, <2>5 DEF RenameToArchive, CreateTable, Pcs
  <2>6. CASE FinishWrite(a) \/ FinalLog(a)
    BY <1>0, <2>0, <2>6 DEF FinishWrite, FinalLog, CallState, Verdicts, Results
  <2>7. CASE InsertRow(a) \/ InsertFails(a)
    BY <1>0, <2>0, <2>7 DEF InsertRow, InsertFails, CallState
  <2>8. QED
    BY <1>1, <2>2, <2>3, <2>4, <2>5, <2>6, <2>7 DEF Step
<1>2. ASSUME NEW b \in Actors, b # a, Step(b) \/ Interrupt(b)
      PROVE  call'[a] = call[a]
  BY <1>0, <1>2, CallStep
<1>3. ASSUME \A b \in Actors : ~(Step(b) \/ Interrupt(b))
      PROVE  call'[a] = call[a] \/ Started(a)
  BY <1>3, FreshCalls DEF Forgotten
<1>4. CASE Started(a)
  BY <1>4 DEF Started, Guarded, history
<1>5. CASE call[a].late
  <2>1. ~StartProcess(ProcOf[a])
    BY <1>5 DEF StartProcess, LateIsRefused
  <2>2. ~Crash(ProcOf[a])
    BY DEF Crash, NoCall
  <2>3. ProcOf[a] \in abandoned' /\ engine'[ProcOf[a]].up
    BY <1>0, <1>5, <2>1, <2>2, EngineStep DEF LateIsRefused
  <2>4. QED
    BY <1>1, <1>2, <1>3, <1>4, <1>5, <2>3 DEF LateIsRefused
<1>6. QED
  BY <1>1, <1>2, <1>3, <1>4, <1>5

\* A late call gets no intent, and without one nothing of it takes effect.
LEMMA NextLateWrites ==
  ASSUME IInv, RowsOfBegunCalls, LateIsRefused, LateWritesNeverRun, [Next]_vars
  PROVE  LateWritesNeverRun'
<1>0. /\ TypeOK /\ Control /\ EffectIsAudited
      /\ call \in [Actors -> CallState] /\ db \in Seq(Row)
      /\ \A a \in Actors : call[a].n \in Nat
  BY DEF IInv, TypeOK, CallState
<1> SUFFICES ASSUME NEW a \in Actors, call'[a].late
             PROVE  call'[a].intent = 0 /\ Id(a)' \notin effect'
  BY DEF LateWritesNeverRun
<1>1. ASSUME Id(a)' = Id(a), call[a].late
      PROVE  Id(a)' \notin effect'
  <2>1. call[a].intent = 0 /\ Id(a) \notin effect
    BY <1>1 DEF LateWritesNeverRun
  <2>2. ASSUME NEW b \in Actors, UpstreamApplies(b) PROVE Id(b) # Id(a)
    BY <1>0, <2>1, <2>2 DEF UpstreamApplies, Control, IntentWhileRunning, Id
  <2>3. QED
    BY <1>1, <2>1, <2>2, EffectStep
<1>2. CASE Step(a) \/ Interrupt(a)
  <2>1. call[a].late
    BY <1>0, <1>2, LateFromStart
  <2>2. call'[a].n = call[a].n
    BY <1>0, <1>2, CallStep
  <2>3. call'[a].intent = 0
    BY <1>0, <1>2, <2>1, Moves
       DEF LateWritesNeverRun, LateIsRefused, Control, InsertRow, At, Guarded
  <2>4. QED
    BY <1>1, <2>1, <2>2, <2>3 DEF Id
<1>3. ASSUME NEW b \in Actors, b # a, Step(b) \/ Interrupt(b)
      PROVE  call'[a] = call[a]
  BY <1>0, <1>3, CallStep
<1>4. ASSUME \A b \in Actors : ~(Step(b) \/ Interrupt(b))
      PROVE  call'[a] = call[a] \/ Started(a)
  BY <1>0, <1>4, FreshCalls DEF Forgotten
<1>5. CASE call'[a] = call[a]
  BY <1>1, <1>5 DEF LateWritesNeverRun, Id
<1>6. CASE Started(a)
  <2>1. call'[a].intent = 0 /\ effect' = effect /\ Id(a)' = <<a, call[a].n + 1>>
    BY <1>6 DEF Started, Blank, Id, history
  <2>2. ASSUME <<a, call[a].n + 1>> \in effect PROVE FALSE
    <3>1. PICK r \in AllRows : r.call = <<a, call[a].n + 1>>
      BY <1>0, <2>2 DEF EffectIsAudited
    <3>2. r.call[1] = a /\ r.call[2] = call[a].n + 1
      BY <3>1
    <3>3. QED
      BY <1>0, <3>2 DEF RowsOfBegunCalls
  <2>3. QED
    BY <2>1, <2>2
<1>7. QED
  BY <1>2, <1>3, <1>4, <1>5, <1>6
----------------------------------------------------------------------------
(* What the ledger as a whole promises.                                    *)

\* The invariant behind the refinement, the tokens and the blocked processes.
LInv == /\ IInv /\ DistinctRows /\ RowsOfBegunCalls /\ VerdictAfterBody
        /\ TokenAfterBody /\ TokenMatchesRow
        /\ BlockedWhenAbandoned /\ LateIsRefused /\ LateWritesNeverRun

LEMMA InitLInv == Init => LInv
<1> SUFFICES ASSUME Init PROVE LInv
  OBVIOUS
<1>1. IInv
  BY InitIInv
<1>2. Archived = {} /\ Elements(db) = {} /\ purged = {}
  BY DEF Init, Archived, Elements
<1>3. DistinctRows /\ RowsOfBegunCalls
  BY <1>2 DEF Init, DistinctRows, RowsOfBegunCalls, AllRows
<1>4. VerdictAfterBody
  BY DEF Init, NoCall, VerdictAfterBody, Results
<1>5. TokenAfterBody /\ TokenMatchesRow /\ BlockedWhenAbandoned
  BY DEF Init, TokenAfterBody, TokenMatchesRow, BlockedWhenAbandoned
<1>6. LateIsRefused /\ LateWritesNeverRun
  BY DEF Init, NoCall, LateIsRefused, LateWritesNeverRun
<1>7. QED
  BY <1>1, <1>3, <1>4, <1>5, <1>6 DEF LInv

LEMMA NextLInv == LInv /\ [Next]_vars => LInv'
<1> SUFFICES ASSUME LInv, [Next]_vars PROVE LInv'
  OBVIOUS
<1>1. IInv' /\ TypeOK /\ CallNumbered /\ Control
  BY NextIInv DEF LInv, IInv
<1>2. DistinctRows' /\ RowsOfBegunCalls' /\ VerdictAfterBody'
  BY <1>1, NextDistinct, NextBegun, NextVerdict DEF LInv
<1>3. TokenAfterBody' /\ TokenMatchesRow'
  BY NextTokenAfterBody, NextTokenMatches DEF LInv
<1>4. BlockedWhenAbandoned' /\ LateIsRefused' /\ LateWritesNeverRun'
  BY <1>1, NextBlocked, NextLate, NextLateWrites DEF LInv
<1>5. QED
  BY <1>1, <1>2, <1>3, <1>4 DEF LInv

LEMMA LedgerInvariance == Spec => []LInv
BY InitLInv, NextLInv, PTL DEF Spec

\* An undo token never contradicts the row of its write (decorators.py:320).
THEOREM TokenMatchesRowHolds == Spec => []TokenMatchesRow
<1>1. LInv => TokenMatchesRow
  BY DEF LInv
<1>2. QED
  BY <1>1, LedgerInvariance, PTL

\* A write that begins after its process left an intent unresolved never gets
\* an intent and never takes effect (audit.py:220).
THEOREM LateWritesNeverRunHolds == Spec => []LateWritesNeverRun
<1>1. LInv => LateWritesNeverRun
  BY DEF LInv
<1>2. QED
  BY <1>1, LedgerInvariance, PTL

\* Every step of the harness is a step of WriteAhead, or changes neither the
\* rows nor the effects.
LEMMA NextLedger ==
  ASSUME LInv, [Next]_vars
  PROVE  [Ledger!Next]_(Ledger!vars)
<1> USE DEF Ledger!Next, Ledger!vars
<1>0. /\ TypeOK /\ CallNumbered /\ Control /\ OpenIntent /\ EffectIsAudited
      /\ RowsOfBegunCalls /\ DistinctRows /\ db \in Seq(Row)
  BY DEF LInv, IInv, TypeOK
<1>1. ASSUME NEW a \in Actors, UpstreamApplies(a), effect' = effect \cup {Id(a)}
      PROVE  Ledger!Next
  <2>1. Id(a) \in CallIds
    BY <1>0, <1>1, RunningId DEF UpstreamApplies, At
  <2>2. call[a].intent # 0
    BY <1>0, <1>1 DEF UpstreamApplies, At, Control, IntentWhileRunning
  <2>3. [call |-> Id(a), status |-> "pending"] \in AllRows
    BY <1>0, <2>2 DEF OpenIntent, AllRows, Elements
  <2>4. AllRows' = AllRows
    BY <1>1 DEF UpstreamApplies, storage, AllRows, Archived
  <2>5. Ledger!TakeEffect(Id(a))
    BY <1>1, <2>3, <2>4 DEF Ledger!TakeEffect, Ledger!Intent
  <2>6. QED
    BY <2>1, <2>5
<1>2. ASSUME effect' = effect, NEW a \in Actors, InsertRow(a),
             AllRows' = AllRows \cup {[call |-> Id(a), status |-> call[a].row]}
      PROVE  Ledger!Next
  <2>1. Id(a) \in CallIds
    BY <1>0, <1>2, RunningId DEF InsertRow, At
  <2>2. ~Ledger!Recorded(Id(a)) /\ Id(a) \notin effect
    BY <1>0, <1>2, FirstRow DEF Ledger!Recorded, EffectIsAudited
  <2>3. call[a].row \in Results \cup {"budget_exceeded", "pending"}
    BY <1>0 DEF TypeOK, CallState, Verdicts
  <2>4. CASE call[a].row = "pending"
    BY <1>2, <2>1, <2>2, <2>4 DEF Ledger!Intend, Ledger!Intent
  <2>5. CASE call[a].row # "pending"
    BY <1>2, <2>1, <2>2, <2>3, <2>5 DEF Ledger!Note
  <2>6. QED
    BY <2>4, <2>5
<1>3. ASSUME effect' = effect, NEW i \in DOMAIN db, NEW v \in Verdicts, Resolved(i, v),
             AllRows' = (AllRows \ {db[i]}) \cup {[call |-> db[i].call, status |-> v]}
      PROVE  Ledger!Next
  <2>1. db[i] \in Row /\ db[i].call \in CallIds /\ db[i] \in AllRows
    <3>1. db[i] \in Row
      BY <1>0
    <3>2. QED
      BY <3>1 DEF Row, AllRows, Elements
  <2>2. db[i] = [call |-> db[i].call, status |-> "pending"]
    BY <1>3, <2>1 DEF Row, Resolved, Pending
  <2>3. v \in Results
    BY <1>3 DEF Resolved, FinishWrite, LInv, VerdictAfterBody, Results
  <2>4. Ledger!Resolve(db[i].call, v)
    <3> DEFINE c == db[i].call
    <3>1. Ledger!Intent(c) = db[i]
      BY <2>2 DEF Ledger!Intent
    <3>2. QED
      BY <1>3, <2>1, <3>1 DEF Ledger!Resolve
  <2>5. QED
    BY <2>1, <2>3, <2>4
<1>4. (\E a \in Actors : UpstreamApplies(a)) => AllRows' = AllRows
  BY DEF UpstreamApplies, storage, AllRows, Archived
<1>5. QED
  BY <1>0, <1>1, <1>2, <1>3, <1>4, LedgerStep, EffectStep

\* The harness, its database, its archives and the processes that share them
\* implement the ledger: one row per call, intended before it takes effect,
\* resolved once (decorators.py:282, audit.py:238).
THEOREM LedgerImplemented == Spec => LedgerSpec
<1>1. Init => Ledger!Init
  BY DEF Init, Ledger!Init, AllRows, Archived, Elements
<1>2. LInv /\ [Next]_vars => [Ledger!Next]_(Ledger!vars)
  BY NextLedger
<1>3. QED
  BY <1>1, <1>2, LedgerInvariance, PTL DEF Spec, LedgerSpec, Ledger!Spec
=============================================================================
