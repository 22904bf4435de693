------------------------ MODULE PatternBreakerProofs ------------------------
(***************************************************************************)
(* Proofs about PatternBreaker, for any number of threads, targets and     *)
(* edits, any pattern files and any two rate windows.                      *)
(***************************************************************************)
EXTENDS PatternBreaker, FiniteSetTheorems, SequenceTheorems, TLAPS

----------------------------------------------------------------------------
(* Types.                                                                  *)

\* Nobody arms without a pattern, and nobody has seen an edit to come.
Sane ==
  /\ mtime <= file.mtime
  /\ \A t \in Threads : /\ thread[t].pc = "arm" => thread[t].got # NoFile
                        /\ thread[t].seen <= file.mtime

TypeInv == TypeOK /\ Sane

Arms == [target : Targets, at : Nat, by : Patterns]
Trips == [target : Targets, until : Nat]

LEMMA IdleType ==
  Idle \in Thread /\ Idle.pc = "idle" /\ Idle.seen = 0 /\ Idle.armed = FALSE
BY TargetsAssumption DEF Idle, Thread, Content

LEMMA ThreadType ==
  ASSUME TypeInv, NEW t \in Threads
  PROVE  /\ thread \in [Threads -> Thread] /\ thread[t] \in Thread
         /\ thread[t].target \in Targets /\ thread[t].got \in Content
         /\ thread[t].seen \in Nat /\ thread[t].seen <= file.mtime
         /\ thread[t].pc = "arm" => thread[t].got \in Patterns
         /\ thread[t].pc \in {"idle", "stat", "read", "swap", "track", "match", "arm", "body"}
         /\ counters[thread[t].target] \in Counters
BY DEF TypeInv, TypeOK, Sane, Thread, Content

\* A step that only moves thread t keeps the invariant, if t does.
LEMMA MoveKeeps ==
  ASSUME TypeInv, NEW t \in Threads, NEW new \in Thread,
         thread' = [thread EXCEPT ![t] = new],
         new.pc = "arm" => new.got # NoFile, new.seen <= file.mtime,
         UNCHANGED <<now, file>>, patterns' \in Content, mtime' \in Nat, mtime' <= file.mtime,
         counters' \in [Targets -> Counters], arms' \in Seq(Arms),
         trips' \in Seq(Trips), overlap' \in BOOLEAN
  PROVE  TypeInv'
<1>1. /\ thread' \in [Threads -> Thread] /\ thread'[t] = new
      /\ \A u \in Threads : u # t => thread'[u] = thread[u]
  BY DEF TypeInv, TypeOK
<1>2. mtime' \in 0..MaxEdits
  BY BoundsAssumption DEF TypeInv, TypeOK
<1>3. TypeOK'
  BY <1>1, <1>2 DEF TypeInv, TypeOK, Arms, Trips
<1>4. Sane'
  BY <1>1 DEF TypeInv, Sane
<1>5. QED
  BY <1>3, <1>4 DEF TypeInv

\* The counters of a target after an arm and after an outcome.
LEMMA CounterTypes ==
  ASSUME TypeInv, NEW c \in Counters
  PROVE  /\ Kept(c.stamps) \in SUBSET Stamps
         /\ [c EXCEPT !.stamps = Kept(c.stamps)] \in Counters
         /\ \A x \in Stamps : [c EXCEPT !.stamps = Kept(c.stamps) \cup {x}] \in Counters
         /\ Succeeded(c) \in Counters /\ Failed(c) \in Counters
         /\ now + DisableFor \in Nat
<1>1. Kept(c.stamps) \in SUBSET Stamps
  BY DEF Counters, Kept, Within
<1>2. now \in Nat /\ DisableFor \in Nat
  <2>1. CASE patterns = NoFile
    BY <2>1, TimeAssumption, BoundsAssumption DEF DisableFor, TypeInv, TypeOK
  <2>2. CASE patterns # NoFile
    <3>1. patterns \in Pattern
      BY <2>2, PatternsAssumption DEF TypeInv, TypeOK, Content
    <3>2. QED
      BY <2>2, <3>1, BoundsAssumption DEF DisableFor, TypeInv, TypeOK, Pattern
  <2>3. QED
    BY <2>1, <2>2
<1>3. Succeeded(c) \in Counters
  BY DEF Succeeded, Counters
<1>4. Failed(c) \in Counters
  <2> DEFINE until == IF c.failures + 1 >= Threshold THEN now + DisableFor ELSE c.until
  <2>1. c.failures + 1 \in Nat /\ until \in Nat
    BY <1>2 DEF Counters
  <2>2. Failed(c) = [c EXCEPT !.failures = c.failures + 1, !.until = until]
    BY DEF Failed
  <2> HIDE DEF until
  <2>3. QED
    BY <2>1, <2>2 DEF Counters
<1>5. /\ [c EXCEPT !.stamps = Kept(c.stamps)] \in Counters
      /\ \A x \in Stamps : [c EXCEPT !.stamps = Kept(c.stamps) \cup {x}] \in Counters
  <2> DEFINE kept == Kept(c.stamps)
  <2>1. kept \in SUBSET Stamps
    BY <1>1
  <2> HIDE DEF kept
  <2>2. ASSUME NEW y \in SUBSET Stamps PROVE [c EXCEPT !.stamps = y] \in Counters
    BY DEF Counters
  <2>3. QED
    BY <2>1, <2>2 DEF kept
<1>6. QED
  BY <1>1, <1>2, <1>3, <1>4, <1>5

\* The three outcomes of a match that reaches the lock.
Disabled(t) == now < counters[thread[t].target].until /\ UNCHANGED <<counters, arms>>
Refused(t, g, kept) ==
  /\ now >= counters[g].until
  /\ counters' = [counters EXCEPT ![g].stamps = kept] /\ arms' = arms
Armed(t, g, kept) ==
  /\ now >= counters[g].until /\ ~Capped(thread[t].got, kept)
  /\ counters' = [counters EXCEPT ![g].stamps = kept \cup {[at |-> now, nr |-> Len(arms) + 1]}]
  /\ arms' = Append(arms, [target |-> g, at |-> now, by |-> thread[t].got])

LEMMA ArmCases ==
  ASSUME NEW t \in Threads, Arm(t), NEW g, g = thread[t].target,
         NEW kept, kept = Kept(counters[g].stamps)
  PROVE  /\ thread[t].pc = "arm" /\ UNCHANGED <<now, file, patterns, mtime, trips, overlap>>
         /\ \/ Disabled(t) /\ thread' = [thread EXCEPT ![t].pc = "body"]
            \/ Refused(t, g, kept) /\ thread' = [thread EXCEPT ![t].pc = "body"]
            \/ /\ Armed(t, g, kept)
               /\ thread' = [thread EXCEPT ![t].pc = "body", ![t].armed = TRUE]
BY DEF Arm, Disabled, Refused, Armed, At, Goto

LEMMA ArmType ==
  ASSUME TypeInv, NEW t \in Threads, Arm(t)
  PROVE  TypeInv'
<1> DEFINE g == thread[t].target
           kept == Kept(counters[g].stamps)
           armed == [thread[t] EXCEPT !.pc = "body", !.armed = TRUE]
           plain == [thread[t] EXCEPT !.pc = "body"]
           stamp == [at |-> now, nr |-> Len(arms) + 1]
           entry == [target |-> g, at |-> now, by |-> thread[t].got]
<1>0. /\ thread \in [Threads -> Thread] /\ thread[t] \in Thread /\ g \in Targets
      /\ counters \in [Targets -> Counters] /\ counters[g] \in Counters
      /\ arms \in Seq(Arms) /\ trips \in Seq(Trips) /\ overlap \in BOOLEAN
      /\ patterns \in Content /\ mtime \in Nat /\ mtime <= file.mtime /\ now \in Nat
      /\ thread[t].seen <= file.mtime
  BY ThreadType, BoundsAssumption DEF TypeInv, TypeOK, Sane, Arms, Trips
<1>1. /\ thread[t].pc = "arm" /\ UNCHANGED <<now, file, patterns, mtime, trips, overlap>>
      /\ \/ Disabled(t) /\ thread' = [thread EXCEPT ![t].pc = "body"]
         \/ Refused(t, g, kept) /\ thread' = [thread EXCEPT ![t].pc = "body"]
         \/ /\ Armed(t, g, kept)
            /\ thread' = [thread EXCEPT ![t].pc = "body", ![t].armed = TRUE]
  BY ArmCases
<1>2. /\ armed \in Thread /\ armed.pc = "body" /\ armed.seen = thread[t].seen
      /\ plain \in Thread /\ plain.pc = "body" /\ plain.seen = thread[t].seen
  BY <1>0 DEF Thread
<1>3. thread' = [thread EXCEPT ![t] = plain] \/ thread' = [thread EXCEPT ![t] = armed]
  BY <1>0, <1>1
<1>4. stamp \in Stamps /\ entry \in Arms
  BY <1>0, <1>1, ThreadType DEF Stamps, Arms
<1>5. /\ [counters[g] EXCEPT !.stamps = kept] \in Counters
      /\ [counters[g] EXCEPT !.stamps = kept \cup {stamp}] \in Counters
  BY <1>0, <1>4, CounterTypes
<1>6. counters' \in [Targets -> Counters] /\ arms' \in Seq(Arms)
  <2>1. CASE Disabled(t)
    BY <1>0, <2>1 DEF Disabled
  <2>2. CASE Refused(t, g, kept)
    <3>1. counters' = [counters EXCEPT ![g] = [counters[g] EXCEPT !.stamps = kept]]
          /\ arms' = arms
      BY <1>0, <2>2 DEF Refused
    <3> HIDE DEF kept, g
    <3>2. QED
      BY <1>0, <1>5, <3>1
  <2>3. CASE Armed(t, g, kept)
    <3>1. /\ counters' = [counters EXCEPT
                            ![g] = [counters[g] EXCEPT !.stamps = kept \cup {stamp}]]
          /\ arms' = Append(arms, entry)
      BY <1>0, <2>3 DEF Armed
    <3> HIDE DEF kept, g, stamp, entry
    <3>2. QED
      BY <1>0, <1>4, <1>5, <3>1
  <2>4. QED
    BY <1>1, <2>1, <2>2, <2>3
<1> HIDE DEF armed, plain
<1>7. QED
  BY <1>0, <1>1, <1>2, <1>3, <1>6, MoveKeeps

LEMMA ReturnType ==
  ASSUME TypeInv, NEW t \in Threads, NEW ok \in BOOLEAN, Return(t, ok)
  PROVE  TypeInv'
<1> DEFINE g == thread[t].target
           trip == [target |-> g, until |-> now + DisableFor]
<1>0. /\ g \in Targets /\ counters \in [Targets -> Counters] /\ counters[g] \in Counters
      /\ arms \in Seq(Arms) /\ trips \in Seq(Trips) /\ overlap \in BOOLEAN
      /\ patterns \in Content /\ mtime \in Nat /\ mtime <= file.mtime
      /\ 0 <= file.mtime
  BY ThreadType, BoundsAssumption DEF TypeInv, TypeOK, Sane, Arms, Trips
<1>1. /\ Succeeded(counters[g]) \in Counters /\ Failed(counters[g]) \in Counters
      /\ trip \in Trips
  BY <1>0, CounterTypes DEF Trips
<1>2. /\ thread' = [thread EXCEPT ![t] = Idle]
      /\ UNCHANGED <<now, file, patterns, mtime, arms, overlap>>
      /\ \/ counters' = counters
         \/ counters' = [counters EXCEPT ![g] = Succeeded(counters[g])]
         \/ counters' = [counters EXCEPT ![g] = Failed(counters[g])]
      /\ trips' = trips \/ trips' = Append(trips, trip)
  BY DEF Return
<1> HIDE DEF trip, g
<1>3. counters' \in [Targets -> Counters] /\ trips' \in Seq(Trips)
  BY <1>0, <1>1, <1>2
<1>4. QED
  BY <1>0, <1>2, <1>3, IdleType, MoveKeeps

LEMMA StepType ==
  ASSUME TypeInv, NEW t \in Threads,
         \/ \E g \in Targets : Call(t, g)
         \/ Stat(t) \/ ReadFile(t) \/ SwapPatterns(t) \/ TrackMtime(t) \/ Select(t)
  PROVE  TypeInv'
<1> USE DEF At, Goto
<1>0. /\ thread \in [Threads -> Thread] /\ thread[t] \in Thread
      /\ counters \in [Targets -> Counters]
      /\ arms \in Seq(Arms) /\ trips \in Seq(Trips) /\ overlap \in BOOLEAN
      /\ patterns \in Content /\ mtime \in Nat /\ mtime <= file.mtime
      /\ file.mtime \in Nat /\ 0 <= file.mtime
      /\ file.content \in Content /\ NoFile \in Content
      /\ thread[t].seen \in Nat /\ thread[t].seen <= file.mtime /\ thread[t].got \in Content
  BY ThreadType, BoundsAssumption DEF TypeInv, TypeOK, Sane, Arms, Trips, Content
<1>1. ASSUME NEW g \in Targets, Call(t, g)
      PROVE  TypeInv'
  <2> DEFINE new == [Idle EXCEPT !.pc = "stat", !.target = g]
  <2>1. new \in Thread /\ new.pc = "stat" /\ new.seen = 0
    BY IdleType DEF Thread
  <2>2. /\ thread' = [thread EXCEPT ![t] = new]
        /\ UNCHANGED <<now, file, patterns, mtime, counters, arms, trips, overlap>>
    BY <1>1 DEF Call
  <2> HIDE DEF new
  <2>3. new.seen <= file.mtime /\ (new.pc = "arm" => new.got # NoFile)
    BY <1>0, <2>1
  <2>4. QED
    BY <1>0, <2>1, <2>2, <2>3, MoveKeeps
<1>2. CASE Stat(t)
  <2>1. \E new \in Thread :
          /\ thread' = [thread EXCEPT ![t] = new]
          /\ new.pc \in {"match", "read"} /\ new.seen <= file.mtime
    <3>1. CASE thread' = [thread EXCEPT ![t].pc = "match"]
      <4>1. [thread[t] EXCEPT !.pc = "match"] \in Thread
        BY <1>0 DEF Thread
      <4>2. QED
        BY <1>0, <3>1, <4>1 DEF Thread
    <3>2. CASE thread' = [thread EXCEPT ![t].pc = "read", ![t].seen = file.mtime,
                                        ![t].got = file.content]
      <4> DEFINE new == [thread[t] EXCEPT !.pc = "read", !.seen = file.mtime,
                                          !.got = file.content]
      <4>1. new \in Thread /\ new.pc = "read" /\ new.seen = file.mtime
        BY <1>0 DEF Thread
      <4>2. thread' = [thread EXCEPT ![t] = new]
        BY <3>2
      <4> HIDE DEF new
      <4>3. new.seen <= file.mtime
        BY <1>0, <4>1
      <4>4. QED
        BY <4>1, <4>2, <4>3
    <3>3. \/ thread' = [thread EXCEPT ![t].pc = "match"]
          \/ thread' = [thread EXCEPT ![t].pc = "read", ![t].seen = file.mtime,
                                      ![t].got = file.content]
      BY <1>2 DEF Stat
    <3>4. QED
      BY <3>1, <3>2, <3>3
  <2>2. /\ overlap' \in BOOLEAN
        /\ UNCHANGED <<now, file, patterns, mtime, counters, arms, trips>>
    BY <1>0, <1>2 DEF Stat
  <2>3. QED
    BY <1>0, <2>1, <2>2, MoveKeeps
<1>3. CASE ReadFile(t)
  <2> DEFINE read == IF thread[t].got = NoFile THEN NoFile ELSE file.content
             new == [thread[t] EXCEPT !.pc = "swap", !.got = read]
  <2>1. read \in Content
    BY <1>0
  <2>2. /\ thread' = [thread EXCEPT ![t] = new]
        /\ UNCHANGED <<now, file, patterns, mtime, counters, arms, trips, overlap>>
    BY <1>0, <1>3 DEF ReadFile
  <2> HIDE DEF read
  <2>3. new \in Thread /\ new.pc = "swap" /\ new.seen = thread[t].seen
    BY <1>0, <2>1 DEF Thread
  <2> HIDE DEF new
  <2>4. QED
    BY <1>0, <2>2, <2>3, MoveKeeps
<1>4. CASE SwapPatterns(t) \/ TrackMtime(t)
  <2>1. /\ [thread[t] EXCEPT !.pc = "track"] \in Thread
        /\ [thread[t] EXCEPT !.pc = "match"] \in Thread
    BY <1>0 DEF Thread
  <2>2. \E new \in Thread :
          /\ thread' = [thread EXCEPT ![t] = new]
          /\ new.pc \in {"track", "match"} /\ new.seen <= file.mtime
    BY <1>0, <1>4, <2>1 DEF SwapPatterns, TrackMtime, Thread
  <2>3. /\ patterns' \in Content /\ mtime' \in Nat /\ mtime' <= file.mtime
        /\ UNCHANGED <<now, file, counters, arms, trips, overlap>>
    BY <1>0, <1>4 DEF SwapPatterns, TrackMtime, Seen
  <2>4. QED
    BY <1>0, <2>2, <2>3, MoveKeeps
<1>5. CASE Select(t)
  <2> DEFINE to == IF patterns # NoFile THEN IF patterns.armable THEN "arm" ELSE "body"
                   ELSE "body"
             new == [thread[t] EXCEPT !.got = patterns, !.pc = to]
  <2>1. to \in {"arm", "body"} /\ (to = "arm" => patterns # NoFile)
    OBVIOUS
  <2>2. /\ thread' = [thread EXCEPT ![t] = new]
        /\ UNCHANGED <<now, file, patterns, mtime, counters, arms, trips, overlap>>
    BY <1>0, <1>5 DEF Select
  <2> HIDE DEF to
  <2>3. /\ new \in Thread /\ new.pc = to /\ new.seen = thread[t].seen
        /\ new.got = patterns
    BY <1>0, <2>1 DEF Thread
  <2> HIDE DEF new
  <2>4. QED
    BY <1>0, <2>1, <2>2, <2>3, MoveKeeps
<1>6. QED
  BY <1>1, <1>2, <1>3, <1>4, <1>5

LEMMA NextType == TypeInv /\ [Next]_vars => TypeInv'
<1> SUFFICES ASSUME TypeInv, [Next]_vars PROVE TypeInv'
  OBVIOUS
<1>1. ASSUME NEW content \in Content, Edit(content)
      PROVE  TypeInv'
  BY <1>1, BoundsAssumption DEF Edit, TypeInv, TypeOK, Sane, Thread
<1>2. CASE Tick
  BY <1>2, BoundsAssumption DEF Tick, TypeInv, TypeOK, Sane
<1>3. CASE UNCHANGED vars
  BY <1>3 DEF vars, TypeInv, TypeOK, Sane
<1>4. QED
  BY <1>1, <1>2, <1>3, StepType, ArmType, ReturnType DEF Next

LEMMA InitType == Init => TypeInv
<1> SUFFICES ASSUME Init PROVE TypeInv
  OBVIOUS
<1>1. Fresh \in Counters
  BY DEF Fresh, Counters
<1>2. First \in Content
  BY PatternsAssumption DEF Content
<1>3. TypeOK
  <2>1. /\ now \in 0..MaxTime /\ mtime \in 0..MaxEdits
        /\ file \in [content : Content, mtime : 0..MaxEdits]
    BY <1>2, BoundsAssumption DEF Init
  <2>2. counters \in [Targets -> Counters] /\ thread \in [Threads -> Thread]
    BY <1>1, IdleType DEF Init
  <2>3. /\ arms \in Seq([target : Targets, at : Nat, by : Patterns])
        /\ trips \in Seq([target : Targets, until : Nat])
    BY DEF Init
  <2>4. QED
    BY <1>2, <2>1, <2>2, <2>3 DEF Init, TypeOK
<1>4. Sane
  BY IdleType DEF Init, Sane
<1>5. QED
  BY <1>3, <1>4 DEF TypeInv

\* Every variable keeps its type: a disable ends at a time, and no call arms
\* without a pattern (patterns.py:258).
THEOREM TypeCorrect == Spec => []TypeOK
<1>1. Spec => []TypeInv
  BY InitType, NextType, PTL DEF Spec
<1>2. TypeInv => TypeOK
  BY DEF TypeInv
<1>3. QED
  BY <1>1, <1>2, PTL
----------------------------------------------------------------------------
(* The file that is served.                                                *)

InReload(t) == thread[t].pc \in {"read", "swap", "track"}

\* Unless two threads reloaded at once, a reload is alone, and what it carries
\* is the content of the file it has the mtime of, up to the last of its steps.
ServeInv ==
  ~overlap =>
    /\ \A t, u \in Threads : InReload(t) /\ InReload(u) => t = u
    /\ \A t \in Threads : thread[t].seen = file.mtime =>
         /\ thread[t].pc \in {"read", "swap"} => thread[t].got = file.content
         /\ thread[t].pc = "track" => patterns = file.content
    /\ ServesTheFile

\* Steps of a thread that is not in a reload, before or after.
LEMMA OutsideServes ==
  ASSUME TypeInv, ServeInv, NEW t \in Threads, ~InReload(t), ~InReload(t)',
         \A u \in Threads : u # t => thread'[u] = thread[u],
         UNCHANGED <<file, patterns, mtime, overlap>>
  PROVE  ServeInv'
<1> SUFFICES ASSUME ~overlap PROVE ServeInv'
  BY DEF ServeInv
<1>1. Reloading' <=> Reloading
  BY DEF Reloading, InReload
<1>2. ServesTheFile'
  BY <1>1 DEF ServeInv, ServesTheFile
<1>3. \A u \in Threads : InReload(u)' => u # t /\ InReload(u) /\ thread'[u] = thread[u]
  BY DEF InReload
<1>4. QED
  BY <1>2, <1>3 DEF ServeInv, InReload

\* Steps within a reload: it is the only one, and stays one.
LEMMA InsideServes ==
  ASSUME TypeInv, ServeInv, NEW t \in Threads, InReload(t)', ~overlap,
         \A u \in Threads : u # t => thread'[u] = thread[u] /\ ~InReload(u),
         thread'[t].seen = file'.mtime =>
           /\ thread'[t].pc \in {"read", "swap"} => thread'[t].got = file'.content
           /\ thread'[t].pc = "track" => patterns' = file'.content
  PROVE  ServeInv'
<1>1. Reloading'
  BY DEF Reloading, InReload
<1>2. \A u \in Threads : InReload(u)' => u = t
  BY DEF InReload
<1>3. QED
  BY <1>1, <1>2 DEF ServeInv, ServesTheFile, InReload

LEMMA NextServes == TypeInv /\ ServeInv /\ [Next]_vars => ServeInv'
<1> SUFFICES ASSUME TypeInv, ServeInv, [Next]_vars PROVE ServeInv'
  OBVIOUS
<1> USE DEF At, Goto
<1>0. /\ thread \in [Threads -> Thread] /\ \A t \in Threads : thread[t] \in Thread
      /\ mtime \in Nat /\ file.mtime \in Nat /\ mtime <= file.mtime
      /\ \A t \in Threads : thread[t].seen \in Nat /\ thread[t].seen <= file.mtime
  BY ThreadType, BoundsAssumption DEF TypeInv, TypeOK, Sane
<1>1. ASSUME NEW t \in Threads, \/ \E g \in Targets : Call(t, g)
                                \/ Select(t) \/ Arm(t) \/ \E ok \in BOOLEAN : Return(t, ok)
      PROVE  ServeInv'
  <2>1. /\ ~InReload(t) /\ \A u \in Threads : u # t => thread'[u] = thread[u]
        /\ UNCHANGED <<file, patterns, mtime, overlap>>
    BY <1>0, <1>1 DEF Call, Select, Arm, Return, InReload
  <2>2. thread'[t].pc \in {"stat", "arm", "body", "idle"}
    <3>1. DOMAIN thread[t] = {"pc", "target", "seen", "got", "armed"}
          /\ DOMAIN Idle = {"pc", "target", "seen", "got", "armed"}
      BY <1>0, IdleType DEF Thread
    <3>2. CASE \E g \in Targets : Call(t, g)
      BY <1>0, <3>1, <3>2 DEF Call
    <3>3. CASE Select(t)
      BY <1>0, <3>1, <3>3 DEF Select
    <3>4. CASE Arm(t)
      BY <1>0, <3>1, <3>4 DEF Arm
    <3>5. CASE \E ok \in BOOLEAN : Return(t, ok)
      BY <1>0, <3>5, IdleType DEF Return
    <3>6. QED
      BY <1>1, <3>2, <3>3, <3>4, <3>5
  <2>3. ~InReload(t)'
    BY <2>2 DEF InReload
  <2>4. QED
    BY <2>1, <2>3, OutsideServes
<1>2. ASSUME NEW t \in Threads, Stat(t)
      PROVE  ServeInv'
  <2>1. UNCHANGED <<file, patterns, mtime>> /\ ~InReload(t)
        /\ \A u \in Threads : u # t => thread'[u] = thread[u]
    BY <1>0, <1>2 DEF Stat, InReload
  <2>2. CASE Goto(t, "match") /\ UNCHANGED overlap
    <3>1. thread'[t].pc = "match"
      BY <1>0, <2>2 DEF Thread
    <3>2. ~InReload(t)'
      BY <3>1 DEF InReload
    <3>3. QED
      BY <2>1, <2>2, <3>2, OutsideServes
  <2>3. CASE /\ thread' = [thread EXCEPT ![t].pc = "read", ![t].seen = file.mtime,
                                        ![t].got = file.content]
             /\ overlap' = (overlap \/ Reloading)
    <3>1. thread'[t].pc = "read" /\ thread'[t].got = file.content
      BY <1>0, <2>3 DEF Thread
    <3>2. CASE overlap'
      BY <3>2 DEF ServeInv
    <3>3. CASE ~overlap'
      <4>1. ~overlap /\ \A u \in Threads : ~InReload(u)
        BY <2>3, <3>3 DEF Reloading, InReload
      <4>2. QED
        BY <2>1, <3>1, <4>1, InsideServes DEF InReload
    <3>4. QED
      BY <3>2, <3>3
  <2>4. QED
    BY <1>2, <2>2, <2>3 DEF Stat
<1>3. ASSUME NEW t \in Threads, ReadFile(t) \/ SwapPatterns(t) \/ TrackMtime(t)
      PROVE  ServeInv'
  <2>1. /\ UNCHANGED <<file, overlap>> /\ InReload(t)
        /\ \A u \in Threads : u # t => thread'[u] = thread[u]
        /\ DOMAIN thread[t] = {"pc", "target", "seen", "got", "armed"}
    BY <1>0, <1>3 DEF ReadFile, SwapPatterns, TrackMtime, InReload, Thread
  <2>2. CASE overlap
    BY <2>1, <2>2 DEF ServeInv
  <2>3. CASE ~overlap
    <3>0. \A u \in Threads : u # t => ~InReload(u)
      BY <2>1, <2>3 DEF ServeInv
    <3>1. CASE ReadFile(t)
      <4>1. /\ thread'[t].pc = "swap" /\ thread'[t].seen = thread[t].seen
            /\ thread'[t].got = IF thread[t].got = NoFile THEN NoFile ELSE file.content
            /\ thread[t].pc = "read"
        BY <1>0, <2>1, <3>1 DEF ReadFile
      <4>2. thread[t].seen = file.mtime => thread[t].got = file.content
        BY <2>3, <4>1 DEF ServeInv
      <4>3. QED
        BY <2>1, <2>3, <3>0, <4>1, <4>2, InsideServes DEF InReload
    <3>2. CASE SwapPatterns(t)
      <4>1. /\ thread'[t].pc = "track" /\ thread'[t].seen = thread[t].seen
            /\ patterns' = thread[t].got /\ thread[t].pc = "swap"
        BY <1>0, <2>1, <3>2 DEF SwapPatterns
      <4>2. thread[t].seen = file.mtime => thread[t].got = file.content
        BY <2>3, <4>1 DEF ServeInv
      <4>3. QED
        BY <2>1, <2>3, <3>0, <4>1, <4>2, InsideServes DEF InReload
    <3>3. CASE TrackMtime(t)
      <4>1. /\ thread'[t].pc = "match" /\ mtime' = thread[t].seen
            /\ thread[t].pc = "track" /\ UNCHANGED patterns
        BY <1>0, <2>1, <3>3 DEF TrackMtime, Seen
      <4>2. thread[t].seen = file.mtime => patterns = file.content
        BY <2>3, <4>1 DEF ServeInv
      <4>3. \A u \in Threads : ~InReload(u)'
        BY <2>1, <3>0, <4>1 DEF InReload
      <4>4. QED
        BY <2>1, <4>1, <4>2, <4>3 DEF ServeInv, ServesTheFile, InReload
    <3>4. QED
      BY <1>3, <3>1, <3>2, <3>3
  <2>4. QED
    BY <2>2, <2>3
<1>4. ASSUME NEW content \in Content, Edit(content)
      PROVE  ServeInv'
  <2>1. file'.mtime = file.mtime + 1 /\ UNCHANGED <<patterns, mtime, thread, overlap>>
    BY <1>4 DEF Edit
  <2>2. mtime # file'.mtime /\ \A t \in Threads : thread[t].seen # file'.mtime
    BY <1>0, <2>1
  <2>3. QED
    BY <2>1, <2>2 DEF ServeInv, ServesTheFile, InReload
<1>5. CASE Tick \/ UNCHANGED vars
  <2>1. UNCHANGED <<file, patterns, mtime, thread, overlap>>
    BY <1>5 DEF Tick, vars
  <2>2. QED
    BY <2>1 DEF ServeInv, ServesTheFile, InReload, Reloading
<1>6. QED
  BY <1>1, <1>2, <1>3, <1>4, <1>5 DEF Next

\* No edit or removal in the middle of a reload leaves an old pattern with a new
\* mtime: only two reloads at once can, for any number of threads and edits
\* (patterns.py:156).
THEOREM ServesTheFileHolds == Spec => []ServesTheFileUnlessOverlapping
<1>1. Init => ServeInv
  BY IdleType DEF Init, ServeInv, ServesTheFile, InReload
<1>2. ServeInv => ServesTheFileUnlessOverlapping
  BY DEF ServeInv, ServesTheFileUnlessOverlapping
<1>3. QED
  BY <1>1, <1>2, InitType, NextType, NextServes, PTL DEF Spec
----------------------------------------------------------------------------
(* Trips.                                                                  *)

\* A target is disabled until the deadline of its last trip, at least.
TripInv ==
  \A i \in DOMAIN trips :
    LET g == trips[i].target IN
    trips[i].until > counters[g].until =>
      \E j \in DOMAIN trips : j > i /\ trips[j].target = g /\ trips[j].until <= counters[g].until

LEMMA TripsType ==
  ASSUME TypeInv
  PROVE  /\ trips \in Seq(Trips) /\ DOMAIN trips = 1..Len(trips) /\ Len(trips) \in Nat
         /\ \A i \in DOMAIN trips : trips[i].target \in Targets /\ trips[i].until \in Nat
<1>1. trips \in Seq(Trips)
  BY DEF TypeInv, TypeOK, Trips
<1>2. DOMAIN trips = 1..Len(trips) /\ Len(trips) \in Nat
  BY <1>1
<1>3. \A i \in DOMAIN trips : trips[i] \in Trips
  BY <1>1, <1>2
<1>4. QED
  BY <1>1, <1>2, <1>3 DEF Trips

LEMMA NextTrips == TypeInv /\ TripInv /\ [Next]_vars => TripInv'
<1> SUFFICES ASSUME TypeInv, TripInv, [Next]_vars PROVE TripInv'
  OBVIOUS
<1>0. /\ counters \in [Targets -> Counters] /\ trips \in Seq(Trips)
      /\ \A g \in Targets : counters[g] \in Counters
      /\ DOMAIN trips = 1..Len(trips) /\ Len(trips) \in Nat
      /\ \A i \in DOMAIN trips : trips[i].target \in Targets /\ trips[i].until \in Nat
  BY TripsType DEF TypeInv, TypeOK
<1>1. ASSUME UNCHANGED trips, \A g \in Targets : counters'[g].until = counters[g].until
      PROVE  TripInv'
  BY <1>0, <1>1 DEF TripInv
<1>2. ASSUME NEW t \in Threads, NEW ok \in BOOLEAN, Return(t, ok)
      PROVE  TripInv'
  <2> DEFINE g == thread[t].target
             c == counters[g]
             until == now + DisableFor
             trip == [target |-> g, until |-> until]
  <2>1. g \in Targets /\ c \in Counters /\ until \in Nat
    BY <1>0, ThreadType, CounterTypes
  <2>2. \/ UNCHANGED trips /\ counters' = counters
        \/ UNCHANGED trips /\ counters' = [counters EXCEPT ![g] = Succeeded(c)]
        \/ /\ UNCHANGED trips /\ counters' = [counters EXCEPT ![g] = Failed(c)]
           /\ ~(c.failures + 1 >= Threshold)
        \/ /\ trips' = Append(trips, trip) /\ counters' = [counters EXCEPT ![g] = Failed(c)]
           /\ c.failures + 1 >= Threshold
    BY <1>2 DEF Return
  <2>3. /\ Succeeded(c).until = c.until
        /\ ~(c.failures + 1 >= Threshold) => Failed(c).until = c.until
        /\ c.failures + 1 >= Threshold => Failed(c).until = until
    BY <2>1 DEF Succeeded, Failed, Counters
  <2> HIDE DEF until, trip, c, g
  <2>4. CASE /\ trips' = Append(trips, trip) /\ counters' = [counters EXCEPT ![g] = Failed(c)]
             /\ c.failures + 1 >= Threshold
    <3>1. /\ counters'[g].until = until
          /\ \A h \in Targets : h # g => counters'[h] = counters[h]
      BY <1>0, <2>1, <2>3, <2>4
    <3>2. trip.target = g /\ trip.until = until
      BY DEF trip
    <3> DEFINE n == Len(trips) + 1
    <3>3. /\ DOMAIN trips' = 1..n /\ trips'[n] = trip /\ n \in Nat
          /\ \A i \in 1..Len(trips) : trips'[i] = trips[i]
      BY <1>0, <2>4
    <3>4. ASSUME NEW i \in DOMAIN trips', trips'[i].until > counters'[trips'[i].target].until
          PROVE  \E j \in DOMAIN trips' : /\ j > i /\ trips'[j].target = trips'[i].target
                                          /\ trips'[j].until
                                               <= counters'[trips'[i].target].until
      <4>1. CASE i = n
        BY <2>1, <3>1, <3>2, <3>3, <3>4, <4>1
      <4>2. CASE i \in 1..Len(trips) /\ trips[i].target = g
        <5>1. n \in DOMAIN trips' /\ n > i
          BY <1>0, <3>3, <4>2
        <5>2. trips'[n].target = trips'[i].target
          BY <3>2, <3>3, <4>2
        <5>3. trips'[n].until <= counters'[trips'[i].target].until
          BY <2>1, <3>1, <3>2, <3>3, <4>2
        <5>4. QED
          BY <5>1, <5>2, <5>3
      <4>3. CASE i \in 1..Len(trips) /\ trips[i].target # g
        <5>1. trips'[i] = trips[i] /\ counters'[trips[i].target] = counters[trips[i].target]
          BY <1>0, <3>1, <3>3, <4>3
        <5>2. PICK j \in DOMAIN trips :
                /\ j > i /\ trips[j].target = trips[i].target
                /\ trips[j].until <= counters[trips[i].target].until
          BY <1>0, <3>4, <4>3, <5>1 DEF TripInv
        <5>3. j \in DOMAIN trips' /\ trips'[j] = trips[j]
          BY <1>0, <3>3
        <5>4. QED
          BY <5>1, <5>2, <5>3
      <4>4. QED
        BY <1>0, <3>3, <4>1, <4>2, <4>3
    <3>5. QED
      BY <3>4 DEF TripInv
  <2>5. CASE UNCHANGED trips /\ counters' = counters
    BY <1>1, <2>5
  <2>6. CASE UNCHANGED trips /\ counters' = [counters EXCEPT ![g] = Succeeded(c)]
    <3>1. \A h \in Targets : counters'[h].until = counters[h].until
      BY <1>0, <2>1, <2>3, <2>6 DEF c
    <3>2. QED
      BY <1>1, <2>6, <3>1
  <2>7. CASE /\ UNCHANGED trips /\ counters' = [counters EXCEPT ![g] = Failed(c)]
             /\ ~(c.failures + 1 >= Threshold)
    <3>1. \A h \in Targets : counters'[h].until = counters[h].until
      BY <1>0, <2>1, <2>3, <2>7 DEF c
    <3>2. QED
      BY <1>1, <2>7, <3>1
  <2>8. QED
    BY <2>2, <2>4, <2>5, <2>6, <2>7
<1>3. ASSUME NEW t \in Threads, Arm(t)
      PROVE  TripInv'
  <2> DEFINE g == thread[t].target
             kept == Kept(counters[g].stamps)
  <2>0. /\ UNCHANGED trips
        /\ Disabled(t) \/ Refused(t, g, kept) \/ Armed(t, g, kept)
    BY <1>3, ArmCases
  <2>1. /\ g \in Targets /\ UNCHANGED trips
        /\ \/ counters' = counters
           \/ \E s : counters' = [counters EXCEPT ![g].stamps = s]
    BY <2>0, ThreadType DEF Disabled, Refused, Armed
  <2> HIDE DEF g
  <2>2. \A h \in Targets : counters'[h].until = counters[h].until
    <3>1. ASSUME NEW s, counters' = [counters EXCEPT ![g].stamps = s]
          PROVE  \A h \in Targets : counters'[h].until = counters[h].until
      <4>1. DOMAIN counters[g] = {"stamps", "failures", "until"}
        BY <1>0, <2>1 DEF Counters
      <4>2. counters'[g].until = counters[g].until
        BY <1>0, <2>1, <3>1, <4>1
      <4>3. \A h \in Targets : h # g => counters'[h] = counters[h]
        BY <1>0, <3>1
      <4>4. QED
        BY <4>2, <4>3
    <3>2. QED
      BY <2>1, <3>1
  <2>3. QED
    BY <1>1, <2>1, <2>2
<1>4. CASE UNCHANGED <<counters, trips>>
  BY <1>1, <1>4
<1>5. QED
  BY <1>2, <1>3, <1>4 DEF Next, Call, Stat, ReadFile, SwapPatterns, TrackMtime, Select, Edit,
                          Tick, vars

\* Whatever the calls in flight report, nothing arms on a target before the
\* deadline of its last trip (patterns.py:334).
THEOREM TripDisablesHolds == Spec => TripDisables
<1> DEFINE Quiet ==
      Len(arms') > Len(arms) =>
        LET g == arms'[Len(arms')].target IN
        \A i \in DOMAIN trips : trips[i].target = g /\ trips[i].until > now =>
          \E j \in DOMAIN trips : j > i /\ trips[j].target = g /\ trips[j].until <= now
<1>1. Init => TripInv
  BY DEF Init, TripInv
<1>2. ASSUME TypeInv, TripInv, [Next]_vars
      PROVE  Quiet
  <2>1. ASSUME NEW t \in Threads, Arm(t), Len(arms') > Len(arms)
        PROVE  Quiet
    <3> DEFINE g == thread[t].target
               kept == Kept(counters[g].stamps)
    <3>1. g \in Targets /\ arms \in Seq(Arms) /\ Len(arms) \in Nat
          /\ counters[g].until \in Nat /\ now \in Nat
      BY <1>2, ThreadType, BoundsAssumption DEF TypeInv, TypeOK, Counters, Arms
    <3>2. Armed(t, g, kept)
      <4>1. Disabled(t) \/ Refused(t, g, kept) \/ Armed(t, g, kept)
        BY <2>1, ArmCases
      <4> HIDE DEF g, kept
      <4>2. ~Disabled(t) /\ ~Refused(t, g, kept)
        BY <2>1, <3>1 DEF Disabled, Refused
      <4>3. QED
        BY <4>1, <4>2
    <3>3. /\ now >= counters[g].until
          /\ arms' = Append(arms, [target |-> g, at |-> now, by |-> thread[t].got])
      BY <3>2 DEF Armed
    <3>4. arms'[Len(arms')].target = g
      BY <3>1, <3>3
    <3> HIDE DEF g
    <3>5. ASSUME NEW i \in DOMAIN trips, trips[i].target = g, trips[i].until > now
          PROVE  \E j \in DOMAIN trips : j > i /\ trips[j].target = g /\ trips[j].until <= now
      <4>1. \A j \in DOMAIN trips : trips[j].until \in Nat
        BY <1>2, TripsType
      <4>2. trips[i].until > counters[g].until
        BY <3>1, <3>3, <3>5, <4>1
      <4>3. PICK j \in DOMAIN trips : /\ j > i /\ trips[j].target = g
                                      /\ trips[j].until <= counters[g].until
        BY <1>2, <3>5, <4>2 DEF TripInv
      <4>4. trips[j].until <= now
        BY <3>1, <3>3, <4>1, <4>3
      <4>5. QED
        BY <4>3, <4>4
    <3>6. QED
      BY <3>4, <3>5
  <2>2. CASE UNCHANGED arms
    <3>1. ~(Len(arms') > Len(arms))
      BY <1>2, <2>2 DEF TypeInv, TypeOK
    <3>2. QED
      BY <3>1
  <2>3. QED
    BY <1>2, <2>1, <2>2 DEF Next, Call, Stat, ReadFile, SwapPatterns, TrackMtime, Select,
                           Return, Edit, Tick, vars
<1>3. Quiet => [Quiet]_vars
  OBVIOUS
<1>4. TypeInv /\ TripInv /\ [Next]_vars => [Quiet]_vars
  BY <1>2, <1>3
<1> HIDE DEF Quiet
<1>5. Spec => [][Quiet]_vars
  BY <1>1, <1>4, InitType, NextType, NextTrips, PTL DEF Spec
<1>6. QED
  BY <1>5 DEF Quiet, TripDisables
----------------------------------------------------------------------------
(* Rate caps.                                                              *)

StampOf(i) == [at |-> arms[i].at, nr |-> i]

\* The history of a target holds the time of every call armed on it within a day.
CapInv ==
  /\ \A i \in DOMAIN arms : arms[i].at <= now
  /\ \A i \in DOMAIN arms :
       arms[i].at + Day > now => StampOf(i) \in counters[arms[i].target].stamps
  /\ \A g \in Targets : IsFiniteSet(counters[g].stamps)
  /\ CapsHold

LEMMA ArmsType ==
  ASSUME TypeInv
  PROVE  /\ arms \in Seq(Arms) /\ DOMAIN arms = 1..Len(arms) /\ Len(arms) \in Nat
         /\ \A i \in DOMAIN arms : /\ arms[i].target \in Targets /\ arms[i].at \in Nat
                                   /\ arms[i].by \in Pattern
<1>1. arms \in Seq(Arms)
  BY DEF TypeInv, TypeOK, Arms
<1>2. DOMAIN arms = 1..Len(arms) /\ Len(arms) \in Nat
  BY <1>1
<1>3. \A i \in DOMAIN arms : arms[i] \in Arms
  BY <1>1, <1>2
<1>4. QED
  BY <1>1, <1>2, <1>3, PatternsAssumption DEF Arms

\* The calls armed on a target in a window are at most the stamps kept of it.
LEMMA ArmsAreStamped ==
  ASSUME TypeInv, CapInv, NEW g \in Targets, NEW span \in Nat, span <= Day
  PROVE  LET before == {j \in DOMAIN arms : arms[j].target = g /\ arms[j].at + span > now}
             kept == Within(counters[g].stamps, span)
         IN  /\ IsFiniteSet(before) /\ Cardinality(before) \in Nat
             /\ Cardinality(kept) \in Nat /\ Cardinality(before) <= Cardinality(kept)
<1> DEFINE before == {j \in DOMAIN arms : arms[j].target = g /\ arms[j].at + span > now}
           kept == Within(counters[g].stamps, span)
           f == [j \in before |-> StampOf(j)]
<1>0. now \in Nat /\ Day \in Nat
  BY TimeAssumption, BoundsAssumption DEF TypeInv, TypeOK
<1>1. IsFiniteSet(kept)
  <2>1. kept \in SUBSET counters[g].stamps
    BY DEF Within
  <2>2. QED
    BY <2>1, FS_Subset DEF CapInv
<1>2. ASSUME NEW j \in before PROVE StampOf(j) \in kept
  <2>1. /\ j \in DOMAIN arms /\ arms[j].target = g /\ arms[j].at + span > now
        /\ arms[j].at \in Nat
    BY ArmsType
  <2>2. arms[j].at + Day > now
    BY <1>0, <2>1
  <2>3. StampOf(j) \in counters[g].stamps
    BY <2>1, <2>2 DEF CapInv
  <2>4. StampOf(j).at = arms[j].at
    BY DEF StampOf
  <2>5. QED
    BY <2>1, <2>3, <2>4 DEF Within
<1>3. f \in Injection(before, kept)
  <2>1. f \in [before -> kept]
    BY <1>2
  <2>2. ASSUME NEW i \in before, NEW j \in before, f[i] = f[j] PROVE i = j
    <3>1. StampOf(i).nr = StampOf(j).nr
      BY <2>2
    <3>2. QED
      BY <3>1 DEF StampOf
  <2> HIDE DEF f, before, kept
  <2>3. QED
    BY <2>1, <2>2 DEF Injection, IsInjective
<1> HIDE DEF f, before, kept
<1>4. IsFiniteSet(before) /\ Cardinality(before) <= Cardinality(kept)
  BY <1>1, <1>3, FS_Injection
<1>5. Cardinality(before) \in Nat /\ Cardinality(kept) \in Nat
  BY <1>1, <1>4, FS_CardinalityType
<1>6. QED
  BY <1>4, <1>5 DEF before, kept

\* An arm adds one to what its target was armed within a window.
LEMMA ArmCounts ==
  ASSUME TypeInv, CapInv, NEW g \in Targets, NEW by \in Pattern,
         arms' = Append(arms, [target |-> g, at |-> now, by |-> by]),
         NEW span \in Nat, span <= Day, NEW cap \in Nat,
         Cardinality(Within(counters[g].stamps, span)) < cap
  PROVE  Cardinality(Recent(Len(arms), span)') <= cap
<1> DEFINE n == Len(arms) + 1
           before == {j \in DOMAIN arms : arms[j].target = g /\ arms[j].at + span > now}
<1>1. /\ Len(arms') = n /\ n \in Nat /\ DOMAIN arms = 1..Len(arms)
      /\ arms'[n] = [target |-> g, at |-> now, by |-> by]
      /\ \A j \in 1..Len(arms) : arms'[j] = arms[j]
  BY ArmsType
<1>2. Recent(Len(arms), span)' \subseteq before \cup {n}
  <2>1. ASSUME NEW j \in 1..n, arms'[j].target = arms'[n].target,
               arms'[j].at + span > arms'[n].at, j # n
        PROVE  j \in before
    <3>1. j \in 1..Len(arms)
      BY <1>1, <2>1
    <3>2. QED
      BY <1>1, <2>1, <3>1
  <2> HIDE DEF n, before
  <2>2. Recent(Len(arms), span)'
          = {j \in 1..n : arms'[j].target = arms'[n].target /\ arms'[j].at + span > arms'[n].at}
    BY <1>1 DEF Recent
  <2>3. QED
    BY <2>1, <2>2
<1>3. /\ IsFiniteSet(before) /\ Cardinality(before) \in Nat
      /\ Cardinality(before) <= Cardinality(Within(counters[g].stamps, span))
      /\ Cardinality(Within(counters[g].stamps, span)) \in Nat
  BY ArmsAreStamped
<1> HIDE DEF before
<1>4. /\ IsFiniteSet(before \cup {n})
      /\ Cardinality(before \cup {n}) <= Cardinality(before) + 1
  <2> HIDE DEF n
  <2>1. Cardinality(before \cup {n}) \in {Cardinality(before), Cardinality(before) + 1}
    BY <1>3, FS_AddElement
  <2>2. IsFiniteSet(before \cup {n})
    BY <1>3, FS_AddElement
  <2>3. QED
    BY <1>3, <2>1, <2>2
<1>5. /\ Cardinality(before \cup {n}) \in Nat
      /\ IsFiniteSet(Recent(Len(arms), span)')
      /\ Cardinality(Recent(Len(arms), span)') <= Cardinality(before \cup {n})
  BY <1>2, <1>4, FS_Subset, FS_CardinalityType
<1>6. Cardinality(Recent(Len(arms), span)') \in Nat
  BY <1>5, FS_CardinalityType
<1>7. QED
  BY <1>3, <1>4, <1>5, <1>6

\* Steps that arm nothing forget no stamp of the last day.
LEMMA QuietCaps ==
  ASSUME TypeInv, CapInv, UNCHANGED arms, now' \in Nat, now <= now',
         \A g \in Targets : /\ counters'[g].stamps \subseteq counters[g].stamps
                            /\ Kept(counters[g].stamps) \subseteq counters'[g].stamps
  PROVE  CapInv'
<1>0. now \in Nat /\ Day \in Nat
  BY TimeAssumption, BoundsAssumption DEF TypeInv, TypeOK
<1>1. \A i \in DOMAIN arms : arms[i].at <= now'
  BY <1>0, ArmsType DEF CapInv
<1>2. ASSUME NEW i \in DOMAIN arms, arms[i].at + Day > now'
      PROVE  StampOf(i) \in counters'[arms[i].target].stamps
  <2>1. arms[i].at \in Nat /\ arms[i].target \in Targets
    BY ArmsType
  <2>2. arms[i].at + Day > now
    BY <1>0, <1>2, <2>1
  <2>3. StampOf(i) \in counters[arms[i].target].stamps
    BY <2>2 DEF CapInv
  <2>4. StampOf(i).at = arms[i].at
    BY DEF StampOf
  <2>5. StampOf(i) \in Kept(counters[arms[i].target].stamps)
    BY <2>2, <2>3, <2>4 DEF Kept, Within
  <2>6. QED
    BY <2>1, <2>5
<1>3. \A g \in Targets : IsFiniteSet(counters'[g].stamps)
  <2>1. ASSUME NEW g \in Targets PROVE IsFiniteSet(counters'[g].stamps)
    <3>1. IsFiniteSet(counters[g].stamps)
          /\ counters'[g].stamps \in SUBSET counters[g].stamps
      BY DEF CapInv
    <3>2. QED
      BY <3>1, FS_Subset
  <2>2. QED
    BY <2>1
<1>4. CapsHold'
  BY DEF CapInv, CapsHold, Recent
<1>5. QED
  BY <1>1, <1>2, <1>3, <1>4 DEF CapInv, StampOf

LEMMA ArmCaps ==
  ASSUME TypeInv, CapInv, NEW t \in Threads, NEW g \in Targets, g = thread[t].target,
         thread[t].got \in Patterns, UNCHANGED now,
         Armed(t, g, Kept(counters[g].stamps))
  PROVE  CapInv'
<1> DEFINE kept == Kept(counters[g].stamps)
           n == Len(arms) + 1
           by == thread[t].got
           entry == [target |-> g, at |-> now, by |-> by]
           stamp == [at |-> now, nr |-> n]
<1>0. /\ now \in Nat /\ Day \in Nat /\ Hour \in Nat /\ Hour <= Day /\ by \in Pattern
      /\ by.perHour \in Nat /\ by.perDay \in Nat
  BY TimeAssumption, BoundsAssumption, PatternsAssumption DEF TypeInv, TypeOK, Pattern
<1>1. /\ ~Capped(by, kept) /\ arms' = Append(arms, entry)
      /\ counters' = [counters EXCEPT ![g].stamps = kept \cup {stamp}]
  BY DEF Armed
<1>2. /\ DOMAIN arms = 1..Len(arms) /\ DOMAIN arms' = 1..n /\ n \in Nat /\ Len(arms') = n
      /\ arms'[n] = entry /\ \A j \in 1..Len(arms) : arms'[j] = arms[j]
      /\ \A j \in 1..Len(arms) : arms[j].target \in Targets /\ arms[j].at \in Nat
  BY <1>1, ArmsType
<1>3. entry.target = g /\ entry.at = now /\ entry.by = by
  OBVIOUS
<1>4. /\ counters'[g].stamps = kept \cup {stamp}
      /\ \A h \in Targets : h # g => counters'[h] = counters[h]
  <2>1. counters \in [Targets -> Counters]
    BY DEF TypeInv, TypeOK
  <2>2. DOMAIN counters[g] = {"stamps", "failures", "until"}
    BY <2>1 DEF Counters
  <2> HIDE DEF kept, stamp
  <2>3. QED
    BY <1>1, <2>1, <2>2
<1>5. \A i \in DOMAIN arms' : arms'[i].at <= now'
  <2>1. \A i \in 1..Len(arms) : arms[i].at <= now
    BY <1>2 DEF CapInv
  <2> HIDE DEF entry
  <2>2. QED
    BY <1>0, <1>2, <1>3, <2>1
<1>6. ASSUME NEW i \in DOMAIN arms', arms'[i].at + Day > now'
      PROVE  StampOf(i)' \in counters'[arms'[i].target].stamps
  <2>1. CASE i = n
    BY <1>2, <1>3, <1>4, <2>1 DEF StampOf
  <2>2. CASE i \in 1..Len(arms)
    <3>1. arms'[i] = arms[i] /\ arms[i].at + Day > now /\ StampOf(i)' = StampOf(i)
      BY <1>2, <1>6, <2>2 DEF StampOf
    <3>2. StampOf(i) \in counters[arms[i].target].stamps /\ StampOf(i).at = arms[i].at
      BY <1>2, <2>2, <3>1 DEF CapInv, StampOf
    <3>3. CASE arms[i].target = g
      <4>1. StampOf(i) \in kept
        BY <3>1, <3>2, <3>3 DEF Kept, Within
      <4>2. QED
        BY <1>4, <3>1, <3>3, <4>1
    <3>4. CASE arms[i].target # g
      BY <1>2, <1>4, <2>2, <3>1, <3>2, <3>4
    <3>5. QED
      BY <3>3, <3>4
  <2>3. QED
    BY <1>2, <2>1, <2>2
<1>7. \A h \in Targets : IsFiniteSet(counters'[h].stamps)
  <2>1. IsFiniteSet(counters[g].stamps) /\ kept \in SUBSET counters[g].stamps
    BY DEF CapInv, Kept, Within
  <2>2. IsFiniteSet(kept)
    BY <2>1, FS_Subset
  <2>3. IsFiniteSet(kept \cup {stamp})
    BY <2>2, FS_AddElement
  <2>4. QED
    BY <1>4, <2>3 DEF CapInv
<1>8. CapsHold'
  <2>1. ASSUME by.perHour > 0
        PROVE  Cardinality(Recent(Len(arms), Hour)') <= by.perHour
    <3>1. Within(kept, Hour) = Within(counters[g].stamps, Hour)
      <4>1. counters[g].stamps \subseteq Stamps
        BY DEF TypeInv, TypeOK, Counters
      <4>2. QED
        BY <1>0, <4>1 DEF Within, Kept, Stamps
    <3>2. Cardinality(Within(counters[g].stamps, Hour)) \in Nat
      BY <1>0, ArmsAreStamped
    <3>3. Cardinality(Within(counters[g].stamps, Hour)) < by.perHour
      BY <1>0, <1>1, <2>1, <3>1, <3>2 DEF Capped
    <3> HIDE DEF by, n
    <3>4. QED
      BY <1>0, <1>1, <3>3, ArmCounts
  <2>2. ASSUME by.perDay > 0
        PROVE  Cardinality(Recent(Len(arms), Day)') <= by.perDay
    <3>1. kept = Within(counters[g].stamps, Day)
      BY DEF Kept
    <3>0. Cardinality(Within(counters[g].stamps, Day)) \in Nat
      <4>1. Day \in Nat /\ Day <= Day
        BY <1>0
      <4> HIDE DEF kept
      <4>2. QED
        BY <4>1, ArmsAreStamped
    <3>2. Cardinality(Within(counters[g].stamps, Day)) < by.perDay
      BY <1>0, <1>1, <2>2, <3>0, <3>1 DEF Capped
    <3>3. Day \in Nat /\ Day <= Day
      BY <1>0
    <3> HIDE DEF by, n, kept
    <3>4. QED
      BY <1>0, <1>1, <3>2, <3>3, ArmCounts
  <2>3. ASSUME NEW i \in 1..Len(arms), NEW span
        PROVE  Recent(i, span)' = Recent(i, span)
    <3>1. 1..i \subseteq 1..Len(arms)
      BY <1>2
    <3>2. QED
      BY <1>2, <3>1 DEF Recent
  <2>4. ASSUME NEW i \in DOMAIN arms'
        PROVE  /\ arms'[i].by.perHour > 0
                     => Cardinality(Recent(i, Hour)') <= arms'[i].by.perHour
               /\ arms'[i].by.perDay > 0
                     => Cardinality(Recent(i, Day)') <= arms'[i].by.perDay
    <3>1. CASE i = n
      <4>1. arms'[i].by = by /\ i = Len(arms')
        BY <1>2, <1>3, <3>1
      <4>2. /\ Recent(i, Hour)' = Recent(Len(arms), Hour)'
            /\ Recent(i, Day)' = Recent(Len(arms), Day)'
        BY <4>1 DEF Recent
      <4> HIDE DEF n, by
      <4>3. QED
        BY <2>1, <2>2, <4>1, <4>2
    <3>2. CASE i \in 1..Len(arms)
      <4>1. /\ arms'[i] = arms[i] /\ i \in DOMAIN arms
            /\ Recent(i, Hour)' = Recent(i, Hour) /\ Recent(i, Day)' = Recent(i, Day)
        BY <1>2, <2>3, <3>2
      <4>2. /\ arms[i].by.perHour > 0 => Cardinality(Recent(i, Hour)) <= arms[i].by.perHour
            /\ arms[i].by.perDay > 0 => Cardinality(Recent(i, Day)) <= arms[i].by.perDay
        BY <4>1 DEF CapInv, CapsHold
      <4>3. QED
        BY <4>1, <4>2
    <3>3. QED
      BY <1>2, <3>1, <3>2
  <2>5. QED
    BY <2>4 DEF CapsHold
<1>9. QED
  BY <1>5, <1>6, <1>7, <1>8 DEF CapInv

LEMMA NextCaps == TypeInv /\ CapInv /\ [Next]_vars => CapInv'
<1> SUFFICES ASSUME TypeInv, CapInv, [Next]_vars PROVE CapInv'
  OBVIOUS
<1>0. /\ counters \in [Targets -> Counters] /\ now \in Nat
      /\ \A g \in Targets : counters[g] \in Counters
      /\ \A g \in Targets : Kept(counters[g].stamps) \subseteq counters[g].stamps
  BY BoundsAssumption DEF TypeInv, TypeOK, Kept, Within
<1>1. ASSUME UNCHANGED arms, now' \in {now, now + 1},
             \A g \in Targets : counters'[g].stamps = counters[g].stamps
      PROVE  CapInv'
  BY <1>0, <1>1, QuietCaps
<1>2. ASSUME NEW t \in Threads, NEW ok \in BOOLEAN, Return(t, ok)
      PROVE  CapInv'
  <2> DEFINE g == thread[t].target
             c == counters[g]
  <2>1. /\ g \in Targets /\ c \in Counters
        /\ UNCHANGED <<now, arms>>
        /\ \/ counters' = counters
           \/ counters' = [counters EXCEPT ![g] = Succeeded(c)]
           \/ counters' = [counters EXCEPT ![g] = Failed(c)]
    BY <1>0, <1>2, ThreadType DEF Return
  <2>2. Succeeded(c).stamps = c.stamps /\ Failed(c).stamps = c.stamps
    BY <2>1 DEF Succeeded, Failed, Counters
  <2> HIDE DEF c, g
  <2>3. \A h \in Targets : counters'[h].stamps = counters[h].stamps
    BY <1>0, <2>1, <2>2 DEF c
  <2>4. QED
    BY <1>1, <2>1, <2>3
<1>3. ASSUME NEW t \in Threads, Arm(t)
      PROVE  CapInv'
  <2> DEFINE g == thread[t].target
             kept == Kept(counters[g].stamps)
  <2>1. /\ UNCHANGED now
        /\ Disabled(t) \/ Refused(t, g, kept) \/ Armed(t, g, kept)
        /\ thread[t].pc = "arm"
    BY <1>3, ArmCases
  <2>2. g \in Targets /\ thread[t].got \in Patterns
    BY <2>1, ThreadType
  <2>3. CASE Disabled(t)
    BY <1>1, <2>1, <2>3 DEF Disabled
  <2>4. CASE Refused(t, g, kept)
    <3>1. counters' = [counters EXCEPT ![g].stamps = kept] /\ UNCHANGED arms
      BY <2>4 DEF Refused
    <3>2. DOMAIN counters[g] = {"stamps", "failures", "until"}
          /\ kept \subseteq counters[g].stamps
      BY <1>0, <2>2 DEF Counters
    <3>3. counters'[g].stamps = kept
          /\ \A h \in Targets : h # g => counters'[h] = counters[h]
      <4> HIDE DEF kept, g
      <4>1. QED
        BY <1>0, <2>2, <3>1, <3>2
    <3>4. ASSUME NEW h \in Targets
          PROVE  /\ counters'[h].stamps \subseteq counters[h].stamps
                 /\ Kept(counters[h].stamps) \subseteq counters'[h].stamps
      BY <1>0, <3>2, <3>3
    <3>5. QED
      BY <1>0, <2>1, <3>1, <3>4, QuietCaps
  <2>5. CASE Armed(t, g, kept)
    BY <2>1, <2>2, <2>5, ArmCaps
  <2>6. QED
    BY <2>1, <2>3, <2>4, <2>5
<1>4. CASE UNCHANGED <<counters, arms>> /\ now' \in {now, now + 1}
  BY <1>1, <1>4
<1>5. QED
  BY <1>2, <1>3, <1>4 DEF Next, Call, Stat, ReadFile, SwapPatterns, TrackMtime, Select, Edit,
                          Tick, vars

\* However many threads arm, and whatever is reloaded or tripped in between, no
\* armed call exceeds a cap of the pattern that armed it (patterns.py:292).
THEOREM CapsHoldAlways == Spec => []CapsHold
<1>1. Init => CapInv
  <2>1. ASSUME Init PROVE \A g \in Targets : IsFiniteSet(counters[g].stamps)
    BY <2>1, FS_EmptySet DEF Init, Fresh
  <2>2. ASSUME Init PROVE DOMAIN arms = {}
    BY <2>2 DEF Init
  <2>3. QED
    BY <2>1, <2>2 DEF CapInv, CapsHold
<1>2. CapInv => CapsHold
  BY DEF CapInv
<1>3. QED
  BY <1>1, <1>2, InitType, NextType, NextCaps, PTL DEF Spec
=============================================================================
