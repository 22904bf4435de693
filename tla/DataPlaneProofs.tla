-------------------------- MODULE DataPlaneProofs --------------------------
(***************************************************************************)
(* Proofs about DataPlane, for any number of threads, either generation of *)
(* the server and any number of outages.                                   *)
(***************************************************************************)
EXTENDS DataPlane, TLAPS

----------------------------------------------------------------------------
(* Types.                                                                  *)

\* The steps at which a thread has its connection, and at which it has been
\* told the generation.
Bound == {"resolve", "probe", "reshape", "path", "send", "done"}
Told == {"reshape", "path", "send", "done"}

\* A thread past "manager" finds a manager, and one that makes a connection
\* knows whose.
Managed ==
  \A t \in Threads :
    /\ thread[t].pc \notin {"idle", "manager"} => manager # Nobody
    /\ thread[t].pc = "session" => thread[t].mgr # Nobody

\* No path is built from a prefix that is not known: none is ever forgotten.
Learned == \A t \in Threads : thread[t].pc \in Told => prefix[Conn(t)] # "none"

\* The types need both: a path gets its shape from the prefix.
TypeInv == TypeOK /\ Managed /\ Learned

LEMMA IdleType == Idle \in Thread /\ Idle.pc = "idle"
BY DEF Idle, Thread, Steps, Makers, Prefixes

LEMMA ThreadType ==
  ASSUME TypeOK, NEW t \in Threads
  PROVE  /\ thread \in [Threads -> Thread] /\ thread[t] \in Thread
         /\ thread[t].pc \in Bound => /\ Conn(t) \in Conns
                                      /\ thread[t].mgr # Nobody /\ thread[t].conn # Nobody
<1>1. thread \in [Threads -> Thread] /\ thread[t] \in Thread
  BY DEF TypeOK
<1>2. ASSUME thread[t].pc \in Bound
      PROVE  thread[t].mgr # Nobody /\ thread[t].conn # Nobody
  BY <1>2 DEF Bound, TypeOK, Steps
<1>3. ASSUME thread[t].pc \in Bound
      PROVE  Conn(t) \in Conns
  BY <1>1, <1>2, <1>3 DEF Conn, Conns, Thread, Makers
<1>4. QED
  BY <1>1, <1>2, <1>3

\* A step that only moves thread t keeps the types, if t keeps its own and
\* nothing is forgotten.
LEMMA MoveKeeps ==
  ASSUME TypeInv, NEW t \in Threads, NEW new \in Thread,
         thread' = [thread EXCEPT ![t] = new], UNCHANGED server,
         new.pc \in Bound => new.mgr # Nobody /\ new.conn # Nobody,
         new.pc = "session" => new.mgr # Nobody,
         new.pc \notin {"idle", "manager"} => manager' # Nobody,
         new.pc \in Told => prefix'[<<new.mgr, new.conn>>] # "none",
         manager' \in Makers, manager # Nobody => manager' # Nobody,
         session' \in [Threads -> Makers],
         prefix' \in [Conns -> Prefixes \cup {"none"}],
         \A c \in Conns : prefix[c] # "none" => prefix'[c] # "none",
         misled' \subseteq Conns
  PROVE  TypeInv'
<1>1. /\ thread' \in [Threads -> Thread] /\ thread'[t] = new
      /\ \A u \in Threads : u # t => thread'[u] = thread[u]
  BY DEF TypeInv, TypeOK
<1>2. Steps \ {"idle", "manager", "connect", "session"} = Bound
  BY DEF Steps, Bound
<1>3. ASSUME NEW u \in Threads, thread'[u].pc \in Bound
      PROVE  Nobody \notin {thread'[u].mgr, thread'[u].conn}
  <2>1. CASE u = t
    BY <1>1, <1>3, <2>1
  <2>2. CASE u # t
    BY <1>1, <1>2, <1>3, <2>2 DEF TypeInv, TypeOK
  <2>3. QED
    BY <2>1, <2>2
<1>4. TypeOK'
  BY <1>1, <1>2, <1>3 DEF TypeInv, TypeOK
<1>5. Managed'
  BY <1>1 DEF TypeInv, Managed
<1>6. ASSUME NEW u \in Threads, thread'[u].pc \in Told
      PROVE  prefix'[Conn(u)'] # "none"
  <2>1. CASE u = t
    BY <1>1, <1>6, <2>1 DEF Conn
  <2>2. CASE u # t
    <3>1. thread[u].pc \in Bound /\ Conn(u)' = Conn(u)
      BY <1>1, <1>6, <2>2 DEF Told, Bound, Conn
    <3>2. prefix[Conn(u)] # "none" /\ Conn(u) \in Conns
      BY <1>1, <1>6, <2>2, <3>1, ThreadType DEF TypeInv, Learned
    <3>3. QED
      BY <3>1, <3>2
  <2>3. QED
    BY <2>1, <2>2
<1>7. QED
  BY <1>4, <1>5, <1>6 DEF TypeInv, Learned

LEMMA ProbedType ==
  TypeOK => Probed \in Prefixes /\ (server.is = "up" => Probed = Generation)
<1> SUFFICES ASSUME TypeOK
             PROVE  Probed \in Prefixes /\ (server.is = "up" => Probed = Generation)
  OBVIOUS
<1>1. server.is \in {"up", "busy", "unreachable"}
  BY ServerAssumption DEF TypeOK
<1>2. QED
  BY <1>1, ServerAssumption DEF Probed, Prefixes

LEMMA StepType ==
  ASSUME TypeInv, NEW t \in Threads, Step(t)
  PROVE  TypeInv'
<1> USE ThreadsAssumption DEF At, Goto
<1>0. /\ manager \in Makers /\ session \in [Threads -> Makers]
      /\ prefix \in [Conns -> Prefixes \cup {"none"}] /\ misled \subseteq Conns
      /\ thread \in [Threads -> Thread] /\ thread[t] \in Thread
      /\ thread[t].pc \in Bound => /\ Conn(t) \in Conns /\ manager # Nobody
                                   /\ thread[t].mgr # Nobody /\ thread[t].conn # Nobody
      /\ thread[t].pc \in Told => prefix[Conn(t)] \in Prefixes
      /\ "none" \notin Prefixes
  BY ThreadType DEF TypeInv, TypeOK, Prefixes, Managed, Learned, Bound, Told
<1>1. CASE Call(t)
  <2> DEFINE new == [Idle EXCEPT !.pc = IF manager = Nobody THEN "manager" ELSE "connect",
                                 !.steady = (server.is = "up")]
  <2>1. /\ new \in Thread /\ new.pc \in {"manager", "connect"}
        /\ new.pc = "connect" => manager # Nobody
    BY IdleType DEF Idle, Thread, Steps, Makers, Prefixes
  <2>2. /\ thread' = [thread EXCEPT ![t] = new]
        /\ UNCHANGED <<server, manager, session, prefix, misled>>
    BY <1>1 DEF Call
  <2> HIDE DEF new
  <2>3. QED
    BY <1>0, <2>1, <2>2, MoveKeeps DEF Bound, Told
<1>2. CASE MakeManager(t)
  <2> DEFINE new == [thread[t] EXCEPT !.pc = "connect"]
  <2>1. new \in Thread /\ new.pc = "connect"
    BY <1>0 DEF Thread, Steps
  <2>2. /\ thread' = [thread EXCEPT ![t] = new] /\ manager' = t
        /\ UNCHANGED <<server, session, prefix, misled>>
    BY <1>0, <1>2 DEF MakeManager
  <2> HIDE DEF new
  <2>3. manager' \in Makers /\ manager' # Nobody
    BY <2>2 DEF Makers
  <2>4. QED
    BY <1>0, <2>1, <2>2, <2>3, MoveKeeps DEF Bound, Told
<1>3. CASE Connect(t)
  <2> DEFINE cached == session[manager]
             new == [thread[t] EXCEPT !.mgr = manager, !.conn = cached,
                       !.pc = IF cached = Nobody THEN "session" ELSE "resolve"]
  <2>1. manager \in Threads /\ manager # Nobody
    BY <1>0, <1>3 DEF Connect, TypeInv, Managed, Makers
  <2>2. cached \in Makers
    BY <1>0, <2>1
  <2>3. /\ thread' = [thread EXCEPT ![t] = new]
        /\ UNCHANGED <<server, manager, session, prefix, misled>>
    BY <1>0, <1>3 DEF Connect
  <2> HIDE DEF cached
  <2>4. /\ new \in Thread /\ new.mgr = manager /\ new.conn = cached
        /\ new.pc = IF cached = Nobody THEN "session" ELSE "resolve"
    BY <1>0, <2>2 DEF Thread, Steps
  <2> HIDE DEF new
  <2>5. QED
    BY <1>0, <2>1, <2>3, <2>4, MoveKeeps DEF Bound, Told
<1>4. CASE MakeSession(t)
  <2> DEFINE new == [thread[t] EXCEPT !.conn = t, !.pc = "resolve"]
  <2>1. new \in Thread /\ new.pc = "resolve" /\ new.conn = t /\ new.mgr = thread[t].mgr
    BY <1>0 DEF Thread, Steps, Makers
  <2>2. /\ thread' = [thread EXCEPT ![t] = new] /\ thread[t].pc = "session"
        /\ session' = [session EXCEPT ![thread[t].mgr] = t]
        /\ UNCHANGED <<server, manager, prefix, misled>>
    BY <1>0, <1>4 DEF MakeSession
  <2> HIDE DEF new
  <2>3. thread[t].mgr # Nobody /\ manager # Nobody
    BY <2>2 DEF TypeInv, Managed
  <2>4. session' \in [Threads -> Makers]
    BY <1>0, <2>2 DEF Makers
  <2>5. QED
    BY <1>0, <2>1, <2>2, <2>3, <2>4, MoveKeeps DEF Bound, Told
<1>5. CASE Resolve(t)
  <2> DEFINE new == [thread[t] EXCEPT
                       !.pc = IF prefix[Conn(t)] = "none" THEN "probe" ELSE "reshape"]
  <2>1. /\ new \in Thread /\ <<new.mgr, new.conn>> = Conn(t)
        /\ new.mgr = thread[t].mgr /\ new.conn = thread[t].conn
        /\ new.pc = IF prefix[Conn(t)] = "none" THEN "probe" ELSE "reshape"
    BY <1>0 DEF Thread, Steps, Conn
  <2>2. /\ thread' = [thread EXCEPT ![t] = new] /\ thread[t].pc \in Bound
        /\ UNCHANGED <<server, manager, session, prefix, misled>>
    BY <1>0, <1>5 DEF Resolve, Bound
  <2> HIDE DEF new
  <2>3. QED
    BY <1>0, <2>1, <2>2, MoveKeeps DEF Bound, Told
<1>6. CASE Probe(t)
  <2> DEFINE new == [thread[t] EXCEPT !.pc = "reshape"]
  <2>1. /\ new \in Thread /\ <<new.mgr, new.conn>> = Conn(t) /\ new.pc = "reshape"
        /\ new.mgr = thread[t].mgr /\ new.conn = thread[t].conn
    BY <1>0 DEF Thread, Steps, Conn
  <2>2. /\ thread' = [thread EXCEPT ![t] = new] /\ thread[t].pc \in Bound
        /\ prefix' = [prefix EXCEPT ![Conn(t)] = Probed]
        /\ misled' = misled \/ misled' = misled \cup {Conn(t)}
        /\ UNCHANGED <<server, manager, session>>
    BY <1>0, <1>6 DEF Probe, Bound
  <2> HIDE DEF new
  <2>3. Probed \in Prefixes
    BY ProbedType DEF TypeInv
  <2>4. /\ prefix' \in [Conns -> Prefixes \cup {"none"}] /\ misled' \subseteq Conns
        /\ prefix'[Conn(t)] = Probed
        /\ \A c \in Conns : prefix[c] # "none" => prefix'[c] # "none"
    BY <1>0, <2>2, <2>3
  <2>5. QED
    BY <1>0, <2>1, <2>2, <2>3, <2>4, MoveKeeps DEF Bound, Told
<1>7. CASE Reshape(t) \/ Renumber(t) \/ Send(t)
  <2>1. \E new \in Thread :
          /\ thread' = [thread EXCEPT ![t] = new]
          /\ new.pc \in Told /\ new.mgr = thread[t].mgr /\ new.conn = thread[t].conn
    <3>1. CASE Reshape(t)
      <4>1. prefix[Conn(t)] \in Prefixes
        BY <1>0, <3>1 DEF Reshape, Told
      <4>2. [thread[t] EXCEPT !.shape = prefix[Conn(t)], !.pc = "path"] \in Thread
        BY <1>0, <4>1 DEF Thread, Steps
      <4>3. QED
        BY <1>0, <3>1, <4>2 DEF Reshape, Told, Thread
    <3>2. CASE Renumber(t)
      <4>1. prefix[Conn(t)] \in Prefixes
        BY <1>0, <3>2 DEF Renumber, Told
      <4>2. [thread[t] EXCEPT !.path = prefix[Conn(t)], !.pc = "send"] \in Thread
        BY <1>0, <4>1 DEF Thread, Steps
      <4>3. QED
        BY <1>0, <3>2, <4>2 DEF Renumber, Told, Thread
    <3>3. CASE Send(t)
      <4> DEFINE said == IF server.is # "up" THEN "failed"
                         ELSE IF {thread[t].path, thread[t].shape} = {Generation}
                              THEN "ok" ELSE "not found"
                 new == [thread[t] EXCEPT !.pc = "done", !.answer = said]
      <4>1. said \in {"ok", "not found", "failed"}
        OBVIOUS
      <4>2. thread' = [thread EXCEPT ![t] = new]
        BY <1>0, <3>3 DEF Send
      <4> HIDE DEF said
      <4>3. /\ new \in Thread /\ new.pc = "done"
            /\ new.mgr = thread[t].mgr /\ new.conn = thread[t].conn
        BY <1>0, <4>1 DEF Thread, Steps
      <4> HIDE DEF new
      <4>4. QED
        BY <4>2, <4>3 DEF Told
    <3>4. QED
      BY <1>7, <3>1, <3>2, <3>3
  <2>2. /\ thread[t].pc \in Bound /\ thread[t].pc \in Told
        /\ UNCHANGED <<server, manager, session, prefix, misled>>
    BY <1>7 DEF Reshape, Renumber, Send, Bound, Told
  <2>3. QED
    BY <1>0, <2>1, <2>2, MoveKeeps DEF Bound, Told, Conn
<1>8. CASE Return(t)
  BY <1>0, <1>8, IdleType, MoveKeeps DEF Return, Bound, Told
<1>9. QED
  BY <1>1, <1>2, <1>3, <1>4, <1>5, <1>6, <1>7, <1>8 DEF Step

LEMMA FailType ==
  ASSUME TypeInv, NEW how \in Outages, Fail(how)
  PROVE  /\ TypeInv' /\ \A t \in Threads : /\ thread'[t].pc = thread[t].pc
                                           /\ thread'[t].shape = thread[t].shape
                                           /\ thread'[t].path = thread[t].path
                                           /\ thread'[t].answer = thread[t].answer
                                           /\ Conn(t)' = Conn(t)
                                           /\ thread'[t].steady => thread[t].pc = "idle"
<1>0. /\ thread \in [Threads -> Thread] /\ \A t \in Threads : thread[t] \in Thread
  BY DEF TypeInv, TypeOK
<1>1. ASSUME NEW t \in Threads
      PROVE  /\ thread'[t] \in Thread
             /\ thread'[t].pc = thread[t].pc /\ thread'[t].mgr = thread[t].mgr
             /\ thread'[t].conn = thread[t].conn /\ thread'[t].shape = thread[t].shape
             /\ thread'[t].path = thread[t].path /\ thread'[t].answer = thread[t].answer
             /\ thread'[t].steady => thread[t].pc = "idle"
  BY <1>0 DEF Fail, Thread, At
<1>2. thread' \in [Threads -> Thread]
  BY <1>1 DEF Fail
<1>3. server' \in [is : {"up"} \cup Outages, outages : 0..MaxOutages]
  BY ServerAssumption DEF Fail, TypeInv, TypeOK
<1>4. UNCHANGED <<manager, session, prefix, misled>>
  BY DEF Fail
<1>5. TypeOK'
  BY <1>1, <1>2, <1>3, <1>4 DEF TypeInv, TypeOK
<1>6. Managed' /\ Learned'
  BY <1>1, <1>4 DEF TypeInv, Managed, Learned, Conn
<1>7. QED
  BY <1>1, <1>5, <1>6 DEF TypeInv, Conn

LEMMA RecoverType ==
  ASSUME TypeInv, Recover
  PROVE  TypeInv'
<1>1. server' \in [is : {"up"} \cup Outages, outages : 0..MaxOutages]
  BY DEF Recover, TypeInv, TypeOK
<1>2. UNCHANGED <<manager, session, prefix, thread, misled>>
  BY DEF Recover
<1>3. QED
  BY <1>1, <1>2 DEF TypeInv, TypeOK, Managed, Learned, Conn

LEMMA NextType == TypeInv /\ [Next]_vars => TypeInv'
<1>1. TypeInv /\ UNCHANGED vars => TypeInv'
  BY DEF vars, TypeInv, TypeOK, Managed, Learned, Conn
<1>2. QED
  BY <1>1, StepType, FailType, RecoverType DEF Next

LEMMA InitType == Init => TypeInv
<1> SUFFICES ASSUME Init PROVE TypeInv
  OBVIOUS
<1>1. \A t \in Threads : thread[t] = Idle /\ thread[t].pc = "idle"
  BY IdleType DEF Init
<1>2. TypeOK
  BY <1>1, IdleType, ServerAssumption DEF Init, TypeOK, Makers
<1>3. QED
  BY <1>1, <1>2 DEF TypeInv, Managed, Learned, Told

\* Every variable keeps its type: in particular no path is built from a prefix
\* that is not known, whichever thread asked for it (connection.py:136).
THEOREM TypeCorrect == Spec => []TypeOK
<1>1. Spec => []TypeInv
  BY InitType, NextType, PTL DEF Spec
<1>2. TypeInv => TypeOK
  BY DEF TypeInv
<1>3. QED
  BY <1>1, <1>2, PTL
----------------------------------------------------------------------------
(* The server is reached.                                                  *)

\* The prefix of a connection is right or unknown, unless a probe was misled.
Truthful == \A c \in Conns : c \notin misled => prefix[c] \in {"none", Generation}

\* So are the two parts of a path, from the step that takes them on.
Shaped ==
  \A t \in Threads : Conn(t) \notin misled =>
    /\ thread[t].pc \in {"path", "send", "done"} => thread[t].shape = Generation
    /\ thread[t].pc \in {"send", "done"} => thread[t].path = Generation

\* A call is steady only if the server still answers.
Steadfast ==
  \A t \in Threads : thread[t].pc # "idle" /\ thread[t].steady => server.is = "up"

\* ProbedServerIsReached looks at the end of a call, and its strengthening at
\* every step on the way.
ReachInv == Truthful /\ Shaped /\ Steadfast /\ ProbedServerIsReached

\* A step that only moves thread t keeps the invariant, if t does.
LEMMA MoveReaches ==
  ASSUME TypeInv, ReachInv, NEW t \in Threads, NEW new,
         thread' = [thread EXCEPT ![t] = new], UNCHANGED server, Truthful',
         misled \subseteq misled',
         <<new.mgr, new.conn>> \notin misled' =>
           /\ new.pc \in {"path", "send", "done"} => new.shape = Generation
           /\ new.pc \in {"send", "done"} => new.path = Generation
           /\ new.pc = "done" /\ new.steady => new.answer = "ok",
         new.pc # "idle" /\ new.steady => server.is = "up"
  PROVE  ReachInv'
<1>1. /\ thread'[t] = new /\ Conn(t)' = <<new.mgr, new.conn>>
      /\ \A u \in Threads : u # t => thread'[u] = thread[u] /\ Conn(u)' = Conn(u)
  BY DEF TypeInv, TypeOK, Conn
<1>2. Shaped'
  <2>1. ASSUME NEW u \in Threads, Conn(u)' \notin misled'
        PROVE  /\ thread'[u].pc \in {"path", "send", "done"} => thread'[u].shape = Generation
               /\ thread'[u].pc \in {"send", "done"} => thread'[u].path = Generation
    BY <1>1, <2>1 DEF ReachInv, Shaped
  <2>2. QED
    BY <2>1 DEF Shaped
<1>3. Steadfast'
  BY <1>1 DEF ReachInv, Steadfast
<1>4. ProbedServerIsReached'
  <2>1. ASSUME NEW u \in Threads, Conn(u)' \notin misled',
               thread'[u].pc = "done", thread'[u].steady
        PROVE  thread'[u].answer = "ok"
    BY <1>1, <2>1 DEF ReachInv, ProbedServerIsReached, At
  <2>2. QED
    BY <2>1 DEF ProbedServerIsReached, At
<1>5. QED
  BY <1>2, <1>3, <1>4 DEF ReachInv

LEMMA StepReaches ==
  ASSUME TypeInv, ReachInv, NEW t \in Threads, Step(t)
  PROVE  ReachInv'
<1> USE DEF At, Goto
<1>0. /\ thread \in [Threads -> Thread] /\ thread[t] \in Thread
      /\ thread[t].pc # "idle" /\ thread[t].steady => server.is = "up"
      /\ Conn(t) = <<thread[t].mgr, thread[t].conn>>
  BY DEF TypeInv, TypeOK, ReachInv, Steadfast, Conn
<1>1. CASE Call(t)
  <2> DEFINE new == [Idle EXCEPT !.pc = IF manager = Nobody THEN "manager" ELSE "connect",
                                 !.steady = (server.is = "up")]
  <2>1. new.pc \in {"manager", "connect"} /\ new.steady = (server.is = "up")
    BY DEF Idle
  <2>2. /\ thread' = [thread EXCEPT ![t] = new]
        /\ UNCHANGED <<server, manager, session, prefix, misled>>
    BY <1>1 DEF Call
  <2> HIDE DEF new
  <2>3. Truthful'
    BY <2>2 DEF ReachInv, Truthful
  <2>4. QED
    BY <2>1, <2>2, <2>3, MoveReaches
<1>2. CASE MakeManager(t) \/ Connect(t) \/ MakeSession(t) \/ Resolve(t)
  <2>1. \E new \in Thread : /\ thread' = [thread EXCEPT ![t] = new]
                            /\ new.steady = thread[t].steady
                            /\ new.pc \in {"connect", "session", "resolve", "probe", "reshape"}
    <3>1. thread'[t] \in Thread
      BY <1>2, StepType DEF Step, TypeInv, TypeOK
    <3>2. thread'[t].steady = thread[t].steady
          /\ thread'[t].pc \in {"connect", "session", "resolve", "probe", "reshape"}
      <4>1. DOMAIN thread[t] = {"pc", "mgr", "conn", "shape", "path", "answer", "steady"}
        BY <1>0 DEF Thread
      <4>2. CASE MakeManager(t)
        BY <1>0, <4>1, <4>2 DEF MakeManager
      <4>3. CASE Connect(t)
        BY <1>0, <4>1, <4>3 DEF Connect
      <4>4. CASE MakeSession(t)
        BY <1>0, <4>1, <4>4 DEF MakeSession
      <4>5. CASE Resolve(t)
        BY <1>0, <4>1, <4>5 DEF Resolve
      <4>6. QED
        BY <1>2, <4>2, <4>3, <4>4, <4>5
    <3>3. thread' = [thread EXCEPT ![t] = thread'[t]]
      BY <1>0, <1>2 DEF MakeManager, Connect, MakeSession, Resolve
    <3>4. QED
      BY <3>1, <3>2, <3>3
  <2>2. UNCHANGED <<server, prefix, misled>> /\ thread[t].pc # "idle"
    BY <1>2 DEF MakeManager, Connect, MakeSession, Resolve
  <2>3. Truthful'
    BY <2>2 DEF ReachInv, Truthful
  <2>4. QED
    BY <1>0, <2>1, <2>2, <2>3, MoveReaches
<1>3. CASE Probe(t)
  <2> DEFINE new == [thread[t] EXCEPT !.pc = "reshape"]
  <2>1. new.steady = thread[t].steady /\ new.pc = "reshape"
    BY <1>0 DEF Thread
  <2>2. /\ thread' = [thread EXCEPT ![t] = new] /\ thread[t].pc = "probe"
        /\ prefix' = [prefix EXCEPT ![Conn(t)] = Probed]
        /\ misled' = IF server.is = "up" THEN misled ELSE misled \cup {Conn(t)}
        /\ UNCHANGED server
    BY <1>0, <1>3 DEF Probe
  <2> HIDE DEF new
  <2>3. server.is = "up" => Probed = Generation
    BY ProbedType DEF TypeInv
  <2>4. Truthful'
    BY <2>2, <2>3 DEF TypeInv, TypeOK, ReachInv, Truthful
  <2>5. QED
    BY <1>0, <2>1, <2>2, <2>4, MoveReaches
<1>4. CASE Reshape(t)
  <2> DEFINE new == [thread[t] EXCEPT !.shape = prefix[Conn(t)], !.pc = "path"]
  <2>1. /\ new.steady = thread[t].steady /\ new.pc = "path" /\ new.shape = prefix[Conn(t)]
        /\ <<new.mgr, new.conn>> = Conn(t)
    BY <1>0 DEF Thread
  <2>2. /\ thread' = [thread EXCEPT ![t] = new] /\ thread[t].pc = "reshape"
        /\ UNCHANGED <<server, prefix, misled>>
    BY <1>0, <1>4 DEF Reshape
  <2> HIDE DEF new
  <2>3. Conn(t) \in Conns /\ prefix[Conn(t)] # "none"
    BY <2>2, ThreadType DEF TypeInv, Learned, Bound, Told
  <2>4. Conn(t) \notin misled => new.shape = Generation
    BY <2>1, <2>3 DEF ReachInv, Truthful
  <2>5. Truthful'
    BY <2>2 DEF ReachInv, Truthful
  <2>6. QED
    BY <1>0, <2>1, <2>2, <2>4, <2>5, MoveReaches
<1>5. CASE Renumber(t)
  <2> DEFINE new == [thread[t] EXCEPT !.path = prefix[Conn(t)], !.pc = "send"]
  <2>1. /\ new.steady = thread[t].steady /\ new.pc = "send" /\ new.path = prefix[Conn(t)]
        /\ new.shape = thread[t].shape /\ <<new.mgr, new.conn>> = Conn(t)
    BY <1>0 DEF Thread
  <2>2. /\ thread' = [thread EXCEPT ![t] = new] /\ thread[t].pc = "path"
        /\ UNCHANGED <<server, prefix, misled>>
    BY <1>0, <1>5 DEF Renumber
  <2> HIDE DEF new
  <2>3. Conn(t) \in Conns /\ prefix[Conn(t)] # "none"
    BY <2>2, ThreadType DEF TypeInv, Learned, Bound, Told
  <2>4. Conn(t) \notin misled => new.path = Generation /\ new.shape = Generation
    BY <2>1, <2>2, <2>3 DEF ReachInv, Truthful, Shaped
  <2>5. Truthful'
    BY <2>2 DEF ReachInv, Truthful
  <2>6. QED
    BY <1>0, <2>1, <2>2, <2>4, <2>5, MoveReaches
<1>6. CASE Send(t)
  <2> DEFINE said == IF server.is # "up" THEN "failed"
                     ELSE IF {thread[t].path, thread[t].shape} = {Generation}
                          THEN "ok" ELSE "not found"
             new == [thread[t] EXCEPT !.pc = "done", !.answer = said]
  <2>1. /\ new.steady = thread[t].steady /\ new.pc = "done" /\ new.answer = said
        /\ new.path = thread[t].path /\ new.shape = thread[t].shape
        /\ <<new.mgr, new.conn>> = Conn(t)
    BY <1>0 DEF Thread
  <2>2. /\ thread' = [thread EXCEPT ![t] = new] /\ thread[t].pc = "send"
        /\ UNCHANGED <<server, prefix, misled>>
    BY <1>0, <1>6 DEF Send
  <2> HIDE DEF new
  <2>3. ASSUME Conn(t) \notin misled
        PROVE  /\ thread[t].path = Generation /\ thread[t].shape = Generation
               /\ thread[t].steady => said = "ok"
    BY <1>0, <2>2, <2>3 DEF ReachInv, Shaped
  <2> HIDE DEF said
  <2>4. Truthful'
    BY <2>2 DEF ReachInv, Truthful
  <2>5. QED
    BY <1>0, <2>1, <2>2, <2>3, <2>4, MoveReaches
<1>7. CASE Return(t)
  <2>1. thread' = [thread EXCEPT ![t] = Idle] /\ UNCHANGED <<server, prefix, misled>>
    BY <1>7 DEF Return
  <2>2. Truthful'
    BY <2>1 DEF ReachInv, Truthful
  <2>3. QED
    BY <2>1, <2>2, IdleType, MoveReaches
<1>8. QED
  BY <1>1, <1>2, <1>3, <1>4, <1>5, <1>6, <1>7 DEF Step

\* An outage ends the steadiness of every call in flight; a recovery brings none
\* back, and neither touches what is known of the generation.
LEMMA NextReaches == TypeInv /\ ReachInv /\ [Next]_vars => ReachInv'
<1> SUFFICES ASSUME TypeInv, ReachInv, [Next]_vars PROVE ReachInv'
  OBVIOUS
<1>1. ASSUME NEW how \in Outages, Fail(how)
      PROVE  ReachInv'
  <2>1. UNCHANGED <<prefix, misled>>
    BY <1>1 DEF Fail
  <2>2. Truthful' /\ Shaped'
    BY <1>1, <2>1, FailType DEF ReachInv, Truthful, Shaped
  <2>3. Steadfast' /\ ProbedServerIsReached'
    BY <1>1, FailType DEF Steadfast, ProbedServerIsReached, At
  <2>4. QED
    BY <2>2, <2>3 DEF ReachInv
<1>2. CASE Recover
  BY <1>2 DEF Recover, ReachInv, Truthful, Shaped, Steadfast, ProbedServerIsReached,
              At, Conn, TypeInv, TypeOK
<1>3. CASE UNCHANGED vars
  BY <1>3 DEF vars, ReachInv, Truthful, Shaped, Steadfast, ProbedServerIsReached, At, Conn
<1>4. QED
  BY <1>1, <1>2, <1>3, StepReaches DEF Next

\* Whatever races to make the manager, the connection and the probe, and
\* whatever outage comes later, a call during which the server answers finds
\* its path, unless its connection was probed in an outage (connection.py:131).
THEOREM ProbedServerIsReachedHolds == Spec => []ProbedServerIsReached
<1>1. Init => ReachInv
  <2> SUFFICES ASSUME Init PROVE ReachInv
    OBVIOUS
  <2>1. \A t \in Threads : thread[t].pc = "idle"
    BY IdleType DEF Init
  <2>2. QED
    BY <2>1 DEF Init, ReachInv, Truthful, Shaped, Steadfast, ProbedServerIsReached, At
<1>2. ReachInv => ProbedServerIsReached
  BY DEF ReachInv
<1>3. QED
  BY <1>1, <1>2, InitType, NextType, NextReaches, PTL DEF Spec
=============================================================================
