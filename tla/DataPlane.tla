----------------------------- MODULE DataPlane -----------------------------
(***************************************************************************)
(* The connection of the threads of one process to one HAProxy target:     *)
(* _get_connection (mcp_server/_shared.py) makes the manager, the manager  *)
(* makes the connection (connection.py), and the connection finds out with *)
(* its first request which Data Plane API the server speaks.               *)
(*                                                                         *)
(* None of the three takes a lock.  A read of shared state and the write   *)
(* that follows it are separate steps.                                     *)
(*                                                                         *)
(* Bounds: MaxOutages changes of the server from answering to not.         *)
(* A manager is named by the thread that made it, and a connection by its  *)
(* manager and the thread that made it: a thread makes at most one manager *)
(* and one connection of a manager, as it finds them from then on.         *)
(***************************************************************************)
EXTENDS Naturals

CONSTANTS
  Threads, Nobody,
  Generation,  \* of the server's Data Plane API: "v2" or "v3"
  Outages,     \* the ways the server fails: "unreachable", "busy" (5xx)
  MaxOutages

ASSUME ThreadsAssumption == Nobody \notin Threads
ASSUME ServerAssumption == /\ Generation \in {"v2", "v3"}
                           /\ Outages \subseteq {"unreachable", "busy"}
                           /\ MaxOutages \in Nat

VARIABLES
  server,   \* [is |-> how it answers, outages |-> how often it stopped]
  manager,  \* _conn_mgr
  session,  \* session[m]: the maker of the connection in manager m
  prefix,   \* prefix[c]: _dpapi_prefix of connection c
  thread,   \* thread[t]: the call thread t is in
  misled    \* history: the connections of which a probe met an outage
vars == <<server, manager, session, prefix, thread, misled>>

Makers == Threads \cup {Nobody}
Conns == Threads \X Threads
Prefixes == {"v2", "v3"}
Steps == {"idle", "manager", "connect", "session", "resolve", "probe",
          "reshape", "path", "send", "done"}
Thread == [pc : Steps, mgr : Makers, conn : Makers,
           shape : Prefixes,   \* of the runtime-servers path
           path : Prefixes,    \* its prefix
           answer : {"none", "ok", "not found", "failed"},
           steady : BOOLEAN]   \* history: the server answered throughout the call
Idle == [pc |-> "idle", mgr |-> Nobody, conn |-> Nobody, shape |-> "v3", path |-> "v3",
         answer |-> "none", steady |-> TRUE]

TypeOK ==
  /\ server \in [is : {"up"} \cup Outages, outages : 0..MaxOutages]
  /\ manager \in Makers
  /\ session \in [Threads -> Makers]
  /\ prefix \in [Conns -> Prefixes \cup {"none"}]
  /\ thread \in [Threads -> Thread]
  /\ misled \subseteq Conns
  /\ \A t \in Threads :
       thread[t].pc \in Steps \ {"idle", "manager", "connect", "session"}
         => Nobody \notin {thread[t].mgr, thread[t].conn}

Init ==
  /\ server = [is |-> "up", outages |-> 0]
  /\ manager = Nobody
  /\ session = [t \in Threads |-> Nobody]
  /\ prefix = [c \in Conns |-> "none"]
  /\ thread = [t \in Threads |-> Idle]
  /\ misled = {}

At(t, step) == thread[t].pc = step
Goto(t, step) == thread' = [thread EXCEPT ![t].pc = step]
----------------------------------------------------------------------------
(* _get_connection and ConnectionManager.connect.                          *)

Call(t) ==
  /\ At(t, "idle")
  /\ thread' = [thread EXCEPT ![t] = [Idle EXCEPT
       !.pc = IF manager = Nobody THEN "manager" ELSE "connect",
       !.steady = (server.is = "up")]]
  /\ UNCHANGED <<server, manager, session, prefix, misled>>

MakeManager(t) ==
  /\ At(t, "manager")
  /\ manager' = t
  /\ Goto(t, "connect")
  /\ UNCHANGED <<server, session, prefix, misled>>

\* The manager is read again, and asked for its connection.
Trust(t) ==  \* mutant: what it has is not checked
  /\ At(t, "connect")
  /\ thread' = [thread EXCEPT ![t].mgr = manager, ![t].conn = session[manager],
                            ![t].pc = "resolve"]
  /\ UNCHANGED <<server, manager, session, prefix, misled>>
Connect(t) ==
  /\ At(t, "connect")
  /\ LET cached == session[manager]
     IN thread' = [thread EXCEPT ![t].mgr = manager, ![t].conn = cached,
          ![t].pc = IF cached = Nobody THEN "session" ELSE "resolve"]
  /\ UNCHANGED <<server, manager, session, prefix, misled>>

MakeSession(t) ==
  /\ At(t, "session")
  /\ session' = [session EXCEPT ![thread[t].mgr] = t]
  /\ thread' = [thread EXCEPT ![t].conn = t, ![t].pc = "resolve"]
  /\ UNCHANGED <<server, manager, prefix, misled>>
----------------------------------------------------------------------------
(* ProxyConnection._haproxy_path and _request.                             *)

Conn(t) == <<thread[t].mgr, thread[t].conn>>

Resolve(t) ==
  /\ At(t, "resolve")
  /\ Goto(t, IF prefix[Conn(t)] = "none" THEN "probe" ELSE "reshape")
  /\ UNCHANGED <<server, manager, session, prefix, misled>>

\* What the request for /v3/info says: 200 and 404, 5xx, or an exception.
Probed == CASE server.is = "up" -> Generation
            [] server.is = "busy" -> "v2"
            [] server.is = "unreachable" -> "v3"

Probe(t) ==
  /\ At(t, "probe")
  /\ prefix' = [prefix EXCEPT ![Conn(t)] = Probed]
  /\ misled' = IF server.is = "up" THEN misled ELSE misled \cup {Conn(t)}
  /\ Goto(t, "reshape")
  /\ UNCHANGED <<server, manager, session>>

\* The path of a v2 server is not only renumbered, but reshaped.
LeaveShape(t) ==  \* mutant: it is renumbered only
  /\ At(t, "reshape") /\ Goto(t, "path")
  /\ UNCHANGED <<server, manager, session, prefix, misled>>
Reshape(t) ==
  /\ At(t, "reshape")
  /\ thread' = [thread EXCEPT ![t].shape = prefix[Conn(t)], ![t].pc = "path"]
  /\ UNCHANGED <<server, manager, session, prefix, misled>>

Renumber(t) ==
  /\ At(t, "path")
  /\ thread' = [thread EXCEPT ![t].path = prefix[Conn(t)], ![t].pc = "send"]
  /\ UNCHANGED <<server, manager, session, prefix, misled>>

Send(t) ==
  /\ At(t, "send")
  /\ thread' = [thread EXCEPT ![t].pc = "done", ![t].answer =
       IF server.is # "up" THEN "failed"
       ELSE IF {thread[t].path, thread[t].shape} = {Generation} THEN "ok" ELSE "not found"]
  /\ UNCHANGED <<server, manager, session, prefix, misled>>

Return(t) ==
  /\ At(t, "done")
  /\ thread' = [thread EXCEPT ![t] = Idle]
  /\ UNCHANGED <<server, manager, session, prefix, misled>>
----------------------------------------------------------------------------
Fail(how) ==
  /\ server.is = "up" /\ server.outages < MaxOutages
  /\ server' = [is |-> how, outages |-> server.outages + 1]
  /\ thread' = [t \in Threads |-> [thread[t] EXCEPT !.steady = (At(t, "idle") /\ @)]]
  /\ UNCHANGED <<manager, session, prefix, misled>>

Recover ==
  /\ server.is # "up"
  /\ server' = [server EXCEPT !.is = "up"]
  /\ UNCHANGED <<manager, session, prefix, thread, misled>>

Step(t) == \/ Call(t) \/ MakeManager(t) \/ Connect(t) \/ MakeSession(t)
           \/ Resolve(t) \/ Probe(t) \/ Reshape(t) \/ Renumber(t) \/ Send(t) \/ Return(t)
Next == \/ \E t \in Threads : Step(t)
        \/ \E how \in Outages : Fail(how)
        \/ Recover
Spec == Init /\ [][Next]_vars
----------------------------------------------------------------------------
(* Properties.                                                             *)

\* A call during which the server answers is not told that the path does not
\* exist, whichever generation the server is, and whatever happened before it
\* (connection.py:131: "falling back to ``/v2`` so both generations work").
BothGenerationsWork ==
  \A t \in Threads : At(t, "done") /\ thread[t].steady => thread[t].answer = "ok"

\* ... unless a probe of its connection met an outage: no other interleaving of
\* the threads that make the manager, the connection and the probe, and no
\* outage once the generation is known, makes a call fail.
ProbedServerIsReached ==
  \A t \in Threads : At(t, "done") /\ thread[t].steady /\ Conn(t) \notin misled =>
                        thread[t].answer = "ok"

\* A path that is sent with one generation's prefix has its shape
\* (connection.py:136: "has to reshape those two paths, not just renumber them").
PathsAreWhole ==
  \A t \in Threads : At(t, "send") => thread[t].path = thread[t].shape
=============================================================================
