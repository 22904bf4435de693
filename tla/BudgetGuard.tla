---------------------------- MODULE BudgetGuard ----------------------------
(***************************************************************************)
(* The budget and runaway guard of one process (governance/budget.py), as  *)
(* the threads of the process go through it: check_and_record before a     *)
(* call, add_duration after it.  undo_apply calls another governed tool    *)
(* from its body, so a thread may run two calls, one inside the other, and *)
(* each is checked and charged.                                            *)
(*                                                                         *)
(* check_and_record reads the clock, then takes the lock: a thread can be  *)
(* overtaken in between, so timestamps need not enter a window in order.   *)
(*                                                                         *)
(* Bounds: MaxTime ticks of the clock; no call takes longer than           *)
(* MaxDuration, one it makes itself included (httpx has a timeout).  The   *)
(* limits come from the environment of the process and do not change.      *)
(***************************************************************************)
EXTENDS Naturals, Sequences, FiniteSets

CONSTANTS
  Threads,      \* threads of the process
  Calls,        \* fingerprints: a tool and its redacted parameters
  Replays,      \* those of undo_apply
  MaxCalls,     \* PROXY_MAX_TOOL_CALLS, or NoLimit
  MaxSeconds,   \* PROXY_MAX_TOOL_SECONDS, or NoLimit
  NoLimit,
  RunawayMax,   \* PROXY_RUNAWAY_MAX, 0 to disable the breaker
  Window,       \* PROXY_RUNAWAY_WINDOW_SEC
  MaxDuration,  \* bound: ticks a call takes at most
  MaxTime       \* bound: ticks of the clock

ASSUME LimitsAssumption == /\ NoLimit \notin Nat
                           /\ {MaxCalls, MaxSeconds} \subseteq Nat \cup {NoLimit}
                           /\ RunawayMax \in Nat /\ Window \in Nat
ASSUME ThreadsAssumption == IsFiniteSet(Threads) /\ Threads # {} /\ Calls # {}
ASSUME ReplaysAssumption == Replays \subseteq Calls
ASSUME TimeAssumption == MaxDuration \in Nat \ {0} /\ MaxTime \in Nat

VARIABLES
  now,       \* time.time(), in ticks
  thread,    \* thread[t]: the call thread t is running, the inner one of two
  outer,     \* outer[t]: the undo_apply it is running inside of, if any
  calls,     \* _State.total_calls
  seconds,   \* _State.total_seconds
  windows,   \* _State.windows: the timestamps of each fingerprint
  admitted,  \* history: the calls that passed the guard, in order
  spent      \* history: the time the admitted calls took

vars == <<now, thread, outer, calls, seconds, windows, admitted, spent>>

Rules == {"none", "budget_calls", "budget_seconds", "budget_runaway"}
Thread == [pc : {"idle", "check", "body", "mark", "end"}, fp : Calls, start : Nat,
           rule : Rules]

TypeOK ==
  /\ now \in 0..MaxTime
  /\ thread \in [Threads -> Thread] /\ outer \in [Threads -> Thread]
  /\ calls \in Nat /\ seconds \in Nat /\ spent \in Nat
  /\ windows \in [Calls -> Seq(Nat)]
  /\ admitted \in Seq([fp : Calls, at : Nat])

Idle == [pc |-> "idle", fp |-> CHOOSE c \in Calls : TRUE, start |-> 0, rule |-> "none"]

Init ==
  /\ now = 0
  /\ thread = [t \in Threads |-> Idle] /\ outer = thread
  /\ calls = 0 /\ seconds = 0 /\ spent = 0
  /\ windows = [c \in Calls |-> <<>>]
  /\ admitted = <<>>

\* _CallState.__init__ and the first line of check_and_record: the time is read.
Enter(t, c) ==
  /\ thread' = [thread EXCEPT ![t] = [pc |-> "check", fp |-> c, start |-> now,
                                      rule |-> "none"]]
  /\ UNCHANGED <<now, calls, seconds, windows, admitted, spent>>

Start(t, c) ==
  /\ thread[t].pc = "idle"
  /\ Enter(t, c)
  /\ UNCHANGED outer

\* The body of undo_apply calls the inverse tool, which is governed itself.
Replay(t, c) ==
  /\ thread[t].pc = "body" /\ thread[t].fp \in Replays /\ c \notin Replays
  /\ outer' = [outer EXCEPT ![t] = thread[t]]
  /\ Enter(t, c)

\* The window without its expired head: older timestamps behind a younger one stay.
ExpiredEarly(x, at) == x + Window <= at  \* mutant: dq[0] <= cutoff
Expired(x, at) == x + Window < at
Pruned(w, at) ==
  LET kept == {i \in DOMAIN w : ~Expired(w[i], at)} IN
  IF kept = {} THEN <<>>
  ELSE SubSeq(w, CHOOSE i \in kept : \A j \in kept : i <= j, Len(w))

CallsExceeded == MaxCalls # NoLimit /\ calls > MaxCalls  \* mutant: > for >=
CallsExhausted == MaxCalls # NoLimit /\ calls >= MaxCalls
SecondsExhausted == MaxSeconds # NoLimit /\ seconds >= MaxSeconds
Watched == RunawayMax > 0 /\ Window > 0

Refuse(t, rule) ==
  /\ thread' = [thread EXCEPT ![t].pc = "end", ![t].rule = rule]
  /\ UNCHANGED <<now, outer, calls, seconds, admitted, spent>>

\* A tripped runaway guard keeps the pruned window; the call is not added to it.
AddTripped(t, w) == Append(w, thread[t].start)  \* mutant: refused calls count too
AfterTrip(t, w) == w

\* check_and_record under the lock.
Check(t) ==
  LET c == thread[t].fp
      w == Pruned(windows[c], thread[t].start)
  IN
  /\ thread[t].pc = "check"
  /\ \/ /\ CallsExhausted
        /\ Refuse(t, "budget_calls") /\ UNCHANGED windows
     \/ /\ ~CallsExhausted /\ SecondsExhausted
        /\ Refuse(t, "budget_seconds") /\ UNCHANGED windows
     \/ /\ ~CallsExhausted /\ ~SecondsExhausted
        /\ Watched /\ Len(w) >= RunawayMax
        /\ Refuse(t, "budget_runaway")
        /\ windows' = [windows EXCEPT ![c] = AfterTrip(t, w)]
     \/ /\ ~CallsExhausted /\ ~SecondsExhausted
        /\ Watched => Len(w) < RunawayMax
        /\ windows' = IF Watched
                      THEN [windows EXCEPT ![c] = Append(w, thread[t].start)]
                      ELSE windows
        /\ calls' = calls + 1
        /\ admitted' = Append(admitted, [fp |-> c, at |-> thread[t].start])
        /\ thread' = [thread EXCEPT ![t].pc = "body"]
        /\ UNCHANGED <<now, outer, seconds, spent>>

\* add_duration, for every call that ends, refused ones included.
Refund(d) == seconds' = seconds - d  \* mutant: the sign is wrong
Overwrite(d) == seconds' = d  \* mutant: = for +=
AddDuration(d) == seconds' = seconds + d

\* The end of the inner call, well or badly, hands the thread back to undo_apply,
\* which makes no other and ends in its turn.
Resume(t) == IF outer[t].pc = "body" THEN [outer[t] EXCEPT !.pc = "mark"] ELSE Idle
Running == {"body", "mark"}

Finish(t) ==
  LET d == now - thread[t].start IN
  /\ thread[t].pc \in Running \cup {"end"}
  /\ AddDuration(d)
  /\ spent' = IF thread[t].pc \in Running THEN spent + d ELSE spent
  /\ thread' = [thread EXCEPT ![t] = Resume(t)]
  /\ outer' = [outer EXCEPT ![t] = Idle]
  /\ UNCHANGED <<now, calls, windows, admitted>>

Tick ==
  /\ now < MaxTime
  /\ \A t \in Threads : \A call \in {thread[t], outer[t]} :
       call.pc # "idle" => now - call.start < MaxDuration
  /\ now' = now + 1
  /\ UNCHANGED <<thread, outer, calls, seconds, windows, admitted, spent>>

Next == \/ \E t \in Threads : \/ \E c \in Calls : Start(t, c) \/ Replay(t, c)
                              \/ Check(t)
                              \/ Finish(t)
        \/ Tick

Spec == Init /\ [][Next]_vars
----------------------------------------------------------------------------
(* Properties.                                                             *)

AdmittedIn(c, from, to) ==
  Cardinality({i \in DOMAIN admitted : /\ admitted[i].fp = c
                                       /\ admitted[i].at \in from..to})

\* However the threads interleave, no more calls pass than the ceiling allows,
\* and a call that was refused, by whichever rule, used nothing of it
\* (budget.py:113).
CallCeiling ==
  /\ MaxCalls # NoLimit => Len(admitted) <= MaxCalls
  /\ calls = Len(admitted)

\* The wall-time ceiling is checked when a call starts and charged when it ends:
\* calls in flight overrun it, by no more than what two calls of each thread take,
\* for an undo_apply is charged for the inverse it replays a second time
\* (budget.py:131).
BoundedOverrun ==
  MaxSeconds # NoLimit =>
    spent < MaxSeconds + 2 * Cardinality(Threads) * MaxDuration

\* No window of the runaway breaker sees more identical calls than it allows,
\* plus one for each other thread: its clock may be read before, and its
\* timestamp added after, an expiry another thread acted on (budget.py:117).
RunawayBound ==
  Watched => \A c \in Calls, x \in 0..MaxTime :
               AdmittedIn(c, x, x + Window) < RunawayMax + Cardinality(Threads)

\* The breaker refuses only a call that really follows RunawayMax identical
\* ones in its window, less one for each other thread, whose older timestamp may
\* hide behind a younger one: refused calls do not prolong the cooldown, and
\* expired ones do not count (budget.py:153).
NoSpuriousTrip ==
  \A t \in Threads : thread[t].rule = "budget_runaway" =>
    LET from == IF thread[t].start > Window THEN thread[t].start - Window ELSE 0 IN
    AdmittedIn(thread[t].fp, from, MaxTime) + Cardinality(Threads) > RunawayMax
=============================================================================
