--------------------------- MODULE PatternBreaker ---------------------------
(***************************************************************************)
(* The auto-remediation pattern engine (governance/patterns.py) of one     *)
(* process: hot reload of a pattern file, arming under rate caps, and the  *)
(* circuit breaker that failed armed calls trip.                           *)
(*                                                                         *)
(* The threads of the process consult the engine before a tool body and    *)
(* report its outcome after it.  Arming and reporting hold the engine's    *)
(* lock; reloading does not.                                               *)
(*                                                                         *)
(* Bounds: MaxTime ticks, MaxEdits edits of the file, MaxArms armed calls. *)
(* Abstractions: one pattern file for the tool; its signature, approval,   *)
(* classification and expiry are the field armable.  The list of times at  *)
(* which a target was armed is a set, numbered to keep equal times apart:  *)
(* the code filters and counts it, and never reads its order.              *)
(***************************************************************************)
EXTENDS Naturals, Sequences, FiniteSets

CONSTANTS
  Threads,   \* threads of the process
  Targets,   \* values of the target parameter
  Patterns,  \* the contents the file can have
  First,     \* its content when the process starts
  NoFile,    \* the file does not exist
  Hour, Day, \* ticks of the two rate windows
  MaxTime, MaxEdits, MaxArms

Pattern == [armable : BOOLEAN, perHour : Nat, perDay : Nat,
            threshold : Nat \ {0}, disable : Nat \ {0}]

ASSUME PatternsAssumption == /\ Patterns \subseteq Pattern /\ NoFile \notin Pattern
                             /\ First \in Patterns \cup {NoFile}
ASSUME TargetsAssumption == Targets # {}
ASSUME TimeAssumption == Hour \in Nat /\ Day \in Nat /\ Hour <= Day
ASSUME BoundsAssumption == MaxTime \in Nat /\ MaxEdits \in Nat /\ MaxArms \in Nat

VARIABLES
  now,       \* time.time(), in ticks
  file,      \* the file on disk: its content, and mtime as the number of edits
  patterns,  \* self._patterns: the content last loaded
  mtime,     \* self._mtimes: the mtime last recorded
  counters,  \* self._counters, for each target
  thread,    \* thread[t]: the call thread t is running
  arms,      \* history: the armed calls, in order
  trips,     \* history: until when each trip of the breaker disables a target, in order
  overlap    \* history: two threads were reloading at the same time

vars == <<now, file, patterns, mtime, counters, thread, arms, trips, overlap>>

Content == Patterns \cup {NoFile}
Stamps == [at : Nat, nr : Nat]
Counters == [stamps : SUBSET Stamps, failures : Nat, until : Nat]
Thread == [pc : {"idle", "stat", "read", "swap", "track", "match", "arm", "body"},
           target : Targets, seen : Nat, got : Content, armed : BOOLEAN]

TypeOK ==
  /\ now \in 0..MaxTime
  /\ file \in [content : Content, mtime : 0..MaxEdits]
  /\ patterns \in Content /\ mtime \in 0..MaxEdits
  /\ counters \in [Targets -> Counters]
  /\ thread \in [Threads -> Thread]
  /\ arms \in Seq([target : Targets, at : Nat, by : Patterns])
  /\ trips \in Seq([target : Targets, until : Nat])
  /\ overlap \in BOOLEAN

Idle == [pc |-> "idle", target |-> CHOOSE g \in Targets : TRUE, seen |-> 0,
         got |-> NoFile, armed |-> FALSE]
Fresh == [stamps |-> {}, failures |-> 0, until |-> 0]

Init ==
  /\ now = 0
  /\ file = [content |-> First, mtime |-> 0]
  /\ patterns = First /\ mtime = 0
  /\ counters = [g \in Targets |-> Fresh]
  /\ thread = [t \in Threads |-> Idle]
  /\ arms = <<>> /\ trips = <<>> /\ overlap = FALSE

At(t, pc) == thread[t].pc = pc
Goto(t, pc) == thread' = [thread EXCEPT ![t].pc = pc]
----------------------------------------------------------------------------
(* match: reload if the file changed, then arm or not.                     *)

Reloading == \E t \in Threads : thread[t].pc \in {"read", "swap", "track"}

Call(t, target) ==
  /\ At(t, "idle")
  /\ thread' = [thread EXCEPT ![t] = [Idle EXCEPT !.pc = "stat", !.target = target]]
  /\ UNCHANGED <<now, file, patterns, mtime, counters, arms, trips, overlap>>

\* _maybe_reload compares mtimes; _load lists the directory and records the
\* mtime before it opens the file.
Stat(t) ==
  /\ At(t, "stat")
  /\ \/ /\ file.mtime = mtime
        /\ Goto(t, "match") /\ UNCHANGED overlap
     \/ /\ file.mtime # mtime
        /\ thread' = [thread EXCEPT ![t].pc = "read", ![t].seen = file.mtime,
                                   ![t].got = file.content]
        /\ overlap' = (overlap \/ Reloading)
  /\ UNCHANGED <<now, file, patterns, mtime, counters, arms, trips>>

\* A file that was not listed is not opened.
ReadFile(t) ==
  /\ At(t, "read")
  /\ thread' = [thread EXCEPT ![t].pc = "swap",
                  ![t].got = IF @ = NoFile THEN NoFile ELSE file.content]
  /\ UNCHANGED <<now, file, patterns, mtime, counters, arms, trips, overlap>>

\* The last two lines of _load, two assignments.
SwapPatterns(t) ==
  /\ At(t, "swap")
  /\ patterns' = thread[t].got
  /\ Goto(t, "track")
  /\ UNCHANGED <<now, file, mtime, counters, arms, trips, overlap>>

Later(t) == file.mtime  \* mutant: the mtime is taken after the file was read
Seen(t) == thread[t].seen

TrackMtime(t) ==
  /\ At(t, "track")
  /\ mtime' = Seen(t)
  /\ Goto(t, "match")
  /\ UNCHANGED <<now, file, patterns, counters, arms, trips, overlap>>

Within(s, span) == {x \in s : x.at + span > now}
HourOnly(s) == Within(s, Hour)  \* mutant: the history is cut to an hour
Kept(s) == Within(s, Day)

Capped(p, s) == \/ p.perHour > 0 /\ Cardinality(Within(s, Hour)) >= p.perHour
                \/ p.perDay > 0 /\ Cardinality(s) >= p.perDay

\* match after the reload: it takes the pattern loaded by then ...
Select(t) ==
  /\ At(t, "match")
  /\ thread' = [thread EXCEPT ![t].got = patterns,
       ![t].pc = IF patterns # NoFile THEN IF patterns.armable THEN "arm" ELSE "body"
                 ELSE "body"]
  /\ UNCHANGED <<now, file, patterns, mtime, counters, arms, trips, overlap>>

\* ... and arms it under the lock, unless the breaker or a cap forbids it.
Arm(t) ==
  LET g == thread[t].target
      p == thread[t].got
      kept == Kept(counters[g].stamps)
  IN
  /\ At(t, "arm")
  /\ \/ /\ now < counters[g].until
        /\ Goto(t, "body")
        /\ UNCHANGED <<counters, arms>>
     \/ /\ now >= counters[g].until /\ Capped(p, kept)
        /\ counters' = [counters EXCEPT ![g].stamps = kept]
        /\ Goto(t, "body")
        /\ UNCHANGED arms
     \/ /\ now >= counters[g].until /\ ~Capped(p, kept)
        /\ Len(arms) < MaxArms
        /\ counters' = [counters EXCEPT ![g].stamps = kept \cup {[at |-> now, nr |-> Len(arms) + 1]}]
        /\ thread' = [thread EXCEPT ![t].pc = "body", ![t].armed = TRUE]
        /\ arms' = Append(arms, [target |-> g, at |-> now, by |-> p])
  /\ UNCHANGED <<now, file, patterns, mtime, trips, overlap>>
----------------------------------------------------------------------------
(* report_outcome, from _finalize.                                         *)

Threshold == IF patterns = NoFile THEN 3 ELSE patterns.threshold
DisableFor == IF patterns = NoFile THEN Day ELSE patterns.disable

Cleared(c) == [c EXCEPT !.failures = 0, !.until = 0]  \* mutant: a success lifts the disable as well
Succeeded(c) == [c EXCEPT !.failures = 0]

Remaining(c) == [c EXCEPT !.failures = @ + 1,  \* mutant: a rest, not a deadline
                   !.until = IF c.failures + 1 >= Threshold THEN DisableFor - now ELSE @]
Failed(c) == [c EXCEPT !.failures = @ + 1,
                !.until = IF c.failures + 1 >= Threshold THEN now + DisableFor ELSE @]

Return(t, ok) ==
  LET g == thread[t].target
      c == counters[g]
      tripped == ~ok /\ c.failures + 1 >= Threshold
  IN
  /\ At(t, "body")
  /\ counters' = IF ~thread[t].armed THEN counters
                 ELSE [counters EXCEPT ![g] = IF ok THEN Succeeded(c) ELSE Failed(c)]
  /\ trips' = IF thread[t].armed /\ tripped
              THEN Append(trips, [target |-> g, until |-> now + DisableFor]) ELSE trips
  /\ thread' = [thread EXCEPT ![t] = Idle]
  /\ UNCHANGED <<now, file, patterns, mtime, arms, overlap>>
----------------------------------------------------------------------------
\* An operator edits, removes or restores the file.
Edit(content) ==
  /\ file.mtime < MaxEdits /\ content # file.content
  /\ file' = [content |-> content, mtime |-> file.mtime + 1]
  /\ UNCHANGED <<now, patterns, mtime, counters, thread, arms, trips, overlap>>

Tick ==
  /\ now < MaxTime
  /\ now' = now + 1
  /\ UNCHANGED <<file, patterns, mtime, counters, thread, arms, trips, overlap>>

Next ==
  \/ \E t \in Threads :
       \/ \E g \in Targets : Call(t, g)
       \/ Stat(t) \/ ReadFile(t) \/ SwapPatterns(t) \/ TrackMtime(t)
       \/ Select(t) \/ Arm(t)
       \/ \E ok \in BOOLEAN : Return(t, ok)
  \/ \E content \in Content : Edit(content)
  \/ Tick

Spec == Init /\ [][Next]_vars
----------------------------------------------------------------------------
(* Properties.                                                             *)

Recent(i, span) ==
  {j \in 1..i : arms[j].target = arms[i].target /\ arms[j].at + span > arms[i].at}

\* An armed call is within both caps of the pattern that armed it, counting the
\* calls of every thread, those armed before a reload and those before a trip
\* (patterns.py:292).
CapsHold ==
  \A i \in DOMAIN arms :
    /\ arms[i].by.perHour > 0 => Cardinality(Recent(i, Hour)) <= arms[i].by.perHour
    /\ arms[i].by.perDay > 0 => Cardinality(Recent(i, Day)) <= arms[i].by.perDay

\* While its last trip disables a target nothing arms on it: neither a success
\* nor a failure of a call that was in flight lifts or shortens the disable,
\* unless the failure is a trip of its own (patterns.py:334).
TripDisables ==
  [][ Len(arms') > Len(arms) =>
        LET g == arms'[Len(arms')].target IN
        \A i \in DOMAIN trips : trips[i].target = g /\ trips[i].until > now =>
          \E j \in DOMAIN trips : j > i /\ trips[j].target = g /\ trips[j].until <= now ]_vars

\* Every trip disables its target for the time it set (patterns.py:12: "Circuit
\* breaker (3 consecutive validation failures -> 24h disable)").
EveryTripHolds ==
  [][ Len(arms') > Len(arms) =>
        \A i \in DOMAIN trips :
          trips[i].target = arms'[Len(arms')].target => trips[i].until <= now ]_vars

\* When no reload is under way, the engine serves the file it has the mtime of
\* (patterns.py:5: "hot-reload on mtime change").
ServesTheFile == ~Reloading /\ mtime = file.mtime => patterns = file.content

\* An edit or removal in the middle of a reload never leaves it otherwise: only
\* a second reload at the same time can.
ServesTheFileUnlessOverlapping == ~overlap => ServesTheFile
=============================================================================
