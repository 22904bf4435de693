------------------------- MODULE BudgetGuardProofs -------------------------
(***************************************************************************)
(* Proofs about BudgetGuard, for any number of threads, any limits and any *)
(* window.                                                                 *)
(***************************************************************************)
EXTENDS BudgetGuard, FiniteSetTheorems, SequenceTheorems, TLAPS

----------------------------------------------------------------------------
(* Counting the timestamps of a window.                                    *)

\* The entries of w behind position k whose time is in S, and their number.
Behind(w, k, S) == {i \in DOMAIN w : i > k /\ w[i] \in S}
Hits(w, k, S) == Cardinality(Behind(w, k, S))

\* v is w without its first k entries.
IsSuffix(v, w, k) ==
  /\ v \in Seq(Nat) /\ Len(v) = Len(w) - k
  /\ \A i \in 1..Len(v) : v[i] = w[k + i]

\* The positions of a sequence of length n.
LEMMA IndexCount ==
  ASSUME NEW n \in Nat
  PROVE  IsFiniteSet(1..n) /\ Cardinality(1..n) = n
<1>1. 1 \in Int /\ n \in Int
  OBVIOUS
<1>2. Cardinality(1..n) = IF 1 > n THEN 0 ELSE n - 1 + 1
  BY <1>1, FS_Interval
<1>3. IsFiniteSet(1..n)
  BY <1>1, FS_Interval
<1>4. QED
  BY <1>2, <1>3

\* Hits are counted in numbers, and there are no more of them than entries.
LEMMA HitsType ==
  ASSUME NEW w \in Seq(Nat), NEW k \in Nat, NEW S
  PROVE  IsFiniteSet(Behind(w, k, S)) /\ Hits(w, k, S) \in Nat /\ Hits(w, k, S) <= Len(w)
<1>1. DOMAIN w = 1..Len(w) /\ Len(w) \in Nat
  OBVIOUS
<1>2. IsFiniteSet(DOMAIN w) /\ Cardinality(DOMAIN w) = Len(w)
  BY <1>1, IndexCount
<1>3. Behind(w, k, S) \in SUBSET DOMAIN w
  BY DEF Behind
<1>4. QED
  BY <1>2, <1>3, FS_Subset, FS_CardinalityType DEF Hits

\* Fewer positions and fewer times give fewer hits.
LEMMA HitsMonotone ==
  ASSUME NEW w \in Seq(Nat), NEW k \in Nat, NEW m \in Nat, k <= m,
         NEW S, NEW T, \A i \in DOMAIN w : w[i] \in T => w[i] \in S
  PROVE  Hits(w, m, T) <= Hits(w, k, S)
<1>1. Behind(w, m, T) \in SUBSET Behind(w, k, S)
  BY DEF Behind
<1>2. QED
  BY <1>1, HitsType, FS_Subset DEF Hits

\* Appending x counts x if it is in S.
LEMMA HitsAppend ==
  ASSUME NEW w \in Seq(Nat), NEW k \in 0..Len(w), NEW x \in Nat, NEW S
  PROVE  Hits(Append(w, x), k, S) = Hits(w, k, S) + IF x \in S THEN 1 ELSE 0
<1> DEFINE v == Append(w, x)
<1>1. /\ DOMAIN v = (DOMAIN w) \cup {Len(w) + 1} /\ v[Len(w) + 1] = x
      /\ \A i \in DOMAIN w : v[i] = w[i]
      /\ Len(w) + 1 \notin DOMAIN w /\ Len(w) + 1 > k
  OBVIOUS
<1> HIDE DEF v
<1>2. Behind(v, k, S) = Behind(w, k, S) \cup IF x \in S THEN {Len(w) + 1} ELSE {}
  BY <1>1 DEF Behind
<1>3. Len(w) + 1 \notin Behind(w, k, S)
  BY <1>1 DEF Behind
<1>4. IsFiniteSet(Behind(w, k, S)) /\ Hits(w, k, S) \in Nat
  BY HitsType
<1>5. CASE x \in S
  BY <1>2, <1>3, <1>4, <1>5, FS_AddElement DEF Hits, v
<1>6. CASE x \notin S
  <2>1. Behind(v, k, S) = Behind(w, k, S)
    BY <1>2, <1>6
  <2>2. QED
    BY <1>4, <1>6, <2>1 DEF Hits, v
<1>7. QED
  BY <1>5, <1>6

\* Dropping the head moves the positions.
LEMMA HitsSuffix ==
  ASSUME NEW w \in Seq(Nat), NEW k \in 0..Len(w), NEW v, IsSuffix(v, w, k),
         NEW m \in 0..Len(v), NEW S
  PROVE  Hits(v, m, S) = Hits(w, k + m, S)
<1> DEFINE f == [i \in Behind(v, m, S) |-> k + i]
<1>1. /\ v \in Seq(Nat) /\ DOMAIN v = 1..Len(v) /\ DOMAIN w = 1..Len(w)
      /\ Len(v) = Len(w) - k /\ k \in Nat /\ m \in Nat
      /\ \A i \in 1..Len(v) : v[i] = w[k + i]
  BY DEF IsSuffix
<1>2. ASSUME NEW i \in Behind(v, m, S)
      PROVE  i \in Nat /\ k + i \in Behind(w, k + m, S)
  <2>1. i \in 1..Len(v) /\ i > m /\ v[i] \in S
    BY <1>1 DEF Behind
  <2>2. k + i \in 1..Len(w) /\ k + i > k + m
    BY <1>1, <2>1
  <2>3. w[k + i] \in S
    BY <1>1, <2>1
  <2>4. QED
    BY <1>1, <2>1, <2>2, <2>3 DEF Behind
<1>3. ASSUME NEW j \in Behind(w, k + m, S)
      PROVE  j - k \in Behind(v, m, S) /\ f[j - k] = j
  <2>1. j \in 1..Len(w) /\ j > k + m /\ w[j] \in S
    BY <1>1, <1>3 DEF Behind
  <2>2. j - k \in 1..Len(v) /\ j - k > m /\ k + (j - k) = j
    BY <1>1, <2>1
  <2>3. v[j - k] = w[j]
    BY <1>1, <2>2
  <2>4. j - k \in Behind(v, m, S)
    BY <1>1, <2>1, <2>2, <2>3 DEF Behind
  <2>5. QED
    BY <2>2, <2>4
<1>4. f \in Bijection(Behind(v, m, S), Behind(w, k + m, S))
  <2>1. f \in [Behind(v, m, S) -> Behind(w, k + m, S)]
    BY <1>2
  <2>2. \A i, j \in Behind(v, m, S) : f[i] = f[j] => i = j
    BY <1>1, <1>2
  <2>3. \A j \in Behind(w, k + m, S) : \E i \in Behind(v, m, S) : f[i] = j
    BY <1>3
  <2>4. QED
    BY <2>1, <2>2, <2>3, Zenon DEF Bijection, Injection, IsInjective, Surjection
<1>5. IsFiniteSet(Behind(v, m, S))
  BY <1>1, HitsType
<1>6. QED
  BY <1>4, <1>5, FS_Bijection DEF Hits, ExistsBijection

\* Entries that are not in S may be skipped.
LEMMA HitsSkip ==
  ASSUME NEW w \in Seq(Nat), NEW k \in 0..Len(w), NEW S,
         \A i \in 1..k : w[i] \notin S
  PROVE  Hits(w, k, S) = Hits(w, 0, S)
<1>1. Behind(w, k, S) = Behind(w, 0, S)
  BY DEF Behind
<1>2. QED
  BY <1>1 DEF Hits

\* If every time is in S or in T, the hits of both make up the window.
LEMMA HitsSplit ==
  ASSUME NEW w \in Seq(Nat), NEW S, NEW T, \A i \in DOMAIN w : w[i] \in S \cup T
  PROVE  Len(w) <= Hits(w, 0, S) + Hits(w, 0, T)
<1> DEFINE A == Behind(w, 0, S)
           B == Behind(w, 0, T)
<1>1. A \cup B = 1..Len(w) /\ Len(w) \in Nat
  BY DEF Behind
<1>2. IsFiniteSet(A) /\ IsFiniteSet(B) /\ IsFiniteSet(A \cap B)
  BY HitsType, FS_Intersection
<1> HIDE DEF A, B
<1>3. Cardinality(A \cup B) = Cardinality(A) + Cardinality(B) - Cardinality(A \cap B)
  BY <1>2, FS_Union
<1>4. Cardinality(A \cup B) = Len(w)
  BY <1>1, IndexCount
<1>5. Cardinality(A) \in Nat /\ Cardinality(B) \in Nat /\ Cardinality(A \cap B) \in Nat
  BY <1>2, FS_CardinalityType
<1>6. QED
  BY <1>3, <1>4, <1>5 DEF A, B, Hits

\* Pruned drops entries that are expired, up to the first that is not.
LEMMA PrunedIsSuffix ==
  ASSUME NEW w \in Seq(Nat), NEW at \in Nat
  PROVE  \E k \in 0..Len(w) :
           /\ IsSuffix(Pruned(w, at), w, k)
           /\ \A i \in 1..k : Expired(w[i], at)
           /\ k < Len(w) => ~Expired(w[k + 1], at)
<1> DEFINE kept == {i \in DOMAIN w : ~Expired(w[i], at)}
<1>1. DOMAIN w = 1..Len(w) /\ Len(w) \in Nat /\ kept \subseteq Nat
  OBVIOUS
<1>2. CASE kept = {}
  <2>1. Pruned(w, at) = <<>>
    BY <1>2 DEF Pruned
  <2>2. IsSuffix(Pruned(w, at), w, Len(w))
    BY <1>1, <2>1 DEF IsSuffix
  <2>3. \A i \in 1..Len(w) : Expired(w[i], at)
    BY <1>1, <1>2
  <2>4. QED
    BY <1>1, <2>2, <2>3
<1>3. CASE kept # {}
  <2> DEFINE first == CHOOSE i \in kept : \A j \in kept : i <= j
  <2>1. \E i \in kept : \A j \in kept : i <= j
    <3>1. PICK i \in kept : \A j \in kept : ~(<<j, i>> \in OpToRel(<, Nat))
      BY <1>1, <1>3, NatLessThanWellFounded, WFMin
    <3>2. ASSUME NEW j \in kept PROVE i <= j
      <4>1. i \in Nat /\ j \in Nat
        BY <1>1
      <4>2. j < i => <<j, i>> \in OpToRel(<, Nat)
        BY <4>1 DEF OpToRel
      <4>3. ~(j < i)
        BY <3>1, <4>2, Zenon
      <4>4. QED
        BY <4>1, <4>3
    <3>3. QED
      BY <3>2
  <2>2. first \in kept /\ \A j \in kept : first <= j
    BY <2>1
  <2>3. Pruned(w, at) = SubSeq(w, first, Len(w))
    BY <1>3 DEF Pruned
  <2> HIDE DEF first
  <2>4. first \in 1..Len(w) /\ ~Expired(w[first], at)
    BY <1>1, <2>2
  <2>5. \A i \in 1..(first - 1) : Expired(w[i], at)
    BY <1>1, <2>2, <2>4
  <2>6. IsSuffix(Pruned(w, at), w, first - 1)
    BY <1>1, <2>3, <2>4 DEF IsSuffix
  <2>7. first - 1 \in 0..Len(w) /\ first - 1 + 1 = first
    BY <1>1, <2>4
  <2>8. QED
    BY <2>4, <2>5, <2>6, <2>7
<1>4. QED
  BY <1>2, <1>3
----------------------------------------------------------------------------
(* Types and clocks.                                                       *)

\* A call in progress began in the past, at most MaxDuration ago.
Recent(call) ==
  call.pc # "idle" => call.start <= now /\ now <= call.start + MaxDuration

\* Every call is recent, and only a refused call has a rule; a call that runs
\* another one inside was admitted, and that one runs no third.
Timely ==
  \A t \in Threads :
    /\ Recent(thread[t]) /\ Recent(outer[t])
    /\ thread[t].rule # "none" => thread[t].pc = "end"
    /\ outer[t].pc \in {"idle", "body"} /\ outer[t].rule = "none"
    /\ outer[t].pc = "body" => thread[t].pc # "idle" /\ thread[t].fp \notin Replays

\* The two ways out of check_and_record, and what each does to the windows.
Refused(t, c, w) ==
  /\ thread'[t].pc = "end"
  /\ UNCHANGED <<calls, admitted>>
  /\ \/ UNCHANGED windows /\ thread'[t].rule # "budget_runaway"
     \/ /\ Watched /\ Len(w) >= RunawayMax
        /\ windows' = [windows EXCEPT ![c] = w]

Admitted(t, c, w, at) ==
  /\ thread'[t].pc = "body" /\ thread'[t].rule = thread[t].rule
  /\ ~CallsExhausted /\ ~SecondsExhausted
  /\ calls' = calls + 1
  /\ admitted' = Append(admitted, [fp |-> c, at |-> at])
  /\ \/ ~Watched /\ UNCHANGED windows
     \/ /\ Watched /\ Len(w) < RunawayMax
        /\ windows' = [windows EXCEPT ![c] = Append(w, at)]

LEMMA CheckCases ==
  ASSUME TypeOK, NEW t \in Threads, Check(t),
         NEW c, c = thread[t].fp, NEW at, at = thread[t].start
  PROVE  /\ thread[t].pc = "check" /\ c \in Calls /\ at \in Nat
         /\ UNCHANGED <<now, outer, seconds, spent>>
         /\ thread' \in [Threads -> Thread]
         /\ \A u \in Threads : u # t => thread'[u] = thread[u]
         /\ thread'[t].fp = c /\ thread'[t].start = at
         /\ \/ Refused(t, c, Pruned(windows[c], at))
            \/ Admitted(t, c, Pruned(windows[c], at), at)
<1> DEFINE w == Pruned(windows[c], at)
<1>0. /\ thread \in [Threads -> Thread] /\ thread[t] \in Thread
      /\ thread[t].pc = "check" /\ c \in Calls /\ at \in Nat
  BY DEF TypeOK, Thread, Check
<1>1. ASSUME NEW rule \in Rules, Refuse(t, rule)
      PROVE  /\ thread' \in [Threads -> Thread]
             /\ \A u \in Threads : u # t => thread'[u] = thread[u]
             /\ thread'[t].fp = c /\ thread'[t].start = at
             /\ thread'[t].pc = "end" /\ thread'[t].rule = rule
             /\ UNCHANGED <<now, outer, calls, seconds, admitted, spent>>
  BY <1>0, <1>1 DEF Refuse, Thread
<1>2. ASSUME thread' = [thread EXCEPT ![t].pc = "body"]
      PROVE  /\ thread' \in [Threads -> Thread]
             /\ \A u \in Threads : u # t => thread'[u] = thread[u]
             /\ thread'[t].fp = c /\ thread'[t].start = at
             /\ thread'[t].pc = "body" /\ thread'[t].rule = thread[t].rule
  BY <1>0, <1>2 DEF Thread
<1> HIDE DEF w
<1>3. \/ Refuse(t, "budget_calls") /\ UNCHANGED windows
      \/ Refuse(t, "budget_seconds") /\ UNCHANGED windows
      \/ /\ Watched /\ Len(w) >= RunawayMax
         /\ Refuse(t, "budget_runaway")
         /\ windows' = [windows EXCEPT ![c] = w]
      \/ /\ ~CallsExhausted /\ ~SecondsExhausted
         /\ Watched => Len(w) < RunawayMax
         /\ windows' = IF Watched
                       THEN [windows EXCEPT ![c] = Append(w, at)]
                       ELSE windows
         /\ calls' = calls + 1
         /\ admitted' = Append(admitted, [fp |-> c, at |-> at])
         /\ thread' = [thread EXCEPT ![t].pc = "body"]
         /\ UNCHANGED <<now, outer, seconds, spent>>
  BY DEF Check, AfterTrip, w
<1>4. CASE \/ Refuse(t, "budget_calls") /\ UNCHANGED windows
           \/ Refuse(t, "budget_seconds") /\ UNCHANGED windows
  BY <1>0, <1>1, <1>4 DEF Rules, Refused, w
<1>5. CASE /\ Watched /\ Len(w) >= RunawayMax
           /\ Refuse(t, "budget_runaway")
           /\ windows' = [windows EXCEPT ![c] = w]
  BY <1>0, <1>1, <1>5 DEF Rules, Refused, w
<1>6. CASE /\ ~CallsExhausted /\ ~SecondsExhausted
           /\ Watched => Len(w) < RunawayMax
           /\ windows' = IF Watched
                         THEN [windows EXCEPT ![c] = Append(w, at)]
                         ELSE windows
           /\ calls' = calls + 1
           /\ admitted' = Append(admitted, [fp |-> c, at |-> at])
           /\ thread' = [thread EXCEPT ![t].pc = "body"]
           /\ UNCHANGED <<now, outer, seconds, spent>>
  <2>1. /\ thread' \in [Threads -> Thread]
        /\ \A u \in Threads : u # t => thread'[u] = thread[u]
        /\ thread'[t].fp = c /\ thread'[t].start = at
        /\ thread'[t].pc = "body" /\ thread'[t].rule = thread[t].rule
    BY <1>2, <1>6
  <2>2. Admitted(t, c, w, at)
    BY <1>6, <2>1 DEF Admitted
  <2>3. QED
    BY <1>0, <1>6, <2>1, <2>2 DEF w
<1>7. QED
  BY <1>3, <1>4, <1>5, <1>6

LEMMA IdleType == Idle \in Thread /\ Idle.pc = "idle" /\ Idle.rule = "none"
BY ThreadsAssumption DEF Idle, Thread, Rules

\* The call a thread comes back to.
LEMMA ResumeType ==
  ASSUME TypeOK, NEW t \in Threads
  PROVE  /\ Resume(t) \in Thread
         /\ outer[t].pc = "body" =>
              /\ Resume(t).pc = "mark" /\ Resume(t).rule = outer[t].rule
              /\ Resume(t).start = outer[t].start
         /\ outer[t].pc # "body" => Resume(t).pc = "idle" /\ Resume(t).rule = "none"
<1>1. outer[t] \in Thread
  BY DEF TypeOK
<1>2. QED
  BY <1>1, IdleType DEF Resume, Thread

LEMMA NextType ==
  ASSUME TypeOK, Timely, [Next]_vars
  PROVE  TypeOK' /\ Timely'
<1> USE TimeAssumption
<1>0. /\ now \in 0..MaxTime /\ now \in Nat
      /\ thread \in [Threads -> Thread] /\ outer \in [Threads -> Thread]
      /\ calls \in Nat /\ seconds \in Nat /\ spent \in Nat
      /\ windows \in [Calls -> Seq(Nat)]
      /\ admitted \in Seq([fp : Calls, at : Nat])
      /\ \A t \in Threads : /\ thread[t].start \in Nat /\ thread[t].fp \in Calls
                            /\ outer[t].start \in Nat
  BY DEF TypeOK, Thread
<1>1. CASE UNCHANGED vars
  BY <1>0, <1>1 DEF vars, TypeOK, Timely, Recent
<1>2. ASSUME NEW t \in Threads, NEW c \in Calls, Start(t, c) \/ Replay(t, c)
      PROVE  TypeOK' /\ Timely'
  <2> DEFINE new == [pc |-> "check", fp |-> c, start |-> now, rule |-> "none"]
  <2>1. /\ new \in Thread /\ new.pc = "check" /\ new.start = now /\ new.rule = "none"
        /\ new.fp = c
    BY <1>0 DEF Thread, Rules
  <2>2. thread' = [thread EXCEPT ![t] = new]
        /\ UNCHANGED <<now, calls, seconds, windows, admitted, spent>>
    BY <1>2 DEF Start, Replay, Enter
  <2> HIDE DEF new
  <2>3. \/ thread[t].pc = "idle" /\ outer' = outer
        \/ /\ thread[t].pc = "body" /\ c \notin Replays
           /\ outer' = [outer EXCEPT ![t] = thread[t]]
    BY <1>2 DEF Start, Replay
  <2>4. outer' \in [Threads -> Thread] /\ thread' \in [Threads -> Thread]
    BY <1>0, <2>1, <2>2, <2>3
  <2>5. TypeOK'
    BY <1>0, <2>2, <2>4 DEF TypeOK
  <2>6. Timely'
    <3>1. ASSUME NEW u \in Threads, u # t
          PROVE  thread'[u] = thread[u] /\ outer'[u] = outer[u]
      BY <1>0, <2>2, <2>3, <3>1
    <3>2. thread'[t] = new /\ outer'[t] \in {outer[t], thread[t]}
      BY <1>0, <2>2, <2>3
    <3>3. new.start <= now' /\ now' <= new.start + MaxDuration
      BY <1>0, <2>1, <2>2
    <3>4. CASE thread[t].pc = "idle" /\ outer' = outer
      BY <1>0, <2>1, <2>2, <3>1, <3>2, <3>3, <3>4 DEF Timely, Recent
    <3>5. CASE /\ thread[t].pc = "body" /\ c \notin Replays
               /\ outer' = [outer EXCEPT ![t] = thread[t]]
      <4>1. outer'[t] = thread[t]
        BY <1>0, <3>5
      <4>2. QED
        BY <1>0, <2>1, <2>2, <3>1, <3>2, <3>3, <3>5, <4>1 DEF Timely, Recent
    <3>6. QED
      BY <2>3, <3>4, <3>5
  <2>7. QED
    BY <2>5, <2>6
<1>3. ASSUME NEW t \in Threads, Check(t)
      PROVE  TypeOK' /\ Timely'
  <2> DEFINE c == thread[t].fp
             at == thread[t].start
             w == Pruned(windows[c], at)
  <2>1. c \in Calls /\ at \in Nat /\ w \in Seq(Nat)
    BY <1>0, PrunedIsSuffix DEF IsSuffix
  <2>2. /\ thread[t].pc = "check" /\ UNCHANGED <<now, outer, seconds, spent>>
        /\ thread' \in [Threads -> Thread]
        /\ \A u \in Threads : u # t => thread'[u] = thread[u]
        /\ thread'[t].start = at /\ thread'[t].fp = c
        /\ Refused(t, c, w) \/ Admitted(t, c, w, at)
    BY <1>3, CheckCases
  <2> HIDE DEF w, c, at
  <2>3. windows' \in [Calls -> Seq(Nat)]
    <3>1. Append(w, at) \in Seq(Nat)
      BY <2>1
    <3>2. windows' \in {windows, [windows EXCEPT ![c] = w],
                        [windows EXCEPT ![c] = Append(w, at)]}
      BY <2>2 DEF Refused, Admitted
    <3>3. QED
      BY <1>0, <2>1, <3>1, <3>2
  <2>4. calls' \in Nat /\ admitted' \in Seq([fp : Calls, at : Nat])
    <3> DEFINE entry == [fp |-> c, at |-> at]
    <3>1. entry \in [fp : Calls, at : Nat]
      BY <2>1
    <3> HIDE DEF entry
    <3>2. Append(admitted, entry) \in Seq([fp : Calls, at : Nat])
      BY <1>0, <3>1
    <3>3. calls' = calls \/ calls' = calls + 1
      BY <2>2 DEF Refused, Admitted
    <3>4. admitted' = admitted \/ admitted' = Append(admitted, entry)
      BY <2>2 DEF Refused, Admitted, entry
    <3>5. admitted' \in Seq([fp : Calls, at : Nat])
      BY <1>0, <3>2, <3>4, Zenon
    <3>6. QED
      BY <1>0, <3>3, <3>5
  <2>5. Timely'
    BY <1>0, <2>2 DEF Timely, Recent, Refused, Admitted, at, c
  <2>6. QED
    BY <1>0, <2>2, <2>3, <2>4, <2>5 DEF TypeOK
<1>4. ASSUME NEW t \in Threads, Finish(t)
      PROVE  TypeOK' /\ Timely'
  <2>0. thread[t].pc # "idle"
    BY <1>4 DEF Finish, Running
  <2>1. now - thread[t].start \in Nat
    BY <1>0, <2>0 DEF Timely, Recent
  <2>2. /\ seconds' \in Nat /\ spent' \in Nat
        /\ thread' = [thread EXCEPT ![t] = Resume(t)]
        /\ outer' = [outer EXCEPT ![t] = Idle]
        /\ UNCHANGED <<now, calls, windows, admitted>>
    <3> DEFINE d == now - thread[t].start
    <3>1. /\ seconds' = seconds + d /\ spent' \in {spent, spent + d}
          /\ thread' = [thread EXCEPT ![t] = Resume(t)]
          /\ outer' = [outer EXCEPT ![t] = Idle]
          /\ UNCHANGED <<now, calls, windows, admitted>>
      BY <1>4 DEF Finish, AddDuration
    <3> HIDE DEF d
    <3>2. QED
      BY <1>0, <2>1, <3>1 DEF d
  <2>3. thread' \in [Threads -> Thread] /\ outer' \in [Threads -> Thread]
    BY <1>0, <2>2, IdleType, ResumeType
  <2>4. ASSUME NEW u \in Threads, u # t
        PROVE  thread'[u] = thread[u] /\ outer'[u] = outer[u]
    BY <1>0, <2>2, <2>4
  <2>5. thread'[t] = Resume(t) /\ outer'[t] = Idle
    BY <1>0, <2>2
  <2>6. /\ Recent(Resume(t)) /\ Resume(t).rule = "none"
    BY ResumeType DEF Timely, Recent
  <2>7. Timely'
    BY <2>2, <2>4, <2>5, <2>6, IdleType DEF Timely, Recent
  <2>8. QED
    BY <1>0, <2>2, <2>3, <2>7 DEF TypeOK
<1>5. CASE Tick
  <2>1. /\ now' = now + 1 /\ now' \in 0..MaxTime
        /\ UNCHANGED <<thread, outer, calls, seconds, windows, admitted, spent>>
        /\ \A u \in Threads :
             /\ thread[u].pc # "idle" => now - thread[u].start < MaxDuration
             /\ outer[u].pc # "idle" => now - outer[u].start < MaxDuration
    BY <1>0, <1>5 DEF Tick
  <2>2. ASSUME NEW u \in Threads
        PROVE  Recent(thread[u])' /\ Recent(outer[u])'
    BY <1>0, <2>1 DEF Timely, Recent
  <2>3. Timely'
    BY <2>1, <2>2 DEF Timely
  <2>4. QED
    BY <1>0, <2>1, <2>3 DEF TypeOK
<1>6. QED
  BY <1>1, <1>2, <1>3, <1>4, <1>5 DEF Next

LEMMA InitType == Init => TypeOK /\ Timely
BY IdleType, TimeAssumption DEF Init, TypeOK, Timely, Recent

\* Every variable keeps its type, and no call in progress is older than the
\* timeout of its request allows (connection.py:33).
THEOREM TypeCorrect == Spec => [](TypeOK /\ Timely)
<1>1. TypeOK /\ Timely /\ [Next]_vars => (TypeOK /\ Timely)'
  BY NextType
<1>2. QED
  BY <1>1, InitType, PTL DEF Spec
----------------------------------------------------------------------------
(* The two ceilings.                                                       *)

LEMMA NextCeiling ==
  ASSUME TypeOK, CallCeiling, [Next]_vars
  PROVE  CallCeiling'
<1>0. /\ calls \in Nat /\ admitted \in Seq([fp : Calls, at : Nat])
      /\ MaxCalls # NoLimit => MaxCalls \in Nat
  BY LimitsAssumption DEF TypeOK
<1>1. ASSUME NEW t \in Threads, Check(t)
      PROVE  CallCeiling'
  <2> DEFINE c == thread[t].fp
             at == thread[t].start
             w == Pruned(windows[c], at)
  <2>1. Refused(t, c, w) \/ Admitted(t, c, w, at)
    BY <1>1, CheckCases
  <2>2. CASE Refused(t, c, w)
    BY <2>2 DEF Refused, CallCeiling
  <2>3. CASE Admitted(t, c, w, at)
    <3>1. calls' = calls + 1 /\ ~CallsExhausted /\ \E e : admitted' = Append(admitted, e)
      BY <2>3 DEF Admitted
    <3>2. Len(admitted') = Len(admitted) + 1
      BY <1>0, <3>1
    <3>3. QED
      BY <1>0, <3>1, <3>2 DEF CallCeiling, CallsExhausted
  <2>4. QED
    BY <2>1, <2>2, <2>3
<1>2. CASE UNCHANGED <<calls, admitted>>
  BY <1>2 DEF CallCeiling
<1>3. QED
  BY <1>1, <1>2 DEF Next, Start, Replay, Enter, Finish, Tick, vars

\* The guard never lets a call past the ceiling, however the threads overtake
\* each other (budget.py:113).
THEOREM CallCeilingHolds == Spec => []CallCeiling
<1>1. Init => CallCeiling
  BY LimitsAssumption DEF Init, CallCeiling
<1>2. TypeOK /\ CallCeiling /\ [Next]_vars => CallCeiling'
  BY NextCeiling
<1>3. QED
  BY <1>1, <1>2, TypeCorrect, PTL DEF Spec

\* The threads that run no body, and those that run none around another call.
\* For each of the two a thread can still overrun the time ceiling by one call;
\* the bodies in progress have been charged for nothing yet.
Outside == {t \in Threads : thread[t].pc \notin Running}
Alone == {t \in Threads : outer[t].pc # "body"}
Room == Cardinality(Outside) + Cardinality(Alone)

Overrun ==
  /\ spent <= seconds
  /\ MaxSeconds # NoLimit => spent < MaxSeconds + Room * MaxDuration

LEMMA RoomSize ==
  /\ IsFiniteSet(Outside) /\ Cardinality(Outside) \in Nat
  /\ IsFiniteSet(Alone) /\ Cardinality(Alone) \in Nat
  /\ Room \in Nat /\ Room <= 2 * Cardinality(Threads)
  /\ Room' \in Nat /\ Cardinality(Threads) \in Nat
<1>1. /\ Outside \in SUBSET Threads /\ Alone \in SUBSET Threads
      /\ Outside' \in SUBSET Threads /\ Alone' \in SUBSET Threads
  BY DEF Outside, Alone
<1>2. ASSUME NEW S \in SUBSET Threads
      PROVE  IsFiniteSet(S) /\ Cardinality(S) \in Nat /\ Cardinality(S) <= Cardinality(Threads)
  BY ThreadsAssumption, FS_Subset, FS_CardinalityType
<1>3. Cardinality(Threads) \in Nat
  BY ThreadsAssumption, FS_CardinalityType
<1>4. /\ Cardinality(Outside) \in Nat /\ Cardinality(Outside) <= Cardinality(Threads)
      /\ Cardinality(Alone) \in Nat /\ Cardinality(Alone) <= Cardinality(Threads)
      /\ Cardinality(Outside') \in Nat /\ Cardinality(Alone') \in Nat
      /\ IsFiniteSet(Outside) /\ IsFiniteSet(Alone)
  BY <1>1, <1>2
<1>5. \A a, b, n \in Nat : a <= n /\ b <= n => a + b \in Nat /\ a + b <= 2 * n
  OBVIOUS
<1>6. QED
  BY <1>3, <1>4, <1>5 DEF Room

\* Multiplication is monotone, and distributes over one more.
LEMMA OneMore ==
  ASSUME NEW m \in Nat, NEW n \in Nat, NEW d \in Nat
  PROVE  (m + 1) * d = m * d + d /\ (m <= n => m * d <= n * d) /\ m * d \in Nat
OBVIOUS

\* One more and one fewer.
LEMMA FewMore ==
  \A a, b \in Nat, n \in {0, 1} : a + n + b = a + b + n /\ a + n - 1 + (b + 1) = a + b + n
OBVIOUS

\* What the end of a call does to the room: a body in progress gives its place
\* back, and a refused call had none.
LEMMA FinishRoom ==
  ASSUME TypeOK, Timely, NEW t \in Threads, Finish(t)
  PROVE  Room' = Room + IF thread[t].pc \in Running THEN 1 ELSE 0
<1> DEFINE n == IF thread[t].pc \in Running THEN 1 ELSE 0
<1>0. n \in {0, 1} /\ (n = 0 <=> thread[t].pc \notin Running)
  OBVIOUS
<1> HIDE DEF n
<1>1. /\ thread \in [Threads -> Thread] /\ outer \in [Threads -> Thread]
      /\ thread' = [thread EXCEPT ![t] = Resume(t)] /\ outer' = [outer EXCEPT ![t] = Idle]
  BY DEF TypeOK, Finish
<1>2. /\ thread'[t] = Resume(t) /\ outer'[t] = Idle
      /\ \A u \in Threads : u # t => thread'[u] = thread[u] /\ outer'[u] = outer[u]
  BY <1>1
<1>3. /\ "idle" \notin Running /\ "mark" \in Running /\ "body" \in Running
      /\ Idle.pc = "idle"
  BY IdleType DEF Running
<1>4. Alone' = Alone \cup {t}
  BY <1>2, <1>3 DEF Alone
<1>5. CASE outer[t].pc # "body"
  <2>1. Resume(t).pc = "idle" /\ t \in Alone
    BY <1>5, ResumeType DEF Alone
  <2>2. Alone' = Alone /\ Outside' = Outside \cup {t}
    BY <1>2, <1>3, <1>4, <2>1 DEF Outside
  <2>3. t \in Outside <=> thread[t].pc \notin Running
    BY DEF Outside
  <2>4. Cardinality(Outside')
          = IF t \in Outside THEN Cardinality(Outside) ELSE Cardinality(Outside) + 1
    BY <2>2, RoomSize, FS_AddElement
  <2>5. Alone' = Alone
    BY <2>2
  <2>6. Cardinality(Outside') = Cardinality(Outside) + n
    BY <1>0, <2>3, <2>4, RoomSize
  <2>7. QED
    BY <1>0, <2>5, <2>6, RoomSize, FewMore DEF Room, n
<1>6. CASE outer[t].pc = "body"
  <2>1. Resume(t).pc = "mark" /\ t \notin Alone
    BY <1>6, ResumeType DEF Alone
  <2>2. Outside' = Outside \ {t}
    BY <1>2, <1>3, <2>1 DEF Outside
  <2>3. t \in Outside <=> thread[t].pc \notin Running
    BY DEF Outside
  <2>4. Cardinality(Outside')
          = IF t \in Outside THEN Cardinality(Outside) - 1 ELSE Cardinality(Outside)
    BY <2>2, RoomSize, FS_RemoveElement
  <2>5. Cardinality(Alone') = Cardinality(Alone) + 1
    BY <1>4, <2>1, RoomSize, FS_AddElement
  <2>6. Cardinality(Outside') = Cardinality(Outside) + n - 1
    BY <1>0, <2>3, <2>4, RoomSize
  <2>7. QED
    BY <1>0, <2>5, <2>6, RoomSize, FewMore DEF Room, n
<1>7. QED
  BY <1>5, <1>6

\* A call that enters the guard takes no place.
LEMMA EnterRoom ==
  ASSUME TypeOK, Timely, NEW t \in Threads, NEW c \in Calls, Start(t, c) \/ Replay(t, c)
  PROVE  Room' = Room
<1> DEFINE new == [pc |-> "check", fp |-> c, start |-> now, rule |-> "none"]
<1>1. /\ thread \in [Threads -> Thread] /\ outer \in [Threads -> Thread]
      /\ thread' = [thread EXCEPT ![t] = new]
  BY DEF TypeOK, Start, Replay, Enter
<1>2. new.pc = "check" /\ {"idle", "check"} \cap Running = {} /\ "body" \in Running
  BY DEF Running
<1> HIDE DEF new
<1>3. thread'[t].pc \notin Running /\ \A u \in Threads : u # t => thread'[u] = thread[u]
  BY <1>1, <1>2
<1>4. Outside' = Outside \cup {t}
  BY <1>3 DEF Outside
<1>5. CASE Start(t, c)
  <2>1. thread[t].pc = "idle" /\ outer' = outer
    BY <1>5 DEF Start
  <2>2. Outside' = Outside /\ Alone' = Alone
    BY <1>2, <1>4, <2>1 DEF Outside, Alone
  <2>3. QED
    BY <2>2 DEF Room
<1>6. CASE Replay(t, c)
  <2>1. /\ thread[t].pc = "body" /\ thread[t].fp \in Replays
        /\ outer' = [outer EXCEPT ![t] = thread[t]]
    BY <1>6 DEF Replay
  <2>2. t \in Alone /\ t \notin Outside
    BY <1>2, <2>1 DEF Timely, Alone, Outside
  <2>3. Alone' = Alone \ {t}
    BY <1>1, <2>1 DEF Alone
  <2>4. Cardinality(Outside') = Cardinality(Outside) + 1
    BY <1>4, <2>2, RoomSize, FS_AddElement
  <2>5. Cardinality(Alone') = Cardinality(Alone) - 1
    BY <2>2, <2>3, RoomSize, FS_RemoveElement
  <2>6. QED
    BY <2>4, <2>5, RoomSize DEF Room
<1>7. QED
  BY <1>5, <1>6

LEMMA NextOverrun ==
  ASSUME TypeOK, Timely, Overrun, [Next]_vars
  PROVE  Overrun'
<1>0. /\ thread \in [Threads -> Thread] /\ now \in Nat
      /\ spent \in Nat /\ seconds \in Nat /\ MaxDuration \in Nat
      /\ MaxSeconds # NoLimit => MaxSeconds \in Nat
      /\ \A t \in Threads : thread[t].start \in Nat
  BY LimitsAssumption, TimeAssumption DEF TypeOK, Thread
<1>1. Room \in Nat /\ Room * MaxDuration \in Nat
  BY <1>0, RoomSize, OneMore
<1>2. ASSUME NEW t \in Threads, Finish(t)
      PROVE  Overrun'
  <2> DEFINE d == now - thread[t].start
  <2>1. d \in Nat /\ d <= MaxDuration
    <3>1. thread[t].pc # "idle"
      BY <1>2 DEF Finish, Running
    <3>2. thread[t].start <= now /\ now <= thread[t].start + MaxDuration
      BY <3>1 DEF Timely, Recent
    <3>3. QED
      BY <1>0, <3>2
  <2>2. /\ spent' = IF thread[t].pc \in Running THEN spent + d ELSE spent
        /\ seconds' = seconds + d
    BY <1>2 DEF Finish, AddDuration
  <2>3. Room' = Room + IF thread[t].pc \in Running THEN 1 ELSE 0
    BY <1>2, FinishRoom
  <2>4. (Room + 1) * MaxDuration = Room * MaxDuration + MaxDuration
    BY <1>0, <1>1, OneMore
  <2> DEFINE room == Room * MaxDuration
  <2>5. room \in Nat
    BY <1>1
  <2>6. spent' <= seconds'
    <3> HIDE DEF d
    <3>1. spent <= seconds /\ spent' \in {spent, spent + d}
      BY <2>2 DEF Overrun
    <3>2. QED
      BY <1>0, <2>1, <2>2, <3>1
  <2>7. ASSUME MaxSeconds # NoLimit
        PROVE  spent' < MaxSeconds + Room' * MaxDuration
    <3>1. spent < MaxSeconds + room
      BY <2>7 DEF Overrun
    <3> HIDE DEF d, room
    <3>2. CASE thread[t].pc \in Running
      <4>1. spent + d < MaxSeconds + (room + MaxDuration)
        BY <1>0, <2>1, <2>5, <2>7, <3>1
      <4>2. Room' * MaxDuration = room + MaxDuration
        BY <2>3, <2>4, <3>2 DEF room
      <4>3. QED
        BY <2>2, <3>2, <4>1, <4>2
    <3>3. CASE thread[t].pc \notin Running
      <4>1. Room' = Room
        BY <1>1, <2>3, <3>3
      <4>2. QED
        BY <2>2, <3>1, <3>3, <4>1 DEF room
    <3>4. QED
      BY <3>2, <3>3
  <2>8. QED
    BY <2>6, <2>7 DEF Overrun
<1>3. ASSUME NEW t \in Threads, Check(t)
      PROVE  Overrun'
  <2> DEFINE c == thread[t].fp
             at == thread[t].start
             w == Pruned(windows[c], at)
  <2>1. /\ thread[t].pc = "check" /\ UNCHANGED <<outer, seconds, spent>>
        /\ thread' \in [Threads -> Thread]
        /\ \A u \in Threads : u # t => thread'[u] = thread[u]
        /\ Refused(t, c, w) \/ Admitted(t, c, w, at)
    BY <1>3, CheckCases
  <2>2. CASE Refused(t, c, w)
    <3>1. Outside' = Outside /\ Alone' = Alone
      BY <2>1, <2>2 DEF Refused, Outside, Alone, Running
    <3>2. QED
      BY <2>1, <3>1 DEF Overrun, Room
  <2>3. CASE Admitted(t, c, w, at)
    <3>1. ~SecondsExhausted
      BY <2>3 DEF Admitted
    <3>2. Room' * MaxDuration \in Nat
      BY <1>0, RoomSize, OneMore
    <3>3. QED
      BY <1>0, <2>1, <3>1, <3>2 DEF Overrun, SecondsExhausted
  <2>4. QED
    BY <2>1, <2>2, <2>3
<1>4. ASSUME NEW t \in Threads, NEW c \in Calls, Start(t, c) \/ Replay(t, c)
      PROVE  Overrun'
  <2>1. UNCHANGED <<seconds, spent>>
    BY <1>4 DEF Start, Replay, Enter
  <2>2. Room' = Room
    BY <1>4, EnterRoom
  <2>3. QED
    BY <2>1, <2>2 DEF Overrun
<1>5. CASE UNCHANGED <<thread, outer, seconds, spent>>
  BY <1>5 DEF Overrun, Room, Outside, Alone
<1>6. QED
  BY <1>2, <1>3, <1>4, <1>5 DEF Next, Tick, vars

LEMMA InitOverrun == Init => Overrun
<1> SUFFICES ASSUME Init PROVE Overrun
  OBVIOUS
<1>1. Outside = Threads
  BY IdleType DEF Init, Outside, Running
<1>2. Cardinality(Threads) \in Nat /\ Cardinality(Threads) # 0
  BY ThreadsAssumption, FS_CardinalityType, FS_EmptySet
<1>3. Room \in Nat /\ 1 <= Room
  BY <1>1, <1>2, RoomSize DEF Room
<1>4. 1 * MaxDuration <= Room * MaxDuration /\ Room * MaxDuration \in Nat
  BY <1>3, TimeAssumption, OneMore
<1>5. MaxSeconds # NoLimit => 0 < MaxSeconds + Room * MaxDuration
  BY <1>4, TimeAssumption, LimitsAssumption
<1>6. QED
  BY <1>5 DEF Init, Overrun

\* The calls in flight overrun the time ceiling by less than two calls of each
\* thread, an undo_apply and the inverse it replays, for every number of threads
\* and every timeout (budget.py:131).
THEOREM BoundedOverrunHolds == Spec => []BoundedOverrun
<1>1. TypeOK /\ Overrun => BoundedOverrun
  <2> SUFFICES ASSUME TypeOK, Overrun, MaxSeconds # NoLimit
               PROVE  spent < MaxSeconds + 2 * Cardinality(Threads) * MaxDuration
    BY DEF BoundedOverrun
  <2> DEFINE some == Room * MaxDuration
             all == 2 * Cardinality(Threads) * MaxDuration
  <2>1. some <= all /\ some \in Nat /\ all \in Nat
    <3>1. 2 * Cardinality(Threads) \in Nat
      BY RoomSize
    <3>2. QED
      BY <3>1, RoomSize, OneMore, TimeAssumption
  <2>2. spent < MaxSeconds + some /\ spent \in Nat /\ MaxSeconds \in Nat
    BY LimitsAssumption DEF Overrun, TypeOK
  <2> HIDE DEF some, all
  <2>3. spent < MaxSeconds + all
    BY <2>1, <2>2
  <2> QED
    BY <2>3 DEF all
<1>2. TypeOK /\ Timely /\ Overrun /\ [Next]_vars => Overrun'
  BY NextOverrun
<1>3. QED
  BY <1>1, <1>2, InitOverrun, TypeCorrect, PTL DEF Spec
----------------------------------------------------------------------------
(* Threads between their reading of the clock and the lock, and the log of *)
(* admitted calls, as functions of their time.                             *)

\* The threads th that wait to have a call of c checked, with a time in S.
Waiting(th, c, S) ==
  {t \in Threads : th[t].pc = "check" /\ th[t].fp = c /\ th[t].start \in S}
Waiters(th, c, S) == Cardinality(Waiting(th, c, S))

\* The calls of c in the log with a time in S, and their number.
Logged(log, c, S) == {i \in DOMAIN log : log[i].fp = c /\ log[i].at \in S}
Passed(log, c, S) == Cardinality(Logged(log, c, S))

Entries == [fp : Calls, at : Nat]

LEMMA PassedType ==
  ASSUME NEW log \in Seq(Entries), NEW c, NEW S
  PROVE  IsFiniteSet(Logged(log, c, S)) /\ Passed(log, c, S) \in Nat
<1>1. DOMAIN log = 1..Len(log) /\ Len(log) \in Nat
  OBVIOUS
<1>2. IsFiniteSet(DOMAIN log)
  BY <1>1, IndexCount
<1>3. Logged(log, c, S) \in SUBSET DOMAIN log
  BY DEF Logged
<1>4. QED
  BY <1>2, <1>3, FS_Subset, FS_CardinalityType DEF Passed

\* Logging a call counts it if it is one of c, with a time in S.
LEMMA PassedAppend ==
  ASSUME NEW log \in Seq(Entries), NEW x \in Entries, NEW c, NEW S
  PROVE  Passed(Append(log, x), c, S)
           = Passed(log, c, S) + IF x.fp = c /\ x.at \in S THEN 1 ELSE 0
<1> DEFINE v == Append(log, x)
<1>1. /\ DOMAIN v = (DOMAIN log) \cup {Len(log) + 1} /\ v[Len(log) + 1] = x
      /\ \A i \in DOMAIN log : v[i] = log[i]
      /\ Len(log) + 1 \notin DOMAIN log
  OBVIOUS
<1> HIDE DEF v
<1>2. Logged(v, c, S) = Logged(log, c, S)
                          \cup IF x.fp = c /\ x.at \in S THEN {Len(log) + 1} ELSE {}
  BY <1>1 DEF Logged
<1>3. Len(log) + 1 \notin Logged(log, c, S)
  BY <1>1 DEF Logged
<1>4. IsFiniteSet(Logged(log, c, S)) /\ Passed(log, c, S) \in Nat
  BY PassedType
<1>5. CASE x.fp = c /\ x.at \in S
  BY <1>2, <1>3, <1>4, <1>5, FS_AddElement DEF Passed, v
<1>6. CASE ~(x.fp = c /\ x.at \in S)
  <2>1. Logged(v, c, S) = Logged(log, c, S)
    BY <1>2, <1>6
  <2>2. QED
    BY <1>4, <1>6, <2>1 DEF Passed, v
<1>7. QED
  BY <1>5, <1>6

LEMMA WaitersType ==
  ASSUME NEW th, NEW c, NEW S
  PROVE  /\ IsFiniteSet(Waiting(th, c, S)) /\ Waiters(th, c, S) \in Nat
         /\ Cardinality(Threads) \in Nat
<1>1. Waiting(th, c, S) \in SUBSET Threads
  BY DEF Waiting
<1>2. QED
  BY <1>1, ThreadsAssumption, FS_Subset, FS_CardinalityType DEF Waiters

\* If some thread does not wait, fewer than all of them do.
LEMMA NotAllWait ==
  ASSUME NEW th, NEW c, NEW S, NEW t \in Threads, t \notin Waiting(th, c, S)
  PROVE  Waiters(th, c, S) < Cardinality(Threads)
<1>1. Waiting(th, c, S) \in SUBSET (Threads \ {t})
  BY DEF Waiting
<1>2. IsFiniteSet(Threads \ {t}) /\ Cardinality(Threads \ {t}) = Cardinality(Threads) - 1
  BY ThreadsAssumption, FS_RemoveElement
<1>3. Waiters(th, c, S) <= Cardinality(Threads \ {t})
  BY <1>1, <1>2, FS_Subset DEF Waiters
<1>4. QED
  BY <1>2, <1>3, WaitersType

\* A thread that is checked no longer waits; nobody else is concerned.
LEMMA WaitersLeave ==
  ASSUME NEW th, NEW new, NEW t \in Threads, new[t].pc # "check",
         \A u \in Threads : u # t => new[u] = th[u],
         th[t].pc = "check",
         NEW c, NEW S
  PROVE  Waiters(th, c, S)
           = Waiters(new, c, S) + IF th[t].fp = c /\ th[t].start \in S THEN 1 ELSE 0
<1>1. CASE th[t].fp = c /\ th[t].start \in S
  <2>1. Waiting(th, c, S) = Waiting(new, c, S) \cup {t} /\ t \notin Waiting(new, c, S)
    BY <1>1 DEF Waiting
  <2>2. QED
    BY <1>1, <2>1, WaitersType, FS_AddElement DEF Waiters
<1>2. CASE ~(th[t].fp = c /\ th[t].start \in S)
  <2>1. Waiting(th, c, S) = Waiting(new, c, S)
    BY <1>2 DEF Waiting
  <2>2. Waiters(th, c, S) = Waiters(new, c, S) /\ Waiters(new, c, S) \in Nat
    BY <2>1, WaitersType DEF Waiters
  <2>3. QED
    BY <1>2, <2>2
<1>3. QED
  BY <1>1, <1>2
----------------------------------------------------------------------------
(* The windows of the runaway breaker.                                     *)

\* What a check does to the window of its call: k entries are pruned, v is
\* left, and the time is added if, and only if, the call is logged.
WindowMoves(c, at, k, v) ==
  /\ IsSuffix(v, windows[c], k)
  /\ \A i \in 1..k : Expired(windows[c][i], at)
  /\ \/ windows'[c] = v /\ admitted' = admitted
     \/ /\ windows'[c] = Append(v, at) /\ Len(v) < RunawayMax
        /\ admitted' = Append(admitted, [fp |-> c, at |-> at])

LEMMA WindowStep ==
  ASSUME TypeOK, Watched, NEW t \in Threads, Check(t),
         NEW c, c = thread[t].fp, NEW at, at = thread[t].start
  PROVE  /\ \A e \in Calls : e # c => windows'[e] = windows[e]
         /\ \E k \in 0..Len(windows[c]), v \in Seq(Nat) : WindowMoves(c, at, k, v)
<1> DEFINE w == Pruned(windows[c], at)
<1>1. /\ c \in Calls /\ at \in Nat
      /\ Refused(t, c, w) \/ Admitted(t, c, w, at)
  BY CheckCases
<1>2. windows \in [Calls -> Seq(Nat)] /\ windows[c] \in Seq(Nat)
  BY <1>1 DEF TypeOK
<1>3. PICK k \in 0..Len(windows[c]) : /\ IsSuffix(w, windows[c], k)
                                      /\ \A i \in 1..k : Expired(windows[c][i], at)
  BY <1>1, <1>2, PrunedIsSuffix
<1>4. w \in Seq(Nat)
  BY <1>3 DEF IsSuffix
<1> HIDE DEF w
<1>5. CASE UNCHANGED windows /\ admitted' = admitted
  <2>1. 0 \in 0..Len(windows[c]) /\ IsSuffix(windows[c], windows[c], 0)
    BY <1>2 DEF IsSuffix
  <2>2. \A i \in 1..0 : Expired(windows[c][i], at)
    OBVIOUS
  <2>3. QED
    BY <1>2, <1>5, <2>1, <2>2 DEF WindowMoves
<1>6. CASE windows' = [windows EXCEPT ![c] = w] /\ admitted' = admitted
  BY <1>1, <1>2, <1>3, <1>4, <1>6 DEF WindowMoves
<1>7. CASE /\ windows' = [windows EXCEPT ![c] = Append(w, at)] /\ Len(w) < RunawayMax
           /\ admitted' = Append(admitted, [fp |-> c, at |-> at])
  <2>1. windows'[c] = Append(w, at) /\ \A e \in Calls : e # c => windows'[e] = windows[e]
    BY <1>1, <1>2, <1>7
  <2>2. QED
    BY <1>3, <1>4, <1>7, <2>1 DEF WindowMoves
<1>8. QED
  BY <1>1, <1>5, <1>6, <1>7 DEF Refused, Admitted

\* Every other step leaves the windows and the log alone, and brings no thread
\* to wait with a time that has passed.
LEMMA OtherSteps ==
  ASSUME TypeOK, [Next]_vars, ~(\E t \in Threads : Check(t))
  PROVE  /\ UNCHANGED <<windows, admitted>> /\ now' \in Nat /\ now <= now'
         /\ \A c \in Calls : \A S : now \notin S =>
              Waiters(thread', c, S) = Waiters(thread, c, S)
<1>0. now \in Nat /\ thread \in [Threads -> Thread]
  BY TimeAssumption DEF TypeOK
<1>1. ASSUME NEW t \in Threads, thread[t].pc # "check", NEW new,
             thread' = [thread EXCEPT ![t] = new], new.pc = "check" => new.start = now,
             NEW c \in Calls, NEW S, now \notin S
      PROVE  Waiting(thread', c, S) = Waiting(thread, c, S)
  <2>1. thread'[t] = new /\ \A u \in Threads : u # t => thread'[u] = thread[u]
    BY <1>0, <1>1
  <2>2. QED
    BY <1>1, <2>1 DEF Waiting
<1>2. ASSUME NEW t \in Threads, NEW e \in Calls, Start(t, e) \/ Replay(t, e),
             NEW c \in Calls, NEW S, now \notin S
      PROVE  Waiting(thread', c, S) = Waiting(thread, c, S)
  <2> DEFINE new == [pc |-> "check", fp |-> e, start |-> now, rule |-> "none"]
  <2>1. new.start = now
    OBVIOUS
  <2>2. thread' = [thread EXCEPT ![t] = new] /\ thread[t].pc # "check"
    BY <1>2 DEF Start, Replay, Enter
  <2> HIDE DEF new
  <2>3. QED
    BY <1>1, <1>2, <2>1, <2>2
<1>3. ASSUME NEW t \in Threads, Finish(t), NEW c \in Calls, NEW S, now \notin S
      PROVE  Waiting(thread', c, S) = Waiting(thread, c, S)
  <2>1. /\ thread' = [thread EXCEPT ![t] = Resume(t)] /\ thread[t].pc # "check"
        /\ Resume(t).pc # "check"
    BY <1>3, ResumeType DEF Finish, Running
  <2>2. QED
    BY <1>1, <1>3, <2>1
<1>4. CASE \E t \in Threads : (\E c \in Calls : Start(t, c) \/ Replay(t, c)) \/ Finish(t)
  <2>1. UNCHANGED <<now, windows, admitted>>
    BY <1>4 DEF Start, Replay, Enter, Finish
  <2>2. QED
    BY <1>0, <1>2, <1>3, <1>4, <2>1 DEF Waiters
<1>5. CASE Tick \/ UNCHANGED vars
  BY <1>0, <1>5 DEF Tick, vars, Waiters
<1>6. QED
  BY <1>4, <1>5 DEF Next

\* No timestamp is from the future, and no window is longer than allowed.
WindowTimes ==
  \A c \in Calls : /\ \A i \in DOMAIN windows[c] : windows[c][i] <= now
                   /\ Len(windows[c]) <= RunawayMax

\* Every timestamp of a window is that of an admitted call.
Covered ==
  \A c \in Calls : \A S \in SUBSET Nat : Hits(windows[c], 0, S) <= Passed(admitted, c, S)

\* Few younger timestamps stand before an older one: each belongs to a thread
\* that was overtaken.  So behind an entry there are fewer older ones, waiting
\* threads included, than there are threads.
Disorder ==
  \A c \in Calls, n \in Nat : \A i \in DOMAIN windows[c] : windows[c][i] = n =>
    Hits(windows[c], i, 0..(n - 1)) + Waiters(thread, c, 0..(n - 1))
      < Cardinality(Threads)

\* An interval is either counted by its window in full, or over, and then only
\* the threads that still wait with a time of it can add to it.
Interval(x) == x..(x + Window)
Tracked ==
  \A c \in Calls, x \in Nat :
    \/ Passed(admitted, c, Interval(x)) = Hits(windows[c], 0, Interval(x))
    \/ /\ now > x + Window
       /\ Passed(admitted, c, Interval(x)) + Waiters(thread, c, Interval(x))
            < RunawayMax + Cardinality(Threads)

LEMMA NextTimes ==
  ASSUME TypeOK, Timely, Watched, WindowTimes, [Next]_vars
  PROVE  WindowTimes'
<1>0. windows \in [Calls -> Seq(Nat)] /\ now \in Nat /\ RunawayMax \in Nat
  BY LimitsAssumption, TimeAssumption DEF TypeOK
<1>1. ASSUME NEW t \in Threads, Check(t)
      PROVE  WindowTimes'
  <2>1. PICK c \in Calls, at \in Nat : c = thread[t].fp /\ at = thread[t].start
    BY <1>1, CheckCases
  <2>2. at <= now /\ now' = now
    BY <1>1, <2>1, CheckCases DEF Timely, Recent
  <2>3. /\ \A e \in Calls : e # c => windows'[e] = windows[e]
        /\ \E k \in 0..Len(windows[c]), v \in Seq(Nat) : WindowMoves(c, at, k, v)
    BY <1>1, <2>1, WindowStep
  <2>4. PICK k \in 0..Len(windows[c]), v \in Seq(Nat) : WindowMoves(c, at, k, v)
    BY <2>3
  <2> DEFINE old == windows[c]
  <2>5. /\ old \in Seq(Nat) /\ Len(old) \in Nat /\ Len(old) <= RunawayMax
        /\ \A i \in 1..Len(old) : old[i] <= now
    BY <1>0, <2>1 DEF WindowTimes
  <2> HIDE DEF old
  <2>6. Len(v) <= RunawayMax /\ \A i \in DOMAIN v : v[i] <= now
    <3>1. Len(v) = Len(old) - k /\ \A i \in 1..Len(v) : v[i] = old[k + i]
      BY <2>4 DEF WindowMoves, IsSuffix, old
    <3>2. k \in 0..Len(old)
      BY DEF old
    <3>3. ASSUME NEW i \in 1..Len(v) PROVE v[i] <= now
      <4>1. k + i \in 1..Len(old)
        BY <2>5, <3>1, <3>2
      <4>2. QED
        BY <2>5, <3>1, <4>1
    <3>4. QED
      BY <1>0, <2>5, <3>1, <3>2, <3>3
  <2>7. Len(windows'[c]) <= RunawayMax /\ \A i \in DOMAIN windows'[c] : windows'[c][i] <= now
    <3>1. CASE windows'[c] = v
      BY <2>6, <3>1
    <3>2. CASE windows'[c] = Append(v, at) /\ Len(v) < RunawayMax
      BY <1>0, <2>2, <2>6, <3>2
    <3>3. QED
      BY <2>4, <3>1, <3>2 DEF WindowMoves
  <2>8. QED
    BY <2>2, <2>3, <2>7 DEF WindowTimes
<1>2. CASE ~(\E t \in Threads : Check(t))
  <2>1. UNCHANGED windows /\ now' \in Nat /\ now <= now'
    BY <1>2, OtherSteps
  <2>2. ASSUME NEW c \in Calls, NEW i \in DOMAIN windows[c]
        PROVE  windows[c][i] <= now'
    <3>1. windows[c][i] \in Nat /\ windows[c][i] <= now
      BY <1>0 DEF WindowTimes
    <3>2. QED
      BY <1>0, <2>1, <3>1
  <2>3. QED
    BY <2>1, <2>2 DEF WindowTimes
<1>3. QED
  BY <1>1, <1>2

LEMMA NextCovered ==
  ASSUME TypeOK, Watched, Covered, [Next]_vars
  PROVE  Covered'
<1>0. windows \in [Calls -> Seq(Nat)] /\ admitted \in Seq(Entries)
  BY DEF TypeOK, Entries
<1>1. ASSUME NEW t \in Threads, Check(t)
      PROVE  Covered'
  <2>1. PICK c \in Calls, at \in Nat : c = thread[t].fp /\ at = thread[t].start
    BY <1>1, CheckCases
  <2> DEFINE entry == [fp |-> c, at |-> at]
  <2>2. entry \in Entries /\ entry.fp = c /\ entry.at = at
    BY DEF Entries
  <2>3. /\ \A e \in Calls : e # c => windows'[e] = windows[e]
        /\ \E k \in 0..Len(windows[c]), v \in Seq(Nat) : WindowMoves(c, at, k, v)
    BY <1>1, <2>1, WindowStep
  <2>4. PICK k \in 0..Len(windows[c]), v \in Seq(Nat) : WindowMoves(c, at, k, v)
    BY <2>3
  <2>5. \/ windows'[c] = v /\ admitted' = admitted
        \/ windows'[c] = Append(v, at) /\ admitted' = Append(admitted, entry)
    BY <2>4 DEF WindowMoves
  <2> HIDE DEF entry
  <2>6. ASSUME NEW e \in Calls, NEW S \in SUBSET Nat
        PROVE  Hits(windows'[e], 0, S) <= Passed(admitted', e, S)
    <3>1. Hits(windows[e], 0, S) <= Passed(admitted, e, S)
      BY DEF Covered
    <3>2. Hits(windows[e], 0, S) \in Nat /\ Passed(admitted, e, S) \in Nat
      BY <1>0, HitsType, PassedType
    <3>3. Passed(Append(admitted, entry), e, S)
            = Passed(admitted, e, S) + IF c = e /\ at \in S THEN 1 ELSE 0
      BY <1>0, <2>2, PassedAppend
    <3>4. CASE e # c
      <4>1. windows'[e] = windows[e]
        BY <2>3, <3>4
      <4>2. Passed(admitted', e, S) = Passed(admitted, e, S)
        <5>1. Passed(Append(admitted, entry), e, S) = Passed(admitted, e, S)
          BY <3>2, <3>3, <3>4
        <5>2. admitted' = admitted \/ admitted' = Append(admitted, entry)
          BY <2>5
        <5>3. QED
          BY <5>1, <5>2, Zenon
      <4>3. QED
        BY <3>1, <4>1, <4>2
    <3>5. CASE e = c
      <4>1. Hits(v, 0, S) \in Nat /\ Hits(v, 0, S) <= Hits(windows[e], 0, S)
        <5>1. windows[e] \in Seq(Nat) /\ k \in 0..Len(windows[e]) /\ IsSuffix(v, windows[e], k)
          BY <1>0, <2>4, <3>5 DEF WindowMoves
        <5>2. 0 \in 0..Len(v) /\ k + 0 = k
          OBVIOUS
        <5>3. Hits(v, 0, S) = Hits(windows[e], k, S)
          BY <5>1, <5>2, HitsSuffix
        <5>4. Hits(windows[e], k, S) <= Hits(windows[e], 0, S)
          BY <5>1, HitsMonotone
        <5>5. QED
          BY <5>3, <5>4, HitsType
      <4>2. CASE windows'[c] = v /\ admitted' = admitted
        BY <3>1, <3>2, <3>5, <4>1, <4>2
      <4>3. CASE windows'[c] = Append(v, at) /\ admitted' = Append(admitted, entry)
        <5>1. 0 \in 0..Len(v)
          OBVIOUS
        <5>2. Hits(Append(v, at), 0, S) = Hits(v, 0, S) + IF at \in S THEN 1 ELSE 0
          BY <2>1, <5>1, HitsAppend
        <5>3. QED
          BY <3>1, <3>2, <3>3, <3>5, <4>1, <4>3, <5>2
      <4>4. QED
        BY <2>5, <4>2, <4>3
    <3>6. QED
      BY <3>4, <3>5
  <2>7. QED
    BY <2>6 DEF Covered
<1>2. CASE ~(\E t \in Threads : Check(t))
  BY <1>2, OtherSteps DEF Covered
<1>3. QED
  BY <1>1, <1>2

\* The start of each proof about a check: its call, its time and the window it
\* leaves, and the thread that no longer waits.
LEMMA CheckEffect ==
  ASSUME TypeOK, Timely, Watched, NEW t \in Threads, Check(t)
  PROVE  \E c \in Calls, at \in Nat :
           /\ c = thread[t].fp /\ at = thread[t].start /\ at <= now /\ now' = now
           /\ \A e \in Calls : e # c => windows'[e] = windows[e]
           /\ \E k \in 0..Len(windows[c]), v \in Seq(Nat) : WindowMoves(c, at, k, v)
           /\ \A e \in Calls : \A S : /\ t \notin Waiting(thread', e, S)
                                       /\ Waiters(thread, e, S)
                                            = Waiters(thread', e, S)
                                                + IF c = e /\ at \in S THEN 1 ELSE 0
<1>1. PICK c \in Calls, at \in Nat : c = thread[t].fp /\ at = thread[t].start
  BY CheckCases
<1>2. /\ thread[t].pc = "check" /\ thread'[t].pc # "check" /\ now' = now
      /\ \A u \in Threads : u # t => thread'[u] = thread[u]
  BY <1>1, CheckCases DEF Refused, Admitted
<1>3. at <= now
  BY <1>1, <1>2 DEF Timely, Recent
<1>4. /\ \A e \in Calls : e # c => windows'[e] = windows[e]
      /\ \E k \in 0..Len(windows[c]), v \in Seq(Nat) : WindowMoves(c, at, k, v)
  BY <1>1, WindowStep
<1>5. ASSUME NEW e \in Calls, NEW S
      PROVE  /\ t \notin Waiting(thread', e, S)
             /\ Waiters(thread, e, S)
                  = Waiters(thread', e, S) + IF c = e /\ at \in S THEN 1 ELSE 0
  <2>1. t \notin Waiting(thread', e, S)
    BY <1>2 DEF Waiting
  <2>2. Waiters(thread, e, S)
          = Waiters(thread', e, S)
              + IF thread[t].fp = e /\ thread[t].start \in S THEN 1 ELSE 0
    BY <1>2, WaitersLeave
  <2>3. QED
    BY <1>1, <2>1, <2>2
<1>6. QED
  BY <1>1, <1>2, <1>3, <1>4, <1>5

LEMMA NextDisorder ==
  ASSUME TypeOK, Timely, Watched, WindowTimes, Disorder, [Next]_vars
  PROVE  Disorder'
<1>0. windows \in [Calls -> Seq(Nat)] /\ now \in Nat
  BY TimeAssumption DEF TypeOK
<1>1. ASSUME NEW t \in Threads, Check(t),
             NEW e \in Calls, NEW n \in Nat, NEW i \in DOMAIN windows'[e], windows'[e][i] = n
      PROVE  Hits(windows'[e], i, 0..(n - 1)) + Waiters(thread', e, 0..(n - 1))
               < Cardinality(Threads)
  <2>1. PICK c \in Calls, at \in Nat :
          /\ \A d \in Calls : d # c => windows'[d] = windows[d]
          /\ \E k \in 0..Len(windows[c]), v \in Seq(Nat) : WindowMoves(c, at, k, v)
          /\ \A d \in Calls : \A S : /\ t \notin Waiting(thread', d, S)
                                      /\ Waiters(thread, d, S)
                                           = Waiters(thread', d, S)
                                               + IF c = d /\ at \in S THEN 1 ELSE 0
    BY <1>1, CheckEffect
  <2> DEFINE S == 0..(n - 1)
             hits(w, j) == Hits(w, j, S)
  <2>2. /\ Waiters(thread, e, S)
             = Waiters(thread', e, S) + IF c = e /\ at \in S THEN 1 ELSE 0
        /\ Waiters(thread, e, S) \in Nat /\ Waiters(thread', e, S) \in Nat
        /\ Cardinality(Threads) \in Nat
        /\ Waiters(thread', e, S) < Cardinality(Threads)
    BY <2>1, WaitersType, NotAllWait
  <2>3. \A j \in DOMAIN windows[e] : windows[e][j] = n =>
          Hits(windows[e], j, S) + Waiters(thread, e, S) < Cardinality(Threads)
    BY DEF Disorder
  <2> HIDE DEF S
  <2>4. CASE e # c
    <3>1. windows'[e] = windows[e] /\ Waiters(thread', e, S) = Waiters(thread, e, S)
      BY <2>1, <2>2, <2>4
    <3>2. QED
      BY <1>1, <2>3, <3>1 DEF S
  <2>5. CASE e = c
    <3> DEFINE old == windows[e]
    <3>1. PICK k \in 0..Len(old), v \in Seq(Nat) : WindowMoves(e, at, k, v)
      BY <2>1, <2>5
    <3>2. /\ old \in Seq(Nat) /\ DOMAIN old = 1..Len(old) /\ Len(old) \in Nat
          /\ k \in Nat /\ k <= Len(old)
          /\ DOMAIN v = 1..Len(v) /\ Len(v) \in Nat
      BY <1>0
    <3>3. /\ IsSuffix(v, old, k)
          /\ windows'[e] = v \/ windows'[e] = Append(v, at)
      BY <3>1 DEF WindowMoves
    <3> HIDE DEF old
    <3>4. ASSUME i \in 1..Len(v), v[i] = n
          PROVE  /\ Hits(v, i, S) + Waiters(thread, e, S) < Cardinality(Threads)
                 /\ Hits(v, i, S) \in Nat
      <4>1. k + i \in DOMAIN old /\ old[k + i] = n
        <5>1. Len(v) = Len(old) - k /\ \A j \in 1..Len(v) : v[j] = old[k + j]
          BY <3>3 DEF IsSuffix
        <5>2. k + i \in 1..Len(old)
          BY <3>2, <3>4, <5>1
        <5>3. QED
          BY <3>2, <3>4, <5>1, <5>2
      <4>2. Hits(old, k + i, S) + Waiters(thread, e, S) < Cardinality(Threads)
        BY <2>3, <4>1 DEF old
      <4>3. i \in 0..Len(v) /\ i \in Nat
        BY <3>2, <3>4
      <4>4. Hits(v, i, S) = Hits(old, k + i, S)
        BY <3>2, <3>3, <4>3, HitsSuffix
      <4>5. QED
        BY <4>2, <4>3, <4>4, HitsType
    <3>5. CASE windows'[e] = v
      <4>1. Hits(v, i, S) + Waiters(thread, e, S) < Cardinality(Threads)
            /\ Hits(v, i, S) \in Nat
        BY <1>1, <3>2, <3>4, <3>5
      <4>2. Hits(v, i, S) + Waiters(thread', e, S) < Cardinality(Threads)
        BY <2>2, <4>1
      <4>3. QED
        BY <3>5, <4>2 DEF S
    <3>6. CASE windows'[e] = Append(v, at) /\ i <= Len(v)
      <4>1. i \in 1..Len(v) /\ v[i] = n
        BY <1>1, <3>2, <3>6
      <4>2. Hits(v, i, S) + Waiters(thread, e, S) < Cardinality(Threads)
            /\ Hits(v, i, S) \in Nat
        BY <3>4, <4>1
      <4>3. i \in 0..Len(v)
        BY <3>2, <4>1
      <4>4. Hits(Append(v, at), i, S) = Hits(v, i, S) + IF at \in S THEN 1 ELSE 0
        BY <4>3, HitsAppend
      <4>5. Hits(Append(v, at), i, S) + Waiters(thread', e, S) < Cardinality(Threads)
        BY <2>2, <2>5, <4>2, <4>4
      <4>6. QED
        BY <3>6, <4>5 DEF S
    <3>7. CASE windows'[e] = Append(v, at) /\ ~(i <= Len(v))
      <4>1. i = Len(v) + 1 /\ DOMAIN Append(v, at) = 1..(Len(v) + 1)
        BY <1>1, <3>2, <3>7
      <4>2. Behind(Append(v, at), i, S) = {}
        BY <3>2, <4>1 DEF Behind
      <4>3. Hits(Append(v, at), i, S) = 0
        BY <4>2, FS_EmptySet DEF Hits
      <4>4. QED
        BY <2>2, <3>7, <4>3 DEF S
    <3>8. QED
      BY <3>3, <3>5, <3>6, <3>7
  <2>6. QED
    BY <2>4, <2>5
<1>2. CASE ~(\E t \in Threads : Check(t))
  <2>1. ASSUME NEW c \in Calls, NEW n \in Nat, NEW i \in DOMAIN windows[c],
               windows[c][i] = n
        PROVE  Waiters(thread', c, 0..(n - 1)) = Waiters(thread, c, 0..(n - 1))
    <3>1. n <= now
      BY <2>1 DEF WindowTimes
    <3>2. now \notin 0..(n - 1)
      BY <1>0, <3>1
    <3>3. QED
      BY <1>2, <3>2, OtherSteps
  <2>2. UNCHANGED windows
    BY <1>2, OtherSteps
  <2>3. QED
    BY <2>1, <2>2 DEF Disorder
<1>3. QED
  BY <1>1, <1>2 DEF Disorder

LEMMA NextTracked ==
  ASSUME TypeOK, Timely, Watched, WindowTimes, Tracked, [Next]_vars
  PROVE  Tracked'
<1>0. /\ windows \in [Calls -> Seq(Nat)] /\ admitted \in Seq(Entries) /\ now \in Nat
      /\ RunawayMax \in Nat /\ Window \in Nat
  BY LimitsAssumption, TimeAssumption DEF TypeOK, Entries
<1>1. ASSUME NEW t \in Threads, Check(t), NEW e \in Calls, NEW x \in Nat
      PROVE  \/ Passed(admitted', e, Interval(x)) = Hits(windows'[e], 0, Interval(x))
             \/ /\ now' > x + Window
                /\ Passed(admitted', e, Interval(x)) + Waiters(thread', e, Interval(x))
                     < RunawayMax + Cardinality(Threads)
  <2>1. PICK c \in Calls, at \in Nat :
          /\ at <= now /\ now' = now
          /\ \A d \in Calls : d # c => windows'[d] = windows[d]
          /\ \E k \in 0..Len(windows[c]), v \in Seq(Nat) : WindowMoves(c, at, k, v)
          /\ \A d \in Calls : \A S : /\ t \notin Waiting(thread', d, S)
                                      /\ Waiters(thread, d, S)
                                           = Waiters(thread', d, S)
                                               + IF c = d /\ at \in S THEN 1 ELSE 0
    BY <1>1, CheckEffect
  <2>2. PICK k \in 0..Len(windows[c]), v \in Seq(Nat) : WindowMoves(c, at, k, v)
    BY <2>1
  <2> DEFINE S == Interval(x)
             old == windows[c]
             one == IF c = e /\ at \in S THEN 1 ELSE 0
             before == Passed(admitted, e, S)
             after == Passed(admitted', e, S)
             wait == Waiters(thread, e, S)
             left == Waiters(thread', e, S)
             all == Cardinality(Threads)
  <2>3. /\ wait = left + one /\ wait \in Nat /\ left \in Nat /\ all \in Nat
        /\ left < all /\ one \in {0, 1}
    BY <2>1, WaitersType, NotAllWait
  <2>4. before \in Nat
    BY <1>0, PassedType
  <2>5. \/ before = Hits(windows[e], 0, S)
        \/ now > x + Window /\ before + wait < RunawayMax + all
    BY DEF Tracked
  <2>6. /\ IsSuffix(v, old, k) /\ \A i \in 1..k : Expired(old[i], at)
        /\ \/ windows'[c] = v /\ after = before
           \/ windows'[c] = Append(v, at) /\ after = before + one
    <3> DEFINE entry == [fp |-> c, at |-> at]
    <3>1. entry \in Entries /\ entry.fp = c /\ entry.at = at
      BY DEF Entries
    <3>2. \/ windows'[c] = v /\ admitted' = admitted
          \/ windows'[c] = Append(v, at) /\ admitted' = Append(admitted, entry)
      BY <2>2 DEF WindowMoves
    <3> HIDE DEF entry, S
    <3>3. Passed(Append(admitted, entry), e, S) = before + one
      BY <1>0, <3>1, PassedAppend
    <3>4. QED
      BY <2>2, <3>2, <3>3 DEF WindowMoves
  <2>7. /\ old \in Seq(Nat) /\ Len(old) \in Nat /\ k \in Nat /\ k <= Len(old)
        /\ k \in 0..Len(old) /\ DOMAIN old = 1..Len(old) /\ Len(old) <= RunawayMax
    BY <1>0 DEF WindowTimes
  <2> HIDE DEF S, old, one, before, after, wait, left, all
  <2>8. CASE now > x + Window /\ before + wait < RunawayMax + all
    <3>1. after + left < RunawayMax + all
      BY <1>0, <2>3, <2>4, <2>6, <2>8
    <3>2. QED
      BY <2>1, <2>8, <3>1 DEF S, after, left, all
  <2>9. CASE before = Hits(windows[e], 0, S) /\ e # c
    <3>1. one = 0
      BY <2>9 DEF one
    <3>2. after = before /\ windows'[e] = windows[e]
      BY <2>1, <2>4, <2>6, <2>9, <3>1
    <3>3. QED
      BY <2>9, <3>2 DEF S, after
  <2>10. CASE before = Hits(windows[e], 0, S) /\ e = c /\ \A i \in 1..k : old[i] \notin S
    <3>1. Hits(old, k, S) = Hits(old, 0, S)
      BY <2>7, <2>10, HitsSkip
    <3>2. 0 \in 0..Len(v) /\ k + 0 = k
      BY <2>7
    <3>3. Hits(v, 0, S) = Hits(old, k, S)
      BY <2>6, <2>7, <3>2, HitsSuffix
    <3>4. before = Hits(v, 0, S)
      BY <2>10, <3>1, <3>3 DEF old
    <3>5. Hits(Append(v, at), 0, S) = Hits(v, 0, S) + one
      BY <2>10, <3>2, HitsAppend DEF one
    <3>6. after = Hits(windows'[e], 0, S)
      BY <2>6, <2>10, <3>4, <3>5
    <3>7. QED
      BY <3>6 DEF S, after
  <2>11. CASE before = Hits(windows[e], 0, S) /\ e = c /\ \E i \in 1..k : old[i] \in S
    <3>1. PICK i \in 1..k : old[i] \in S
      BY <2>11
    <3>2. i \in 1..Len(old)
      BY <2>7
    <3>3. old[i] \in Nat /\ old[i] >= x /\ old[i] + Window < at
      BY <1>0, <2>6, <2>7, <3>1, <3>2 DEF Expired, S, Interval
    <3>4. at > x + Window
      BY <1>0, <3>3
    <3>5. at \notin S /\ now > x + Window
      BY <1>0, <2>1, <3>4 DEF S, Interval
    <3>6. after = before
      BY <2>4, <2>6, <3>5 DEF one
    <3>7. before <= Len(old)
      BY <2>7, <2>11, HitsType DEF old
    <3>8. after + left < RunawayMax + all
      BY <1>0, <2>3, <2>4, <2>7, <3>6, <3>7
    <3>9. QED
      BY <2>1, <3>5, <3>8 DEF S, after, left, all
  <2>12. QED
    BY <2>5, <2>8, <2>9, <2>10, <2>11
<1>2. CASE ~(\E t \in Threads : Check(t))
  <2>1. UNCHANGED <<windows, admitted>> /\ now' \in Nat /\ now <= now'
    BY <1>2, OtherSteps
  <2>2. ASSUME NEW c \in Calls, NEW x \in Nat, now > x + Window
        PROVE  /\ now' > x + Window
               /\ Waiters(thread', c, Interval(x)) = Waiters(thread, c, Interval(x))
    <3>1. now \notin Interval(x) /\ now' > x + Window
      BY <1>0, <2>1, <2>2 DEF Interval
    <3>2. QED
      BY <1>2, <3>1, OtherSteps
  <2>3. QED
    BY <2>1, <2>2 DEF Tracked
<1>3. QED
  BY <1>1, <1>2 DEF Tracked

\* The inductive invariant of the breaker: neither bound is inductive by itself,
\* for neither says anything of a window out of order or of a waiting thread.
WindowInv == Watched => WindowTimes /\ Covered /\ Disorder /\ Tracked

LEMMA InitWindows == Init => WindowInv
<1> SUFFICES ASSUME Init PROVE WindowInv
  OBVIOUS
<1>1. \A c \in Calls : windows[c] = <<>>
  BY DEF Init
<1>2. admitted = <<>> /\ RunawayMax \in Nat
  BY LimitsAssumption DEF Init
<1>3. ASSUME NEW c \in Calls, NEW S
      PROVE  Hits(windows[c], 0, S) = 0 /\ Passed(admitted, c, S) = 0
  <2>1. Behind(windows[c], 0, S) = {} /\ Logged(admitted, c, S) = {}
    BY <1>1, <1>2 DEF Behind, Logged
  <2>2. QED
    BY <2>1, FS_EmptySet DEF Hits, Passed
<1>4. WindowTimes /\ Disorder
  BY <1>1, <1>2 DEF WindowTimes, Disorder
<1>5. Covered /\ Tracked
  BY <1>3 DEF Covered, Tracked
<1>6. QED
  BY <1>4, <1>5 DEF WindowInv

\* The windows stay ordered up to the threads overtaken, and complete up to the
\* threads that wait.
THEOREM WindowInvariance == Spec => []WindowInv
<1>1. TypeOK /\ Timely /\ WindowInv /\ [Next]_vars => WindowInv'
  <2> SUFFICES ASSUME TypeOK, Timely, WindowInv, [Next]_vars, Watched
               PROVE  WindowTimes' /\ Covered' /\ Disorder' /\ Tracked'
    BY DEF WindowInv, Watched
  <2>1. WindowTimes /\ Covered /\ Disorder /\ Tracked
    BY DEF WindowInv
  <2>2. QED
    BY <2>1, NextTimes, NextCovered, NextDisorder, NextTracked
<1>2. QED
  BY <1>1, InitWindows, TypeCorrect, PTL DEF Spec

\* No window of time sees RunawayMax identical calls plus one for every thread,
\* for any number of threads and any window (budget.py:117).
THEOREM RunawayBoundHolds == Spec => []RunawayBound
<1>1. TypeOK /\ WindowInv => RunawayBound
  <2> SUFFICES ASSUME TypeOK, WindowInv, Watched, NEW c \in Calls, NEW x \in 0..MaxTime
               PROVE  AdmittedIn(c, x, x + Window) < RunawayMax + Cardinality(Threads)
    BY DEF RunawayBound
  <2> DEFINE S == Interval(x)
             passed == Passed(admitted, c, S)
             hits == Hits(windows[c], 0, S)
             all == Cardinality(Threads)
  <2>1. AdmittedIn(c, x, x + Window) = passed
    BY DEF AdmittedIn, Passed, Logged, Interval
  <2>2. WindowTimes /\ Tracked /\ RunawayMax \in Nat /\ x \in Nat
    BY LimitsAssumption, TimeAssumption DEF WindowInv
  <2>3. windows[c] \in Seq(Nat) /\ admitted \in Seq(Entries)
    BY DEF TypeOK, Entries
  <2>4. passed \in Nat /\ hits \in Nat /\ hits <= Len(windows[c])
        /\ Len(windows[c]) \in Nat /\ Len(windows[c]) <= RunawayMax
    BY <2>2, <2>3, PassedType, HitsType DEF WindowTimes
  <2>5. all \in Nat /\ all # 0 /\ Waiters(thread, c, S) \in Nat
    BY ThreadsAssumption, FS_EmptySet, WaitersType
  <2>6. passed = hits \/ passed + Waiters(thread, c, S) < RunawayMax + all
    BY <2>2 DEF Tracked
  <2> HIDE DEF S, passed, hits, all
  <2>7. passed < RunawayMax + all
    BY <2>2, <2>4, <2>5, <2>6
  <2>8. QED
    BY <2>1, <2>7 DEF all
<1>2. QED
  BY <1>1, TypeCorrect, WindowInvariance, PTL

\* A trip has its identical calls behind it: what the pruned window counts is
\* either recent or older than its head, and there is little of the latter.
LEMMA TripIsEarned ==
  ASSUME TypeOK, Timely, WindowTimes, Covered, Disorder, Watched,
         NEW c \in Calls, NEW at \in Nat, at <= now,
         Len(Pruned(windows[c], at)) >= RunawayMax,
         NEW from \in Nat, from = IF at > Window THEN at - Window ELSE 0
  PROVE  AdmittedIn(c, from, MaxTime) + Cardinality(Threads) > RunawayMax
<1> DEFINE old == windows[c]
           w == Pruned(old, at)
           recent == from..MaxTime
           n == w[1]
           older == 0..(n - 1)
<1>0. /\ old \in Seq(Nat) /\ Len(old) \in Nat /\ DOMAIN old = 1..Len(old)
      /\ now \in Nat /\ now <= MaxTime /\ MaxTime \in Nat
      /\ RunawayMax \in Nat /\ RunawayMax > 0 /\ Window \in Nat
      /\ \A i \in DOMAIN old : old[i] \in Nat /\ old[i] <= now
      /\ admitted \in Seq(Entries)
  BY LimitsAssumption, TimeAssumption DEF TypeOK, WindowTimes, Watched, Entries
<1>1. PICK k \in 0..Len(old) : /\ IsSuffix(w, old, k)
                               /\ k < Len(old) => ~Expired(old[k + 1], at)
  BY <1>0, PrunedIsSuffix
<1>2. /\ w \in Seq(Nat) /\ Len(w) = Len(old) - k /\ DOMAIN w = 1..Len(w)
      /\ \A i \in 1..Len(w) : w[i] = old[k + i]
      /\ k \in Nat /\ k <= Len(old)
  BY <1>0, <1>1 DEF IsSuffix
<1>3. Len(w) >= RunawayMax /\ Len(w) \in Nat
  BY <1>2
<1> HIDE DEF w, old
<1>4. ASSUME NEW i \in 1..Len(w)
      PROVE  k + i \in DOMAIN old /\ w[i] = old[k + i] /\ w[i] \in Nat /\ w[i] <= now
  <2>1. k + i \in 1..Len(old) /\ w[i] = old[k + i]
    BY <1>0, <1>2
  <2>2. QED
    BY <1>0, <2>1
<1>5. 1 \in 1..Len(w) /\ k + 1 \in DOMAIN old /\ n = old[k + 1] /\ n \in Nat
  BY <1>0, <1>3, <1>4
<1>6. n >= from
  <2>1. k < Len(old)
    BY <1>0, <1>2, <1>3
  <2>2. ~(n + Window < at)
    BY <1>1, <1>5, <2>1 DEF Expired
  <2>3. QED
    BY <1>0, <1>5, <2>2
<1>7. Len(w) <= Hits(w, 0, recent) + Hits(w, 0, older)
  <2>1. ASSUME NEW i \in DOMAIN w PROVE w[i] \in recent \cup older
    <3>1. w[i] \in Nat /\ w[i] <= MaxTime
      <4>1. i \in 1..Len(w)
        BY <1>2
      <4>2. w[i] \in Nat /\ w[i] <= now
        BY <1>4, <4>1
      <4>3. QED
        BY <1>0, <4>2
    <3>2. QED
      BY <1>0, <1>5, <1>6, <3>1
  <2> HIDE DEF recent, older
  <2>2. QED
    BY <1>2, <2>1, HitsSplit
<1>8. Hits(w, 0, older) < Cardinality(Threads) /\ Hits(w, 0, older) \in Nat
  <2>1. Hits(old, k + 1, older) + Waiters(thread, c, older) < Cardinality(Threads)
    BY <1>5 DEF Disorder, old
  <2>2. n \notin older /\ n = w[1]
    BY <1>5
  <2> HIDE DEF older, n
  <2>3. 1 \in 0..Len(w) /\ \A i \in 1..1 : w[i] \notin older
    BY <1>3, <1>5, <2>2
  <2>4. Hits(w, 1, older) = Hits(w, 0, older)
    BY <1>2, <2>3, HitsSkip
  <2>5. Hits(w, 1, older) = Hits(old, k + 1, older)
    BY <1>0, <1>1, <2>3, HitsSuffix
  <2>6. Hits(w, 0, older) \in Nat /\ Waiters(thread, c, older) \in Nat
        /\ Cardinality(Threads) \in Nat
    BY <1>2, HitsType, WaitersType
  <2>7. QED
    BY <2>1, <2>4, <2>5, <2>6
<1>9. Hits(w, 0, recent) <= AdmittedIn(c, from, MaxTime) /\ Hits(w, 0, recent) \in Nat
      /\ AdmittedIn(c, from, MaxTime) \in Nat
  <2>1. AdmittedIn(c, from, MaxTime) = Passed(admitted, c, recent)
    BY DEF AdmittedIn, Passed, Logged
  <2>2. recent \in SUBSET Nat
    OBVIOUS
  <2> HIDE DEF recent
  <2>3. Hits(old, 0, recent) <= Passed(admitted, c, recent)
    BY <2>2 DEF Covered, old
  <2>4. 0 \in 0..Len(w) /\ k + 0 = k
    BY <1>2, <1>3
  <2>5. Hits(w, 0, recent) = Hits(old, k, recent)
    BY <1>0, <1>1, <2>4, HitsSuffix
  <2>6. Hits(old, k, recent) <= Hits(old, 0, recent)
    BY <1>0, <1>2, HitsMonotone
  <2>7. QED
    BY <1>0, <1>2, <2>1, <2>3, <2>5, <2>6, HitsType, PassedType
<1> HIDE DEF recent, older, n
<1>10. Cardinality(Threads) \in Nat
  BY ThreadsAssumption, FS_CardinalityType
<1>11. QED
  BY <1>0, <1>3, <1>7, <1>8, <1>9, <1>10

LEMMA NextTrip ==
  ASSUME TypeOK, Timely, WindowInv, NoSpuriousTrip, [Next]_vars
  PROVE  NoSpuriousTrip'
<1> DEFINE From(at) == IF at > Window THEN at - Window ELSE 0
<1>0. /\ thread \in [Threads -> Thread] /\ admitted \in Seq(Entries)
      /\ Window \in Nat /\ RunawayMax \in Nat
  BY LimitsAssumption DEF TypeOK, Entries
<1>1. ASSUME NEW c, NEW from
      PROVE  /\ AdmittedIn(c, from, MaxTime) \in Nat
             /\ AdmittedIn(c, from, MaxTime)' = Passed(admitted', c, from..MaxTime)
             /\ AdmittedIn(c, from, MaxTime) = Passed(admitted, c, from..MaxTime)
             /\ Cardinality(Threads) \in Nat
  BY <1>0, PassedType, ThreadsAssumption, FS_CardinalityType
     DEF AdmittedIn, Passed, Logged
<1>2. ASSUME NEW t \in Threads, thread'[t].rule = "budget_runaway",
             thread'[t] = thread[t], NEW from,
             from = From(thread[t].start), NEW c, c = thread[t].fp,
             AdmittedIn(c, from, MaxTime)' >= AdmittedIn(c, from, MaxTime),
             AdmittedIn(c, from, MaxTime)' \in Nat
      PROVE  AdmittedIn(c, from, MaxTime)' + Cardinality(Threads) > RunawayMax
  <2>1. AdmittedIn(c, from, MaxTime) + Cardinality(Threads) > RunawayMax
    BY <1>2 DEF NoSpuriousTrip
  <2>2. QED
    BY <1>0, <1>1, <1>2, <2>1
<1>3. ASSUME NEW t \in Threads, Check(t), NEW u \in Threads,
             thread'[u].rule = "budget_runaway",
             NEW from, from = From(thread'[u].start), NEW e, e = thread'[u].fp
      PROVE  AdmittedIn(e, from, MaxTime)' + Cardinality(Threads) > RunawayMax
  <2>1. PICK c \in Calls, at \in Nat : c = thread[t].fp /\ at = thread[t].start
    BY <1>3, CheckCases
  <2>2. /\ thread[t].pc = "check" /\ at <= now
        /\ \A d \in Threads : d # t => thread'[d] = thread[d]
        /\ thread'[t].fp = c /\ thread'[t].start = at
        /\ \/ Refused(t, c, Pruned(windows[c], at))
           \/ Admitted(t, c, Pruned(windows[c], at), at)
    BY <1>3, <2>1, CheckCases DEF Timely, Recent
  <2>3. AdmittedIn(e, from, MaxTime)' >= AdmittedIn(e, from, MaxTime)
        /\ AdmittedIn(e, from, MaxTime)' \in Nat
    <3> DEFINE entry == [fp |-> c, at |-> at]
    <3>1. entry \in Entries
      BY DEF Entries
    <3>2. admitted' = admitted \/ admitted' = Append(admitted, entry)
      BY <2>2 DEF Refused, Admitted
    <3> HIDE DEF entry
    <3>3. Passed(Append(admitted, entry), e, from..MaxTime) >= Passed(admitted, e, from..MaxTime)
          /\ Passed(Append(admitted, entry), e, from..MaxTime) \in Nat
          /\ Passed(admitted, e, from..MaxTime) \in Nat
      BY <1>0, <3>1, PassedAppend, PassedType
    <3>4. /\ Passed(admitted', e, from..MaxTime) >= Passed(admitted, e, from..MaxTime)
          /\ Passed(admitted', e, from..MaxTime) \in Nat
      <4>1. CASE admitted' = admitted
        BY <3>3, <4>1
      <4>2. CASE admitted' = Append(admitted, entry)
        BY <3>3, <4>2, Zenon
      <4>3. QED
        BY <3>2, <4>1, <4>2
    <3>5. /\ AdmittedIn(e, from, MaxTime)' = Passed(admitted', e, from..MaxTime)
          /\ AdmittedIn(e, from, MaxTime) = Passed(admitted, e, from..MaxTime)
      BY <1>1
    <3>6. QED
      BY <3>4, <3>5
  <2>4. CASE u # t
    BY <1>2, <1>3, <2>2, <2>3, <2>4
  <2>5. CASE u = t /\ Refused(t, c, Pruned(windows[c], at))
    <3>1. Watched /\ Len(Pruned(windows[c], at)) >= RunawayMax
      BY <1>3, <2>5 DEF Refused
    <3>2. WindowTimes /\ Covered /\ Disorder
      BY <3>1 DEF WindowInv
    <3>3. from = From(at) /\ from \in Nat /\ e = c
      BY <1>0, <1>3, <2>2, <2>5
    <3>4. AdmittedIn(c, from, MaxTime) + Cardinality(Threads) > RunawayMax
      BY <2>2, <3>1, <3>2, <3>3, TripIsEarned
    <3>5. QED
      BY <1>0, <1>1, <2>3, <3>3, <3>4
  <2>6. CASE u = t /\ Admitted(t, c, Pruned(windows[c], at), at)
    BY <1>3, <2>2, <2>6 DEF Admitted, Timely
  <2>7. QED
    BY <2>2, <2>4, <2>5, <2>6
<1>4. ASSUME ~(\E t \in Threads : Check(t)), NEW u \in Threads,
             thread'[u].rule = "budget_runaway",
             NEW from, from = From(thread'[u].start), NEW e, e = thread'[u].fp
      PROVE  AdmittedIn(e, from, MaxTime)' + Cardinality(Threads) > RunawayMax
  <2>1. thread'[u] = thread[u]
    <3>1. ASSUME NEW t \in Threads, NEW new, thread' = [thread EXCEPT ![t] = new],
                 new.rule = "none"
          PROVE  thread'[u] = thread[u]
      BY <1>0, <1>4, <3>1
    <3>2. ASSUME NEW t \in Threads, NEW c \in Calls, Start(t, c) \/ Replay(t, c)
          PROVE  thread'[u] = thread[u]
      <4> DEFINE new == [pc |-> "check", fp |-> c, start |-> now, rule |-> "none"]
      <4>1. thread' = [thread EXCEPT ![t] = new] /\ new.rule = "none"
        BY <3>2 DEF Start, Replay, Enter
      <4> HIDE DEF new
      <4>2. QED
        BY <3>1, <4>1
    <3>3. ASSUME NEW t \in Threads, Finish(t)
          PROVE  thread'[u] = thread[u]
      <4>1. thread' = [thread EXCEPT ![t] = Resume(t)] /\ Resume(t).rule = "none"
        BY <3>3, ResumeType DEF Finish, Timely
      <4>2. QED
        BY <3>1, <4>1
    <3>4. QED
      BY <1>4, <3>2, <3>3 DEF Next, vars, Tick
  <2>2. admitted' = admitted
    BY <1>4, OtherSteps
  <2>3. AdmittedIn(e, from, MaxTime)' = AdmittedIn(e, from, MaxTime)
    BY <1>1, <2>2
  <2>4. QED
    BY <1>1, <1>2, <1>4, <2>1, <2>3
<1>5. QED
  BY <1>3, <1>4 DEF NoSpuriousTrip

\* The breaker never trips on calls that are not there: neither a refused call
\* nor an expired one counts, whatever overtakes what (budget.py:153).
THEOREM NoSpuriousTripHolds == Spec => []NoSpuriousTrip
<1>1. Init => NoSpuriousTrip
  BY IdleType DEF Init, NoSpuriousTrip
<1>2. TypeOK /\ Timely /\ WindowInv /\ NoSpuriousTrip /\ [Next]_vars => NoSpuriousTrip'
  BY NextTrip
<1>3. QED
  BY <1>1, <1>2, TypeCorrect, WindowInvariance, PTL DEF Spec
=============================================================================
