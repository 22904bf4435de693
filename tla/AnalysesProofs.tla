--------------------------- MODULE AnalysesProofs ---------------------------
(***************************************************************************)
(* Proofs about the analyses: RouteConflicts, for tables of any size;      *)
(* HealthReport, for any services, of any size, and any deployments and    *)
(* failures between the requests of the pull; CertSweep, for any inventory *)
(* and events between its probes; ErrorRates, for any requests.            *)
(***************************************************************************)
EXTENDS RouteConflicts, HealthReport, ErrorRates, CertSweep, FiniteSetTheorems,
        SequenceTheorems, WellFoundedInduction, TLAPS

----------------------------------------------------------------------------
(* Induction over numbers, by way of the least counterexample, and what it  *)
(* gives of recursive functions.                                           *)

\* A set of numbers has a least one.
LEMMA Least ==
  ASSUME NEW T, T \subseteq Nat, T # {}
  PROVE  \E n \in T : \A m \in T : n <= m
<1>1. PICK n \in T : \A m \in T : ~ (<<m, n>> \in OpToRel(<, Nat))
  BY NatLessThanWellFounded, WFMin
<1>2. \A m \in T : ~ (m < n)
  BY <1>1 DEF OpToRel
<1>3. QED
  BY <1>2

\* Induction up to N, over a set.
LEMMA Upto ==
  ASSUME NEW N \in Nat, NEW T, 0 \in T, \A n \in 0..(N - 1) : n \in T => n + 1 \in T
  PROVE  \A n \in 0..N : n \in T
<1> DEFINE Bad == {n \in 0..N : n \notin T}
<1>1. ASSUME Bad # {}
      PROVE  FALSE
  <2>0. Bad \subseteq Nat
    OBVIOUS
  <2>1. PICK n \in Bad : \A m \in Bad : n <= m
    BY <1>1, <2>0, Least
  <2>2. n \in 0..N /\ n # 0
    BY <2>1
  <2>3. n - 1 \in 0..(N - 1) /\ n - 1 \in 0..N /\ n - 1 \notin Bad
    BY <2>1, <2>2
  <2>4. n - 1 \in T
    BY <2>3
  <2>5. (n - 1) + 1 \in T
    BY <2>3, <2>4
  <2>6. QED
    BY <2>1, <2>2, <2>5
<1>2. QED
  BY <1>1

\* A function can be iterated.
Iterates(f, W, c, F, N) ==
  f \in [0..N -> W] /\ f[0] = c /\ \A n \in 1..N : f[n] = F[f[n - 1]]

LEMMA Iterated ==
  ASSUME NEW W, NEW c \in W, NEW F \in [W -> W], NEW N \in Nat
  PROVE  \E f : Iterates(f, W, c, F, N)
<1> DEFINE Good(f, m) == f \in [0..m -> W] /\ f[0] = c /\ \A n \in 1..m : f[n] = F[f[n - 1]]
           T == {m \in Nat : \E f : Good(f, m)}
<1>1. 0 \in T
  <2>1. Good([n \in 0..0 |-> c], 0)
    OBVIOUS
  <2>2. QED
    BY <2>1
<1>2. ASSUME NEW m \in 0..(N - 1), m \in T
      PROVE  m + 1 \in T
  <2>1. m \in Nat /\ m + 1 \in Nat
    OBVIOUS
  <2>2. PICK f : Good(f, m)
    BY <1>2
  <2> DEFINE g == [n \in 0..(m + 1) |-> IF n = m + 1 THEN F[f[m]] ELSE f[n]]
  <2>3. f[m] \in W /\ F[f[m]] \in W
    BY <2>1, <2>2
  <2>4. g \in [0..(m + 1) -> W]
    BY <2>1, <2>2, <2>3
  <2>5. g[0] = c
    BY <2>1, <2>2
  <2>6. ASSUME NEW n \in 1..(m + 1)
        PROVE  g[n] = F[g[n - 1]]
    <3>1. CASE n = m + 1
      <4>1. g[n] = F[f[m]] /\ n - 1 = m /\ g[m] = f[m]
        BY <2>1, <3>1
      <4>2. QED
        BY <4>1
    <3>2. CASE n # m + 1
      <4>1. n \in 1..m /\ n - 1 \in 0..m
        BY <2>1, <3>2
      <4>2. g[n] = f[n] /\ g[n - 1] = f[n - 1]
        BY <2>1, <4>1
      <4>3. QED
        BY <2>2, <4>1, <4>2
    <3>3. QED
      BY <3>1, <3>2
  <2>7. Good(g, m + 1)
    BY <2>4, <2>5, <2>6
  <2>8. QED
    BY <2>1, <2>7
<1> HIDE DEF T
<1>3. N \in T
  BY <1>1, <1>2, Upto
<1>4. QED
  BY <1>3 DEF T, Iterates
----------------------------------------------------------------------------
(* The tables of routes.                                                   *)

\* The table is a sequence of possible rows, no longer than the bound.
TableOK == table \in Seq(Rows) /\ Len(table) <= MaxRoutes

\* What a row of the table is made of.
LEMMA RowType ==
  ASSUME TableOK, NEW i \in DOMAIN table
  PROVE  /\ i \in Nat /\ i >= 1 /\ i <= Len(table)
         /\ table[i] \in Rows /\ table[i] \in Row
         /\ table[i].priority \in Nat
         /\ table[i].hosts \subseteq Patterns
         /\ table[i].paths \subseteq [text : Texts, exact : BOOLEAN]
         /\ table[i].on \subseteq Schemes
         /\ table[i].to \in Location \cup {NoRedirect}
<1>1. i \in 1..Len(table) /\ Len(table) \in Nat /\ table[i] \in Rows
  BY DEF TableOK
<1>2. table[i] \in Row
  BY <1>1, RowsAssumption
<1>3. QED
  BY <1>1, <1>2 DEF Row

\* A row that is added leaves the table a table.
LEMMA TableStep ==
  ASSUME TableOK, [Grow]_table
  PROVE  TableOK'
<1>1. CASE UNCHANGED table
  BY <1>1 DEF TableOK
<1>2. ASSUME NEW row \in Rows, AddRow(row)
      PROVE  TableOK'
  BY <1>2, BoundsAssumption DEF TableOK, AddRow
<1>3. QED
  BY <1>1, <1>2 DEF Grow

\* The empty table is one.
LEMMA InitTable == Empty => TableOK
BY BoundsAssumption DEF Empty, TableOK
----------------------------------------------------------------------------
(* The order of the routes, and the requests they take.                    *)

\* Routes are tried in a strict total order: by priority, and by place where two
\* have the same.
LEMMA EarlierOrders ==
  ASSUME TableOK, NEW i \in DOMAIN table, NEW j \in DOMAIN table
  PROVE  /\ i = j \/ Earlier(i, j) \/ Earlier(j, i)
         /\ ~ (Earlier(i, j) /\ Earlier(j, i))
         /\ \A k \in DOMAIN table : Earlier(i, j) /\ Earlier(j, k) => Earlier(i, k)
BY RowType DEF Earlier

\* The route of S that is tried first.
IsForemost(i, S) == i \in S /\ \A j \in S \ {i} : Earlier(i, j)

\* Of routes of the table one is tried first, by induction on the last place among
\* them.
LEMMA SomeForemost ==
  ASSUME TableOK, NEW S, S \subseteq DOMAIN table, S # {}
  PROVE  \E i : IsForemost(i, S)
<1> DEFINE Within(R, n) == R # {} /\ R \subseteq DOMAIN table /\ \A i \in R : i <= n
           Bad == {n \in Nat : \E R : Within(R, n) /\ ~ \E i : IsForemost(i, R)}
<1>1. ASSUME Bad # {}
      PROVE  FALSE
  <2>1. PICK n \in Bad : \A m \in Bad : n <= m
    BY <1>1, Least
  <2>2. PICK R : Within(R, n) /\ ~ \E i : IsForemost(i, R)
    BY <2>1
  <2>3. \A i \in R : i \in Nat /\ i >= 1 /\ i <= n
    BY <2>2, RowType
  <2>4. n \in Nat /\ n >= 1 /\ n - 1 \in Nat /\ n - 1 \notin Bad
    BY <2>1, <2>2, <2>3
  <2>5. n \in R
    <3>1. ASSUME n \notin R
          PROVE  FALSE
      <4>1. \A i \in R : i <= n - 1
        BY <2>3, <2>4, <3>1
      <4>2. Within(R, n - 1)
        BY <2>2, <4>1
      <4>3. QED
        BY <2>2, <2>4, <4>2
    <3>2. QED
      BY <3>1
  <2>6. CASE R = {n}
    BY <2>2, <2>6 DEF IsForemost
  <2>7. CASE R # {n}
    <3>1. Within(R \ {n}, n - 1)
      BY <2>2, <2>3, <2>4, <2>5, <2>7
    <3>2. PICK i : IsForemost(i, R \ {n})
      BY <2>4, <3>1
    <3>3. i \in DOMAIN table /\ n \in DOMAIN table
      BY <2>2, <2>5, <3>2 DEF IsForemost
    <3>4. CASE Earlier(i, n)
      BY <2>2, <3>2, <3>4 DEF IsForemost
    <3>5. CASE Earlier(n, i)
      <4>1. \A j \in R \ {n} : Earlier(n, j)
        BY <2>2, <3>2, <3>3, <3>5, EarlierOrders DEF IsForemost
      <4>2. QED
        BY <2>2, <2>5, <4>1 DEF IsForemost
    <3>6. QED
      BY <3>2, <3>3, <3>4, <3>5, EarlierOrders DEF IsForemost
  <2>8. QED
    BY <2>6, <2>7
<1>2. Len(table) \in Nat /\ Within(S, Len(table))
  BY RowType DEF TableOK
<1>3. QED
  BY <1>1, <1>2

\* Foremost gives a route of the set, or NoRoute if there is none.
LEMMA ForemostChosen ==
  ASSUME TableOK, NEW S, S \subseteq DOMAIN table
  PROVE  /\ S = {} => Foremost(S) = NoRoute
         /\ S # {} => Foremost(S) \in S /\ Foremost(S) # NoRoute
         /\ Foremost(S) \in DOMAIN table \cup {NoRoute}
<1>1. CASE S = {}
  BY <1>1 DEF Foremost
<1>2. CASE S # {}
  <2>1. \E i \in S : \A j \in S \ {i} : Earlier(i, j)
    BY <1>2, SomeForemost DEF IsForemost
  <2>2. Foremost(S) \in S
    BY <1>2, <2>1 DEF Foremost
  <2>3. Foremost(S) \in Nat
    BY <2>2, RowType
  <2>4. QED
    BY <1>2, <2>2, <2>3, NoneAssumption
<1>3. QED
  BY <1>1, <1>2
----------------------------------------------------------------------------
\* What a row tells is all that the proxy goes by: every path is a prefix, and
\* every route is on every entry point.
RowsTellAll ==
  /\ Schemes # {}
  /\ \A row \in Rows : row.on = Schemes /\ \A p \in row.paths : ~p.exact

\* A request can be for a host that no route names, behind any wildcard too.
Free(h) == \A row \in Rows : h \notin row.hosts
SomeHostIsFree == /\ \E h \in Hosts : Free(h)
                  /\ \A w \in Patterns \ Hosts : \E h \in MatchedBy[w] : Free(h)

\* A prefix agrees with the sequence element by element.
LEMMA PrefixByElement ==
  ASSUME NEW C, NEW u \in Seq(C), NEW v \in Seq(C)
  PROVE  IsPrefix(u, v) <=> Len(u) <= Len(v) /\ \A i \in 1..Len(u) : u[i] = v[i]
<1> SUFFICES ASSUME Len(u) <= Len(v)
             PROVE  SubSeq(u, 1, Len(u)) = SubSeq(v, 1, Len(u))
                      <=> \A i \in 1..Len(u) : u[i] = v[i]
  BY DEF IsPrefix
<1> DEFINE x == SubSeq(u, 1, Len(u))
           y == SubSeq(v, 1, Len(u))
<1>1. /\ x \in Seq(C) /\ Len(x) = Len(u) /\ \A i \in 1..Len(u) : x[i] = u[i]
      /\ y \in Seq(C) /\ Len(y) = Len(u) /\ \A i \in 1..Len(u) : y[i] = v[i]
  OBVIOUS
<1> HIDE DEF x, y
<1>2. x = y <=> \A i \in 1..Len(u) : x[i] = y[i]
  BY <1>1, SeqEqual
<1>3. QED
  BY <1>1, <1>2 DEF x, y

\* To be a prefix is reflexive and transitive.
LEMMA PrefixOrders ==
  ASSUME NEW C, NEW r \in Seq(C), NEW s \in Seq(C), NEW t \in Seq(C)
  PROVE  IsPrefix(s, s) /\ (IsPrefix(r, s) /\ IsPrefix(s, t) => IsPrefix(r, t))
<1>1. \A u, v \in Seq(C) : IsPrefix(u, v) <=>
        Len(u) <= Len(v) /\ \A i \in 1..Len(u) : u[i] = v[i]
  BY PrefixByElement
<1>2. Len(r) \in Nat /\ Len(s) \in Nat /\ Len(t) \in Nat
  OBVIOUS
<1>3. QED
  BY <1>1, <1>2

\* The hosts of a row match a host.
Matches(hosts, h) == hosts = {} \/ \E w \in hosts : h \in MatchedBy[w]

\* A pattern matches some hosts; a name matches itself, and is not matched by another.
LEMMA NamesMatch ==
  ASSUME NEW hosts, hosts \subseteq Patterns
  PROVE  /\ \A w \in hosts : MatchedBy[w] \subseteq Hosts /\ MatchedBy[w] # {}
         /\ \A h \in hosts : h \in Hosts => Matches(hosts, h)
         /\ \A h : hosts \subseteq Hosts /\ Matches(hosts, h) => hosts = {} \/ h \in hosts
BY PatternsAssumption DEF Matches

\* Under these, a proxy goes by the hosts and the prefixes of a row.
LEMMA TakesByRow ==
  ASSUME TableOK, RowsTellAll, NEW i \in DOMAIN table, NEW q \in Request
  PROVE  Takes(i, q) <=>
           /\ Matches(table[i].hosts, q.host)
           /\ table[i].paths = {} \/ \E p \in table[i].paths : IsPrefix(p.text, q.text)
<1>1. table[i].on = Schemes /\ \A p \in table[i].paths : ~p.exact
  BY RowType DEF RowsTellAll
<1>2. q.scheme \in Schemes
  BY DEF Request
<1>3. QED
  BY <1>1, <1>2 DEF Takes, Matches

\* The texts of paths.
LEMMA PathTexts ==
  ASSUME NEW C, Texts \subseteq Seq(C), TableOK, NEW i \in DOMAIN table
  PROVE  \A p \in table[i].paths :
           p.text \in Texts /\ p.text \in Seq(C) /\ IsPrefix(p.text, p.text)
<1>1. \A p \in table[i].paths : p.text \in Texts /\ p.text \in Seq(C)
  BY RowType
<1>2. QED
  BY <1>1, PrefixOrders

\* Every row takes some request.
LEMMA SomeRequest ==
  ASSUME NEW C, Texts \subseteq Seq(C), Texts # {}, TableOK, RowsTellAll,
         NEW i \in DOMAIN table
  PROVE  \E q \in Request : Takes(i, q)
<1>1. PICK s \in Schemes : TRUE
  BY DEF RowsTellAll
<1>2. PICK h \in Hosts : Matches(table[i].hosts, h)
  <2>1. CASE table[i].hosts = {}
    BY <2>1, PatternsAssumption DEF Matches
  <2>2. CASE table[i].hosts # {}
    <3>1. PICK w \in table[i].hosts : TRUE
      BY <2>2
    <3>2. MatchedBy[w] \subseteq Hosts /\ MatchedBy[w] # {}
      BY RowType, NamesMatch
    <3>3. QED
      BY <3>2 DEF Matches
  <2>3. QED
    BY <2>1, <2>2
<1>3. PICK t \in Texts : table[i].paths = {} \/ \E p \in table[i].paths : IsPrefix(p.text, t)
  BY PathTexts
<1> DEFINE q == [scheme |-> s, host |-> h, text |-> t]
<1>4. q \in Request /\ q.host = h /\ q.text = t
  BY DEF Request
<1> HIDE DEF q
<1>5. Takes(i, q)
  BY <1>2, <1>3, <1>4, TakesByRow
<1>6. QED
  BY <1>4, <1>5

\* A row that covers another takes every request the other takes (_covers,
\* analysis.py:347).
LEMMA CoversMeansTakes ==
  ASSUME NEW C, Texts \subseteq Seq(C), TableOK, RowsTellAll,
         NEW i \in DOMAIN table, NEW j \in DOMAIN table, Covers(i, j)
  PROVE  /\ table[j].paths = {} => table[i].paths = {}
         /\ \A q \in Request : Takes(j, q) => Takes(i, q)
<1> DEFINE a == table[i]
           b == table[j]
<1>1. ASSUME NEW q \in Request, Takes(j, q)
      PROVE  Takes(i, q)
  <2>1. Matches(a.hosts, q.host)
    BY <1>1, TakesByRow DEF Covers, HostCovers, Matches
  <2>2. a.paths = {} \/ \E p \in a.paths : IsPrefix(p.text, q.text)
    <3> SUFFICES ASSUME a.paths # {}
                 PROVE  \E p \in a.paths : IsPrefix(p.text, q.text)
      OBVIOUS
    <3>1. b.paths # {} /\ \A r \in b.paths : \E p \in a.paths : IsPrefix(p.text, r.text)
      BY DEF Covers, PathCovers
    <3>2. PICK r \in b.paths : IsPrefix(r.text, q.text)
      BY <1>1, <3>1, TakesByRow
    <3>3. PICK p \in a.paths : IsPrefix(p.text, r.text)
      BY <3>1, <3>2
    <3>4. q.text \in Seq(C) /\ p.text \in Seq(C) /\ r.text \in Seq(C)
      BY PathTexts DEF Request
    <3>5. QED
      BY <3>2, <3>3, <3>4, PrefixOrders
  <2>3. QED
    BY <2>1, <2>2, TakesByRow
<1>2. b.paths = {} => a.paths = {}
  BY DEF Covers, PathCovers
<1>3. QED
  BY <1>1, <1>2

\* A row without wildcards that takes every request another takes covers it: the
\* requests for the free hosts, and those for the very text of a path, tell them apart.
LEMMA TakesMeansCovers ==
  ASSUME NEW C, Texts \subseteq Seq(C), Texts # {}, TableOK, RowsTellAll, SomeHostIsFree,
         NEW i \in DOMAIN table, NEW j \in DOMAIN table, table[i].hosts \subseteq Hosts,
         table[j].paths = {} => table[i].paths = {},
         \A q \in Request : Takes(j, q) => Takes(i, q)
  PROVE  Covers(i, j)
<1> DEFINE a == table[i]
           b == table[j]
<1>1. PICK s \in Schemes : TRUE
  BY DEF RowsTellAll
<1>2. \A h \in Hosts, t \in Texts : [scheme |-> s, host |-> h, text |-> t] \in Request
  BY <1>1 DEF Request
<1>3. PICK t \in Texts : b.paths = {} \/ \E p \in b.paths : IsPrefix(p.text, t)
  BY PathTexts
<1>4. ASSUME NEW h \in Hosts, Matches(b.hosts, h)
      PROVE  a.hosts = {} \/ h \in a.hosts
  <2> DEFINE q == [scheme |-> s, host |-> h, text |-> t]
  <2>1. q \in Request /\ q.host = h /\ q.text = t
    BY <1>2
  <2> HIDE DEF q
  <2>2. Takes(j, q)
    BY <1>3, <1>4, <2>1, TakesByRow
  <2>3. Matches(a.hosts, h)
    BY <2>1, <2>2, TakesByRow
  <2>4. QED
    BY <2>3, RowType, NamesMatch
<1>5. HostCovers(a.hosts, b.hosts)
  <2>1. ASSUME a.hosts # {}, b.hosts = {}
        PROVE  FALSE
    <3>1. PICK free \in Hosts : Free(free)
      BY DEF SomeHostIsFree
    <3>2. Matches(b.hosts, free) /\ free \notin a.hosts
      BY <2>1, <3>1, RowType DEF Matches, Free
    <3>3. QED
      BY <1>4, <2>1, <3>2
  <2>2. ASSUME a.hosts # {}, NEW w \in b.hosts
        PROVE  w \in a.hosts
    <3>1. w \in Patterns /\ MatchedBy[w] \subseteq Hosts
      BY RowType, NamesMatch
    <3>2. CASE w \in Hosts
      BY <1>4, <2>2, <3>2, RowType, NamesMatch
    <3>3. CASE w \notin Hosts
      <4>1. PICK free \in MatchedBy[w] : Free(free)
        BY <3>1, <3>3 DEF SomeHostIsFree
      <4>2. free \in Hosts /\ Matches(b.hosts, free) /\ free \notin a.hosts
        BY <3>1, <4>1, RowType DEF Matches, Free
      <4>3. QED
        BY <1>4, <2>2, <4>2
    <3>4. QED
      BY <3>2, <3>3
  <2>3. QED
    BY <2>1, <2>2 DEF HostCovers
<1>6. PathCovers(a.paths, b.paths)
  <2>1. ASSUME a.paths # {}, NEW r \in b.paths
        PROVE  \E p \in a.paths : IsPrefix(p.text, r.text)
    <3>1. PICK h \in Hosts : Matches(b.hosts, h)
      <4>1. PICK q \in Request : Takes(j, q)
        BY SomeRequest
      <4>2. q.host \in Hosts /\ Matches(b.hosts, q.host)
        BY <4>1, TakesByRow DEF Request
      <4>3. QED
        BY <4>2
    <3> DEFINE q == [scheme |-> s, host |-> h, text |-> r.text]
    <3>2. q \in Request /\ q.host = h /\ q.text = r.text /\ IsPrefix(r.text, r.text)
      BY <1>2, <2>1, PathTexts
    <3> HIDE DEF q
    <3>3. Takes(j, q)
      BY <2>1, <3>1, <3>2, TakesByRow
    <3>4. Takes(i, q)
      BY <3>2, <3>3
    <3>5. QED
      BY <2>1, <3>2, <3>4, TakesByRow
  <2>2. QED
    BY <2>1 DEF PathCovers
<1>7. QED
  BY <1>5, <1>6 DEF Covers

\* Whatever the routes, where a row tells all the proxy goes by: a route is reported
\* as shadowed only if one route before it, other than a catch-all, takes every request
\* it takes, and if one does that has no wildcard (the shadowing of
\* route_conflict_analysis, analysis.py:386).
THEOREM ShadowedIsExactHolds ==
  ASSUME NEW C, Texts \subseteq Seq(C), Texts # {}, RowsTellAll, SomeHostIsFree
  PROVE  Tables => []ShadowedIsExact
<1>1. TableOK => ShadowedIsExact
  <2> SUFFICES ASSUME TableOK, NEW j \in Enabled
               PROVE  /\ j \in Shadowed => \E i \in Enabled : Precludes(i, j)
                      /\ \A i \in Enabled :
                           Precludes(i, j) /\ table[i].hosts \subseteq Hosts => j \in Shadowed
    BY DEF ShadowedIsExact
  <2> DEFINE S == {i \in Enabled : Earlier(i, j) /\ ~CatchAll(i) /\ Covers(i, j)}
  <2>1. Enabled \subseteq DOMAIN table
    BY DEF Enabled
  <2>2. j \in Shadowed <=> S # {}
    BY <2>1, ForemostChosen DEF Shadowed, Shadowing
  <2>3. \A i \in Enabled : Covers(i, j) =>
           /\ table[j].paths = {} => table[i].paths = {}
           /\ \A q \in Request : Takes(j, q) => Takes(i, q)
    BY <2>1, CoversMeansTakes
  <2>4. \A i \in Enabled : Precludes(i, j) /\ table[i].hosts \subseteq Hosts => Covers(i, j)
    BY <2>1, TakesMeansCovers DEF Precludes
  <2>5. j \in Shadowed => \E i \in Enabled : Precludes(i, j)
    BY <2>2, <2>3 DEF Precludes
  <2>6. \A i \in Enabled : Precludes(i, j) /\ table[i].hosts \subseteq Hosts => i \in S
    BY <2>4 DEF Precludes
  <2>7. QED
    BY <2>2, <2>5, <2>6
<1>2. QED
  BY InitTable, TableStep, <1>1, PTL DEF Tables
----------------------------------------------------------------------------
\* The routes that redirect, and the one that takes the target of one.
Redirectors == {i \in Enabled : Redirects(i)}
Onward(i) == MatchRedirect(table[i].to)

\* The routes that the analysis takes for those of a target.
Taken(to) == {k \in Enabled :
  /\ table[k].hosts = {} \/ SplitUrl(to).host \in table[k].hosts
  /\ table[k].paths = {} \/ \E p \in table[k].paths : IsPrefix(p.text, SplitUrl(to).text)}

\* The target of a redirect is a location, and an enabled route takes it or none.
LEMMA OnwardType ==
  ASSUME TableOK, NEW i \in Redirectors
  PROVE  /\ i \in DOMAIN table /\ Redirects(i) /\ table[i].to \in Location
         /\ Onward(i) = Foremost(Taken(table[i].to))
         /\ Onward(i) \in Enabled \cup {NoRoute}
<1>1. i \in DOMAIN table /\ Redirects(i)
  BY DEF Redirectors, Enabled
<1>2. table[i].to \in Location
  BY <1>1, RowType DEF Redirects
<1>3. Onward(i) = Foremost(Taken(table[i].to))
  BY DEF Onward, MatchRedirect, Taken
<1>4. Taken(table[i].to) \subseteq Enabled /\ Enabled \subseteq DOMAIN table
  BY DEF Enabled, Taken
<1>5. Onward(i) \in Enabled \cup {NoRoute}
  BY <1>3, <1>4, ForemostChosen
<1>6. QED
  BY <1>1, <1>2, <1>3, <1>5

\* The analysis sends a request on as the proxy does, to a target that is named.
LEMMA OnwardIsServed ==
  ASSUME TableOK, RowsTellAll, TargetsAreNamed, NEW i \in Redirectors
  PROVE  Served(table[i].to) = Onward(i)
<1> DEFINE q == table[i].to
<1>1. q \in Request /\ q.host \in Hosts /\ q.text \in Texts
  BY DEF TargetsAreNamed, Redirectors, Request
<1>2. SplitUrl(q).host = q.host /\ SplitUrl(q).text = q.text
  BY <1>1, NoneAssumption DEF SplitUrl
<1>3. ASSUME NEW k \in Enabled
      PROVE  Matches(table[k].hosts, q.host) <=> table[k].hosts = {} \/ q.host \in table[k].hosts
  <2>1. \A w \in table[k].hosts : q.host \in MatchedBy[w] => w = q.host
    BY <1>3 DEF TargetsAreNamed, Redirectors
  <2>2. q.host \in MatchedBy[q.host]
    BY <1>1, PatternsAssumption
  <2>3. QED
    BY <2>1, <2>2 DEF Matches
<1>4. ASSUME NEW k \in Enabled
      PROVE  Takes(k, q) <=>
               /\ table[k].hosts = {} \/ q.host \in table[k].hosts
               /\ table[k].paths = {} \/ \E p \in table[k].paths : IsPrefix(p.text, q.text)
  <2>1. k \in DOMAIN table
    BY DEF Enabled
  <2> HIDE DEF q
  <2>2. QED
    BY <1>1, <1>3, <2>1, TakesByRow
<1>5. {k \in Enabled : Takes(k, q)} = Taken(q)
  BY <1>2, <1>4 DEF Taken
<1>6. QED
  BY <1>5, OnwardType DEF Served
----------------------------------------------------------------------------
\* The states of the loop over hops, and one round of it.
Walks == [hops : Seq(Redirectors) \ {<<>>}, outcome : {"going", "ends", "loop"}]

Round(w) ==
  LET nxt == MatchRedirect(table[Last(w.hops)].to)
  IN CASE w.outcome # "going" -> w
       [] w.outcome = "going" /\ nxt = NoRoute -> [w EXCEPT !.outcome = "ends"]
       [] OTHER -> IF ~Redirects(nxt) THEN [w EXCEPT !.outcome = "ends"]
                   ELSE [hops |-> Append(w.hops, nxt),
                         outcome |-> IF Visited(w.hops, nxt) THEN "loop"
                                     ELSE "going"]

\* The last hop of a walk is a route that redirects.
LEMMA LastHop ==
  ASSUME TableOK, NEW w \in Walks
  PROVE  /\ w.hops \in Seq(Redirectors) /\ Len(w.hops) \in Nat /\ Len(w.hops) >= 1
         /\ Last(w.hops) = w.hops[Len(w.hops)]
         /\ Last(w.hops) \in Redirectors
         /\ w.outcome \in {"going", "ends", "loop"}
         /\ w = [hops |-> w.hops, outcome |-> w.outcome]
BY DEF Walks, Last

\* A round leaves a walk that is over, or ends it, or finds the loop, or goes on to
\* a route the walk has not been to.
LEMMA RoundCases ==
  ASSUME TableOK, NEW w \in Walks
  PROVE  /\ Round(w) \in Walks
         /\ w.outcome # "going" => Round(w) = w
         /\ w.outcome = "going" => LET nxt == Onward(Last(w.hops)) IN
              \/ /\ nxt = NoRoute \/ ~Redirects(nxt)
                 /\ Round(w) = [hops |-> w.hops, outcome |-> "ends"]
              \/ /\ nxt \in Redirectors /\ Visited(w.hops, nxt)
                 /\ Round(w) = [hops |-> Append(w.hops, nxt), outcome |-> "loop"]
              \/ /\ nxt \in Redirectors /\ ~Visited(w.hops, nxt)
                 /\ Round(w) = [hops |-> Append(w.hops, nxt), outcome |-> "going"]
<1> DEFINE nxt == Onward(Last(w.hops))
<1>1. /\ w.hops \in Seq(Redirectors) /\ Len(w.hops) \in Nat /\ Len(w.hops) >= 1
      /\ w.outcome \in {"going", "ends", "loop"} /\ w.hops # <<>>
      /\ w = [hops |-> w.hops, outcome |-> w.outcome]
  BY LastHop DEF Walks
<1>2. nxt \in Enabled \cup {NoRoute} /\ nxt = MatchRedirect(table[Last(w.hops)].to)
  BY LastHop, OnwardType DEF Onward
<1> HIDE DEF nxt
<1>3. CASE w.outcome # "going"
  BY <1>3 DEF Round
<1>4. CASE w.outcome = "going" /\ (nxt = NoRoute \/ ~Redirects(nxt))
  <2>1. Round(w) = [w EXCEPT !.outcome = "ends"]
    BY <1>2, <1>4 DEF Round
  <2>2. Round(w) = [hops |-> w.hops, outcome |-> "ends"]
    BY <1>1, <2>1
  <2>3. Round(w) \in Walks
    BY <1>1, <2>2 DEF Walks
  <2>4. QED
    BY <1>4, <2>2, <2>3 DEF nxt
<1>5. CASE w.outcome = "going" /\ nxt # NoRoute /\ Redirects(nxt)
  <2>1. Round(w) = [hops |-> Append(w.hops, nxt),
                    outcome |-> IF Visited(w.hops, nxt) THEN "loop" ELSE "going"]
    BY <1>2, <1>5 DEF Round
  <2>2. nxt \in Redirectors
    BY <1>2, <1>5 DEF Redirectors
  <2>3. Append(w.hops, nxt) \in Seq(Redirectors) /\ Append(w.hops, nxt) # <<>>
    BY <1>1, <2>2
  <2>4. Round(w) \in Walks
    BY <2>1, <2>3 DEF Walks
  <2>5. QED
    BY <1>5, <2>1, <2>2, <2>4 DEF nxt
<1>6. QED
  BY <1>3, <1>4, <1>5

\* What a walk from start holds after n rounds.
Chain(h, start) ==
  /\ h[1] = start
  /\ \A k \in 1..(Len(h) - 1) : h[k + 1] = Onward(h[k])
Distinct(h) == \A k, m \in 1..Len(h) : h[k] = h[m] => k = m

\* A walk that goes on has been to n + 1 routes, all distinct; one that loops has
\* been to its last hop before; one that ends has no redirect to go on to.
WalkInv(w, start, n) ==
  /\ w \in Walks /\ Chain(w.hops, start)
  /\ w.outcome = "going" => Distinct(w.hops) /\ Len(w.hops) = n + 1
  /\ w.outcome = "loop" => \E k \in 1..(Len(w.hops) - 1) : w.hops[k] = Last(w.hops)
  /\ w.outcome = "ends" =>
       LET nxt == Onward(Last(w.hops))
       IN  Distinct(w.hops) /\ (nxt = NoRoute \/ ~Redirects(nxt))

\* A round keeps that.
LEMMA WalkRound ==
  ASSUME TableOK, NEW start \in Redirectors, NEW n \in Nat, NEW w, WalkInv(w, start, n)
  PROVE  WalkInv(Round(w), start, n + 1)
<1>1. /\ w \in Walks /\ w.hops \in Seq(Redirectors) /\ Len(w.hops) \in Nat /\ Len(w.hops) >= 1
      /\ Last(w.hops) = w.hops[Len(w.hops)] /\ Last(w.hops) \in Redirectors
  BY LastHop DEF WalkInv
<1>2. CASE w.outcome # "going"
  BY <1>1, <1>2, RoundCases DEF WalkInv
<1>3. CASE w.outcome = "going"
  <2> DEFINE nxt == Onward(Last(w.hops))
             h == Append(w.hops, nxt)
  <2>1. CASE (nxt = NoRoute \/ ~Redirects(nxt)) /\ Round(w) = [hops |-> w.hops, outcome |-> "ends"]
    BY <1>1, <1>3, <2>1, RoundCases DEF WalkInv
  <2>2. ASSUME nxt \in Redirectors
        PROVE  /\ Chain(h, start) /\ Len(h) = Len(w.hops) + 1
               /\ h[Len(h)] = nxt /\ \A k \in 1..Len(w.hops) : h[k] = w.hops[k]
    <3>1. Len(h) = Len(w.hops) + 1 /\ h[Len(h)] = nxt /\ \A k \in 1..Len(w.hops) : h[k] = w.hops[k]
      BY <1>1, <2>2
    <3>2. h[1] = start
      BY <1>1, <3>1 DEF WalkInv, Chain
    <3>3. ASSUME NEW k \in 1..(Len(h) - 1)
          PROVE  h[k + 1] = Onward(h[k])
      <4>1. CASE k = Len(w.hops)
        BY <1>1, <3>1, <4>1
      <4>2. CASE k # Len(w.hops)
        <5>1. k \in 1..(Len(w.hops) - 1) /\ k + 1 \in 1..Len(w.hops) /\ k \in 1..Len(w.hops)
          BY <1>1, <3>1, <4>2
        <5>2. QED
          BY <3>1, <5>1 DEF WalkInv, Chain
      <4>3. QED
        BY <4>1, <4>2
    <3>4. QED
      BY <3>1, <3>2, <3>3 DEF Chain
  <2>3. CASE /\ nxt \in Redirectors /\ Visited(w.hops, nxt)
             /\ Round(w) = [hops |-> h, outcome |-> "loop"]
    <3>1. PICK k \in 1..Len(w.hops) : w.hops[k] = nxt
      BY <2>3 DEF Visited, Contains
    <3>2. k \in 1..(Len(h) - 1) /\ h[k] = Last(h)
      BY <1>1, <2>2, <2>3, <3>1 DEF Last
    <3>3. Round(w) \in Walks
      BY <1>1, RoundCases
    <3>4. QED
      BY <2>2, <2>3, <3>2, <3>3 DEF WalkInv
  <2>4. CASE /\ nxt \in Redirectors /\ ~Visited(w.hops, nxt)
             /\ Round(w) = [hops |-> h, outcome |-> "going"]
    <3>1. \A k \in 1..Len(w.hops) : w.hops[k] # nxt
      BY <2>4 DEF Visited, Contains
    <3>2. Distinct(w.hops) /\ Len(w.hops) = n + 1
      BY <1>3 DEF WalkInv
    <3>3. Distinct(h)
      <4> SUFFICES ASSUME NEW k \in 1..Len(h), NEW m \in 1..Len(h), h[k] = h[m]
                   PROVE  k = m
        BY DEF Distinct
      <4>1. \A x \in 1..Len(h) : x \in 1..Len(w.hops) \/ x = Len(h)
        BY <1>1, <2>2, <2>4
      <4>2. QED
        BY <2>2, <2>4, <3>1, <3>2, <4>1 DEF Distinct
    <3>4. Round(w) \in Walks
      BY <1>1, RoundCases
    <3>5. QED
      BY <2>2, <2>4, <3>2, <3>3, <3>4 DEF WalkInv
  <2>5. QED
    BY <1>1, <1>3, <2>1, <2>3, <2>4, RoundCases
<1>4. QED
  BY <1>2, <1>3

\* The walk is the last of MaxHops rounds from the route it starts at.
FirstHop(start) == [hops |-> <<start>>, outcome |-> "going"]

IsWalk(f, start) ==
  /\ f[0] = FirstHop(start) /\ Walk(start) = f[MaxHops]
  /\ \A n \in 1..MaxHops : f[n] = Round(f[n - 1])

\* The loop over hops is one round after the other.
LEMMA WalkIsRounds ==
  ASSUME TableOK, NEW start \in Redirectors
  PROVE  \E f : IsWalk(f, start)
<1> DEFINE c == FirstHop(start)
           F == [w \in Walks |-> Round(w)]
           walk[n \in 0..MaxHops] ==
             IF n = 0 THEN [hops |-> <<start>>, outcome |-> "going"]
             ELSE LET w == walk[n - 1]
                      nxt == MatchRedirect(table[Last(w.hops)].to)
                  IN CASE w.outcome # "going" -> w
                       [] w.outcome = "going" /\ nxt = NoRoute -> [w EXCEPT !.outcome = "ends"]
                       [] OTHER -> IF ~Redirects(nxt) THEN [w EXCEPT !.outcome = "ends"]
                                   ELSE [hops |-> Append(w.hops, nxt),
                                         outcome |-> IF Visited(w.hops, nxt) THEN "loop"
                                                     ELSE "going"]
<1>1. c \in Walks
  BY DEF Walks, FirstHop
<1>2. F \in [Walks -> Walks]
  BY RoundCases
<1>3. PICK f : Iterates(f, Walks, c, F, MaxHops)
  <2> HIDE DEF c, F, walk
  <2>1. MaxHops \in Nat
    BY BoundsAssumption
  <2>2. QED
    BY <1>1, <1>2, <2>1, Iterated
<1>4. ASSUME NEW n \in 1..MaxHops
      PROVE  f[n] = Round(f[n - 1])
  <2>1. n - 1 \in 0..MaxHops
    BY BoundsAssumption
  <2>2. QED
    BY <1>3, <2>1 DEF Iterates
<1>5. f = [n \in 0..MaxHops |-> IF n = 0 THEN c ELSE Round(f[n - 1])]
  <2> HIDE DEF c, F
  <2>1. \A n \in 0..MaxHops : n # 0 => n \in 1..MaxHops
    BY BoundsAssumption
  <2>2. QED
    BY <1>3, <1>4, <2>1 DEF Iterates
<1>6. walk = [n \in 0..MaxHops |-> IF n = 0 THEN c ELSE Round(walk[n - 1])]
  <2>1. \E g : g = [n \in 0..MaxHops |-> IF n = 0 THEN c ELSE Round(g[n - 1])]
    BY <1>5, Zenon
  <2>2. QED
    BY <2>1, Zenon DEF walk, Round, FirstHop
<1>7. Walk(start) = walk[MaxHops]
  BY DEF Walk, walk
<1> HIDE DEF walk, c, F
<1>8. walk[0] = c /\ \A n \in 1..MaxHops : walk[n] = Round(walk[n - 1])
  BY <1>6, BoundsAssumption
<1>9. QED
  BY <1>7, <1>8 DEF c, IsWalk

\* So what the loop leaves is a walk of MaxHops rounds at most.
LEMMA WalkEnds ==
  ASSUME TableOK, NEW start \in Redirectors
  PROVE  WalkInv(Walk(start), start, MaxHops)
<1>1. PICK f : IsWalk(f, start)
  BY WalkIsRounds
<1> DEFINE T == {n \in Nat : WalkInv(f[n], start, n)}
<1>2. 0 \in T
  <2>1. f[0].hops = <<start>> /\ f[0].outcome = "going" /\ f[0] \in Walks
    BY <1>1 DEF Walks, FirstHop, IsWalk
  <2>2. Len(<<start>>) = 1 /\ <<start>>[1] = start
    OBVIOUS
  <2>3. Chain(<<start>>, start) /\ Distinct(<<start>>)
    BY <2>2 DEF Chain, Distinct
  <2>4. WalkInv(f[0], start, 0)
    BY <2>1, <2>2, <2>3 DEF WalkInv
  <2>5. QED
    BY <2>4
<1>3. ASSUME NEW n \in 0..(MaxHops - 1), n \in T
      PROVE  n + 1 \in T
  <2>1. n \in Nat /\ n + 1 \in 1..MaxHops /\ (n + 1) - 1 = n
    BY BoundsAssumption
  <2>2. f[n + 1] = Round(f[n])
    BY <1>1, <2>1 DEF IsWalk
  <2>3. QED
    BY <1>3, <2>1, <2>2, WalkRound
<1> HIDE DEF T
<1>4. MaxHops \in T
  BY <1>2, <1>3, BoundsAssumption, Upto
<1>5. QED
  BY <1>1, <1>4 DEF T, IsWalk
----------------------------------------------------------------------------
\* The redirects of the proxy, one after the other.
Places == Enabled \cup {NoRoute}
Hop(k) ==
  IF k = NoRoute THEN NoRoute
  ELSE IF Redirects(k) THEN Served(table[k].to) ELSE NoRoute

\* The client, at a route with its request, and where a redirect sends it.
Client == [route : Places, request : Request]
Sent(c) == NextRequest(c.request, table[c.route].to)
Onto(c) == IF c.route # NoRoute /\ Redirects(c.route)
           THEN [route |-> Served(Sent(c)), request |-> Sent(c)]
           ELSE [c EXCEPT !.route = NoRoute]

\* A redirect that names its target leads there, whatever the request.
LEMMA OntoIsHop ==
  ASSUME TableOK, TargetsAreNamed, NEW c \in Client
  PROVE  Onto(c) \in Client /\ Onto(c).route = Hop(c.route)
<1>1. /\ c.route \in Places /\ c.request \in Request
      /\ c = [route |-> c.route, request |-> c.request]
  BY DEF Client
<1>2. CASE c.route # NoRoute /\ Redirects(c.route)
  <2> DEFINE to == table[c.route].to
  <2>1. c.route \in Enabled /\ to \in Request
    BY <1>1, <1>2 DEF Places, TargetsAreNamed
  <2>2. /\ to.scheme # AsSent /\ to.host # AsSent /\ to.text # AsSent
        /\ DOMAIN c.request = {"scheme", "host", "text"}
        /\ to = [scheme |-> to.scheme, host |-> to.host, text |-> to.text]
    BY <1>1, <2>1, NoneAssumption, PatternsAssumption DEF Request
  <2> HIDE DEF to
  <2>3. NextRequest(c.request, to) = [field \in {"scheme", "host", "text"} |-> to[field]]
    BY <2>2 DEF NextRequest
  <2>4. NextRequest(c.request, to) = to
    BY <2>1, <2>3 DEF Request
  <2>5. Sent(c) = to
    BY <2>4 DEF Sent, to
  <2>6. {i \in Enabled : Takes(i, to)} \subseteq DOMAIN table
    BY DEF Enabled
  <2>7. Served(to) \in Places
    BY <2>6, ForemostChosen DEF Served, Places
  <2>8. Onto(c) = [route |-> Served(to), request |-> to]
    BY <1>2, <2>5 DEF Onto
  <2>9. QED
    BY <1>2, <2>1, <2>7, <2>8 DEF Hop, Client, to
<1>3. CASE ~ (c.route # NoRoute /\ Redirects(c.route))
  <2>1. Onto(c) = [route |-> NoRoute, request |-> c.request]
    BY <1>1, <1>3 DEF Onto
  <2>2. QED
    BY <1>1, <1>3, <2>1 DEF Hop, Client, Places
<1>4. QED
  BY <1>2, <1>3

\* What the proxy does with n redirects is n of its steps, one after the other.
LEMMA RedirectedIsHops ==
  ASSUME TableOK, TargetsAreNamed, NEW i \in Enabled, NEW q \in Request, NEW N \in Nat
  PROVE  \E f : /\ f[0] = i /\ \A k \in 1..N : f[k] = Hop(f[k - 1])
               /\ Redirected(i, q, N) = f[N]
<1> DEFINE start == [route |-> i, request |-> q]
           F == [c \in Client |-> Onto(c)]
           goes[k \in 0..N] ==
             IF k = 0 THEN [route |-> i, request |-> q]
             ELSE LET last == goes[k - 1]
                      sent == NextRequest(last.request, table[last.route].to)
                  IN IF last.route # NoRoute /\ Redirects(last.route)
                     THEN [route |-> Served(sent), request |-> sent]
                     ELSE [last EXCEPT !.route = NoRoute]
<1>1. start \in Client
  BY DEF Places, Client
<1>2. F \in [Client -> Client]
  BY OntoIsHop
<1>3. PICK g : Iterates(g, Client, start, F, N)
  <2> HIDE DEF F, goes, start
  <2>1. QED
    BY <1>1, <1>2, Iterated
<1>4. ASSUME NEW k \in 1..N
      PROVE  g[k] = Onto(g[k - 1]) /\ g[k - 1] \in Client
  <2>1. k - 1 \in 0..N
    OBVIOUS
  <2>2. QED
    BY <1>3, <2>1 DEF Iterates
<1>5. g = [k \in 0..N |-> IF k = 0 THEN start ELSE Onto(g[k - 1])]
  <2> HIDE DEF F, start
  <2>1. \A k \in 0..N : k # 0 => k \in 1..N
    OBVIOUS
  <2>2. QED
    BY <1>3, <1>4, <2>1 DEF Iterates
<1>6. goes = [k \in 0..N |-> IF k = 0 THEN start ELSE Onto(goes[k - 1])]
  <2>1. \E x : x = [k \in 0..N |-> IF k = 0 THEN start ELSE Onto(x[k - 1])]
    BY <1>5, Zenon
  <2>2. QED
    BY <2>1, Zenon DEF goes, Onto, Sent
<1>7. Redirected(i, q, N) = goes[N].route
  BY DEF Redirected, goes
<1> HIDE DEF goes, F, start
<1>8. goes[0] = start /\ \A k \in 1..N : goes[k] = Onto(goes[k - 1])
  BY <1>6
<1> DEFINE T == {k \in 0..N : goes[k] \in Client}
<1>9. \A k \in 0..N : k \in T
  <2>1. 0 \in T
    BY <1>1, <1>8
  <2>2. ASSUME NEW k \in 0..(N - 1), k \in T
        PROVE  k + 1 \in T
    <3>1. k + 1 \in 1..N /\ (k + 1) - 1 = k /\ k + 1 \in 0..N
      OBVIOUS
    <3>2. QED
      BY <1>8, <2>2, <3>1, OntoIsHop
  <2> HIDE DEF T
  <2>3. QED
    BY <2>1, <2>2, Upto
<1> DEFINE f == [k \in 0..N |-> goes[k].route]
<1>10. f[0] = i /\ Redirected(i, q, N) = f[N]
  BY <1>7, <1>8 DEF start
<1>11. ASSUME NEW k \in 1..N
       PROVE  f[k] = Hop(f[k - 1])
  <2>1. k - 1 \in 0..N /\ k \in 0..N
    OBVIOUS
  <2>2. goes[k] = Onto(goes[k - 1]) /\ goes[k - 1] \in Client
    BY <1>8, <1>9, <2>1
  <2>3. goes[k].route = Hop(goes[k - 1].route)
    BY <2>2, OntoIsHop
  <2>4. QED
    BY <2>1, <2>3
<1>12. QED
  BY <1>10, <1>11

\* From NoRoute nothing goes on, and a route that does not redirect is the last.
LEMMA StaysNoRoute ==
  ASSUME NEW N \in Nat, NEW f, \A k \in 1..N : f[k] = Hop(f[k - 1]),
         NEW m \in 0..N, f[m] = NoRoute
  PROVE  f[N] = NoRoute
<1> DEFINE T == {k \in 0..N : k >= m => f[k] = NoRoute}
<1>1. 0 \in T
  OBVIOUS
<1>2. ASSUME NEW k \in 0..(N - 1), k \in T
      PROVE  k + 1 \in T
  <2>1. k + 1 \in 1..N /\ (k + 1) - 1 = k
    OBVIOUS
  <2>2. f[k + 1] = Hop(f[k])
    BY <2>1
  <2>3. CASE k >= m
    BY <1>2, <2>1, <2>2, <2>3 DEF Hop
  <2>4. CASE ~ (k >= m)
    BY <1>2, <2>1, <2>4
  <2>5. QED
    BY <2>3, <2>4
<1> HIDE DEF T
<1>3. N \in T
  BY <1>1, <1>2, Upto
<1>4. QED
  BY <1>3 DEF T

\* A walk that comes back to a hop goes round for ever.
LEMMA LoopIsEndless ==
  ASSUME TableOK, RowsTellAll, TargetsAreNamed, NEW i \in Redirectors, NEW q \in Request,
         Walk(i).outcome = "loop", NEW N \in Nat
  PROVE  Redirected(i, q, N) # NoRoute
<1> DEFINE w == Walk(i)
           h == w.hops
           S == {h[k] : k \in 1..Len(h)}
<1>1. /\ w \in Walks /\ h[1] = i /\ \A k \in 1..(Len(h) - 1) : h[k + 1] = Onward(h[k])
      /\ \E k \in 1..(Len(h) - 1) : h[k] = Last(h)
  BY WalkEnds DEF WalkInv, Chain
<1>2. /\ h \in Seq(Redirectors) /\ Len(h) \in Nat /\ Len(h) >= 1 /\ Last(h) = h[Len(h)]
  BY <1>1, LastHop
<1> HIDE DEF w
<1>3. S \subseteq Redirectors /\ i \in S
  BY <1>1, <1>2
<1>4. ASSUME NEW s \in S
      PROVE  Hop(s) \in S
  <2>1. PICK k \in 1..(Len(h) - 1) : h[k] = s
    <3>1. PICK m \in 1..Len(h) : h[m] = s
      BY <1>4
    <3>2. CASE m = Len(h)
      BY <1>1, <1>2, <3>1, <3>2
    <3>3. CASE m # Len(h)
      BY <1>2, <3>1, <3>3
    <3>4. QED
      BY <3>2, <3>3
  <2>2. h[k + 1] = Onward(s) /\ k + 1 \in 1..Len(h)
    BY <1>1, <1>2, <2>1
  <2>3. Onward(s) \in S
    BY <2>2
  <2>4. s \in Redirectors /\ s \in Nat /\ Redirects(s)
    BY <1>3, OnwardType, RowType
  <2>5. Hop(s) = Onward(s)
    BY <2>4, OnwardIsServed, NoneAssumption DEF Hop
  <2>6. QED
    BY <2>3, <2>5
<1> HIDE DEF S
<1>5. i \in Enabled
  BY DEF Redirectors
<1>6. PICK f : f[0] = i /\ (\A k \in 1..N : f[k] = Hop(f[k - 1])) /\ Redirected(i, q, N) = f[N]
  BY <1>5, RedirectedIsHops, Zenon
<1> DEFINE T == {k \in 0..N : f[k] \in S}
<1>7. 0 \in T
  BY <1>3, <1>6
<1>8. ASSUME NEW k \in 0..(N - 1), k \in T
      PROVE  k + 1 \in T
  <2>1. k + 1 \in 1..N /\ (k + 1) - 1 = k /\ k + 1 \in 0..N
    OBVIOUS
  <2>2. f[k + 1] = Hop(f[k])
    BY <1>6, <2>1
  <2>3. QED
    BY <1>4, <1>8, <2>1, <2>2
<1> HIDE DEF T
<1>9. N \in T
  BY <1>7, <1>8, Upto
<1>10. f[N] \in Redirectors
  BY <1>3, <1>9 DEF T
<1>11. f[N] \in Nat
  BY <1>10, OnwardType, RowType
<1>12. QED
  BY <1>6, <1>11, NoneAssumption

\* Distinct hops are no more than the routes that redirect.
LEMMA HopsAreFew ==
  ASSUME TableOK, NEW h \in Seq(Redirectors), Distinct(h)
  PROVE  /\ IsFiniteSet(Redirectors) /\ Cardinality(Redirectors) \in Nat
         /\ Len(h) <= Cardinality(Redirectors) /\ Cardinality(Redirectors) <= Len(table)
<1>1. Len(table) \in Nat /\ Len(h) \in Nat /\ DOMAIN table = 1..Len(table)
  BY DEF TableOK
<1>2. /\ IsFiniteSet(1..Len(table)) /\ Cardinality(1..Len(table)) = Len(table)
      /\ IsFiniteSet(1..Len(h)) /\ Cardinality(1..Len(h)) = Len(h)
  <2>1. \A n \in Nat : IsFiniteSet(1..n) /\ Cardinality(1..n) = n
    <3> SUFFICES ASSUME NEW n \in Nat PROVE IsFiniteSet(1..n) /\ Cardinality(1..n) = n
      OBVIOUS
    <3>1. 1 \in Int /\ n \in Int
      OBVIOUS
    <3>2. /\ IsFiniteSet(1..n)
          /\ Cardinality(1..n) = IF 1 > n THEN 0 ELSE n - 1 + 1
      BY <3>1, FS_Interval
    <3>3. QED
      BY <3>2
  <2>2. QED
    BY <1>1, <2>1
<1>3. Redirectors \in SUBSET (1..Len(table))
  BY <1>1 DEF Redirectors, Enabled
<1>4. IsFiniteSet(Redirectors) /\ Cardinality(Redirectors) \in Nat
        /\ Cardinality(Redirectors) <= Len(table)
  BY <1>2, <1>3, FS_Subset, FS_CardinalityType
<1> DEFINE f == [k \in 1..Len(h) |-> h[k]]
<1>5. f \in Injection(1..Len(h), Redirectors)
  <2>1. f \in [1..Len(h) -> Redirectors]
    OBVIOUS
  <2>2. \A k, m \in 1..Len(h) : f[k] = f[m] => k = m
    BY DEF Distinct
  <2>3. QED
    BY <2>1, <2>2, Zenon DEF Injection, IsInjective
<1>6. Cardinality(1..Len(h)) <= Cardinality(Redirectors)
  BY <1>4, <1>5, FS_Injection
<1>7. QED
  BY <1>2, <1>4, <1>6

\* A walk that ends is a redirect that ends.
LEMMA EndIsEnd ==
  ASSUME TableOK, RowsTellAll, TargetsAreNamed, NEW i \in Redirectors, NEW q \in Request,
         Walk(i).outcome = "ends"
  PROVE  Redirected(i, q, Patience) = NoRoute
<1> DEFINE w == Walk(i)
           h == w.hops
           N == Patience
           nxt == Onward(Last(h))
<1>1. /\ w \in Walks /\ h[1] = i /\ \A k \in 1..(Len(h) - 1) : h[k + 1] = Onward(h[k])
      /\ Distinct(h) /\ (nxt = NoRoute \/ ~Redirects(nxt))
  BY WalkEnds DEF WalkInv, Chain
<1>2. /\ h \in Seq(Redirectors) /\ Len(h) \in Nat /\ Len(h) >= 1 /\ Last(h) = h[Len(h)]
  BY <1>1, LastHop
<1> HIDE DEF w
<1>3. Len(h) + 1 <= N /\ N \in Nat /\ i \in Enabled
  BY <1>1, <1>2, HopsAreFew, BoundsAssumption DEF TableOK, Redirectors
<1>4. PICK f : f[0] = i /\ (\A k \in 1..N : f[k] = Hop(f[k - 1])) /\ Redirected(i, q, N) = f[N]
  <2> HIDE DEF N
  <2>1. QED
    BY <1>3, RedirectedIsHops, Zenon
<1>5. \A s \in Redirectors : Hop(s) = Onward(s)
  <2> SUFFICES ASSUME NEW s \in Redirectors PROVE Hop(s) = Onward(s)
    OBVIOUS
  <2>1. s \in Nat /\ Redirects(s)
    BY OnwardType, RowType
  <2>2. QED
    BY <2>1, OnwardIsServed, NoneAssumption DEF Hop
<1> DEFINE M == Len(h) - 1
           T == {k \in 0..M : f[k] = h[k + 1]}
<1>6. M \in Nat /\ 0 \in T
  BY <1>1, <1>2, <1>4
<1>7. ASSUME NEW k \in 0..(M - 1), k \in T
      PROVE  k + 1 \in T
  <2>1. k + 1 \in 1..M /\ k + 1 \in 1..N /\ (k + 1) - 1 = k /\ k + 1 \in 0..M
    BY <1>2, <1>3
  <2>2. f[k + 1] = Hop(f[k]) /\ f[k] = h[k + 1] /\ h[k + 1] \in Redirectors
    BY <1>2, <1>4, <1>7, <2>1
  <2>3. h[(k + 1) + 1] = Onward(h[k + 1])
    BY <1>1, <2>1
  <2>4. QED
    BY <1>5, <2>1, <2>2, <2>3
<1>8. M \in T
  <2> HIDE DEF T, M
  <2>1. QED
    BY <1>6, <1>7, Upto
<1>9. f[M] = Last(h) /\ Last(h) \in Redirectors
  BY <1>2, <1>8
<1>10. f[Len(h)] = nxt
  <2>1. Len(h) \in 1..N /\ Len(h) - 1 = M
    BY <1>2, <1>3
  <2>2. QED
    BY <1>4, <1>5, <1>9, <2>1
<1>11. f[Len(h) + 1] = NoRoute
  <2>1. Len(h) + 1 \in 1..N /\ (Len(h) + 1) - 1 = Len(h)
    BY <1>2, <1>3
  <2>2. f[Len(h) + 1] = Hop(nxt)
    BY <1>4, <1>10, <2>1
  <2>3. QED
    BY <1>1, <2>2 DEF Hop
<1>12. f[N] = NoRoute
  <2>1. Len(h) + 1 \in 0..N
    BY <1>2, <1>3
  <2> HIDE DEF N
  <2>2. QED
    BY <1>3, <1>4, <1>11, <2>1, StaysNoRoute
<1>13. QED
  BY <1>4, <1>12

\* The walk is not cut short: it has a hop for every route that redirects.
HopsSuffice == Cardinality(Redirectors) <= MaxHops

\* A walk that loops is a redirect without end, and a redirect without end is a walk
\* that loops if it is not cut short.
LEMMA WalkTells ==
  ASSUME TableOK, RowsTellAll, TargetsAreNamed, NEW i \in Redirectors, NEW q \in Request
  PROVE  /\ Walk(i).outcome = "loop" => Redirected(i, q, Patience) # NoRoute
         /\ HopsSuffice /\ Redirected(i, q, Patience) # NoRoute => Walk(i).outcome = "loop"
<1>1. Patience \in Nat
  BY BoundsAssumption
<1>2. WalkInv(Walk(i), i, MaxHops)
  BY WalkEnds
<1>3. ASSUME Walk(i).outcome = "going", HopsSuffice
      PROVE  FALSE
  <2>1. Distinct(Walk(i).hops) /\ Len(Walk(i).hops) = MaxHops + 1 /\ Walk(i).hops \in Seq(Redirectors)
    BY <1>2, <1>3, LastHop DEF WalkInv
  <2>2. Len(Walk(i).hops) <= Cardinality(Redirectors) /\ Cardinality(Redirectors) \in Nat
    BY <2>1, HopsAreFew
  <2>3. QED
    BY <1>3, <2>1, <2>2, BoundsAssumption DEF HopsSuffice
<1>4. Walk(i).outcome \in {"going", "ends", "loop"}
  BY <1>2, LastHop DEF WalkInv
<1>5. QED
  BY <1>1, <1>3, <1>4, LoopIsEndless, EndIsEnd

\* A route that does not redirect is the end.
LEMMA ServiceEnds ==
  ASSUME TableOK, TargetsAreNamed, NEW i \in Enabled, ~Redirects(i), NEW q \in Request
  PROVE  Redirected(i, q, Patience) = NoRoute
<1> DEFINE N == Patience
<1>1. N \in Nat /\ 1 \in 1..N /\ 1 \in 0..N
  BY BoundsAssumption
<1> HIDE DEF N
<1>2. PICK f : f[0] = i /\ (\A k \in 1..N : f[k] = Hop(f[k - 1])) /\ Redirected(i, q, N) = f[N]
  BY <1>1, RedirectedIsHops, Zenon
<1>3. f[1] = NoRoute
  <2>1. f[1] = Hop(f[1 - 1]) /\ 1 - 1 = 0
    BY <1>1, <1>2
  <2>2. QED
    BY <1>2, <2>1 DEF Hop
<1>4. QED
  BY <1>1, <1>2, <1>3, StaysNoRoute DEF N

\* However few hops the analysis follows: where redirects name their targets and no
\* wildcard takes one, a redirect that is reported as a loop never reaches a service
\* (the walk of analysis.py:443).
THEOREM LoopsNeverEndHolds ==
  ASSUME NEW C, Texts \subseteq Seq(C), Texts # {}, RowsTellAll
  PROVE  Tables => [](TargetsAreNamed => LoopsNeverEnd)
<1>1. ASSUME TableOK, TargetsAreNamed
      PROVE  LoopsNeverEnd
  <2>1. \A i \in RedirectLoops : \E q \in Request : Takes(i, q)
    BY <1>1, SomeRequest DEF RedirectLoops, Enabled
  <2>2. QED
    BY <1>1, <2>1, WalkTells DEF LoopsNeverEnd, RedirectLoops, Endless, Redirectors
<1>2. QED
  BY InitTable, TableStep, <1>1, PTL DEF Tables

\* While no more routes redirect than the analysis follows hops (_MAX_REDIRECT_HOPS),
\* and again where redirects name their targets and no wildcard takes one, the
\* redirects reported are exactly those that lead on without end (analysis.py:449).
THEOREM LoopsAreExactHolds ==
  ASSUME NEW C, Texts \subseteq Seq(C), Texts # {}, RowsTellAll
  PROVE  Tables => [](HopsSuffice => LoopsAreExact)
<1>1. ASSUME TableOK, HopsSuffice, TargetsAreNamed
      PROVE  RedirectLoops = Endless
  <2>1. \A i \in RedirectLoops : \E q \in Request : Takes(i, q)
    BY <1>1, SomeRequest DEF RedirectLoops, Enabled
  <2>2. RedirectLoops \subseteq Endless
    BY <1>1, <2>1, WalkTells DEF RedirectLoops, Endless, Redirectors
  <2>3. Endless \subseteq RedirectLoops
    BY <1>1, WalkTells, ServiceEnds DEF RedirectLoops, Endless, Redirectors
  <2>4. QED
    BY <2>2, <2>3
<1>2. TableOK => (HopsSuffice => LoopsAreExact)
  BY <1>1 DEF LoopsAreExact
<1>3. QED
  BY InitTable, TableStep, <1>2, PTL DEF Tables
----------------------------------------------------------------------------
(* The availability analyses: types.                                       *)

\* What a request of the pull can ask for.
Fields == {"routes", "names", "total", "up"}

\* The fields of the pull.
PullType ==
  [running : BOOLEAN, listed : BOOLEAN, todo : Seq(SUBSET Fields),
   routes : SUBSET (Services \cup {Ghost}), names : SUBSET Services,
   total : [Services -> Nat], up : [Services -> Nat]]

\* The pull, and that the routes are asked for first and alone.
PullOK ==
  /\ pull \in PullType
  /\ pull.todo # <<>> => pull.running
  /\ \A i \in DOMAIN pull.todo :
       "routes" \in pull.todo[i] => i = 1 /\ pull.todo[1] = {"routes"}

\* The servers of the services, and none of a service that is not there.
FleetOK ==
  /\ fleet \in [Services -> Counts]
  /\ deployed \subseteq Services /\ touched \subseteq Services /\ retired \subseteq touched
  /\ \A v \in Services \ deployed : fleet[v] = None

\* The counts of servers add up to a number.
LEMMA TotalType ==
  ASSUME NEW c \in Counts
  PROVE  /\ Total(c) \in Nat
         /\ \A st \in AllStatuses : c[st] \in Nat
BY DEF Total, Counts, AllStatuses

\* No servers are counts too.
LEMMA NoneType == None \in Counts /\ \A st \in AllStatuses : None[st] = 0
BY DEF None, Counts, AllStatuses

\* The requests of a platform: the routes come first, and in a request of their own.
LEMMA RequestsType ==
  /\ Requests \in Seq(SUBSET Fields) /\ Requests # <<>>
  /\ \A i \in DOMAIN Requests : "routes" \in Requests[i] => i = 1 /\ Requests[1] = {"routes"}
<1>1. CASE Platform = "traefik"
  BY <1>1 DEF Requests, Fields
<1>2. CASE Platform = "haproxy"
  BY <1>2 DEF Requests, Fields
<1>3. CASE Platform = "caddy"
  BY <1>3 DEF Requests, Fields
<1>4. QED
  BY <1>1, <1>2, <1>3, PlatformAssumption

\* The idle pull is one, with nothing to ask for.
LEMMA IdleOK ==
  /\ Idle \in PullType
  /\ Idle.todo = <<>> /\ ~Idle.running
BY DEF Idle, Zero, PullType

\* A pull that ends early.
LEMMA CutOff ==
  ASSUME NEW p \in PullType, NEW e \in Seq(SUBSET Fields), NEW b \in BOOLEAN
  PROVE  LET q == [p EXCEPT !.todo = e, !.listed = b]
         IN  q \in PullType /\ q.todo = e /\ q.listed = b /\ q.running = p.running
               /\ q.routes = p.routes
BY DEF PullType

\* The pull that gives up on the services.
LEMMA EarlyEnd ==
  ASSUME NEW p \in PullType, NEW q, q = [p EXCEPT !.todo = <<>>, !.listed = FALSE]
  PROVE  q \in PullType /\ q.todo = <<>> /\ q.listed = FALSE /\ q.running = p.running
           /\ q.routes = p.routes
<1>1. <<>> \in Seq(SUBSET Fields) /\ FALSE \in BOOLEAN
  OBVIOUS
<1>2. QED
  BY <1>1, CutOff, Zenon

\* What is asked for in a sequence of requests is asked for in the first or in a
\* later one.
LEMMA HeadOrTail ==
  ASSUME NEW S, NEW s \in Seq(S), s # <<>>, NEW x
  PROVE  /\ Head(s) \in S /\ Tail(s) \in Seq(S) /\ s[1] = Head(s) /\ 1 \in DOMAIN s
         /\ \A i \in DOMAIN Tail(s) : i + 1 \in DOMAIN s /\ Tail(s)[i] = s[i + 1] /\ i >= 1
         /\ \A i \in DOMAIN s : i # 1 => i - 1 \in DOMAIN Tail(s) /\ Tail(s)[i - 1] = s[i]
OBVIOUS

\* What happens on the proxy keeps the counts, and the rest leaves them alone.
LEMMA FleetStep ==
  ASSUME FleetOK, [Next]_vars
  PROVE  FleetOK'
<1>0. \A v \in Services : fleet[v] \in Counts
  BY DEF FleetOK
<1>1. ASSUME NEW v \in Services, NEW n \in Sizes, NEW st \in {"up"} \cup (Statuses \cap {"unknown"}),
             Deploy(v, n, st)
      PROVE  FleetOK'
  <2>1. n \in Nat /\ st \in AllStatuses
    BY SizesAssumption DEF AllStatuses
  <2>2. [fleet[v] EXCEPT ![st] = n] \in Counts
    BY <1>0, <2>1 DEF Counts
  <2>3. QED
    BY <1>1, <2>2 DEF FleetOK, Deploy
<1>2. ASSUME NEW v \in Services, Retire(v)
      PROVE  FleetOK'
  BY <1>2, NoneType DEF FleetOK, Retire
<1>3. ASSUME NEW v \in Services, NEW from \in {"up", "down"} \cup (Statuses \ {"unknown"}),
             NEW to \in {"up", "down"} \cup (Statuses \ {"unknown"}), NEW n \in Batches,
             Change(v, from, to, n)
      PROVE  FleetOK'
  <2>1. n \in Nat /\ n # 0 /\ from \in AllStatuses /\ to \in AllStatuses
    BY SizesAssumption, StatusAssumption DEF AllStatuses
  <2>2. fleet[v][from] - n \in Nat /\ fleet[v][to] + n \in Nat
    BY <1>0, <1>3, <2>1, TotalType DEF Change
  <2>3. [fleet[v] EXCEPT ![from] = @ - n, ![to] = @ + n] \in Counts
    BY <1>0, <1>3, <2>1, <2>2 DEF Counts, Change
  <2>4. v \in deployed
    BY <1>3, <2>1, NoneType DEF Change, FleetOK
  <2>5. fleet' = [fleet EXCEPT ![v] = [fleet[v] EXCEPT ![from] = @ - n, ![to] = @ + n]]
    BY <1>0, <1>3, <2>1 DEF Change, FleetOK, Counts
  <2>6. QED
    BY <1>3, <2>3, <2>4, <2>5 DEF FleetOK, Change
<1>4. CASE Start
  BY <1>4 DEF FleetOK, Start
<1>5. CASE Pull
  BY <1>5 DEF FleetOK, Pull
<1>6. CASE PullFails
  BY <1>6 DEF FleetOK, PullFails
<1>7. CASE Finish
  BY <1>7 DEF FleetOK, Finish
<1>8. CASE UNCHANGED vars
  BY <1>8 DEF FleetOK, vars
<1>9. QED
  BY <1>1, <1>2, <1>3, <1>4, <1>5, <1>6, <1>7, <1>8 DEF Next

\* A pull starts with all requests, makes them in their order, and ends.
LEMMA PullStep ==
  ASSUME FleetOK, PullOK, [Next]_vars
  PROVE  PullOK'
<1>1. CASE UNCHANGED pull
  BY <1>1 DEF PullOK
<1>2. CASE Start
  <2>1. pull' = [Idle EXCEPT !.running = TRUE, !.todo = Requests]
    BY <1>2 DEF Start
  <2>2. QED
    BY <2>1, IdleOK, RequestsType DEF PullOK, PullType
<1>3. CASE Pull
  <2>1. PICK listing \in Listings :
     pull' = [pull EXCEPT
          !.todo = Tail(@),
          !.routes = IF "routes" \in Head(pull.todo) THEN deployed \cup {Ghost} ELSE @,
          !.names = IF "names" \in Head(pull.todo) THEN listing ELSE @,
          !.total = IF "total" \in Head(pull.todo) THEN [v \in Services |-> Total(fleet[v])] ELSE @,
          !.up = IF "up" \in Head(pull.todo) THEN [v \in Services |-> fleet[v]["up"]] ELSE @]
    BY <1>3 DEF Pull
  <2>2. listing \subseteq Services
    BY DEF Listings, kSubset, FleetOK
  <2>3. [v \in Services |-> Total(fleet[v])] \in [Services -> Nat]
    BY TotalType DEF FleetOK
  <2>4. [v \in Services |-> fleet[v]["up"]] \in [Services -> Nat]
    BY TotalType DEF FleetOK, AllStatuses
  <2>5. pull.todo # <<>> /\ pull.todo \in Seq(SUBSET Fields) /\ pull.running
    BY <1>3 DEF Pull, PullOK, PullType
  <2>6. pull'.todo = Tail(pull.todo) /\ Tail(pull.todo) \in Seq(SUBSET Fields)
    BY <2>1, <2>5, HeadOrTail DEF PullOK, PullType
  <2>7. \A i \in DOMAIN Tail(pull.todo) : "routes" \notin Tail(pull.todo)[i]
    <3> SUFFICES ASSUME NEW i \in DOMAIN Tail(pull.todo), "routes" \in Tail(pull.todo)[i]
                 PROVE  FALSE
      OBVIOUS
    <3>1. i + 1 \in DOMAIN pull.todo /\ Tail(pull.todo)[i] = pull.todo[i + 1] /\ i >= 1 /\ i \in Nat
      BY <2>5, <2>6, HeadOrTail
    <3>2. i + 1 = 1
      BY <3>1 DEF PullOK
    <3>3. QED
      BY <3>1, <3>2
  <2>8. deployed \cup {Ghost} \in SUBSET (Services \cup {Ghost})
    BY DEF FleetOK
  <2>9. pull' \in PullType /\ pull'.running
    BY <2>1, <2>2, <2>3, <2>4, <2>5, <2>6, <2>8 DEF PullOK, PullType
  <2>10. QED
    BY <2>6, <2>7, <2>9 DEF PullOK
<1>4. CASE PullFails
  <2>1. pull' = Idle \/ pull' = [pull EXCEPT !.todo = <<>>, !.listed = FALSE]
    BY <1>4 DEF PullFails
  <2>2. CASE pull' = Idle
    BY <2>2, IdleOK DEF PullOK
  <2>3. CASE pull' = [pull EXCEPT !.todo = <<>>, !.listed = FALSE]
    <3>1. pull' \in PullType /\ pull'.todo = <<>>
      BY <2>3, EarlyEnd, Zenon DEF PullOK
    <3>2. QED
      BY <3>1 DEF PullOK
  <2>4. QED
    BY <2>1, <2>2, <2>3
<1>5. CASE Finish
  BY <1>5, IdleOK DEF Finish, PullOK
<1>6. QED
  BY <1>1, <1>2, <1>3, <1>4, <1>5 DEF Next, vars, Deploy, Retire, Change

\* Nothing is deployed at first, and no pull runs.
LEMMA InitOK == Init => FleetOK /\ PullOK
BY NoneType, IdleOK DEF Init, FleetOK, PullOK

\* The state of the proxy and of the pull is well typed, on every platform: what an
\* answer leaves out never counts below zero, and only a running pull has requests
\* to make (mcp_server/tools/analysis.py:159).
THEOREM HealthTypeCorrect == Spec => []TypeOK
<1>1. FleetOK /\ PullOK /\ [Next]_vars => (FleetOK /\ PullOK)'
  BY FleetStep, PullStep
<1>2. FleetOK /\ PullOK => TypeOK
  BY DEF FleetOK, PullOK, PullType, TypeOK
<1>3. QED
  BY InitOK, <1>1, <1>2, PTL DEF Spec

----------------------------------------------------------------------------
\* Every server has a health check.
EveryServerIsChecked == "unknown" \notin Statuses

\* No server is without a status.
NoUnknown == \A v \in Services : fleet[v]["unknown"] = 0

\* It stays so: servers fail, pass again, and are drained.
LEMMA CheckedStep ==
  ASSUME EveryServerIsChecked, FleetOK, NoUnknown, [Next]_vars
  PROVE  NoUnknown'
<1>1. ASSUME NEW v \in Services, NEW n \in Sizes, NEW st \in {"up"} \cup (Statuses \cap {"unknown"}),
             Deploy(v, n, st)
      PROVE  NoUnknown'
  <2>1. st = "up"
    BY DEF EveryServerIsChecked
  <2>2. fleet[v] \in Counts
    BY DEF FleetOK
  <2>3. QED
    BY <1>1, <2>1, <2>2 DEF NoUnknown, FleetOK, Deploy, Counts, AllStatuses
<1>2. ASSUME NEW v \in Services, Retire(v)
      PROVE  NoUnknown'
  BY <1>2, NoneType DEF FleetOK, Retire, NoUnknown, AllStatuses
<1>3. ASSUME NEW v \in Services, NEW from \in {"up", "down"} \cup (Statuses \ {"unknown"}),
             NEW to \in {"up", "down"} \cup (Statuses \ {"unknown"}), NEW n \in Batches,
             Change(v, from, to, n)
      PROVE  NoUnknown'
  <2>1. from # "unknown" /\ to # "unknown"
    OBVIOUS
  <2>2. fleet[v] \in Counts /\ from \in AllStatuses /\ to \in AllStatuses
    BY StatusAssumption DEF FleetOK, AllStatuses
  <2>3. [fleet[v] EXCEPT ![from] = @ - n, ![to] = @ + n]["unknown"] = fleet[v]["unknown"]
    BY <2>1, <2>2 DEF Counts, AllStatuses
  <2>4. fleet' = [fleet EXCEPT ![v] = [fleet[v] EXCEPT ![from] = @ - n, ![to] = @ + n]]
    BY <1>3, <2>1, <2>2 DEF Change, FleetOK, Counts
  <2>5. QED
    BY <2>3, <2>4 DEF NoUnknown, FleetOK
<1>4. CASE UNCHANGED fleet
  BY <1>4 DEF NoUnknown
<1>5. QED
  BY <1>1, <1>2, <1>3, <1>4 DEF Next, vars, Start, Pull, PullFails, Finish

\* The list of services is not cut.
EveryServiceIsListed == IsFiniteSet(Services) /\ Cardinality(Services) <= MaxRows

\* Then every listing is the whole list.
LEMMA WholeListing ==
  ASSUME EveryServiceIsListed, FleetOK, NEW listing \in Listings
  PROVE  listing = deployed
<1>1. IsFiniteSet(deployed) /\ Cardinality(deployed) \in Nat /\ Cardinality(deployed) <= MaxRows
  <2>1. deployed \in SUBSET Services
    BY DEF FleetOK
  <2>2. QED
    BY <2>1, FS_Subset, FS_CardinalityType, SizesAssumption DEF EveryServiceIsListed
<1>2. Min({MaxRows, Cardinality(deployed)}) = Cardinality(deployed)
  BY <1>1, SizesAssumption DEF Min
<1>3. listing \in SUBSET deployed /\ Cardinality(listing) = Cardinality(deployed)
  BY <1>2 DEF Listings, kSubset
<1>4. QED
  BY <1>1, <1>3, FS_Subset

\* A field is pending until it has been asked for.
Pending(x) == \E i \in DOMAIN pull.todo : x \in pull.todo[i]

\* What the pull holds of the services, once it has asked.
RoutesAgree ==
  /\ Ghost \in pull.routes
  /\ pull.routes \subseteq deployed \cup retired \cup {Ghost}
  /\ deployed \ touched \subseteq pull.routes
NamesAgree ==
  /\ pull.routes \subseteq pull.names \cup retired \cup {Ghost}
  /\ deployed \ touched \subseteq pull.names
TotalAgrees == \A v \in Services \ touched : pull.total[v] = Total(fleet[v])
UpAgrees == \A v \in Services \ touched : pull.up[v] = fleet[v]["up"]

\* What a running pull holds agrees with the proxy, but for what happened since:
\* each field from when it has been asked for.
Agrees ==
  pull.running =>
    /\ Pending("routes") => Pending("names")
    /\ ~Pending("routes") => RoutesAgree
    /\ pull.listed =>
         /\ ~Pending("names") => NamesAgree
         /\ ~Pending("total") => TotalAgrees
         /\ ~Pending("up") => UpAgrees

\* What happens on the proxy touches the services it happens to.
LEMMA WorldKeepsAgreement ==
  ASSUME FleetOK, Agrees, UNCHANGED pull, NEW v \in Services,
         touched' = touched \cup {v}, \A w \in Services \ {v} : fleet'[w] = fleet[w],
         \/ UNCHANGED <<deployed, retired>>
         \/ deployed' = deployed \cup {v} /\ UNCHANGED retired
         \/ deployed' = deployed \ {v} /\ retired' = retired \cup {v}
  PROVE  Agrees'
<1>1. \A x : Pending(x)' <=> Pending(x)
  BY DEF Pending
<1>2. RoutesAgree => RoutesAgree'
  BY DEF RoutesAgree
<1>3. NamesAgree => NamesAgree'
  BY DEF NamesAgree
<1>4. TotalAgrees => TotalAgrees'
  BY DEF TotalAgrees, Total
<1>5. UpAgrees => UpAgrees'
  BY DEF UpAgrees
<1>6. QED
  BY <1>1, <1>2, <1>3, <1>4, <1>5 DEF Agrees

\* The requests of a platform ask for every field.
LEMMA EverythingIsAsked ==
  \A x \in Fields : \E i \in DOMAIN Requests : x \in Requests[i]
<1>1. CASE Platform = "traefik"
  <2>1. Requests = <<{"routes"}, {"names", "total", "up"}>>
    BY <1>1 DEF Requests
  <2>2. 1 \in DOMAIN Requests /\ 2 \in DOMAIN Requests
    BY <2>1
  <2>3. QED
    BY <2>1, <2>2 DEF Fields
<1>2. CASE Platform = "haproxy"
  <2>1. Requests = <<{"routes"}, {"names"}, {"total", "up"}>>
    BY <1>2 DEF Requests
  <2>2. 1 \in DOMAIN Requests /\ 2 \in DOMAIN Requests /\ 3 \in DOMAIN Requests
    BY <2>1
  <2>3. QED
    BY <2>1, <2>2 DEF Fields
<1>3. CASE Platform = "caddy"
  <2>1. Requests = <<{"routes"}, {"up"}, {"names", "total"}>>
    BY <1>3 DEF Requests
  <2>2. 1 \in DOMAIN Requests /\ 2 \in DOMAIN Requests /\ 3 \in DOMAIN Requests
    BY <2>1
  <2>3. QED
    BY <2>1, <2>2 DEF Fields
<1>4. QED
  BY <1>1, <1>2, <1>3, PlatformAssumption

\* The agreement is inductive: an answer makes a field agree, and what happens
\* afterwards is remembered as touched or retired.
LEMMA AgreementStep ==
  ASSUME EveryServiceIsListed, FleetOK, PullOK, Agrees, [Next]_vars
  PROVE  Agrees'
<1>1. ASSUME NEW v \in Services, NEW n \in Sizes, NEW st \in {"up"} \cup (Statuses \cap {"unknown"}),
             Deploy(v, n, st)
      PROVE  Agrees'
  <2>1. \A w \in Services \ {v} : fleet'[w] = fleet[w]
    BY <1>1 DEF Deploy, FleetOK
  <2>2. QED
    BY <1>1, <2>1, WorldKeepsAgreement DEF Deploy
<1>2. ASSUME NEW v \in Services, Retire(v)
      PROVE  Agrees'
  <2>1. \A w \in Services \ {v} : fleet'[w] = fleet[w]
    BY <1>2 DEF Retire, FleetOK
  <2>2. QED
    BY <1>2, <2>1, WorldKeepsAgreement DEF Retire
<1>3. ASSUME NEW v \in Services, NEW from \in {"up", "down"} \cup (Statuses \ {"unknown"}),
             NEW to \in {"up", "down"} \cup (Statuses \ {"unknown"}), NEW n \in Batches,
             Change(v, from, to, n)
      PROVE  Agrees'
  <2>1. \A w \in Services \ {v} : fleet'[w] = fleet[w]
    BY <1>3 DEF Change, FleetOK
  <2>2. QED
    BY <1>3, <2>1, WorldKeepsAgreement DEF Change
<1>4. CASE Start
  <2>1. pull'.todo = Requests
    BY <1>4, IdleOK DEF Start, PullType
  <2>2. \A x \in Fields : Pending(x)'
    BY <2>1, EverythingIsAsked DEF Pending
  <2>3. QED
    BY <2>2 DEF Agrees, Fields
<1>5. CASE Pull
  <2> DEFINE Asked(x) == x \in Head(pull.todo)
  <2>1. PICK listing \in Listings :
     pull' = [pull EXCEPT
          !.todo = Tail(@),
          !.routes = IF Asked("routes") THEN deployed \cup {Ghost} ELSE @,
          !.names = IF Asked("names") THEN listing ELSE @,
          !.total = IF Asked("total") THEN [v \in Services |-> Total(fleet[v])] ELSE @,
          !.up = IF Asked("up") THEN [v \in Services |-> fleet[v]["up"]] ELSE @]
    BY <1>5 DEF Pull
  <2>2. listing = deployed
    BY <2>1, WholeListing
  <2>3. pull.todo # <<>> /\ pull.todo \in Seq(SUBSET Fields) /\ pull.running
    BY <1>5 DEF Pull, PullOK, PullType
  <2>4. /\ pull'.todo = Tail(pull.todo) /\ pull'.running = pull.running
        /\ pull'.listed = pull.listed
        /\ pull'.routes = IF Asked("routes") THEN deployed \cup {Ghost} ELSE pull.routes
        /\ pull'.names = IF Asked("names") THEN deployed ELSE pull.names
        /\ pull'.total = IF Asked("total") THEN [v \in Services |-> Total(fleet[v])] ELSE pull.total
        /\ pull'.up = IF Asked("up") THEN [v \in Services |-> fleet[v]["up"]] ELSE pull.up
    BY <2>1, <2>2 DEF PullOK, PullType
  <2>5. UNCHANGED <<fleet, deployed, touched, retired>>
    BY <1>5 DEF Pull
  <2> HIDE DEF Asked
  <2>6. ASSUME NEW x
        PROVE  Pending(x) <=> Asked(x) \/ Pending(x)'
    <3>1. Pending(x)' <=> \E i \in DOMAIN Tail(pull.todo) : x \in Tail(pull.todo)[i]
      BY <2>4 DEF Pending
    <3>2. CASE \E i \in DOMAIN Tail(pull.todo) : x \in Tail(pull.todo)[i]
      BY <2>3, <3>1, <3>2, HeadOrTail DEF Pending
    <3>3. CASE \A i \in DOMAIN Tail(pull.todo) : x \notin Tail(pull.todo)[i]
      <4>1. \A i \in DOMAIN pull.todo : i # 1 => x \notin pull.todo[i]
        BY <2>3, <3>3, HeadOrTail
      <4>2. 1 \in DOMAIN pull.todo /\ pull.todo[1] = Head(pull.todo)
        BY <2>3, HeadOrTail
      <4>3. QED
        BY <3>1, <3>3, <4>1, <4>2 DEF Pending, Asked
    <3>4. QED
      BY <3>2, <3>3
  <2>7. Pending("routes") => Asked("routes") /\ ~Asked("names") /\ ~Pending("routes")'
    <3>1. ASSUME Pending("routes")
          PROVE  Head(pull.todo) = {"routes"}
      BY <2>3, <3>1, HeadOrTail DEF Pending, PullOK
    <3>2. ASSUME Pending("routes")'
          PROVE  FALSE
      <4>1. PICK i \in DOMAIN Tail(pull.todo) : "routes" \in Tail(pull.todo)[i]
        BY <2>4, <3>2 DEF Pending
      <4>2. i + 1 \in DOMAIN pull.todo /\ Tail(pull.todo)[i] = pull.todo[i + 1] /\ i >= 1 /\ i \in Nat
        BY <2>3, <4>1, HeadOrTail
      <4>3. i + 1 = 1
        BY <4>1, <4>2 DEF PullOK
      <4>4. QED
        BY <4>2, <4>3
    <3>3. QED
      BY <3>1, <3>2 DEF Asked
  <2>8. RoutesAgree'
    <3>1. CASE Asked("routes")
      BY <2>4, <2>5, <3>1 DEF RoutesAgree
    <3>2. CASE ~Asked("routes")
      <4>1. RoutesAgree
        BY <2>3, <2>7, <3>2 DEF Agrees
      <4>2. QED
        BY <2>4, <2>5, <3>2, <4>1 DEF RoutesAgree
    <3>3. QED
      BY <3>1, <3>2
  <2>9. ASSUME pull.listed, ~Pending("names")'
        PROVE  NamesAgree'
    <3>1. CASE Asked("names")
      <4>1. ~Pending("routes") /\ ~Asked("routes") /\ RoutesAgree
        BY <2>3, <2>6, <2>7, <3>1 DEF Agrees
      <4>2. QED
        BY <2>4, <2>5, <3>1, <4>1 DEF RoutesAgree, NamesAgree
    <3>2. CASE ~Asked("names")
      <4>1. NamesAgree /\ ~Asked("routes")
        BY <2>3, <2>6, <2>9, <3>2 DEF Agrees
      <4>2. QED
        BY <2>4, <2>5, <3>2, <4>1 DEF NamesAgree
    <3>3. QED
      BY <3>1, <3>2
  <2>10. ASSUME pull.listed, ~Pending("total")'
         PROVE  TotalAgrees'
    <3>1. CASE Asked("total")
      BY <2>4, <2>5, <3>1 DEF TotalAgrees, Total
    <3>2. CASE ~Asked("total")
      <4>1. TotalAgrees
        BY <2>3, <2>6, <2>10, <3>2 DEF Agrees
      <4>2. QED
        BY <2>4, <2>5, <3>2, <4>1 DEF TotalAgrees, Total
    <3>3. QED
      BY <3>1, <3>2
  <2>11. ASSUME pull.listed, ~Pending("up")'
         PROVE  UpAgrees'
    <3>1. CASE Asked("up")
      BY <2>4, <2>5, <3>1 DEF UpAgrees
    <3>2. CASE ~Asked("up")
      <4>1. UpAgrees
        BY <2>3, <2>6, <2>11, <3>2 DEF Agrees
      <4>2. QED
        BY <2>4, <2>5, <3>2, <4>1 DEF UpAgrees
    <3>3. QED
      BY <3>1, <3>2
  <2>12. ~Pending("routes")'
    BY <2>6, <2>7
  <2>13. QED
    BY <2>4, <2>8, <2>9, <2>10, <2>11, <2>12 DEF Agrees
<1>6. CASE PullFails
  <2>1. pull.running /\ pull.todo # <<>> /\ pull.todo \in Seq(SUBSET Fields)
    BY <1>6 DEF PullFails, PullOK, PullType
  <2>2. CASE Head(pull.todo) = {"routes"}
    BY <1>6, <2>2, IdleOK DEF PullFails, Agrees
  <2>3. CASE Head(pull.todo) # {"routes"}
    <3>1. /\ pull'.todo = <<>> /\ pull'.listed = FALSE /\ pull'.running = pull.running
          /\ pull'.routes = pull.routes
      <4>1. pull' = [pull EXCEPT !.todo = <<>>, !.listed = FALSE] /\ pull \in PullType
        BY <1>6, <2>3, Zenon DEF PullFails, PullOK
      <4>2. QED
        BY <4>1, EarlyEnd, Zenon
    <3>2. ~Pending("routes")
      BY <2>1, <2>3, HeadOrTail DEF Pending, PullOK
    <3>3. \A x : ~Pending(x)'
      BY <3>1 DEF Pending
    <3>4. RoutesAgree'
      BY <1>6, <2>1, <3>1, <3>2 DEF PullFails, Agrees, RoutesAgree
    <3>5. QED
      BY <3>1, <3>3, <3>4 DEF Agrees
  <2>4. QED
    BY <2>2, <2>3
<1>7. CASE Finish
  BY <1>7, IdleOK DEF Finish, Agrees
<1>8. CASE UNCHANGED vars
  <2>1. \A x : Pending(x)' <=> Pending(x)
    BY <1>8 DEF Pending, vars
  <2>2. QED
    BY <1>8, <2>1 DEF vars, Agrees, RoutesAgree, NamesAgree, TotalAgrees, UpAgrees, Total
<1>9. QED
  BY <1>1, <1>2, <1>3, <1>4, <1>5, <1>6, <1>7, <1>8 DEF Next

\* A pull that agrees with the proxy reports the dead routes.
LEMMA DeadFollows ==
  ASSUME Platform # "caddy", FleetOK, PullOK, NoUnknown, Agrees
  PROVE  DeadIsExact
<1> SUFFICES ASSUME Reported
             PROVE  /\ Missing \subseteq {Ghost} \cup retired
                    /\ pull.listed =>
                         /\ Ghost \in Dead
                         /\ \A v \in deployed \ touched : v \in Dead <=> HasNoServer(fleet[v])
  BY DEF DeadIsExact
<1>1. pull.running /\ \A x : ~Pending(x)
  BY DEF Reported, Pending
<1>2. \A r : ServiceOf(r) = r
  BY DEF ServiceOf
<1>3. RoutesAgree
  BY <1>1 DEF Agrees
<1>4. CASE pull.listed
  <2>1. NamesAgree /\ TotalAgrees /\ UpAgrees
    BY <1>1, <1>4 DEF Agrees
  <2>2. Missing = {r \in pull.routes : r \notin pull.names}
    BY <1>2, <1>4 DEF Missing
  <2>3. Missing \subseteq {Ghost} \cup retired
    BY <2>1, <2>2 DEF NamesAgree
  <2>4. Ghost \in Missing
    BY <1>3, <2>2, ServicesAssumption DEF RoutesAgree, PullOK, PullType
  <2>5. ASSUME NEW v \in deployed \ touched
        PROVE  v \in Dead <=> HasNoServer(fleet[v])
    <3>1. v \in Services /\ v \in pull.routes /\ v \notin Missing
      BY <1>3, <2>1, <2>2 DEF RoutesAgree, NamesAgree, FleetOK
    <3>2. pull.total[v] = Total(fleet[v]) /\ pull.up[v] = fleet[v]["up"]
      BY <2>1, <3>1 DEF TotalAgrees, UpAgrees
    <3>3. v \in Dead <=> ZeroUp(v)
      BY <1>2, <1>4, <3>1 DEF Dead
    <3>4. fleet[v] \in Counts /\ Total(fleet[v]) \in Nat /\ fleet[v]["unknown"] = 0
      BY <3>1, TotalType DEF FleetOK, NoUnknown
    <3>5. QED
      BY <3>2, <3>3, <3>4 DEF ZeroUp, HasNoServer
  <2>6. QED
    BY <2>3, <2>4, <2>5 DEF Dead
<1>5. CASE ~pull.listed
  BY <1>5 DEF Missing
<1>6. QED
  BY <1>4, <1>5

\* Whatever the services, and whatever happens between the requests of the pull: a
\* route is said to point at no service only if it never had one or lost it
\* meanwhile, and of the services that stayed as they are the dead ones are those
\* without a server (dead routes, analysis.py:388), where rows name their services,
\* all are listed and all servers are checked.
THEOREM DeadIsExactHolds ==
  ASSUME Platform # "caddy", EveryServerIsChecked, EveryServiceIsListed
  PROVE  Spec => []DeadIsExact
<1>1. Init => FleetOK /\ PullOK /\ NoUnknown /\ Agrees
  <2> SUFFICES ASSUME Init PROVE NoUnknown /\ Agrees
    BY InitOK
  <2>1. QED
    BY NoneType, IdleOK DEF Init, NoUnknown, Agrees, AllStatuses
<1>2. FleetOK /\ PullOK /\ NoUnknown /\ Agrees /\ [Next]_vars
        => (FleetOK /\ PullOK /\ NoUnknown /\ Agrees)'
  BY FleetStep, PullStep, CheckedStep, AgreementStep
<1>3. FleetOK /\ PullOK /\ NoUnknown /\ Agrees => DeadIsExact
  BY DeadFollows
<1>4. QED
  BY <1>1, <1>2, <1>3, PTL DEF Spec
----------------------------------------------------------------------------
\* The sum over one element.
LEMMA SumOfOne ==
  ASSUME NEW f, NEW st, NEW v, f[v][st] \in Nat
  PROVE  MapThenSumSet(LAMBDA w : f[w][st], {v}) = f[v][st]
<1> DEFINE iter[s \in SUBSET {v}] ==
             IF s = {} THEN 0
             ELSE LET x == CHOOSE x \in s : TRUE IN f[x][st] + iter[s \ {x}]
           one == [s \in SUBSET {v} |-> IF s = {} THEN 0 ELSE f[v][st]]
<1>1. one = [s \in SUBSET {v} |->
               IF s = {} THEN 0
               ELSE LET x == CHOOSE x \in s : TRUE IN f[x][st] + one[s \ {x}]]
  <2>1. ASSUME NEW s \in SUBSET {v}, s # {}
        PROVE  one[s] = LET x == CHOOSE x \in s : TRUE IN f[x][st] + one[s \ {x}]
    <3>1. s = {v} /\ (CHOOSE x \in s : TRUE) = v /\ s \ {v} = {}
      BY <2>1
    <3>2. one[{}] = 0 /\ one[s] = f[v][st]
      BY <2>1
    <3>3. QED
      BY <3>1, <3>2
  <2>2. QED
    BY <2>1
<1>2. iter = [s \in SUBSET {v} |->
               IF s = {} THEN 0
               ELSE LET x == CHOOSE x \in s : TRUE IN f[x][st] + iter[s \ {x}]]
  <2> HIDE DEF one
  <2>1. \E i : i = [s \in SUBSET {v} |->
               IF s = {} THEN 0
               ELSE LET x == CHOOSE x \in s : TRUE IN f[x][st] + i[s \ {x}]]
    BY <1>1
  <2>2. QED
    BY <2>1, Zenon DEF iter
<1>3. MapThenSumSet(LAMBDA w : f[w][st], {v}) = iter[{v}]
  BY DEF MapThenSumSet, MapThenFoldSet
<1> HIDE DEF iter
<1>4. iter[{}] = 0
  BY <1>2
<1>5. (CHOOSE x \in {v} : TRUE) = v /\ {v} \ {v} = {}
  OBVIOUS
<1>6. iter[{v}] = f[v][st] + iter[{}]
  BY <1>2, <1>5
<1>7. QED
  BY <1>3, <1>4, <1>6

\* What list_upstreams shows of a service are servers of that service, cut or not.
LEMMA ViewType ==
  ASSUME FleetOK, NEW view \in Views
  PROVE  /\ view \in [Services -> Counts]
         /\ \A v \in Services : \A st \in AllStatuses : view[v][st] <= fleet[v][st]
<1>1. fleet \in [Services -> Counts] /\ deployed \subseteq Services
  BY DEF FleetOK
<1>2. \A v \in Services : fleet[v] \in Counts /\ \A st \in AllStatuses : fleet[v][st] \in Nat
  BY <1>1 DEF Counts
<1>3. CASE view = fleet
  BY <1>1, <1>2, <1>3
<1>4. CASE view \in CutViews
  <2>1. PICK whole \in SUBSET deployed, v \in deployed :
          \E c \in Some(v, MaxRows - Servers(whole)) : view =
            [w \in Services |-> IF w \in whole THEN fleet[w] ELSE IF w = v THEN c ELSE None]
    BY <1>4 DEF CutViews
  <2>2. PICK c \in Some(v, MaxRows - Servers(whole)) : view =
          [w \in Services |-> IF w \in whole THEN fleet[w] ELSE IF w = v THEN c ELSE None]
    BY <2>1
  <2>3. v \in Services /\ Total(fleet[v]) \in Nat
    BY <1>1, <1>2, TotalType
  <2>4. c \in Counts /\ \A st \in AllStatuses : c[st] <= fleet[v][st]
    BY <2>3 DEF Some, Counts
  <2>5. \A w \in Services : view[w] \in Counts /\ \A st \in AllStatuses : view[w][st] <= fleet[w][st]
    BY <1>2, <2>2, <2>4, NoneType
  <2>6. QED
    BY <2>2, <2>5
<1>5. QED
  BY <1>3, <1>4 DEF Views

\* A service that has a name of its own is counted on its own.
LEMMA OwnBucket ==
  ASSUME Platform # "caddy", FleetOK, NEW view \in [Services -> Counts], NEW v \in deployed
  PROVE  GroupOf(v) = v /\ BucketOf(view, v) = view[v]
<1>1. \A w : GroupOf(w) = w
  BY DEF GroupOf
<1>2. {w \in deployed : GroupOf(w) = v} = {v}
  BY <1>1
<1>3. view[v] \in Counts
  BY DEF FleetOK
<1>4. ASSUME NEW st \in AllStatuses
      PROVE  MapThenSumSet(LAMBDA w : view[w][st], {w \in deployed : GroupOf(w) = v}) = view[v][st]
  <2>1. view[v][st] \in Nat
    BY <1>3, TotalType
  <2>2. MapThenSumSet(LAMBDA w : view[w][st], {v}) = view[v][st]
    BY <2>1, SumOfOne
  <2>3. QED
    BY <1>2, <2>2
<1>5. BucketOf(view, v) = [st \in AllStatuses |-> view[v][st]]
  BY <1>4 DEF BucketOf
<1>6. QED
  BY <1>1, <1>3, <1>5 DEF Counts

\* The verdict and the summary count the same.
LEMMA VerdictOfCounts ==
  ASSUME NEW c \in Counts, Total(c) > 0, c["unknown"] = 0
  PROVE  (HasNoServer(c) <=> Gone(c)) /\ (IsOutage(c) <=> Gone(c))
<1>1. /\ c["up"] \in Nat /\ c["down"] \in Nat /\ c["maint"] \in Nat /\ c["unknown"] \in Nat
  BY TotalType DEF AllStatuses
<1>2. Gone(c) <=> AllDown(c)
  BY DEF Classify, Gone
<1>3. QED
  BY <1>1, <1>2 DEF HasNoServer, IsOutage, AllDown, Total

\* Services of no more than a hundred servers are ranked by verdict first: the score of
\* an outage begins at 1000, and a server that is down adds 10 (analysis.py:127).
ServicesAreSmall == \A v \in Services : Total(fleet[v]) <= 100

LEMMA ScoreOfCounts ==
  ASSUME NEW c \in Counts, Total(c) > 0, Total(c) <= 100
  PROVE  /\ Score(c) \in Nat
         /\ Gone(c) => Score(c) > 1000
         /\ ~Gone(c) => Score(c) <= 1000
<1>1. /\ c["up"] \in Nat /\ c["down"] \in Nat /\ c["maint"] \in Nat /\ c["unknown"] \in Nat
  BY TotalType DEF AllStatuses
<1>2. Gone(c) <=> AllDown(c)
  BY DEF Classify, Gone
<1>3. QED
  BY <1>1, <1>2 DEF Score, AllDown, Total

\* The groups of a view: services, of which some servers are shown.
LEMMA GroupType ==
  ASSUME Platform # "caddy", FleetOK, NoUnknown, ServicesAreSmall, NEW view \in Views,
         NEW g \in Groups(view)
  PROVE  /\ g \in deployed /\ BucketOf(view, g) = view[g] /\ view[g] \in Counts
         /\ Total(view[g]) > 0 /\ Total(view[g]) <= 100 /\ view[g]["unknown"] = 0
<1>1. PICK v \in deployed : g = GroupOf(v) /\ Total(BucketOf(view, g)) > 0
  BY DEF Groups
<1>2. view \in [Services -> Counts] /\ v \in Services
  BY ViewType DEF FleetOK
<1>3. g = v /\ BucketOf(view, g) = view[g]
  BY <1>1, <1>2, OwnBucket
<1>4. /\ view[g] \in Counts /\ fleet[g] \in Counts
      /\ \A st \in AllStatuses : view[g][st] <= fleet[g][st] /\ view[g][st] \in Nat /\ fleet[g][st] \in Nat
  BY <1>2, <1>3, ViewType, TotalType DEF FleetOK
<1>5. Total(fleet[g]) <= 100 /\ fleet[g]["unknown"] = 0
  BY <1>2, <1>3 DEF ServicesAreSmall, NoUnknown
<1>6. Total(view[g]) <= 100 /\ view[g]["unknown"] = 0
  BY <1>4, <1>5 DEF Total, AllStatuses
<1>7. QED
  BY <1>1, <1>3, <1>4, <1>6

\* A page that leaves out a group is full.
LEMMA PageIsFull ==
  ASSUME IsFiniteSet(Services), FleetOK, NEW view \in Views, NEW page \in Pages(view),
         NEW g \in Groups(view), g \notin page
  PROVE  Cardinality(page) = MaxFindings
<1> DEFINE G == Groups(view)
           k == Min({MaxFindings, Cardinality(G)})
<1>1. IsFiniteSet(G) /\ Cardinality(G) \in Nat
  <2>1. IsFiniteSet(deployed)
    BY FS_Subset DEF FleetOK
  <2>2. IsFiniteSet(deployed \cup {Unnamed})
    BY <2>1, FS_AddElement
  <2>3. G \subseteq deployed \cup {Unnamed}
    BY DEF Groups, GroupOf
  <2> HIDE DEF G
  <2>4. IsFiniteSet(G)
    BY <2>2, <2>3, FS_Subset
  <2>5. QED
    BY <2>4, FS_CardinalityType
<1>2. page \in SUBSET G /\ Cardinality(page) = k
  BY DEF Pages, kSubset
<1> HIDE DEF G
<1>3. k = MaxFindings \/ k = Cardinality(G)
  <2>1. ASSUME NEW a \in Nat, NEW b \in Nat
        PROVE  Min({a, b}) \in {a, b}
    <3>1. \E x \in {a, b} : \A y \in {a, b} : x <= y
      <4>1. a <= b \/ b <= a
        OBVIOUS
      <4>2. QED
        BY <4>1
    <3>2. QED
      BY <3>1 DEF Min
  <2>2. QED
    BY <1>1, <2>1, SizesAssumption
<1>4. Cardinality(page) # Cardinality(G)
  BY <1>1, <1>2, FS_Subset DEF G
<1>5. QED
  BY <1>2, <1>3, <1>4

\* However the rows are cut: of the services that are listed whole, those without a
\* server to take requests are found to be so, and no other; each is on the page, unless
\* others like it fill it; and the outages of the summary, counted apart, are these
\* findings (backend_health_rca, analysis.py:57, 127 and 139), where rows name their
\* services, all servers are checked, and no service has more than a hundred.
THEOREM EveryOutageIsReportedHolds ==
  ASSUME Platform # "caddy", EveryServerIsChecked, IsFiniteSet(Services)
  PROVE  Spec => [](ServicesAreSmall => EveryOutageIsReported)
<1>1. Init => FleetOK /\ NoUnknown
  BY InitOK, NoneType DEF Init, NoUnknown, AllStatuses
<1>2. FleetOK /\ NoUnknown /\ [Next]_vars => (FleetOK /\ NoUnknown)'
  BY FleetStep, CheckedStep
<1>3. ASSUME FleetOK, NoUnknown, ServicesAreSmall
      PROVE  EveryOutageIsReported
  <2> SUFFICES ASSUME NEW view \in Views
               PROVE  /\ \A v \in deployed :
                           view[v] = fleet[v] /\ Total(fleet[v]) > 0 =>
                             /\ HasNoServer(fleet[v]) <=> Gone(BucketOf(view, GroupOf(v)))
                             /\ HasNoServer(fleet[v]) =>
                                  \A page \in Pages(view) :
                                    \/ GroupOf(v) \in page
                                    \/ /\ Cardinality(page) = MaxFindings
                                       /\ \A g \in page : Gone(BucketOf(view, g))
                      /\ \A g \in Groups(view) :
                           IsOutage(BucketOf(view, g)) <=> Gone(BucketOf(view, g))
    BY DEF EveryOutageIsReported
  <2>1. view \in [Services -> Counts]
    BY <1>3, ViewType
  <2>2. \A g \in Groups(view) :
          /\ g \in deployed /\ BucketOf(view, g) = view[g] /\ view[g] \in Counts
          /\ Total(view[g]) > 0 /\ Total(view[g]) <= 100 /\ view[g]["unknown"] = 0
    BY <1>3, GroupType
  <2>3. ASSUME NEW v \in deployed, view[v] = fleet[v], Total(fleet[v]) > 0
        PROVE  /\ GroupOf(v) = v /\ v \in Groups(view) /\ BucketOf(view, v) = fleet[v]
               /\ HasNoServer(fleet[v]) <=> Gone(BucketOf(view, v))
    <3>1. GroupOf(v) = v /\ BucketOf(view, v) = view[v]
      BY <1>3, <2>1, OwnBucket
    <3>2. v \in Groups(view)
      BY <2>3, <3>1 DEF Groups
    <3>3. QED
      BY <2>2, <2>3, <3>1, <3>2, VerdictOfCounts
  <2>4. ASSUME NEW v \in deployed, view[v] = fleet[v], Total(fleet[v]) > 0,
               HasNoServer(fleet[v]), NEW page \in Pages(view), v \notin page
        PROVE  Cardinality(page) = MaxFindings /\ \A g \in page : Gone(BucketOf(view, g))
    <3>1. v \in Groups(view) /\ Gone(BucketOf(view, v))
      BY <2>3, <2>4
    <3>2. Cardinality(page) = MaxFindings
      BY <1>3, <2>4, <3>1, PageIsFull
    <3>3. ASSUME NEW g \in page
          PROVE  Gone(BucketOf(view, g))
      <4>1. g \in Groups(view) /\ Score(BucketOf(view, g)) >= Score(BucketOf(view, v))
        BY <2>4, <3>1 DEF Pages, kSubset
      <4>2. /\ Score(BucketOf(view, v)) \in Nat /\ Score(BucketOf(view, v)) > 1000
            /\ Score(BucketOf(view, g)) \in Nat
            /\ ~Gone(BucketOf(view, g)) => Score(BucketOf(view, g)) <= 1000
        BY <2>2, <3>1, <4>1, ScoreOfCounts
      <4>3. QED
        BY <4>1, <4>2
    <3>4. QED
      BY <3>2, <3>3
  <2>5. \A g \in Groups(view) : IsOutage(BucketOf(view, g)) <=> Gone(BucketOf(view, g))
    BY <2>2, VerdictOfCounts
  <2>6. QED
    BY <2>3, <2>4, <2>5
<1>4. FleetOK /\ NoUnknown => (ServicesAreSmall => EveryOutageIsReported)
  BY <1>3
<1>5. QED
  BY <1>1, <1>2, <1>4, PTL DEF Spec

----------------------------------------------------------------------------
(* Finite sets can be sorted, and have sums.                               *)

\* A strict total order R on S.
Orders(R, S) ==
  /\ \A i, j \in S : i = j \/ <<i, j>> \in R \/ <<j, i>> \in R
  /\ \A i \in S : <<i, i>> \notin R
  /\ \A i, j, k \in S : <<i, j>> \in R /\ <<j, k>> \in R => <<i, k>> \in R

\* p lists Q in the order R.
Sorts(p, Q, R) ==
  /\ p \in [1..Cardinality(Q) -> Q]
  /\ \A k, m \in 1..Cardinality(Q) : k < m => <<p[k], p[m]>> \in R

\* Taking an element away.
LEMMA OneLess ==
  ASSUME NEW S, IsFiniteSet(S), NEW Q, Q \subseteq S, NEW x \in Q
  PROVE  /\ Cardinality(Q) \in Nat /\ Cardinality(Q \ {x}) = Cardinality(Q) - 1
         /\ Cardinality(Q \ {x}) \in Nat /\ Q \ {x} \subseteq S
BY FS_Subset, FS_CardinalityType, FS_RemoveElement

IsLast(z, Q, R) == z \in Q /\ \A y \in Q \ {z} : <<y, z>> \in R

\* A finite set has a last element.
LEMMA LastExists ==
  ASSUME NEW S, IsFiniteSet(S), NEW R, Orders(R, S), NEW Q, Q \subseteq S, Q # {}
  PROVE  \E z : IsLast(z, Q, R)
<1> DEFINE Done(n) == \A P \in SUBSET S : Cardinality(P) = n /\ P # {} => \E z : IsLast(z, P, R)
           T == {n \in Nat : Done(n)}
<1>1. 0 \in T
  <2>1. ASSUME NEW P \in SUBSET S, Cardinality(P) = 0
        PROVE  P = {}
    BY <2>1, FS_Subset, FS_EmptySet
  <2>2. QED
    BY <2>1
<1>2. ASSUME NEW n \in 0..(Cardinality(S) - 1), n \in T
      PROVE  n + 1 \in T
  <2>1. n \in Nat /\ n + 1 \in Nat /\ Done(n)
    BY <1>2
  <2>2. ASSUME NEW P \in SUBSET S, Cardinality(P) = n + 1, P # {}
        PROVE  \E z : IsLast(z, P, R)
    <3>1. PICK x \in P : TRUE
      BY <2>2
    <3> DEFINE Rest == P \ {x}
    <3>2. Rest \in SUBSET S /\ Cardinality(Rest) = n
      BY <2>1, <2>2, OneLess
    <3>3. CASE Rest = {}
      BY <3>3 DEF IsLast
    <3>4. CASE Rest # {}
      <4>1. PICK z : IsLast(z, Rest, R)
        BY <2>1, <3>2, <3>4
      <4>2. x \in S /\ z \in S /\ x # z /\ z \in P
        BY <2>2, <4>1 DEF IsLast
      <4>3. CASE <<x, z>> \in R
        <5>1. \A y \in P \ {z} : <<y, z>> \in R
          BY <4>1, <4>3 DEF IsLast
        <5>2. QED
          BY <4>2, <5>1 DEF IsLast
      <4>4. CASE <<z, x>> \in R
        <5>1. \A y \in P \ {x} : <<y, x>> \in R
          BY <4>1, <4>2, <4>4 DEF IsLast, Orders
        <5>2. QED
          BY <5>1 DEF IsLast
      <4>5. QED
        BY <4>2, <4>3, <4>4 DEF Orders
    <3>5. QED
      BY <3>3, <3>4
  <2>3. QED
    BY <2>1, <2>2
<1>3. Cardinality(S) \in Nat /\ Cardinality(Q) \in 0..Cardinality(S)
  BY FS_Subset, FS_CardinalityType
<1> HIDE DEF T
<1>4. \A n \in 0..Cardinality(S) : n \in T
  BY <1>1, <1>2, <1>3, Upto
<1>5. Cardinality(Q) \in T
  BY <1>3, <1>4
<1>6. QED
  BY <1>5 DEF T

\* A finite set can be sorted.
LEMMA SortExists ==
  ASSUME NEW S, IsFiniteSet(S), NEW R, Orders(R, S)
  PROVE  \E p : Sorts(p, S, R)
<1> DEFINE Done(n) == \A P \in SUBSET S : Cardinality(P) = n => \E p : Sorts(p, P, R)
           T == {n \in Nat : Done(n)}
<1>1. 0 \in T
  <2>1. ASSUME NEW P \in SUBSET S, Cardinality(P) = 0
        PROVE  \E p : Sorts(p, P, R)
    <3>1. P = {} /\ 1..Cardinality(P) = {}
      BY <2>1, FS_Subset, FS_EmptySet
    <3>2. [k \in {} |-> k] \in [{} -> P]
      OBVIOUS
    <3>3. QED
      BY <3>1, <3>2 DEF Sorts
  <2>2. QED
    BY <2>1
<1>2. ASSUME NEW n \in 0..(Cardinality(S) - 1), n \in T
      PROVE  n + 1 \in T
  <2>1. n \in Nat /\ n + 1 \in Nat /\ Done(n)
    BY <1>2
  <2>2. ASSUME NEW P \in SUBSET S, Cardinality(P) = n + 1
        PROVE  \E p : Sorts(p, P, R)
    <3>1. P # {}
      BY <2>1, <2>2, FS_EmptySet
    <3>2. PICK z : IsLast(z, P, R)
      BY <2>2, <3>1, LastExists
    <3> DEFINE Rest == P \ {z}
    <3>3. z \in P /\ Rest \in SUBSET S /\ Cardinality(Rest) = n /\ Rest \subseteq P
      BY <2>1, <2>2, <3>2, OneLess DEF IsLast
    <3>4. PICK p : Sorts(p, Rest, R)
      BY <2>1, <3>3
    <3> DEFINE q == [k \in 1..(n + 1) |-> IF k = n + 1 THEN z ELSE p[k]]
    <3>5. p \in [1..n -> Rest] /\ \A k, m \in 1..n : k < m => <<p[k], p[m]>> \in R
      BY <3>3, <3>4 DEF Sorts
    <3>6. q \in [1..(n + 1) -> P]
      BY <2>1, <3>3, <3>5
    <3>7. ASSUME NEW k \in 1..(n + 1), NEW m \in 1..(n + 1), k < m
          PROVE  <<q[k], q[m]>> \in R
      <4>1. k \in 1..n /\ q[k] = p[k] /\ p[k] \in Rest
        BY <2>1, <3>5, <3>7
      <4>2. CASE m = n + 1
        BY <3>2, <4>1, <4>2 DEF IsLast
      <4>3. CASE m # n + 1
        <5>1. m \in 1..n /\ q[m] = p[m]
          BY <2>1, <4>3
        <5>2. QED
          BY <3>5, <3>7, <4>1, <5>1
      <4>4. QED
        BY <4>2, <4>3
    <3> HIDE DEF q
    <3>8. Sorts(q, P, R)
      BY <2>2, <3>6, <3>7 DEF Sorts
    <3>9. QED
      BY <3>8
  <2>3. QED
    BY <2>1, <2>2
<1>3. Cardinality(S) \in Nat
  BY FS_CardinalityType
<1>4. Cardinality(S) \in 0..Cardinality(S)
  BY <1>3
<1> HIDE DEF T
<1>5. \A n \in 0..Cardinality(S) : n \in T
  BY <1>1, <1>2, <1>3, Upto
<1>6. Cardinality(S) \in T
  BY <1>4, <1>5
<1>7. QED
  BY <1>6 DEF T

\* Which lists every element.
LEMMA SortsAll ==
  ASSUME NEW S, IsFiniteSet(S), NEW R, Orders(R, S), NEW p, Sorts(p, S, R), NEW x \in S
  PROVE  \E k \in 1..Cardinality(S) : p[k] = x
<1> DEFINE n == Cardinality(S)
<1>1. n \in Nat /\ IsFiniteSet(1..n) /\ Cardinality(1..n) = n
  <2>1. n \in Nat /\ 1 \in Int /\ n \in Int
    BY FS_CardinalityType
  <2>2. IsFiniteSet(1..n) /\ Cardinality(1..n) = IF 1 > n THEN 0 ELSE n - 1 + 1
    BY <2>1, FS_Interval
  <2>3. QED
    BY <2>1, <2>2
<1>2. ASSUME NEW k \in 1..n, NEW m \in 1..n, p[k] = p[m]
      PROVE  k = m
  <2>1. ~ (k < m) /\ ~ (m < k)
    BY <1>2 DEF Sorts, Orders
  <2>2. QED
    BY <1>1, <2>1
<1>3. p \in [1..n -> S]
  BY DEF Sorts
<1>4. p \in Injection(1..n, S)
  BY <1>2, <1>3, Zenon DEF Injection, IsInjective
<1>5. p \in Surjection(1..n, S)
  BY <1>1, <1>4, FS_Injection
<1>6. QED
  BY <1>5, Zenon DEF Surjection

\* Induction over the subsets of a finite set.
LEMMA OnSubsets ==
  ASSUME NEW S, IsFiniteSet(S), NEW G,
         \A s \in SUBSET S : (\A x \in s : s \ {x} \in G) => s \in G
  PROVE  \A s \in SUBSET S : s \in G
<1> DEFINE T == {n \in Nat : \A s \in SUBSET S : Cardinality(s) = n => s \in G}
<1>1. 0 \in T
  <2>1. ASSUME NEW s \in SUBSET S, Cardinality(s) = 0
        PROVE  s \in G
    <3>1. s = {}
      BY <2>1, FS_Subset, FS_EmptySet
    <3>2. QED
      BY <3>1
  <2>2. QED
    BY <2>1
<1>2. ASSUME NEW n \in 0..(Cardinality(S) - 1), n \in T
      PROVE  n + 1 \in T
  <2>1. n \in Nat /\ n + 1 \in Nat /\ \A s \in SUBSET S : Cardinality(s) = n => s \in G
    BY <1>2
  <2>2. ASSUME NEW s \in SUBSET S, Cardinality(s) = n + 1
        PROVE  s \in G
    <3>1. ASSUME NEW x \in s
          PROVE  s \ {x} \in G
      <4>1. s \ {x} \in SUBSET S /\ Cardinality(s \ {x}) = n
        BY <2>1, <2>2, OneLess
      <4>2. QED
        BY <2>1, <4>1
    <3>2. QED
      BY <3>1
  <2>3. QED
    BY <2>1, <2>2
<1>3. Cardinality(S) \in Nat
  BY FS_CardinalityType
<1> HIDE DEF T
<1>4. \A n \in 0..Cardinality(S) : n \in T
  BY <1>1, <1>2, <1>3, Upto
<1>5. ASSUME NEW s \in SUBSET S
      PROVE  s \in G
  <2>1. Cardinality(s) \in 0..Cardinality(S)
    BY <1>3, FS_Subset, FS_CardinalityType
  <2>2. Cardinality(s) \in T
    BY <1>4, <2>1
  <2>3. QED
    BY <2>2 DEF T
<1>6. QED
  BY <1>5

\* A finite set has an element of the greatest weight.
LEMMA Heaviest ==
  ASSUME NEW S, IsFiniteSet(S), S # {}, NEW w, \A x \in S : w[x] \in Nat
  PROVE  \E x \in S : \A y \in S : w[x] >= w[y]
<1> DEFINE G == {s \in SUBSET S : s = {} \/ \E x \in s : \A y \in s : w[x] >= w[y]}
<1>1. ASSUME NEW s \in SUBSET S, \A x \in s : s \ {x} \in G
      PROVE  s \in G
  <2>1. CASE s = {}
    BY <2>1
  <2>2. ASSUME NEW z \in s
        PROVE  s \in G
    <3>1. s \ {z} \in G /\ w[z] \in Nat
      BY <1>1, <2>2
    <3>2. CASE s \ {z} = {}
      <4>1. \A y \in s : y = z
        BY <3>2
      <4>2. QED
        BY <2>2, <3>1, <4>1
    <3>3. CASE s \ {z} # {}
      <4>1. PICK x \in s \ {z} : \A y \in s \ {z} : w[x] >= w[y]
        BY <3>1, <3>3
      <4>2. w[x] \in Nat
        BY <4>1
      <4>3. CASE w[x] >= w[z]
        <5>1. \A y \in s : w[x] >= w[y]
          BY <4>1, <4>3
        <5>2. QED
          BY <4>1, <5>1
      <4>4. CASE w[z] >= w[x]
        <5>1. \A y \in s : w[y] \in Nat
          OBVIOUS
        <5>2. \A y \in s : w[z] >= w[y]
          BY <3>1, <4>1, <4>2, <4>4, <5>1
        <5>3. QED
          BY <2>2, <5>2
      <4>5. QED
        BY <3>1, <4>2, <4>3, <4>4
    <3>4. QED
      BY <3>2, <3>3
  <2>3. QED
    BY <2>1, <2>2
<1> HIDE DEF G
<1>2. S \in G
  BY <1>1, OnSubsets
<1>3. QED
  BY <1>2 DEF G

----------------------------------------------------------------------------
(* cert_expiry_sweep, for any inventory and any events between its probes. *)

\* As many domains are probed.
Probes == IF MaxProbes <= Len(Inventory) THEN MaxProbes ELSE Len(Inventory)
SweepRow == [domain : Domains, known : BOOLEAN, days : Int]

\* The row tells what was left at some time of the sweep.
Tells(row) ==
  LET h == HostOf[row.domain]
  IN \E t \in left[h]..(left[h] + since) : row.days = Rounded(t)

\* Rows and domains to probe are those of the inventory, in order.
SweepOK ==
  /\ left \in [ProbedHosts -> Int] /\ since \in Nat
  /\ sweep \in [running : BOOLEAN, todo : Seq(Domains), rows : Seq(SweepRow)]
  /\ ~sweep.running => sweep.todo = <<>> /\ sweep.rows = <<>>
  /\ sweep.running => Len(sweep.rows) + Len(sweep.todo) = Probes
  /\ \A k \in DOMAIN sweep.rows : sweep.rows[k].domain = Inventory[k]
  /\ \A k \in DOMAIN sweep.todo : sweep.todo[k] = Inventory[Len(sweep.rows) + k]
  /\ \A k \in DOMAIN sweep.rows :
       sweep.rows[k].known /\ HostOf[sweep.rows[k].domain] \notin renewed => Tells(sweep.rows[k])

\* The sweep stops at MAX_PROBES.
LEMMA CutIsMin == Min({MaxProbes, Len(Inventory)}) = Probes
  BY InventoryAssumption, TimesAssumption DEF Probes, Min

\* No sweep runs at first.
LEMMA SweepFirstOK ==
  ASSUME SweepInit
  PROVE  SweepOK
BY TimesAssumption DEF SweepInit, NoSweep, SweepOK

\* A sweep that starts has all its domains to probe.
LEMMA SweepStartOK ==
  ASSUME SweepOK, StartSweep
  PROVE SweepOK'
<1>1. sweep' = [running |-> TRUE, rows |-> <<>>, todo |-> SubSeq(Inventory, 1, Probes)]
  BY CutIsMin DEF StartSweep
<1>2. Probes \in Nat /\ Probes <= Len(Inventory) /\ Inventory \in Seq(Domains)
  BY InventoryAssumption, TimesAssumption DEF Probes
<1>3. /\ SubSeq(Inventory, 1, Probes) \in Seq(Domains)
      /\ Len(SubSeq(Inventory, 1, Probes)) = Probes
      /\ \A k \in 1..Probes : SubSeq(Inventory, 1, Probes)[k] = Inventory[k]
  BY <1>2
<1>4. /\ sweep'.running = TRUE /\ sweep'.rows = <<>>
      /\ sweep'.todo = SubSeq(Inventory, 1, Probes)
      /\ sweep' \in [running : BOOLEAN, todo : Seq(Domains), rows : Seq(SweepRow)]
  BY <1>1, <1>3
<1>5. left' = left /\ since' = 0
  BY DEF StartSweep
<1>6. DOMAIN sweep'.rows = {} /\ Len(sweep'.rows) = 0 /\ DOMAIN sweep'.todo = 1..Probes
  BY <1>2, <1>3, <1>4
<1>7. QED
  BY <1>2, <1>3, <1>4, <1>5, <1>6 DEF SweepOK

\* What the steps that leave the sweep alone have to keep.
LEMMA SweepAsideOK ==
  ASSUME SweepOK, UNCHANGED sweep,
         left' \in [ProbedHosts -> Int], since' \in Nat,
         sweep.running =>
           \A h \in ProbedHosts :
             h \notin renewed' =>
               h \notin renewed /\ left'[h] <= left[h] /\ left[h] + since <= left'[h] + since'
  PROVE  SweepOK'
<1>1. ASSUME NEW k \in DOMAIN sweep.rows, sweep.rows[k].known,
             HostOf[sweep.rows[k].domain] \notin renewed'
      PROVE  Tells(sweep.rows[k])'
  <2> DEFINE row == sweep.rows[k]
             h == HostOf[row.domain]
  <2>1. row \in SweepRow /\ sweep.running
    BY DEF SweepOK
  <2>2. h \in ProbedHosts
    BY <2>1, InventoryAssumption DEF SweepRow
  <2>3. /\ h \notin renewed /\ left'[h] <= left[h] /\ left[h] + since <= left'[h] + since'
        /\ left[h] \in Int /\ left'[h] \in Int /\ since \in Nat /\ since' \in Nat
    BY <1>1, <2>1, <2>2 DEF SweepOK
  <2>4. PICK t \in left[h]..(left[h] + since) : row.days = Rounded(t)
    BY <1>1, <2>3 DEF SweepOK, Tells
  <2>5. t \in left'[h]..(left'[h] + since')
    BY <2>3, <2>4
  <2>6. row' = row /\ h' = h
    OBVIOUS
  <2>7. \E u \in left'[h]..(left'[h] + since') : row.days = Rounded(u)
    BY <2>4, <2>5
  <2>8. QED
    BY <2>6, <2>7 DEF Tells, Rounded
<1>2. QED
  BY <1>1 DEF SweepOK

\* Rounding moves an expiry by one unit at most.
LEMMA RoundedNear ==
  ASSUME NEW t \in Int
  PROVE  Rounded(t) \in Int /\ Rounded(t) >= t - 1 /\ Rounded(t) <= t + 1
BY DEF Rounded

\* A probe turns the next domain into a row.
LEMMA SweepProbeOK ==
  ASSUME SweepOK, Probe
  PROVE  SweepOK'
<1> DEFINE d == Head(sweep.todo)
           h == HostOf[d]
           row == [domain |-> d, known |-> h \in answers,
                   days |-> IF h \in answers THEN Rounded(left[h]) ELSE 0]
           todo == sweep.todo
           rows == sweep.rows
<1>1. /\ todo \in Seq(Domains) /\ rows \in Seq(SweepRow) /\ todo # <<>> /\ sweep.running = TRUE
      /\ sweep' = [sweep EXCEPT !.todo = Tail(@), !.rows = Append(@, row)]
      /\ left' = left /\ since' = since /\ renewed' = renewed
  BY DEF SweepOK, Probe
<1>2. /\ d \in Domains /\ Tail(todo) \in Seq(Domains) /\ Len(Tail(todo)) = Len(todo) - 1
      /\ Len(todo) \in Nat /\ Len(todo) >= 1 /\ d = todo[1] /\ 1 \in DOMAIN todo
      /\ \A k \in DOMAIN Tail(todo) : k \in Nat /\ k + 1 \in DOMAIN todo /\ Tail(todo)[k] = todo[k + 1]
  BY <1>1
<1>3. h \in ProbedHosts /\ left[h] \in Int /\ since \in Nat
  BY <1>2, InventoryAssumption DEF SweepOK
<1>4. row \in SweepRow
  <2>1. (h \in answers) \in BOOLEAN
    OBVIOUS
  <2>2. (IF h \in answers THEN Rounded(left[h]) ELSE 0) \in Int
    BY <1>3, RoundedNear
  <2> HIDE DEF h
  <2>3. QED
    BY <1>2, <2>1, <2>2 DEF SweepRow
<1>5. row.domain = d /\ row.known = (h \in answers)
      /\ (row.known => row.days = Rounded(left[h]))
  OBVIOUS
<1> HIDE DEF row, d, h
<1>6. /\ Append(rows, row) \in Seq(SweepRow) /\ Len(Append(rows, row)) = Len(rows) + 1
      /\ Len(rows) \in Nat /\ DOMAIN rows = 1..Len(rows)
      /\ DOMAIN Append(rows, row) = 1..(Len(rows) + 1)
      /\ Append(rows, row)[Len(rows) + 1] = row
      /\ \A k \in 1..Len(rows) : Append(rows, row)[k] = rows[k]
  BY <1>1, <1>4
<1>7. /\ sweep' \in [running : BOOLEAN, todo : Seq(Domains), rows : Seq(SweepRow)]
      /\ sweep'.running = TRUE /\ sweep'.todo = Tail(todo) /\ sweep'.rows = Append(rows, row)
  BY <1>1, <1>2, <1>6 DEF SweepOK
<1>7a. /\ Len(rows) \in Nat /\ Len(todo) \in Nat
       /\ Len(sweep'.rows) = Len(rows) + 1 /\ Len(sweep'.todo) = Len(todo) - 1
  <2>1. Len(sweep'.rows) = Len(Append(rows, row)) /\ Len(sweep'.todo) = Len(Tail(todo))
    BY <1>7
  <2>2. QED
    BY <1>2, <1>6, <2>1
<1>8. Len(sweep'.rows) + Len(sweep'.todo) = Probes
  <2>1. Len(rows) + Len(todo) = Probes
    BY <1>1 DEF SweepOK
  <2>2. \A a, b \in Nat : (a + 1) + (b - 1) = a + b
    OBVIOUS
  <2>3. QED
    BY <1>7a, <2>1, <2>2, Zenon
<1>9. ASSUME NEW k \in DOMAIN sweep'.rows
      PROVE  sweep'.rows[k].domain = Inventory[k]
  <2>1. CASE k \in 1..Len(rows)
    BY <1>6, <1>7, <2>1 DEF SweepOK
  <2>2. CASE k = Len(rows) + 1
    <3>1. todo[1] = Inventory[Len(rows) + 1]
      BY <1>2 DEF SweepOK
    <3>2. QED
      BY <1>2, <1>5, <1>6, <1>7, <2>2, <3>1
  <2>3. QED
    BY <1>6, <1>7, <2>1, <2>2
<1>10. ASSUME NEW k \in DOMAIN sweep'.todo
       PROVE  sweep'.todo[k] = Inventory[Len(sweep'.rows) + k]
  <2>0. \A a, b \in Nat : a + (b + 1) = (a + 1) + b
    OBVIOUS
  <2>1. k \in Nat /\ k + 1 \in DOMAIN todo /\ sweep'.todo[k] = todo[k + 1]
    BY <1>2, <1>7
  <2>2. todo[k + 1] = Inventory[Len(rows) + (k + 1)]
    BY <2>1 DEF SweepOK
  <2>3. Len(rows) + (k + 1) = Len(sweep'.rows) + k
    BY <1>7a, <2>1, <2>0, Zenon
  <2>4. QED
    BY <2>1, <2>2, <2>3
<1>11. ASSUME NEW k \in DOMAIN sweep'.rows, sweep'.rows[k].known,
              HostOf[sweep'.rows[k].domain] \notin renewed'
       PROVE  Tells(sweep.rows[k])'
  <2>1. CASE k \in 1..Len(rows)
    <3>1. sweep'.rows[k] = rows[k]
      BY <1>6, <1>7, <2>1
    <3>2. Tells(rows[k])
      BY <1>1, <1>6, <1>11, <2>1, <3>1 DEF SweepOK
    <3>3. QED
      BY <1>1, <3>1, <3>2 DEF Tells, Rounded
  <2>2. CASE k = Len(rows) + 1
    <3>1. sweep'.rows[k] = row
      BY <1>6, <1>7, <2>2
    <3>2. row.days = Rounded(left[h]) /\ HostOf[row.domain] = h
      BY <1>5, <1>11, <3>1 DEF h
    <3>3. left[h] \in left[h]..(left[h] + since)
      BY <1>3
    <3>4. \E t \in left'[h]..(left'[h] + since') : row.days = Rounded(t)
      BY <1>1, <3>2, <3>3
    <3>5. QED
      BY <3>1, <3>2, <3>4 DEF Tells, Rounded
  <2>3. QED
    BY <1>6, <1>7, <2>1, <2>2
<1>12. QED
  BY <1>1, <1>7, <1>8, <1>9, <1>10, <1>11 DEF SweepOK

\* Every step keeps the rows and what they tell.
LEMMA SweepStepOK ==
  ASSUME SweepOK, [SweepNext]_sweepVars
  PROVE  SweepOK'
<1>1. CASE Tick
  <2>1. left' \in [ProbedHosts -> Int] /\ since' \in Nat
    BY <1>1 DEF SweepOK, Tick
  <2>2. sweep.running => \A h \in ProbedHosts : left'[h] = left[h] - 1 /\ since' = since + 1
    BY <1>1 DEF Tick
  <2>3. QED
    BY <1>1, <2>1, <2>2, SweepAsideOK DEF SweepOK, Tick
<1>2. ASSUME NEW h \in ProbedHosts, NEW life \in {Warn, Longest}, Renew(h, life)
      PROVE  SweepOK'
  BY <1>2, SweepAsideOK, TimesAssumption DEF SweepOK, Renew
<1>3. ASSUME NEW h \in ProbedHosts, Toggle(h)
      PROVE  SweepOK'
  BY <1>3, SweepAsideOK DEF SweepOK, Toggle
<1>4. CASE FinishSweep
  BY <1>4 DEF SweepOK, FinishSweep, NoSweep
<1>5. CASE UNCHANGED sweepVars
  BY <1>5, SweepAsideOK DEF SweepOK, sweepVars
<1>6. QED
  BY <1>1, <1>2, <1>3, <1>4, <1>5, SweepStartOK, SweepProbeOK DEF SweepNext

\* The rows with an expiry are sorted.
LEMMA ExpiryOrder ==
  ASSUME SweepOK
  PROVE  LET n == Cardinality(KnownRows) IN
         /\ IsFiniteSet(KnownRows) /\ n \in Nat
         /\ ByExpiry \in [1..n -> KnownRows]
         /\ \A i, j \in 1..n : i < j => Sooner(ByExpiry[i], ByExpiry[j])
<1> DEFINE K == KnownRows
           n == Cardinality(K)
           R == {e \in K \X K : Sooner(e[1], e[2])}
<1>1. /\ K \subseteq 1..Len(sweep.rows) /\ Len(sweep.rows) \in Nat
      /\ \A i \in K : sweep.rows[i].days \in Int
  <2>1. sweep.rows \in Seq(SweepRow)
    BY DEF SweepOK
  <2>2. DOMAIN sweep.rows = 1..Len(sweep.rows) /\ Len(sweep.rows) \in Nat
    BY <2>1
  <2>3. K \subseteq DOMAIN sweep.rows
    BY DEF KnownRows
  <2>4. \A i \in DOMAIN sweep.rows : sweep.rows[i] \in SweepRow
    BY <2>1
  <2> HIDE DEF K
  <2>5. \A i \in K : sweep.rows[i].days \in Int
    BY <2>3, <2>4 DEF SweepRow
  <2>6. QED
    BY <2>2, <2>3, <2>5
<1>2. IsFiniteSet(K) /\ n \in Nat
  <2>1. IsFiniteSet(1..Len(sweep.rows))
    BY <1>1, FS_Interval
  <2>2. QED
    BY <1>1, <2>1, FS_Subset, FS_CardinalityType
<1>3. \A i, j \in K : <<i, j>> \in R <=> Sooner(i, j)
  OBVIOUS
<1>4. Orders(R, K)
  <2>1. \A i \in K : i \in Nat /\ sweep.rows[i].days \in Int
    BY <1>1
  <2> HIDE DEF K, R
  <2>2. \A i, j \in K : i = j \/ Sooner(i, j) \/ Sooner(j, i)
    BY <2>1 DEF Sooner
  <2>3. \A i \in K : ~ Sooner(i, i)
    BY <2>1 DEF Sooner
  <2>4. \A i, j, k \in K : Sooner(i, j) /\ Sooner(j, k) => Sooner(i, k)
    BY <2>1 DEF Sooner
  <2>5. QED
    BY <1>3, <2>2, <2>3, <2>4 DEF Orders
<1> HIDE DEF R
<1>5. PICK p : Sorts(p, K, R)
  BY <1>2, <1>4, SortExists
<1>6. p \in [1..n -> K] /\ \A i, j \in 1..n : i < j => Sooner(p[i], p[j])
  BY <1>3, <1>5 DEF Sorts
<1>7. ByExpiry = CHOOSE q \in [1..n -> K] :
                         \A i, j \in 1..n : i < j => Sooner(q[i], q[j])
  BY Zenon DEF ByExpiry
<1>8. QED
  BY <1>2, <1>6, <1>7

\* There are no more rows than domains.
LEMMA FewRows ==
  ASSUME SweepOK
  PROVE  Len(sweep.rows) <= Len(Inventory)
<1>1. /\ Len(sweep.rows) \in Nat /\ Len(sweep.todo) \in Nat /\ Len(Inventory) \in Nat
      /\ Probes <= Len(Inventory)
  BY InventoryAssumption, TimesAssumption DEF SweepOK, Probes
<1>2. CASE sweep.running
  BY <1>1, <1>2 DEF SweepOK
<1>3. CASE ~ sweep.running
  BY <1>1, <1>3 DEF SweepOK
<1>4. QED
  BY <1>2, <1>3

\* Every row is in one of the two lists.
LEMMA RowsAddUp ==
  ASSUME SweepOK
  PROVE  /\ IsFiniteSet(Unknown)
         /\ Cardinality(KnownRows) + Cardinality(Unknown) = Len(sweep.rows)
<1> DEFINE K == KnownRows
           N == Len(sweep.rows)
           U == (1..N) \ K
           f == [i \in U |-> sweep.rows[i].domain]
<1>1. N \in Nat /\ DOMAIN sweep.rows = 1..N /\ K \subseteq 1..N
  BY DEF SweepOK, KnownRows
<1>2. IsFiniteSet(1..N) /\ Cardinality(1..N) = N
  <2>1. 1 \in Int /\ N \in Int
    BY <1>1
  <2>2. IsFiniteSet(1..N) /\ Cardinality(1..N) = IF 1 > N THEN 0 ELSE N - 1 + 1
    BY <2>1, FS_Interval
  <2>3. QED
    BY <1>1, <2>2
<1>3. IsFiniteSet(K) /\ Cardinality(K) \in Nat
  BY ExpiryOrder
<1>4. IsFiniteSet(U) /\ Cardinality(U) = N - Cardinality(K)
  <2>1. (1..N) \cap K = K
    BY <1>1
  <2> HIDE DEF K, N
  <2>2. /\ IsFiniteSet((1..N) \ K)
        /\ Cardinality((1..N) \ K) = Cardinality(1..N) - Cardinality((1..N) \cap K)
    BY <1>2, FS_Difference
  <2>3. QED
    BY <1>2, <2>1, <2>2
<1>5. Unknown = {sweep.rows[i].domain : i \in U}
  BY <1>1 DEF Unknown
<1>6. f \in Injection(U, Unknown)
  <2>1. f \in [U -> Unknown]
    BY <1>5
  <2>2. \A i, j \in U : f[i] = f[j] => i = j
    <3>1. ASSUME NEW i \in U
          PROVE  f[i] = Inventory[i] /\ i \in DOMAIN Inventory
      <4>1. i \in 1..N /\ i \in DOMAIN sweep.rows
        BY <1>1
      <4>2. f[i] = Inventory[i]
        BY <4>1 DEF SweepOK
      <4>3. N <= Len(Inventory) /\ Len(Inventory) \in Nat /\ DOMAIN Inventory = 1..Len(Inventory)
        BY <1>1, FewRows, InventoryAssumption
      <4>4. QED
        BY <1>1, <4>1, <4>2, <4>3
    <3>2. QED
      BY <3>1, InventoryAssumption
  <2>3. QED
    BY <2>1, <2>2, Zenon DEF Injection, IsInjective
<1>7. f \in Surjection(U, Unknown)
  <2>1. \A d \in Unknown : \E i \in U : f[i] = d
    BY <1>5
  <2>2. QED
    BY <1>6, <2>1, Zenon DEF Injection, Surjection
<1> HIDE DEF f, U
<1>8. IsFiniteSet(Unknown) /\ Cardinality(Unknown) = Cardinality(U)
  BY <1>4, <1>6, <1>7, FS_Surjection
<1>9. QED
  BY <1>1, <1>3, <1>4, <1>8

\* A certificate with more time left is in no worse bucket.
LEMMA BucketsInOrder ==
  ASSUME NEW s \in Int, NEW t \in Int, s <= t
  PROVE  /\ RankOf(s) \in 0..3 /\ RankOf(t) \in 0..3
         /\ RankOf(s) <= RankOf(t)
<1>1. \A r \in Int : RankOf(r) =
        IF r < 0 THEN 0 ELSE IF r <= Critical THEN 1 ELSE IF r <= Warn THEN 2 ELSE 3
  BY TimesAssumption DEF RankOf, Severity, Bucket
<1>2. QED
  BY <1>1, TimesAssumption

\* The report of the sweep, from its rows.
LEMMA SweepFollows ==
  ASSUME SweepOK
  PROVE  SweepIsExact
<1> SUFFICES ASSUME Swept
             PROVE  /\ Len(Ranked) + Cardinality(Unknown) = Probes
                    /\ \A i, j \in DOMAIN Ranked :
                         i < j => Ranked[i].days <= Ranked[j].days
                    /\ \A i \in DOMAIN Ranked :
                         LET h == HostOf[Ranked[i].domain] IN
                         h \notin renewed =>
                           Severity[Bucket(Ranked[i].days)]
                             \in RankOf(left[h] - 1)..RankOf(left[h] + since + 1)
  BY CutIsMin, Zenon DEF SweepIsExact
<1> DEFINE K == KnownRows
           n == Cardinality(K)
           p == ByExpiry
<1>1. /\ n \in Nat /\ p \in [1..n -> K]
      /\ \A i, j \in 1..n : i < j => Sooner(p[i], p[j])
  BY ExpiryOrder
<1>2. DOMAIN Ranked = 1..n /\ \A i \in 1..n : Ranked[i] = sweep.rows[p[i]]
  BY <1>1 DEF Ranked
<1>3. \A k \in K : k \in DOMAIN sweep.rows /\ sweep.rows[k] \in SweepRow /\ sweep.rows[k].known
  BY DEF KnownRows, Known, SweepOK
<1>4. \A i \in 1..n : Ranked[i] \in SweepRow
  BY <1>1, <1>2, <1>3
<1>5. Len(Ranked) = n
  <2>1. Ranked \in [1..n -> SweepRow]
    <3>1. Ranked = [i \in 1..n |-> sweep.rows[p[i]]]
      BY <1>1 DEF Ranked
    <3>2. QED
      BY <1>1, <1>3, <3>1
  <2>2. QED
    BY <1>1, <2>1
<1>6. Len(sweep.rows) = Probes
  BY DEF SweepOK, Swept
<1>7. Len(Ranked) + Cardinality(Unknown) = Probes
  BY <1>5, <1>6, RowsAddUp
<1>8. ASSUME NEW i \in 1..n, NEW j \in 1..n, i < j
      PROVE  Ranked[i].days <= Ranked[j].days
  <2>1. Sooner(p[i], p[j])
    BY <1>1, <1>8
  <2>2. Ranked[i].days \in Int /\ Ranked[j].days \in Int
    BY <1>4 DEF SweepRow
  <2>3. QED
    BY <1>2, <2>1, <2>2 DEF Sooner
<1>9. ASSUME NEW i \in 1..n, HostOf[Ranked[i].domain] \notin renewed
      PROVE  LET h == HostOf[Ranked[i].domain] IN
             Severity[Bucket(Ranked[i].days)]
               \in RankOf(left[h] - 1)..RankOf(left[h] + since + 1)
  <2> DEFINE row == Ranked[i]
             h == HostOf[row.domain]
  <2>1. /\ row = sweep.rows[p[i]] /\ p[i] \in DOMAIN sweep.rows /\ row \in SweepRow
        /\ row.known = TRUE
    BY <1>1, <1>2, <1>3 DEF SweepRow
  <2>2. h \in ProbedHosts /\ left[h] \in Int /\ since \in Nat
    BY <2>1, InventoryAssumption DEF SweepRow, SweepOK
  <2>3. Tells(row)
    BY <1>9, <2>1 DEF SweepOK
  <2>4. PICK t \in left[h]..(left[h] + since) : row.days = Rounded(t)
    BY <2>3 DEF Tells
  <2>5. /\ row.days \in Int /\ left[h] - 1 \in Int /\ left[h] + since + 1 \in Int
        /\ left[h] - 1 <= row.days /\ row.days <= left[h] + since + 1
    BY <2>2, <2>4, RoundedNear
  <2>6. /\ RankOf(left[h] - 1) <= RankOf(row.days)
        /\ RankOf(row.days) <= RankOf(left[h] + since + 1)
        /\ RankOf(row.days) \in 0..3 /\ RankOf(left[h] - 1) \in 0..3
        /\ RankOf(left[h] + since + 1) \in 0..3
    BY <2>5, BucketsInOrder
  <2>7. RankOf(row.days) = Severity[Bucket(row.days)]
    BY DEF RankOf
  <2>8. QED
    BY <2>6, <2>7
<1>10. QED
  BY <1>2, <1>7, <1>8, <1>9, Zenon

\* Each domain that is probed is in one place of the report, soonest expiry first,
\* and the bucket of a certificate that was not replaced is one it had during the
\* sweep, but for a rounding (cert_expiry_sweep, analysis.py:184), where the
\* inventory names a domain once, as pull_tls_inventory does (certs.py:38 and 63).
THEOREM SweepIsExactHolds == SweepSpec => []SweepIsExact
BY SweepFirstOK, SweepStepOK, SweepFollows, PTL DEF SweepSpec

----------------------------------------------------------------------------
(* Rates that are rounded to hundredths of a percent.                      *)

\* Products keep the order.
LEMMA Times ==
  ASSUME NEW a \in Int, NEW b \in Int, NEW r \in Nat, a <= b
  PROVE  a * r <= b * r /\ a * r \in Int /\ b * r \in Int /\ r * a <= r * b
OBVIOUS

\* Half up
LEMMA Division ==
  ASSUME NEW a \in Nat, NEW r \in Nat, r > 0
  PROVE  LET q == a \div r IN q \in Nat /\ r * q <= a /\ a < r * q + r
OBVIOUS

RateOf(e, r) == IF r = 0 THEN 0 ELSE (20000 * e + r) \div (2 * r)

\* The bounds of a rounded rate.
LEMMA RateBounds ==
  ASSUME NEW e \in Nat, NEW r \in Nat, r > 0
  PROVE  LET q == RateOf(e, r) IN
         q \in Nat /\ 2 * (r * q) <= 20000 * e + r /\ 20000 * e + r < 2 * (r * q) + 2 * r
<1>1. 2 * r \in Nat /\ 2 * r > 0 /\ 20000 * e + r \in Nat
  OBVIOUS
<1> DEFINE a == 20000 * e + r
           d == 2 * r
<1>2. RateOf(e, r) = a \div d
  BY DEF RateOf
<1> HIDE DEF a, d
<1>3. LET q == a \div d IN q \in Nat /\ d * q <= a /\ a < d * q + d
  BY <1>1, Division DEF a, d
<1>4. \A q \in Nat : (2 * r) * q = 2 * (r * q)
  OBVIOUS
<1>5. QED
  BY <1>2, <1>3, <1>4 DEF a, d

\* A share that reaches the threshold reaches it rounded, too.
LEMMA RateReached ==
  ASSUME NEW e \in Nat, NEW r \in Nat, NEW p \in Nat, r > 0, 100 * e >= p * r
  PROVE  RateOf(e, r) >= 100 * p
<1> DEFINE q == RateOf(e, r)
<1>1. q \in Nat /\ 2 * (r * q) <= 20000 * e + r /\ 20000 * e + r < 2 * (r * q) + 2 * r
  BY RateBounds
<1> HIDE DEF q
<1>2. ASSUME q + 1 <= 100 * p
      PROVE  FALSE
  <2>1. (q + 1) * r <= (100 * p) * r
    BY <1>1, <1>2, Times
  <2>2. (q + 1) * r = r * q + r /\ (100 * p) * r = 100 * (p * r) /\ p * r \in Nat /\ r * q \in Nat
    BY <1>1
  <2>3. QED
    BY <1>1, <2>1, <2>2
<1>3. QED
  BY <1>1, <1>2 DEF q

\* A rounded rate that reaches it is a rounding below it at most.
LEMMA RateAbove ==
  ASSUME NEW e \in Nat, NEW r \in Nat, NEW p \in Nat, RateOf(e, r) >= 100 * p
  PROVE  20000 * e >= (200 * p - 1) * r
<1> DEFINE q == RateOf(e, r)
<1>1. CASE r = 0
  BY <1>1
<1>2. CASE r > 0
  <2>1. q \in Nat /\ 2 * (r * q) <= 20000 * e + r
    BY <1>2, RateBounds
  <2>2. q >= 100 * p
    OBVIOUS
  <2> HIDE DEF q
  <2>3. (100 * p) * r <= q * r
    BY <2>1, <2>2, Times
  <2>4. /\ q * r = r * q /\ (100 * p) * r = 100 * (p * r) /\ p * r \in Nat /\ r * q \in Nat
        /\ (200 * p - 1) * r = 200 * (p * r) - r
    BY <2>1
  <2>5. QED
    BY <2>1, <2>3, <2>4
<1>3. QED
  BY <1>1, <1>2

\* The order of the rounded rates is that of the shares, but for a rounding.
LEMMA RatesCompare ==
  ASSUME NEW e \in Nat, NEW r \in Nat, NEW f \in Nat, NEW s \in Nat, r > 0,
         RateOf(e, r) <= RateOf(f, s)
  PROVE  10000 * e * s <= (10000 * f + s) * r
<1> DEFINE q == RateOf(e, r)
           t == RateOf(f, s)
<1>1. q \in Nat /\ 20000 * e + r < 2 * (r * q) + 2 * r
  BY RateBounds
<1>2. CASE s = 0
  <2>1. (10000 * f + s) * r \in Nat
    OBVIOUS
  <2>2. QED
    BY <1>2, <2>1
<1>3. CASE s > 0
  <2>1. t \in Nat /\ 2 * (s * t) <= 20000 * f + s /\ q <= t
    BY <1>3, RateBounds
  <2> HIDE DEF q, t
  <2>2. (20000 * e + r) * s <= (2 * (r * q) + 2 * r) * s
    BY <1>1, Times
  <2>3. (q + 1) * (r * s) <= (t + 1) * (r * s)
    BY <1>1, <2>1, Times
  <2>4. (2 * (s * t)) * r <= (20000 * f + s) * r
    BY <2>1, Times
  <2>5. /\ (20000 * e + r) * s = 20000 * (e * s) + r * s
        /\ (2 * (r * q) + 2 * r) * s = 2 * ((q + 1) * (r * s))
        /\ (t + 1) * (r * s) = t * (r * s) + r * s
        /\ (2 * (s * t)) * r = 2 * (t * (r * s))
        /\ (20000 * f + s) * r = 20000 * (f * r) + r * s
        /\ 10000 * e * s = 10000 * (e * s)
        /\ (10000 * f + s) * r = 10000 * (f * r) + r * s
    BY <1>1, <2>1
  <2>6. /\ e * s \in Nat /\ r * s \in Nat /\ f * r \in Nat /\ t * (r * s) \in Nat
        /\ (q + 1) * (r * s) \in Nat
    BY <1>1, <2>1
  <2>7. QED
    BY <2>2, <2>3, <2>4, <2>5, <2>6
<1>4. QED
  BY <1>2, <1>3

----------------------------------------------------------------------------
(* error_rate_rca, for any requests of any services.                       *)

\* The sum of weights, as the fold of the library computes it.
SumStep(g, w, s) ==
  IF s = {} THEN 0 ELSE LET x == CHOOSE x \in s : TRUE IN w[x] + g[s \ {x}]
Sums(g, w, S) == g = [s \in SUBSET S |-> SumStep(g, w, s)]
SumOf(w, S) == MapThenSumSet(LAMBDA x : w[x], S)

\* Such sums take one element after the other.
LEMMA SumsStep ==
  ASSUME NEW S, NEW w, NEW g, Sums(g, w, S)
  PROVE  /\ g[{}] = 0
         /\ \A s \in SUBSET S : s # {} =>
              LET x == CHOOSE y \in s : TRUE IN x \in s /\ g[s] = w[x] + g[s \ {x}]
<1>1. \A s \in SUBSET S : g[s] = SumStep(g, w, s)
  BY DEF Sums
<1>2. g[{}] = 0
  BY <1>1 DEF SumStep
<1>3. ASSUME NEW s \in SUBSET S, s # {}
      PROVE  LET x == CHOOSE y \in s : TRUE IN x \in s /\ g[s] = w[x] + g[s \ {x}]
  <2>1. (CHOOSE y \in s : TRUE) \in s
    BY <1>3
  <2>2. QED
    BY <1>1, <1>3, <2>1 DEF SumStep
<1>4. QED
  BY <1>2, <1>3

\* There is such a sum, by induction on the size of the sets it is of.
LEMMA SumsExist ==
  ASSUME NEW S, IsFiniteSet(S), NEW w
  PROVE  \E g : Sums(g, w, S)
<1> DEFINE Upon(g, n) == /\ g = [s \in SUBSET S |-> g[s]]
                         /\ \A s \in SUBSET S : Cardinality(s) <= n => g[s] = SumStep(g, w, s)
           T == {n \in Nat : \E g : Upon(g, n)}
<1>0. \A s \in SUBSET S : Cardinality(s) \in Nat /\ Cardinality(s) <= Cardinality(S)
  BY FS_Subset, FS_CardinalityType
<1>1. 0 \in T
  <2> DEFINE g == [s \in SUBSET S |-> 0]
  <2>1. ASSUME NEW s \in SUBSET S, Cardinality(s) <= 0
        PROVE  g[s] = SumStep(g, w, s)
    <3>1. Cardinality(s) = 0
      BY <1>0, <2>1
    <3>2. s = {}
      BY <3>1, FS_Subset, FS_EmptySet
    <3>3. QED
      BY <3>2 DEF SumStep
  <2>2. g = [s \in SUBSET S |-> g[s]]
    OBVIOUS
  <2> HIDE DEF g
  <2>3. Upon(g, 0)
    BY <2>1, <2>2
  <2>4. QED
    BY <2>3
<1>2. ASSUME NEW n \in 0..(Cardinality(S) - 1), n \in T
      PROVE  n + 1 \in T
  <2>1. n \in Nat /\ n + 1 \in Nat
    BY <1>2
  <2>2. PICK g : Upon(g, n)
    BY <1>2
  <2> DEFINE h == [s \in SUBSET S |-> SumStep(g, w, s)]
  <2>3. ASSUME NEW s \in SUBSET S, Cardinality(s) <= n + 1
        PROVE  h[s] = SumStep(h, w, s)
    <3>1. CASE s = {}
      BY <3>1 DEF SumStep
    <3>2. CASE s # {}
      <4> DEFINE x == CHOOSE y \in s : TRUE
      <4>1. x \in s
        BY <3>2
      <4> HIDE DEF x
      <4>a. Cardinality(s) \in Nat /\ Cardinality(s \ {x}) = Cardinality(s) - 1
        BY <4>1, OneLess
      <4>b. \A a, b \in Nat : b <= a + 1 => b - 1 <= a
        OBVIOUS
      <4>c. Cardinality(s) <= n + 1
        BY <2>3
      <4>2. s \ {x} \in SUBSET S /\ Cardinality(s \ {x}) <= n
        BY <2>1, <4>a, <4>b, <4>c, Zenon
      <4> USE DEF x
      <4>3. h[s \ {x}] = SumStep(g, w, s \ {x}) /\ h[s] = SumStep(g, w, s)
        BY <4>2
      <4>4. g[s \ {x}] = SumStep(g, w, s \ {x})
        BY <2>2, <4>2
      <4> HIDE DEF h
      <4>5. SumStep(g, w, s) = w[x] + g[s \ {x}] /\ SumStep(h, w, s) = w[x] + h[s \ {x}]
        BY <3>2 DEF SumStep
      <4>6. QED
        BY <4>3, <4>4, <4>5
    <3>3. QED
      BY <3>1, <3>2
  <2>4. h = [s \in SUBSET S |-> h[s]]
    OBVIOUS
  <2> HIDE DEF h
  <2>5. Upon(h, n + 1)
    BY <2>3, <2>4
  <2>6. QED
    BY <2>1, <2>5
<1>3. Cardinality(S) \in Nat /\ Cardinality(S) \in 0..Cardinality(S)
  BY FS_CardinalityType
<1> HIDE DEF T
<1>4. Cardinality(S) \in T
  BY <1>1, <1>2, <1>3, Upto
<1>5. PICK g : Upon(g, Cardinality(S))
  BY <1>4 DEF T
<1>6. \A s \in SUBSET S : g[s] = SumStep(g, w, s)
  BY <1>0, <1>5
<1>7. g = [s \in SUBSET S |-> SumStep(g, w, s)]
  BY <1>5, <1>6
<1>8. QED
  BY <1>7 DEF Sums

\* The fold of the library is such a sum.
LEMMA SumIsFold ==
  ASSUME NEW S, IsFiniteSet(S), NEW w
  PROVE  \E g : Sums(g, w, S) /\ SumOf(w, S) = g[S]
<1> DEFINE iter[s \in SUBSET S] ==
             IF s = {} THEN 0 ELSE LET x == CHOOSE x \in s : TRUE IN w[x] + iter[s \ {x}]
<1>1. iter = [s \in SUBSET S |->
               IF s = {} THEN 0 ELSE LET x == CHOOSE x \in s : TRUE IN w[x] + iter[s \ {x}]]
  <2>1. PICK g : Sums(g, w, S)
    BY SumsExist
  <2>2. g = [s \in SUBSET S |->
               IF s = {} THEN 0 ELSE LET x == CHOOSE x \in s : TRUE IN w[x] + g[s \ {x}]]
    BY <2>1 DEF Sums, SumStep
  <2>3. \E h : h = [s \in SUBSET S |->
               IF s = {} THEN 0 ELSE LET x == CHOOSE x \in s : TRUE IN w[x] + h[s \ {x}]]
    BY <2>2, Zenon
  <2>4. QED
    BY <2>3, Zenon DEF iter
<1>2. SumOf(w, S) = iter[S]
  BY DEF SumOf, MapThenSumSet, MapThenFoldSet
<1> HIDE DEF iter
<1>3. Sums(iter, w, S)
  BY <1>1 DEF Sums, SumStep
<1>4. QED
  BY <1>2, <1>3

\* Sums of numbers are numbers.
LEMMA SumsType ==
  ASSUME NEW S, IsFiniteSet(S), NEW w, \A x \in S : w[x] \in Nat, NEW g, Sums(g, w, S)
  PROVE  \A s \in SUBSET S : g[s] \in Nat
<1> DEFINE G == {s \in SUBSET S : g[s] \in Nat}
<1>1. ASSUME NEW s \in SUBSET S, \A x \in s : s \ {x} \in G
      PROVE  s \in G
  <2>1. CASE s = {}
    BY <2>1, SumsStep
  <2>2. CASE s # {}
    <3> DEFINE x == CHOOSE y \in s : TRUE
    <3>1. x \in s /\ g[s] = w[x] + g[s \ {x}]
      BY <2>2, SumsStep
    <3> HIDE DEF x
    <3>a. s \ {x} \in G
      BY <1>1, <3>1
    <3>2. w[x] \in Nat /\ g[s \ {x}] \in Nat
      BY <3>1, <3>a
    <3>3. QED
      BY <3>1, <3>2
  <2>3. QED
    BY <2>1, <2>2
<1> HIDE DEF G
<1>2. \A s \in SUBSET S : s \in G
  BY <1>1, OnSubsets
<1>3. QED
  BY <1>2 DEF G

\* It does not matter which element is taken first.
LEMMA SumsAny ==
  ASSUME NEW S, IsFiniteSet(S), NEW w, \A x \in S : w[x] \in Nat, NEW g, Sums(g, w, S)
  PROVE  \A s \in SUBSET S : \A y \in s : g[s] = w[y] + g[s \ {y}]
<1> DEFINE G == {s \in SUBSET S : \A y \in s : g[s] = w[y] + g[s \ {y}]}
<1>1. ASSUME NEW s \in SUBSET S, \A x \in s : s \ {x} \in G
      PROVE  s \in G
  <2>1. ASSUME NEW y \in s
        PROVE  g[s] = w[y] + g[s \ {y}]
    <3>0. s # {}
      BY <2>1
    <3> DEFINE x == CHOOSE z \in s : TRUE
    <3>1. x \in s /\ g[s] = w[x] + g[s \ {x}]
      BY <3>0, SumsStep
    <3> HIDE DEF x
    <3>2. CASE x = y
      BY <3>1, <3>2
    <3>3. CASE x # y
      <4>1. y \in s \ {x} /\ x \in s \ {y} /\ (s \ {x}) \ {y} = (s \ {y}) \ {x}
        BY <3>1, <3>3
      <4>2. g[s \ {x}] = w[y] + g[(s \ {x}) \ {y}]
        BY <1>1, <4>1
      <4>3. g[s \ {y}] = w[x] + g[(s \ {y}) \ {x}]
        BY <1>1, <4>1
      <4>a. x \in S /\ y \in S /\ (s \ {x}) \ {y} \in SUBSET S
        BY <3>1
      <4>b. \A u \in SUBSET S : g[u] \in Nat
        BY SumsType
      <4>4. w[x] \in Nat /\ w[y] \in Nat /\ g[(s \ {x}) \ {y}] \in Nat
        BY <4>a, <4>b
      <4>5. \A a, b, c \in Nat : a + (b + c) = b + (a + c)
        OBVIOUS
      <4>6. g[s] = w[x] + (w[y] + g[(s \ {x}) \ {y}])
        BY <3>1, <4>2
      <4>7. g[s] = w[y] + (w[x] + g[(s \ {x}) \ {y}])
        BY <4>4, <4>5, <4>6
      <4>8. QED
        BY <4>1, <4>3, <4>7, Zenon
    <3>4. QED
      BY <3>2, <3>3
  <2>2. QED
    BY <2>1
<1> HIDE DEF G
<1>2. \A s \in SUBSET S : s \in G
  BY <1>1, OnSubsets
<1>3. QED
  BY <1>2 DEF G

\* The sums of the same weights are the same.
LEMMA SumsAgree ==
  ASSUME NEW S, NEW T, IsFiniteSet(T), T \subseteq S, NEW w, NEW u, \A x \in T : w[x] = u[x],
         NEW g, Sums(g, w, S), NEW h, Sums(h, u, T)
  PROVE  g[T] = h[T]
<1> DEFINE G == {s \in SUBSET T : g[s] = h[s]}
<1>1. ASSUME NEW s \in SUBSET T, \A x \in s : s \ {x} \in G
      PROVE  s \in G
  <2>1. CASE s = {}
    BY <2>1, SumsStep
  <2>2. CASE s # {}
    <3> DEFINE x == CHOOSE y \in s : TRUE
    <3>1. x \in s /\ g[s] = w[x] + g[s \ {x}]
      BY <2>2, SumsStep
    <3>2. h[s] = u[x] + h[s \ {x}]
      BY <2>2, SumsStep
    <3> HIDE DEF x
    <3>3. g[s \ {x}] = h[s \ {x}] /\ w[x] = u[x]
      BY <1>1, <3>1
    <3>4. QED
      BY <3>1, <3>2, <3>3
  <2>3. QED
    BY <2>1, <2>2
<1> HIDE DEF G
<1>2. \A s \in SUBSET T : s \in G
  BY <1>1, OnSubsets
<1>3. QED
  BY <1>2 DEF G

\* So are those of the library.
LEMMA SumType ==
  ASSUME NEW S, IsFiniteSet(S), NEW w, \A x \in S : w[x] \in Nat
  PROVE  SumOf(w, S) \in Nat
BY SumIsFold, SumsType

\* What weighs nothing can be left out.
LEMMA SumOfPart ==
  ASSUME NEW S, IsFiniteSet(S), NEW T, T \subseteq S, NEW w, NEW u, \A x \in S : w[x] \in Nat,
         \A x \in T : w[x] = u[x], \A x \in S \ T : w[x] = 0
  PROVE  SumOf(w, S) = SumOf(u, T)
<1>1. PICK g : Sums(g, w, S) /\ SumOf(w, S) = g[S]
  BY SumIsFold
<1>2. IsFiniteSet(T)
  BY FS_Subset
<1>3. PICK h : Sums(h, u, T) /\ SumOf(u, T) = h[T]
  BY <1>2, SumIsFold
<1>4. g[T] = h[T]
  BY <1>1, <1>2, <1>3, SumsAgree
<1> DEFINE G == {s \in SUBSET S : T \subseteq s => g[s] = g[T]}
<1>5. ASSUME NEW s \in SUBSET S, \A x \in s : s \ {x} \in G
      PROVE  s \in G
  <2>1. CASE ~ (T \subseteq s) \/ s = T
    BY <2>1
  <2>2. CASE T \subseteq s /\ s # T
    <3>1. PICK y \in s : y \notin T
      BY <2>2
    <3>a. g[s] = w[y] + g[s \ {y}]
      BY <1>1, SumsAny
    <3>2. g[s] = w[y] + g[s \ {y}] /\ w[y] = 0 /\ T \subseteq s \ {y}
      BY <2>2, <3>1, <3>a
    <3>3. g[s \ {y}] = g[T] /\ g[T] \in Nat
      BY <1>1, <1>5, <3>1, <3>2, SumsType
    <3>4. QED
      BY <3>2, <3>3
  <2>3. QED
    BY <2>1, <2>2
<1> HIDE DEF G
<1>6. \A s \in SUBSET S : s \in G
  BY <1>5, OnSubsets
<1>7. g[S] = g[T]
  BY <1>6 DEF G
<1>8. QED
  BY <1>1, <1>3, <1>4, <1>7

\* The sum over nothing.
LEMMA SumOfNone ==
  ASSUME NEW w
  PROVE  SumOf(w, {}) = 0
<1>1. PICK g : Sums(g, w, {}) /\ SumOf(w, {}) = g[{}]
  BY SumIsFold, FS_EmptySet
<1>2. QED
  BY <1>1, FS_EmptySet, SumsStep

\* error_counters cuts no service.
NoServiceIsCut == Len(Order) <= MaxServices

\* Requests are counted per service and code.
ServedOK == served \in [Counted -> [Codes -> Nat]]

\* The proxy counts in natural numbers.
LEMMA ServedAlways == TrafficSpec => []ServedOK
<1>1. ASSUME TrafficInit
      PROVE  ServedOK
  BY <1>1 DEF TrafficInit, ServedOK
<1>2. ASSUME ServedOK, [TrafficNext]_traffic
      PROVE  ServedOK'
  <2>1. ASSUME NEW v \in Counted, NEW c \in Codes, NEW n \in Loads, Serve(v, c, n)
        PROVE  ServedOK'
    <3>1. n \in Nat
      BY RatesAssumption
    <3>2. served' = [served EXCEPT ![v][c] = @ + n]
      BY <2>1 DEF Serve
    <3>3. QED
      BY <1>2, <3>1, <3>2 DEF ServedOK
  <2>2. CASE Restart
    BY <2>2 DEF Restart, ServedOK
  <2>3. CASE UNCHANGED traffic
    BY <1>2, <2>3 DEF traffic, ServedOK
  <2>4. QED
    BY <1>2, <2>1, <2>2, <2>3 DEF TrafficNext
<1>3. QED
  BY <1>1, <1>2, PTL DEF TrafficSpec

FiveCodes == Codes \cap ServerErrors

\* The counters of a service are in its row, on either platform.
LEMMA RowsCount ==
  ASSUME ServedOK, NEW v \in Counted
  PROVE  /\ RequestsOf(v) \in Nat /\ ErrorsOf(v) \in Nat
         /\ Counter(v).total = RequestsOf(v)
         /\ FiveXX(Counter(v)).count = ErrorsOf(v)
<1> DEFINE w == served[v]
           row == Counter(v)
           five == DOMAIN row.codes \cap ServerErrors
<1>1. IsFiniteSet(Codes) /\ IsFiniteSet(FiveCodes) /\ FiveCodes \subseteq Codes
  BY FS_Subset, CodesAssumption DEF FiveCodes
<1>2. w \in [Codes -> Nat]
  BY DEF ServedOK
<1>3. RequestsOf(v) = SumOf(w, Codes) /\ ErrorsOf(v) = SumOf(w, FiveCodes)
  BY DEF RequestsOf, ErrorsOf, Of, SumOf, FiveCodes
<1>4. \A c \in Codes : w[c] \in Nat
  BY <1>2
<1> HIDE DEF w
<1>5. SumOf(w, Codes) \in Nat /\ SumOf(w, FiveCodes) \in Nat
  BY <1>1, <1>4, SumType
<1>6. row.total = RequestsOf(v)
  BY DEF Counter
<1>7. FiveXX(row).count = IF five = {} THEN row.classes ELSE SumOf(row.codes, five)
  BY DEF FiveXX, SumOf
<1>8. CASE platform # "traefik"
  <2>1. row.codes = <<>> /\ row.classes = ErrorsOf(v)
    BY <1>8 DEF Counter
  <2>2. five = {}
    BY <2>1
  <2>3. QED
    BY <1>3, <1>5, <1>6, <1>7, <2>1, <2>2
<1>9. CASE platform = "traefik"
  <2> DEFINE P == {c \in Codes : w[c] > 0}
  <2>1. row.codes = [c \in P |-> w[c]] /\ row.classes = 0
    BY <1>9 DEF Counter, w
  <2>2. five = P \cap ServerErrors /\ five \subseteq FiveCodes
    BY <2>1 DEF FiveCodes
  <2>3. \A c \in five : w[c] = row.codes[c]
    BY <2>1, <2>2
  <2>4. \A c \in FiveCodes \ five : w[c] = 0
    BY <1>4, <2>2 DEF FiveCodes
  <2>5. \A c \in FiveCodes : w[c] \in Nat
    BY <1>1, <1>4
  <2> HIDE DEF five, row
  <2>6. SumOf(w, FiveCodes) = SumOf(row.codes, five)
    BY <1>1, <2>2, <2>3, <2>4, <2>5, SumOfPart
  <2>7. five = {} => SumOf(row.codes, five) = 0
    BY SumOfNone
  <2>8. FiveXX(row).count = ErrorsOf(v)
    BY <1>3, <1>7, <2>1, <2>6, <2>7
  <2>9. QED
    BY <1>3, <1>5, <1>6, <2>8 DEF row
<1>10. QED
  BY <1>8, <1>9

\* The code that is blamed has the most requests.
LEMMA BlamesTheMost ==
  ASSUME ServedOK, NEW v \in Counted,
         FiveXX(Counter(v)).dominant # NoCode, NEW c \in FiveCodes
  PROVE  served[v][c] <= served[v][FiveXX(Counter(v)).dominant]
<1> DEFINE w == served[v]
           row == Counter(v)
           five == DOMAIN row.codes \cap ServerErrors
           most == FiveXX(row).dominant
           P == {d \in Codes : w[d] > 0}
<1>1. five # {} /\ most = CHOOSE d \in five : \A e \in five : row.codes[d] >= row.codes[e]
  BY DEF FiveXX
<1>2. platform = "traefik"
  BY <1>1 DEF Counter
<1>3. row.codes = [d \in P |-> w[d]]
  BY <1>2 DEF Counter
<1>4. /\ w \in [Codes -> Nat] /\ IsFiniteSet(FiveCodes) /\ c \in Codes /\ five \subseteq FiveCodes
      /\ five = P \cap ServerErrors
  BY <1>3, FS_Subset, CodesAssumption DEF ServedOK, FiveCodes
<1>5. \A d \in five : row.codes[d] = w[d] /\ w[d] \in Nat /\ d \in Codes
  BY <1>3, <1>4
<1>6. IsFiniteSet(five)
  BY <1>4, FS_Subset
<1> HIDE DEF five, row, w, most
<1>7. \A d \in five : row.codes[d] \in Nat
  BY <1>5
<1>8. \E d \in five : \A e \in five : row.codes[d] >= row.codes[e]
  BY <1>1, <1>6, <1>7, Heaviest
<1>9. most \in five /\ \A e \in five : row.codes[most] >= row.codes[e]
  BY <1>1, <1>8
<1>10. CASE c \in five
  BY <1>5, <1>9, <1>10 DEF w, most, row
<1>11. CASE c \notin five
  <2>1. w[c] = 0
    BY <1>4, <1>11 DEF FiveCodes
  <2>2. w[most] \in Nat
    BY <1>5, <1>9
  <2>3. QED
    BY <2>1, <2>2 DEF w, most, row
<1>12. QED
  BY <1>10, <1>11

\* What a row says, in the terms of the requests that were served.
LEMMA RowsRate ==
  ASSUME ServedOK, NEW i \in DOMAIN Order
  PROVE  /\ Order[i] \in Counted
         /\ CounterRow(i).total = RequestsOf(Order[i])
         /\ Rate(CounterRow(i)) = RateOf(ErrorsOf(Order[i]), RequestsOf(Order[i]))
         /\ RequestsOf(Order[i]) \in Nat /\ ErrorsOf(Order[i]) \in Nat
         /\ Rate(CounterRow(i)) \in Nat
<1> DEFINE v == Order[i]
<1>1. v \in Counted
  BY OrderAssumption DEF Counted
<1>2. /\ RequestsOf(v) \in Nat /\ ErrorsOf(v) \in Nat
      /\ CounterRow(i).total = RequestsOf(v)
      /\ FiveXX(CounterRow(i)).count = ErrorsOf(v)
  BY <1>1, RowsCount DEF CounterRow
<1> HIDE DEF v
<1>3. Rate(CounterRow(i)) = RateOf(ErrorsOf(v), RequestsOf(v))
  BY <1>2 DEF Rate, RateOf
<1>4. RateOf(ErrorsOf(v), RequestsOf(v)) \in Nat
  <2>1. CASE RequestsOf(v) = 0
    BY <2>1 DEF RateOf
  <2>2. CASE RequestsOf(v) > 0
    BY <1>2, <2>2, RateBounds
  <2>3. QED
    BY <1>2, <2>1, <2>2
<1>5. QED
  BY <1>1, <1>2, <1>3, <1>4 DEF v

\* No listed service is cut.
LEMMA AllListed ==
  ASSUME NoServiceIsCut, NEW i \in DOMAIN Order, Listed(Order[i])
  PROVE  i \in Kept
<1> DEFINE T == {j \in 1..i : Listed(Order[j])}
<1>1. i \in Nat /\ i <= MaxServices /\ MaxServices \in Nat
  BY OrderAssumption, RatesAssumption DEF NoServiceIsCut
<1>2. IsFiniteSet(1..i) /\ Cardinality(1..i) = i
  <2>1. 1 \in Int /\ i \in Int /\ i >= 1
    BY OrderAssumption
  <2>2. IsFiniteSet(1..i) /\ Cardinality(1..i) = IF 1 > i THEN 0 ELSE i - 1 + 1
    BY <2>1, FS_Interval
  <2>3. QED
    BY <2>1, <2>2
<1>3. T \subseteq 1..i
  OBVIOUS
<1> HIDE DEF T
<1>4. Cardinality(T) <= i /\ Cardinality(T) \in Nat
  BY <1>2, <1>3, FS_Subset, FS_CardinalityType
<1>5. Cardinality(T) <= MaxServices
  BY <1>1, <1>4
<1>6. QED
  BY <1>5 DEF Kept, T

\* The services above the threshold are listed, worst first.
LEMMA RatesOrder ==
  ASSUME ServedOK
  PROVE  LET n == Cardinality(Crossing) IN
         /\ n \in Nat /\ Flagged \in [1..n -> Crossing]
         /\ \A k, m \in 1..n : k < m => WorstFirst(Flagged[k], Flagged[m])
         /\ \A i \in Crossing : \E k \in 1..n : Flagged[k] = i
<1> DEFINE K == Crossing
           n == Cardinality(K)
           R == {e \in K \X K : WorstFirst(e[1], e[2])}
<1>1. /\ K \subseteq 1..Len(Order) /\ Len(Order) \in Nat
      /\ \A i \in K : i \in Nat /\ Rate(CounterRow(i)) \in Nat
  <2>1. DOMAIN Order = 1..Len(Order) /\ Len(Order) \in Nat
    BY OrderAssumption
  <2>2. K \subseteq DOMAIN Order
    BY DEF Crossing, Kept
  <2> HIDE DEF K
  <2>3. QED
    BY <2>1, <2>2, RowsRate
<1>2. IsFiniteSet(K) /\ n \in Nat
  <2>1. IsFiniteSet(1..Len(Order))
    BY <1>1, FS_Interval
  <2>2. QED
    BY <1>1, <2>1, FS_Subset, FS_CardinalityType
<1>3. \A i, j \in K : <<i, j>> \in R <=> WorstFirst(i, j)
  OBVIOUS
<1>4. Orders(R, K)
  <2> HIDE DEF K, R
  <2>1. \A i, j \in K : i = j \/ WorstFirst(i, j) \/ WorstFirst(j, i)
    BY <1>1 DEF WorstFirst, Same
  <2>2. \A i \in K : ~ WorstFirst(i, i)
    BY <1>1 DEF WorstFirst, Same
  <2>3. \A i, j, k \in K :
          WorstFirst(i, j) /\ WorstFirst(j, k) => WorstFirst(i, k)
    BY <1>1 DEF WorstFirst, Same
  <2>4. QED
    BY <1>3, <2>1, <2>2, <2>3 DEF Orders
<1> HIDE DEF R
<1>5. PICK p : Sorts(p, K, R)
  BY <1>2, <1>4, SortExists
<1>6. p \in [1..n -> K] /\ \A k, m \in 1..n : k < m => WorstFirst(p[k], p[m])
  BY <1>3, <1>5 DEF Sorts
<1>7. Flagged = CHOOSE q \in [1..n -> K] :
                        \A k, m \in 1..n : k < m => WorstFirst(q[k], q[m])
  BY Zenon DEF Flagged
<1>8. /\ Flagged \in [1..n -> K]
      /\ \A k, m \in 1..n : k < m => WorstFirst(Flagged[k], Flagged[m])
  BY <1>6, <1>7
<1>9. Sorts(Flagged, K, R)
  <2> HIDE DEF K
  <2>1. QED
    BY <1>3, <1>8 DEF Sorts
<1>10. \A i \in K : \E k \in 1..n : Flagged[k] = i
  BY <1>2, <1>4, <1>9, SortsAll
<1>11. QED
  BY <1>2, <1>8, <1>10

\* What is shown of the list.
LEMMA RatesShown ==
  ASSUME ServedOK
  PROVE  LET n == Cardinality(Crossing)
             m == IF MaxFlagged <= n THEN MaxFlagged ELSE n
         IN /\ DOMAIN Shown = 1..m
            /\ \A k \in 1..m : Shown[k] = Flagged[k]
<1> DEFINE n == Cardinality(Crossing)
           m == IF MaxFlagged <= n THEN MaxFlagged ELSE n
<1>1. n \in Nat /\ Flagged \in [1..n -> Crossing] /\ MaxFlagged \in Nat
  BY RatesOrder, RatesAssumption
<1> HIDE DEF n
<1>2. Flagged \in Seq(Crossing) /\ Len(Flagged) = n
  BY <1>1
<1>3. Min({MaxFlagged, Len(Flagged)}) = m
  BY <1>1, <1>2 DEF Min
<1>4. m \in Nat /\ m <= n
  BY <1>1
<1>5. Shown = SubSeq(Flagged, 1, m)
  BY <1>3 DEF Shown
<1> HIDE DEF m
<1>6. QED
  BY <1>2, <1>4, <1>5 DEF m, n

\* The report, from the order of its rows.
LEMMA RatesFollow ==
  ASSUME NoServiceIsCut, ServedOK
  PROVE  RatesAreExact
<1> DEFINE n == Cardinality(Crossing)
           m == IF MaxFlagged <= n THEN MaxFlagged ELSE n
           flagged == Flagged
           shown == Shown
<1>1. /\ n \in Nat /\ flagged \in [1..n -> Crossing]
      /\ \A k, j \in 1..n : k < j => WorstFirst(flagged[k], flagged[j])
      /\ \A i \in Crossing : \E k \in 1..n : flagged[k] = i
  BY RatesOrder
<1>2. DOMAIN shown = 1..m /\ \A k \in 1..m : shown[k] = flagged[k]
  BY RatesShown
<1>3. m \in Nat /\ m <= n
  BY <1>1, RatesAssumption
<1> HIDE DEF n, m, flagged, shown
<1>4. \A k \in 1..n : flagged[k] \in Crossing /\ flagged[k] \in DOMAIN Order
  BY <1>1 DEF Crossing, Kept
<1>5. DOMAIN flagged = 1..n
  BY <1>1
<1>6. ASSUME NEW v \in Faulty
      PROVE  \E k \in 1..n : Order[flagged[k]] = v
  <2>1. PICK i \in DOMAIN Order : Order[i] = v
    BY DEF Faulty, Counted, ToSet
  <2>2. /\ RequestsOf(v) > 0 /\ RequestsOf(v) >= MinRequests
        /\ 100 * ErrorsOf(v) >= Percent * RequestsOf(v)
    BY DEF Faulty
  <2>3. /\ RequestsOf(v) \in Nat /\ ErrorsOf(v) \in Nat
        /\ CounterRow(i).total = RequestsOf(v)
        /\ Rate(CounterRow(i)) = RateOf(ErrorsOf(v), RequestsOf(v))
    BY <2>1, RowsRate
  <2>4. Rate(CounterRow(i)) >= 100 * Percent
    BY <2>2, <2>3, RateReached, RatesAssumption
  <2>5. i \in Kept
    BY <2>1, <2>2, AllListed DEF Listed
  <2>6. i \in Crossing
    BY <2>2, <2>3, <2>4, <2>5 DEF Crossing, Crosses
  <2>7. QED
    BY <1>1, <2>1, <2>6
<1>7. Faulty \subseteq ServicesOf(flagged)
  BY <1>5, <1>6 DEF ServicesOf
<1>8. ASSUME NEW v \in ServicesOf(flagged)
      PROVE  /\ RequestsOf(v) >= MinRequests
             /\ 20000 * ErrorsOf(v) >= (200 * Percent - 1) * RequestsOf(v)
  <2>1. PICK k \in 1..n : v = Order[flagged[k]]
    BY <1>5 DEF ServicesOf
  <2> DEFINE i == flagged[k]
  <2>2. i \in Crossing /\ i \in DOMAIN Order
    BY <1>4
  <2> HIDE DEF i
  <2>3. /\ RequestsOf(v) \in Nat /\ ErrorsOf(v) \in Nat
        /\ CounterRow(i).total = RequestsOf(v)
        /\ Rate(CounterRow(i)) = RateOf(ErrorsOf(v), RequestsOf(v))
    BY <2>1, <2>2, RowsRate DEF i
  <2>4. RequestsOf(v) >= MinRequests /\ RateOf(ErrorsOf(v), RequestsOf(v)) >= 100 * Percent
    BY <2>2, <2>3 DEF Crossing, Crosses
  <2>5. QED
    BY <2>3, <2>4, RateAbove, RatesAssumption
<1>9. ASSUME NEW v \in Faulty \ ServicesOf(shown), NEW w \in ServicesOf(shown)
      PROVE  10000 * ErrorsOf(v) * RequestsOf(w)
               <= (10000 * ErrorsOf(w) + RequestsOf(w)) * RequestsOf(v)
  <2>1. PICK k \in 1..n : Order[flagged[k]] = v
    BY <1>6
  <2>2. PICK j \in 1..m : w = Order[shown[j]]
    BY <1>2 DEF ServicesOf
  <2>3. k \notin 1..m
    BY <1>2, <2>1 DEF ServicesOf
  <2>4. j \in 1..n /\ j < k /\ shown[j] = flagged[j]
    BY <1>1, <1>2, <1>3, <2>3
  <2> DEFINE a == flagged[j]
             b == flagged[k]
  <2>5. WorstFirst(a, b) /\ a \in DOMAIN Order /\ b \in DOMAIN Order
    BY <1>1, <1>4, <2>4
  <2>6. v = Order[b] /\ w = Order[a]
    BY <2>1, <2>2, <2>4
  <2> HIDE DEF a, b
  <2>7. /\ RequestsOf(v) \in Nat /\ ErrorsOf(v) \in Nat
        /\ Rate(CounterRow(b)) = RateOf(ErrorsOf(v), RequestsOf(v))
        /\ RequestsOf(w) \in Nat /\ ErrorsOf(w) \in Nat
        /\ Rate(CounterRow(a)) = RateOf(ErrorsOf(w), RequestsOf(w))
        /\ Rate(CounterRow(a)) \in Nat /\ Rate(CounterRow(b)) \in Nat
    BY <2>5, <2>6, RowsRate
  <2>8. Rate(CounterRow(b)) <= Rate(CounterRow(a))
    BY <2>5, <2>7 DEF WorstFirst, Same
  <2>9. RequestsOf(v) > 0
    BY DEF Faulty
  <2>10. RateOf(ErrorsOf(v), RequestsOf(v)) <= RateOf(ErrorsOf(w), RequestsOf(w))
    BY <2>7, <2>8
  <2>11. QED
    BY <2>7, <2>9, <2>10, RatesCompare
<1>10. ASSUME NEW k \in DOMAIN shown, FiveXX(CounterRow(shown[k])).dominant # NoCode,
              NEW c \in Codes \cap ServerErrors
       PROVE  served[Order[shown[k]]][c]
                <= served[Order[shown[k]]][FiveXX(CounterRow(shown[k])).dominant]
  <2>1. shown[k] \in DOMAIN Order
    BY <1>1, <1>2, <1>3, <1>4
  <2>2. Order[shown[k]] \in Counted
    BY <2>1, RowsRate
  <2>3. c \in FiveCodes
    BY DEF FiveCodes
  <2>4. QED
    BY <1>10, <2>2, <2>3, BlamesTheMost DEF CounterRow
<1>11. QED
  BY <1>7, <1>8, <1>9, <1>10 DEF RatesAreExact, flagged, shown

\* The services whose share of 5xx reaches the threshold are flagged, worst first,
\* and the blamed code is the most frequent one (error_rate_rca, analysis.py:275),
\* for either platform and any requests, where error_counters cuts no service
\* (traffic.py:115).
THEOREM RatesAreExactHolds ==
  ASSUME NoServiceIsCut
  PROVE  TrafficSpec => []RatesAreExact
BY ServedAlways, RatesFollow, PTL
=============================================================================
