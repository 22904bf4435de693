--------------------------- MODULE RouteConflicts ---------------------------
(***************************************************************************)
(* route_conflict_analysis (ops/analysis.py): which routes of a proxy are  *)
(* shadowed, and which redirects loop, against what the proxy does with    *)
(* requests.                                                               *)
(*                                                                         *)
(* The table is the answer of list_routes; it grows by one row at a time,   *)
(* so that TLC visits every table.                                         *)
(* A row has what the analysis reads (hosts, paths, priority, enabled and  *)
(* the redirect target), and what the proxy goes by besides: the entry     *)
(* points of the route and whether a path matches as a prefix.  A host of  *)
(* a row is a name or a wildcard, which the analysis reads as a name.      *)
(*                                                                         *)
(* Bounds: MaxRoutes routes, Patience redirects.  Abstractions: a text of  *)
(* a path is the sequence of its characters after the first /; the name of *)
(* a route is its place in the table, as the proxies' names are unique; a  *)
(* part of a redirect that is left out, as the host of "/a" is, or is a    *)
(* placeholder for the request's own, is AsSent.                             *)
(***************************************************************************)
EXTENDS Naturals, SequencesExt

CONSTANTS
  Hosts, Texts,  \* of requests and redirects
  Patterns,      \* what a route names as a host: a host or a wildcard
  MatchedBy,     \* the hosts that a pattern matches at the proxy
  Schemes,       \* the entry points: http and https
  AsSent,        \* the part of a redirect that is the request's own
  Rows,          \* the routes that can be in a table
  NoRedirect,    \* redirectTo of a route that does not redirect
  NoRoute,
  MaxHops,       \* _MAX_REDIRECT_HOPS
  MaxRoutes,
  Patience       \* redirects that a client follows before it gives up

Request == [scheme : Schemes, host : Hosts, text : Texts]
Location == [scheme : Schemes \cup {AsSent}, host : Hosts \cup {AsSent},
             text : Texts \cup {AsSent}]
Row == [hosts : SUBSET Patterns, paths : SUBSET [text : Texts, exact : BOOLEAN],
        priority : Nat, enabled : BOOLEAN, on : SUBSET Schemes,
        to : Location \cup {NoRedirect}]

ASSUME RowsAssumption == Rows \subseteq Row
ASSUME PatternsAssumption ==
  /\ Hosts # {} /\ Hosts \subseteq Patterns
  /\ MatchedBy \in [Patterns -> (SUBSET Hosts) \ {{}}]
  /\ \A h \in Hosts : MatchedBy[h] = {h}
ASSUME NoneAssumption ==
  /\ NoRedirect \notin Location /\ NoRoute \notin Nat
  /\ AsSent \notin Schemes /\ AsSent \notin Patterns /\ AsSent \notin Texts
ASSUME BoundsAssumption ==
  MaxHops \in Nat /\ MaxRoutes \in Nat /\ Patience \in Nat /\ Patience > MaxRoutes

VARIABLE table  \* a sequence of rows, in the order of the proxy's answer

Empty == table = <<>>
AddRow(row) == Len(table) < MaxRoutes /\ table' = Append(table, row)
Grow == \E row \in Rows : AddRow(row)
Tables == Empty /\ [][Grow]_table
----------------------------------------------------------------------------
(* The order in which routes are tried: priority, then place.              *)

Enabled == {i \in DOMAIN table : table[i].enabled}
Earlier(i, j) == \/ table[i].priority > table[j].priority
                 \/ table[i].priority = table[j].priority /\ i < j
Foremost(S) ==
  IF S = {} THEN NoRoute ELSE CHOOSE i \in S : \A j \in S \ {i} : Earlier(i, j)
----------------------------------------------------------------------------
(* The analysis.                                                           *)

AnyHost(earlier, later) == earlier = {} \/ later \subseteq earlier  \* mutant: no bool(later)
HostCovers(earlier, later) == earlier = {} \/ (later # {} /\ later \subseteq earlier)
PathCovers(earlier, later) ==
  \/ earlier = {}
  \/ later # {} /\ \A q \in later : \E p \in earlier : IsPrefix(p.text, q.text)
Covers(i, j) == /\ HostCovers(table[i].hosts, table[j].hosts)
                /\ PathCovers(table[i].paths, table[j].paths)
CatchAll(i) == table[i].hosts = {} /\ table[i].paths = {}

Shadowing(j) ==
  Foremost({i \in Enabled : Earlier(i, j) /\ ~CatchAll(i) /\ Covers(i, j)})
Shadowed == {j \in Enabled : Shadowing(j) # NoRoute}

Redirects(i) == table[i].to # NoRedirect
\* A target is split into a host and a path.  The host that it leaves to the request
\* is the empty one or the placeholder, which no route names; a placeholder for the
\* path is read as a part of the host.
SplitUrl(to) == IF to.text = AsSent THEN [host |-> AsSent, text |-> <<>>]
                ELSE [host |-> to.host, text |-> to.text]
MatchRedirect(to) ==
  LET target == SplitUrl(to)
  IN Foremost({i \in Enabled :
       /\ table[i].hosts = {} \/ target.host \in table[i].hosts
       /\ table[i].paths = {} \/ \E p \in table[i].paths : IsPrefix(p.text, target.text)})

BackToStart(hops, i) == i = Head(hops)  \* mutant: cycles the start is not on
Visited(hops, i) == Contains(hops, i)

\* The loop over the hops of one redirector.
Walk(start) ==
  LET f[n \in 0..MaxHops] ==
        IF n = 0 THEN [hops |-> <<start>>, outcome |-> "going"]
        ELSE LET w == f[n - 1]
                 nxt == MatchRedirect(table[Last(w.hops)].to)
             IN CASE w.outcome # "going" -> w
                  [] w.outcome = "going" /\ nxt = NoRoute -> [w EXCEPT !.outcome = "ends"]
                  [] OTHER -> IF ~Redirects(nxt) THEN [w EXCEPT !.outcome = "ends"]
                              ELSE [hops |-> Append(w.hops, nxt),
                                    outcome |-> IF Visited(w.hops, nxt) THEN "loop"
                                                ELSE "going"]
  IN f[MaxHops]
RedirectLoops == {i \in Enabled : Redirects(i) /\ Walk(i).outcome = "loop"}
----------------------------------------------------------------------------
(* The proxy and its client.                                               *)

Takes(i, q) ==
  /\ q.scheme \in table[i].on
  /\ table[i].hosts = {} \/ \E w \in table[i].hosts : q.host \in MatchedBy[w]
  /\ \/ table[i].paths = {}
     \/ \E p \in table[i].paths :
          IF p.exact THEN p.text = q.text ELSE IsPrefix(p.text, q.text)
Served(q) == Foremost({i \in Enabled : Takes(i, q)})

\* The request a client sends next, when q is redirected.
NextRequest(q, to) ==
  [field \in DOMAIN q |-> IF to[field] = AsSent THEN q[field] ELSE to[field]]

\* The route after n redirects of request q, which route i took.
Redirected(i, q, n) ==
  LET f[k \in 0..n] ==
        IF k = 0 THEN [route |-> i, request |-> q]
        ELSE LET last == f[k - 1]
                 sent == NextRequest(last.request, table[last.route].to)
             IN IF last.route # NoRoute /\ Redirects(last.route)
                THEN [route |-> Served(sent), request |-> sent]
                ELSE [last EXCEPT !.route = NoRoute]
  IN f[n].route
----------------------------------------------------------------------------
(* Properties.                                                             *)

\* A route that is reported as shadowed gets no request (analysis.py:387: "it
\* can never match").
ShadowedNeverMatch == \A j \in Shadowed, q \in Request : Served(q) # j

\* Route i, before j and no catch-all, takes every request that j takes; a prefix /
\* counts as a path like any other, although it takes them all (analysis.py:386).
Precludes(i, j) ==
  /\ Earlier(i, j) /\ ~CatchAll(i)
  /\ table[j].paths = {} => table[i].paths = {}
  /\ \A q \in Request : Takes(j, q) => Takes(i, q)

\* A route is reported as shadowed only if one route precludes it, and it is reported
\* if a route without wildcards does.
ShadowedIsExact ==
  \A j \in Enabled :
    /\ j \in Shadowed => \E i \in Enabled : Precludes(i, j)
    /\ (\E i \in Enabled : Precludes(i, j) /\ table[i].hosts \subseteq Hosts) => j \in Shadowed

\* The same of wildcards (analysis.py:386: "fully covered by an earlier").
PrecludedIsShadowed ==
  \A j \in Enabled : (\E i \in Enabled : Precludes(i, j)) => j \in Shadowed

\* The redirects that lead on until the client gives up.
Endless == {i \in Enabled :
  \E q \in Request : Takes(i, q) /\ Redirected(i, q, Patience) # NoRoute}

\* Every redirect names its whole target, and only routes that name its host take it.
TargetsAreNamed ==
  \A i \in Enabled : Redirects(i) =>
    /\ table[i].to \in Request
    /\ \A k \in Enabled : \A w \in table[k].hosts :
         table[i].to.host \in MatchedBy[w] => w = table[i].to.host

\* Then those are the ones reported, whether or not they come back to the route they
\* start at, and whatever other routes take their targets first (analysis.py:449).
LoopsAreExact == TargetsAreNamed => RedirectLoops = Endless

\* A redirect that is reported never reaches a service
\* (mcp_server/tools/analysis.py:144: "redirect chains that loop").
LoopsNeverEnd == RedirectLoops \subseteq Endless

\* Every redirect that leads on without end is reported.
EndlessIsLoop == Endless \subseteq RedirectLoops
=============================================================================
