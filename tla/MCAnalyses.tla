----------------------------- MODULE MCAnalyses -----------------------------
(* The analyses of a target.  A behaviour is about one of them.  The tables *)
(* have up to three routes; the last host and the last text are in no route: *)
(* requests have more hosts and paths than routes name.  A wildcard matches *)
(* all hosts but the first.                                                 *)
EXTENDS RouteConflicts, ErrorRates, CertSweep, HealthReport

A == <<"a">>
AB == <<"a", "b">>
B == <<"b">>
SomeTexts == {<<>>, A, AB, B}
SomeHosts == {"one", "two", "other"}
RouteHosts == {"one", "two"}
SomePatterns == SomeHosts \cup {"wildcard"}
Matching == [w \in SomePatterns |-> IF w = "wildcard" THEN SomeHosts \ {"one"} ELSE {w}]
Https == {"https"}
BothSchemes == {"http", "https"}

Prefix(t) == [text |-> t, exact |-> FALSE]
Exact(t) == [text |-> t, exact |-> TRUE]
To(scheme, host, t) == [scheme |-> scheme, host |-> host, text |-> t]

Plain == [hosts |-> {"one"}, paths |-> {}, priority |-> 0, enabled |-> TRUE,
          on |-> Https, to |-> NoRedirect]

\* Redirects that keep the host, or all but the scheme, of the request.
Keeping == {To(AsSent, AsSent, A), To("https", AsSent, AsSent)}

\* Services and redirects behind hosts and prefixes, some preferred, one disabled.
MixedRows ==
  {[Plain EXCEPT !.hosts = h, !.paths = p] :
     h \in {{}, {"one"}, RouteHosts, {"wildcard"}},
     p \in {{}, {Prefix(<<>>)}, {Prefix(A)}, {Prefix(AB)}, {Prefix(A), Prefix(B)}}}
  \cup {[Plain EXCEPT !.hosts = h, !.paths = p, !.priority = 1] :
          h \in {{}, {"one"}, {"wildcard"}}, p \in {{}, {Prefix(A)}}}
  \cup {[Plain EXCEPT !.hosts = h, !.paths = p, !.to = t] :
          h \in {{}, {"one"}, {"two"}}, p \in {{}, {Prefix(A)}},
          t \in {To("https", "one", <<>>), To("https", "two", AB), To("https", "other", A)}}
  \cup {[Plain EXCEPT !.hosts = h, !.to = t] : h \in {{"one"}, {"wildcard"}}, t \in Keeping}
  \cup {[Plain EXCEPT !.enabled = FALSE]}

\* One host, paths that match exactly or as prefixes.
ExactRows == {[Plain EXCEPT !.paths = {p}] : p \in {Prefix(A), Exact(A), Prefix(AB), Exact(AB)}}

\* From http to https, as usual, next to paths that match exactly.
UpgradeRows ==
  ExactRows \cup
  {Plain, [Plain EXCEPT !.on = {"http"}, !.to = To("https", "one", <<>>)]}

\* Hosts named and behind a wildcard, and redirects that keep a part of the request.
KeepingRows ==
  {[Plain EXCEPT !.hosts = h, !.to = t] :
     h \in {{}, {"two"}, {"wildcard"}}, t \in Keeping \cup {NoRedirect}}

CutRows == UpgradeRows \cup KeepingRows

ShopFirst == <<"shop", "blog">>
ShopAndBlog == {"shop", "blog"}
SomeCodes == {"200", "502", "503"}
OneOrTwo == {1, 2}

\* The first domain is a wildcard, and probed at its base.
TwoDomains == <<"any.shop", "blog">>
TwoHosts == {"shop", "blog"}
BaseOf == [d \in {"any.shop", "blog"} |-> IF d = "blog" THEN "blog" ELSE "shop"]
TwoAgo == -2

\* Servers that are checked fail, recover and are drained one at a time.
Checked == {"maint"}
FewServers == 0..2
OneByOne == {1}

VARIABLE tool  \* the analysis of this behaviour
all == <<tool, table, traffic, sweepVars, vars>>

AnalysesInit ==
  /\ tool \in {"routes", "rates", "certificates", "health"}
  /\ Empty /\ TrafficInit /\ SweepInit /\ Init
  /\ tool # "rates" => platform = "traefik"  \* it matters to the rates only

AnalysesNext ==
  \/ tool = "routes" /\ Grow /\ UNCHANGED <<tool, traffic, sweepVars, vars>>
  \/ tool = "rates" /\ TrafficNext /\ UNCHANGED <<tool, table, sweepVars, vars>>
  \/ tool = "certificates" /\ SweepNext /\ UNCHANGED <<tool, table, traffic, vars>>
  \/ tool = "health" /\ Next /\ UNCHANGED <<tool, table, traffic, sweepVars>>

AnalysesSpec == AnalysesInit /\ [][AnalysesNext]_all
=============================================================================
