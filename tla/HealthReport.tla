---------------------------- MODULE HealthReport ----------------------------
(***************************************************************************)
(* What the availability analyses say of the servers of a proxy:           *)
(* backend_health_rca over the rows of list_upstreams, and the dead routes *)
(* of route_conflict_analysis over the rows of list_routes and             *)
(* list_services.                                                          *)
(*                                                                         *)
(* The second one asks the proxy two or three times, and services are      *)
(* deployed, retired and fail in between.                                  *)
(*                                                                         *)
(* Bounds: a service has as many servers as Sizes allows, and Batches of   *)
(* them change their status at once.  Abstractions: the servers of a       *)
(* service are counted by status, drain is maint; a service has one route  *)
(* of its own, and Ghost is a route whose service was never created.       *)
(***************************************************************************)
EXTENDS Integers, SequencesExt

CONSTANTS
  Services, Ghost,
  Platform,  \* of the target
  Statuses,  \* what the proxy says of a server, besides up and down
  Sizes, Batches,
  MaxRows,     \* MAX_ROWS of services.py: as many services are listed, and as many servers
  MaxFindings  \* MAX_ROWS of analysis.py

ASSUME ServicesAssumption == Ghost \notin Services
ASSUME PlatformAssumption == Platform \in {"traefik", "caddy", "haproxy"}
ASSUME StatusAssumption == Statuses \subseteq {"maint", "unknown"}
ASSUME SizesAssumption == /\ Sizes \subseteq Nat /\ Batches \subseteq Nat \ {0}
                          /\ MaxRows \in Nat /\ MaxFindings \in Nat

VARIABLES
  fleet,     \* fleet[v][st]: the servers of service v with status st
  deployed,  \* the services of the proxy, each with its route
  pull,      \* the live pull of route_conflict_analysis
  touched,   \* history: the services that changed since the pull began
  retired    \* history: those that were retired
vars == <<fleet, deployed, pull, touched, retired>>

AllStatuses == {"up", "down", "maint", "unknown"}
Counts == [AllStatuses -> Nat]
None == [st \in AllStatuses |-> 0]
Total(c) == c["up"] + c["down"] + c["maint"] + c["unknown"]

\* The requests of the pull, and what each one answers.
RoutesLast == <<{"names"}, {"total", "up"}, {"routes"}>>  \* mutant: services come first
Requests ==
  CASE Platform = "traefik" -> <<{"routes"}, {"names", "total", "up"}>>
    [] Platform = "haproxy" -> <<{"routes"}, {"names"}, {"total", "up"}>>
    [] Platform = "caddy"   -> <<{"routes"}, {"up"}, {"names", "total"}>>

Zero == [v \in Services |-> 0]
Idle == [running |-> FALSE, listed |-> TRUE, todo |-> <<>>, routes |-> {}, names |-> {},
         total |-> Zero, up |-> Zero]

TypeOK ==
  /\ fleet \in [Services -> Counts]
  /\ deployed \subseteq Services /\ touched \subseteq Services /\ retired \subseteq touched
  /\ \A v \in Services \ deployed : fleet[v] = None
  /\ pull.routes \subseteq Services \cup {Ghost} /\ pull.names \subseteq Services
  /\ \A v \in Services : pull.up[v] >= 0 /\ pull.total[v] >= 0
  /\ pull.todo # <<>> => pull.running

Init ==
  /\ fleet = [v \in Services |-> None]
  /\ deployed = {}
  /\ pull = Idle
  /\ touched = {} /\ retired = {}
----------------------------------------------------------------------------
(* The proxy.                                                              *)

Deploy(v, n, st) ==
  /\ v \notin deployed
  /\ deployed' = deployed \cup {v}
  /\ fleet' = [fleet EXCEPT ![v][st] = n]
  /\ touched' = touched \cup {v}
  /\ UNCHANGED <<pull, retired>>

Retire(v) ==
  /\ v \in deployed
  /\ deployed' = deployed \ {v}
  /\ fleet' = [fleet EXCEPT ![v] = None]
  /\ touched' = touched \cup {v} /\ retired' = retired \cup {v}
  /\ UNCHANGED pull

\* Health checks fail or pass again, an operator drains and returns servers.
Change(v, from, to, n) ==
  /\ from # to /\ fleet[v][from] >= n
  /\ fleet' = [fleet EXCEPT ![v][from] = @ - n, ![v][to] = @ + n]
  /\ touched' = touched \cup {v}
  /\ UNCHANGED <<deployed, pull, retired>>
----------------------------------------------------------------------------
(* backend_health_rca.                                                     *)

\* The servers that list_upstreams shows of each service: all, or as many as fit.  A
\* proxy lists them service after service, in any order: some services are whole, one
\* is cut and the rest is left out.
Servers(S) == MapThenSumSet(LAMBDA v : Total(fleet[v]), S)
Some(v, n) ==
  {c \in [AllStatuses -> 0..Total(fleet[v])] :
     Total(c) = n /\ \A st \in AllStatuses : c[st] <= fleet[v][st]}
CutAt(whole, v) == /\ v \notin whole /\ Servers(whole) <= MaxRows
                   /\ Servers(whole) + Total(fleet[v]) > MaxRows
CutViews ==
  UNION {UNION {{[w \in Services |-> IF w \in whole THEN fleet[w] ELSE IF w = v THEN c ELSE None] :
                   c \in Some(v, MaxRows - Servers(whole))} :
                v \in {x \in deployed : CutAt(whole, x)}} :
         whole \in SUBSET deployed}
Views == IF Servers(deployed) <= MaxRows THEN {fleet} ELSE CutViews

\* A row names its service, except on Caddy, whose rows have none.
Unnamed == "(default)"
GroupOf(v) == IF Platform = "caddy" THEN Unnamed ELSE v
BucketOf(view, g) ==
  [st \in AllStatuses |->
     MapThenSumSet(LAMBDA v : view[v][st], {v \in deployed : GroupOf(v) = g})]
Groups(view) == {g \in {GroupOf(v) : v \in deployed} : Total(BucketOf(view, g)) > 0}

AllDown(c) == c["down"] + c["maint"] >= Total(c)

Classify(c) ==
  IF AllDown(c) THEN IF c["maint"] = Total(c) THEN "maintenance" ELSE "outage"
  ELSE IF c["down"] > 0 THEN "degraded"
  ELSE IF c["maint"] > 0 THEN "draining" ELSE "healthy"

IsOutage(c) == c["up"] = 0  \* as counted in "outages"

\* The findings are ranked, and those on the page have the highest scores.
ByCount(c) == c["down"] * 10 + c["maint"]  \* mutant: a service with none left is like any other
Score(c) == (IF AllDown(c) THEN 1000 ELSE 0) + c["down"] * 10 + c["maint"]
Pages(view) ==
  {page \in kSubset(Min({MaxFindings, Cardinality(Groups(view))}), Groups(view)) :
     \A g \in page, h \in Groups(view) \ page :
       Score(BucketOf(view, g)) >= Score(BucketOf(view, h))}
----------------------------------------------------------------------------
(* route_conflict_analysis: the pull and the dead routes.                  *)

StartAgain ==  \* mutant: pulls without marking it
  ~pull.running /\ pull' = [Idle EXCEPT !.todo = Requests]
  /\ UNCHANGED <<fleet, deployed, touched, retired>>
Start ==
  /\ ~pull.running
  /\ pull' = [Idle EXCEPT !.running = TRUE, !.todo = Requests]
  /\ touched' = {} /\ retired' = {}
  /\ UNCHANGED <<fleet, deployed>>

\* The list of services is cut, whatever order the proxy answers in.
Listings == kSubset(Min({MaxRows, Cardinality(deployed)}), deployed)

Pull ==
  /\ pull.todo # <<>>
  /\ \E listing \in Listings :
     LET Asked(x) == x \in Head(pull.todo)
     IN pull' = [pull EXCEPT
          !.todo = Tail(@),
          !.routes = IF Asked("routes") THEN deployed \cup {Ghost} ELSE @,
          !.names = IF Asked("names") THEN listing ELSE @,
          !.total = IF Asked("total") THEN [v \in Services |-> Total(fleet[v])] ELSE @,
          !.up = IF Asked("up") THEN [v \in Services |-> fleet[v]["up"]] ELSE @]
  /\ UNCHANGED <<fleet, deployed, touched, retired>>

\* A request fails: the tool returns the error of list_routes, and leaves out the
\* dead routes if it is one of list_services.
PullFails ==
  /\ pull.todo # <<>>
  /\ pull' = IF Head(pull.todo) = {"routes"} THEN Idle
             ELSE [pull EXCEPT !.todo = <<>>, !.listed = FALSE]
  /\ UNCHANGED <<fleet, deployed, touched, retired>>

Reported == pull.running /\ pull.todo = <<>>
Finish == Reported /\ pull' = Idle /\ UNCHANGED <<fleet, deployed, touched, retired>>

\* The service a row of list_routes names: on Caddy the addresses it dials.
ServiceOf(r) == IF Platform = "caddy" THEN <<"dials", r>> ELSE r
Missing == {r \in pull.routes : pull.listed /\ ServiceOf(r) \notin pull.names}
ZeroUp(v) == pull.total[v] # 0 /\ pull.up[v] = 0
Dead == Missing \cup {r \in pull.routes \ Missing : pull.listed /\ ZeroUp(ServiceOf(r))}
----------------------------------------------------------------------------
Next ==
  \/ \E v \in Services, n \in Sizes, st \in {"up"} \cup (Statuses \cap {"unknown"}) :
       Deploy(v, n, st)
  \/ \E v \in Services : Retire(v)
  \/ \E v \in Services, from, to \in {"up", "down"} \cup (Statuses \ {"unknown"}),
        n \in Batches : Change(v, from, to, n)
  \/ Start \/ Pull \/ PullFails \/ Finish

Spec == Init /\ [][Next]_vars
----------------------------------------------------------------------------
(* Properties.                                                             *)

HasNoServer(c) == Total(c) > 0 /\ c["up"] = 0 /\ c["unknown"] = 0

\* Reported as an outage, or as all in maintenance.
Gone(c) == Classify(c) \in {"outage", "maintenance"}

\* However the rows of servers are cut: of the services that are listed whole, those
\* without a server to take requests are found to be so, and no other; each is on the
\* page of findings, under its name, unless others like it fill the page; and the
\* number of outages in the summary, which is computed apart, is that of these findings
\* (analysis.py:57, 127 and 139; mcp_server/tools/analysis.py:21: "classifies each
\* outage/degradation").
EveryOutageIsReported ==
  \A view \in Views :
    /\ \A v \in deployed :
         view[v] = fleet[v] /\ Total(fleet[v]) > 0 =>
           /\ HasNoServer(fleet[v]) <=> Gone(BucketOf(view, GroupOf(v)))
           /\ HasNoServer(fleet[v]) =>
                \A page \in Pages(view) :
                  \/ GroupOf(v) \in page
                  \/ /\ Cardinality(page) = MaxFindings
                     /\ \A g \in page : Gone(BucketOf(view, g))
    /\ \A g \in Groups(view) : IsOutage(BucketOf(view, g)) <=> Gone(BucketOf(view, g))

\* A service without a server is on the page, whatever the number of servers.
NoOutageIsMissed ==
  \A view \in Views : \A v \in deployed, page \in Pages(view) :
    HasNoServer(fleet[v]) => GroupOf(v) \in page

\* A full outage is ranked before a service that is degraded (analysis.py:94: "Ranks
\* worst-first (full outage, then degraded)").
OutagesComeFirst ==
  \A view \in Views : \A g, h \in Groups(view) :
    Gone(BucketOf(view, g)) /\ ~Gone(BucketOf(view, h)) =>
      Score(BucketOf(view, g)) > Score(BucketOf(view, h))

\* A service that is called healthy has all servers up (analysis.py:86).
HealthyMeansUp ==
  \A view \in Views : \A g \in Groups(view) :
    Classify(BucketOf(view, g)) = "healthy" =>
      BucketOf(view, g)["up"] = Total(BucketOf(view, g))

\* Whatever is deployed, retired or fails while the pull runs, a route is said to
\* point at no service only if it never had one or lost it meanwhile; and of the
\* services that stayed as they are, the dead ones are those whose servers are
\* all gone (analysis.py:388).
DeadIsExact ==
  Reported =>
    /\ Missing \subseteq {Ghost} \cup retired
    /\ pull.listed =>
         /\ Ghost \in Dead
         /\ \A v \in deployed \ touched : v \in Dead <=> HasNoServer(fleet[v])
=============================================================================
