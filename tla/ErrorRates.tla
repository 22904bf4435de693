----------------------------- MODULE ErrorRates -----------------------------
(***************************************************************************)
(* error_rate_rca (ops/analysis.py) over the counters that error_counters  *)
(* (ops/traffic.py) pulls, against the requests the proxy served.          *)
(*                                                                         *)
(* Bound: MaxTotal requests of one service, served in Loads.               *)
(* Abstractions: a pull is one request of the tool, and sees one state; a  *)
(* rate is a number of hundredths of a percent; causes, actions, severity  *)
(* and the fleet baseline are left out.                                    *)
(***************************************************************************)
EXTENDS Integers, SequencesExt

CONSTANTS
  Order,        \* the services, in the order of the proxy's answer
  Codes,        \* the status codes of responses
  MaxServices,  \* MAX_SERVICES of traffic.py
  MaxFlagged,   \* MAX_ROWS of analysis.py
  MinRequests, Percent,  \* the thresholds
  Loads, MaxTotal

ASSUME OrderAssumption == Order \in Seq(ToSet(Order))
ASSUME CodesAssumption == IsFiniteSet(Codes)
ASSUME RatesAssumption ==
  /\ MaxServices \in Nat /\ MaxFlagged \in Nat /\ Loads \subseteq Nat
  /\ MinRequests \in Int /\ Percent \in Nat

ServerErrors == {"500", "502", "503", "504"}  \* the codes that start with 5
NoCode == "none"

VARIABLES
  platform,  \* of the target; constant
  served     \* served[v][c]: the requests of service v answered with code c
traffic == <<platform, served>>

Counted == ToSet(Order)
Of(v, codes) == MapThenSumSet(LAMBDA c : served[v][c], codes)
RequestsOf(v) == Of(v, Codes)
ErrorsOf(v) == Of(v, Codes \cap ServerErrors)
----------------------------------------------------------------------------
(* The proxy.                                                              *)

TrafficInit ==
  /\ platform \in {"traefik", "haproxy"}
  /\ served = [v \in Counted |-> [c \in Codes |-> 0]]

Serve(v, c, n) ==
  /\ RequestsOf(v) + n <= MaxTotal
  /\ served' = [served EXCEPT ![v][c] = @ + n]
  /\ UNCHANGED platform

\* A restart of the proxy; its counters start again.
Restart ==
  /\ served' = [v \in Counted |-> [c \in Codes |-> 0]]
  /\ UNCHANGED platform

TrafficNext ==
  \/ \E v \in Counted, c \in Codes, n \in Loads : Serve(v, c, n)
  \/ Restart

TrafficSpec == TrafficInit /\ [][TrafficNext]_traffic
----------------------------------------------------------------------------
(* The counters.                                                           *)

\* Traefik has a sample for each code it answered with, HAProxy classes only.
Counter(v) ==
  IF platform = "traefik"
  THEN [service |-> v, total |-> RequestsOf(v), classes |-> 0,
        codes |-> [c \in {c \in Codes : served[v][c] > 0} |-> served[v][c]]]
  ELSE [service |-> v, total |-> RequestsOf(v), classes |-> ErrorsOf(v), codes |-> <<>>]

\* Traefik has no sample of a service without requests.
Listed(v) == platform = "haproxy" \/ RequestsOf(v) > 0

\* The rows of the answer, by the place of their service; the list is cut.
CounterRow(i) == Counter(Order[i])
Kept == {i \in DOMAIN Order :
           Listed(Order[i]) /\ Cardinality({j \in 1..i : Listed(Order[j])}) <= MaxServices}
----------------------------------------------------------------------------
(* The analysis.                                                           *)

FiveXX(row) ==
  LET five == DOMAIN row.codes \cap ServerErrors
  IN IF five = {} THEN [count |-> row.classes, dominant |-> NoCode]
     ELSE [count |-> MapThenSumSet(LAMBDA c : row.codes[c], five),
           dominant |-> CHOOSE c \in five : \A d \in five : row.codes[c] >= row.codes[d]]

\* round(five / total * 100, 2)
Rate(row) ==
  IF row.total = 0 THEN 0
  ELSE (20000 * FiveXX(row).count + row.total) \div (2 * row.total)

Crosses(row) == row.total >= MinRequests /\ Rate(row) >= 100 * Percent

Same(i, j) == Rate(CounterRow(i)) = Rate(CounterRow(j)) /\ i < j  \* the sort is stable
\* mutant: the sort is not reversed
MildestFirst(i, j) == Rate(CounterRow(i)) < Rate(CounterRow(j)) \/ Same(i, j)
WorstFirst(i, j) == Rate(CounterRow(i)) > Rate(CounterRow(j)) \/ Same(i, j)

Crossing == {i \in Kept : Crosses(CounterRow(i))}
Flagged ==
  LET ranks == 1..Cardinality(Crossing)
  IN CHOOSE p \in [ranks -> Crossing] : \A k, m \in ranks : k < m => WorstFirst(p[k], p[m])
Shown == SubSeq(Flagged, 1, Min({MaxFlagged, Len(Flagged)}))
----------------------------------------------------------------------------
(* Properties.                                                             *)

Faulty == {v \in Counted : /\ RequestsOf(v) > 0 /\ RequestsOf(v) >= MinRequests
                            /\ 100 * ErrorsOf(v) >= Percent * RequestsOf(v)}
ServicesOf(places) == {Order[places[k]] : k \in DOMAIN places}

\* Whatever the platform counts, the report has every service whose share of 5xx
\* reaches the threshold, none that is more than a rounding below it, leaves out
\* none that is worse by more than a rounding than one it shows, and blames a code
\* that no other one exceeds (analysis.py:275).
RatesAreExact ==
  /\ Faulty \subseteq ServicesOf(Flagged)
  /\ \A v \in ServicesOf(Flagged) :
       /\ RequestsOf(v) >= MinRequests
       /\ 20000 * ErrorsOf(v) >= (200 * Percent - 1) * RequestsOf(v)
  /\ \A v \in Faulty \ ServicesOf(Shown), w \in ServicesOf(Shown) :
       10000 * ErrorsOf(v) * RequestsOf(w) <= (10000 * ErrorsOf(w) + RequestsOf(w)) * RequestsOf(v)
  /\ \A k \in DOMAIN Shown : LET code == FiveXX(CounterRow(Shown[k])).dominant IN
       code # NoCode =>
         \A c \in Codes \cap ServerErrors :
           served[Order[Shown[k]]][c] <= served[Order[Shown[k]]][code]
=============================================================================
