------------------------------ MODULE CertSweep ------------------------------
(***************************************************************************)
(* cert_expiry_sweep (ops/analysis.py) over the certificates that          *)
(* list_certificates (ops/certs.py) probes, one handshake after the other, *)
(* while time passes, certificates are renewed and hosts stop answering.   *)
(*                                                                         *)
(* The unit of time is 48 minutes, a thirtieth of a day: a tenth of a day, *)
(* to which the code rounds, is 3 units.                                   *)
(*                                                                         *)
(* Bounds: certificates have from Shortest to Longest units left, and a    *)
(* sweep takes at most MaxSince.  Abstractions: the inventory is constant; *)
(* a failed inventory, which ends the sweep, is left out.                  *)
(***************************************************************************)
EXTENDS Integers, SequencesExt

CONSTANTS
  Inventory,       \* the domains of the proxy, in order
  ProbedHosts, HostOf,  \* HostOf[d]: the host that is probed for domain d
  MaxProbes,       \* MAX_PROBES
  Critical, Warn,  \* critical_days and warn_days, in units
  Shortest, Longest, MaxSince

Domains == DOMAIN HostOf

\* A domain is in the inventory once.
ASSUME InventoryAssumption ==
  /\ HostOf \in [Domains -> ProbedHosts]
  /\ Inventory \in Seq(Domains)
  /\ \A i, j \in DOMAIN Inventory : Inventory[i] = Inventory[j] => i = j
ASSUME TimesAssumption ==
  /\ MaxProbes \in Nat /\ MaxSince \in Nat
  /\ {Critical, Warn, Shortest, Longest} \subseteq Int

VARIABLES
  left,      \* left[h]: the time until the certificate of h expires
  answers,   \* the hosts that complete a handshake
  sweep,     \* the running sweep: the domains to probe, and the rows so far
  since,     \* history: the time since it began
  renewed    \* history: the hosts that got a certificate since
sweepVars == <<left, answers, sweep, since, renewed>>

NoSweep == [running |-> FALSE, todo |-> <<>>, rows |-> <<>>]

SweepInit ==
  /\ left = [h \in ProbedHosts |-> Longest] /\ answers = ProbedHosts
  /\ sweep = NoSweep /\ since = 0 /\ renewed = {}
----------------------------------------------------------------------------
(* The world.                                                              *)

Tick ==
  /\ \A h \in ProbedHosts : left[h] > Shortest
  /\ sweep.running => since < MaxSince
  /\ left' = [h \in ProbedHosts |-> left[h] - 1]
  /\ since' = IF sweep.running THEN since + 1 ELSE 0
  /\ UNCHANGED <<answers, sweep, renewed>>

\* A certificate is replaced, not always by one that lasts longer.
Renew(h, life) ==
  /\ left' = [left EXCEPT ![h] = life]
  /\ renewed' = IF sweep.running THEN renewed \cup {h} ELSE {}
  /\ UNCHANGED <<answers, sweep, since>>

Toggle(h) ==
  /\ answers' = SymDiff(answers, {h})
  /\ UNCHANGED <<left, sweep, since, renewed>>
----------------------------------------------------------------------------
(* list_certificates.                                                      *)

StartSweep ==
  /\ ~sweep.running
  /\ sweep' = [running |-> TRUE, rows |-> <<>>,
               todo |-> SubSeq(Inventory, 1, Min({MaxProbes, Len(Inventory)}))]
  /\ since' = 0 /\ renewed' = {}
  /\ UNCHANGED <<left, answers>>

Rounded(t) == 3 * ((t + 1) \div 3)

\* probe_certificate: a host that fails makes a row without an expiry.
Probe ==
  /\ sweep.todo # <<>>
  /\ LET d == Head(sweep.todo)
         h == HostOf[d]
         row == [domain |-> d, known |-> h \in answers,
                 days |-> IF h \in answers THEN Rounded(left[h]) ELSE 0]
     IN sweep' = [sweep EXCEPT !.todo = Tail(@), !.rows = Append(@, row)]
  /\ UNCHANGED <<left, answers, since, renewed>>

Swept == sweep.running /\ sweep.todo = <<>>
FinishSweep ==
  /\ Swept
  /\ sweep' = NoSweep /\ since' = 0 /\ renewed' = {}
  /\ UNCHANGED <<left, answers>>

SweepNext ==
  \/ Tick \/ StartSweep \/ Probe \/ FinishSweep
  \/ \E h \in ProbedHosts : Toggle(h) \/ \E life \in {Warn, Longest} : Renew(h, life)

SweepSpec == SweepInit /\ [][SweepNext]_sweepVars
----------------------------------------------------------------------------
(* cert_expiry_sweep.                                                      *)

Bucket(days) ==
  CASE days < 0 -> "expired"
    [] days >= 0 /\ days <= Critical -> "critical"
    [] days >= 0 /\ days > Critical /\ days <= Warn -> "warning"
    [] OTHER -> "ok"

AllKnown(row) == TRUE  \* mutant: a failed probe counts as no day left
Known(row) == row.known
KnownRows == {i \in DOMAIN sweep.rows : Known(sweep.rows[i])}
Unknown == {sweep.rows[i].domain : i \in DOMAIN sweep.rows \ KnownRows}

\* The sort is stable: rows with the same expiry keep their order.
Sooner(i, j) ==
  \/ sweep.rows[i].days < sweep.rows[j].days
  \/ sweep.rows[i].days = sweep.rows[j].days /\ i < j
ByExpiry ==
  LET ranks == 1..Cardinality(KnownRows)
  IN CHOOSE p \in [ranks -> KnownRows] : \A i, j \in ranks : i < j => Sooner(p[i], p[j])
Ranked == [i \in DOMAIN ByExpiry |-> sweep.rows[ByExpiry[i]]]
----------------------------------------------------------------------------
(* Properties.                                                             *)

Severity == [expired |-> 0, critical |-> 1, warning |-> 2, ok |-> 3]
RankOf(t) == Severity[Bucket(t)]

\* Though probes are spread over time: each probed domain is in one place, soonest
\* expiry first; and the bucket of a certificate that was not replaced meanwhile
\* lies between the one it had when the sweep began and the one it has at the
\* end, but for a rounding (analysis.py:184).
SweepIsExact ==
  Swept =>
    /\ Len(Ranked) + Cardinality(Unknown) = Min({MaxProbes, Len(Inventory)})
    /\ \A i, j \in DOMAIN Ranked : i < j => Ranked[i].days <= Ranked[j].days
    /\ \A i \in DOMAIN Ranked : LET h == HostOf[Ranked[i].domain] IN
         h \notin renewed =>
           Severity[Bucket(Ranked[i].days)] \in RankOf(left[h] - 1)..RankOf(left[h] + since + 1)

\* Every domain of the inventory is in the sweep (mcp_server/tools/analysis.py:58:
\* "live-probes each domain's served leaf cert").
EveryDomainIsSwept ==
  Swept => ToSet(Inventory) = Unknown \cup {Ranked[i].domain : i \in DOMAIN Ranked}
=============================================================================
