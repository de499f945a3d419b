------------------------------ MODULE Verdict ------------------------------
(***************************************************************************)
(* The verdict layer (src/lib/verdict.ts over src/lib/verdict-queries.ts): *)
(* the nine rules that turn a window of the record into sentences.  A      *)
(* verdict is what its sentence asserts: the rule, the severity, whether a *)
(* cause was withheld, the instant it speaks of and the cause it names.    *)
(* A rule that needs a term nobody measured returns nothing.               *)
(***************************************************************************)
EXTENDS RecordReads

CONSTANTS PollS  \* routerConfig.pollIntervalMs

ASSUME VerdictAssumption == PollS \in Nat \ {0}

(* VERDICT_THRESHOLDS, in seconds and percent *)
SilentWarnCycles == 2
SilentCriticalCycles == 10
SyncMaxAge == 1800
CoverageWarn == 90
CoverageCritical == 60
ClusterTolerance == 60
ResyncMinSamples == 2
ResyncMaxSpread == 30
ResyncWindow == 120
StallRatio == 8
MinAlive == 2
SymmetricMin == 10
SymmetricSpread == 20
MinLinkShare == 90

Said(id, severity, about, cause) ==
  [id |-> id, severity |-> severity, about |-> about, cause |-> cause, hedged |-> FALSE]

------------------------------------------------------------------------------
(* The link gate *)

\* `watched` is Null when no cycle reported any sampling; only the sampler's events count.
LinkStateOver(db, from, to) ==
  LET watches == {r \in Within(db.cycle, from, to) : r.watch # Null}
  IN [watched |-> IF watches = {} THEN Null ELSE MapThenSumSet(LAMBDA r : r.watch, watches),
      window |-> to - from,
      transitions |-> Cardinality({e \in Within(db.event, from, to) : e.source = "link-sampler"})]

LinkCertain_Covered(l) == l.window > 0 /\ l.watched # Null /\ 100 * l.watched >= MinLinkShare * l.window
LinkCertain(l) ==
  /\ l.window > 0 /\ l.transitions = 0
  /\ l.watched # Null /\ 100 * l.watched >= MinLinkShare * l.window

\* One step down, never to the clean bill of health.
Downgrade(severity) == CASE severity = "critical" -> "warn" [] severity = "warn" -> "info" [] OTHER -> severity

\* applyLinkGate and linkUncertainty: a verdict the link does not vouch for says what is missing.
Gated(v, l) ==
  IF LinkCertain(l) THEN v ELSE [v EXCEPT !.severity = Downgrade(@), !.hedged = TRUE]

------------------------------------------------------------------------------
(* Is the record there at all *)

CollectorSilent(last, now) ==
  CASE last = Null -> {Said("no_data", "warn", Null, Null)}
    [] last # Null /\ now - last > SilentWarnCycles * ProbeCycleS ->
         {Said("collector_silent",
               IF now - last > SilentCriticalCycles * ProbeCycleS THEN "critical" ELSE "warn", last, Null)}
    [] OTHER -> {}

\* The share that is held against the record: since its first cycle in the window, when the
\* window starts before that one; Null when the window expects no whole cycle.
EffectiveShare_Inclusive(from, to, c) ==
  LET since == Rounded(to - c.firstTs, ProbeCycleS) - 1
  IN IF c.coverage # Null /\ c.firstTs # Null /\ c.firstTs > from /\ since > 0
     THEN Least(100, (100 * c.recorded) \div since)
     ELSE c.coverage
EffectiveShare(from, to, c) ==
  LET since == Rounded(to - c.firstTs, ProbeCycleS)
  IN IF c.coverage # Null /\ c.firstTs # Null /\ c.firstTs > from /\ since > 0
     THEN Least(100, (100 * c.recorded) \div since)
     ELSE c.coverage

ProbeCoverageLow(from, to, c) ==
  LET share == EffectiveShare(from, to, c)
  IN CASE share = Null -> {Said("coverage_unknown", "info", from, Null)}
       [] share # Null /\ share < CoverageWarn ->
            {Said("probe_coverage_low", IF share < CoverageCritical THEN "critical" ELSE "warn", from, Null)}
       [] OTHER -> {}

\* The polls that are due include the one at each end of the window.
RouterCoverage(db, from, to) ==
  [polls |-> Cardinality(Within(db.line, from, to)), due |-> Max({0, (to - from) \div PollS + 1})]

RouterCoverageLow(enabled, from, r) ==
  LET share == Least(100, (100 * r.polls) \div r.due)
  IN CASE ~enabled -> {Said("router_disabled", "info", from, Null)}
       [] enabled /\ r.polls = 0 -> {Said("router_no_data", "warn", from, Null)}
       [] enabled /\ r.polls > 0 /\ r.due > 0 /\ share < CoverageWarn ->
            {Said("router_coverage_low", IF share < CoverageCritical THEN "critical" ELSE "warn", from, Null)}
       [] OTHER -> {}

------------------------------------------------------------------------------
(* What the link and the line could carry *)

ReportedLinks(db, from, to) == {r \in Within(db.cycle, from, to) : r.link # Null}

\* throughputCandidates: the tests that worked, each beside the fastest link on record in the
\* range. A maximum can only under-fire.
ThroughputCandidates(db, from, to) ==
  LET links == ReportedLinks(db, from, to)
  IN IF links = {} THEN {}
     ELSE {[ts |-> t.ts, mbit |-> t.mbit, link |-> Max({r.link : r \in links})] :
             t \in {u \in Within(db.speed, from, to) : u.mbit # Null}}

\* The cause is claimed when no link change of any source covers it.
ThroughputExceedsLink(candidates, changes) ==
  {Said("throughput_exceeds_link", "critical", t.ts, IF changes = 0 THEN "uncovered" ELSE Null) :
     t \in {u \in candidates : 2 * u.mbit > 3 * u.link}}

\* linkVsSync: the newest readings, however old, and what the range says of the vantage.
LinkVsSync(db, from, to) ==
  LET links == ReportedLinks(db, from, to)
  IN [link |-> Newest({r \in db.cycle : r.ts <= to /\ r.link # Null}),
      sync |-> Newest({r \in db.line : r.ts <= to /\ r.sync # Null}),
      test |-> Newest({t \in db.speed : t.ts <= to /\ t.mbit # Null}),
      speeds |-> {r.link : r \in links}, atHome |-> links # {} /\ \A r \in links : r.home = 1]

LinkBelowCarrierSync(s, now) ==
  IF /\ s.link # Null /\ s.sync # Null /\ s.test # Null
     /\ Cardinality(s.speeds) = 1 /\ s.atHome
     /\ now - s.sync.ts \in 0..SyncMaxAge /\ 2 * s.link.link < s.sync.sync
  THEN {Said("link_below_carrier_sync", "critical", s.link.ts, s.link.link)} ELSE {}

------------------------------------------------------------------------------
(* When the line came up *)

\* The instants the showtime counters point at: one row per poll that read one.
Readings_Coalesced(db, from, to) ==
  {[at |-> IF r.showtime = Null THEN r.ts ELSE r.ts - r.showtime, poll |-> r.ts] : r \in Within(db.line, from, to)}
Readings(db, from, to) ==
  {[at |-> r.ts - r.showtime, poll |-> r.ts] : r \in {l \in Within(db.line, from, to) : l.showtime # Null}}

\* resyncClusters: instants chain while neighbours are within the tolerance of each other. A
\* cluster is named by its earliest instant.
Heads(readings) ==
  {q.at : q \in {r \in readings : \A p \in readings : p.at < r.at => r.at - p.at > ClusterTolerance}}

ClusterFrom(readings, head) ==
  LET next == {h \in Heads(readings) : h > head}
  IN {r \in readings : head <= r.at /\ \A h \in next : r.at < h}

\* The newest WAN outage that touches the window around the instant.
OutageAround(db, at) ==
  LET near == {o \in db.outage : /\ o.scope = "wan" /\ o.startedAt <= at + ResyncWindow
                                 /\ o.endedAt # Null => o.endedAt >= at - ResyncWindow}
  IN IF near = {} THEN Null ELSE CHOOSE o \in near : \A p \in near : p.startedAt <= o.startedAt

GateWindow(from, to, at) == <<at - ResyncWindow, at + ResyncWindow>>

ResyncCluster(db, from, to, head) ==
  LET cluster == ClusterFrom(Readings(db, from, to), head)
      gate == GateWindow(from, to, head)
  IN [at |-> head, samples |-> Cardinality(cluster),
      spread |-> Max({r.at : r \in cluster}) - Min({r.at : r \in cluster}),
      outage |-> OutageAround(db, head), link |-> LinkStateOver(db, gate[1], gate[2])]

ResyncClusters(db, from, to) == {ResyncCluster(db, from, to, h) : h \in Heads(Readings(db, from, to))}

\* The cause is the outage that ended there, if the link vouches for it.
CarrierResyncDated(clusters) ==
  LET Cause(c) == IF LinkCertain(c.link) /\ c.outage # Null /\ c.outage.endedAt # Null
                  THEN c.outage.startedAt ELSE Null
  IN {Gated(Said("carrier_resync_dated", "info", c.at, Cause(c)), c.link) :
        c \in {d \in clusters : d.samples >= ResyncMinSamples /\ d.spread <= ResyncMaxSpread}}

------------------------------------------------------------------------------
(* What one cycle shows *)

OfCycle(db, ts, targets) == {s \in db.sample : s.ts = ts /\ s.target \in targets}
VantageAt(db, ts) == Newest({r \in db.cycle : r.ts = ts})
Complete(rows) == Cardinality(rows) = Cardinality(TargetNames)

\* pathStalls: the worst round trip of every target blew out together, and nothing was lost.
PathStalls(db, from, to) ==
  LET Timed(t) == {s \in OfCycle(db, t, TargetNames) : s.med # Null /\ s.max # Null}
      stalled == {t \in Stamps(Within(db.sample, from, to)) :
                    /\ Complete(Timed(t)) /\ \E s \in Timed(t) : s.med > 0
                    /\ \A s \in Timed(t) : s.loss = 0 /\ (s.med > 0 => s.max >= StallRatio * s.med)}
  IN {[ts |-> t, watch |-> IF VantageAt(db, t) = Null THEN Null ELSE VantageAt(db, t).watch] : t \in stalled}

\* The cause that is withheld is the link's, when no sampler ran in that cycle.
SubCyclePathStall(stalls) ==
  {[Said("sub_cycle_path_stall", "info", p.ts, Null) EXCEPT !.hedged = (p.watch = Null)] : p \in stalls}

Alive(rows) == {s \in rows : s.received > 0}

\* gatewayOutages: those in whose first cycle the anchors answered, with the gateway's address
\* in that cycle and in the one before.
GatewayOutages(db, from, to) ==
  LET Contradicted(o) ==
        /\ \E s \in OfCycle(db, o.startedAt, {GatewayTarget}) : s.loss = 100
        /\ Cardinality(Alive(OfCycle(db, o.startedAt, WanTargets))) >= MinAlive
      Gateway(row) == IF row = Null THEN Null ELSE row.gateway
  IN {[ts |-> o.startedAt,
       home |-> IF VantageAt(db, o.startedAt) = Null THEN Null ELSE VantageAt(db, o.startedAt).home,
       gateway |-> Gateway(VantageAt(db, o.startedAt)),
       before |-> Gateway(Newest({r \in db.cycle : r.ts < o.startedAt}))] :
        o \in {p \in db.outage : p.scope = "gateway" /\ p.startedAt \in from..to /\ Contradicted(p)}}

\* A contradiction only over the home line and through a gateway that did not change.
GatewayOutageUncorroborated(outages, link) ==
  {Gated(Said("gateway_outage_uncorroborated", "warn", o.ts, "gateway"), link) :
     o \in {p \in outages : p.home = 1 /\ p.gateway # Null /\ p.before # Null /\ p.gateway = p.before}}

\* Short of a total loss, which belongs to the rule above.
SymmetricCycles(db, from, to) ==
  LET Gw(t) == {s.loss : s \in OfCycle(db, t, {GatewayTarget})}
      Wan(t) == {s.loss : s \in OfCycle(db, t, WanTargets)}
  IN {t \in Stamps(Within(db.sample, from, to)) :
        /\ Complete(OfCycle(db, t, TargetNames))
        /\ Min(Gw(t)) >= SymmetricMin /\ Min(Wan(t)) >= SymmetricMin
        /\ Max(Gw(t)) - Max(Wan(t)) \in (0 - SymmetricSpread)..SymmetricSpread
        /\ Max(Gw(t)) < 100}

\* Movement of a cumulative counter; one that went back was reset and is unknown, not zero.
CounterDelta(first, last) == IF first = Null \/ last = Null THEN Null ELSE IF last < first THEN Null ELSE last - first

\* symmetricLoss: those cycles, and how far the interface's error counter moved across them.
SymmetricLoss(db, from, to) ==
  LET cycles == SymmetricCycles(db, from, to)
      counted == {r \in Within(db.cycle, Min(cycles), Max(cycles)) : r.errs # Null}
  IN IF cycles = {} THEN Null
     ELSE [first |-> Min(cycles),
           moved |-> IF counted = {} THEN Null ELSE CounterDelta(First(counted).errs, Newest(counted).errs)]

SymmetricLossNotLine(loss, link) ==
  IF loss = Null THEN {} ELSE {Gated(Said("symmetric_loss_not_line", "info", loss.first, loss.moved), link)}

------------------------------------------------------------------------------
\* collectVerdictInput: everything the nine rules read, over one window.
CollectVerdictInput(db, from, to, now, enabled) ==
  [now |-> now, from |-> from, to |-> to, enabled |-> enabled, link |-> LinkStateOver(db, from, to),
   last |-> Extreme(Max, Stamps(db.sample)), coverage |-> RangeSummary(db, from, to),
   router |-> RouterCoverage(db, from, to), throughput |-> ThroughputCandidates(db, from, to),
   linkVsSync |-> LinkVsSync(db, from, to), clusters |-> ResyncClusters(db, from, to),
   stalls |-> PathStalls(db, from, to), gateway |-> GatewayOutages(db, from, to),
   symmetric |-> SymmetricLoss(db, from, to),
   changes |-> Cardinality(Within(db.event, from, to))]

\* GET /api/verdicts. The route sorts them by severity.
DeriveVerdicts(in) ==
  UNION {CollectorSilent(in.last, in.now), ThroughputExceedsLink(in.throughput, in.changes),
         LinkBelowCarrierSync(in.linkVsSync, in.now), ProbeCoverageLow(in.from, in.to, in.coverage),
         RouterCoverageLow(in.enabled, in.from, in.router), CarrierResyncDated(in.clusters),
         SubCyclePathStall(in.stalls), GatewayOutageUncorroborated(in.gateway, in.link),
         SymmetricLossNotLine(in.symmetric, in.link)}
=============================================================================
