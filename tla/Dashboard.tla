----------------------------- MODULE Dashboard -----------------------------
(***************************************************************************)
(* What the page makes of the answers of the read routes (web/src/lib and  *)
(* the status bar): a complete time axis, the anchors folded into one      *)
(* internet, the headline figures with their tints, the comparisons with   *)
(* the window before.  Pure; figures are in units in which the middle of   *)
(* two is whole.  Null is the page's dash: nothing was measured.           *)
(***************************************************************************)
EXTENDS RecordReads

CONSTANTS ComparableS  \* COMPARABLE_WINDOW_MS of web/src/lib/vantage.ts

ASSUME DashboardAssumption == ComparableS \in Nat \ {0}

MaxSlots == 5000
KeyMaxStep == 300
DowntimeBadS == 3600

------------------------------------------------------------------------------
(* The window a page is about, and the answer it may show meanwhile *)

RangeToWindow(span, now) ==
  [from |-> BucketOf(now, ProbeCycleS) - span, to |-> BucketOf(now, ProbeCycleS)]

WindowKeyStep(width) == Max({ProbeCycleS, Least(width, KeyMaxStep)})
\* Both ends move alike: the window before is as long as this one.
QuantiseWindow(w, width) ==
  LET to == BucketOf(w.to, WindowKeyStep(width)) IN [from |-> w.from - (w.to - to), to |-> to]
WindowBefore(w) == [from |-> w.from - (w.to - w.from), to |-> w.from]

\* The previous answer stands in for one that is on its way only when time alone has moved.
SameWindowedQuery(key, earlier) ==
  key.query = earlier.query /\ key.to - key.from = earlier.to - earlier.from
KeepAcrossTimeAdvance(key, data, earlier) ==
  IF earlier # Null /\ SameWindowedQuery(key, earlier) THEN data ELSE Null

------------------------------------------------------------------------------
(* The time axis: one slot per bucket the server could have grouped by *)

SlotStarts(w, width) == {b \in BucketOf(w.from, width)..w.to : b % width = 0}

\* Thrown out: too many slots, two rows of one bucket, a row in the window that is off the grid.
Malformed(rows, w, width) ==
  LET buckets == {r.bucket : r \in rows}
  IN \/ Cardinality(SlotStarts(w, width)) > MaxSlots
     \/ Cardinality(buckets) # Cardinality(rows)
     \/ ~(buckets \cap (BucketOf(w.from, width)..w.to) \subseteq SlotStarts(w, width))

\* A row outside the window is a neighbour's, and skipped.
DensifyBuckets(rows, w, width) ==
  [b \in SlotStarts(w, width) |->
     IF \E r \in rows : r.bucket = b THEN CHOOSE r \in rows : r.bucket = b ELSE Null]

------------------------------------------------------------------------------
(* The gateway beside the internet *)

Column(rows, field(_)) == LET s == SetToSeq(rows) IN [i \in DOMAIN s |-> field(s[i])]

\* What is missing is skipped, never counted as zero.
Median(values) ==
  LET present == {i \in DOMAIN values : values[i] # Null}
  IN [value |-> Percentile(Column(present, LAMBDA i : values[i]), 50), count |-> Cardinality(present)]

OfAnchors(buckets) == {b \in buckets : b.target \in WanTargets}

\* The cycles every anchor lost are bounded from below, by what their counts cannot hide.
DownOfAll_Summed(rows, count) == MapThenSumSet(LAMBDA r : r.down, rows)
DownOfAll(rows, count) ==
  Max({0, MapThenSumSet(LAMBDA r : r.down, rows) - (Cardinality(rows) - 1) * count})

InternetBucket(bucket, rows) ==
  LET Middle(field(_)) == Median([r \in rows |-> field(r)]).value
      count == Max({r.count : r \in rows})
  IN [bucket |-> bucket, anchors |-> Cardinality(rows), med2 |-> Middle(LAMBDA r : r.med2),
      p5 |-> Middle(LAMBDA r : r.p5), p95 |-> Middle(LAMBDA r : r.p95),
      min |-> Extreme(Min, {r.min : r \in rows}), max |-> Extreme(Max, {r.max : r \in rows}),
      loss |-> Middle(LAMBDA r : r.loss), worst |-> Max({r.loss : r \in rows}),
      maxLoss |-> Max({r.maxLoss : r \in rows}), down |-> DownOfAll(rows, count), count |-> count]

FoldInternetBuckets(buckets) ==
  {InternetBucket(b, {r \in OfAnchors(buckets) : r.bucket = b}) : b \in {r.bucket : r \in OfAnchors(buckets)}}

ToComparePoint(slot) ==
  LET rows == IF slot = Null THEN {} ELSE slot.rows
      wan == Median([r \in OfAnchors(rows) |-> r.med2])
  IN [gateway |-> Extreme(Min, {r.med2 : r \in rows \ OfAnchors(rows)}),
      wan |-> wan.value, anchors |-> wan.count, worst |-> Max({0} \cup {r.loss : r \in rows})]

ComparePointsFrom(buckets, w, width) ==
  LET merged == {[bucket |-> b, rows |-> {r \in buckets : r.bucket = b}] : b \in {r.bucket : r \in buckets}}
      slots == DensifyBuckets(merged, w, width)
  IN [b \in DOMAIN slots |-> ToComparePoint(slots[b])]

------------------------------------------------------------------------------
(* The headline figures *)

MeasuredPoint(p) == p.gateway # Null \/ p.anchors > 0
MeasuredIn(points) == {b \in DOMAIN points : MeasuredPoint(points[b])}

\* measuredFraction against COMPARABLE_COVERAGE: nine tenths of the slots.
Comparable(points) ==
  DOMAIN points # {} /\ 10 * Cardinality(MeasuredIn(points)) >= 9 * Cardinality(DOMAIN points)

WorstBucketLoss(points) ==
  IF MeasuredIn(points) = {} THEN Null ELSE Max({points[b].worst : b \in MeasuredIn(points)})

WindowWanMedian(points) == Median([b \in DOMAIN points |-> points[b].wan]).value
WindowDownloadMedian(tests) == Median([t \in tests |-> t.mbit]).value

\* A series with a hole has no shape.
DenseSparkline(values) ==
  IF DOMAIN values = {} \/ \E b \in DOMAIN values : values[b] = Null THEN Null ELSE values

\* Clipped to the window; one that is open runs to now.
WindowDowntime(outages, w, now) ==
  LET End(o) == Least(IF o.endedAt = Null THEN now ELSE o.endedAt, w.to)
  IN [seconds |-> MapThenSumSet(LAMBDA o : Max({0, End(o) - Max({o.startedAt, w.from})}), outages),
      open |-> Cardinality({o \in outages : o.endedAt = Null})]

\* Green is a claim, and needs a window that was watched.
DowntimeTint(d, span, points) ==
  CASE d.open > 0 -> "bad"
    [] d.open = 0 /\ d.seconds > 0 ->
         IF d.seconds >= DowntimeBadS \/ (span > 0 /\ 200 * d.seconds >= span) THEN "bad" ELSE "warn"
    [] OTHER -> IF Comparable(points) THEN "good" ELSE Null

\* The change with the sign of what is better, between two windows that were both watched.
CompareWindows(current, previous, upIsGood, points, earlier) ==
  IF current = Null \/ previous = Null \/ ~Comparable(points) \/ ~Comparable(earlier) THEN Null
  ELSE IF upIsGood THEN current - previous ELSE previous - current

------------------------------------------------------------------------------
(* The volume of a window *)

ThroughputPoints(buckets, w, width) ==
  LET slots == DensifyBuckets(buckets, w, width)
  IN [b \in DOMAIN slots |->
        IF slots[b] = Null THEN [measured |-> FALSE, bytes |-> 0, skipped |-> 0]
        ELSE [measured |-> slots[b].span > 0, bytes |-> slots[b].bytes, skipped |-> slots[b].skipped]]

ThroughputTotals(points) ==
  [bytes |-> MapThenSumSet(LAMBDA b : points[b].bytes, DOMAIN points),
   skipped |-> Cardinality({b \in DOMAIN points : points[b].skipped > 0}),
   unmeasured |-> Cardinality({b \in DOMAIN points : ~points[b].measured})]

\* A total with holes is called a floor.
VolumeCaveat(volume) == volume.unmeasured > 0 \/ volume.skipped > 0

SpeedWindowStats(tests) ==
  LET ok == {t \in tests : t.mbit # Null}
      down == Column(ok, LAMBDA t : t.mbit)
  IN [p50 |-> Percentile(down, 50), p95 |-> Percentile(down, 95),
      runs |-> Cardinality(ok), failed |-> Cardinality(tests \ ok)]

------------------------------------------------------------------------------
(* Now: GET /api/status, the live readings and the word the page says *)

\* Every target keeps its newest row for ever, however old.
Status(db) ==
  LET newest == {Newest({s \in db.sample : s.target = t}) : t \in TargetNames} \ {Null}
  IN [samples |-> newest, ongoing |-> {o \in db.outage : o.endedAt = Null},
      test |-> Newest(db.speed), vantage |-> Newest(db.cycle), newestTs |-> Extreme(Max, Stamps(db.sample))]

IsStale_Late(ts, tick) == tick - ts >= 3 * ProbeCycleS
IsStale(ts, tick) == tick - ts >= 2 * ProbeCycleS
LatestSampleTs(samples) == Extreme(Max, Stamps(samples))

LiveReading(samples) ==
  [med |-> Median([s \in samples |-> s.med]).value, worst |-> Extreme(Max, {s.loss : s \in samples}),
   ts |-> LatestSampleTs(samples), total |-> Cardinality(samples),
   up |-> Cardinality({s \in samples : s.received > 0})]
LiveInternet(samples) == LiveReading({s \in samples : s.target \in WanTargets})
LiveGateway(samples) == LiveReading({s \in samples : s.target = GatewayTarget})

ReadingTone(reading, tick) ==
  CASE reading.ts = Null -> "gray"
    [] reading.ts # Null /\ IsStale(reading.ts, tick) -> "gray"
    [] reading.ts # Null /\ ~IsStale(reading.ts, tick) ->
         IF reading.up = 0 THEN "red"
         ELSE IF reading.up < reading.total \/ reading.worst > 0 THEN "yellow" ELSE "green"

Reporting(status, tick) ==
  LatestSampleTs(status.samples) # Null /\ ~IsStale(LatestSampleTs(status.samples), tick)
AllSystemsUp(status, tick) == Reporting(status, tick) /\ status.ongoing = {}

\* The path's chip says nothing of a vantage that is no longer now.
HomeLineChip(vantage, tick) ==
  CASE vantage = Null -> Null
    [] vantage # Null /\ IsStale(vantage.ts, tick) -> Null
    [] OTHER -> CASE vantage.home = Null -> "unknown" [] vantage.home = 1 -> "home line" [] OTHER -> "other path"

\* One ratio of two readings, when they were taken at comparable times.
CompareCarrierHost(line, vantage, tick) ==
  LET Missing == line = Null \/ vantage = Null
  IN CASE Missing -> Null
       [] ~Missing /\ (line.value.sync = Null \/ vantage.link = Null) -> Null
       [] ~Missing /\ tick - line.observedAt >= ComparableS -> Null
       [] ~Missing /\ (tick - vantage.ts >= ComparableS \/ IsStale(vantage.ts, tick)) -> Null
       [] OTHER -> (100 * vantage.link) \div line.value.sync

\* The ceilings drawn behind the speed tests: neither of them once it is history.
ThroughputRefLines(line, vantage, tick) ==
  (IF vantage = Null THEN {} ELSE IF IsStale(vantage.ts, tick) THEN {} ELSE {vantage.link} \ {Null})
    \cup (IF line = Null THEN {} ELSE IF line.stale THEN {} ELSE {line.value.sync} \ {Null})

LinkBucketState(place) ==
  CASE place = Null -> "unmeasured"
    [] place # Null /\ place.links = {} -> "no-vantage"
    [] place # Null /\ Cardinality(place.links) = 1 -> "steady"
    [] OTHER -> "transition"

------------------------------------------------------------------------------
(* The coverage of the window, and the verdicts *)

\* A share nobody can state is not the quiet case.
CoverageKind(c) ==
  CASE c.coverage = Null -> "warn"
    [] c.coverage # Null /\ c.coverage < 90 -> "bad"
    [] c.coverage # Null /\ c.coverage \in 90..98 -> "warn"
    [] OTHER -> "info"

\* Against the stretch since the first cycle, at the cadence the summary itself implies.
CoverageSinceFirst(c, w) ==
  LET since == Max({0, Rounded((w.to - c.firstTs) * c.expected, w.to - w.from)})
  IN IF c.firstTs = Null \/ c.expected <= 0 THEN Null
     ELSE IF c.firstTs <= w.from \/ since = 0 THEN Null
     ELSE Least(100, (100 * c.recorded) \div since)

SeverityRank == [critical |-> 0, warn |-> 1, info |-> 2, ok |-> 3]

\* One card per rule, as bad as its worst instance, none of them dropped.
GroupVerdicts(verdicts) ==
  {LET instances == {v \in verdicts : v.id = id}
   IN [id |-> id, instances |-> instances,
       severity |-> (CHOOSE v \in instances : \A q \in instances :
                       SeverityRank[v.severity] <= SeverityRank[q.severity]).severity] :
   id \in {v.id : v \in verdicts}}

TriageVerdicts(groups) ==
  [critical |-> {g \in groups : g.severity = "critical"}, warn |-> {g \in groups : g.severity = "warn"},
   routine |-> {g \in groups : g.severity \notin {"critical", "warn"}}]

VerdictSection ==
  [uptime |-> {"no_data", "collector_silent", "coverage_unknown", "probe_coverage_low", "gateway_outage_uncorroborated"},
   latency |-> {"sub_cycle_path_stall", "symmetric_loss_not_line"},
   speed |-> {"throughput_exceeds_link"},
   path |-> {"link_below_carrier_sync", "router_disabled", "router_no_data", "router_coverage_low", "carrier_resync_dated"}]
UnmappedVerdictIds(verdicts) == {v.id : v \in verdicts} \ UNION {VerdictSection[s] : s \in DOMAIN VerdictSection}
=============================================================================
