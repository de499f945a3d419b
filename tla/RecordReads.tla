---------------------------- MODULE RecordReads ----------------------------
(***************************************************************************)
(* What the read routes compute from the tables: buckets, percentiles,     *)
(* volumes from cumulative counters, the coverage of a range.  Pure: a     *)
(* database `db` is a record of sets of rows, times are seconds, a rate or *)
(* a share is a whole percentage.  The SQL of the routes becomes sets; a   *)
(* NULL stays Null and never turns into a zero unless the code says so.    *)
(***************************************************************************)
EXTENDS Absent, Integers, Sequences, FiniteSets, FiniteSetsExt, SequencesExt

CONSTANTS
  WanTargets, GatewayTarget,  \* config.targets, by scope
  ProbeCycleS,                \* config.probeCycleSeconds
  DegradedLoss                \* config.degradedLossPct

ASSUME ReadsAssumption ==
  ProbeCycleS \in Nat \ {0} /\ DegradedLoss \in 1..100 /\ GatewayTarget \notin WanTargets

TargetNames == WanTargets \cup {GatewayTarget}

------------------------------------------------------------------------------
(* Rows *)

Within(rows, from, to) == {r \in rows : from <= r.ts /\ r.ts <= to}
Stamps(rows) == {r.ts : r \in rows}
First(rows) == IF rows = {} THEN Null ELSE CHOOSE r \in rows : \A q \in rows : r.ts <= q.ts
Newest(rows) == IF rows = {} THEN Null ELSE CHOOSE r \in rows : \A q \in rows : q.ts <= r.ts
\* LAG over the given rows.
Before(rows, r) == Newest({q \in rows : q.ts < r.ts})
BucketOf(ts, width) == (ts \div width) * width
\* Math.round of a quotient.
Rounded(a, b) == (2 * a + b) \div (2 * b)
Least(a, b) == IF a <= b THEN a ELSE b

------------------------------------------------------------------------------
(* A cycle of one target, as the collector summarises its round trips *)

\* The k-th of some values in ascending order.
Ascending(values, k) ==
  CHOOSE v \in ToSet(values) : /\ Cardinality({i \in DOMAIN values : values[i] < v}) < k
                               /\ k <= Cardinality({i \in DOMAIN values : values[i] <= v})

\* percentile: linear interpolation between the ranks around p; Null without values.
Percentile(values, p) ==
  LET rank == p * (Len(values) - 1)
      low == Ascending(values, rank \div 100 + 1)
      high == Ascending(values, (rank + 99) \div 100 + 1)
  IN IF values = <<>> THEN Null ELSE low + ((high - low) * (rank % 100)) \div 100

Sample(ts, target, sent, rtts) ==
  [ts |-> ts, target |-> target, sent |-> sent, received |-> Len(rtts),
   loss |-> (100 * (sent - Len(rtts))) \div sent,
   med |-> Percentile(rtts, 50),
   min |-> IF rtts = <<>> THEN Null ELSE Min(ToSet(rtts)),
   max |-> IF rtts = <<>> THEN Null ELSE Max(ToSet(rtts))]

------------------------------------------------------------------------------
(* GET /api/probes *)

\* The rank a percentile lands on in SQL: rounded, and never below the first.
RankOf_Floor(n, p) == Max({1, (p * n) \div 100})
RankOf(n, p) == Max({1, Rounded(p * n, 100)})

\* The k-th smallest median of rows that have one.
AtRank(timed, k) ==
  LET Below(m) == Cardinality({r \in timed : r.med < m})
  IN CHOOSE m \in {r.med : r \in timed} :
       Below(m) < k /\ k <= Below(m) + Cardinality({r \in timed : r.med = m})

Extreme(pick(_), values) == IF values \ {Null} = {} THEN Null ELSE pick(values \ {Null})

\* One row out per bucket and target; `med2` is twice the median of the medians.
ProbeBucket(bucket, target, rows) ==
  LET timed == {r \in rows : r.med # Null}
      n == Cardinality(timed)
      sent == MapThenSumSet(LAMBDA r : r.sent, rows)
  IN [bucket |-> bucket, target |-> target, count |-> Cardinality(rows),
      med2 |-> IF n = 0 THEN Null ELSE AtRank(timed, (n + 1) \div 2) + AtRank(timed, (n + 2) \div 2),
      p5 |-> IF n = 0 THEN Null ELSE AtRank(timed, RankOf(n, 5)),
      p95 |-> IF n = 0 THEN Null ELSE AtRank(timed, RankOf(n, 95)),
      min |-> Extreme(Min, {r.min : r \in rows}), max |-> Extreme(Max, {r.max : r \in rows}),
      maxLoss |-> Max({r.loss : r \in rows}),
      loss |-> IF sent = 0 THEN 0
               ELSE (100 * MapThenSumSet(LAMBDA r : r.sent - r.received, rows)) \div sent,
      down |-> Cardinality({r \in rows : r.received = 0})]

BucketProbes(db, from, to, width) ==
  LET rows == Within(db.sample, from, to)
      In(b, t) == {r \in rows : BucketOf(r.ts, width) = b /\ r.target = t}
  IN {ProbeBucket(k[1], k[2], In(k[1], k[2])) : k \in {<<BucketOf(r.ts, width), r.target>> : r \in rows}}

\* `all` claims every recorded cycle, not every cycle that reported.
HomeLineVerdict_Reporting(cycles, home, off) ==
  IF home = 0 /\ off = 0 THEN "unknown" ELSE IF off = 0 THEN "all" ELSE IF home = 0 THEN "none" ELSE "mixed"
HomeLineVerdict(cycles, home, off) ==
  IF home = 0 /\ off = 0 THEN "unknown"
  ELSE IF home = cycles THEN "all" ELSE IF off = cycles THEN "none" ELSE "mixed"

VantageBucket(bucket, cycles, rows) ==
  LET home == Cardinality({r \in rows : r.home = 1})
      off == Cardinality({r \in rows : r.home = 0})
  IN [bucket |-> bucket, cycles |-> cycles, vantage |-> Cardinality(rows),
      links |-> {r.link : r \in rows} \ {Null}, paths |-> {r.pathIf : r \in rows} \ {Null},
      onHomeLine |-> HomeLineVerdict(cycles, home, off), unknown |-> cycles - home - off]

\* The samples drive the count of cycles: a cycle whose vantage is missing is unknown, not gone.
BucketVantage(db, from, to, width) ==
  LET stamps == Stamps(Within(db.sample, from, to))
      Of(rows, b) == {r \in rows : BucketOf(r.ts, width) = b}
  IN {VantageBucket(b, Cardinality({t \in stamps : BucketOf(t, width) = b}),
                    Of(Within(db.cycle, from, to), b)) : b \in {BucketOf(t, width) : t \in stamps}}

------------------------------------------------------------------------------
(* GET /api/outages *)

\* Overlap, not containment of the start; one that is still open has no duration to fail.
OutagesListed_Started(db, from, to, minDuration) ==
  {o \in db.outage : /\ from <= o.startedAt /\ o.startedAt <= to
                     /\ o.endedAt # Null => o.endedAt - o.startedAt >= minDuration}
OutagesListed(db, from, to, minDuration) ==
  {o \in db.outage : /\ o.startedAt <= to /\ (o.endedAt # Null => o.endedAt >= from)
                     /\ o.endedAt # Null => o.endedAt - o.startedAt >= minDuration}

\* Cycles in which every anchor lost at least the threshold and that no outage row covers.
Degraded(db, from, to) ==
  {t \in Stamps(Within(db.sample, from, to)) :
     /\ \A s \in {r \in db.sample : r.ts = t /\ r.target \in WanTargets} : s.loss >= DegradedLoss
     /\ ~\E o \in db.outage : o.startedAt <= t /\ (o.endedAt # Null => o.endedAt >= t)}

RangeSummary(db, from, to) ==
  LET stamps == Stamps(Within(db.sample, from, to))
      vantage == VantageBucket(from, Cardinality(stamps), Within(db.cycle, from, to))
      expected == Max({0, Rounded(to - from, ProbeCycleS)})
  IN [recorded |-> Cardinality(stamps), expected |-> expected,
      coverage |-> IF expected = 0 THEN Null ELSE Least(100, (100 * Cardinality(stamps)) \div expected),
      firstTs |-> Extreme(Min, stamps), lastTs |-> Extreme(Max, stamps),
      degraded |-> Cardinality(Degraded(db, from, to)),
      onHomeLine |-> vantage.onHomeLine, unknown |-> vantage.unknown]

------------------------------------------------------------------------------
(* GET /api/throughput: volumes from the interface's cumulative counters *)

MaxIntervalS == 120

\* Refused: another interface, a value nobody reported, a counter that went back, a long gap.
Usable_AnyIface(p, r) ==
  /\ r.bytes # Null /\ p.bytes # Null /\ p.bytes <= r.bytes
  /\ r.ts - p.ts \in 1..MaxIntervalS
Usable(p, r) ==
  /\ r.pathIf # Null /\ p.pathIf # Null /\ r.pathIf = p.pathIf
  /\ r.bytes # Null /\ p.bytes # Null /\ p.bytes <= r.bytes
  /\ r.ts - p.ts \in 1..MaxIntervalS

\* The interval that ends at a row: it is looked for one interval before the window too.
BucketThroughput(db, from, to, width) ==
  LET rows == Within(db.cycle, from - MaxIntervalS, to)
      ends == {r \in rows : from <= r.ts /\ Before(rows, r) # Null}
      In(b) == {r \in ends : BucketOf(r.ts, width) = b}
      Taken(b) == {r \in In(b) : Usable(Before(rows, r), r)}
  IN {[bucket |-> b,
       bytes |-> MapThenSumSet(LAMBDA r : r.bytes - Before(rows, r).bytes, Taken(b)),
       span |-> MapThenSumSet(LAMBDA r : r.ts - Before(rows, r).ts, Taken(b)),
       intervals |-> Cardinality(Taken(b)),
       skipped |-> Cardinality(In(b)) - Cardinality(Taken(b))] : b \in {BucketOf(r.ts, width) : r \in ends}}

------------------------------------------------------------------------------
(* GET /api/router, /api/router/line and /api/router/throughput *)

\* A reading wears the age it has when it is read; it is labelled, never dropped.
Observe(row, now, staleAfter) ==
  IF row = Null THEN Null
  ELSE [observedAt |-> row.ts, age |-> now - row.ts, stale |-> now - row.ts > staleAfter, value |-> row]

\* Every part from its own newest row: polls write some tables and not others.
RouterSnapshot(db, now, staleAfter) ==
  [line |-> Observe(Newest(db.line), now, staleAfter),
   wan |-> Observe(Newest({r \in db.intf : r.role = "wan"}), now, staleAfter),
   lan |-> Observe(Newest({r \in db.intf : r.role = "lan"}), now, staleAfter)]

MaxBuckets == 20000
\* A range that is backwards or too fine is refused, never clamped.
ResolveRange(from, to, width) ==
  IF from > to THEN "invalid_range"
  ELSE IF (to - from + width - 1) \div width > MaxBuckets THEN "range_too_fine" ELSE "ok"

\* A resync is a showtime below that of the row before it, when both were read.
BucketRouterLine(db, from, to, width) ==
  LET rows == Within(db.line, from, to)
      In(b) == {r \in rows : BucketOf(r.ts, width) = b}
      Restarted(r) == LET p == Before(rows, r)
                      IN p # Null /\ p.showtime # Null /\ r.showtime # Null /\ r.showtime < p.showtime
  IN {[bucket |-> b, samples |-> Cardinality(In(b)),
       statuses |-> {r.status : r \in In(b)} \ {Null},
       up |-> Cardinality({r \in In(b) : r.status = "Up"}),
       syncMin |-> Extreme(Min, {r.sync : r \in In(b)}), syncMax |-> Extreme(Max, {r.sync : r \in In(b)}),
       resyncs |-> Cardinality({r \in In(b) : Restarted(r)})] : b \in {BucketOf(r.ts, width) : r \in rows}}

\* Per interface: a counter that went back, or has no predecessor, moved nothing we know of.
Moved_NoReset(rows, r) ==
  LET p == Newest({q \in rows : q.name = r.name /\ q.ts < r.ts})
  IN IF p # Null /\ p.bytes <= r.bytes THEN r.bytes - p.bytes ELSE r.bytes
Moved(rows, r) ==
  LET p == Newest({q \in rows : q.name = r.name /\ q.ts < r.ts})
  IN IF p # Null /\ p.bytes <= r.bytes THEN r.bytes - p.bytes ELSE 0

BucketRouterThroughput(db, from, to, width, role) ==
  LET rows == {r \in Within(db.intf, from, to) : role # Null => r.role = role}
      In(k) == {r \in rows : BucketOf(r.ts, width) = k[1] /\ r.role = k[2]}
  IN {[bucket |-> k[1], role |-> k[2], samples |-> Cardinality(In(k)), names |-> {r.name : r \in In(k)},
       bytes |-> MapThenSumSet(LAMBDA r : Moved(rows, r), In(k))] :
        k \in {<<BucketOf(r.ts, width), r.role>> : r \in rows}}
=============================================================================
