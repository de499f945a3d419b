---------------------------- MODULE RecordWorld ----------------------------
(***************************************************************************)
(* What the dashboard says, against what was really the case.  A world     *)
(* runs cycle by cycle (what became of the echoes and why, which path and  *)
(* link carried them, what the collector missed), the tables are filled as *)
(* the ingest route fills them, and the invariants compare every answer of *)
(* the probe routes and of the verdict layer with that world, for every    *)
(* window that ends now.                                                   *)
(***************************************************************************)
EXTENDS Verdict

CONSTANTS
  Home, Away,    \* the interface of the home line, and the one failed over to
  Phase,         \* where in a slot of the page's clock the cycles begin
  ReadAfterS,    \* how long after the newest cycle began somebody reads
  MaxCycles,     \* bound: cycles
  MaxOdd         \* bound: how much out of the ordinary happens

ASSUME WorldAssumption == Home # Away
\* An instant of the clock is any instant; whoever reads finds the newest cycle's echoes in.
ASSUME InstantAssumption == Phase \in 0..(ProbeCycleS - 1) /\ ReadAfterS \in 10..ProbeCycleS

VARIABLES tables, happened, counter

worldVars == <<tables, happened, counter>>

(* What a cycle meets: how many of four echoes the gateway and the anchors answer, whether *)
(* the home gateway carried what reached the anchors, how it comes about. In `first` and   *)
(* `rest` part of the anchors is silent, the others answer as in `clear`.                  *)
Meets == [
  clear |-> [gw |-> 4, wan |-> 4, forwards |-> TRUE,  local |-> FALSE, rtt |-> 10],
  slow  |-> [gw |-> 4, wan |-> 4, forwards |-> TRUE,  local |-> FALSE, rtt |-> 30],
  stall |-> [gw |-> 4, wan |-> 4, forwards |-> TRUE,  local |-> TRUE,  rtt |-> 10],
  first |-> [gw |-> 4, wan |-> 4, forwards |-> TRUE,  local |-> FALSE, rtt |-> 10],
  rest  |-> [gw |-> 4, wan |-> 4, forwards |-> TRUE,  local |-> FALSE, rtt |-> 10],
  lossy |-> [gw |-> 4, wan |-> 2, forwards |-> TRUE,  local |-> FALSE, rtt |-> 20],
  cut   |-> [gw |-> 4, wan |-> 0, forwards |-> FALSE, local |-> FALSE, rtt |-> 10],
  mute  |-> [gw |-> 0, wan |-> 4, forwards |-> TRUE,  local |-> FALSE, rtt |-> 10],
  lan   |-> [gw |-> 2, wan |-> 2, forwards |-> TRUE,  local |-> TRUE,  rtt |-> 10],
  dead  |-> [gw |-> 0, wan |-> 0, forwards |-> FALSE, local |-> FALSE, rtt |-> 10],
  slip  |-> [gw |-> 0, wan |-> 4, forwards |-> FALSE, local |-> TRUE,  rtt |-> 10],
  away  |-> [gw |-> 0, wan |-> 4, forwards |-> FALSE, local |-> FALSE, rtt |-> 10]]

\* What else is out of the ordinary: the cycle is not recorded, its vantage is not read, the
\* sampler does not run, the link is at a tenth, the host has restarted, a speed test runs.
Oddities == {"missed", "blind", "unwatched", "slowlink", "reboot", "test"}

\* An absence of the collector counts once, however long it is.
StillAway(i) == i > 1 /\ happened[i].odd = "missed" /\ happened[i - 1].odd = "missed"
OddAt(i) ==
  (IF happened[i].meets = "clear" THEN 0 ELSE 1) + (IF happened[i].odd = "none" \/ StillAway(i) THEN 0 ELSE 1)
OddSoFar == MapThenSumSet(OddAt, DOMAIN happened)

\* A cycle begins when the loop comes round, which is at no particular instant of the grid
\* the page's clock is on.
CycleTs(n) == n * ProbeCycleS + Phase
\* The moment somebody reads.
Clock == CycleTs(Len(happened)) + ReadAfterS
PathOf(t) == IF t.meets = "away" THEN Away ELSE Home
LinkSpeed(t) == IF t.odd = "slowlink" THEN 100 ELSE 1000

WorldInit ==
  /\ happened = <<>>
  /\ counter = [i \in {Home, Away} |-> IF i = Home THEN 0 ELSE 9]
  /\ tables = [sample |-> {}, cycle |-> {}, outage |-> {}, event |-> {}, speed |-> {}, intf |-> {},
               line |-> {[ts |-> 0, status |-> "Up", sync |-> 250, showtime |-> Null]}]

\* The rows of one cycle: a lost echo has no round trip, a stall shows in the worst one.
Rtts(t, n) == [k \in 1..n |-> IF t.meets = "stall" /\ k = n THEN 10 * Meets[t.meets].rtt ELSE Meets[t.meets].rtt]
FirstAnchor == CHOOSE w \in WanTargets : TRUE
Silent(t, w) == (t.meets = "first" /\ w = FirstAnchor) \/ (t.meets = "rest" /\ w # FirstAnchor)
SampleRows(t) ==
  {Sample(t.ts, GatewayTarget, 4, Rtts(t, Meets[t.meets].gw))}
    \cup {Sample(t.ts, w, 4, Rtts(t, IF Silent(t, w) THEN 0 ELSE Meets[t.meets].wan)) : w \in WanTargets}
CycleRow(t, bytes) ==
  LET read == t.odd # "blind"
  IN [ts |-> t.ts, watch |-> IF t.odd = "unwatched" THEN Null ELSE ProbeCycleS,
      pathIf |-> IF read THEN PathOf(t) ELSE Null, link |-> IF read THEN LinkSpeed(t) ELSE Null,
      home |-> IF ~read THEN Null ELSE IF PathOf(t) = Home THEN 1 ELSE 0,
      gateway |-> IF read THEN PathOf(t) ELSE Null,
      bytes |-> IF read THEN bytes ELSE Null, errs |-> IF read THEN 0 ELSE Null]

\* The outage rows after one more cycle of a scope (OutageRecord is what they amount to).
AfterCycle(rows, scope, ts, down) ==
  LET open == {o \in rows : o.scope = scope /\ o.endedAt = Null}
  IN CASE down /\ open = {} -> rows \cup {[scope |-> scope, startedAt |-> ts, endedAt |-> Null, cycles |-> 1]}
       [] down /\ open # {} -> (rows \ open) \cup {[o EXCEPT !.cycles = @ + 1] : o \in open}
       [] OTHER -> (rows \ open) \cup {[o EXCEPT !.endedAt = ts] : o \in open}

\* The link slips as the cycle begins: down, then up again. The sampler saw it if it ran.
EventRows(t) ==
  IF t.meets = "slip" /\ t.odd # "unwatched"
  THEN {[ts |-> t.ts + 1, source |-> "link-sampler"], [ts |-> t.ts + 2, source |-> "link-sampler"]} ELSE {}

\* One cycle of the world and, when the collector runs, of the record. Two units cross the
\* interface in it; the counters start over with the host.
CycleHappens(meets, odd) ==
  LET t == [ts |-> CycleTs(Len(happened) + 1), meets |-> meets, odd |-> odd]
      kept == IF odd = "reboot" THEN [i \in DOMAIN counter |-> 0] ELSE counter
      bytes == kept[PathOf(t)] + 2
      wan == AfterCycle(tables.outage, "wan", t.ts, Meets[meets].wan = 0)
  IN /\ Len(happened) < MaxCycles
     /\ happened' = Append(happened, t) /\ OddSoFar' <= MaxOdd
     /\ counter' = [kept EXCEPT ![PathOf(t)] = bytes]
     /\ tables' =
          IF odd = "missed" THEN tables
          ELSE [tables EXCEPT
            !.sample = @ \cup SampleRows(t), !.cycle = @ \cup {CycleRow(t, bytes)}, !.event = @ \cup EventRows(t),
            !.outage = AfterCycle(wan, "gateway", t.ts, Meets[meets].gw = 0),
            !.speed = IF odd = "test" THEN @ \cup {[ts |-> t.ts, mbit |-> IF Meets[meets].wan = 0 THEN Null ELSE 940]} ELSE @]

WorldNext == \E meets \in DOMAIN Meets, odd \in Oddities \cup {"none"} : CycleHappens(meets, odd)

------------------------------------------------------------------------------
(* Properties *)

\* A window starts where a slot does, or with a cycle.
Windows == {n * ProbeCycleS + offset : n \in {k \in 0..Len(happened) : happened # <<>>}, offset \in {0, Phase}}
Widths == {ProbeCycleS, 2 * ProbeCycleS}
At(ts) == happened[ts \div ProbeCycleS]
InWindow(from) == {happened[i] : i \in {j \in DOMAIN happened : happened[j].ts >= from}}
Recorded(from) == {t \in InWindow(from) : t.odd # "missed"}
Verdicts(from) == DeriveVerdicts(CollectVerdictInput(tables, from, Clock, Clock, TRUE))
Calls(from, rule) == {v \in Verdicts(from) : v.id = rule}

\* When no verdict calls the collector silent or the window badly covered, the last cycle is
\* at most two cycles old, and since the first one the window holds at most a tenth of the
\* cycles and one more went unrecorded (verdict.ts collectorSilent, probeCoverageLow).
SilenceIsCalled ==
  \A from \in Windows :
    (\A v \in Verdicts(from) : v.id \notin {"no_data", "collector_silent", "probe_coverage_low", "coverage_unknown"}) =>
      LET taken == {t.ts : t \in Recorded(from)}
          since == {t \in InWindow(from) : t.ts >= Min(taken)}
          gone == {t \in since : t.odd = "missed"}
      IN /\ taken # {} /\ Clock - Max(taken) <= 2 * ProbeCycleS
         /\ 10 * (Cardinality(gone) - 1) <= Cardinality(since)

\* "24 h, 0 min downtime" never stands alone over a window the collector was absent from: if
\* the record goes back to before the window, no verdict on coverage means nine tenths of the
\* window were recorded (verdict.ts probeCoverageLow).
GapIsCalled ==
  \A from \in Windows :
    /\ \E s \in tables.sample : s.ts <= from
    /\ ProbeCoverageLow(from, Clock, RangeSummary(tables, from, Clock)) = {}
    => 10 * (Cardinality({t \in InWindow(from) : t.odd = "missed"}) - 1) <= Cardinality(InWindow(from))

\* A window is called all of the home line only when every recorded cycle was read and was on
\* it, and none of it only when every one was read and was elsewhere (range-summary.ts,
\* bucket-probes.ts homeLineVerdict).
HomeClaim ==
  \A from \in Windows :
    LET says == RangeSummary(tables, from, Clock).onHomeLine
    IN /\ says = "all" => \A t \in Recorded(from) : t.odd # "blind" /\ PathOf(t) = Home
       /\ says = "none" => \A t \in Recorded(from) : t.odd # "blind" /\ PathOf(t) = Away

\* The band encloses its centre, the spread encloses the band, and what the buckets count adds
\* up to the range's own figures and to the outage rows, whatever the width (bucket-probes.ts,
\* range-summary.ts, outage-detector.ts).
BucketsAddUp ==
  \A width \in Widths, from \in Windows :
    LET buckets == BucketProbes(tables, from, Clock, width)
        Of(target) == {b \in buckets : b.target = target}
        places == BucketVantage(tables, from, Clock, width)
        range == RangeSummary(tables, from, Clock)
    IN /\ \A b \in buckets : b.med2 # Null =>
            2 * b.min <= 2 * b.p5 /\ 2 * b.p5 <= b.med2 /\ b.med2 <= 2 * b.p95 /\ b.p95 <= b.max
       /\ \A target \in TargetNames : MapThenSumSet(LAMBDA b : b.count, Of(target)) = range.recorded
       /\ MapThenSumSet(LAMBDA p : p.cycles, places) = range.recorded
       /\ MapThenSumSet(LAMBDA p : p.unknown, places) = range.unknown
       /\ from = 0 => MapThenSumSet(LAMBDA b : b.down, Of(GatewayTarget))
                        = MapThenSumSet(LAMBDA o : o.cycles, {o \in tables.outage : o.scope = "gateway"})

\* No cycle is both downtime and degradation, and every recorded cycle in which no anchor
\* answered lies in an outage the window lists, long or short (outages.ts, range-summary.ts).
DowntimeIsListed ==
  \A from \in Windows :
    LET listed == {o \in OutagesListed(tables, from, Clock, 0) : o.scope = "wan"}
        down == {t \in Recorded(from) : Meets[t.meets].wan = 0}
        Covers(o, t) == o.startedAt <= t.ts /\ (o.endedAt # Null => t.ts < o.endedAt)
    IN /\ \A t \in down : \E o \in listed : Covers(o, t)
       /\ Degraded(tables, from, Clock) \cap {t.ts : t \in down} = {}

\* What a window says moved is at most what crossed the interfaces in it, up to the length of
\* the longest interval before it, no width of the buckets changes the sum, and bytes over span
\* is the true rate while the host neither restarts nor leaves its path (bucket-throughput.ts).
VolumeIsReal ==
  \A from \in Windows :
    LET Total(width) == MapThenSumSet(LAMBDA b : b.bytes, BucketThroughput(tables, from, Clock, width))
        Span(width) == MapThenSumSet(LAMBDA b : b.span, BucketThroughput(tables, from, Clock, width))
    IN /\ Total(ProbeCycleS) <= 2 * Cardinality(InWindow(from - MaxIntervalS))
       /\ \A width \in Widths : Total(width) = Total(ProbeCycleS)
       /\ (\A t \in {happened[i] : i \in DOMAIN happened} : t.odd # "reboot" /\ PathOf(t) = Home)
            => ProbeCycleS * Total(ProbeCycleS) = 2 * Span(ProbeCycleS)

\* A gateway's outage is called uncorroborated without reserve only when the home gateway
\* carried the answers of that cycle or nobody watched the link in it (verdict.ts
\* gatewayOutageUncorroborated, applyLinkGate).
ContradictionIsReal ==
  \A from \in Windows : \A v \in Calls(from, "gateway_outage_uncorroborated") :
    ~v.hedged => Meets[At(v.about).meets].forwards \/ At(v.about).odd = "unwatched"

\* What is blamed on the host or the LAN happened there: the loss that hit the gateway and
\* every anchor alike, the stall of all targets at once (verdict.ts symmetricLossNotLine,
\* subCyclePathStall; verdict-queries.ts symmetricLoss, pathStalls).
LocalClaimsTrue ==
  \A from \in Windows :
    \A ts \in SymmetricCycles(tables, from, Clock) \cup {v.about : v \in Calls(from, "sub_cycle_path_stall")} :
      Meets[At(ts).meets].local

\* A test is said to have outrun the recorded link only when no cycle of the window recorded
\* one as fast as the test needs, and the link is called the cap only when every cycle of the
\* window that read it was on the home line over that slow a link (verdict.ts
\* throughputExceedsLink, linkBelowCarrierSync).
LinkClaimsTrue ==
  \A from \in Windows :
    LET read == {t \in Recorded(from) : t.odd # "blind"}
    IN /\ Calls(from, "throughput_exceeds_link") # {} => \A t \in read : LinkSpeed(t) = 100
       /\ \A v \in Calls(from, "link_below_carrier_sync") :
            \A t \in read : LinkSpeed(t) = v.cause /\ PathOf(t) = Home

\* What is said of the home line is so, and the verdicts that put the blame somewhere put it
\* where it belongs (range-summary.ts, verdict.ts).
ClaimsTrue == HomeClaim /\ ContradictionIsReal /\ LocalClaimsTrue /\ LinkClaimsTrue
=============================================================================
