---------------------------- MODULE ScreenWorld ----------------------------
(***************************************************************************)
(* What the page shows of the world of RecordWorld: its figures, tints and *)
(* words, for every range and width of bucket, against what was the case.  *)
(* A page stays open while the cycles go by: it polls the status and the   *)
(* router, with or without an answer, holds on to what it was told, and is *)
(* drawn again only when it was told something else than before.           *)
(***************************************************************************)
EXTENDS CarrierWorld, Dashboard

ASSUME ScreenAssumption == IsFiniteSet(WanTargets)
ASSUME AbsentIsNoRow ==
  LET Figure == Nat \cup {Null}
  IN /\ Null \notin [ts : Nat, target : TargetNames, sent : Nat, received : Nat, loss : Nat,
                    med : Figure, min : Figure, max : Figure]
     /\ Null \notin [bucket : Int, target : TargetNames, count : Nat, med2 : Figure, p5 : Figure, p95 : Figure,
                    min : Figure, max : Figure, maxLoss : Int, loss : Int, down : Nat]
     /\ Null \notin [bucket : Int, cycles : Nat, vantage : Nat, links : SUBSET Nat, paths : SUBSET {Home, Away},
                    onHomeLine : {"unknown", "all", "none", "mixed"}, unknown : Int]
     /\ Null \notin [ts : Nat, watch : Figure, pathIf : {Home, Away, Null}, link : Figure, home : Figure,
                    gateway : {Home, Away, Null}, bytes : Figure, errs : Figure]
ASSUME AbsentIsNoLabel == Null \notin {"good", "warn", "bad", "home line"}

VARIABLE page  \* the open page: the answers it holds, what they go by, when it was last drawn

(* The page *)

\* The page's clock stands still between two draws, and on the grid of the cycles' length.
NowTick(at) == BucketOf(at, ProbeCycleS)

\* Opened, the page has waited for the status, not for the router.
ScreenInit ==
  /\ WorldInit
  /\ page = [status |-> Status(tables), asOf |-> 0, line |-> Null, drawn |-> Clock, served |-> 2, lost |-> 0]

\* What the page asks for when n cycles have gone by: every cycle the status, every second
\* one the router.
Due(n) == IF n % 2 = 0 THEN {"status", "router"} ELSE {"status"}

\* An answer that is the one held already draws nothing. The router's carries the time of
\* asking, and is always another. A stretch of cycles not fully answered counts once as odd.
PagePolls(answered) ==
  LET n == Len(happened')
      status == IF "status" \in answered THEN Status(tables') ELSE page.status
      draws == status # page.status \/ "router" \in answered
  IN /\ page' = [status |-> status,
                 asOf |-> IF "status" \in answered THEN n ELSE page.asOf,
                 line |-> IF "router" \in answered THEN RouterSnapshot(tables', Clock', StaleAfterS).line ELSE page.line,
                 drawn |-> IF draws THEN Clock' ELSE page.drawn,
                 served |-> IF answered = Due(n) THEN Least(page.served + 1, 2) ELSE 0,
                 lost |-> IF answered = Due(n) \/ page.served = 0 THEN page.lost ELSE page.lost + 1]
     /\ OddSoFar' + page'.lost <= MaxOdd

ScreenNext ==
  \E meets \in DOMAIN Meets, odd \in Oddities \cup {"none"}, answered \in SUBSET Due(Len(happened) + 1) :
    CycleHappens(meets, odd) /\ PagePolls(answered)

------------------------------------------------------------------------------
(* Properties *)

Spans == {n * ProbeCycleS : n \in 1..Len(happened)}
\* The page asks for no more slots than the last day has at the width of the last hour
\* (densify.ts MAX_SLOTS, range.ts RANGE_BUCKET).
MaxRangeSlots == 1440
Screens(width) ==
  {QuantiseWindow(RangeToWindow(span, Clock), width) : span \in {s \in Spans : s <= MaxRangeSlots * width}}
\* The newest cycle the page was told of, and whether it passes for current when drawn: up to
\* three cycles old, for the page's clock lags by up to one.
Told == {happened[i] : i \in {j \in 1..page.asOf : happened[j].odd # "missed"}}
LastTold == CHOOSE t \in Told : \A u \in Told : u.ts <= t.ts
Current == Told # {} /\ page.drawn - LastTold.ts < 3 * ProbeCycleS

BucketsOf(w, width) == BucketProbes(tables, w.from, w.to, width)
PointsOf(w, width) == ComparePointsFrom(BucketsOf(w, width), w, width)
DowntimeOf(w) == WindowDowntime(OutagesListed(tables, w.from, w.to, 0), w, NowTick(Clock))

TakenIn(from, to) == {t \in Recorded(0) : from <= t.ts /\ t.ts <= to}
NextTaken(t) == CHOOSE u \in Recorded(t.ts) : \A v \in Recorded(t.ts) : u.ts <= v.ts
NothingAnswered(t) == Meets[t.meets].wan = 0 /\ Meets[t.meets].gw = 0
NoAnchorAnswered(t) == Meets[t.meets].wan = 0 \/ \A x \in WanTargets : Silent(t, x)

\* The internet is shown down in no more cycles than no anchor answered in, and in all of a
\* bucket's cycles when none of them was answered (aggregate.ts foldInternetBuckets).
FoldProven ==
  \A width \in Widths : \A w \in Screens(width) : \A b \in FoldInternetBuckets(BucketsOf(w, width)) :
    LET held == {t \in TakenIn(w.from, w.to) : BucketOf(t.ts, width) = b.bucket}
        down == {t \in held : NoAnchorAnswered(t)}
    IN /\ b.down <= Cardinality(down)
       /\ down = held => b.down = b.count
       /\ b.count = Cardinality(held)

\* A window's answer fits its axis, and so does the answer for the window before a step of time
\* that stands in for it; every recorded cycle has its slot, every other slot is empty, and one
\* that holds an answer is never an empty one (densify.ts, queries.ts keepAcrossTimeAdvance).
SlotsTrue ==
  \A width \in Widths : \A w, v \in Screens(width) :
    LET shown == KeepAcrossTimeAdvance([query |-> "probes", from |-> w.from, to |-> w.to],
                   {b \in BucketsOf(v, width) : b.target = GatewayTarget},
                   [query |-> "probes", from |-> v.from, to |-> v.to])
        slots == IF shown = Null THEN <<>> ELSE DensifyBuckets(shown, w, width)
    IN shown # Null =>
         /\ ~Malformed(shown, w, width)
         /\ w = v => {b \in DOMAIN slots : slots[b] # Null}
                       = {BucketOf(t.ts, width) : t \in TakenIn(w.from, w.to)}

\* A volume shown without its caveat is all that crossed from the first counter read, in the
\* window or within one interval before it, to the last, save over a detour nobody recorded: a
\* cycle is counted on the path of the next one that was (throughput.ts, routes/index.tsx
\* volumeCaveat).
VolumeWhole ==
  \A width \in Widths : \A w \in Screens(width) :
    LET volume == ThroughputTotals(ThroughputPoints(BucketThroughput(tables, w.from, w.to, width), w, width))
        inside == Stamps(Within(tables.cycle, w.from, w.to))
        reach == Stamps(Within(tables.cycle, w.from - MaxIntervalS, w.to))
        first == IF \E ts \in reach : ts < Min(inside) THEN Max({ts \in reach : ts < Min(inside)}) ELSE Min(inside)
        crossed == {t \in InWindow(first + 1) : t.ts <= Max(inside) /\ PathOf(t) = PathOf(NextTaken(t))}
    IN (~VolumeCaveat(volume) /\ \A i \in DOMAIN happened : happened[i].odd # "reboot") =>
         inside # {} /\ volume.bytes = 2 * Cardinality(crossed)

\* A shape is drawn only of a window with an answer in every slot, the headline latency is one
\* that was measured or lies between two, the card and the section agree on the typical test,
\* and a link drawn at one speed ran at it in every cycle that read it (kpi.ts denseSparkline,
\* windowWanMedian, windowDownloadMedian; speed-stats.ts; vantage.ts linkBucketState).
ChartsTrue ==
  \A width \in Widths : \A w \in Screens(width) :
    LET points == PointsOf(w, width)
        answered == {t \in TakenIn(w.from, w.to) : Meets[t.meets].wan > 0}
        tests == Within(tables.speed, w.from, w.to)
        speed == SpeedWindowStats(tests)
    IN /\ DenseSparkline([b \in DOMAIN points |-> points[b].wan]) # Null =>
            SlotStarts(w, width) \subseteq {BucketOf(t.ts, width) : t \in answered}
       /\ WindowWanMedian(points) # Null =>
            \E t, u \in answered : 2 * Meets[t.meets].rtt <= WindowWanMedian(points)
                                   /\ WindowWanMedian(points) <= 2 * Meets[u.meets].rtt
       /\ speed.p50 = WindowDownloadMedian(tests) /\ speed.runs + speed.failed = Cardinality(tests)
       /\ \A place \in BucketVantage(tables, w.from, w.to, width) :
            LET read == {t \in TakenIn(w.from, w.to) : BucketOf(t.ts, width) = place.bucket /\ t.odd # "blind"}
            IN /\ LinkBucketState(place) = "steady" => \A t, u \in read : LinkSpeed(t) = LinkSpeed(u)
               /\ LinkBucketState(place) = "no-vantage" <=> read = {}

\* The path's chip, the ratio and the ceilings speak of the newest cycle the page was told of,
\* and only while that one is current (vantage.ts, routes/index.tsx pathStats,
\* throughputRefLines).
PathIsNow ==
  LET tick == NowTick(page.drawn)
      vantage == page.status.vantage
  IN /\ HomeLineChip(vantage, tick) = "home line" =>
          Current /\ LastTold.odd # "blind" /\ PathOf(LastTold) = Home
     /\ CompareCarrierHost(page.line, vantage, tick) # Null =>
          Current /\ CompareCarrierHost(page.line, vantage, tick) = (100 * LinkSpeed(LastTold)) \div 250
     /\ ThroughputRefLines(page.line, vantage, tick) \subseteq {250} \cup (IF Current THEN {LinkSpeed(LastTold)} ELSE {})

\* No warning is behind a disclosure, each leads to a section, and what the coverage line
\* calls a footnote is a window of whose cycles since the first one at most a hundredth and one
\* more are missing (verdict-group.ts, verdict-section.ts, coverage.ts).
NothingBuried ==
  \A w \in Screens(ProbeCycleS) :
    LET verdicts == DeriveVerdicts(CollectVerdictInput(tables, w.from, w.to, Clock, TRUE))
        tiers == TriageVerdicts(GroupVerdicts(verdicts))
        c == RangeSummary(tables, w.from, w.to)
        since == CoverageSinceFirst(c, w)
    IN /\ UnmappedVerdictIds(verdicts) = {}
       /\ \A v \in verdicts : v.severity \in {"warn", "critical"} =>
            \E g \in tiers.critical \cup tiers.warn : v \in g.instances
       /\ CoverageKind(c) = "info" \/ (since # Null /\ since >= 99) =>
            LET after == {t \in InWindow(c.firstTs) : t.ts <= w.to}
            IN 100 * (Cardinality({t \in after : t.odd = "missed"}) - 1) <= Cardinality(after)

\* What the page draws is what was the case.
ScreenIsTrue == FoldProven /\ SlotsTrue /\ VolumeWhole /\ ChartsTrue /\ PathIsNow /\ NothingBuried

\* Green is earned: the page says that all is up, colours a reading or a window green, or sets
\* a window against the one before, only when somebody watched. Up: the newest cycle the page was
\* told of had an answer from the gateway and from an anchor and is less than three cycles old
\* when the page is drawn, and while its polls are answered the page is drawn again within a
\* cycle of now, also when the collector is dead. A green window: in nine tenths of its slots a
\* recorded cycle was answered, and no recorded cycle of it was dead (status-bar.tsx Verdict and
\* Reading, routes/index.tsx nowTick, kpi.ts downtimeTint, compareWindows).
GreenIsWatched ==
  LET tick == NowTick(page.drawn)
      Answered(from, to, width) == {BucketOf(t.ts, width) : t \in {u \in TakenIn(from, to) : ~NothingAnswered(u)}}
      Watched(w, width) == 10 * Cardinality(Answered(w.from, w.to, width)) >= 9 * Cardinality(SlotStarts(w, width))
  IN /\ AllSystemsUp(page.status, tick) =>
          Current /\ Meets[LastTold.meets].wan > 0 /\ Meets[LastTold.meets].gw > 0
     /\ ReadingTone(LiveInternet(page.status.samples), tick) = "green" =>
          Current /\ Meets[LastTold.meets].wan = 4 /\ \A w \in WanTargets : ~Silent(LastTold, w)
     /\ ReadingTone(LiveGateway(page.status.samples), tick) = "green" => Current /\ Meets[LastTold.meets].gw = 4
     /\ page.served = 2 => Clock - page.drawn <= ProbeCycleS
     /\ \A width \in Widths : \A w \in Screens(width) :
          LET points == PointsOf(w, width)
              before == WindowBefore(w)
          IN /\ DowntimeTint(DowntimeOf(w), w.to - w.from, points) = "good" =>
                  Watched(w, width) /\ \A t \in TakenIn(w.from, w.to - 1) : Meets[t.meets].wan > 0 /\ Meets[t.meets].gw > 0
             /\ CompareWindows(WorstBucketLoss(points), WorstBucketLoss(PointsOf(before, width)), FALSE,
                               points, PointsOf(before, width)) # Null =>
                  Watched(w, width) /\ Watched(before, width)

\* Nothing is presented as current that is two cycles old when the page is drawn
\* (web/src/lib/freshness.ts STALE_AFTER_MS).
StaleAtTwoCycles ==
  Reporting(page.status, NowTick(page.drawn)) => page.drawn - LatestSampleTs(page.status.samples) < 2 * ProbeCycleS

\* The worst stretch is at least as bad as every stretch that was recorded (kpi.ts
\* worstBucketLoss).
WorstIsShown ==
  \A width \in Widths : \A w \in Screens(width) : \A b \in BucketsOf(w, width) :
    WorstBucketLoss(PointsOf(w, width)) # Null => b.loss <= WorstBucketLoss(PointsOf(w, width))
=============================================================================
