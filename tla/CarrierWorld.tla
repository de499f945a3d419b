---------------------------- MODULE CarrierWorld ----------------------------
(***************************************************************************)
(* The carrier's side of the record, against what the line really did.     *)
(* Minute by minute the anchors answer or fail to, because of the line,    *)
(* the host's link or something further out, the line comes up, the link   *)
(* sampler watches or does not, the router is polled, late or in vain.     *)
(* The invariants compare the dated resyncs, the outage they are given as  *)
(* the cause of, and the router's history with that world.                 *)
(***************************************************************************)
EXTENDS RecordWorld

CONSTANTS
  MaxMinutes,  \* bound: cycles
  MaxAsides,   \* bound: how much out of the ordinary happens
  StaleAfterS  \* routerConfig.staleAfterMs

\* A poll is answered before the next cycle.
ASSUME CarrierAssumption == ProbeCycleS > 20 /\ StaleAfterS \in Nat

\* A resync is ten seconds before a cycle, or seems to be fifteen earlier. Of the cycles around
\* it none can go unwatched and leave the share the link gate asks for.
ASSUME GateAssumption ==
  \A d \in {10, 25} :
    100 * ProbeCycleS * ((ResyncWindow + d) \div ProbeCycleS + (ResyncWindow - d) \div ProbeCycleS)
      < MinLinkShare * (2 * ResyncWindow)

VARIABLES carrier, minutes

carrierVars == <<carrier, minutes>>

(* Why the anchors do not answer, if they do not; a blip is over before an echo is lost. *)
Fates == {"up", "blip", "line", "host", "far"}
Polls == {"ok", "late", "unread", "none"}

AsideOf(m) == Cardinality({k \in 1..3 : <<m.fate # "up", m.poll # "ok", ~m.watched>>[k]})
AsidesSoFar == MapThenSumSet(LAMBDA i : AsideOf(minutes[i]), DOMAIN minutes)

CarrierInit ==
  /\ minutes = <<>>
  /\ carrier = [sample |-> {}, cycle |-> {}, outage |-> {}, event |-> {}, speed |-> {}, line |-> {}, intf |-> {}]

Minute == CycleTs(Len(minutes))
FateBefore == IF minutes = <<>> THEN "up" ELSE Last(minutes).fate

\* When the line last came up, after the minute m: ten seconds before its cycle.
UpAt(m) ==
  IF m.fate = "blip" \/ (FateBefore = "line" /\ m.fate # "line") THEN m.ts - 10
  ELSE IF minutes = <<>> THEN 0 - 1000 ELSE Last(minutes).upAt

\* The sampler reports the link's fall and its return, if it runs at the time.
HostMoved(m) == (m.fate = "host") # (FateBefore = "host")

\* The rows of a poll. The counter of showtime is read a little later than the clock; a line
\* that is down has none, and then no interface carries the role of the WAN.
LineRow(m) ==
  [ts |-> m.ts + 20, status |-> IF m.fate = "line" THEN "NoSignal" ELSE "Up", sync |-> 250,
   showtime |-> IF m.fate = "line" \/ m.poll = "unread" THEN Null
                ELSE m.ts + 20 - m.upAt + (IF m.poll = "late" THEN 15 ELSE 0)]
IntfRows(m) ==
  {[ts |-> m.ts + 20, name |-> "br0", role |-> "lan", bytes |-> 50 + 3 * (Len(minutes) + 1)]}
    \cup (IF m.fate = "line" THEN {}
          ELSE {[ts |-> m.ts + 20, name |-> "ppp0", role |-> "wan", bytes |-> m.wanBytes]})

\* The WAN's counter starts over with its session, two units a minute cross it.
WanBytes(m) ==
  IF m.fate = "line" THEN 0
  ELSE IF UpAt(m) = m.ts - 10 \/ minutes = <<>> THEN 2 ELSE Last(minutes).wanBytes + 2

MinutePasses(fate, poll, watched) ==
  LET ask == [ts |-> Minute + ProbeCycleS, fate |-> fate, poll |-> poll, watched |-> watched]
      m == [ts |-> ask.ts, fate |-> fate, poll |-> poll, watched |-> watched,
            upAt |-> UpAt(ask), wanBytes |-> WanBytes(ask)]
      down == fate \in {"line", "host", "far"}
      seen == [ts |-> m.ts, watch |-> IF watched THEN ProbeCycleS ELSE Null,
               link |-> Null, pathIf |-> Home, home |-> 1, gateway |-> Home, bytes |-> Null, errs |-> Null]
  IN /\ Len(minutes) < MaxMinutes /\ AsidesSoFar + AsideOf(ask) <= MaxAsides
     /\ minutes' = Append(minutes, m)
     /\ carrier' = [carrier EXCEPT
          !.cycle = @ \cup {seen},
          !.outage = AfterCycle(@, "wan", m.ts, down),
          !.event = IF HostMoved(ask) /\ watched THEN @ \cup {[ts |-> m.ts - 5, source |-> "link-sampler"]} ELSE @,
          !.line = IF poll = "none" THEN @ ELSE @ \cup {LineRow(m)},
          !.intf = IF poll = "none" THEN @ ELSE @ \cup IntfRows(m)]

CarrierNext == \E fate \in Fates, poll \in Polls, watched \in BOOLEAN : MinutePasses(fate, poll, watched)

------------------------------------------------------------------------------
(* Properties *)

Elapsed == DOMAIN minutes
ReadNow == Minute + 30
Froms == {CycleTs(n) : n \in {k \in 0..Len(minutes) : minutes # <<>>}}
TrueStarts == {minutes[i].upAt : i \in Elapsed}
Dated(from) == CarrierResyncDated(ResyncClusters(carrier, from, ReadNow))

\* A dated resync is one that took place, to the delay of a poll, and no resync is dated twice
\* (verdict-queries.ts resyncClusters, verdict.ts carrierResyncDated).
ResyncIsReal ==
  \A from \in Froms :
    /\ \A v \in Dated(from) : \E s \in TrueStarts : s - v.about \in 0..15
    /\ \A s \in TrueStarts : Cardinality({v \in Dated(from) : s - v.about \in 0..15}) <= 1

\* An outage is called the line's only when no cycle of it around the resync failed because
\* of the host's own link (verdict.ts carrierResyncDated, linkCertain).
CauseIsLicensed ==
  \A from \in Froms : \A v \in Dated(from) :
    v.cause # Null =>
      LET o == CHOOSE x \in carrier.outage : x.startedAt = v.cause
      IN ~\E i \in Elapsed :
            /\ minutes[i].fate = "host" /\ minutes[i].ts \in o.startedAt..(o.endedAt - 1)
            /\ minutes[i].ts \in (v.about - ResyncWindow)..(v.about + ResyncWindow)

\* The carrier's resync and the outage it explains are both real (verdict.ts).
CarrierClaimsTrue == ResyncIsReal /\ CauseIsLicensed

\* The router's history invents nothing: it counts no restart of the line that was none, no
\* byte that did not cross an interface of the role, and what it shows as current was read
\* lately (range.ts bucketRouterLine, bucketRouterThroughput; poll.ts readRouterSnapshot).
HistoryIsReal ==
  LET now == RouterSnapshot(carrier, ReadNow, StaleAfterS)
      Total(role, from) == MapThenSumSet(LAMBDA b : b.bytes,
                             {b \in BucketRouterThroughput(carrier, from, ReadNow, ProbeCycleS, Null) : b.role = role})
      Restarts(from) == MapThenSumSet(LAMBDA b : b.resyncs, BucketRouterLine(carrier, from, ReadNow, ProbeCycleS))
      Up(from) == {i \in Elapsed : minutes[i].ts >= from /\ minutes[i].fate # "line"}
  IN /\ \A from \in Froms :
          ResolveRange(from, ReadNow, ProbeCycleS) = "ok" =>
            /\ Restarts(from) <= Cardinality({s \in TrueStarts : s >= from})
            /\ Total("wan", from) <= 2 * Cardinality(Up(from))
            /\ Total("lan", from) <= 3 * Cardinality({i \in Elapsed : minutes[i].ts >= from})
     /\ \A part \in {now.line, now.wan, now.lan} \ {Null} : ~part.stale =>
          \E i \in Elapsed : minutes[i].poll # "none" /\ ReadNow - minutes[i].ts <= StaleAfterS + 20
     /\ now.wan # Null => (now.wan.stale <=>
          ~\E i \in Elapsed : minutes[i].poll # "none" /\ minutes[i].fate # "line" /\ ReadNow - minutes[i].ts - 20 <= StaleAfterS)
=============================================================================
