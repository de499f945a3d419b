---------------------------- MODULE ScreenProofs ----------------------------
(***************************************************************************)
(* Theorems of ScreenWorld.tla for every cycle length, every set of        *)
(* anchors, and every number of cycles and of things out of the ordinary:  *)
(* what the page says is up was up in the newest cycle it was told of,     *)
(* what it colours green was measured and was so, it compares only windows *)
(* that were watched, and its slots, bounds, volumes, shapes, headlines    *)
(* and chips are of what was the case.                                     *)
(***************************************************************************)
EXTENDS ScreenWorld, RecordProofs

-----------------------------------------------------------------------------
(* Outages end where a cycle was recorded. *)

\* An outage ended with a recorded cycle, and every recorded cycle in which the gateway did not
\* answer lies in one of the gateway's.
OutagesEnd ==
  /\ \A o \in tables.outage : o.endedAt # Null => \E i \in Kept : o.endedAt = CycleTs(i)
  /\ \A i \in Kept : Meets[happened[i].meets].gw = 0 =>
       \E o \in tables.outage : o.scope = "gateway" /\ Covers(o, CycleTs(i))

\* One cycle ends an outage at its own instant, or not at all.
LEMMA AfterEnds ==
  ASSUME NEW rows \in SUBSET OutageRow, NEW scope, NEW ts \in Nat, NEW down \in BOOLEAN
  PROVE  \A o \in AfterCycle(rows, scope, ts, down) :
           o.endedAt = Null \/ o.endedAt = ts \/ \E p \in rows : o.endedAt = p.endedAt
<1> DEFINE after == AfterCycle(rows, scope, ts, down)
           open == {o \in rows : o.scope = scope /\ o.endedAt = Null}
           new == [scope |-> scope, startedAt |-> ts, endedAt |-> Null, cycles |-> 1]
           Longer(o) == [o EXCEPT !.cycles = @ + 1]
           Closed(o) == [o EXCEPT !.endedAt = ts]
<1>1. new.endedAt = Null
  OBVIOUS
<1>2. ASSUME NEW o \in rows PROVE Longer(o).endedAt = o.endedAt /\ Closed(o).endedAt = ts
  BY DEF OutageRow
<1>3. \/ after = rows \cup {new}
      \/ after = (rows \ open) \cup {Longer(o) : o \in open}
      \/ after = (rows \ open) \cup {Closed(o) : o \in open}
  BY Zenon DEF AfterCycle
<1> HIDE DEF after, open, new, Longer, Closed
<1>4. open \subseteq rows
  BY DEF open
<1> QED BY <1>1, <1>2, <1>3, <1>4 DEF after

\* A cycle keeps it so.
LEMMA CycleEnds ==
  ASSUME WorldInv, OutagesEnd, NEW meets \in DOMAIN Meets, NEW odd \in Oddities \cup {"none"},
         CycleHappens(meets, odd)
  PROVE  OutagesEnd'
<1> DEFINE n == Len(happened)
           t == [ts |-> CycleTs(n + 1), meets |-> meets, odd |-> odd]
           wan == AfterCycle(tables.outage, "wan", t.ts, Meets[meets].wan = 0)
           outage == AfterCycle(wan, "gateway", t.ts, Meets[meets].gw = 0)
<1>1. /\ n \in Nat /\ happened'[n + 1] = t
      /\ \A i \in 1..n : happened'[i] = happened[i]
      /\ Kept \subseteq 1..n /\ Kept' = IF odd = "missed" THEN Kept ELSE Kept \cup {n + 1}
      /\ \A i \in Kept : CycleTs(i) < CycleTs(n + 1) /\ CycleTs(i) \in Nat
      /\ odd = "missed" => tables' = tables
      /\ odd # "missed" => tables'.outage = outage
  BY CycleLeaves
<1>2. t.ts = CycleTs(n + 1) /\ t.meets = meets /\ t.ts \in Nat
  BY <1>1, Stamp
<1>3. \A i \in Kept : happened'[i] = happened[i]
  BY <1>1
<1> HIDE DEF t
<1>4. CASE odd = "missed"
  <2>1. Kept' = Kept /\ tables' = tables
    BY <1>1, <1>4
  <2> QED BY <1>3, <2>1 DEF OutagesEnd
<1>5. CASE odd # "missed"
  <2>1. Kept' = Kept \cup {n + 1} /\ tables'.outage = outage
    BY <1>1, <1>5
  <2>2. PICK down \in BOOLEAN, dead \in BOOLEAN : down = (Meets[meets].wan = 0) /\ dead = (Meets[meets].gw = 0)
    OBVIOUS
  <2>3. /\ tables.outage \subseteq OutageRow
        /\ \A o \in tables.outage : \E i \in Kept : o.startedAt = CycleTs(i)
    BY DEF WorldInv, OutagesKept
  <2>4. wan = AfterCycle(tables.outage, "wan", t.ts, down)
    BY <2>2
  <2>5. outage = AfterCycle(wan, "gateway", t.ts, dead)
    BY <2>2
  <2> HIDE DEF wan, outage
  <2>6. Follows(wan, tables.outage, "wan", t.ts, down)
    BY <1>2, <2>3, <2>4, AfterCycleFacts
  <2>7. wan \subseteq OutageRow
    BY <2>6 DEF Follows
  <2>8. Follows(outage, wan, "gateway", t.ts, dead)
    BY <1>2, <2>5, <2>7, AfterCycleFacts
  <2>9. ASSUME NEW o \in outage, o.endedAt # Null PROVE \E i \in Kept' : o.endedAt = CycleTs(i)
    <3>1. \A p \in wan : p.endedAt = Null \/ p.endedAt = t.ts \/ \E q \in tables.outage : p.endedAt = q.endedAt
      BY <1>2, <2>3, <2>4, AfterEnds
    <3>2. o.endedAt = t.ts \/ \E p \in wan : o.endedAt = p.endedAt
      BY <1>2, <2>5, <2>7, <2>9, AfterEnds
    <3>3. o.endedAt = t.ts \/ \E q \in tables.outage : o.endedAt = q.endedAt
      BY <2>9, <3>1, <3>2
    <3> QED BY <1>2, <2>1, <2>9, <3>3 DEF OutagesEnd
  <2>10. ASSUME NEW i \in Kept', Meets[happened'[i].meets].gw = 0
         PROVE  \E o \in outage : o.scope = "gateway" /\ Covers(o, CycleTs(i))
    <3>1. CASE i \in Kept
      <4>1. PICK p \in tables.outage : p.scope = "gateway" /\ Covers(p, CycleTs(i))
        BY <1>3, <2>10, <3>1 DEF OutagesEnd
      <4>2. PICK q \in wan : q.scope = "gateway" /\ q.startedAt = p.startedAt /\ q.endedAt = p.endedAt
        BY <2>6, <4>1 DEF Follows
      <4>3. PICK o \in outage : /\ o.scope = "gateway" /\ o.startedAt = q.startedAt
                                /\ o.endedAt = q.endedAt \/ (q.endedAt = Null /\ o.endedAt = t.ts)
        BY <2>8, <4>2 DEF Follows
      <4>4. CycleTs(i) < t.ts
        BY <1>1, <1>2, <3>1
      <4> QED BY <4>1, <4>2, <4>3, <4>4 DEF Covers
    <3>2. CASE i = n + 1
      <4>1. dead
        BY <1>1, <1>2, <2>2, <2>10, <3>2
      <4>2. PICK o \in outage : /\ o.scope = "gateway" /\ o.endedAt = Null
                                /\ o.startedAt = t.ts \/ \E q \in wan : o.startedAt = q.startedAt
        BY <2>8, <4>1 DEF Follows
      <4>3. \A q \in wan : q.startedAt = t.ts \/ \E p \in tables.outage : q.startedAt = p.startedAt
        BY <2>6 DEF Follows
      <4>4. o.startedAt = t.ts \/ \E j \in Kept : o.startedAt = CycleTs(j)
        BY <2>3, <4>2, <4>3
      <4>5. o.startedAt <= t.ts
        BY <1>1, <1>2, <4>4
      <4> QED BY <1>2, <3>2, <4>2, <4>5 DEF Covers
    <3> QED BY <2>1, <3>1, <3>2
  <2> QED BY <2>1, <2>9, <2>10 DEF OutagesEnd
<1> QED BY <1>4, <1>5

\* What the page shows is of these tables.
ScreenInv == BooksInv /\ OutagesEnd

\* They are so at all times.
LEMMA ScreenHolds == WorldSpec => []ScreenInv
<1>1. WorldInit => OutagesEnd
  <2> SUFFICES ASSUME WorldInit PROVE OutagesEnd
    OBVIOUS
  <2>1. Len(happened) = 0 /\ 1..0 = {} /\ tables.outage = {}
    BY EmptyFacts DEF WorldInit
  <2> QED BY <2>1 DEF OutagesEnd, Kept
<1>2. BooksInv /\ OutagesEnd /\ [WorldNext]_worldVars => OutagesEnd'
  <2> SUFFICES ASSUME BooksInv, OutagesEnd, [WorldNext]_worldVars PROVE OutagesEnd'
    OBVIOUS
  <2>1. CASE WorldNext
    <3>1. PICK meets \in DOMAIN Meets : \E odd \in Oddities \cup {"none"} : CycleHappens(meets, odd)
      BY <2>1 DEF WorldNext
    <3>2. PICK odd \in Oddities \cup {"none"} : CycleHappens(meets, odd)
      BY <3>1
    <3> QED BY <3>1, <3>2, CycleEnds DEF BooksInv
  <2>2. CASE UNCHANGED worldVars
    <3>1. tables' = tables /\ happened' = happened /\ Kept' = Kept
      BY <2>2 DEF worldVars, Kept
    <3> QED BY <3>1 DEF OutagesEnd
  <2> QED BY <2>1, <2>2
<1> QED BY <1>1, <1>2, BooksHold, PTL DEF WorldSpec, ScreenInv

-----------------------------------------------------------------------------
(* Now. *)

\* The newest cycle that was recorded, of all and of the first n.
LastKept(i) == i \in Kept /\ \A j \in Kept : CycleTs(j) <= CycleTs(i)
KeptTo(n) == {i \in Kept : i <= n}
LastTo(i, n) == i \in KeptTo(n) /\ \A j \in KeptTo(n) : CycleTs(j) <= CycleTs(i)

\* Of all is of as many as there are.
LEMMA LastOfAll ==
  ASSUME WorldInv
  PROVE  Len(happened) \in Nat /\ \A i : LastTo(i, Len(happened)) <=> LastKept(i)
<1>1. Len(happened) \in Nat
  BY LenProperties DEF WorldInv, Ordered
<1>2. KeptTo(Len(happened)) = Kept
  BY <1>1 DEF KeptTo, Kept
<1> QED BY <1>1, <1>2 DEF LastTo, LastKept

\* The newest cycle the page was told of is the one the properties speak of.
LEMMA LastIs ==
  ASSUME WorldInv, page.asOf \in 0..Len(happened), NEW i, LastTo(i, page.asOf)
  PROVE  /\ Told # {} /\ LastTold = happened[i]
         /\ happened[i].ts = CycleTs(i) /\ i \in Nat /\ happened[i].meets \in DOMAIN Meets
<1>0. Len(happened) \in Nat /\ page.asOf \in Nat /\ page.asOf <= Len(happened)
  BY LastOfAll
<1>1. /\ happened \in Seq(Cycle)
      /\ \A j \in 1..Len(happened) : happened[j] \in Cycle /\ happened[j].ts = CycleTs(j) /\ j \in Nat
  BY <1>0, ElementOfSeq DEF WorldInv, Ordered
<1>2. Told = {happened[j] : j \in KeptTo(page.asOf)}
  <2>1. {j \in 1..page.asOf : happened[j].odd # "missed"} = KeptTo(page.asOf)
    BY <1>0 DEF KeptTo, Kept
  <2> QED BY <2>1 DEF Told
<1>3. \A j \in KeptTo(page.asOf) : j \in 1..Len(happened)
  BY DEF KeptTo, Kept
<1>4. i \in KeptTo(page.asOf) /\ \A j \in KeptTo(page.asOf) : CycleTs(j) <= CycleTs(i)
  BY DEF LastTo
<1>5. happened[i] \in Told /\ \A u \in Told : u.ts <= happened[i].ts
  BY <1>1, <1>2, <1>3, <1>4
<1>6. ASSUME NEW t \in Told, \A u \in Told : u.ts <= t.ts PROVE t = happened[i]
  <2>1. PICK j \in KeptTo(page.asOf) : t = happened[j]
    BY <1>2
  <2>2. /\ t.ts = CycleTs(j) /\ j \in Nat /\ happened[i].ts = CycleTs(i) /\ i \in Nat
        /\ CycleTs(j) \in Nat /\ CycleTs(i) \in Nat
    BY <1>1, <1>3, <1>4, <2>1, Stamp
  <2>3. CycleTs(j) = CycleTs(i)
    BY <1>4, <1>5, <1>6, <2>1, <2>2
  <2> QED BY <2>1, <2>2, <2>3, Stamp
<1>7. LastTold = happened[i]
  BY <1>5, <1>6 DEF LastTold
<1> QED BY <1>1, <1>3, <1>4, <1>5, <1>7 DEF Cycle

\* A sample is none of the values that are missing.
LEMMA SamplesAreThere == ASSUME WorldInv, NEW s \in tables.sample PROVE s # Null
<1> DEFINE Figure == Nat \cup {Null}
<1>1. PICK i \in Kept : s \in SampleRows(happened[i]) /\ s.ts = CycleTs(i) /\ InOrder(s)
  BY OneSample
<1>2. happened[i] \in Cycle /\ CycleTs(i) \in Nat /\ happened[i].ts = CycleTs(i)
  <2>1. 0 \in Nat
    OBVIOUS
  <2> QED BY <1>1, <2>1, RecordedCycles
<1>3. s.target \in TargetNames
  BY <1>1, SampleFields
<1>4. PICK n \in {0, 2, 4} : s.received = n /\ s.loss = 25 * (4 - n)
  <2>1. happened[i].meets \in DOMAIN Meets
    BY <1>2 DEF Cycle
  <2> QED BY <1>1, <2>1, SampleCounts
<1>5. \E ts, w, r : s = Sample(ts, w, 4, r)
  BY <1>1 DEF SampleRows
<1>6. s = [ts |-> s.ts, target |-> s.target, sent |-> 4, received |-> s.received, loss |-> s.loss,
           med |-> s.med, min |-> s.min, max |-> s.max]
  <2>1. PICK ts, w, r : s = Sample(ts, w, 4, r)
    BY <1>5
  <2> DEFINE a == Len(r) b == (100 * (4 - Len(r))) \div 4 c == Percentile(r, 50)
             d == IF r = <<>> THEN Null ELSE Min(ToSet(r)) e == IF r = <<>> THEN Null ELSE Max(ToSet(r))
  <2>2. s = [ts |-> ts, target |-> w, sent |-> 4, received |-> a, loss |-> b, med |-> c, min |-> d, max |-> e]
    BY <2>1 DEF Sample
  <2> HIDE DEF a, b, c, d, e
  <2> QED BY <2>2
<1>7. s \in [ts : Nat, target : TargetNames, sent : Nat, received : Nat, loss : Nat,
             med : Figure, min : Figure, max : Figure]
  BY <1>1, <1>2, <1>3, <1>4, <1>6 DEF InOrder
<1> QED BY <1>7, AbsentIsNoRow

\* What the status route has of each target is of the newest cycle.
LEMMA StatusIsNow ==
  ASSUME WorldInv
  PROVE  /\ \A s \in Status(tables).samples : \E i : LastKept(i) /\ s \in SampleRows(happened[i]) /\ s.ts = CycleTs(i)
         /\ \A i : LastKept(i) => \A target \in TargetNames : \E s \in Status(tables).samples : s.target = target
         /\ Status(tables).ongoing = {o \in tables.outage : o.endedAt = Null}
<1> DEFINE Mine(target) == {s \in tables.sample : s.target = target}
           samples == Status(tables).samples
<1>1. samples = {Newest(Mine(target)) : target \in TargetNames} \ {Null}
  BY DEF Status
<1>2. Status(tables).ongoing = {o \in tables.outage : o.endedAt = Null}
  BY DEF Status
<1> HIDE DEF samples
<1>3. ASSUME NEW i \in Kept PROVE CycleTs(i) \in Nat /\ CycleTs(i) <= Clock /\ Clock \in Nat
  <2>1. 0 \in Nat
    OBVIOUS
  <2>2. CycleTs(i) \in Nat /\ CycleTs(i) <= Clock - 10 /\ Clock \in Nat
    BY <2>1, RecordedCycles
  <2> QED BY <2>2
<1>4. ASSUME NEW target, Mine(target) # {}
      PROVE  Newest(Mine(target)) \in Mine(target) /\ \A r \in Mine(target) : r.ts <= Newest(Mine(target)).ts
  <2>1. \A r \in Mine(target) : r.ts \in Nat /\ r.ts <= Clock /\ Clock \in Nat
    BY <1>3, OneSample
  <2>2. Clock \in Nat
    BY <1>4, <2>1
  <2> HIDE DEF Mine
  <2> QED BY <1>4, <2>1, <2>2, NewestIs
<1>5. ASSUME NEW s \in samples PROVE \E i : LastKept(i) /\ s \in SampleRows(happened[i]) /\ s.ts = CycleTs(i)
  <2>1. PICK target \in TargetNames : s = Newest(Mine(target)) /\ s # Null
    BY <1>1
  <2>2. Mine(target) # {}
    BY <2>1 DEF Newest
  <2>3. s \in tables.sample /\ \A r \in Mine(target) : r.ts <= s.ts
    BY <1>4, <2>1, <2>2
  <2>4. PICK i \in Kept : s \in SampleRows(happened[i]) /\ s.ts = CycleTs(i)
    BY <2>3, OneSample
  <2>5. ASSUME NEW j \in Kept PROVE CycleTs(j) <= CycleTs(i)
    <3>1. PICK r \in tables.sample : r.ts = CycleTs(j) /\ r.target = target
      BY OneSample
    <3> QED BY <2>3, <2>4, <3>1
  <2> QED BY <2>4, <2>5 DEF LastKept
<1>6. ASSUME NEW i, LastKept(i), NEW target \in TargetNames PROVE \E s \in samples : s.target = target
  <2>1. PICK r \in tables.sample : r.ts = CycleTs(i) /\ r.target = target
    BY <1>6, OneSample DEF LastKept
  <2>2. Newest(Mine(target)) \in Mine(target)
    BY <1>4, <2>1
  <2>3. Newest(Mine(target)) # Null
    BY <2>2, SamplesAreThere
  <2> QED BY <1>1, <2>2, <2>3
<1> QED BY <1>2, <1>5, <1>6 DEF samples

\* What a sample that lost nothing says of its cycle.
LEMMA LostNothing ==
  ASSUME NEW t, t.meets \in DOMAIN Meets, NEW s \in SampleRows(t), s.loss = 0
  PROVE  /\ s.target = GatewayTarget => Meets[t.meets].gw = 4
         /\ s.target \in WanTargets => Meets[t.meets].wan = 4 /\ ~Silent(t, s.target)
<1>1. PICK n \in {0, 2, 4} : /\ s.received = n /\ s.loss = 25 * (4 - n)
                             /\ s.target = GatewayTarget => n = Meets[t.meets].gw
                             /\ s.target \in WanTargets => n \in {0, Meets[t.meets].wan}
  BY SampleCounts
<1>2. n = 4
  BY <1>1
<1>3. ASSUME s.target \in WanTargets, Silent(t, s.target) PROVE FALSE
  <2>1. PICK w \in WanTargets : s = Sample(t.ts, w, 4, Rtts(t, IF Silent(t, w) THEN 0 ELSE Meets[t.meets].wan))
    <3>1. s # Sample(t.ts, GatewayTarget, 4, Rtts(t, Meets[t.meets].gw))
      BY <1>3, ReadsAssumption DEF Sample
    <3> QED BY <3>1 DEF SampleRows
  <2>2. s.target = w
    BY <2>1 DEF Sample
  <2>3. s = Sample(t.ts, w, 4, Rtts(t, 0))
    BY <1>3, <2>1, <2>2
  <2>4. s.received = Len(Rtts(t, 0))
    BY <2>3 DEF Sample
  <2>5. 0 \in Nat
    OBVIOUS
  <2>6. Len(Rtts(t, 0)) = 0
    BY <2>5, RttsFacts
  <2> QED BY <1>1, <1>2, <2>4, <2>6
<1> QED BY <1>1, <1>2, <1>3

\* A recorded cycle without an answer lies in an outage, which goes on or ended later.
LEMMA DownIsOut ==
  ASSUME ScreenInv, NEW i \in Kept, Meets[happened[i].meets].wan = 0 \/ Meets[happened[i].meets].gw = 0
  PROVE  \E o \in tables.outage :
           /\ o.startedAt \in Nat /\ o.startedAt <= CycleTs(i)
           /\ o.endedAt = Null \/ \E j \in Kept : o.endedAt = CycleTs(j) /\ CycleTs(i) < CycleTs(j)
<1>1. PICK o \in tables.outage : Covers(o, CycleTs(i))
  BY DEF ScreenInv, BooksInv, WorldInv, OutagesKept, OutagesEnd
<1>2. o.startedAt \in Nat
  BY DEF ScreenInv, BooksInv, WorldInv, OutagesKept, OutageRow
<1>3. o.endedAt # Null => \E j \in Kept : o.endedAt = CycleTs(j)
  BY DEF ScreenInv, OutagesEnd
<1> QED BY <1>1, <1>2, <1>3 DEF Covers

\* The vantage of the status route is the newest cycle's.
LEMMA VantageIsNow ==
  ASSUME WorldInv, Status(tables).vantage # Null
  PROVE  \E i : LastKept(i) /\ RowOf(Status(tables).vantage, i)
<1> DEFINE v == Status(tables).vantage
<1>1. v = Newest(tables.cycle) /\ tables.cycle # {}
  BY DEF Status, Newest
<1>2. \A r \in tables.cycle : r.ts \in Nat /\ r.ts <= Clock /\ Clock \in Nat
  <2> TAKE r \in tables.cycle
  <2>1. PICK i \in Kept : RowOf(r, i)
    BY RowsOfCycles
  <2>2. 0 \in Nat
    OBVIOUS
  <2>3. CycleTs(i) \in Nat /\ CycleTs(i) <= Clock - 10 /\ Clock \in Nat
    BY <2>2, RecordedCycles
  <2> QED BY <2>1, <2>3 DEF RowOf
<1>3. v \in tables.cycle /\ \A r \in tables.cycle : r.ts <= v.ts
  BY <1>1, <1>2, NewestIs
<1> HIDE DEF v
<1>4. PICK i \in Kept : RowOf(v, i)
  BY <1>3, RowsOfCycles
<1>5. ASSUME NEW j \in Kept PROVE CycleTs(j) <= CycleTs(i)
  <2>1. PICK r \in tables.cycle : RowOf(r, j)
    BY RowsOfCycles
  <2> QED BY <1>3, <1>4, <2>1 DEF RowOf
<1> QED BY <1>4, <1>5 DEF LastKept, v

\* What an answer of the status route says is of the newest of the first n cycles.
TrueTo(status, n) ==
  /\ \A s \in status.samples : \E i : LastTo(i, n) /\ s \in SampleRows(happened[i]) /\ s.ts = CycleTs(i)
  /\ \A i : LastTo(i, n) => \A target \in TargetNames : \E s \in status.samples : s.target = target
  /\ status.ongoing = {} => \A i : LastTo(i, n) => Meets[happened[i].meets].wan > 0 /\ Meets[happened[i].meets].gw > 0
  /\ status.vantage # Null => \E i : LastTo(i, n) /\ RowOf(status.vantage, i)

\* One that is given now is so of all of them.
StatusTrue == TrueTo(Status(tables), Len(happened)) /\ Clock \in Nat

LEMMA StatusIsTrue == ASSUME ScreenInv PROVE StatusTrue
<1>1. WorldInv
  BY DEF ScreenInv, BooksInv
<1>2. Clock \in Nat
  <2>1. 0 \in Nat
    OBVIOUS
  <2> QED BY <1>1, <2>1, RecordedCycles
<1>3. \A i : LastTo(i, Len(happened)) <=> LastKept(i)
  BY <1>1, LastOfAll
<1>4. ASSUME NEW i, LastKept(i), Status(tables).ongoing = {}
      PROVE  Meets[happened[i].meets].wan > 0 /\ Meets[happened[i].meets].gw > 0
  <2>1. \A o \in tables.outage : o.endedAt # Null
    BY <1>1, <1>4, StatusIsNow
  <2>2. i \in Kept /\ \A j \in Kept : CycleTs(j) <= CycleTs(i)
    BY <1>4 DEF LastKept
  <2>3. \A j \in Kept : CycleTs(j) \in Nat /\ happened[j] \in Cycle
    <3>1. 0 \in Nat
      OBVIOUS
    <3> QED BY <1>1, <3>1, RecordedCycles
  <2>4. ~(Meets[happened[i].meets].wan = 0 \/ Meets[happened[i].meets].gw = 0)
    <3> SUFFICES ASSUME Meets[happened[i].meets].wan = 0 \/ Meets[happened[i].meets].gw = 0 PROVE FALSE
      OBVIOUS
    <3>1. PICK j \in Kept : CycleTs(i) < CycleTs(j)
      BY <2>1, <2>2, DownIsOut
    <3> QED BY <2>2, <2>3, <3>1
  <2>5. Meets[happened[i].meets].wan \in {0, 2, 4} /\ Meets[happened[i].meets].gw \in {0, 2, 4}
    BY <2>2, <2>3, MeetsAre DEF Cycle
  <2> QED BY <2>4, <2>5
<1>5. Status(tables).vantage # Null => \E i : LastKept(i) /\ RowOf(Status(tables).vantage, i)
  BY <1>1, VantageIsNow
<1>6. /\ \A s \in Status(tables).samples : \E i : LastKept(i) /\ s \in SampleRows(happened[i]) /\ s.ts = CycleTs(i)
      /\ \A i : LastKept(i) => \A target \in TargetNames : \E s \in Status(tables).samples : s.target = target
  BY <1>1, StatusIsNow
<1> QED BY <1>2, <1>3, <1>4, <1>5, <1>6 DEF StatusTrue, TrueTo

-----------------------------------------------------------------------------
(* The open page. *)

screenVars == <<worldVars, page>>
ScreenSpec == ScreenInit /\ [][ScreenNext]_screenVars

\* What the page holds is what it was told, as of then.
PageTells == page.asOf \in 0..Len(happened) /\ TrueTo(page.status, page.asOf)

\* A page whose polls are answered is drawn every second cycle, at least.
PageDrawn ==
  /\ page.served \in {0, 1, 2} /\ page.drawn \in Nat
  /\ page.served >= 1 /\ Len(happened) % 2 = 0 => page.drawn = Clock
  /\ page.served = 2 => Clock - page.drawn <= ProbeCycleS

\* What was true of the first cycles is true of them when there is one more.
LEMMA TrueStays ==
  ASSUME WorldInv, NEW meets \in DOMAIN Meets, NEW odd \in Oddities \cup {"none"}, CycleHappens(meets, odd),
         NEW status, NEW n \in 0..Len(happened), TrueTo(status, n)
  PROVE  TrueTo(status, n)'
<1>1. /\ Len(happened) \in Nat /\ \A i \in 1..Len(happened) : happened'[i] = happened[i]
      /\ Kept \subseteq 1..Len(happened) /\ Kept' \in {Kept, Kept \cup {Len(happened) + 1}}
  BY CycleLeaves
<1>2. KeptTo(n)' = KeptTo(n)
  BY <1>1 DEF KeptTo
<1>3. \A i : LastTo(i, n)' <=> LastTo(i, n)
  BY <1>2 DEF LastTo, CycleTs
<1>4. \A i : LastTo(i, n) => happened'[i] = happened[i]
  BY <1>1 DEF LastTo, KeptTo
<1>5. ASSUME NEW r, NEW i, LastTo(i, n) PROVE RowOf(r, i)' <=> RowOf(r, i)
  BY <1>4, <1>5 DEF RowOf, CycleTs
<1> QED BY <1>3, <1>4, <1>5 DEF TrueTo, SampleRows, CycleTs

\* So the page goes on telling what it was told.
LEMMA PageGoesOn ==
  ASSUME WorldInv, StatusTrue', PageTells, PageDrawn, ScreenNext
  PROVE  PageTells' /\ PageDrawn'
<1>1. PICK meets \in DOMAIN Meets, odd \in Oddities \cup {"none"}, answered \in SUBSET Due(Len(happened) + 1) :
        CycleHappens(meets, odd) /\ PagePolls(answered)
  BY DEF ScreenNext
<1> DEFINE n == Len(happened')
           status == IF "status" \in answered THEN Status(tables') ELSE page.status
           draws == status # page.status \/ "router" \in answered
<1>2. n = Len(happened) + 1 /\ Len(happened) \in Nat
  BY <1>1, CycleLeaves
<1>3. /\ page'.status = status
      /\ page'.asOf = IF "status" \in answered THEN n ELSE page.asOf
      /\ page'.drawn = IF draws THEN Clock' ELSE page.drawn
      /\ page'.served = IF answered = Due(n) THEN Least(page.served + 1, 2) ELSE 0
  BY <1>1 DEF PagePolls
<1>4. TrueTo(Status(tables), Len(happened))' /\ Clock' \in Nat
  BY DEF StatusTrue
<1>5. PageTells'
  <2>1. CASE "status" \in answered
    <3>1. page'.asOf = n /\ page'.status = Status(tables')
      BY <1>3, <2>1
    <3>2. page'.asOf \in 0..n
      BY <1>2, <3>1
    <3> QED BY <1>4, <3>1, <3>2 DEF PageTells, TrueTo
  <2>2. CASE "status" \notin answered
    <3>1. page'.asOf = page.asOf /\ page'.status = page.status
      BY <1>3, <2>2
    <3>2. page.asOf \in 0..Len(happened) /\ TrueTo(page.status, page.asOf)
      BY DEF PageTells
    <3>3. \A i \in 0..Len(happened) : i \in 0..n
      BY <1>2
    <3>4. PICK asOf \in 0..Len(happened) : asOf = page.asOf
      BY <3>2
    <3>5. PICK held : held = page.status
      OBVIOUS
    <3>6. TrueTo(held, asOf)'
      BY <1>1, <3>2, <3>4, <3>5, TrueStays
    <3> QED BY <3>1, <3>3, <3>4, <3>5, <3>6 DEF PageTells, TrueTo
  <2> QED BY <2>1, <2>2
<1>6. Clock' = Clock + ProbeCycleS /\ Clock \in Nat /\ ProbeCycleS \in Nat \ {0}
  <2>1. ProbeCycleS \in Nat \ {0} /\ Phase \in Nat /\ ReadAfterS \in Nat
    BY ReadsAssumption, InstantAssumption
  <2>2. PICK l \in Nat : l = Len(happened)
    BY <1>2
  <2>3. Clock = l * ProbeCycleS + Phase + ReadAfterS /\ Clock' = (l + 1) * ProbeCycleS + Phase + ReadAfterS
    BY <1>2, <2>2 DEF Clock, CycleTs
  <2>4. (l + 1) * ProbeCycleS = l * ProbeCycleS + ProbeCycleS /\ l * ProbeCycleS \in Nat
    BY <2>1
  <2> QED BY <2>1, <2>3, <2>4
<1>7. PageDrawn'
  <2>0. page.served \in {0, 1, 2} /\ page.drawn \in Nat
    BY DEF PageDrawn
  <2>1. page'.drawn \in Nat /\ page'.drawn \in {Clock', page.drawn}
    BY <1>3, <1>4, <2>0
  <2>2. CASE answered # Due(n)
    <3>1. page'.served = 0
      BY <1>3, <2>2
    <3> QED BY <2>1, <3>1 DEF PageDrawn
  <2>3. CASE answered = Due(n) /\ n % 2 = 0
    <3>1. "router" \in answered
      BY <2>3 DEF Due
    <3>2. page'.drawn = Clock' /\ page'.served \in {0, 1, 2}
      BY <1>3, <2>0, <2>3, <3>1 DEF Least
    <3> QED BY <1>4, <1>6, <3>2 DEF PageDrawn
  <2>4. CASE answered = Due(n) /\ n % 2 # 0
    <3>1. page'.served = (IF page.served = 0 THEN 1 ELSE 2)
      BY <1>3, <2>0, <2>4 DEF Least
    <3>2. Len(happened) % 2 = 0
      BY <1>2, <2>4
    <3>3. page.served # 0 => page.drawn = Clock
      BY <2>0, <3>2 DEF PageDrawn
    <3>4. page'.served = 2 => Clock' - page'.drawn <= ProbeCycleS
      BY <1>4, <1>6, <2>0, <2>1, <3>1, <3>3
    <3> QED BY <2>0, <2>1, <2>4, <3>1, <3>4 DEF PageDrawn
  <2> QED BY <2>2, <2>3, <2>4
<1> QED BY <1>5, <1>7

\* With a page beside it the world is the world.
LEMMA WorldOfScreen == ScreenSpec => WorldSpec
<1>1. ScreenInit => WorldInit
  BY DEF ScreenInit
<1>2. [ScreenNext]_screenVars => [WorldNext]_worldVars
  BY DEF ScreenNext, WorldNext, screenVars
<1> QED BY <1>1, <1>2, PTL DEF ScreenSpec, WorldSpec

\* The page is so at all times.
LEMMA PageIsTrue == ScreenSpec => [](ScreenInv /\ PageTells /\ PageDrawn)
<1>1. ScreenInit /\ ScreenInv => PageTells /\ PageDrawn
  <2> SUFFICES ASSUME ScreenInit, ScreenInv PROVE PageTells /\ PageDrawn
    OBVIOUS
  <2>1. /\ page.status = Status(tables) /\ page.asOf = 0 /\ page.drawn = Clock /\ page.served = 2
        /\ Len(happened) = 0
    BY EmptyFacts DEF ScreenInit, WorldInit
  <2>2. TrueTo(Status(tables), Len(happened)) /\ Clock \in Nat
    BY StatusIsTrue DEF StatusTrue
  <2>3. Clock - Clock <= ProbeCycleS
    BY <2>2, ReadsAssumption
  <2> QED BY <2>1, <2>2, <2>3 DEF PageTells, PageDrawn
<1>2. ScreenInv => StatusTrue
  BY StatusIsTrue
<1>3. ScreenInv /\ StatusTrue' /\ PageTells /\ PageDrawn /\ [ScreenNext]_screenVars => (PageTells /\ PageDrawn)'
  <2> SUFFICES ASSUME ScreenInv, StatusTrue', PageTells, PageDrawn, [ScreenNext]_screenVars
               PROVE  PageTells' /\ PageDrawn'
    OBVIOUS
  <2>1. CASE ScreenNext
    BY <2>1, PageGoesOn DEF ScreenInv, BooksInv
  <2>2. CASE UNCHANGED screenVars
    <3>1. page' = page /\ happened' = happened
      BY <2>2 DEF screenVars, worldVars
    <3>2. Kept' = Kept
      BY <3>1 DEF Kept
    <3>3. PageTells'
      BY <3>1, <3>2 DEF PageTells, TrueTo, LastTo, KeptTo, RowOf
    <3>4. PageDrawn'
      BY <3>1 DEF PageDrawn, Clock
    <3> QED BY <3>3, <3>4
  <2> QED BY <2>1, <2>2
<1> QED BY <1>1, <1>2, <1>3, WorldOfScreen, ScreenHolds, PTL DEF ScreenSpec

\* What is not stale to the page was less than three cycles old when it was drawn.
LEMMA FreshIs ==
  ASSUME NEW ts \in Nat, NEW at \in Nat, ~IsStale(ts, NowTick(at))
  PROVE  at - ts < 3 * ProbeCycleS
<1>1. ProbeCycleS \in Nat \ {0}
  BY ReadsAssumption
<1> DEFINE q == at \div ProbeCycleS
           tick == q * ProbeCycleS
<1>2. q \in Nat /\ tick \in Nat /\ at < tick + ProbeCycleS
  BY <1>1
<1>3. tick - ts < 2 * ProbeCycleS
  <2>1. NowTick(at) = tick
    BY DEF NowTick, BucketOf
  <2>2. ~(tick - ts >= 2 * ProbeCycleS)
    BY <2>1 DEF IsStale
  <2> HIDE DEF tick
  <2> QED BY <1>1, <1>2, <2>2
<1> HIDE DEF tick
<1> QED BY <1>1, <1>2, <1>3

\* A reading whose instant is not stale is of the newest cycle the page was told of.
LEMMA ReadingIsNow ==
  ASSUME WorldInv, PageTells, PageDrawn, NEW S \in SUBSET page.status.samples,
         LatestSampleTs(S) # Null, ~IsStale(LatestSampleTs(S), NowTick(page.drawn))
  PROVE  S # {} /\ \E i : LastTo(i, page.asOf) /\ page.drawn - CycleTs(i) < 3 * ProbeCycleS
<1> DEFINE stamps == Stamps(S)
<1>1. ASSUME NEW s \in S PROVE \E i : LastTo(i, page.asOf) /\ s.ts = CycleTs(i)
  BY DEF PageTells, TrueTo
<1>2. ASSUME NEW i, LastTo(i, page.asOf) PROVE i \in Nat /\ CycleTs(i) \in Nat
  <2>1. i \in Nat
    BY <1>2, LastIs DEF PageTells
  <2> QED BY <2>1, Stamp
<1>3. stamps \in SUBSET Nat
  BY <1>1, <1>2 DEF Stamps
<1>4. LatestSampleTs(S) = IF stamps = {} THEN Null ELSE Max(stamps)
  BY <1>3, ExtremeIs DEF LatestSampleTs
<1>5. PICK s \in S : TRUE
  BY <1>4 DEF Stamps
<1>6. PICK i : LastTo(i, page.asOf) /\ s.ts = CycleTs(i)
  BY <1>1, <1>5
<1>7. stamps = {CycleTs(i)}
  <2>1. ASSUME NEW r \in S PROVE r.ts = CycleTs(i)
    <3>1. PICK j : LastTo(j, page.asOf) /\ r.ts = CycleTs(j)
      BY <1>1
    <3>2. CycleTs(j) <= CycleTs(i) /\ CycleTs(i) <= CycleTs(j)
      BY <1>6, <3>1 DEF LastTo
    <3> QED BY <1>2, <1>6, <3>1, <3>2
  <2> QED BY <1>5, <1>6, <2>1 DEF Stamps
<1>8. LatestSampleTs(S) = CycleTs(i)
  <2> HIDE DEF stamps
  <2>1. Max({CycleTs(i)}) \in {CycleTs(i)}
    <3>1. CycleTs(i) \in Nat
      BY <1>2, <1>6
    <3> QED BY <3>1, MaxOf
  <2> QED BY <1>4, <1>7, <2>1
<1>9. page.drawn - CycleTs(i) < 3 * ProbeCycleS
  <2>1. page.drawn \in Nat
    BY DEF PageDrawn
  <2>2. PICK ts \in Nat : ts = CycleTs(i)
    BY <1>2, <1>6
  <2> QED BY <1>8, <2>1, <2>2, FreshIs
<1> QED BY <1>5, <1>6, <1>9

\* A green reading is of samples that lost nothing.
LEMMA GreenReading ==
  ASSUME WorldInv, PageTells, PageDrawn, NEW S \in SUBSET page.status.samples,
         ReadingTone(LiveReading(S), NowTick(page.drawn)) = "green"
  PROVE  /\ S # {} /\ \E i : LastTo(i, page.asOf) /\ page.drawn - CycleTs(i) < 3 * ProbeCycleS
         /\ \A s \in S : s.loss = 0
<1> DEFINE reading == LiveReading(S)
           losses == {s.loss : s \in S}
<1>1. reading.ts = LatestSampleTs(S) /\ reading.worst = Extreme(Max, losses)
  BY Zenon DEF LiveReading
<1> HIDE DEF reading
<1>2. reading.ts # Null /\ ~IsStale(reading.ts, NowTick(page.drawn)) /\ ~(reading.worst > 0)
  BY DEF ReadingTone, reading
<1>3. S # {} /\ \E i : LastTo(i, page.asOf) /\ page.drawn - CycleTs(i) < 3 * ProbeCycleS
  BY <1>1, <1>2, ReadingIsNow
<1>4. ASSUME NEW s \in S PROVE s.loss \in Nat /\ s.loss <= 100
  <2>1. PICK i : LastTo(i, page.asOf) /\ s \in SampleRows(happened[i])
    BY DEF PageTells, TrueTo
  <2>2. happened[i].meets \in DOMAIN Meets
    BY <2>1, LastIs DEF PageTells
  <2>3. PICK n \in {0, 2, 4} : s.loss = 25 * (4 - n)
    BY <2>1, <2>2, SampleCounts
  <2> QED BY <2>3
<1>5. losses \in SUBSET Nat /\ losses # {} /\ \A x \in losses : x <= 100
  BY <1>3, <1>4
<1>6. \A s \in S : s.loss \in losses
  OBVIOUS
<1> HIDE DEF losses
<1>7. reading.worst = Max(losses) /\ Max(losses) \in losses /\ \A x \in losses : x <= Max(losses)
  BY <1>1, <1>5, ExtremeIs, MaxOf
<1>8. \A x \in losses : x = 0
  <2>1. PICK m \in losses : m = Max(losses)
    BY <1>7
  <2>2. m \in Nat /\ ~(m > 0) /\ \A x \in losses : x \in Nat /\ x <= m
    BY <1>2, <1>5, <1>7, <2>1
  <2> QED BY <2>2
<1> QED BY <1>3, <1>6, <1>8

\* When the page says that all is up, it was in the newest cycle it was told of.
LEMMA UpIsUp ==
  ASSUME WorldInv, PageTells, PageDrawn, AllSystemsUp(page.status, NowTick(page.drawn))
  PROVE  \E i : /\ LastTo(i, page.asOf) /\ page.drawn - CycleTs(i) < 3 * ProbeCycleS
                /\ Meets[happened[i].meets].wan > 0 /\ Meets[happened[i].meets].gw > 0
<1> DEFINE samples == page.status.samples
<1>1. /\ LatestSampleTs(samples) # Null /\ ~IsStale(LatestSampleTs(samples), NowTick(page.drawn))
      /\ page.status.ongoing = {}
  BY DEF AllSystemsUp, Reporting
<1>2. PICK i : LastTo(i, page.asOf) /\ page.drawn - CycleTs(i) < 3 * ProbeCycleS
  <2> HIDE DEF samples
  <2>1. samples \in SUBSET samples
    OBVIOUS
  <2> QED BY <1>1, <2>1, ReadingIsNow DEF samples
<1> QED BY <1>1, <1>2 DEF PageTells, TrueTo

-----------------------------------------------------------------------------
(* Windows that were watched. *)

\* The slots of a window in which something answered.
AnsweredSlots(from, to, width) ==
  {BucketOf(t.ts, width) : t \in {u \in TakenIn(from, to) : ~NothingAnswered(u)}}

\* A window of the page lies between two whole instants, and so does the one before it.
LEMMA ScreensAre ==
  ASSUME WorldInv, NEW width \in Widths, NEW w \in Screens(width)
  PROVE  /\ width \in Nat \ {0} /\ w.from \in Int /\ w.to \in Int
         /\ WindowBefore(w).from \in Int /\ WindowBefore(w).to \in Int
<1>1. ProbeCycleS \in Nat \ {0} /\ width \in Nat \ {0}
  BY ReadsAssumption DEF Widths
<1>2. Clock \in Nat /\ \A span \in Spans : span \in Nat
  <2>1. 0 \in Nat /\ Len(happened) \in Nat
    BY LenProperties DEF WorldInv, Ordered
  <2>2. \A span \in Spans : span \in Nat
    <3>1. \A n \in 1..Len(happened) : n * ProbeCycleS \in Nat
      BY <1>1, <2>1
    <3> QED BY <3>1 DEF Spans
  <2> QED BY <2>1, <2>2, RecordedCycles
<1>3. WindowKeyStep(width) \in Nat \ {0}
  <2> DEFINE both == {ProbeCycleS, Least(width, KeyMaxStep)}
  <2>1. Least(width, KeyMaxStep) \in Nat \ {0}
    BY <1>1 DEF Least, KeyMaxStep
  <2>2. PICK last \in Nat : ProbeCycleS <= last /\ Least(width, KeyMaxStep) <= last
    <3>1. ProbeCycleS + Least(width, KeyMaxStep) \in Nat
      BY <1>1, <2>1
    <3> QED BY <1>1, <2>1, <3>1
  <2>3. both \in SUBSET (Nat \ {0}) /\ both # {} /\ \A x \in both : x <= last
    BY <1>1, <2>1, <2>2
  <2> HIDE DEF both
  <2>4. Max(both) \in both
    BY <2>3, MaxOf
  <2> QED BY <2>3, <2>4 DEF WindowKeyStep, both
<1>4. \A a \in Int, b \in Nat \ {0} : BucketOf(a, b) \in Int
  BY DEF BucketOf
<1>5. PICK span \in Spans : w = QuantiseWindow(RangeToWindow(span, Clock), width)
  BY DEF Screens
<1> DEFINE r == RangeToWindow(span, Clock)
           to == BucketOf(r.to, WindowKeyStep(width))
<1>6. r.from \in Int /\ r.to \in Int
  BY <1>1, <1>2, <1>4 DEF RangeToWindow
<1>7. to \in Int
  <2> HIDE DEF r
  <2> QED BY <1>3, <1>4, <1>6
<1>8. w.from = r.from - (r.to - to) /\ w.to = to
  BY <1>5 DEF QuantiseWindow
<1> HIDE DEF r, to
<1>9. w.from \in Int /\ w.to \in Int
  BY <1>6, <1>7, <1>8
<1>10. WindowBefore(w).from = w.from - (w.to - w.from) /\ WindowBefore(w).to = w.from
  BY DEF WindowBefore
<1> QED BY <1>1, <1>9, <1>10

\* A sample with a median is of a cycle in which something answered.
LEMMA TimedAnswered ==
  ASSUME NEW t, t.meets \in DOMAIN Meets, NEW s \in SampleRows(t), s.med # Null
  PROVE  ~NothingAnswered(t)
<1> SUFFICES ASSUME Meets[t.meets].wan = 0, Meets[t.meets].gw = 0 PROVE FALSE
  BY DEF NothingAnswered
<1>1. PICK w : s = Sample(t.ts, w, 4, Rtts(t, 0))
  <2>1. CASE s = Sample(t.ts, GatewayTarget, 4, Rtts(t, Meets[t.meets].gw))
    BY <2>1
  <2>2. CASE \E w \in WanTargets : s = Sample(t.ts, w, 4, Rtts(t, IF Silent(t, w) THEN 0 ELSE Meets[t.meets].wan))
    <3>1. PICK w \in WanTargets : s = Sample(t.ts, w, 4, Rtts(t, IF Silent(t, w) THEN 0 ELSE Meets[t.meets].wan))
      BY <2>2
    <3>2. (IF Silent(t, w) THEN 0 ELSE Meets[t.meets].wan) = 0
      OBVIOUS
    <3>3. s = Sample(t.ts, w, 4, Rtts(t, 0))
      BY <3>1, <3>2
    <3> QED BY <3>3
  <2> QED BY <2>1, <2>2 DEF SampleRows
<1>2. Rtts(t, 0) = <<>>
  <2>1. 1..0 = {}
    OBVIOUS
  <2>2. Rtts(t, 0) = [k \in {} |-> IF t.meets = "stall" /\ k = 0 THEN 10 * Meets[t.meets].rtt ELSE Meets[t.meets].rtt]
    BY <2>1 DEF Rtts
  <2> QED BY <2>2
<1>3. Percentile(<<>>, 50) = Null
  BY DEF Percentile
<1> QED BY <1>1, <1>2, <1>3 DEF Sample

\* A row of the answer with a centre holds a sample with a median, of its window and bucket.
LEMMA CentreIsMeasured ==
  ASSUME NEW from, NEW to, NEW width, NEW b \in BucketProbes(tables, from, to, width), b.med2 # Null
  PROVE  \E s \in tables.sample : s.med # Null /\ from <= s.ts /\ s.ts <= to /\ BucketOf(s.ts, width) = b.bucket
<1> DEFINE rows == Within(tables.sample, from, to)
           In(c, g) == {r \in rows : BucketOf(r.ts, width) = c /\ r.target = g}
<1>1. PICK c, g : b = ProbeBucket(c, g, In(c, g))
  BY DEF BucketProbes
<1> DEFINE timed == {r \in In(c, g) : r.med # Null}
<1>2. b.bucket = c /\ (Cardinality(timed) = 0 => b.med2 = Null)
  <2> HIDE DEF In
  <2> QED BY <1>1 DEF ProbeBucket
<1>3. timed # {}
  <2> SUFFICES ASSUME timed = {} PROVE FALSE
    OBVIOUS
  <2> HIDE DEF timed
  <2> QED BY <1>2, FS_EmptySet
<1>4. PICK s \in timed : TRUE
  BY <1>3
<1> QED BY <1>2, <1>4 DEF Within

\* A median counts the rows that have the value.
LEMMA MedianCounts ==
  ASSUME NEW S
  PROVE  Median([r \in S |-> r.med2]).count = Cardinality({r \in S : r.med2 # Null})
<1> DEFINE f == [r \in S |-> r.med2]
           present == {i \in DOMAIN f : f[i] # Null}
<1>1. present = {r \in S : r.med2 # Null}
  <2>1. DOMAIN f = S /\ \A r \in S : f[r] = r.med2
    OBVIOUS
  <2> QED BY <2>1
<1>2. Median(f).count = Cardinality(present)
  <2> HIDE DEF f
  <2> QED BY DEF Median
<1> QED BY <1>1, <1>2

\* The points of a window, and when one of them was measured.
LEMMA PointsAre ==
  ASSUME NEW w, NEW width
  PROVE  LET points == PointsOf(w, width)
         IN /\ DOMAIN points = SlotStarts(w, width)
            /\ \A b \in SlotStarts(w, width) : MeasuredPoint(points[b]) =>
                 \E r \in BucketsOf(w, width) : r.bucket = b /\ r.med2 # Null
<1> DEFINE buckets == BucketsOf(w, width)
           merged == {[bucket |-> b, rows |-> {r \in buckets : r.bucket = b}] : b \in {r.bucket : r \in buckets}}
           slots == DensifyBuckets(merged, w, width)
           points == [b \in DOMAIN slots |-> ToComparePoint(slots[b])]
<1>1. PointsOf(w, width) = points
  BY DEF PointsOf, ComparePointsFrom
<1> HIDE DEF buckets
<1>2. slots = [b \in SlotStarts(w, width) |->
                 IF \E r \in merged : r.bucket = b THEN CHOOSE r \in merged : r.bucket = b ELSE Null]
  <2> HIDE DEF merged
  <2> QED BY DEF DensifyBuckets
<1>3. \A r \in merged : r.rows = {q \in buckets : q.bucket = r.bucket}
  OBVIOUS
<1> HIDE DEF merged, slots
<1>4. DOMAIN slots = SlotStarts(w, width) /\ DOMAIN points = SlotStarts(w, width)
  BY <1>2
<1>5. ASSUME NEW b \in SlotStarts(w, width), MeasuredPoint(points[b])
      PROVE  \E r \in buckets : r.bucket = b /\ r.med2 # Null
  <2> DEFINE rows == IF slots[b] = Null THEN {} ELSE slots[b].rows
  <2>1. points[b] = ToComparePoint(slots[b])
    BY <1>4
  <2>2. /\ ToComparePoint(slots[b]).gateway = Extreme(Min, {r.med2 : r \in rows \ OfAnchors(rows)})
        /\ ToComparePoint(slots[b]).anchors = Cardinality({r \in OfAnchors(rows) : r.med2 # Null})
    BY MedianCounts DEF ToComparePoint
  <2>3. \A r \in rows : r \in buckets /\ r.bucket = b
    BY <1>2, <1>3
  <2> HIDE DEF rows, points
  <2>4. OfAnchors(rows) \subseteq rows
    BY DEF OfAnchors
  <2>5. CASE points[b].gateway # Null
    <3>1. {r.med2 : r \in rows \ OfAnchors(rows)} \ {Null} # {}
      BY <2>1, <2>2, <2>5 DEF Extreme
    <3> QED BY <2>3, <3>1
  <2>6. CASE points[b].anchors > 0
    <3>1. {r \in OfAnchors(rows) : r.med2 # Null} # {}
      <4> SUFFICES ASSUME {r \in OfAnchors(rows) : r.med2 # Null} = {} PROVE FALSE
        OBVIOUS
      <4>1. points[b].anchors = 0
        BY <2>1, <2>2, FS_EmptySet
      <4> QED BY <2>6, <4>1
    <3> QED BY <2>3, <2>4, <3>1
  <2> QED BY <1>5, <2>5, <2>6 DEF MeasuredPoint
<1> HIDE DEF points
<1> QED BY <1>1, <1>4, <1>5 DEF buckets

\* Nine tenths of the slots of a comparable window were answered in.
LEMMA ComparableIsWatched ==
  ASSUME WorldInv, NEW width \in Nat \ {0}, NEW w, w.from \in Int, w.to \in Int, Comparable(PointsOf(w, width))
  PROVE  10 * Cardinality(AnsweredSlots(w.from, w.to, width)) >= 9 * Cardinality(SlotStarts(w, width))
<1> DEFINE points == PointsOf(w, width)
           slots == SlotStarts(w, width)
           answered == AnsweredSlots(w.from, w.to, width)
           read == MeasuredIn(points)
<1>1. DOMAIN points = slots
  BY PointsAre
<1>2. IsFiniteSet(slots) /\ Cardinality(slots) \in Nat
  <2>1. BucketOf(w.from, width) \in Int
    BY DEF BucketOf
  <2>2. IsFiniteSet(BucketOf(w.from, width)..w.to)
    BY <2>1, FS_Interval
  <2>3. slots \subseteq BucketOf(w.from, width)..w.to
    BY DEF SlotStarts
  <2> HIDE DEF slots
  <2> QED BY <2>2, <2>3, FS_Subset, FS_CardinalityType
<1>3. read \subseteq slots /\ \A b \in read : MeasuredPoint(points[b])
  BY <1>1 DEF MeasuredIn
<1>4. ASSUME NEW b \in read PROVE b \in answered
  <2>1. PICK r \in BucketsOf(w, width) : r.bucket = b /\ r.med2 # Null
    BY <1>3, PointsAre
  <2>2. PICK s \in tables.sample : s.med # Null /\ w.from <= s.ts /\ s.ts <= w.to /\ BucketOf(s.ts, width) = b
    BY <2>1, CentreIsMeasured DEF BucketsOf
  <2>3. PICK i \in Kept : s \in SampleRows(happened[i]) /\ s.ts = CycleTs(i)
    BY OneSample
  <2>4. 0 \in Nat
    OBVIOUS
  <2>5. happened[i] \in Cycle /\ happened[i].ts = CycleTs(i) /\ CycleTs(i) \in Nat
    BY <2>4, RecordedCycles
  <2>6. happened[i] \in Recorded(0)
    BY <2>4, <2>5, RecordedCycles
  <2>7. ~NothingAnswered(happened[i])
    BY <2>2, <2>3, <2>5, TimedAnswered DEF Cycle
  <2>8. happened[i] \in TakenIn(w.from, w.to)
    BY <2>2, <2>3, <2>5, <2>6 DEF TakenIn
  <2> QED BY <2>2, <2>3, <2>5, <2>7, <2>8 DEF AnsweredSlots
<1>5. IsFiniteSet(answered)
  <2> DEFINE f == [i \in 1..Len(happened) |-> BucketOf(happened[i].ts, width)]
  <2>1. Len(happened) \in Nat /\ DOMAIN happened = 1..Len(happened)
    BY SeqFacts DEF WorldInv, Ordered
  <2>2. IsFiniteSet(1..Len(happened))
    BY <2>1, FS_Interval
  <2>3. answered \subseteq ImageOf(f, 1..Len(happened))
    BY <2>1 DEF AnsweredSlots, TakenIn, Recorded, InWindow, ImageOf
  <2> HIDE DEF f, answered
  <2> QED BY <2>2, <2>3, ImageFinite, FS_Subset
<1>6. 10 * Cardinality(read) >= 9 * Cardinality(slots)
  BY <1>1 DEF Comparable
<1> HIDE DEF points, slots, answered, read
<1>7. Cardinality(read) <= Cardinality(answered) /\ Cardinality(read) \in Nat /\ Cardinality(answered) \in Nat
  <2>1. read \subseteq answered
    BY <1>4
  <2>2. IsFiniteSet(read)
    BY <1>5, <2>1, FS_Subset
  <2> QED BY <1>5, <2>1, <2>2, FS_Subset, FS_CardinalityType
<1> QED BY <1>2, <1>6, <1>7 DEF slots, answered

-----------------------------------------------------------------------------
(* Green. *)

\* The larger of two.
LEMMA MaxPair ==
  ASSUME NEW a \in Int, NEW b \in Int
  PROVE  Max({a, b}) = IF a <= b THEN b ELSE a
<1> DEFINE m == IF a <= b THEN b ELSE a
           both == {a, b}
<1>1. m \in both /\ \A y \in both : m >= y
  OBVIOUS
<1>2. \A x \in both : (\A y \in both : x >= y) => x = m
  OBVIOUS
<1>3. (CHOOSE x \in both : \A y \in both : x >= y) = m
  <2> HIDE DEF m, both
  <2> QED BY <1>1, <1>2
<1> QED BY <1>3 DEF Max

\* The seconds of an outage inside a window (windowDowntime).
Lost(o, w) ==
  Max({0, Least(IF o.endedAt = Null THEN NowTick(Clock) ELSE o.endedAt, w.to) - Max({o.startedAt, w.from})})

\* The downtime of a window, as a sum over its outages.
LEMMA LostSum ==
  ASSUME NEW w, NEW S, IsFiniteSet(S), \A x \in S : Lost(x, w) \in Int
  PROVE  MapThenSumSet(LAMBDA o : Lost(o, w), S) = SumOf([x \in S |-> Lost(x, w)], S)
<1> DEFINE F == [x \in S |-> Lost(x, w)]
           h == CHOOSE g : g = [s \in SUBSET S |-> IF s = {} THEN 0 ELSE Lost(Pick(s), w) + g[s \ {Pick(s)}]]
<1>1. MapThenSumSet(LAMBDA o : Lost(o, w), S) = h[S]
  BY DEF MapThenSumSet, MapThenFoldSet, Pick
<1>2. IntsOn(F, S) /\ \A x \in S : F[x] \in Int
  BY DEF IntsOn
<1>3. \A s \in SUBSET S : s # {} => Pick(s) \in S /\ F[Pick(s)] = Lost(Pick(s), w)
  BY DEF Pick
<1> HIDE DEF F
<1>4. \A g : Adds(F, S, g) <=> g = [s \in SUBSET S |-> IF s = {} THEN 0 ELSE Lost(Pick(s), w) + g[s \ {Pick(s)}]]
  BY <1>3 DEF Adds
<1>5. Adds(F, S, h)
  <2>1. PICK g : Adds(F, S, g)
    BY <1>2, AddsExists
  <2> QED BY <1>4, <2>1
<1> HIDE DEF h
<1>6. h[S] = SumOf(F, S)
  BY <1>2, <1>5, SumWhole
<1> QED BY <1>1, <1>6 DEF F

\* What an outage takes of a window is no negative time, and some if a second lies in both.
LEMMA LostIs ==
  ASSUME NEW w, w.from \in Int, w.to \in Int, NEW o, o.startedAt \in Nat, o.endedAt \in Nat \cup {Null}, NowTick(Clock) \in Int
  PROVE  /\ Lost(o, w) \in Nat
         /\ \A ts \in Int : (/\ o.startedAt <= ts /\ w.from <= ts /\ ts < w.to
                             /\ o.endedAt # Null /\ ts < o.endedAt) => Lost(o, w) > 0
<1> DEFINE end == IF o.endedAt = Null THEN NowTick(Clock) ELSE o.endedAt
           last == Least(end, w.to)
           first == Max({o.startedAt, w.from})
<1>1. end \in Int
  OBVIOUS
<1>2. last \in Int /\ last = IF end <= w.to THEN end ELSE w.to
  <2> HIDE DEF end
  <2> QED BY <1>1 DEF Least
<1>3. first = (IF o.startedAt <= w.from THEN w.from ELSE o.startedAt) /\ first \in Int
  BY MaxPair
<1>4. o.endedAt # Null => end = o.endedAt
  OBVIOUS
<1>5. Lost(o, w) = Max({0, last - first})
  BY DEF Lost
<1> HIDE DEF end, last, first
<1>6. Lost(o, w) = IF 0 <= last - first THEN last - first ELSE 0
  <2>1. last - first \in Int
    BY <1>2, <1>3
  <2> QED BY <1>5, <2>1, MaxPair
<1>7. ASSUME NEW ts \in Int, o.startedAt <= ts, w.from <= ts, ts < w.to, o.endedAt # Null, ts < o.endedAt
      PROVE  Lost(o, w) > 0
  <2>1. ts < last
    BY <1>1, <1>2, <1>4, <1>7
  <2>2. first <= ts
    BY <1>3, <1>7
  <2> QED BY <1>2, <1>3, <1>6, <2>1, <2>2
<1> QED BY <1>2, <1>3, <1>6, <1>7

\* A window whose downtime is green was watched, and everything answered in what was recorded.
LEMMA GoodIsGood ==
  ASSUME ScreenInv, NEW w, w.from \in Int, w.to \in Int, NEW points,
         DowntimeTint(DowntimeOf(w), w.to - w.from, points) = "good"
  PROVE  /\ Comparable(points)
         /\ \A t \in TakenIn(w.from, w.to - 1) : Meets[t.meets].wan > 0 /\ Meets[t.meets].gw > 0
<1>0. WorldInv
  BY DEF ScreenInv, BooksInv
<1> DEFINE d == DowntimeOf(w)
           listed == OutagesListed(tables, w.from, w.to, 0)
           open == {o \in listed : o.endedAt = Null}
           F == [o \in listed |-> Lost(o, w)]
<1>1. d.open = Cardinality(open) /\ d.seconds = MapThenSumSet(LAMBDA o : Lost(o, w), listed)
  BY DEF DowntimeOf, WindowDowntime, Lost
<1>2. /\ listed \subseteq tables.outage
      /\ \A o \in listed : o.startedAt \in Nat /\ o.endedAt \in Nat \cup {Null}
  BY <1>0 DEF OutagesListed, WorldInv, OutagesKept, OutageRow
<1>3. \A o \in tables.outage : (/\ o.startedAt <= w.to /\ (o.endedAt # Null => o.endedAt >= w.from)
                                /\ o.endedAt # Null => o.endedAt - o.startedAt >= 0) => o \in listed
  BY DEF OutagesListed
<1> HIDE DEF listed
<1>4. NowTick(Clock) \in Int /\ Clock \in Nat
  <2>1. 0 \in Nat
    OBVIOUS
  <2>2. Clock \in Nat
    BY <1>0, <2>1, RecordedCycles
  <2> QED BY <2>2, ReadsAssumption DEF NowTick, BucketOf
<1>5. IsFiniteSet(listed) /\ IsFiniteSet(open) /\ Cardinality(open) \in Nat /\ (Cardinality(open) = 0 => open = {})
  <2>1. IsFiniteSet(tables.outage)
    BY DEF ScreenInv, BooksInv, OutagesCounted
  <2>2. IsFiniteSet(listed)
    BY <1>2, <2>1, FS_Subset
  <2>3. open \subseteq listed
    OBVIOUS
  <2> HIDE DEF open
  <2>4. IsFiniteSet(open)
    BY <2>2, <2>3, FS_Subset
  <2> QED BY <2>2, <2>4, FS_CardinalityType, FS_EmptySet
<1>6. \A o \in listed : F[o] = Lost(o, w) /\ F[o] \in Nat
  BY <1>2, <1>4, LostIs
<1>7. d.seconds = SumOf(F, listed)
  <2>1. \A o \in listed : Lost(o, w) \in Int
    BY <1>6
  <2> QED BY <1>1, <1>5, <2>1, LostSum
<1> HIDE DEF F, d, open
<1>8. d.seconds \in Nat /\ \A o \in listed : F[o] <= d.seconds
  BY <1>5, <1>6, <1>7, SumNat
<1>9. d.open \in Nat
  BY <1>1, <1>5
<1>10. d.open = 0 /\ d.seconds = 0 /\ Comparable(points)
  <2>1. DowntimeTint(d, w.to - w.from, points) = "good"
    BY DEF d
  <2>2. CASE d.open > 0
    BY <2>1, <2>2, <1>9 DEF DowntimeTint
  <2>3. CASE d.open = 0 /\ d.seconds > 0
    BY <2>1, <2>3 DEF DowntimeTint
  <2>4. CASE d.open = 0 /\ d.seconds = 0
    <3>1. Comparable(points) \in BOOLEAN
      BY DEF Comparable
    <3>2. CASE ~Comparable(points)
      <4>1. DowntimeTint(d, w.to - w.from, points) = Null
        BY <2>4, <3>2 DEF DowntimeTint
      <4> QED BY <2>1, <4>1, AbsentIsNoLabel
    <3> QED BY <2>4, <3>2
  <2> QED BY <1>8, <1>9, <2>2, <2>3, <2>4
<1>11. \A o \in listed : o.endedAt # Null /\ Lost(o, w) = 0
  <2>1. open = {}
    BY <1>1, <1>5, <1>10
  <2>2. \A o \in listed : o.endedAt # Null
    BY <2>1 DEF open
  <2> QED BY <1>6, <1>8, <1>10, <2>2
<1>12. ASSUME NEW t \in TakenIn(w.from, w.to - 1) PROVE Meets[t.meets].wan > 0 /\ Meets[t.meets].gw > 0
  <2>0. 0 \in Nat
    OBVIOUS
  <2>1. t \in Recorded(0) /\ w.from <= t.ts /\ t.ts <= w.to - 1
    BY DEF TakenIn
  <2>2. PICK i \in Kept : t = happened[i]
    BY <1>0, <2>0, <2>1, RecordedCycles
  <2>3. happened[i] \in Cycle /\ t.ts = CycleTs(i) /\ CycleTs(i) \in Nat
    BY <1>0, <2>0, <2>2, RecordedCycles
  <2>4. \A j \in Kept : CycleTs(j) \in Nat
    BY <1>0, <2>0, RecordedCycles
  <2>5. ASSUME Meets[t.meets].wan = 0 \/ Meets[t.meets].gw = 0 PROVE FALSE
    <3>1. PICK o \in tables.outage :
            /\ o.startedAt \in Nat /\ o.startedAt <= CycleTs(i)
            /\ o.endedAt = Null \/ \E j \in Kept : o.endedAt = CycleTs(j) /\ CycleTs(i) < CycleTs(j)
      BY <2>2, <2>5, DownIsOut
    <3>2. o.endedAt # Null => o.endedAt \in Nat /\ CycleTs(i) < o.endedAt
      BY <2>4, <3>1
    <3>3. o \in listed
      BY <1>3, <2>1, <2>3, <3>1, <3>2
    <3>4. o.endedAt # Null /\ Lost(o, w) = 0
      BY <1>11, <3>3
    <3>5. Lost(o, w) > 0
      <4>1. /\ CycleTs(i) \in Int /\ o.startedAt <= CycleTs(i) /\ w.from <= CycleTs(i) /\ CycleTs(i) < w.to
            /\ CycleTs(i) < o.endedAt
        BY <2>1, <2>3, <3>1, <3>2, <3>4
      <4>2. o.startedAt \in Nat /\ o.endedAt \in Nat \cup {Null}
        BY <1>2, <3>3
      <4> QED BY <1>4, <3>4, <4>1, <4>2, LostIs
    <3> QED BY <3>4, <3>5
  <2>6. Meets[t.meets].wan \in {0, 2, 4} /\ Meets[t.meets].gw \in {0, 2, 4}
    BY <2>2, <2>3, MeetsAre DEF Cycle
  <2> QED BY <2>5, <2>6
<1> QED BY <1>10, <1>12

\* What the page colours green, or says is up, or compares, somebody watched, and it was so
\* (status-bar.tsx, kpi.ts).
LEMMA GreenHolds == ASSUME ScreenInv, PageTells, PageDrawn PROVE GreenIsWatched
<1>0. WorldInv /\ page.asOf \in 0..Len(happened)
  BY DEF ScreenInv, BooksInv, PageTells
<1> DEFINE status == page.status
           tick == NowTick(page.drawn)
           wan == {s \in status.samples : s.target \in WanTargets}
           gw == {s \in status.samples : s.target = GatewayTarget}
           Watched(w, width) == 10 * Cardinality(AnsweredSlots(w.from, w.to, width)) >= 9 * Cardinality(SlotStarts(w, width))
<1>1. ASSUME NEW i, LastTo(i, page.asOf), page.drawn - CycleTs(i) < 3 * ProbeCycleS
      PROVE  Current /\ LastTold = happened[i]
  BY <1>0, <1>1, LastIs DEF Current
<1>2. ASSUME AllSystemsUp(status, tick)
      PROVE  Current /\ Meets[LastTold.meets].wan > 0 /\ Meets[LastTold.meets].gw > 0
  <2>1. PICK i : /\ LastTo(i, page.asOf) /\ page.drawn - CycleTs(i) < 3 * ProbeCycleS
                 /\ Meets[happened[i].meets].wan > 0 /\ Meets[happened[i].meets].gw > 0
    BY <1>0, <1>2, UpIsUp
  <2> QED BY <1>1, <2>1
<1>3. ASSUME NEW S \in SUBSET status.samples, NEW s \in S, \A r \in S : r.loss = 0
      PROVE  /\ s.target = GatewayTarget => Meets[LastTold.meets].gw = 4
             /\ s.target \in WanTargets => Meets[LastTold.meets].wan = 4 /\ ~Silent(LastTold, s.target)
  <2>1. PICK i : LastTo(i, page.asOf) /\ s \in SampleRows(happened[i])
    BY <1>3 DEF PageTells, TrueTo
  <2>2. LastTold = happened[i] /\ happened[i].meets \in DOMAIN Meets
    BY <1>0, <2>1, LastIs
  <2> QED BY <1>3, <2>1, <2>2, LostNothing
<1>4. ASSUME ReadingTone(LiveInternet(status.samples), tick) = "green"
      PROVE  Current /\ Meets[LastTold.meets].wan = 4 /\ \A w \in WanTargets : ~Silent(LastTold, w)
  <2>1. wan \in SUBSET status.samples /\ LiveInternet(status.samples) = LiveReading(wan)
    BY DEF LiveInternet
  <2>2. wan # {} /\ (\A s \in wan : s.loss = 0 /\ s.target \in WanTargets)
    BY <1>0, <1>4, <2>1, GreenReading
  <2>3. PICK i : LastTo(i, page.asOf) /\ page.drawn - CycleTs(i) < 3 * ProbeCycleS
    BY <1>0, <1>4, <2>1, GreenReading
  <2>4. ASSUME NEW w \in WanTargets PROVE \E s \in wan : s.target = w
    <3>1. w \in TargetNames
      BY DEF TargetNames
    <3> QED BY <2>3, <3>1 DEF PageTells, TrueTo
  <2>5. Current
    BY <1>1, <2>3
  <2> HIDE DEF wan
  <2>6. Meets[LastTold.meets].wan = 4
    <3>1. PICK s \in wan : TRUE
      BY <2>2
    <3> QED BY <1>3, <2>1, <2>2, <3>1
  <2>7. ASSUME NEW w \in WanTargets PROVE ~Silent(LastTold, w)
    <3>1. PICK s \in wan : s.target = w
      BY <2>4
    <3> QED BY <1>3, <2>1, <2>2, <3>1
  <2> QED BY <2>5, <2>6, <2>7
<1>5. ASSUME ReadingTone(LiveGateway(status.samples), tick) = "green" PROVE Current /\ Meets[LastTold.meets].gw = 4
  <2>1. gw \in SUBSET status.samples /\ LiveGateway(status.samples) = LiveReading(gw)
    BY DEF LiveGateway
  <2>2. gw # {} /\ \A s \in gw : s.loss = 0 /\ s.target = GatewayTarget
    BY <1>0, <1>5, <2>1, GreenReading
  <2>3. PICK i : LastTo(i, page.asOf) /\ page.drawn - CycleTs(i) < 3 * ProbeCycleS
    BY <1>0, <1>5, <2>1, GreenReading
  <2>4. PICK s \in gw : TRUE
    BY <2>2
  <2> HIDE DEF gw
  <2> QED BY <1>1, <1>3, <2>1, <2>2, <2>3, <2>4
<1>6. ASSUME NEW width \in Widths, NEW w \in Screens(width)
      PROVE  LET points == PointsOf(w, width)
                 before == WindowBefore(w)
             IN /\ DowntimeTint(DowntimeOf(w), w.to - w.from, points) = "good" =>
                     Watched(w, width) /\ \A t \in TakenIn(w.from, w.to - 1) : Meets[t.meets].wan > 0 /\ Meets[t.meets].gw > 0
                /\ CompareWindows(WorstBucketLoss(points), WorstBucketLoss(PointsOf(before, width)), FALSE,
                                  points, PointsOf(before, width)) # Null =>
                     Watched(w, width) /\ Watched(before, width)
  <2> DEFINE points == PointsOf(w, width)
             before == WindowBefore(w)
             earlier == PointsOf(before, width)
  <2>1. width \in Nat \ {0} /\ w.from \in Int /\ w.to \in Int /\ before.from \in Int /\ before.to \in Int
    BY <1>0, ScreensAre
  <2> HIDE DEF points, before, earlier
  <2>2. Comparable(points) => Watched(w, width)
    BY <1>0, <2>1, ComparableIsWatched DEF points
  <2>3. Comparable(earlier) => Watched(before, width)
    BY <1>0, <2>1, ComparableIsWatched DEF earlier
  <2> HIDE DEF Watched
  <2>4. ASSUME DowntimeTint(DowntimeOf(w), w.to - w.from, points) = "good"
        PROVE  Watched(w, width) /\ \A t \in TakenIn(w.from, w.to - 1) : Meets[t.meets].wan > 0 /\ Meets[t.meets].gw > 0
    BY <2>1, <2>2, <2>4, GoodIsGood
  <2>5. ASSUME CompareWindows(WorstBucketLoss(points), WorstBucketLoss(earlier), FALSE, points, earlier) # Null
        PROVE  Watched(w, width) /\ Watched(before, width)
    BY <2>2, <2>3, <2>5 DEF CompareWindows
  <2> QED BY <2>4, <2>5 DEF points, before, earlier
<1>7. page.served = 2 => Clock - page.drawn <= ProbeCycleS
  BY DEF PageDrawn
<1> QED BY <1>2, <1>4, <1>5, <1>6, <1>7, Zenon DEF GreenIsWatched, AnsweredSlots

\* Green is earned: whatever polls are answered, lost, or answered as before, what a page says
\* is up or colours green was so in the newest cycle it was told of, less than three cycles
\* before it was drawn; it is drawn again within a cycle as long as it is answered; and its
\* green windows were watched (status-bar.tsx, routes/index.tsx nowTick, kpi.ts).
THEOREM GreenEarned == ScreenSpec => []GreenIsWatched
<1>1. ScreenInv /\ PageTells /\ PageDrawn => GreenIsWatched
  BY GreenHolds
<1> QED BY <1>1, PageIsTrue, PTL

-----------------------------------------------------------------------------
(* What else the tables say. *)

\* The line is read once, before the first cycle, and a test has one row.
FirstLine == [ts |-> 0, status |-> "Up", sync |-> 250, showtime |-> Null]
StandsStill == tables.line = {FirstLine} /\ IsFiniteSet(tables.speed)

\* The cycles of one path, up to one of them.
OnPath(path, n) == {i \in 1..n : PathOf(happened[i]) = path}
Unbroken == \A i \in 1..Len(happened) : happened[i].odd # "reboot"
\* What an interface had counted before the first cycle.
Began(path) == IF path = Home THEN 0 ELSE 9

\* While the host does not restart, an interface has counted two units for each cycle of its
\* path: as it stands now, and as it stood in a row.
BytesTell ==
  /\ \A r \in tables.cycle : r.bytes # Null => r.pathIf = PathOf(happened[PlaceOf(r)])
  /\ Unbroken =>
       /\ \A path \in {Home, Away} : counter[path] = Began(path) + 2 * Cardinality(OnPath(path, Len(happened)))
       /\ \A r \in tables.cycle : r.bytes # Null =>
            r.bytes = Began(r.pathIf) + 2 * Cardinality(OnPath(r.pathIf, PlaceOf(r)))

\* A cycle neither reads the line nor brings more than one test.
LEMMA CycleStands ==
  ASSUME WorldInv, StandsStill, NEW meets \in DOMAIN Meets, NEW odd \in Oddities \cup {"none"},
         CycleHappens(meets, odd)
  PROVE  StandsStill'
<1> DEFINE t == [ts |-> CycleTs(Len(happened) + 1), meets |-> meets, odd |-> odd]
           kept == IF odd = "reboot" THEN [i \in DOMAIN counter |-> 0] ELSE counter
           bytes == kept[PathOf(t)] + 2
           wan == AfterCycle(tables.outage, "wan", t.ts, Meets[meets].wan = 0)
           a == SampleRows(t) b == CycleRow(t, bytes) c == EventRows(t)
           d == AfterCycle(wan, "gateway", t.ts, Meets[meets].gw = 0)
           u == [ts |-> t.ts, mbit |-> IF Meets[meets].wan = 0 THEN Null ELSE 940]
<1>1. tables' = IF odd = "missed" THEN tables
                ELSE [tables EXCEPT
                  !.sample = @ \cup a, !.cycle = @ \cup {b}, !.event = @ \cup c, !.outage = d,
                  !.speed = IF odd = "test" THEN @ \cup {u} ELSE @]
  BY DEF CycleHappens
<1> HIDE DEF a, b, c, d, u
<1>2. tables'.line = tables.line /\ (tables'.speed = tables.speed \/ tables'.speed = tables.speed \cup {u})
  BY <1>1 DEF WorldInv, Shaped
<1>3. IsFiniteSet(tables.speed \cup {u})
  BY FS_AddElement DEF StandsStill
<1> QED BY <1>2, <1>3 DEF StandsStill

\* The cycles up to a place are finite, and one more is on its own path.
LEMMA PathGrows ==
  ASSUME WorldInv, NEW n \in 0..Len(happened), NEW path
  PROVE  IsFiniteSet(OnPath(path, n)) /\ Cardinality(OnPath(path, n)) \in Nat
<1>1. n \in Nat
  BY LenProperties DEF WorldInv, Ordered
<1>2. IsFiniteSet(1..n)
  BY <1>1, FS_Interval
<1>3. IsFiniteSet(OnPath(path, n))
  BY <1>2, FS_Subset DEF OnPath
<1> QED BY <1>3, FS_CardinalityType

\* A cycle keeps what the counters tell.
LEMMA CycleTells ==
  ASSUME WorldInv, BytesCounted, BytesTell, NEW meets \in DOMAIN Meets, NEW odd \in Oddities \cup {"none"},
         CycleHappens(meets, odd)
  PROVE  BytesTell'
<1> DEFINE n == Len(happened)
           t == [ts |-> CycleTs(n + 1), meets |-> meets, odd |-> odd]
           kept == IF odd = "reboot" THEN [i \in DOMAIN counter |-> 0] ELSE counter
           path == PathOf(t)
           bytes == kept[path] + 2
           row == CycleRow(t, bytes)
<1>1. /\ n \in Nat /\ Len(happened') = n + 1 /\ happened'[n + 1] = t
      /\ \A i \in 1..n : happened'[i] = happened[i]
      /\ Kept \subseteq 1..n
      /\ \A i \in Kept : CycleTs(i) < CycleTs(n + 1) /\ CycleTs(i) \in Nat
      /\ odd = "missed" => tables' = tables
      /\ odd # "missed" => tables'.cycle = tables.cycle \cup {row}
      /\ counter' = [kept EXCEPT ![path] = bytes]
  BY CycleLeaves
<1>2. t.ts = CycleTs(n + 1) /\ t.odd = odd /\ t.ts \in Nat /\ CycleTs(n + 1) \div ProbeCycleS = n + 1
  BY <1>1, Stamp
<1>3. path \in {Home, Away}
  BY DEF PathOf
<1>4. /\ kept \in [{Home, Away} -> Nat] /\ counter \in [{Home, Away} -> Nat]
      /\ odd # "reboot" => kept = counter
  BY DEF BytesCounted
<1> HIDE DEF t, kept, path
<1>5. bytes \in Nat
  BY <1>3, <1>4
<1>6. row.ts = CycleTs(n + 1) /\ (row.bytes # Null => row.bytes = bytes /\ row.pathIf = path) /\ PlaceOf(row) = n + 1
  BY <1>2, <1>5, BytesFields DEF path, PlaceOf
<1>7. counter' = [kept EXCEPT ![path] = kept[path] + 2]
  BY <1>1
<1> HIDE DEF row
<1>8. ASSUME NEW r \in tables.cycle PROVE PlaceOf(r) \in 1..n
  <2>1. PICK i \in Kept : RowOf(r, i)
    BY RowsOfCycles
  <2>2. r.ts = CycleTs(i) /\ i \in 1..n /\ i \in Nat
    BY <1>1, <2>1 DEF RowOf
  <2> QED BY <2>2, Stamp DEF PlaceOf
<1>9. tables'.cycle \subseteq tables.cycle \cup {row}
  BY <1>1
<1>10. PathOf(happened'[n + 1]) = path
  BY <1>1 DEF path, PathOf
<1>11. ASSUME NEW r \in tables'.cycle, r.bytes # Null PROVE r.pathIf = PathOf(happened'[PlaceOf(r)])
  <2>1. CASE r \in tables.cycle
    <3>1. r.pathIf = PathOf(happened[PlaceOf(r)])
      BY <1>11, <2>1 DEF BytesTell
    <3> QED BY <1>1, <1>8, <2>1, <3>1
  <2>2. CASE r = row
    BY <1>6, <1>10, <1>11, <2>2
  <2> QED BY <1>9, <2>1, <2>2
\* the paths of the cycles that were there stay
<1>12. ASSUME NEW p, NEW m \in 0..n PROVE OnPath(p, m)' = OnPath(p, m)
  BY <1>1, <1>12 DEF OnPath, PathOf
<1>13. ASSUME NEW p, NEW m \in Nat, m = n + 1
       PROVE  Cardinality(OnPath(p, m)') = Cardinality(OnPath(p, n)) + IF p = path THEN 1 ELSE 0
  <2>1. IsFiniteSet(OnPath(p, n)) /\ Cardinality(OnPath(p, n)) \in Nat
    BY <1>1, PathGrows
  <2>2. n + 1 \notin OnPath(p, n)
    BY <1>1 DEF OnPath
  <2>3. OnPath(p, m)' = IF p = path THEN OnPath(p, n) \cup {n + 1} ELSE OnPath(p, n)
    <3>1. OnPath(p, m)' = {i \in 1..m : PathOf(happened'[i]) = p}
      BY DEF OnPath, PathOf
    <3>2. \A i \in 1..n : PathOf(happened'[i]) = PathOf(happened[i])
      BY <1>1
    <3>3. 1..m = 1..n \cup {n + 1} /\ n + 1 \notin 1..n
      BY <1>1, <1>13
    <3> QED BY <1>10, <3>1, <3>2, <3>3 DEF OnPath
  <2>4. Cardinality(OnPath(p, n) \cup {n + 1}) = Cardinality(OnPath(p, n)) + 1
    BY <2>1, <2>2, FS_AddElement
  <2> QED BY <2>1, <2>3, <2>4
<1>14. ASSUME Unbroken'
       PROVE  /\ \A p \in {Home, Away} : counter'[p] = Began(p) + 2 * Cardinality(OnPath(p, Len(happened))')
              /\ \A r \in tables'.cycle : r.bytes # Null =>
                   r.bytes = Began(r.pathIf) + 2 * Cardinality(OnPath(r.pathIf, PlaceOf(r))')
  <2>1. Unbroken /\ odd # "reboot"
    BY <1>1, <1>2, <1>14 DEF Unbroken
  <2>2. \A p \in {Home, Away} : counter[p] = Began(p) + 2 * Cardinality(OnPath(p, n))
    BY <2>1 DEF BytesTell
  <2>3. kept = counter
    BY <1>4, <2>1
  <2>4. ASSUME NEW p \in {Home, Away} PROVE \A m \in Nat : m = n + 1 =>
                                                        counter'[p] = Began(p) + 2 * Cardinality(OnPath(p, m)')
    <3>1. Cardinality(OnPath(p, n)) \in Nat /\ Began(p) \in Nat
      BY <1>1, PathGrows DEF Began
    <3>2. counter'[p] = counter[p] + IF p = path THEN 2 ELSE 0
      BY <1>3, <1>4, <1>7, <2>3
    <3> QED BY <1>13, <2>2, <3>1, <3>2
  <2>5. ASSUME NEW r \in tables'.cycle, r.bytes # Null
        PROVE  r.bytes = Began(r.pathIf) + 2 * Cardinality(OnPath(r.pathIf, PlaceOf(r))')
    <3>1. CASE r \in tables.cycle
      <4>1. r.bytes = Began(r.pathIf) + 2 * Cardinality(OnPath(r.pathIf, PlaceOf(r)))
        BY <2>1, <2>5, <3>1 DEF BytesTell
      <4>2. PlaceOf(r) \in 0..n
        BY <1>1, <1>8, <3>1
      <4> QED BY <1>12, <4>1, <4>2
    <3>2. CASE r = row
      <4>1. r.bytes = counter'[path] /\ r.pathIf = path /\ PlaceOf(r) = n + 1 /\ PlaceOf(r) \in Nat
        BY <1>1, <1>3, <1>4, <1>6, <1>7, <2>5, <3>2
      <4> QED BY <1>3, <2>4, <4>1
    <3> QED BY <1>9, <3>1, <3>2
  <2>6. PICK m \in Nat : m = n + 1
    BY <1>1
  <2>7. \A p : OnPath(p, Len(happened))' = OnPath(p, m)'
    BY <1>1, <2>6 DEF OnPath
  <2> QED BY <2>4, <2>5, <2>6, <2>7
<1> QED BY <1>11, <1>14 DEF BytesTell

\* Everything the page's figures need of the record.
PageInv == ScreenInv /\ StandsStill /\ BytesTell

\* It is so at all times.
LEMMA PageHolds == WorldSpec => []PageInv
<1>1. WorldInit => StandsStill /\ BytesTell
  <2> SUFFICES ASSUME WorldInit PROVE StandsStill /\ BytesTell
    OBVIOUS
  <2>1. Len(happened) = 0 /\ 1..0 = {} /\ tables.cycle = {} /\ tables.speed = {} /\ tables.line = {FirstLine}
    BY EmptyFacts DEF WorldInit, FirstLine
  <2>2. IsFiniteSet({}) /\ Cardinality({}) = 0
    BY FS_EmptySet
  <2>3. \A path : OnPath(path, 0) = {}
    BY <2>1 DEF OnPath
  <2>4. \A path \in {Home, Away} : counter[path] = Began(path)
    BY WorldAssumption DEF WorldInit, Began
  <2>5. \A path \in {Home, Away} : Began(path) \in Nat
    BY DEF Began
  <2>6. \A path \in {Home, Away} : counter[path] = Began(path) + 2 * Cardinality(OnPath(path, Len(happened)))
    <3> TAKE path \in {Home, Away}
    <3>1. OnPath(path, Len(happened)) = {}
      BY <2>1, <2>3
    <3>2. Cardinality(OnPath(path, Len(happened))) = 0
      BY <2>2, <3>1
    <3> QED BY <2>4, <2>5, <3>2
  <2> QED BY <2>1, <2>2, <2>6 DEF StandsStill, BytesTell
<1>2. ScreenInv /\ StandsStill /\ BytesTell /\ [WorldNext]_worldVars => (StandsStill /\ BytesTell)'
  <2> SUFFICES ASSUME ScreenInv, StandsStill, BytesTell, [WorldNext]_worldVars PROVE StandsStill' /\ BytesTell'
    OBVIOUS
  <2>0. WorldInv /\ BytesCounted
    BY DEF ScreenInv, BooksInv
  <2>1. CASE WorldNext
    <3>1. PICK meets \in DOMAIN Meets : \E odd \in Oddities \cup {"none"} : CycleHappens(meets, odd)
      BY <2>1 DEF WorldNext
    <3>2. PICK odd \in Oddities \cup {"none"} : CycleHappens(meets, odd)
      BY <3>1
    <3>3. StandsStill'
      BY <2>0, <3>1, <3>2, CycleStands
    <3>4. BytesTell'
      BY <2>0, <3>1, <3>2, CycleTells
    <3> QED BY <3>3, <3>4
  <2>2. CASE UNCHANGED worldVars
    <3>1. tables' = tables /\ happened' = happened /\ counter' = counter
      BY <2>2 DEF worldVars
    <3>2. (Unbroken' <=> Unbroken) /\ \A path, m : OnPath(path, m)' = OnPath(path, m)
      BY <3>1 DEF Unbroken, OnPath
    <3> QED BY <3>1, <3>2 DEF StandsStill, BytesTell
  <2> QED BY <2>1, <2>2
<1> QED BY <1>1, <1>2, ScreenHolds, PTL DEF WorldSpec, PageInv

-----------------------------------------------------------------------------
(* The path now. *)

\* The line the page holds is the one that was read.
LineKnown ==
  LET line == RouterSnapshot(tables, Clock, StaleAfterS).line IN line = Null \/ line.value.sync = 250
LineTells == page.line = Null \/ page.line.value.sync = 250

LEMMA LineIsKnown == ASSUME StandsStill PROVE LineKnown
<1> DEFINE line == RouterSnapshot(tables, Clock, StaleAfterS).line
<1>1. Newest({FirstLine}) = FirstLine
  <2>1. {FirstLine} # {} /\ (CHOOSE r \in {FirstLine} : \A q \in {FirstLine} : q.ts <= r.ts) = FirstLine
    <3>1. FirstLine.ts <= FirstLine.ts
      BY DEF FirstLine
    <3> QED BY <3>1
  <2> QED BY <2>1 DEF Newest
<1>2. line = Observe(FirstLine, Clock, StaleAfterS)
  BY <1>1 DEF RouterSnapshot, StandsStill
<1>3. FirstLine.sync = 250
  BY DEF FirstLine
<1> HIDE DEF line
<1> QED BY <1>1, <1>2, <1>3 DEF Observe, LineKnown, line

\* And remains so.
LEMMA LineIsTold == ScreenSpec => []LineTells
<1>1. ScreenInit => LineTells
  BY DEF ScreenInit, LineTells
<1>2. LineKnown' /\ LineTells /\ [ScreenNext]_screenVars => LineTells'
  <2> SUFFICES ASSUME LineKnown', LineTells, [ScreenNext]_screenVars PROVE LineTells'
    OBVIOUS
  <2>1. CASE ScreenNext
    <3>1. PICK answered : PagePolls(answered)
      BY <2>1 DEF ScreenNext
    <3>2. page'.line = IF "router" \in answered THEN RouterSnapshot(tables', Clock', StaleAfterS).line ELSE page.line
      BY <3>1 DEF PagePolls
    <3> QED BY <3>2 DEF LineTells, LineKnown
  <2>2. CASE UNCHANGED screenVars
    BY <2>2 DEF screenVars, LineTells
  <2> QED BY <2>1, <2>2
<1>3. PageInv => LineKnown
  BY LineIsKnown DEF PageInv
<1> QED BY <1>1, <1>2, <1>3, WorldOfScreen, PageHolds, PTL DEF ScreenSpec

\* What the page says of the path is of the newest cycle it was told of.
LEMMA PathHolds == ASSUME WorldInv, PageTells, PageDrawn, LineTells PROVE PathIsNow
<1> DEFINE v == page.status.vantage
           line == page.line
           tick == NowTick(page.drawn)
           last == LastTold
\* a vantage that is not stale is the newest cycle's
<1>1. ASSUME v # Null, ~IsStale(v.ts, tick)
      PROVE  /\ Current /\ (v.home = 1 => last.odd # "blind" /\ PathOf(last) = Home)
             /\ (v.link # Null => v.link = LinkSpeed(last))
  <2>1. PICK i : LastTo(i, page.asOf) /\ RowOf(v, i)
    BY <1>1 DEF PageTells, TrueTo
  <2>2. Told # {} /\ last = happened[i] /\ happened[i].ts = CycleTs(i) /\ i \in Nat
    BY <2>1, LastIs DEF PageTells
  <2>3. PICK at \in Nat, ts \in Nat : at = page.drawn /\ ts = CycleTs(i)
    BY <2>2, Stamp DEF PageDrawn
  <2>4. v.ts = ts
    BY <2>1, <2>3 DEF RowOf
  <2>5. at - ts < 3 * ProbeCycleS
    BY <1>1, <2>3, <2>4, FreshIs
  <2>6. Current
    BY <2>2, <2>3, <2>5 DEF Current
  <2> HIDE DEF v
  <2>7. v.home = 1 => last.odd # "blind" /\ PathOf(last) = Home
    BY <2>1, <2>2, AbsentIsNoNumber DEF RowOf
  <2>8. v.link # Null => v.link = LinkSpeed(last)
    BY <2>1, <2>2 DEF RowOf
  <2> QED BY <2>6, <2>7, <2>8
<1>2. line = Null \/ (line.value.sync = 250)
  BY DEF LineTells
<1> HIDE DEF line, v, last, tick
<1>3. HomeLineChip(v, tick) = "home line" => Current /\ last.odd # "blind" /\ PathOf(last) = Home
  <2> SUFFICES ASSUME HomeLineChip(v, tick) = "home line" PROVE v # Null /\ ~IsStale(v.ts, tick) /\ v.home = 1
    BY <1>1
  <2>1. v # Null
    BY AbsentIsNoLabel DEF HomeLineChip
  <2>2. ~IsStale(v.ts, tick)
    BY <2>1, AbsentIsNoLabel DEF HomeLineChip
  <2> QED BY <2>1, <2>2 DEF HomeLineChip
<1>4. CompareCarrierHost(line, v, tick) # Null =>
        Current /\ CompareCarrierHost(line, v, tick) = (100 * LinkSpeed(last)) \div 250
  <2> SUFFICES ASSUME CompareCarrierHost(line, v, tick) # Null
               PROVE Current /\ CompareCarrierHost(line, v, tick) = (100 * LinkSpeed(last)) \div 250
    OBVIOUS
  <2>1. line # Null /\ v # Null
    BY DEF CompareCarrierHost
  <2>2. line.value.sync # Null /\ v.link # Null
    BY <2>1 DEF CompareCarrierHost
  <2>3. ~(tick - line.observedAt >= ComparableS)
    BY <2>1, <2>2 DEF CompareCarrierHost
  <2>4. ~(tick - v.ts >= ComparableS \/ IsStale(v.ts, tick))
    BY <2>1, <2>2, <2>3 DEF CompareCarrierHost
  <2>5. CompareCarrierHost(line, v, tick) = (100 * v.link) \div line.value.sync
    BY <2>1, <2>2, <2>3, <2>4 DEF CompareCarrierHost
  <2> QED BY <1>1, <1>2, <2>1, <2>2, <2>4, <2>5
<1>5. ThroughputRefLines(line, v, tick) \subseteq {250} \cup (IF Current THEN {LinkSpeed(last)} ELSE {})
  <2> SUFFICES ASSUME NEW x \in ThroughputRefLines(line, v, tick)
               PROVE  x = 250 \/ (Current /\ x = LinkSpeed(last))
    OBVIOUS
  <2>1. \/ v # Null /\ ~IsStale(v.ts, tick) /\ x = v.link /\ x # Null
        \/ line # Null /\ x = line.value.sync
    BY DEF ThroughputRefLines
  <2> QED BY <1>1, <1>2, <2>1
<1> QED BY <1>3, <1>4, <1>5 DEF PathIsNow, v, line, tick, last

-----------------------------------------------------------------------------
(* The verdicts on the page. *)

\* A verdict keeps the severity of its rule, or goes one step down.
LEMMA SeverityKept ==
  \A id, about, cause, l : \A severity \in {"critical", "warn", "info"} :
     /\ Said(id, severity, about, cause).severity = severity
     /\ Gated(Said(id, severity, about, cause), l).severity \in {"critical", "warn", "info"}
<1>1. ASSUME NEW id, NEW about, NEW cause, NEW l, NEW severity \in {"critical", "warn", "info"}
      PROVE  /\ Said(id, severity, about, cause).severity = severity
             /\ Gated(Said(id, severity, about, cause), l).severity \in {"critical", "warn", "info"}
  <2>1. PICK v : v = Said(id, severity, about, cause)
    OBVIOUS
  <2>2. v.severity = severity
    BY <2>1 DEF Said
  <2>3. Downgrade(severity) \in {"critical", "warn", "info"}
    BY <1>1 DEF Downgrade
  <2>4. CASE LinkCertain(l)
    BY <1>1, <2>1, <2>2, <2>4 DEF Gated
  <2>5. CASE ~LinkCertain(l)
    <3>1. Gated(v, l).severity = Downgrade(v.severity)
      BY <2>1, <2>5 DEF Gated, Said
    <3> QED BY <2>1, <2>2, <2>3, <3>1
  <2> QED BY <2>4, <2>5
<1> QED BY <1>1

\* Every verdict has a severity and a section.
LEMMA VerdictsAre ==
  ASSUME NEW in, NEW v \in DeriveVerdicts(in)
  PROVE  /\ v.severity \in {"critical", "warn", "info"}
         /\ \E s \in DOMAIN VerdictSection : v.id \in VerdictSection[s]
<1> DEFINE Fits(ids) == v.severity \in {"critical", "warn", "info"} /\ v.id \in ids
<1>1. ASSUME v \in CollectorSilent(in.last, in.now) PROVE Fits({"no_data", "collector_silent"})
  BY <1>1, IdKept, SeverityKept DEF CollectorSilent
<1>2. ASSUME v \in ThroughputExceedsLink(in.throughput, in.changes) PROVE Fits({"throughput_exceeds_link"})
  BY <1>2, IdKept, SeverityKept DEF ThroughputExceedsLink
<1>3. ASSUME v \in LinkBelowCarrierSync(in.linkVsSync, in.now) PROVE Fits({"link_below_carrier_sync"})
  BY <1>3, IdKept, SeverityKept DEF LinkBelowCarrierSync
<1>4. ASSUME v \in ProbeCoverageLow(in.from, in.to, in.coverage)
      PROVE  Fits({"coverage_unknown", "probe_coverage_low"})
  BY <1>4, IdKept, SeverityKept DEF ProbeCoverageLow
<1>5. ASSUME v \in RouterCoverageLow(in.enabled, in.from, in.router)
      PROVE  Fits({"router_disabled", "router_no_data", "router_coverage_low"})
  <2>1. \E id \in {"router_disabled", "router_no_data", "router_coverage_low"}, severity \in {"critical", "warn", "info"} :
          v = Said(id, severity, in.from, Null)
    BY <1>5 DEF RouterCoverageLow
  <2> QED BY <2>1, IdKept, SeverityKept
<1>6. ASSUME v \in CarrierResyncDated(in.clusters) PROVE Fits({"carrier_resync_dated"})
  BY <1>6, IdKept, SeverityKept DEF CarrierResyncDated
<1>7. ASSUME v \in SubCyclePathStall(in.stalls) PROVE Fits({"sub_cycle_path_stall"})
  BY <1>7 DEF SubCyclePathStall, Said
<1>8. ASSUME v \in GatewayOutageUncorroborated(in.gateway, in.link) PROVE Fits({"gateway_outage_uncorroborated"})
  BY <1>8, IdKept, SeverityKept DEF GatewayOutageUncorroborated
<1>9. ASSUME v \in SymmetricLossNotLine(in.symmetric, in.link) PROVE Fits({"symmetric_loss_not_line"})
  BY <1>9, IdKept, SeverityKept DEF SymmetricLossNotLine
<1>10. /\ {"uptime", "latency", "speed", "path"} = DOMAIN VerdictSection
       /\ VerdictSection["uptime"] = {"no_data", "collector_silent", "coverage_unknown", "probe_coverage_low",
                                      "gateway_outage_uncorroborated"}
       /\ VerdictSection["latency"] = {"sub_cycle_path_stall", "symmetric_loss_not_line"}
       /\ VerdictSection["speed"] = {"throughput_exceeds_link"}
       /\ VerdictSection["path"] = {"link_below_carrier_sync", "router_disabled", "router_no_data",
                                    "router_coverage_low", "carrier_resync_dated"}
  BY DEF VerdictSection
<1>11. \/ Fits(VerdictSection["uptime"]) \/ Fits(VerdictSection["latency"])
       \/ Fits(VerdictSection["speed"]) \/ Fits(VerdictSection["path"])
  BY <1>1, <1>2, <1>3, <1>4, <1>5, <1>6, <1>7, <1>8, <1>9, <1>10 DEF DeriveVerdicts
<1> QED BY <1>10, <1>11

\* None of them is without a section, and a warning is in a group that warns.
LEMMA GroupsWarn ==
  ASSUME NEW in
  PROVE  LET verdicts == DeriveVerdicts(in)
             tiers == TriageVerdicts(GroupVerdicts(verdicts))
         IN /\ UnmappedVerdictIds(verdicts) = {}
            /\ \A v \in verdicts : v.severity \in {"warn", "critical"} =>
                 \E g \in tiers.critical \cup tiers.warn : v \in g.instances
<1> DEFINE verdicts == DeriveVerdicts(in)
           groups == GroupVerdicts(verdicts)
           tiers == TriageVerdicts(groups)
           Rank(v) == SeverityRank[v.severity]
<1>1. \A v \in verdicts : /\ v.severity \in {"critical", "warn", "info"}
                          /\ \E s \in DOMAIN VerdictSection : v.id \in VerdictSection[s]
  BY VerdictsAre
<1> HIDE DEF verdicts
<1>2. UnmappedVerdictIds(verdicts) = {}
  BY <1>1 DEF UnmappedVerdictIds
<1>3. \A v \in verdicts : /\ Rank(v) \in Nat /\ (Rank(v) <= 1 <=> v.severity \in {"critical", "warn"})
  BY <1>1 DEF SeverityRank
<1> HIDE DEF Rank
<1>4. ASSUME NEW v \in verdicts, v.severity \in {"warn", "critical"}
      PROVE  \E g \in tiers.critical \cup tiers.warn : v \in g.instances
  <2> DEFINE mine == {q \in verdicts : q.id = v.id}
             worst == CHOOSE p \in mine : \A q \in mine : Rank(p) <= Rank(q)
             ranks == {Rank(q) : q \in mine}
             g == [id |-> v.id, instances |-> mine, severity |-> worst.severity]
  <2>1. ranks \in SUBSET Nat /\ Rank(v) \in ranks
    BY <1>3
  <2>2. PICK x \in ranks : \A y \in ranks : x <= y
    <3> HIDE DEF ranks
    <3> QED BY <2>1, LeastOf
  <2>3. PICK p \in mine : \A q \in mine : Rank(p) <= Rank(q)
    BY <2>2
  <2>4. worst \in mine /\ \A q \in mine : Rank(worst) <= Rank(q)
    BY <2>3
  <2>5. Rank(v) <= 1 /\ Rank(worst) <= Rank(v) /\ worst \in verdicts
    BY <1>3, <1>4, <2>4
  <2>6. worst.severity \in {"critical", "warn"}
    <3> HIDE DEF worst
    <3> QED BY <1>3, <2>5
  <2>7. g \in groups
    BY DEF GroupVerdicts, Rank
  <2>8. g.instances = mine /\ g.severity = worst.severity /\ v \in mine
    OBVIOUS
  <2> HIDE DEF g, groups, worst, mine
  <2>9. tiers.critical = {h \in groups : h.severity = "critical"} /\ tiers.warn = {h \in groups : h.severity = "warn"}
    BY DEF TriageVerdicts
  <2> QED BY <2>6, <2>7, <2>8, <2>9
<1> QED BY <1>2, <1>4 DEF verdicts

-----------------------------------------------------------------------------
(* The coverage of a window of the page. *)

\* The recorded cycles of a window.
KeptIn(from, to) == {i \in Kept : from <= CycleTs(i) /\ CycleTs(i) <= to}

\* The places of the recorded cycles.
LEMMA KeptAre ==
  ASSUME WorldInv
  PROVE  /\ Len(happened) \in Nat /\ Kept \subseteq 1..Len(happened) /\ IsFiniteSet(Kept)
         /\ \A i \in 1..Len(happened) : happened[i] \in Cycle /\ happened[i].ts = CycleTs(i)
<1>1. happened \in Seq(Cycle) /\ \A i \in 1..Len(happened) : happened[i].ts = CycleTs(i)
  BY DEF WorldInv, Ordered
<1>2. Len(happened) \in Nat /\ \A i \in 1..Len(happened) : happened[i] \in Cycle
  BY <1>1, LenProperties, ElementOfSeq
<1>3. IsFiniteSet(1..Len(happened))
  BY <1>2, FS_Interval
<1>4. Kept \subseteq 1..Len(happened)
  BY DEF Kept
<1>5. IsFiniteSet(Kept)
  BY <1>3, <1>4, FS_Subset
<1> QED BY <1>1, <1>2, <1>4, <1>5

\* The timestamps of a window's samples are those of its recorded cycles.
LEMMA StampsIn ==
  ASSUME WorldInv, NEW from \in Int, NEW to \in Int
  PROVE  LET stamps == Stamps(Within(tables.sample, from, to))
         IN /\ stamps = {CycleTs(i) : i \in KeptIn(from, to)} /\ stamps \subseteq Nat
            /\ IsFiniteSet(KeptIn(from, to)) /\ IsFiniteSet(stamps)
            /\ Cardinality(stamps) = Cardinality(KeptIn(from, to))
<1> DEFINE stamps == Stamps(Within(tables.sample, from, to))
           S == KeptIn(from, to)
           f == [i \in S |-> CycleTs(i)]
<1>1. IsFiniteSet(S) /\ S \subseteq Nat /\ S \subseteq Kept
  BY KeptAre, FS_Subset DEF KeptIn
<1>2. \A s \in tables.sample : \E i \in Kept : s.ts = CycleTs(i)
  BY OneSample
<1>3. \A i \in Kept : \E s \in tables.sample : s.ts = CycleTs(i)
  <2>1. GatewayTarget \in TargetNames
    BY DEF TargetNames
  <2> QED BY <2>1, OneSample
<1>4. stamps = {CycleTs(i) : i \in S}
  BY <1>2, <1>3 DEF Stamps, Within, KeptIn
<1> HIDE DEF stamps, S
<1>5. OneToOne(f, S)
  BY <1>1, Stamp DEF OneToOne
<1>6. ImageOf(f, S) = {CycleTs(i) : i \in S}
  BY DEF ImageOf
<1> HIDE DEF f
<1>7. IsFiniteSet(stamps) /\ Cardinality(stamps) = Cardinality(S)
  BY <1>1, <1>4, <1>5, <1>6, SameMany
<1>8. stamps \subseteq Nat
  BY <1>1, <1>4, Stamp
<1> QED BY <1>1, <1>4, <1>7, <1>8 DEF stamps, S

\* A window at the width of a cycle lies on the grid of the page's clock.
LEMMA ScreenGrid ==
  ASSUME WorldInv, NEW w \in Screens(ProbeCycleS)
  PROVE  \E m \in Int, n \in Nat \ {0} : w.to = m * ProbeCycleS /\ w.from = (m - n) * ProbeCycleS
<1> DEFINE P == ProbeCycleS
<1>1. P \in Nat \ {0}
  BY ReadsAssumption
<1>2. WindowKeyStep(P) = P
  <2>1. PICK least \in {0} \cup {Least(P, KeyMaxStep)} : least = Least(P, KeyMaxStep) /\ least \in Nat /\ least <= P
    BY <1>1 DEF Least, KeyMaxStep
  <2>2. Max({P, least}) \in {P, least} /\ \A x \in {P, least} : x <= Max({P, least})
    BY <1>1, <2>1, MaxOf
  <2>3. Max({P, least}) = P
    BY <1>1, <2>1, <2>2
  <2> QED BY <2>1, <2>3 DEF WindowKeyStep
<1>3. PICK n \in 1..Len(happened) : w = QuantiseWindow(RangeToWindow(n * P, Clock), P)
  BY DEF Screens, Spans
<1>4. n \in Nat \ {0} /\ n * P \in Nat
  BY <1>1, <1>3, KeptAre
<1>5. Clock \in Nat
  <2>1. 0 \in Nat
    OBVIOUS
  <2> QED BY <2>1, RecordedCycles
<1> DEFINE q == Clock \div P
           r == RangeToWindow(n * P, Clock)
<1>6. q \in Int
  BY <1>1, <1>5
<1>7. r.to = q * P /\ r.from = q * P - n * P
  BY <1>4 DEF RangeToWindow, BucketOf
<1> HIDE DEF q, r
<1>8. (q * P) \div P = q
  BY <1>1, <1>6
<1>9. w.to = q * P /\ w.from = q * P - n * P
  <2>1. BucketOf(r.to, P) = q * P
    BY <1>7, <1>8 DEF BucketOf
  <2>2. q * P \in Int /\ n * P \in Int
    BY <1>1, <1>4, <1>6
  <2>3. w = [from |-> r.from - (r.to - q * P), to |-> q * P]
    BY <1>2, <1>3, <2>1 DEF QuantiseWindow, r
  <2> QED BY <1>7, <2>2, <2>3
<1>10. q * P - n * P = (q - n) * P
  BY <1>1, <1>4, <1>6
<1> QED BY <1>4, <1>6, <1>9, <1>10

\* A whole quotient is what it is rounded to.
LEMMA RoundedWhole ==
  ASSUME NEW k \in Int, NEW d \in Nat \ {0}
  PROVE  Rounded(k * d, d) = k
<1> DEFINE x == k * d
<1>1. 2 * x + d = k * (2 * d) + d /\ 2 * d \in Nat \ {0} /\ x \in Int
  OBVIOUS
<1>2. (k * (2 * d) + d) \div (2 * d) = k
  <2> DEFINE e == 2 * d y == k * e + d
  <2>1. e \in Nat \ {0} /\ d < e /\ 0 <= d
    OBVIOUS
  <2>2. k * e \in Int /\ k * e <= y /\ y < (k + 1) * e
    BY <2>1
  <2> HIDE DEF e
  <2>3. y \div e = k
    BY <2>1, <2>2
  <2> QED BY <2>3 DEF e
<1> QED BY <1>1, <1>2 DEF Rounded

\* And what is no less than a whole quotient is rounded to no less.
LEMMA RoundedAtLeast ==
  ASSUME NEW k \in Int, NEW d \in Nat \ {0}, NEW a \in Int, k * d <= a
  PROVE  k <= Rounded(a, d) /\ Rounded(a, d) \in Int
<1> DEFINE e == 2 * d  y == 2 * a + d
<1>1. e \in Nat \ {0} /\ y \in Int /\ k * d \in Int /\ k * e = 2 * (k * d)
  OBVIOUS
<1>2. k * e <= y /\ k * e \in Int
  BY <1>1
<1> HIDE DEF e, y
<1>3. PICK q \in Int : q = y \div e
  BY <1>1
<1>4. y < q * e + e /\ q * e \in Int
  BY <1>1, <1>3
<1>5. k <= q
  <2> SUFFICES ASSUME q + 1 <= k PROVE FALSE
    BY <1>3
  <2>1. PICK m \in Nat : k = q + 1 + m
    BY k - (q + 1) \in Nat
  <2>2. k * e = q * e + e + m * e /\ m * e \in Nat
    BY <1>1, <2>1
  <2> QED BY <1>2, <1>4, <2>2, <1>1
<1> QED BY <1>3, <1>5 DEF Rounded, e, y

\* Where the recorded cycles are nearly as many as the places they stand on, hardly one is missing.
LEMMA HardlyMissing ==
  ASSUME NEW all \in Nat, NEW gone \in Nat, NEW kept \in Nat, all = gone + kept,
         NEW s \in Nat \ {0}, all <= s + 1, (100 * kept) \div s >= 99
  PROVE  100 * (gone - 1) <= all
<1>1. 99 * s <= 100 * kept
  BY ShareFacts
<1> QED BY <1>1

\* The cycles of some places are as many as the places.
CyclesAt(J) == {happened[i] : i \in J}
LEMMA AsMany ==
  ASSUME WorldInv, NEW J \in SUBSET (1..Len(happened))
  PROVE  /\ IsFiniteSet(J) /\ Cardinality(J) \in Nat
         /\ IsFiniteSet(CyclesAt(J)) /\ Cardinality(CyclesAt(J)) = Cardinality(J)
<1> DEFINE f == [i \in J |-> happened[i]]
<1>1. IsFiniteSet(J) /\ \A i \in J : i \in Nat /\ happened[i].ts = CycleTs(i)
  <2>1. IsFiniteSet(1..Len(happened))
    BY KeptAre, FS_Interval
  <2>2. \A i \in J : i \in 1..Len(happened) /\ i \in Nat
    BY KeptAre
  <2> QED BY <2>1, <2>2, KeptAre, FS_Subset
<1>2. OneToOne(f, J)
  <2>1. \A i, k \in J : happened[i] = happened[k] => i = k
    BY <1>1, Stamp
  <2> QED BY <2>1 DEF OneToOne
<1>3. ImageOf(f, J) = CyclesAt(J)
  BY DEF ImageOf, CyclesAt
<1> HIDE DEF f
<1> QED BY <1>1, <1>2, <1>3, SameMany, FS_CardinalityType

\* The cycles of the window properties, by their places.
LEMMA PlacesAre ==
  ASSUME WorldInv, NEW from \in Int, NEW to \in Int
  PROVE  /\ InWindow(from) = CyclesAt({i \in 1..Len(happened) : from <= CycleTs(i)})
         /\ Recorded(from) = CyclesAt({i \in Kept : from <= CycleTs(i)})
         /\ TakenIn(from, to) = CyclesAt(KeptIn(from, to))
<1>1. DOMAIN happened = 1..Len(happened) /\ \A i \in 1..Len(happened) : happened[i].ts = CycleTs(i) /\ CycleTs(i) \in Nat
  <2>1. \A i \in 1..Len(happened) : i \in Nat
    BY KeptAre
  <2> QED BY <2>1, KeptAre, Stamp, LenProperties DEF WorldInv, Ordered
<1>2. \A start \in Int : InWindow(start) = CyclesAt({i \in 1..Len(happened) : start <= CycleTs(i)})
  BY <1>1 DEF InWindow, CyclesAt
<1>3. \A start \in Int : Recorded(start) = CyclesAt({i \in Kept : start <= CycleTs(i)})
  <2> TAKE start \in Int
  <2>1. InWindow(start) = CyclesAt({i \in 1..Len(happened) : start <= CycleTs(i)})
    BY <1>2
  <2> QED BY <2>1 DEF Recorded, CyclesAt, Kept
<1>4. TakenIn(from, to) = CyclesAt(KeptIn(from, to))
  <2>1. Recorded(0) = CyclesAt({i \in Kept : 0 <= CycleTs(i)})
    BY <1>3
  <2>2. \A i \in Kept : happened[i].ts = CycleTs(i) /\ 0 <= CycleTs(i)
    BY <1>1 DEF Kept
  <2> QED BY <2>1, <2>2 DEF TakenIn, KeptIn, CyclesAt
<1> QED BY <1>2, <1>3, <1>4

\* No warning is hidden, and a footnote is hardly a gap.
LEMMA NothingIsBuried == ASSUME WorldInv PROVE NothingBuried
<1> SUFFICES ASSUME NEW w \in Screens(ProbeCycleS)
             PROVE  LET c == RangeSummary(tables, w.from, w.to)
                        since == CoverageSinceFirst(c, w)
                    IN CoverageKind(c) = "info" \/ (since # Null /\ since >= 99) =>
                         LET after == {t \in InWindow(c.firstTs) : t.ts <= w.to}
                         IN 100 * (Cardinality({t \in after : t.odd = "missed"}) - 1) <= Cardinality(after)
  BY GroupsWarn DEF NothingBuried
<1> DEFINE P == ProbeCycleS
           c == RangeSummary(tables, w.from, w.to)
           since == CoverageSinceFirst(c, w)
           S == KeptIn(w.from, w.to)
           stamps == Stamps(Within(tables.sample, w.from, w.to))
<1>1. P \in Nat \ {0}
  BY ReadsAssumption
<1>2. PICK m \in Int, n \in Nat \ {0} : w.to = m * P /\ w.from = (m - n) * P
  BY ScreenGrid
<1>3. w.to \in Int /\ w.from \in Int /\ w.to - w.from = n * P
  BY <1>1, <1>2
<1>4. /\ stamps = {CycleTs(i) : i \in S} /\ stamps \subseteq Nat
      /\ IsFiniteSet(S) /\ Cardinality(stamps) = Cardinality(S) /\ Cardinality(S) \in Nat
  BY <1>3, StampsIn, FS_CardinalityType
<1>5. c.recorded = Cardinality(S) /\ c.expected = n /\ c.coverage = Least(100, (100 * Cardinality(S)) \div n)
      /\ c.firstTs = IF stamps = {} THEN Null ELSE Min(stamps)
  <2>1. Rounded(w.to - w.from, P) = n
    BY <1>1, <1>3, RoundedWhole
  <2>2. Max({0, n}) = n
    <3>1. Max({0, n}) \in {0, n} /\ \A x \in {0, n} : x <= Max({0, n})
      BY MaxOf
    <3> QED BY <3>1
  <2>3. Extreme(Min, stamps) = IF stamps = {} THEN Null ELSE Min(stamps)
    BY <1>4, ExtremeIs
  <2> QED BY <1>4, <2>1, <2>2, <2>3 DEF RangeSummary
<1> HIDE DEF c, stamps
<1> SUFFICES ASSUME CoverageKind(c) = "info" \/ (since # Null /\ since >= 99)
             PROVE  LET after == {t \in InWindow(c.firstTs) : t.ts <= w.to}
                    IN 100 * (Cardinality({t \in after : t.odd = "missed"}) - 1) <= Cardinality(after)
  BY DEF c
<1>6. \/ (100 * Cardinality(S)) \div n >= 99
      \/ /\ c.firstTs # Null /\ w.from < c.firstTs
         /\ \E s \in Nat \ {0} : /\ s = Max({0, Rounded((w.to - c.firstTs) * n, w.to - w.from)})
                              /\ (100 * Cardinality(S)) \div s >= 99
  <2> DEFINE share == (100 * Cardinality(S)) \div n
  <2>1. share \in Int /\ c.coverage = Least(100, share) /\ c.coverage \in Int
    BY <1>4, <1>5 DEF Least
  <2> HIDE DEF share
  <2>2. CASE CoverageKind(c) = "info"
    <3>1. c.coverage >= 99
      <4> SUFFICES ASSUME c.coverage < 99 PROVE FALSE
        BY <2>1
      <4>0. c.coverage # Null
        BY <2>2 DEF CoverageKind
      <4>1. CASE c.coverage < 90
        <5>1. CoverageKind(c) = "bad"
          BY <4>0, <4>1, <2>1 DEF CoverageKind
        <5> QED BY <2>2, <5>1
      <4>2. CASE ~(c.coverage < 90)
        <5>1. c.coverage \in 90..98
          BY <2>1, <4>2
        <5>2. CoverageKind(c) = "warn"
          BY <4>0, <4>2, <5>1, <2>1 DEF CoverageKind
        <5> QED BY <2>2, <5>2
      <4> QED BY <4>1, <4>2
    <3> QED BY <2>1, <3>1 DEF Least, share
  <2>3. CASE since # Null /\ since >= 99
    <3> DEFINE s == Max({0, Rounded((w.to - c.firstTs) * n, w.to - w.from)})
               part == (100 * Cardinality(S)) \div s
    <3>1. c.firstTs # Null /\ ~(c.firstTs <= w.from) /\ s # 0 /\ since = Least(100, part)
      <4>1. c.recorded = Cardinality(S) /\ c.expected = n
        BY <1>5
      <4> QED BY <2>3, <4>1 DEF CoverageSinceFirst
    <3>2. c.firstTs \in Int
      <4>1. c.firstTs = Min(stamps) /\ stamps # {}
        BY <1>5, <3>1
      <4> QED BY <1>4, <4>1, MinOf
    <3>3. s \in Nat
      <4>1. PICK x \in Int : x = Rounded((w.to - c.firstTs) * n, w.to - w.from)
        <5> DEFINE a == (w.to - c.firstTs) * n  d == w.to - w.from
        <5>1. a \in Int
          BY <1>3, <3>2
        <5>2. d \in Nat \ {0}
          BY <1>1, <1>3
        <5> HIDE DEF a, d
        <5>3. Rounded(a, d) \in Int
          BY <5>1, <5>2 DEF Rounded
        <5> QED BY <5>3 DEF a, d
      <4>2. Max({0, x}) \in Nat
        BY MaxPair
      <4> QED BY <4>1, <4>2
    <3> HIDE DEF s
    <3>4. part \in Int
      BY <1>4, <3>1, <3>3
    <3> HIDE DEF part
    <3>5. part >= 99
      BY <2>3, <3>1, <3>4 DEF Least
    <3>6. s \in Nat \ {0} /\ (100 * Cardinality(S)) \div s >= 99
      BY <3>1, <3>3, <3>5 DEF part
    <3>7. w.from < c.firstTs
      BY <1>3, <3>1, <3>2
    <3>8. \E x \in Nat \ {0} : /\ x = Max({0, Rounded((w.to - c.firstTs) * n, w.to - w.from)})
                               /\ (100 * Cardinality(S)) \div x >= 99
      BY <3>6 DEF s
    <3> QED BY <3>1, <3>7, <3>8
  <2> QED BY <2>2, <2>3
<1>7. stamps # {}
  <2> SUFFICES ASSUME stamps = {} PROVE FALSE
    OBVIOUS
  <2>1. S = {}
    BY <1>4
  <2>2. Cardinality(S) = 0 /\ c.firstTs = Null
    BY <1>5, <2>1, FS_EmptySet
  <2>3. (100 * 0) \div n = 0
    OBVIOUS
  <2> QED BY <1>6, <2>2, <2>3
\* the first recorded cycle of the window
<1>8. PICK f \in S : c.firstTs = CycleTs(f) /\ \A i \in S : CycleTs(f) <= CycleTs(i)
  <2>1. Min(stamps) \in stamps /\ \A x \in stamps : Min(stamps) <= x
    BY <1>4, <1>7, MinOf
  <2> QED BY <1>4, <1>5, <1>7, <2>1
<1>9. /\ Len(happened) \in Nat /\ S \subseteq Kept /\ Kept \subseteq 1..Len(happened)
      /\ \A i \in 1..Len(happened) :
           i \in Nat /\ CycleTs(i) = i * P + Phase /\ CycleTs(i) \in Nat /\ happened[i].ts = CycleTs(i)
  <2>1. \A i \in 1..Len(happened) : i \in Nat
    BY KeptAre
  <2> QED BY <2>1, KeptAre, Stamp DEF KeptIn, CycleTs
\* the last place of the window: only a cycle on the very grid stands on its end
<1> DEFINE top == IF Phase = 0 THEN m ELSE m - 1
<1>20. Phase \in Nat /\ Phase < P /\ top \in Int /\ top <= m
  BY <1>1, <1>2, InstantAssumption
<1> HIDE DEF top
<1>21. ASSUME NEW i \in Nat, i * P + Phase <= m * P PROVE i <= top
  <2> SUFFICES ASSUME top + 1 <= i PROVE FALSE
    BY <1>20
  <2>1. PICK d \in Nat : i = top + 1 + d
    BY <1>20, i - (top + 1) \in Nat
  <2>2. d * P \in Nat /\ m * P \in Int
    BY <1>1, <1>2
  <2>3. CASE Phase = 0
    <3>1. i = m + 1 + d
      BY <2>1, <2>3 DEF top
    <3>2. i * P = m * P + P + d * P
      BY <1>1, <1>2, <3>1
    <3> QED BY <1>1, <1>21, <2>2, <2>3, <3>2
  <2>4. CASE Phase # 0
    <3>1. i = m + d
      BY <1>2, <2>1, <2>4 DEF top
    <3>2. i * P = m * P + d * P
      BY <1>1, <1>2, <3>1
    <3> QED BY <1>1, <1>20, <1>21, <2>2, <2>4, <3>2
  <2> QED BY <2>3, <2>4
<1>10. /\ f \in Nat /\ CycleTs(f) = f * P + Phase /\ f * P \in Nat /\ w.from <= f * P + Phase /\ f * P + Phase <= w.to
       /\ m - n <= f /\ f <= top
  <2>1. f \in Nat /\ CycleTs(f) = f * P + Phase /\ w.from <= f * P + Phase /\ f * P + Phase <= w.to
    BY <1>8, <1>9 DEF KeptIn
  <2>2. f <= top
    BY <1>2, <1>21, <2>1
  <2>3. f * P \in Nat
    BY <1>1, <2>1
  <2>4. m - n <= f
    <3> SUFFICES ASSUME f + 1 <= m - n PROVE FALSE
      BY <1>2, <2>1
    <3>1. PICK d \in Nat : m - n = f + 1 + d
      BY <1>2, <2>1, (m - n) - (f + 1) \in Nat
    <3>2. (m - n) * P = f * P + P + d * P /\ d * P \in Nat
      BY <1>1, <2>1, <3>1
    <3> QED BY <1>1, <1>2, <1>20, <2>1, <2>3, <3>2
  <2> QED BY <2>1, <2>2, <2>3, <2>4
<1> DEFINE J == {i \in 1..Len(happened) : CycleTs(f) <= CycleTs(i) /\ CycleTs(i) <= w.to}
           after == {t \in InWindow(c.firstTs) : t.ts <= w.to}
           gone == {t \in after : t.odd = "missed"}
<1>11. after = CyclesAt(J) /\ gone = CyclesAt(J \ Kept)
  <2>1. CycleTs(f) \in Int
    BY <1>10, <1>20
  <2>2. InWindow(c.firstTs) = CyclesAt({i \in 1..Len(happened) : CycleTs(f) <= CycleTs(i)})
    BY <1>8, <2>1, PlacesAre
  <2>3. after = CyclesAt(J)
    BY <1>9, <2>2 DEF CyclesAt
  <2>4. gone = CyclesAt(J \ Kept)
    BY <1>9, <2>3 DEF CyclesAt, Kept
  <2> QED BY <2>3, <2>4
<1>12. J \cap Kept = S
  <2>1. \A i \in J \cap Kept : w.from <= CycleTs(i)
    BY <1>3, <1>9, <1>10
  <2> QED BY <1>8, <1>9, <2>1 DEF KeptIn
<1>13. J \subseteq f..top
  <2> SUFFICES ASSUME NEW i \in J PROVE i \in f..top
    OBVIOUS
  <2>1. i \in Nat /\ CycleTs(f) <= CycleTs(i) /\ i * P + Phase <= m * P
    BY <1>2, <1>9, <1>10
  <2>2. f <= i
    <3>1. ~(CycleTs(i) < CycleTs(f))
      BY <1>10, <2>1, Stamp
    <3> QED BY <1>10, <2>1, <3>1, Stamp
  <2> QED BY <1>10, <1>20, <1>21, <2>1, <2>2
<1>14. J \in SUBSET (1..Len(happened))
  OBVIOUS
<1> HIDE DEF J, after, gone, S
<1>15. Cardinality(J) <= top - f + 1
  <2>1. IsFiniteSet(f..top) /\ Cardinality(f..top) = top - f + 1
    <3>1. ~(f > top) /\ f \in Int /\ top \in Int
      BY <1>10, <1>20
    <3> QED BY <3>1, FS_Interval
  <2> QED BY <1>13, <2>1, FS_Subset
<1>16. /\ Cardinality(after) = Cardinality(J) /\ Cardinality(J) \in Nat
       /\ Cardinality(gone) = Cardinality(J \ Kept) /\ Cardinality(J \ Kept) \in Nat
       /\ IsFiniteSet(J)
  <2>1. J \ Kept \in SUBSET (1..Len(happened))
    BY <1>14
  <2> QED BY <1>11, <1>14, <2>1, AsMany
<1>17. Cardinality(J) = Cardinality(J \ Kept) + Cardinality(S)
  <2>1. IsFiniteSet(J \ Kept) /\ IsFiniteSet(S)
    BY <1>4, <1>16, FS_Subset
  <2>2. (J \ Kept) \cup S = J /\ (J \ Kept) \cap S = {}
    BY <1>12
  <2>3. Cardinality((J \ Kept) \cup S) = Cardinality(J \ Kept) + Cardinality(S) - Cardinality({})
    BY <2>1, <2>2, FS_Union
  <2> QED BY <1>4, <1>16, <2>2, <2>3, FS_EmptySet
<1>18. \E s \in Nat \ {0} : Cardinality(J) <= s + 1 /\ (100 * Cardinality(S)) \div s >= 99
  <2>1. CASE (100 * Cardinality(S)) \div n >= 99
    <3>1. Cardinality(J) <= n + 1
      BY <1>10, <1>15, <1>16, <1>20
    <3> QED BY <2>1, <3>1
  <2>2. ASSUME NEW s \in Nat \ {0}, s = Max({0, Rounded((w.to - c.firstTs) * n, w.to - w.from)}),
               (100 * Cardinality(S)) \div s >= 99
        PROVE  Cardinality(J) <= s + 1
    <3>1. (top - f) * (n * P) <= (w.to - c.firstTs) * n /\ (w.to - c.firstTs) * n \in Int
      <4>1. w.to - c.firstTs = (m - f) * P - Phase /\ (m - f) * P \in Int
        BY <1>1, <1>2, <1>8, <1>10, <1>20
      <4>2. (top - f) * P <= w.to - c.firstTs /\ (top - f) * P \in Int
        <5>1. CASE Phase = 0
          BY <1>1, <1>2, <1>10, <4>1, <5>1 DEF top
        <5>2. CASE Phase # 0
          <6>1. top - f = (m - f) - 1
            BY <1>2, <1>10, <5>2 DEF top
          <6>2. (top - f) * P = (m - f) * P - P
            BY <1>1, <1>2, <1>10, <6>1
          <6> QED BY <1>1, <1>20, <4>1, <6>2
        <5> QED BY <5>1, <5>2
      <4>3. PICK gap \in Int, least \in Int : gap = w.to - c.firstTs /\ least = (top - f) * P /\ least <= gap
        BY <1>20, <4>1, <4>2
      <4>4. least * n <= gap * n
        <5>1. PICK d \in Nat : gap = least + d
          BY <4>3, gap - least \in Nat
        <5>2. gap * n = least * n + d * n /\ d * n \in Nat /\ least * n \in Int
          BY <5>1
        <5> QED BY <5>2
      <4>5. (top - f) * (n * P) = least * n
        BY <1>1, <1>10, <1>20, <4>3
      <4> QED BY <4>3, <4>4, <4>5
    <3>2. n * P \in Nat \ {0} /\ top - f \in Int /\ w.to - w.from = n * P
      BY <1>1, <1>3, <1>10, <1>20
    <3>3. PICK r \in Int : r = Rounded((w.to - c.firstTs) * n, w.to - w.from) /\ top - f <= r
      <4>1. PICK a \in Int, k \in Int, d \in Nat \ {0} :
              a = (w.to - c.firstTs) * n /\ k = top - f /\ d = n * P /\ k * d <= a
        BY <3>1, <3>2
      <4> QED BY <3>2, <4>1, RoundedAtLeast
    <3>4. s >= r
      BY <2>2, <3>3, MaxPair
    <3> QED BY <1>10, <1>15, <1>16, <1>20, <3>3, <3>4
  <2>3. ASSUME ~((100 * Cardinality(S)) \div n >= 99)
        PROVE  \E s \in Nat \ {0} : Cardinality(J) <= s + 1 /\ (100 * Cardinality(S)) \div s >= 99
    <3>1. PICK s \in Nat \ {0} : /\ s = Max({0, Rounded((w.to - c.firstTs) * n, w.to - w.from)})
                                 /\ (100 * Cardinality(S)) \div s >= 99
      BY <1>6, <2>3
    <3> QED BY <2>2, <3>1
  <2> QED BY <2>1, <2>3
<1>19. 100 * (Cardinality(gone) - 1) <= Cardinality(after)
  BY <1>4, <1>16, <1>17, <1>18, HardlyMissing
<1> QED BY <1>19 DEF gone, after

\* The samples of a target in a bucket of a window, and the recorded cycles they are of.
Cell(from, to, width, bucket, target) ==
  {r \in Within(tables.sample, from, to) : BucketOf(r.ts, width) = bucket /\ r.target = target}
Unanswered(rows) == {r \in rows : r.received = 0}
PlacesAt(from, to, width, bucket) == {i \in KeptIn(from, to) : BucketOf(CycleTs(i), width) = bucket}
\* A target did not answer in a cycle.
LostTo(target) ==
  {i \in Kept : IF target = GatewayTarget THEN Meets[happened[i].meets].gw = 0
                ELSE Meets[happened[i].meets].wan = 0 \/ Silent(happened[i], target)}

\* How many echoes of a cycle come back to a sample of it.
LEMMA Heard ==
  ASSUME NEW t, t.meets \in DOMAIN Meets, NEW s \in SampleRows(t)
  PROVE  /\ s.target \in TargetNames
         /\ s.received = IF s.target = GatewayTarget THEN Meets[t.meets].gw
                         ELSE IF Silent(t, s.target) THEN 0 ELSE Meets[t.meets].wan
         /\ s = Sample(t.ts, s.target, 4, Rtts(t, s.received))
<1>1. Meets[t.meets].gw \in Nat /\ Meets[t.meets].wan \in Nat
  BY MeetsAre
<1>2. \A x : \A n \in Nat : LET r == Sample(t.ts, x, 4, Rtts(t, n)) IN r.target = x /\ r.received = n
  <2> SUFFICES ASSUME NEW x, NEW n \in Nat
               PROVE  LET r == Sample(t.ts, x, 4, Rtts(t, n)) IN r.target = x /\ r.received = n
    OBVIOUS
  <2>1. Len(Rtts(t, n)) = n
    BY RttsFacts
  <2> QED BY <2>1 DEF Sample
<1>3. CASE s = Sample(t.ts, GatewayTarget, 4, Rtts(t, Meets[t.meets].gw))
  BY <1>1, <1>2, <1>3 DEF TargetNames
<1>4. CASE \E w \in WanTargets : s = Sample(t.ts, w, 4, Rtts(t, IF Silent(t, w) THEN 0 ELSE Meets[t.meets].wan))
  <2>1. PICK w \in WanTargets : s = Sample(t.ts, w, 4, Rtts(t, IF Silent(t, w) THEN 0 ELSE Meets[t.meets].wan))
    BY <1>4
  <2>2. PICK n \in Nat : n = IF Silent(t, w) THEN 0 ELSE Meets[t.meets].wan
    BY <1>1
  <2>3. s = Sample(t.ts, w, 4, Rtts(t, n)) /\ s.target = w /\ s.received = n
    BY <1>2, <2>1, <2>2
  <2> QED BY <2>2, <2>3, ReadsAssumption DEF TargetNames
<1> QED BY <1>3, <1>4 DEF SampleRows

\* A bucket holds one sample of a target for every recorded cycle of it.
LEMMA CellIs ==
  ASSUME WorldInv, NEW from \in Int, NEW to \in Int, NEW width, NEW bucket, NEW target \in TargetNames
  PROVE  LET cell == Cell(from, to, width, bucket, target)
             places == PlacesAt(from, to, width, bucket)
         IN /\ IsFiniteSet(cell) /\ IsFiniteSet(places) /\ Cardinality(cell) = Cardinality(places)
            /\ \A i \in places : \E s \in cell : s.ts = CycleTs(i)
            /\ \A s \in cell : \E i \in places : s \in SampleRows(happened[i]) /\ s.ts = CycleTs(i)
            /\ Cardinality(Unanswered(cell)) = Cardinality(places \cap LostTo(target))
<1> DEFINE cell == Cell(from, to, width, bucket, target)
           places == PlacesAt(from, to, width, bucket)
<1>1. IsFiniteSet(places) /\ places \subseteq Kept /\ places \subseteq Nat
  BY KeptAre, FS_Subset DEF PlacesAt, KeptIn
<1>2. \A i \in places : \E s \in cell : s.ts = CycleTs(i)
  BY OneSample DEF PlacesAt, KeptIn, Cell, Within
<1>3. \A s \in cell : \E i \in places : s \in SampleRows(happened[i]) /\ s.ts = CycleTs(i)
  BY OneSample DEF PlacesAt, KeptIn, Cell, Within
<1>4. \A r, s \in cell : r.ts = s.ts => r = s
  BY OneSample DEF Cell, Within
<1>5. \A s \in cell : s.target = target
  BY DEF Cell
<1>6. \A i, j \in places : CycleTs(i) = CycleTs(j) => i = j
  BY <1>1, Stamp
<1>7. \A i \in places : happened[i].meets \in DOMAIN Meets
  BY <1>1, KeptAre DEF Cycle
<1> DEFINE at == [i \in places |-> CHOOSE s \in cell : s.ts = CycleTs(i)]
<1>8. \A i \in places : at[i] \in cell /\ at[i].ts = CycleTs(i)
  BY <1>2
<1> HIDE DEF at, cell, places
<1>9. OneToOne(at, places) /\ ImageOf(at, places) = cell
  <2>1. OneToOne(at, places)
    BY <1>6, <1>8 DEF OneToOne
  <2>2. \A s \in cell : \E i \in places : s = at[i]
    BY <1>3, <1>4, <1>8
  <2> QED BY <1>8, <2>1, <2>2 DEF ImageOf
<1>10. IsFiniteSet(cell) /\ Cardinality(cell) = Cardinality(places)
  BY <1>1, <1>9, SameMany
<1> DEFINE lost == Unanswered(cell)
           out == places \cap LostTo(target)
<1>11. \A i \in places : at[i].received = 0 <=> i \in LostTo(target)
  <2> SUFFICES ASSUME NEW i \in places PROVE at[i].received = 0 <=> i \in LostTo(target)
    OBVIOUS
  <2>1. PICK j \in places : at[i] \in SampleRows(happened[j]) /\ at[i].ts = CycleTs(j)
    BY <1>3, <1>8
  <2>2. j = i
    BY <1>6, <1>8, <2>1
  <2>3. at[i] \in SampleRows(happened[i]) /\ at[i].target = target
    BY <1>5, <1>8, <2>1, <2>2
  <2>4. at[i].received = IF target = GatewayTarget THEN Meets[happened[i].meets].gw
                         ELSE IF Silent(happened[i], target) THEN 0 ELSE Meets[happened[i].meets].wan
    BY <1>7, <2>3, Heard
  <2> QED BY <1>1, <2>4 DEF LostTo
<1>12. IsFiniteSet(out) /\ out \subseteq places
  BY <1>1, FS_Subset
<1>13. ImageOf(at, out) = lost /\ OneToOne(at, out)
  BY <1>9, <1>11, <1>12 DEF ImageOf, OneToOne, Unanswered
<1>14. Cardinality(lost) = Cardinality(out)
  <2> HIDE DEF lost, out
  <2> QED BY <1>12, <1>13, SameMany
<1> QED BY <1>1, <1>2, <1>3, <1>10, <1>14 DEF cell, places

\* The row of a bucket and target in the answer for a window.
RowAt(w, width, b, x) == ProbeBucket(b, x, Cell(w.from, w.to, width, b, x))

\* What a row of the answer counts.
LEMMA RowFieldsAre ==
  ASSUME NEW w, NEW width, NEW b, NEW x
  PROVE  /\ RowAt(w, width, b, x).bucket = b /\ RowAt(w, width, b, x).target = x
         /\ RowAt(w, width, b, x).count = Cardinality(Cell(w.from, w.to, width, b, x))
         /\ RowAt(w, width, b, x).down = Cardinality(Unanswered(Cell(w.from, w.to, width, b, x)))
<1> DEFINE cell == Cell(w.from, w.to, width, b, x)
<1>1. RowAt(w, width, b, x) = ProbeBucket(b, x, cell)
  BY DEF RowAt
<1> HIDE DEF cell
<1>2. /\ ProbeBucket(b, x, cell).bucket = b /\ ProbeBucket(b, x, cell).target = x
      /\ ProbeBucket(b, x, cell).count = Cardinality(cell)
      /\ ProbeBucket(b, x, cell).down = Cardinality(Unanswered(cell))
  BY DEF ProbeBucket, Unanswered
<1> QED BY <1>1, <1>2 DEF cell

\* The rows of an answer: one for each bucket with a recorded cycle and each target.
LEMMA RowsAre ==
  ASSUME WorldInv, NEW w, w.from \in Int, w.to \in Int, NEW width
  PROVE  /\ \A r \in BucketsOf(w, width) :
              /\ r.target \in TargetNames /\ r = RowAt(w, width, r.bucket, r.target)
              /\ PlacesAt(w.from, w.to, width, r.bucket) # {}
         /\ \A b : \A x \in TargetNames :
              PlacesAt(w.from, w.to, width, b) # {} => RowAt(w, width, b, x) \in BucketsOf(w, width)
<1> DEFINE within == Within(tables.sample, w.from, w.to)
           keys == {<<BucketOf(r.ts, width), r.target>> : r \in within}
           In(b, t) == {r \in within : BucketOf(r.ts, width) = b /\ r.target = t}
<1>1. \A b, x : ProbeBucket(b, x, In(b, x)) = RowAt(w, width, b, x)
  BY DEF Cell, RowAt
<1>2. BucketsOf(w, width) = {ProbeBucket(k[1], k[2], In(k[1], k[2])) : k \in keys}
  BY DEF BucketsOf, BucketProbes
<1> HIDE DEF In
<1>4. ASSUME NEW q \in within
      PROVE  /\ q.target \in TargetNames
             /\ PlacesAt(w.from, w.to, width, BucketOf(q.ts, width)) # {}
  <2>1. PICK i \in Kept : q \in SampleRows(happened[i]) /\ q.ts = CycleTs(i)
    BY OneSample DEF Within
  <2>2. q.target \in TargetNames
    BY <2>1, SampleFields
  <2>3. i \in PlacesAt(w.from, w.to, width, BucketOf(q.ts, width))
    BY <2>1 DEF PlacesAt, KeptIn, Within
  <2> QED BY <2>2, <2>3
<1>5. ASSUME NEW r \in BucketsOf(w, width)
      PROVE  /\ r.target \in TargetNames /\ r = RowAt(w, width, r.bucket, r.target)
             /\ PlacesAt(w.from, w.to, width, r.bucket) # {}
  <2>1. PICK k \in keys : r = ProbeBucket(k[1], k[2], In(k[1], k[2]))
    BY <1>2, Zenon
  <2>2. PICK q \in within : k = <<BucketOf(q.ts, width), q.target>>
    BY <2>1
  <2>3. k[1] = BucketOf(q.ts, width) /\ k[2] = q.target
    BY <2>2
  <2> DEFINE a == BucketOf(q.ts, width) c == q.target
  <2>4. r = RowAt(w, width, a, c) /\ c \in TargetNames /\ PlacesAt(w.from, w.to, width, a) # {}
    BY <1>1, <1>4, <2>1, <2>3
  <2> HIDE DEF a, c
  <2>5. RowAt(w, width, a, c).bucket = a /\ RowAt(w, width, a, c).target = c
    BY RowFieldsAre
  <2> QED BY <2>4, <2>5
<1>6. ASSUME NEW b, NEW x \in TargetNames, PlacesAt(w.from, w.to, width, b) # {}
      PROVE  RowAt(w, width, b, x) \in BucketsOf(w, width)
  <2>1. PICK s \in Cell(w.from, w.to, width, b, x) : TRUE
    BY <1>6, CellIs
  <2>2. s \in within /\ BucketOf(s.ts, width) = b /\ s.target = x
    BY <2>1 DEF Cell
  <2>3. <<b, x>> \in keys
    BY <2>2
  <2> DEFINE k == <<b, x>>
  <2>4. k[1] = b /\ k[2] = x /\ k \in keys
    BY <2>3
  <2> HIDE DEF k, keys
  <2>5. ProbeBucket(k[1], k[2], In(k[1], k[2])) \in BucketsOf(w, width)
    BY <1>2, <2>4
  <2> QED BY <1>1, <2>4, <2>5
<1> QED BY <1>5, <1>6

\* What is in all of some parts of a whole is at least what their sizes cannot hide.
LEMMA InAllParts ==
  ASSUME NEW W, IsFiniteSet(W), NEW P, IsFiniteSet(P), NEW D, NEW F,
         \A x \in W : D[x] \in SUBSET P /\ F[x] = Cardinality(D[x])
  PROVE  SumOf(F, W) <= Cardinality({i \in P : \A x \in W : i \in D[x]}) + (Cardinality(W) - 1) * Cardinality(P)
<1> DEFINE n == Cardinality(P)
           InAll(T) == {i \in P : \A x \in T : i \in D[x]}
           Good == {T \in SUBSET W : SumOf(F, T) <= Cardinality(InAll(T)) + (Cardinality(T) - 1) * n}
<1>1. n \in Nat
  BY FS_CardinalityType
<1>2. \A T : /\ IsFiniteSet(InAll(T)) /\ Cardinality(InAll(T)) \in Nat
  <2> SUFFICES ASSUME NEW T PROVE IsFiniteSet(InAll(T)) /\ Cardinality(InAll(T)) \in Nat
    OBVIOUS
  <2> DEFINE A == InAll(T)
  <2>1. A \subseteq P
    OBVIOUS
  <2> HIDE DEF A
  <2>2. IsFiniteSet(A) /\ Cardinality(A) \in Nat
    BY <2>1, FS_Subset, FS_CardinalityType
  <2> QED BY <2>2 DEF A
<1>3. \A x \in W : F[x] \in Nat /\ IsFiniteSet(D[x])
  BY FS_Subset, FS_CardinalityType
<1>4. {} \in Good
  <2>1. InAll({}) = P
    OBVIOUS
  <2>2. SumOf(F, {}) = 0 /\ Cardinality({}) = 0
    BY SumEmpty, FS_EmptySet
  <2>3. 0 <= n + (0 - 1) * n
    BY <1>1
  <2>4. Cardinality(InAll({})) = n
    BY <2>1
  <2> HIDE DEF InAll, n
  <2> QED BY <2>2, <2>3, <2>4
<1>5. ASSUME NEW T \in Good, NEW x \in W \ T PROVE T \cup {x} \in Good
  <2> DEFINE U == T \cup {x}
             A == InAll(T)
             B == InAll(U)
             d == D[x]
  <2>1. T \subseteq W /\ IsFiniteSet(T) /\ IsFiniteSet(U) /\ U \in SUBSET W
    <3>1. T \subseteq W
      OBVIOUS
    <3>2. IsFiniteSet(T)
      BY <3>1, FS_Subset
    <3> QED BY <3>1, <3>2, FS_AddElement
  <2>2. Cardinality(U) = Cardinality(T) + 1 /\ Cardinality(T) \in Nat
    BY <2>1, FS_AddElement, FS_CardinalityType
  <2>3. SumOf(F, U) = SumOf(F, T) + F[x] /\ SumOf(F, T) \in Int /\ F[x] \in Nat
    <3>1. IntsOn(F, U) /\ IntsOn(F, T)
      BY <1>3, <2>1 DEF IntsOn
    <3> QED BY <1>3, <2>1, <3>1, SumJoin, SumInt
  <2>4. A \cap d = B /\ A \cup d \subseteq P
    OBVIOUS
  <2>5. IsFiniteSet(A) /\ IsFiniteSet(B) /\ Cardinality(A) \in Nat /\ Cardinality(B) \in Nat
    BY <1>2
  <2>6. IsFiniteSet(d) /\ F[x] = Cardinality(d)
    BY <1>3
  <2>7. SumOf(F, T) <= Cardinality(A) + (Cardinality(T) - 1) * n
    OBVIOUS
  <2> HIDE DEF A, B, d
  <2>8. Cardinality(A \cup d) = Cardinality(A) + Cardinality(d) - Cardinality(B)
    BY <2>4, <2>5, <2>6, FS_Union
  <2>9. Cardinality(A \cup d) <= n /\ Cardinality(A \cup d) \in Nat
    BY <2>4, FS_Subset, FS_CardinalityType
  <2>10. Cardinality(A) + F[x] <= Cardinality(B) + n
    BY <1>1, <2>3, <2>5, <2>6, <2>8, <2>9
  <2> DEFINE k == Cardinality(T) - 1
  <2>11. (k + 1) * n = k * n + n /\ k * n \in Int
    BY <1>1, <2>2
  <2>12. Cardinality(U) - 1 = k + 1
    BY <2>2
  <2>13. SumOf(F, T) <= Cardinality(A) + k * n
    BY <2>7
  <2> DEFINE kn == k * n
  <2>14. (Cardinality(U) - 1) * n = kn + n /\ kn \in Int /\ SumOf(F, T) <= Cardinality(A) + kn
    BY <2>11, <2>12, <2>13
  <2> HIDE DEF k, kn, n
  <2>15. SumOf(F, U) <= Cardinality(B) + (Cardinality(U) - 1) * n
    BY <1>1, <2>3, <2>5, <2>10, <2>14
  <2> QED BY <2>1, <2>15 DEF B, n
<1>6. Good \in SUBSET SUBSET W
  OBVIOUS
<1> HIDE DEF Good
<1>7. W \in Good
  <2>1. \A T \in Good : \A x \in W \ T : T \cup {x} \in Good
    BY <1>5
  <2>2. Good = SUBSET W
    BY <1>4, <1>6, <2>1, AllSubsets
  <2> QED BY <2>2
<1> QED BY <1>7 DEF Good

\* The anchors' rows of a bucket: one for each anchor, each of all recorded cycles of it.
AnchorsAt(w, width, b) == {r \in OfAnchors(BucketsOf(w, width)) : r.bucket = b}
LostCounts(w, width, b) ==
  [x \in WanTargets |-> Cardinality(PlacesAt(w.from, w.to, width, b) \cap LostTo(x))]
LEMMA AnchorRows ==
  ASSUME WorldInv, NEW w, w.from \in Int, w.to \in Int, NEW width, NEW b, AnchorsAt(w, width, b) # {}
  PROVE  LET R == AnchorsAt(w, width, b)
             P == PlacesAt(w.from, w.to, width, b)
         IN /\ P # {} /\ IsFiniteSet(P) /\ IsFiniteSet(R) /\ Cardinality(R) = Cardinality(WanTargets)
            /\ {r.count : r \in R} = {Cardinality(P)}
            /\ \A r \in R : r.target \in WanTargets /\ r = RowAt(w, width, b, r.target)
            /\ MapThenSumSet(LAMBDA r : r.down, R) = SumOf(LostCounts(w, width, b), WanTargets)
            /\ IntsOn(LostCounts(w, width, b), WanTargets)
<1> DEFINE R == AnchorsAt(w, width, b)
           P == PlacesAt(w.from, w.to, width, b)
           F == LostCounts(w, width, b)
<1>0. R = {r \in OfAnchors(BucketsOf(w, width)) : r.bucket = b} /\ R # {}
      /\ F = [x \in WanTargets |-> Cardinality(P \cap LostTo(x))]
      /\ P = PlacesAt(w.from, w.to, width, b)
  BY DEF AnchorsAt, LostCounts
<1> HIDE DEF R, P, F
<1> DEFINE row == [x \in WanTargets |-> RowAt(w, width, b, x)]
           G == [r \in R |-> r.down]
<1>1. \A x \in WanTargets : x \in TargetNames
  BY DEF TargetNames
<1>2. \A r \in R : r.target \in WanTargets /\ r = RowAt(w, width, b, r.target) /\ P # {}
  BY <1>0, RowsAre DEF OfAnchors
<1>3. P # {}
  BY <1>0, <1>2
<1>4. IsFiniteSet(P)
  BY <1>0, KeptAre, FS_Subset DEF PlacesAt, KeptIn
<1>5. \A x \in WanTargets : /\ row[x] = RowAt(w, width, b, x) /\ row[x].bucket = b /\ row[x].target = x
                            /\ row[x].count = Cardinality(P) /\ row[x].down = F[x]
                            /\ F[x] \in Nat
  <2> SUFFICES ASSUME NEW x \in WanTargets
               PROVE  /\ row[x] = RowAt(w, width, b, x) /\ row[x].bucket = b /\ row[x].target = x
                      /\ row[x].count = Cardinality(P) /\ row[x].down = F[x]
                      /\ F[x] \in Nat
    OBVIOUS
  <2> DEFINE cell == Cell(w.from, w.to, width, b, x)
  <2>1. row[x] = RowAt(w, width, b, x)
    OBVIOUS
  <2>2. Cardinality(cell) = Cardinality(P) /\ Cardinality(Unanswered(cell)) = Cardinality(P \cap LostTo(x))
    BY <1>0, <1>1, CellIs
  <2>3. F[x] = Cardinality(P \cap LostTo(x))
    BY <1>0
  <2>4. F[x] \in Nat
    <3> DEFINE L == P \cap LostTo(x)
    <3>1. IsFiniteSet(L)
      BY <1>4, FS_Subset
    <3> HIDE DEF L
    <3>2. Cardinality(L) \in Nat
      BY <3>1, FS_CardinalityType
    <3> QED BY <2>3, <3>2 DEF L
  <2>5. /\ RowAt(w, width, b, x).bucket = b /\ RowAt(w, width, b, x).target = x
        /\ RowAt(w, width, b, x).count = Cardinality(cell)
        /\ RowAt(w, width, b, x).down = Cardinality(Unanswered(cell))
    BY RowFieldsAre
  <2> HIDE DEF row
  <2> QED BY <2>1, <2>2, <2>3, <2>4, <2>5
<1>6. \A x \in WanTargets : row[x] \in R
  <2> SUFFICES ASSUME NEW x \in WanTargets PROVE row[x] \in R
    OBVIOUS
  <2>1. row[x] \in BucketsOf(w, width)
    BY <1>0, <1>1, <1>3, <1>5, RowsAre
  <2> HIDE DEF row
  <2> QED BY <1>0, <1>5, <2>1 DEF OfAnchors
<1>7. \A r \in R : r = row[r.target] /\ r.target \in WanTargets
  BY <1>2, <1>5
<1>8. IsFiniteSet(WanTargets)
  BY ScreenAssumption
<1> HIDE DEF row
<1>9. OneToOne(row, WanTargets) /\ ImageOf(row, WanTargets) = R
  <2>1. \A x \in WanTargets : row[x].target = x
    BY <1>5
  <2>2. OneToOne(row, WanTargets)
    BY <2>1 DEF OneToOne
  <2>3. \A y : y \in {row[x] : x \in WanTargets} <=> y \in R
    BY <1>6, <1>7, Zenon
  <2> QED BY <2>2, <2>3 DEF ImageOf
<1>10. IsFiniteSet(R) /\ Cardinality(R) = Cardinality(WanTargets)
  BY <1>8, <1>9, SameMany
<1>11. {r.count : r \in R} = {Cardinality(P)}
  <2>1. \A r \in R : r.count = Cardinality(P)
    <3> SUFFICES ASSUME NEW r \in R PROVE r.count = Cardinality(P)
      OBVIOUS
    <3>1. r = row[r.target] /\ r.target \in WanTargets
      BY <1>7
    <3>2. row[r.target].count = Cardinality(P)
      BY <1>5, <3>1
    <3> QED BY <3>1, <3>2, Zenon
  <2>2. \E r : r \in R
    BY <1>0
  <2> QED BY ONLY <2>1, <2>2
<1>12. IntsOn(F, WanTargets) /\ \A x \in WanTargets : F[x] = G[row[x]]
  <2>1. \A x \in WanTargets : G[row[x]] = row[x].down
    BY <1>6
  <2> HIDE DEF G
  <2> QED BY <1>5, <2>1 DEF IntsOn
<1>13. \A r \in R : r.down \in Int
  <2> SUFFICES ASSUME NEW r \in R PROVE r.down \in Int
    OBVIOUS
  <2>1. r = row[r.target] /\ r.target \in WanTargets
    BY <1>7
  <2>2. row[r.target].down \in Nat
    BY <1>5, <2>1
  <2>3. r.down \in Nat
    BY <2>1, <2>2, Zenon
  <2> QED BY <2>3
<1>14. MapThenSumSet(LAMBDA r : r.down, R) = SumOf(G, R)
  BY <1>10, <1>13, DownSum
<1> HIDE DEF G
<1>15. SumOf(G, R) = SumOf(F, WanTargets)
  <2>1. IntsOn(F, WanTargets)
    BY <1>12
  <2>2. \A x \in WanTargets : F[x] = G[row[x]]
    BY <1>12
  <2>3. OneToOne(row, WanTargets)
    BY <1>9
  <2>4. SumOf(G, ImageOf(row, WanTargets)) = SumOf(F, WanTargets)
    BY <1>8, <2>1, <2>2, <2>3, SumImage
  <2> QED BY <1>9, <2>4
<1> QED BY <1>0, <1>2, <1>3, <1>4, <1>10, <1>11, <1>12, <1>14, <1>15 DEF R, P, F

\* What a folded bucket counts.
LEMMA FoldedFields ==
  ASSUME NEW b, NEW R
  PROVE  LET r == InternetBucket(b, R)
             count == Max({q.count : q \in R})
         IN r.bucket = b /\ r.down = DownOfAll(R, count) /\ r.count = count
BY DEF InternetBucket

\* The recorded cycles of a bucket of a window.
LEMMA HeldAre ==
  ASSUME WorldInv, NEW from \in Int, NEW to \in Int, NEW width, NEW b
  PROVE  {t \in TakenIn(from, to) : BucketOf(t.ts, width) = b} = CyclesAt(PlacesAt(from, to, width, b))
<1>1. TakenIn(from, to) = CyclesAt(KeptIn(from, to))
  BY PlacesAre
<1>2. \A i \in KeptIn(from, to) : happened[i].ts = CycleTs(i)
  BY KeptAre DEF KeptIn
<1>3. PlacesAt(from, to, width, b) = {i \in KeptIn(from, to) : BucketOf(happened[i].ts, width) = b}
  BY <1>2 DEF PlacesAt
<1> QED BY <1>1, <1>3 DEF CyclesAt

\* The internet is shown down where no anchor answered.
LEMMA FoldHolds == ASSUME WorldInv PROVE FoldProven
<1> SUFFICES ASSUME NEW width \in Widths, NEW w \in Screens(width),
                    NEW f \in FoldInternetBuckets(BucketsOf(w, width))
             PROVE  LET held == {t \in TakenIn(w.from, w.to) : BucketOf(t.ts, width) = f.bucket}
                        down == {t \in held : NoAnchorAnswered(t)}
                    IN /\ f.down <= Cardinality(down)
                       /\ down = held => f.down = f.count
                       /\ f.count = Cardinality(held)
  BY DEF FoldProven
<1>1. w.from \in Int /\ w.to \in Int
  BY ScreensAre
<1> DEFINE anchors == OfAnchors(BucketsOf(w, width))
<1>2. PICK q \in anchors : f = InternetBucket(q.bucket, {r \in anchors : r.bucket = q.bucket})
  BY DEF FoldInternetBuckets
<1> DEFINE b == q.bucket
           R == {r \in anchors : r.bucket = b}
           P == PlacesAt(w.from, w.to, width, b)
           F == [x \in WanTargets |-> Cardinality(P \cap LostTo(x))]
           D == [x \in WanTargets |-> P \cap LostTo(x)]
           all == {i \in P : \A x \in WanTargets : i \in D[x]}
           n == Cardinality(P)
           m == Cardinality(WanTargets)
<1>3. /\ P # {} /\ IsFiniteSet(P) /\ IsFiniteSet(R) /\ Cardinality(R) = m
      /\ {r.count : r \in R} = {n}
      /\ MapThenSumSet(LAMBDA r : r.down, R) = SumOf(F, WanTargets)
      /\ IntsOn(F, WanTargets)
  <2>1. q \in R
    OBVIOUS
  <2>2. R = AnchorsAt(w, width, b) /\ F = LostCounts(w, width, b)
    BY DEF AnchorsAt, LostCounts
  <2>3. AnchorsAt(w, width, b) # {}
    BY <2>1, <2>2
  <2> HIDE DEF R, F, b
  <2> QED BY <1>1, <2>2, <2>3, AnchorRows
<1>4. f.bucket = b /\ f.count = Max({r.count : r \in R}) /\ f.down = DownOfAll(R, Max({r.count : r \in R}))
  <2>1. f = InternetBucket(b, R)
    BY <1>2
  <2> HIDE DEF b, R
  <2> QED BY <2>1, FoldedFields
<1>5. m \in Nat /\ n \in Nat
  BY <1>3, ScreenAssumption, FS_CardinalityType
<1> DEFINE sum == SumOf(F, WanTargets)
<1>6. sum \in Int
  BY <1>3, ScreenAssumption, SumInt
<1>7. f.count = n /\ f.down = Max({0, sum - (m - 1) * n})
  <2>1. Max({n}) = n
    BY <1>5, MaxPair
  <2>2. f.count = n /\ f.down = DownOfAll(R, n)
    BY <1>3, <1>4, <2>1
  <2> HIDE DEF R, F, n, m
  <2> QED BY <1>3, <2>2 DEF DownOfAll
<1>8. sum <= Cardinality(all) + (m - 1) * n
  <2>1. \A x \in WanTargets : D[x] \in SUBSET P /\ F[x] = Cardinality(D[x])
    OBVIOUS
  <2> HIDE DEF D, F, P
  <2> QED BY <1>3, <2>1, ScreenAssumption, InAllParts
<1>9. all \in SUBSET (1..Len(happened)) /\ P \in SUBSET (1..Len(happened))
  BY KeptAre DEF PlacesAt, KeptIn
<1> DEFINE held == {t \in TakenIn(w.from, w.to) : BucketOf(t.ts, width) = f.bucket}
           down == {t \in held : NoAnchorAnswered(t)}
<1>10. held = CyclesAt(P) /\ down = CyclesAt(all)
  <2>1. held = CyclesAt(P)
    BY <1>1, <1>4, HeldAre
  <2>2. \A i \in P : NoAnchorAnswered(happened[i]) <=> \A x \in WanTargets : i \in D[x]
    <3> SUFFICES ASSUME NEW i \in P
                 PROVE  NoAnchorAnswered(happened[i]) <=> \A x \in WanTargets : i \in D[x]
      OBVIOUS
    <3>1. i \in Kept
      BY DEF PlacesAt, KeptIn
    <3>2. \A x \in WanTargets : i \in D[x] <=> Meets[happened[i].meets].wan = 0 \/ Silent(happened[i], x)
      BY <3>1, ReadsAssumption DEF LostTo
    <3> HIDE DEF D, P
    <3> QED BY <3>2 DEF NoAnchorAnswered
  <2> HIDE DEF D, P, held
  <2> QED BY <2>1, <2>2 DEF CyclesAt
<1>11. Cardinality(held) = n /\ Cardinality(down) = Cardinality(all) /\ Cardinality(all) \in Nat
  <2> HIDE DEF held, down, all, P
  <2>1. Cardinality(CyclesAt(P)) = Cardinality(P) /\ Cardinality(CyclesAt(all)) = Cardinality(all) /\ Cardinality(all) \in Nat
    BY <1>9, AsMany
  <2> QED BY <1>10, <2>1
<1>12. down = held => sum = m * n
  <2> SUFFICES ASSUME down = held PROVE sum = m * n
    OBVIOUS
  <2>1. all = P
    <3>1. ASSUME NEW i \in 1..Len(happened), NEW j \in 1..Len(happened), happened[i] = happened[j] PROVE i = j
      <4>1. CycleTs(i) = CycleTs(j) /\ i \in Nat /\ j \in Nat
        BY <3>1, KeptAre
      <4> QED BY <4>1, Stamp
    <3>2. all \subseteq P
      OBVIOUS
    <3> HIDE DEF all, P, down, held
    <3>3. CyclesAt(P) = CyclesAt(all)
      BY <1>10
    <3>4. ASSUME NEW i \in P PROVE i \in all
      <4>1. happened[i] \in CyclesAt(all)
        BY <3>3 DEF CyclesAt
      <4>2. PICK j \in all : happened[i] = happened[j]
        BY <4>1 DEF CyclesAt
      <4> QED BY <1>9, <3>1, <4>2
    <3> QED BY <3>2, <3>4
  <2>2. \A x \in WanTargets : F[x] = n
    <3>1. \A x \in WanTargets : D[x] = P
      BY <2>1
    <3>2. \A x \in WanTargets : F[x] = Cardinality(D[x])
      OBVIOUS
    <3> HIDE DEF D, P, F
    <3> QED BY <3>1, <3>2
  <2>3. n \in Int
    BY <1>5
  <2> HIDE DEF F, n
  <2>4. SumOf(F, WanTargets) = n * Cardinality(WanTargets)
    BY <2>2, <2>3, ScreenAssumption, SumOnes
  <2>5. n * m = m * n
    BY <1>5
  <2> QED BY <2>4, <2>5
<1> DEFINE mn == m * n
           rest == (m - 1) * n
<1>13. rest = mn - n /\ rest \in Int /\ mn \in Int
  BY <1>5
<1>14. sum <= Cardinality(all) + rest /\ f.down = Max({0, sum - rest}) /\ (down = held => sum = mn)
  BY <1>7, <1>8, <1>12
<1> HIDE DEF mn, rest, sum, n, m, down, held, all
<1>15. f.down = IF 0 <= sum - rest THEN sum - rest ELSE 0
  BY <1>6, <1>13, <1>14, MaxPair
<1>16. f.down <= Cardinality(down)
  BY <1>6, <1>11, <1>13, <1>14, <1>15
<1>17. down = held => f.down = f.count
  BY <1>5, <1>6, <1>7, <1>13, <1>14, <1>15
<1>18. f.count = Cardinality(held)
  BY <1>7, <1>11
<1> QED BY <1>16, <1>17, <1>18 DEF down, held

\* A time lies in its bucket.
LEMMA InBucket ==
  ASSUME NEW ts \in Int, NEW width \in Nat \ {0}
  PROVE  /\ BucketOf(ts, width) \in Int /\ ts \div width \in Int
         /\ BucketOf(ts, width) = (ts \div width) * width
         /\ BucketOf(ts, width) <= ts /\ ts < BucketOf(ts, width) + width
         /\ BucketOf(ts, width) % width = 0
         /\ \A b \in Int : b % width = 0 => BucketOf(b, width) = b
<1> DEFINE q == ts \div width
<1>1. q \in Int /\ q * width <= ts /\ ts < q * width + width /\ q * width \in Int
  OBVIOUS
<1>2. BucketOf(ts, width) = q * width
  BY DEF BucketOf
<1> HIDE DEF q
<1>3. (q * width) % width = 0
  BY <1>1
<1>4. \A b \in Int : b % width = 0 => BucketOf(b, width) = b
  BY DEF BucketOf
<1> QED BY <1>1, <1>2, <1>3, <1>4 DEF q

\* Time and buckets run alike.
LEMMA BucketsInOrder ==
  ASSUME NEW width \in Nat \ {0}, NEW a \in Int, NEW b \in Int, a <= b
  PROVE  a \div width <= b \div width /\ BucketOf(a, width) <= BucketOf(b, width)
<1> DEFINE p == a \div width q == b \div width
<1>1. p \in Int /\ q \in Int /\ p * width <= a /\ b < (q + 1) * width
  <2>1. b < q * width + width /\ q \in Int
    OBVIOUS
  <2>2. (q + 1) * width = q * width + width
    OBVIOUS
  <2> QED BY <2>1, <2>2
<1>2. p * width \in Int /\ (q + 1) * width \in Int
  OBVIOUS
<1> HIDE DEF p, q
<1>3. p * width < (q + 1) * width
  BY <1>1, <1>2
<1>4. \A x, y \in Int : x * width < y * width => x < y
  OBVIOUS
<1>5. p < q + 1
  BY <1>1, <1>3, <1>4
<1>6. p <= q
  BY <1>1, <1>5
<1>7. p * width <= q * width
  BY <1>1, <1>6
<1> QED BY <1>6, <1>7 DEF p, q, BucketOf

\* No range of the page is longer than its slots.
LEMMA ScreenSpan ==
  ASSUME WorldInv, NEW width \in Widths, NEW w \in Screens(width)
  PROVE  w.to - w.from \in Nat /\ w.to - w.from <= 1440 * width
<1>1. PICK span \in Spans : span <= MaxRangeSlots * width /\ w = QuantiseWindow(RangeToWindow(span, Clock), width)
  BY DEF Screens
<1>2. span \in Nat
  <2>1. \A n \in 1..Len(happened) : n * ProbeCycleS \in Nat
    BY KeptAre, ReadsAssumption
  <2> QED BY <2>1 DEF Spans
<1>3. BucketOf(Clock, ProbeCycleS) \in Int
  <2>1. Clock \in Nat
    BY RecordedCycles
  <2> QED BY <2>1, ReadsAssumption, InBucket
<1> DEFINE r == RangeToWindow(span, Clock)
           to == BucketOf(r.to, WindowKeyStep(width))
<1>4. r.to - r.from = span /\ r.to \in Int /\ r.from \in Int
  BY <1>2, <1>3 DEF RangeToWindow
<1>5. w.from = r.from - (r.to - to) /\ w.to = to
  BY <1>1 DEF QuantiseWindow
<1>6. w.from \in Int /\ w.to \in Int
  BY ScreensAre
<1> HIDE DEF r, to
<1>7. w.to - w.from = span
  BY <1>4, <1>5, <1>6
<1> QED BY <1>1, <1>2, <1>7 DEF MaxRangeSlots

\* The axis of a range has at most two slots more than its length would need.
LEMMA FewSlots ==
  ASSUME NEW width \in Nat \ {0}, NEW w, w.from \in Int, w.to \in Int, w.from <= w.to, w.to - w.from <= 1440 * width
  PROVE  IsFiniteSet(SlotStarts(w, width)) /\ Cardinality(SlotStarts(w, width)) <= 1442
<1> DEFINE lo == w.from \div width
           hi == w.to \div width
           at == [k \in lo..hi |-> k * width]
           slots == SlotStarts(w, width)
<1>1. lo \in Int /\ hi \in Int /\ lo <= hi
  BY InBucket, BucketsInOrder
<1>2. hi - lo <= 1441
  <2>1. hi * width <= w.to /\ hi * width \in Int
    <3>1. BucketOf(w.to, width) = hi * width
      BY InBucket
    <3>2. BucketOf(w.to, width) <= w.to /\ BucketOf(w.to, width) \in Int
      BY InBucket
    <3> HIDE DEF hi
    <3> QED BY <3>1, <3>2
  <2>2. w.from < lo * width + width /\ lo * width \in Int
    <3>1. BucketOf(w.from, width) = lo * width
      BY InBucket
    <3>2. w.from < BucketOf(w.from, width) + width /\ BucketOf(w.from, width) \in Int
      BY InBucket
    <3> HIDE DEF lo
    <3> QED BY <3>1, <3>2
  <2>3. hi * width < lo * width + 1441 * width
    BY <2>1, <2>2
  <2>4. lo * width + 1441 * width = (lo + 1441) * width
    BY <1>1
  <2>5. \A x, y \in Int : x * width < y * width => x < y
    OBVIOUS
  <2> HIDE DEF lo, hi
  <2>6. hi < lo + 1441
    BY <1>1, <2>3, <2>4, <2>5
  <2> QED BY <1>1, <2>6
<1>3. slots \subseteq ImageOf(at, lo..hi)
  <2> SUFFICES ASSUME NEW b \in slots PROVE b \in ImageOf(at, lo..hi)
    OBVIOUS
  <2>1. b \in Int /\ b % width = 0 /\ BucketOf(w.from, width) <= b /\ b <= w.to
    BY InBucket DEF SlotStarts
  <2>2. BucketOf(w.from, width) \div width = lo
    <3>1. BucketOf(w.from, width) = lo * width
      BY InBucket
    <3>2. (lo * width) \div width = lo
      BY <1>1
    <3> QED BY <3>1, <3>2
  <2>3. lo <= b \div width /\ b \div width <= hi /\ b \div width \in Int
    <3>1. BucketOf(w.from, width) \in Int /\ b \div width \in Int
      <4>1. b \div width \in Int
        BY <2>1, InBucket
      <4>2. BucketOf(w.from, width) \in Int
        BY InBucket
      <4> QED BY <4>1, <4>2
    <3>2. BucketOf(w.from, width) \div width <= b \div width
      BY <2>1, <3>1, BucketsInOrder
    <3>3. b \div width <= hi
      BY <2>1, BucketsInOrder
    <3> QED BY <2>2, <3>1, <3>2, <3>3
  <2>4. b = (b \div width) * width
    BY <2>1, InBucket
  <2> DEFINE k == b \div width
  <2>5. k \in lo..hi /\ b = at[k]
    BY <1>1, <2>3, <2>4
  <2> HIDE DEF at, k, lo, hi
  <2> QED BY <2>5 DEF ImageOf
<1>4. IsFiniteSet(lo..hi) /\ Cardinality(lo..hi) = hi - lo + 1
  <2> HIDE DEF lo, hi
  <2>1. ~(lo > hi)
    BY <1>1
  <2> QED BY <1>1, <2>1, FS_Interval
<1> HIDE DEF at, lo, hi, slots
<1>5. IsFiniteSet(ImageOf(at, lo..hi)) /\ Cardinality(ImageOf(at, lo..hi)) <= hi - lo + 1
  BY <1>4, ImageFinite
<1>6. Cardinality(ImageOf(at, lo..hi)) \in Nat
  BY <1>5, FS_CardinalityType
<1>7. IsFiniteSet(slots) /\ Cardinality(slots) <= Cardinality(ImageOf(at, lo..hi)) /\ Cardinality(slots) \in Nat
  BY <1>3, <1>5, FS_Subset, FS_CardinalityType
<1> QED BY <1>1, <1>2, <1>5, <1>6, <1>7 DEF slots

\* The echoes sent and the echoes missed by a set of samples, as sums over it.
LEMMA SentSum ==
  ASSUME NEW S, IsFiniteSet(S), \A x \in S : x.sent \in Int
  PROVE  MapThenSumSet(LAMBDA r : r.sent, S) = SumOf([x \in S |-> x.sent], S)
<1> DEFINE F == [x \in S |-> x.sent]
           h == CHOOSE g : g = [s \in SUBSET S |-> IF s = {} THEN 0 ELSE Pick(s).sent + g[s \ {Pick(s)}]]
<1>1. MapThenSumSet(LAMBDA r : r.sent, S) = h[S]
  BY DEF MapThenSumSet, MapThenFoldSet, Pick
<1>2. IntsOn(F, S) /\ \A x \in S : F[x] \in Int
  BY DEF IntsOn
<1>3. \A s \in SUBSET S : s # {} => Pick(s) \in S /\ F[Pick(s)] = Pick(s).sent
  BY DEF Pick
<1> HIDE DEF F
<1>4. \A g : Adds(F, S, g) <=> g = [s \in SUBSET S |-> IF s = {} THEN 0 ELSE Pick(s).sent + g[s \ {Pick(s)}]]
  BY <1>3 DEF Adds
<1>5. Adds(F, S, h)
  <2>1. PICK g : Adds(F, S, g)
    BY <1>2, AddsExists
  <2> QED BY <1>4, <2>1
<1> HIDE DEF h
<1>6. h[S] = SumOf(F, S)
  BY <1>2, <1>5, SumWhole
<1> QED BY <1>1, <1>6 DEF F

\* The echoes that are missing, as a sum over the samples.
LEMMA MissedSum ==
  ASSUME NEW S, IsFiniteSet(S), \A x \in S : x.sent - x.received \in Int
  PROVE  MapThenSumSet(LAMBDA r : r.sent - r.received, S) = SumOf([x \in S |-> x.sent - x.received], S)
<1> DEFINE F == [x \in S |-> x.sent - x.received]
           h == CHOOSE g : g = [s \in SUBSET S |-> IF s = {} THEN 0 ELSE (Pick(s).sent - Pick(s).received) + g[s \ {Pick(s)}]]
<1>1. MapThenSumSet(LAMBDA r : r.sent - r.received, S) = h[S]
  BY DEF MapThenSumSet, MapThenFoldSet, Pick
<1>2. IntsOn(F, S) /\ \A x \in S : F[x] \in Int
  BY DEF IntsOn
<1>3. \A s \in SUBSET S : s # {} => Pick(s) \in S /\ F[Pick(s)] = (Pick(s).sent - Pick(s).received)
  BY DEF Pick
<1> HIDE DEF F
<1>4. \A g : Adds(F, S, g) <=> g = [s \in SUBSET S |-> IF s = {} THEN 0 ELSE (Pick(s).sent - Pick(s).received) + g[s \ {Pick(s)}]]
  BY <1>3 DEF Adds
<1>5. Adds(F, S, h)
  <2>1. PICK g : Adds(F, S, g)
    BY <1>2, AddsExists
  <2> QED BY <1>4, <2>1
<1> HIDE DEF h
<1>6. h[S] = SumOf(F, S)
  BY <1>2, <1>5, SumWhole
<1> QED BY <1>1, <1>6 DEF F

\* The least and the greatest of the figures that are there.
LEMMA ExtremesAre ==
  ASSUME NEW S \in SUBSET (Nat \cup {Null}), IsFiniteSet(S)
  PROVE  /\ Extreme(Min, S) \in Nat \cup {Null} /\ Extreme(Max, S) \in Nat \cup {Null}
         /\ \E last \in Nat : \A x \in S \ {Null} : x <= last
<1> DEFINE T == S \ {Null} F == [x \in T |-> x]
<1>1. T \in SUBSET Nat /\ IsFiniteSet(T)
  BY FS_Subset
<1>2. \A x \in T : F[x] = x /\ F[x] \in Nat
  BY <1>1
<1> HIDE DEF F, T
<1>3. SumOf(F, T) \in Nat /\ \A x \in T : F[x] <= SumOf(F, T)
  BY <1>1, <1>2, SumNat
<1>4. \E last \in Nat : \A x \in T : x <= last
  BY <1>2, <1>3
<1>5. T # {} => Min(T) \in T /\ Max(T) \in T
  BY <1>1, <1>4, MinOf, MaxOf
<1>6. Extreme(Min, S) = (IF T = {} THEN Null ELSE Min(T)) /\ Extreme(Max, S) = (IF T = {} THEN Null ELSE Max(T))
  BY DEF Extreme, T
<1> QED BY <1>1, <1>4, <1>5, <1>6 DEF T

\* A sample of a recorded cycle, by its fields.
LEMMA SampleRow ==
  ASSUME WorldInv, NEW s \in tables.sample
  PROVE  /\ s.sent = 4 /\ s.received \in {0, 2, 4} /\ s.loss = 25 * (4 - s.received) /\ InOrder(s)
         /\ s.med = Null \/ s.med \in Nat
<1>1. PICK i \in Kept : s \in SampleRows(happened[i]) /\ InOrder(s)
  BY OneSample
<1>2. happened[i].meets \in DOMAIN Meets
  BY KeptAre DEF Cycle
<1>3. PICK n \in {0, 2, 4} : s.received = n /\ s.loss = 25 * (4 - n)
  BY <1>1, <1>2, SampleCounts
<1>4. s.sent = 4
  <2>1. s = Sample(happened[i].ts, s.target, 4, Rtts(happened[i], s.received))
    BY <1>1, <1>2, Heard
  <2>2. \A ts, x, r : Sample(ts, x, 4, r).sent = 4
    BY DEF Sample
  <2> QED BY <2>1, <2>2, Zenon
<1> QED BY <1>1, <1>3, <1>4 DEF InOrder

\* The figures of a row, made of the samples it stands for.
LEMMA RowFigures ==
  ASSUME WorldInv, NEW R \in SUBSET tables.sample, IsFiniteSet(R), R # {}, NEW b \in Int, NEW x \in TargetNames
  PROVE  ProbeBucket(b, x, R) # Null
<1> DEFINE Figure == Nat \cup {Null}
           timed == {r \in R : r.med # Null}
           n == Cardinality(timed)
           sent == MapThenSumSet(LAMBDA r : r.sent, R)
           missed == MapThenSumSet(LAMBDA r : r.sent - r.received, R)
           f1 == IF n = 0 THEN Null ELSE AtRank(timed, (n + 1) \div 2) + AtRank(timed, (n + 2) \div 2)
           f2 == IF n = 0 THEN Null ELSE AtRank(timed, RankOf(n, 5))
           f3 == IF n = 0 THEN Null ELSE AtRank(timed, RankOf(n, 95))
           mins == {r.min : r \in R}
           maxs == {r.max : r \in R}
           losses == {r.loss : r \in R}
           f4 == IF sent = 0 THEN 0 ELSE (100 * missed) \div sent
           gone == {r \in R : r.received = 0}
<1>1. \A r \in R : /\ r.sent = 4 /\ r.received \in {0, 2, 4} /\ r.loss = 25 * (4 - r.received) /\ InOrder(r)
                   /\ r.med = Null \/ r.med \in Nat
  BY SampleRow
<1>2. Timed(timed) /\ n \in Nat
  <2>1. IsFiniteSet(timed)
    BY FS_Subset
  <2>2. \A r \in timed : r.med \in Nat
    BY <1>1
  <2> HIDE DEF timed
  <2> QED BY <2>1, <2>2, FS_CardinalityType DEF Timed
<1> HIDE DEF timed
<1>3. f1 \in Figure /\ f2 \in Figure /\ f3 \in Figure
  <2> SUFFICES ASSUME n # 0 PROVE f1 \in Nat /\ f2 \in Nat /\ f3 \in Nat
    OBVIOUS
  <2>1. RankOf(n, 5) \in 1..n /\ RankOf(n, 95) \in 1..n /\ (n + 1) \div 2 \in 1..n /\ (n + 2) \div 2 \in 1..n
    BY <1>2, RanksAre
  <2>2. \A k \in 1..n : AtRank(timed, k) \in Nat
    BY <1>2, RankIs
  <2> HIDE DEF n
  <2>3. /\ AtRank(timed, (n + 1) \div 2) \in Nat /\ AtRank(timed, (n + 2) \div 2) \in Nat
        /\ AtRank(timed, RankOf(n, 5)) \in Nat /\ AtRank(timed, RankOf(n, 95)) \in Nat
    BY <2>1, <2>2
  <2> QED BY <2>3
<1>4. Extreme(Min, mins) \in Figure /\ Extreme(Max, maxs) \in Figure
  <2>1. mins \in SUBSET Figure /\ maxs \in SUBSET Figure
    BY <1>1 DEF InOrder
  <2>2. IsFiniteSet(mins) /\ IsFiniteSet(maxs)
    <3> DEFINE f == [r \in R |-> r.min] g == [r \in R |-> r.max]
    <3>1. ImageOf(f, R) = mins /\ ImageOf(g, R) = maxs
      BY DEF ImageOf
    <3> HIDE DEF f, g, mins, maxs
    <3> QED BY <3>1, ImageFinite
  <2> HIDE DEF mins, maxs
  <2> QED BY <2>1, <2>2, ExtremesAre
<1>5. Max(losses) \in Nat
  <2>1. losses \in SUBSET Nat /\ losses # {} /\ \A y \in losses : y <= 100
    BY <1>1
  <2> HIDE DEF losses
  <2>2. Max(losses) \in losses
    BY <2>1, MaxOf
  <2> QED BY <2>1, <2>2
<1>6. f4 \in Int
  <2>1. sent = SumOf([y \in R |-> y.sent], R)
    BY <1>1, SentSum
  <2>2. SumOf([y \in R |-> y.sent], R) = 4 * Cardinality(R)
    <3> DEFINE F == [y \in R |-> y.sent]
    <3>1. \A y \in R : F[y] = 4
      BY <1>1
    <3> HIDE DEF F
    <3>2. SumOf(F, R) = 4 * Cardinality(R)
      BY <3>1, SumOnes
    <3> QED BY <3>2 DEF F
  <2>3. \A y \in R : y.sent - y.received \in Int
    BY <1>1
  <2>4. missed = SumOf([y \in R |-> y.sent - y.received], R)
    BY <2>3, MissedSum
  <2>5. SumOf([y \in R |-> y.sent - y.received], R) \in Int
    <3> DEFINE F == [y \in R |-> y.sent - y.received]
    <3>1. IntsOn(F, R)
      BY <2>3 DEF IntsOn
    <3> HIDE DEF F
    <3>2. SumOf(F, R) \in Int
      BY <3>1, SumInt
    <3> QED BY <3>2 DEF F
  <2>6. Cardinality(R) \in Nat
    BY FS_CardinalityType
  <2>7. sent = 4 * Cardinality(R)
    BY <2>1, <2>2, Zenon
  <2>8. missed \in Int
    BY <2>4, <2>5, Zenon
  <2> HIDE DEF sent, missed
  <2>9. sent \in Nat
    BY <2>6, <2>7
  <2> QED BY <2>8, <2>9
<1>7. Cardinality(R) \in Nat /\ Cardinality(gone) \in Nat
  <2>1. IsFiniteSet(gone)
    BY FS_Subset
  <2> HIDE DEF gone
  <2> QED BY <2>1, FS_CardinalityType
<1> DEFINE c1 == Cardinality(R) c2 == Extreme(Min, mins) c3 == Extreme(Max, maxs) c4 == Max(losses)
           c5 == Cardinality(gone)
<1>8. ProbeBucket(b, x, R)
        = [bucket |-> b, target |-> x, count |-> c1, med2 |-> f1, p5 |-> f2, p95 |-> f3,
           min |-> c2, max |-> c3, maxLoss |-> c4, loss |-> f4, down |-> c5]
  BY DEF ProbeBucket, timed
<1>9. /\ c1 \in Nat /\ f1 \in Figure /\ f2 \in Figure /\ f3 \in Figure /\ c2 \in Figure /\ c3 \in Figure
      /\ c4 \in Int /\ f4 \in Int /\ c5 \in Nat
  <2>1. c1 \in Nat /\ c5 \in Nat
    BY <1>7
  <2>2. c2 \in Figure /\ c3 \in Figure
    BY <1>4
  <2>3. c4 \in Nat
    BY <1>5
  <2>4. c4 \in Int
    <3> HIDE DEF c4
    <3> QED BY <2>3
  <2> HIDE DEF f1, f2, f3, f4, c1, c2, c3, c4, c5
  <2> QED BY <1>3, <1>6, <2>1, <2>2, <2>4
<1> HIDE DEF f1, f2, f3, f4, c1, c2, c3, c4, c5
<1>10. ProbeBucket(b, x, R)
         \in [bucket : Int, target : TargetNames, count : Nat, med2 : Figure, p5 : Figure, p95 : Figure,
              min : Figure, max : Figure, maxLoss : Int, loss : Int, down : Nat]
  BY <1>8, <1>9
<1> QED BY <1>10, AbsentIsNoRow

\* A bucket with a recorded cycle has a row, and the row is there.
LEMMA RowIsThere ==
  ASSUME WorldInv, NEW w, w.from \in Int, w.to \in Int, NEW width \in Nat \ {0}, NEW x \in TargetNames,
         NEW i \in KeptIn(w.from, w.to)
  PROVE  LET b == BucketOf(CycleTs(i), width)
         IN /\ RowAt(w, width, b, x) \in BucketsOf(w, width) /\ RowAt(w, width, b, x) # Null
            /\ RowAt(w, width, b, x).bucket = b /\ RowAt(w, width, b, x).target = x
<1>0. PICK b : b = BucketOf(CycleTs(i), width)
  OBVIOUS
<1> DEFINE cell == Cell(w.from, w.to, width, b, x)
<1>1. i \in PlacesAt(w.from, w.to, width, b)
  BY <1>0 DEF PlacesAt
<1>2. b \in Int
  <2>1. CycleTs(i) \in Int
    <3>1. i \in Nat
      BY KeptAre DEF KeptIn
    <3> QED BY <3>1, Stamp
  <2> QED BY <1>0, <2>1, InBucket
<1>3. IsFiniteSet(cell) /\ cell # {}
  <2> DEFINE places == PlacesAt(w.from, w.to, width, b)
  <2>1. IsFiniteSet(cell)
    BY CellIs
  <2>2. places # {}
    BY <1>1
  <2>3. PICK s \in cell : TRUE
    BY <2>2, CellIs
  <2> QED BY <2>1, <2>3
<1>4. cell \in SUBSET tables.sample
  BY DEF Cell, Within
<1>5. RowAt(w, width, b, x) # Null
  <2>1. RowAt(w, width, b, x) = ProbeBucket(b, x, cell)
    BY DEF RowAt
  <2> HIDE DEF cell
  <2> QED BY <1>2, <1>3, <1>4, <2>1, RowFigures
<1>6. RowAt(w, width, b, x) \in BucketsOf(w, width)
  BY <1>1, RowsAre
<1>7. RowAt(w, width, b, x).bucket = b /\ RowAt(w, width, b, x).target = x
  BY RowFieldsAre
<1> QED BY <1>0, <1>5, <1>6, <1>7

\* The rows of one target: one for each bucket with a recorded cycle, on the grid.
RowsOf(v, width, x) == {r \in BucketsOf(v, width) : r.target = x}
LEMMA TargetRows ==
  ASSUME WorldInv, NEW v, v.from \in Int, v.to \in Int, NEW width \in Nat \ {0}, NEW x \in TargetNames
  PROVE  LET rows == RowsOf(v, width, x)
         IN /\ \A r \in rows : /\ r # Null
                               /\ \E i \in KeptIn(v.from, v.to) : r.bucket = BucketOf(CycleTs(i), width)
            /\ \A i \in KeptIn(v.from, v.to) : \E r \in rows : r.bucket = BucketOf(CycleTs(i), width)
            /\ \A r, s \in rows : r.bucket = s.bucket => r = s
            /\ IsFiniteSet(rows) /\ Cardinality({r.bucket : r \in rows}) = Cardinality(rows)
<1> DEFINE rows == RowsOf(v, width, x)
           K == KeptIn(v.from, v.to)
           row == [i \in K |-> RowAt(v, width, BucketOf(CycleTs(i), width), x)]
           place == [r \in rows |-> r.bucket]
<1>1. ASSUME NEW r \in rows
      PROVE  /\ r = RowAt(v, width, r.bucket, x)
             /\ \E i \in K : r.bucket = BucketOf(CycleTs(i), width)
  <2>1. r \in BucketsOf(v, width) /\ r.target = x
    BY DEF RowsOf
  <2>2. r = RowAt(v, width, r.bucket, x) /\ PlacesAt(v.from, v.to, width, r.bucket) # {}
    BY <2>1, RowsAre
  <2> QED BY <2>2 DEF PlacesAt
<1>2. ASSUME NEW i \in K
      PROVE  row[i] \in rows /\ row[i] # Null /\ row[i].bucket = BucketOf(CycleTs(i), width)
  <2>1. PICK b : b = BucketOf(CycleTs(i), width)
    OBVIOUS
  <2>2. row[i] = RowAt(v, width, b, x)
    BY <2>1
  <2>3. /\ RowAt(v, width, b, x) \in BucketsOf(v, width) /\ RowAt(v, width, b, x) # Null
        /\ RowAt(v, width, b, x).bucket = b /\ RowAt(v, width, b, x).target = x
    BY <2>1, RowIsThere
  <2> HIDE DEF row
  <2> QED BY <2>1, <2>2, <2>3 DEF RowsOf
<1>3. ASSUME NEW r \in rows PROVE \E i \in K : r = row[i]
  <2>1. PICK i \in K : r.bucket = BucketOf(CycleTs(i), width)
    BY <1>1
  <2>2. r = RowAt(v, width, BucketOf(CycleTs(i), width), x)
    BY <1>1, <2>1
  <2> QED BY <2>2
<1>4. IsFiniteSet(K)
  BY StampsIn
<1>5. \A r, s \in rows : r.bucket = s.bucket => r = s
  BY <1>1
<1> HIDE DEF row, rows
<1>6. ImageOf(row, K) = rows
  BY <1>2, <1>3 DEF ImageOf
<1>7. IsFiniteSet(rows)
  <2> HIDE DEF K
  <2> QED BY <1>4, <1>6, ImageFinite
<1>8. OneToOne(place, rows) /\ ImageOf(place, rows) = {r.bucket : r \in rows}
  BY <1>5 DEF OneToOne, ImageOf
<1> HIDE DEF place
<1>9. Cardinality({r.bucket : r \in rows}) = Cardinality(rows)
  <2>1. Cardinality(ImageOf(place, rows)) = Cardinality(rows)
    BY <1>7, <1>8, SameMany
  <2> QED BY <1>8, <2>1
<1>10. \A r \in rows : r # Null
  BY <1>2, <1>3
<1> QED BY <1>1, <1>2, <1>5, <1>7, <1>9, <1>10 DEF rows

\* The axis holds an answer for the window or for one just like it.
LEMMA SlotsHold == ASSUME WorldInv PROVE SlotsTrue
<1> SUFFICES ASSUME NEW width \in Widths, NEW w \in Screens(width), NEW v \in Screens(width)
             PROVE  LET shown == KeepAcrossTimeAdvance([query |-> "probes", from |-> w.from, to |-> w.to],
                                   {b \in BucketsOf(v, width) : b.target = GatewayTarget},
                                   [query |-> "probes", from |-> v.from, to |-> v.to])
                        slots == IF shown = Null THEN <<>> ELSE DensifyBuckets(shown, w, width)
                    IN shown # Null =>
                         /\ ~Malformed(shown, w, width)
                         /\ w = v => {b \in DOMAIN slots : slots[b] # Null}
                                       = {BucketOf(t.ts, width) : t \in TakenIn(w.from, w.to)}
  BY DEF SlotsTrue
<1> DEFINE rows == RowsOf(v, width, GatewayTarget)
           shown == KeepAcrossTimeAdvance([query |-> "probes", from |-> w.from, to |-> w.to], rows,
                                          [query |-> "probes", from |-> v.from, to |-> v.to])
           slots == IF shown = Null THEN <<>> ELSE DensifyBuckets(shown, w, width)
           buckets == {r.bucket : r \in rows}
<1>1. width \in Nat \ {0} /\ w.from \in Int /\ w.to \in Int /\ v.from \in Int /\ v.to \in Int
  BY ScreensAre
<1>2. GatewayTarget \in TargetNames
  BY DEF TargetNames
<1>3. /\ \A r \in rows : r # Null /\ \E i \in KeptIn(v.from, v.to) : r.bucket = BucketOf(CycleTs(i), width)
      /\ \A i \in KeptIn(v.from, v.to) : \E r \in rows : r.bucket = BucketOf(CycleTs(i), width)
      /\ Cardinality(buckets) = Cardinality(rows)
  BY <1>1, <1>2, TargetRows
<1>4. IsFiniteSet(SlotStarts(w, width)) /\ Cardinality(SlotStarts(w, width)) <= 1442
  <2>1. w.to - w.from \in Nat /\ w.to - w.from <= 1440 * width
    BY ScreenSpan
  <2>2. w.from <= w.to
    BY <1>1, <2>1
  <2> QED BY <1>1, <2>1, <2>2, FewSlots
<1>5. ~(Cardinality(SlotStarts(w, width)) > MaxSlots)
  <2>1. Cardinality(SlotStarts(w, width)) \in Nat
    BY <1>4, FS_CardinalityType
  <2> QED BY <1>4, <2>1 DEF MaxSlots
<1>6. \A i \in Kept : CycleTs(i) \in Int /\ happened[i].ts = CycleTs(i)
  <2>1. \A i \in Kept : i \in Nat
    BY KeptAre
  <2> QED BY <2>1, KeptAre, Stamp
<1>7. \A b \in buckets : b \in Int /\ b % width = 0
  <2> SUFFICES ASSUME NEW r \in rows PROVE r.bucket \in Int /\ r.bucket % width = 0
    OBVIOUS
  <2>1. PICK i \in KeptIn(v.from, v.to) : r.bucket = BucketOf(CycleTs(i), width)
    BY <1>3
  <2>2. CycleTs(i) \in Int
    BY <1>6 DEF KeptIn
  <2> QED BY <1>1, <2>1, <2>2, InBucket
<1>8. ~Malformed(rows, w, width)
  <2>1. buckets \cap (BucketOf(w.from, width)..w.to) \subseteq SlotStarts(w, width)
    BY <1>7 DEF SlotStarts
  <2> QED BY <1>3, <1>5, <2>1 DEF Malformed
<1>9. ASSUME w = v
      PROVE  LET s == DensifyBuckets(rows, w, width)
             IN {b \in DOMAIN s : s[b] # Null} = {BucketOf(t.ts, width) : t \in TakenIn(w.from, w.to)}
  <2> DEFINE s == DensifyBuckets(rows, w, width)
             K == KeptIn(w.from, w.to)
  <2>1. DOMAIN s = SlotStarts(w, width)
        /\ \A b \in SlotStarts(w, width) :
             s[b] = IF \E r \in rows : r.bucket = b THEN CHOOSE r \in rows : r.bucket = b ELSE Null
    BY DEF DensifyBuckets
  <2>2. TakenIn(w.from, w.to) = CyclesAt(K) /\ \A i \in K : i \in Kept /\ w.from <= CycleTs(i) /\ CycleTs(i) <= w.to
    BY <1>1, PlacesAre DEF KeptIn
  <2>3. {BucketOf(t.ts, width) : t \in TakenIn(w.from, w.to)} = {BucketOf(CycleTs(i), width) : i \in K}
    <3>1. \A i \in K : BucketOf(happened[i].ts, width) = BucketOf(CycleTs(i), width)
      BY <1>6, <2>2
    <3> HIDE DEF K
    <3> QED BY <2>2, <3>1 DEF CyclesAt
  <2>4. ASSUME NEW i \in K PROVE BucketOf(CycleTs(i), width) \in SlotStarts(w, width)
    <3>1. CycleTs(i) \in Int /\ w.from <= CycleTs(i) /\ CycleTs(i) <= w.to
      BY <1>6, <2>2
    <3>2. BucketOf(w.from, width) <= BucketOf(CycleTs(i), width)
      BY <1>1, <3>1, BucketsInOrder
    <3>3. /\ BucketOf(CycleTs(i), width) \in Int /\ BucketOf(CycleTs(i), width) <= CycleTs(i)
          /\ BucketOf(CycleTs(i), width) % width = 0
      BY <1>1, <3>1, InBucket
    <3>4. BucketOf(w.from, width) \in Int
      BY <1>1, InBucket
    <3> QED BY <1>1, <3>1, <3>2, <3>3, <3>4 DEF SlotStarts
  <2> HIDE DEF s
  <2>5. ASSUME NEW b \in SlotStarts(w, width) PROVE s[b] # Null <=> \E r \in rows : r.bucket = b
    BY <1>3, <2>1
  <2>6. \A b : (\E r \in rows : r.bucket = b) <=> \E i \in K : b = BucketOf(CycleTs(i), width)
    BY <1>3, <1>9
  <2> HIDE DEF K, rows
  <2>7. {b \in DOMAIN s : s[b] # Null} = {BucketOf(CycleTs(i), width) : i \in K}
    BY <2>1, <2>4, <2>5, <2>6
  <2> QED BY <2>3, <2>7 DEF s
<1>10. shown # Null => shown = rows
  BY DEF KeepAcrossTimeAdvance
<1>11. ASSUME shown # Null
       PROVE  /\ ~Malformed(shown, w, width)
              /\ w = v => {b \in DOMAIN slots : slots[b] # Null}
                            = {BucketOf(t.ts, width) : t \in TakenIn(w.from, w.to)}
  <2>1. shown = rows /\ slots = DensifyBuckets(rows, w, width)
    BY <1>10, <1>11
  <2> HIDE DEF shown, slots, rows
  <2> QED BY <1>8, <1>9, <2>1
<1> QED BY <1>11 DEF RowsOf

-----------------------------------------------------------------------------
(* The volume of a window. *)

\* A row of a cycle is a row.
LEMMA CycleRowsThere ==
  ASSUME BooksInv, NEW r \in tables.cycle
  PROVE  r # Null
<1>0. WorldInv /\ BytesCounted
  BY DEF BooksInv
<1>1. PICK i \in Kept : \E bytes : r = CycleRow(happened[i], bytes)
  BY <1>0 DEF WorldInv, CyclesKept
<1>2. PICK bytes : r = CycleRow(happened[i], bytes)
  BY <1>1
<1> DEFINE t == happened[i]
           read == t.odd # "blind"
           Figure == Nat \cup {Null}
<1>3. t.ts \in Nat
  <2>1. i \in Nat /\ t.ts = CycleTs(i)
    BY <1>0, KeptAre
  <2> QED BY <2>1, Stamp
<1>4. r.bytes = IF read THEN bytes ELSE Null
  BY <1>2 DEF CycleRow
<1>5. r.bytes \in Figure
  BY <1>0 DEF BytesCounted
<1> DEFINE f1 == IF t.odd = "unwatched" THEN Null ELSE ProbeCycleS
           f2 == IF read THEN PathOf(t) ELSE Null
           f3 == IF read THEN LinkSpeed(t) ELSE Null
           f4 == IF ~read THEN Null ELSE IF PathOf(t) = Home THEN 1 ELSE 0
           f5 == IF read THEN bytes ELSE Null
           f6 == IF read THEN 0 ELSE Null
<1>6. f1 \in Figure /\ f2 \in {Home, Away, Null} /\ f3 \in Figure /\ f4 \in Figure /\ f5 \in Figure /\ f6 \in Figure
  <2>1. f1 \in Figure /\ f2 \in {Home, Away, Null}
    BY ReadsAssumption DEF PathOf
  <2>2. f3 \in Figure /\ f4 \in Figure /\ f6 \in Figure
    BY DEF LinkSpeed
  <2>3. f5 \in Figure
    BY <1>4, <1>5
  <2> QED BY <2>1, <2>2, <2>3
<1>7. CycleRow(t, bytes) = [ts |-> t.ts, watch |-> f1, pathIf |-> f2, link |-> f3, home |-> f4, gateway |-> f2,
                            bytes |-> f5, errs |-> f6]
  BY DEF CycleRow
<1> HIDE DEF f1, f2, f3, f4, f5, f6, t
<1>8. CycleRow(t, bytes) \in [ts : Nat, watch : Figure, pathIf : {Home, Away, Null}, link : Figure, home : Figure,
                              gateway : {Home, Away, Null}, bytes : Figure, errs : Figure]
  BY <1>3, <1>6, <1>7
<1> QED BY <1>2, <1>8, AbsentIsNoRow DEF t

\* The rows a volume is read from, by their cycles; the intervals that end in the window; the
\* row before each; and what its counter has gained since.
RowsIn(w) == Within(tables.cycle, w.from - MaxIntervalS, w.to)
Reach(w) == KeptIn(w.from - MaxIntervalS, w.to)
PriorTo(w, r) == Before(RowsIn(w), r)
EndsIn(w) == {r \in RowsIn(w) : w.from <= r.ts /\ PriorTo(w, r) # Null}
Gain(w) == [r \in RowsIn(w) |-> r.bytes - PriorTo(w, r).bytes]

\* A row is its cycle's, and each cycle in reach has one.
LEMMA RowsByPlace ==
  ASSUME WorldInv, NEW w, w.from \in Int, w.to \in Int
  PROVE  /\ RowsIn(w) \subseteq tables.cycle /\ IsFiniteSet(RowsIn(w))
         /\ \A r \in RowsIn(w) : /\ PlaceOf(r) \in Reach(w) /\ PlaceOf(r) \in Nat /\ PlaceOf(r) \in 1..Len(happened)
                                 /\ r.ts = CycleTs(PlaceOf(r)) /\ r.ts \in Nat
         /\ \A i \in Reach(w) : \E r \in RowsIn(w) : PlaceOf(r) = i
         /\ \A q, r \in RowsIn(w) : PlaceOf(q) = PlaceOf(r) => q = r
<1>1. RowsIn(w) \subseteq tables.cycle /\ \A r \in RowsIn(w) : w.from - MaxIntervalS <= r.ts /\ r.ts <= w.to
  BY DEF RowsIn, Within
<1>2. IsFiniteSet(RowsIn(w))
  BY <1>1, CyclesFinite, FS_Subset
<1>3. ASSUME NEW r \in RowsIn(w)
      PROVE  /\ PlaceOf(r) \in Reach(w) /\ PlaceOf(r) \in Nat /\ PlaceOf(r) \in 1..Len(happened)
             /\ r.ts = CycleTs(PlaceOf(r)) /\ r.ts \in Nat
  <2>1. PICK i \in Kept : RowOf(r, i)
    BY <1>1, RowsOfCycles
  <2>2. i \in Nat /\ i \in 1..Len(happened) /\ r.ts = CycleTs(i)
    BY <2>1, KeptAre DEF RowOf
  <2>3. PlaceOf(r) = i /\ r.ts \in Nat
    BY <2>2, Stamp DEF PlaceOf
  <2> QED BY <1>1, <2>2, <2>3 DEF Reach, KeptIn
<1>4. ASSUME NEW i \in Reach(w) PROVE \E r \in RowsIn(w) : PlaceOf(r) = i
  <2>1. i \in Kept /\ i \in Nat /\ w.from - MaxIntervalS <= CycleTs(i) /\ CycleTs(i) <= w.to
    BY KeptAre DEF Reach, KeptIn
  <2>2. PICK r \in tables.cycle : RowOf(r, i)
    BY <2>1, RowsOfCycles
  <2>3. r.ts = CycleTs(i)
    BY <2>2 DEF RowOf
  <2>4. PlaceOf(r) = i
    BY <2>1, <2>3, Stamp DEF PlaceOf
  <2>5. r \in RowsIn(w)
    BY <2>1, <2>2, <2>3 DEF RowsIn, Within
  <2> QED BY <2>4, <2>5
<1>5. \A q, r \in RowsIn(w) : PlaceOf(q) = PlaceOf(r) => q = r
  BY <1>1, <1>3, RowsOfCycles
<1> QED BY <1>1, <1>2, <1>3, <1>4, <1>5

\* The row before is that of the last recorded cycle before, if there is one in reach.
LEMMA PriorIs ==
  ASSUME BooksInv, NEW w, w.from \in Int, w.to \in Int, NEW r \in RowsIn(w)
  PROVE  LET p == PriorTo(w, r)
         IN /\ p # Null => /\ p \in RowsIn(w) /\ PlaceOf(p) \in Reach(w) /\ PlaceOf(p) < PlaceOf(r)
                           /\ \A k \in Reach(w) : k < PlaceOf(r) => k <= PlaceOf(p)
            /\ (\E k \in Reach(w) : k < PlaceOf(r)) => p # Null
<1>0. WorldInv
  BY DEF BooksInv
<1> DEFINE p == PriorTo(w, r)
           earlier == {q \in RowsIn(w) : q.ts < r.ts}
<1>1. p = IF earlier = {} THEN Null ELSE Newest(earlier)
  BY DEF PriorTo, Before, Newest
<1>2. \A q \in RowsIn(w) : /\ PlaceOf(q) \in Reach(w) /\ PlaceOf(q) \in Nat
                           /\ q.ts = CycleTs(PlaceOf(q)) /\ q.ts \in Nat
  BY <1>0, RowsByPlace
<1>3. \A q \in RowsIn(w) : q.ts < r.ts <=> PlaceOf(q) < PlaceOf(r)
  <2> TAKE q \in RowsIn(w)
  <2> DEFINE a == PlaceOf(q) b == PlaceOf(r)
  <2>1. a \in Nat /\ b \in Nat /\ q.ts = CycleTs(a) /\ r.ts = CycleTs(b)
    BY <1>2
  <2> HIDE DEF a, b
  <2>2. CycleTs(a) \in Nat /\ CycleTs(b) \in Nat
    BY <2>1, Stamp
  <2>3. a < b => CycleTs(a) < CycleTs(b)
    BY <2>1, Stamp
  <2>4. b < a => CycleTs(b) < CycleTs(a)
    BY <2>1, Stamp
  <2>5. CycleTs(a) < CycleTs(b) <=> a < b
    BY <2>1, <2>2, <2>3, <2>4
  <2> QED BY <2>1, <2>5 DEF a, b
<1>4. ASSUME earlier # {}
      PROVE  /\ p \in RowsIn(w) /\ PlaceOf(p) \in Reach(w) /\ PlaceOf(p) < PlaceOf(r) /\ p # Null
             /\ \A k \in Reach(w) : k < PlaceOf(r) => k <= PlaceOf(p)
  <2>1. r.ts \in Nat /\ \A q \in earlier : q.ts \in Nat /\ q.ts <= r.ts
    BY <1>2
  <2>2. p = Newest(earlier)
    BY <1>1, <1>4
  <2>3. p \in earlier /\ \A q \in earlier : q.ts <= p.ts
    <3> HIDE DEF earlier, p
    <3> QED BY <1>4, <2>1, <2>2, NewestIs
  <2>4. p \in RowsIn(w) /\ p.ts < r.ts
    BY <2>3
  <2>5. p # Null
    <3>1. p \in tables.cycle
      BY <2>4 DEF RowsIn, Within
    <3> HIDE DEF p
    <3> QED BY <3>1, CycleRowsThere
  <2> HIDE DEF p
  <2>6. ASSUME NEW k \in Reach(w), k < PlaceOf(r) PROVE k <= PlaceOf(p)
    <3>1. PICK q \in RowsIn(w) : PlaceOf(q) = k
      BY <1>0, RowsByPlace
    <3>2. q \in earlier
      BY <1>3, <2>6, <3>1
    <3>3. q.ts <= p.ts
      BY <2>3, <3>2
    <3>4. /\ PlaceOf(p) \in Nat /\ k \in Nat /\ p.ts = CycleTs(PlaceOf(p)) /\ q.ts = CycleTs(k)
          /\ p.ts \in Nat /\ q.ts \in Nat
      BY <1>2, <2>4, <3>1
    <3>5. ~(PlaceOf(p) < k)
      BY <3>3, <3>4, Stamp
    <3> QED BY <3>4, <3>5
  <2> QED BY <1>2, <1>3, <2>4, <2>5, <2>6
<1>5. earlier = {} => p = Null
  BY <1>1
<1>6. (\E k \in Reach(w) : k < PlaceOf(r)) => earlier # {}
  <2> SUFFICES ASSUME NEW k \in Reach(w), k < PlaceOf(r) PROVE earlier # {}
    OBVIOUS
  <2>1. PICK q \in RowsIn(w) : PlaceOf(q) = k
    BY <1>0, RowsByPlace
  <2>2. q \in earlier
    BY <1>3, <2>1
  <2> QED BY <2>2
<1> HIDE DEF p, earlier
<1> QED BY <1>4, <1>5, <1>6 DEF p

\* The cycles on the path of an interval's end, since the row before it.
Crossing(w, r) ==
  {k \in PlaceOf(PriorTo(w, r)) + 1..PlaceOf(r) : PathOf(happened[k]) = PathOf(happened[PlaceOf(r)])}

\* While the host does not restart, an interval in use brings what crossed on its path.
LEMMA EndBrings ==
  ASSUME PageInv, Unbroken, NEW w, w.from \in Int, w.to \in Int, NEW r \in EndsIn(w), Usable(PriorTo(w, r), r)
  PROVE  /\ IsFiniteSet(Crossing(w, r)) /\ Cardinality(Crossing(w, r)) \in Nat
         /\ Gain(w)[r] = 2 * Cardinality(Crossing(w, r))
<1>0. BooksInv /\ WorldInv /\ BytesCounted /\ BytesTell
  BY DEF PageInv, ScreenInv, BooksInv
<1> DEFINE p == PriorTo(w, r)
           a == PlaceOf(p)
           b == PlaceOf(r)
           path == PathOf(happened[b])
<1>1. r \in RowsIn(w) /\ p # Null
  BY DEF EndsIn
<1>2. p \in RowsIn(w) /\ a < b
  BY <1>0, <1>1, PriorIs
<1>3. /\ a \in Nat /\ b \in Nat /\ a \in 0..Len(happened) /\ b \in 0..Len(happened) /\ b \in 1..Len(happened)
      /\ p \in tables.cycle /\ r \in tables.cycle
  <2>1. \A q \in RowsIn(w) : PlaceOf(q) \in Nat /\ PlaceOf(q) \in 1..Len(happened) /\ q \in tables.cycle
    BY <1>0, RowsByPlace
  <2>2. Len(happened) \in Nat
    BY <1>0, KeptAre
  <2> HIDE DEF p
  <2> QED BY <1>1, <1>2, <2>1, <2>2
<1>4. Gain(w)[r] = r.bytes - p.bytes
  BY <1>1 DEF Gain
<1>5. r.bytes # Null /\ p.bytes # Null /\ r.pathIf = p.pathIf
  BY DEF Usable
<1> HIDE DEF p
<1>6. r.pathIf = path /\ r.bytes = Began(path) + 2 * Cardinality(OnPath(path, b))
  BY <1>0, <1>3, <1>5 DEF BytesTell
<1>7. p.bytes = Began(path) + 2 * Cardinality(OnPath(path, a))
  BY <1>0, <1>3, <1>5, <1>6 DEF BytesTell
<1>8. path \in {Home, Away} /\ Began(path) \in Nat
  BY DEF PathOf, Began
<1>9. Crossing(w, r) = {k \in a + 1..b : PathOf(happened[k]) = path}
  BY DEF Crossing, p
<1> DEFINE C == {k \in a + 1..b : PathOf(happened[k]) = path}
<1>10. IsFiniteSet(C)
  <2>1. IsFiniteSet(a + 1..b)
    <3>1. a + 1 \in Int /\ b \in Int
      BY <1>3
    <3> QED BY <3>1, FS_Interval
  <2> QED BY <2>1, FS_Subset
<1>11. IsFiniteSet(OnPath(path, a)) /\ Cardinality(OnPath(path, a)) \in Nat
  BY <1>0, <1>3, PathGrows
<1>12. OnPath(path, b) = OnPath(path, a) \cup C /\ OnPath(path, a) \cap C = {}
  <2>1. 1..b = 1..a \cup (a + 1..b) /\ (1..a) \cap (a + 1..b) = {}
    BY <1>2, <1>3
  <2> HIDE DEF a, b, path
  <2> QED BY <2>1 DEF OnPath
<1>13. Cardinality(C) \in Nat
  BY <1>10, FS_CardinalityType
<1> HIDE DEF C
<1>14. Cardinality(OnPath(path, b)) = Cardinality(OnPath(path, a)) + Cardinality(C)
  <2> DEFINE A == OnPath(path, a) B == OnPath(path, b)
  <2>1. IsFiniteSet(A) /\ IsFiniteSet(C) /\ B = A \cup C /\ A \cap C = {}
    BY <1>10, <1>11, <1>12
  <2>2. Cardinality(A) \in Nat /\ Cardinality(C) \in Nat
    BY <1>11, <1>13
  <2> HIDE DEF A, B
  <2>3. Cardinality(A \cup C) = Cardinality(A) + Cardinality(C) - Cardinality(A \cap C)
    BY <2>1, FS_Union
  <2>4. Cardinality(A \cap C) = 0
    BY <2>1, FS_EmptySet
  <2>5. Cardinality(B) = Cardinality(A) + Cardinality(C)
    BY <2>1, <2>2, <2>3, <2>4
  <2> QED BY <2>5 DEF A, B
<1> DEFINE x == Cardinality(OnPath(path, a)) y == Cardinality(OnPath(path, b)) z == Cardinality(C) s == Began(path)
<1>15. x \in Nat /\ z \in Nat /\ y = x + z /\ s \in Nat
  BY <1>8, <1>11, <1>13, <1>14
<1>16. r.bytes - p.bytes = 2 * z
  <2>1. r.bytes = s + 2 * y /\ p.bytes = s + 2 * x
    BY <1>6, <1>7
  <2> HIDE DEF x, y, z, s
  <2> QED BY <1>15, <2>1
<1> QED BY <1>4, <1>9, <1>10, <1>13, <1>16 DEF C

\* What the intervals in use bring together: each cycle between them once.
LEMMA EndsBring ==
  ASSUME PageInv, Unbroken, NEW w, w.from \in Int, w.to \in Int, \A r \in EndsIn(w) : Usable(PriorTo(w, r), r)
  PROVE  LET crossing == UNION {Crossing(w, r) : r \in EndsIn(w)}
         IN /\ IsFiniteSet(EndsIn(w)) /\ IntsOn(Gain(w), EndsIn(w))
            /\ SumOf(Gain(w), EndsIn(w)) = 2 * Cardinality(crossing)
            /\ IsFiniteSet(crossing)
<1> DEFINE E == EndsIn(w)
           P == [r \in E |-> Crossing(w, r)]
           G == [r \in E |-> Cardinality(Crossing(w, r))]
<1>0. BooksInv /\ WorldInv
  BY DEF PageInv, ScreenInv, BooksInv
<1>1. E \subseteq RowsIn(w) /\ \A r \in E : PriorTo(w, r) # Null
  BY DEF EndsIn
<1>2. IsFiniteSet(E)
  <2>1. IsFiniteSet(RowsIn(w))
    BY <1>0, RowsByPlace
  <2> QED BY <1>1, <2>1, FS_Subset
<1>3. \A r \in E : /\ IsFiniteSet(P[r]) /\ G[r] = Cardinality(P[r]) /\ G[r] \in Nat /\ P[r] = Crossing(w, r)
                   /\ Gain(w)[r] = 2 * G[r]
  <2> SUFFICES ASSUME NEW r \in E
               PROVE /\ IsFiniteSet(P[r]) /\ G[r] = Cardinality(P[r]) /\ G[r] \in Nat /\ P[r] = Crossing(w, r)
                     /\ Gain(w)[r] = 2 * G[r]
    OBVIOUS
  <2>1. /\ IsFiniteSet(Crossing(w, r)) /\ Cardinality(Crossing(w, r)) \in Nat
        /\ Gain(w)[r] = 2 * Cardinality(Crossing(w, r))
    BY EndBrings
  <2> QED BY <2>1
<1>4. PartedBy(P, E)
  <2> SUFFICES ASSUME NEW q \in E, NEW r \in E, q # r, NEW k \in P[q], k \in P[r] PROVE FALSE
    BY DEF PartedBy
  <2> DEFINE a == PlaceOf(PriorTo(w, q)) b == PlaceOf(q) c == PlaceOf(PriorTo(w, r)) d == PlaceOf(r)
  <2>1. k \in a + 1..b /\ k \in c + 1..d
    BY DEF Crossing
  <2>2. b \in Reach(w) /\ d \in Reach(w) /\ b \in Nat /\ d \in Nat /\ b # d
    BY <1>0, <1>1, RowsByPlace
  <2>3. a \in Nat /\ c \in Nat /\ (d < b => d <= a) /\ (b < d => b <= c)
    <3>1. PriorTo(w, q) \in RowsIn(w) /\ \A j \in Reach(w) : j < b => j <= a
      BY <1>0, <1>1, PriorIs
    <3>2. PriorTo(w, r) \in RowsIn(w) /\ \A j \in Reach(w) : j < d => j <= c
      BY <1>0, <1>1, PriorIs
    <3>3. a \in Nat /\ c \in Nat
      BY <1>0, <3>1, <3>2, RowsByPlace
    <3> HIDE DEF a, b, c, d
    <3> QED BY <2>2, <3>1, <3>2, <3>3
  <2> HIDE DEF a, b, c, d
  <2> QED BY <2>1, <2>2, <2>3
<1>5. WholeOf(P, E) = UNION {Crossing(w, r) : r \in E}
  BY DEF WholeOf
<1> HIDE DEF P, G, E
<1>6. IsFiniteSet(WholeOf(P, E)) /\ SumOf(G, E) = Cardinality(WholeOf(P, E))
  BY <1>2, <1>3, <1>4, SizeOfParts
<1>7. IntsOn(G, E) /\ IntsOn(Gain(w), E)
  BY <1>3 DEF IntsOn
<1>8. SumOf(Gain(w), E) = 2 * SumOf(G, E)
  BY <1>2, <1>3, <1>7, SumTimes
<1> QED BY <1>2, <1>5, <1>6, <1>7, <1>8 DEF E

\* The bytes of the slots of an axis, as a sum over it.
LEMMA PointsSum ==
  ASSUME NEW S, IsFiniteSet(S), NEW points, \A x \in S : points[x].bytes \in Int
  PROVE  MapThenSumSet(LAMBDA b : points[b].bytes, S) = SumOf([x \in S |-> points[x].bytes], S)
<1> DEFINE F == [x \in S |-> points[x].bytes]
           h == CHOOSE g : g = [s \in SUBSET S |-> IF s = {} THEN 0 ELSE points[Pick(s)].bytes + g[s \ {Pick(s)}]]
<1>1. MapThenSumSet(LAMBDA b : points[b].bytes, S) = h[S]
  BY DEF MapThenSumSet, MapThenFoldSet, Pick
<1>2. IntsOn(F, S) /\ \A x \in S : F[x] \in Int
  BY DEF IntsOn
<1>3. \A s \in SUBSET S : s # {} => Pick(s) \in S /\ F[Pick(s)] = points[Pick(s)].bytes
  BY DEF Pick
<1> HIDE DEF F
<1>4. \A g : Adds(F, S, g) <=> g = [s \in SUBSET S |-> IF s = {} THEN 0 ELSE points[Pick(s)].bytes + g[s \ {Pick(s)}]]
  BY <1>3 DEF Adds
<1>5. Adds(F, S, h)
  <2>1. PICK g : Adds(F, S, g)
    BY <1>2, AddsExists
  <2> QED BY <1>4, <2>1
<1> HIDE DEF h
<1>6. h[S] = SumOf(F, S)
  BY <1>2, <1>5, SumWhole
<1> QED BY <1>1, <1>6 DEF F

\* The intervals of a bucket, those of them in use, and its row.
EndsOf(w, width, b) == {r \in EndsIn(w) : BucketOf(r.ts, width) = b}
TakenOf(w, width, b) == {r \in EndsOf(w, width, b) : Usable(PriorTo(w, r), r)}
Carried(w, S) == MapThenSumSet(LAMBDA r : r.bytes - Before(RowsIn(w), r).bytes, S)
VolumeRow(w, width, b) ==
  [bucket |-> b, bytes |-> Carried(w, TakenOf(w, width, b)),
   span |-> MapThenSumSet(LAMBDA r : r.ts - Before(RowsIn(w), r).ts, TakenOf(w, width, b)),
   intervals |-> Cardinality(TakenOf(w, width, b)),
   skipped |-> Cardinality(EndsOf(w, width, b)) - Cardinality(TakenOf(w, width, b))]

\* The answer holds those rows.
LEMMA VolumeRows ==
  ASSUME NEW w, NEW width
  PROVE  BucketThroughput(tables, w.from, w.to, width)
           = {VolumeRow(w, width, b) : b \in {BucketOf(r.ts, width) : r \in EndsIn(w)}}
<1> DEFINE rows == RowsIn(w)
           In(b) == {r \in EndsIn(w) : BucketOf(r.ts, width) = b}
           Taken(b) == {r \in In(b) : Usable(Before(rows, r), r)}
           Row(b) == [bucket |-> b, bytes |-> MapThenSumSet(LAMBDA r : r.bytes - Before(rows, r).bytes, Taken(b)),
                      span |-> MapThenSumSet(LAMBDA r : r.ts - Before(rows, r).ts, Taken(b)),
                      intervals |-> Cardinality(Taken(b)),
                      skipped |-> Cardinality(In(b)) - Cardinality(Taken(b))]
<1>1. BucketThroughput(tables, w.from, w.to, width) = {Row(b) : b \in {BucketOf(r.ts, width) : r \in EndsIn(w)}}
  BY DEF BucketThroughput, EndsIn, RowsIn, PriorTo
<1>2. \A b : Row(b) = VolumeRow(w, width, b)
  BY DEF VolumeRow, EndsOf, TakenOf, PriorTo, Carried
<1> HIDE DEF Row
<1> QED BY <1>1, <1>2

\* What the intervals of a bucket carried, as a sum over them.
LEMMA CarriedIs ==
  ASSUME NEW w, NEW S \in SUBSET RowsIn(w), IsFiniteSet(S), IntsOn(Gain(w), S)
  PROVE  Carried(w, S) = SumOf(Gain(w), S)
<1> DEFINE rows == RowsIn(w)
           F == Gain(w)
           h == CHOOSE g : g = [s \in SUBSET S |-> IF s = {} THEN 0
                                  ELSE (Pick(s).bytes - Before(rows, Pick(s)).bytes) + g[s \ {Pick(s)}]]
<1>1. Carried(w, S) = h[S]
  BY DEF Carried, MapThenSumSet, MapThenFoldSet, Pick
<1>2. \A x \in S : F[x] \in Int
  BY DEF IntsOn
<1>3. \A s \in SUBSET S : s # {} => Pick(s) \in S /\ F[Pick(s)] = Pick(s).bytes - Before(rows, Pick(s)).bytes
  BY DEF Pick, Gain, PriorTo
<1> HIDE DEF F
<1>4. \A g : Adds(F, S, g) <=> g = [s \in SUBSET S |-> IF s = {} THEN 0
                                     ELSE (Pick(s).bytes - Before(rows, Pick(s)).bytes) + g[s \ {Pick(s)}]]
  BY <1>3 DEF Adds
<1>5. Adds(F, S, h)
  <2>1. PICK g : Adds(F, S, g)
    BY <1>2, AddsExists
  <2> QED BY <1>4, <2>1
<1> HIDE DEF h
<1>6. h[S] = SumOf(F, S)
  <2>1. IntsOn(F, S)
    BY DEF F
  <2> QED BY <1>5, <2>1, SumWhole
<1> QED BY <1>1, <1>6 DEF F

\* An interval in use has gained a number.
LEMMA GainsAre ==
  ASSUME BooksInv, NEW w, w.from \in Int, w.to \in Int
  PROVE  /\ IsFiniteSet(EndsIn(w)) /\ EndsIn(w) \subseteq RowsIn(w)
         /\ \A r \in EndsIn(w) : r.ts \in Int /\ w.from <= r.ts /\ r.ts <= w.to
         /\ \A r \in EndsIn(w) : Usable(PriorTo(w, r), r) => Gain(w)[r] \in Int
<1>0. WorldInv /\ BytesCounted
  BY DEF BooksInv
<1>1. EndsIn(w) \subseteq RowsIn(w) /\ IsFiniteSet(EndsIn(w))
  <2>1. IsFiniteSet(RowsIn(w)) /\ EndsIn(w) \subseteq RowsIn(w)
    BY <1>0, RowsByPlace DEF EndsIn
  <2> QED BY <2>1, FS_Subset
<1>2. \A r \in EndsIn(w) : r.ts \in Int /\ w.from <= r.ts /\ r.ts <= w.to
  <2>1. \A r \in RowsIn(w) : r.ts \in Int
    BY <1>0, RowsByPlace
  <2> QED BY <2>1 DEF EndsIn, RowsIn, Within
<1>3. ASSUME NEW r \in EndsIn(w), Usable(PriorTo(w, r), r) PROVE Gain(w)[r] \in Int
  <2> DEFINE p == PriorTo(w, r)
  <2>1. r \in RowsIn(w) /\ p # Null /\ p.bytes # Null /\ r.bytes # Null
    BY <1>3 DEF EndsIn, Usable
  <2>2. Gain(w)[r] = r.bytes - p.bytes
    BY <2>1 DEF Gain
  <2>3. p \in RowsIn(w)
    BY <2>1, PriorIs
  <2> HIDE DEF p
  <2>4. p \in tables.cycle /\ r \in tables.cycle
    BY <2>1, <2>3 DEF RowsIn, Within
  <2>5. p.bytes \in Nat /\ r.bytes \in Nat
    BY <1>0, <2>1, <2>4 DEF BytesCounted
  <2> QED BY <2>2, <2>5
<1> QED BY <1>1, <1>2, <1>3

\* A volume without its caveat has every interval of the window in it.
LEMMA VolumeIs ==
  ASSUME BooksInv, NEW width \in Widths, NEW w \in Screens(width),
         ~VolumeCaveat(ThroughputTotals(ThroughputPoints(BucketThroughput(tables, w.from, w.to, width), w, width)))
  PROVE  /\ EndsIn(w) # {} /\ \A r \in EndsIn(w) : Usable(PriorTo(w, r), r)
         /\ ThroughputTotals(ThroughputPoints(BucketThroughput(tables, w.from, w.to, width), w, width)).bytes
              = SumOf(Gain(w), EndsIn(w))
<1> DEFINE rows == BucketThroughput(tables, w.from, w.to, width)
           S == SlotStarts(w, width)
           slots == DensifyBuckets(rows, w, width)
           points == ThroughputPoints(rows, w, width)
           U == {b \in DOMAIN points : ~points[b].measured}
           K == {b \in DOMAIN points : points[b].skipped > 0}
           E == EndsIn(w)
           Q == [b \in S |-> points[b].bytes]
           P == [b \in S |-> EndsOf(w, width, b)]
           F == Gain(w)
<1>0. WorldInv /\ width \in Nat \ {0} /\ w.from \in Int /\ w.to \in Int /\ w.from <= w.to
  <2>1. WorldInv
    BY DEF BooksInv
  <2>2. w.from \in Int /\ w.to \in Int /\ width \in Nat \ {0}
    BY <2>1, ScreensAre
  <2>3. w.to - w.from \in Nat
    BY <2>1, ScreenSpan
  <2> QED BY <2>1, <2>2, <2>3
<1>1. IsFiniteSet(S)
  <2>1. w.to - w.from <= 1440 * width
    BY <1>0, ScreenSpan
  <2> QED BY <1>0, <2>1, FewSlots
<1>2. DOMAIN points = S /\ DOMAIN slots = S
  BY DEF ThroughputPoints, DensifyBuckets
<1>3. U = {} /\ K = {}
  <2>1. ~(Cardinality(U) > 0) /\ ~(Cardinality(K) > 0)
    BY DEF VolumeCaveat, ThroughputTotals
  <2>2. U \subseteq S /\ K \subseteq S
    BY <1>2
  <2> HIDE DEF U, K, S
  <2>3. IsFiniteSet(U) /\ IsFiniteSet(K)
    BY <1>1, <2>2, FS_Subset
  <2>4. Cardinality(U) \in Nat /\ Cardinality(K) \in Nat
    BY <2>3, FS_CardinalityType
  <2>5. Cardinality(U) = 0 /\ Cardinality(K) = 0
    BY <2>1, <2>4
  <2> QED BY <2>3, <2>5, FS_EmptySet
<1>4. ASSUME NEW b \in S
      PROVE  /\ slots[b] = VolumeRow(w, width, b) /\ EndsOf(w, width, b) # {}
             /\ points[b].bytes = slots[b].bytes /\ points[b].skipped = slots[b].skipped
  <2>1. points[b] = IF slots[b] = Null THEN [measured |-> FALSE, bytes |-> 0, skipped |-> 0]
                    ELSE [measured |-> slots[b].span > 0, bytes |-> slots[b].bytes, skipped |-> slots[b].skipped]
    BY <1>2 DEF ThroughputPoints
  <2>2. points[b].measured
    BY <1>2, <1>3
  <2>3. slots[b] # Null
    <3> HIDE DEF points, slots
    <3> QED BY <2>1, <2>2
  <2>4. slots[b] = IF \E r \in rows : r.bucket = b THEN CHOOSE r \in rows : r.bucket = b ELSE Null
    BY DEF DensifyBuckets
  <2>5. slots[b] \in rows /\ slots[b].bucket = b
    BY <2>3, <2>4
  <2>6. rows = {VolumeRow(w, width, c) : c \in {BucketOf(r.ts, width) : r \in E}}
    BY VolumeRows
  <2>7. PICK r \in E : slots[b] = VolumeRow(w, width, BucketOf(r.ts, width))
    <3> HIDE DEF slots, rows, E
    <3> QED BY <2>5, <2>6
  <2>8. \A c : VolumeRow(w, width, c).bucket = c
    BY DEF VolumeRow
  <2>9. BucketOf(r.ts, width) = b
    BY <2>5, <2>7, <2>8
  <2> HIDE DEF points, slots
  <2>10. r \in EndsOf(w, width, b)
    BY <2>9 DEF EndsOf
  <2> QED BY <2>1, <2>3, <2>7, <2>9, <2>10
<1>5. /\ IsFiniteSet(E) /\ E \subseteq RowsIn(w)
      /\ \A r \in E : r.ts \in Int /\ w.from <= r.ts /\ r.ts <= w.to
      /\ \A r \in E : Usable(PriorTo(w, r), r) => F[r] \in Int
  BY <1>0, GainsAre
<1>6. ASSUME NEW r \in E PROVE BucketOf(r.ts, width) \in S
  <2>1. r.ts \in Int /\ w.from <= r.ts /\ r.ts <= w.to
    BY <1>5
  <2>2. BucketOf(w.from, width) <= BucketOf(r.ts, width)
    BY <1>0, <2>1, BucketsInOrder
  <2>3. BucketOf(r.ts, width) \in Int /\ BucketOf(r.ts, width) <= r.ts /\ BucketOf(r.ts, width) % width = 0
    BY <1>0, <2>1, InBucket
  <2>4. BucketOf(w.from, width) \in Int
    BY <1>0, InBucket
  <2> QED BY <1>0, <2>1, <2>2, <2>3, <2>4 DEF SlotStarts
<1>7. ASSUME NEW b \in S
      PROVE  /\ IsFiniteSet(EndsOf(w, width, b)) /\ TakenOf(w, width, b) = EndsOf(w, width, b)
             /\ \A r \in EndsOf(w, width, b) : Usable(PriorTo(w, r), r)
  <2> DEFINE A == EndsOf(w, width, b) B == TakenOf(w, width, b)
  <2>1. IsFiniteSet(A) /\ B \subseteq A
    <3>1. A \subseteq E /\ B \subseteq A
      BY DEF EndsOf, TakenOf
    <3> QED BY <1>5, <3>1, FS_Subset
  <2>2. slots[b].skipped = Cardinality(A) - Cardinality(B)
    <3>1. VolumeRow(w, width, b).skipped = Cardinality(A) - Cardinality(B)
      BY DEF VolumeRow
    <3> HIDE DEF slots, A, B
    <3> QED BY <1>4, <3>1
  <2>3. ~(points[b].skipped > 0)
    BY <1>2, <1>3
  <2>4. ~(Cardinality(A) - Cardinality(B) > 0)
    <3> HIDE DEF points, slots, A, B
    <3> QED BY <1>4, <2>2, <2>3
  <2> HIDE DEF A, B
  <2>5. IsFiniteSet(B) /\ Cardinality(B) <= Cardinality(A) /\ (Cardinality(A) = Cardinality(B) => A = B)
    BY <2>1, FS_Subset
  <2>6. Cardinality(A) \in Nat /\ Cardinality(B) \in Nat
    BY <2>1, <2>5, FS_CardinalityType
  <2>7. A = B
    BY <2>4, <2>5, <2>6
  <2> QED BY <2>1, <2>7 DEF A, B, TakenOf
<1>8. \A r \in E : Usable(PriorTo(w, r), r)
  <2> SUFFICES ASSUME NEW r \in E PROVE Usable(PriorTo(w, r), r)
    OBVIOUS
  <2> DEFINE b == BucketOf(r.ts, width)
  <2>1. b \in S /\ r \in EndsOf(w, width, b)
    BY <1>6 DEF EndsOf
  <2> HIDE DEF b
  <2> QED BY <1>7, <2>1
<1>9. IntsOn(F, E)
  BY <1>5, <1>8 DEF IntsOn
<1>10. ASSUME NEW b \in S
       PROVE  /\ IsFiniteSet(P[b]) /\ IntsOn(F, P[b]) /\ Q[b] = SumOf(F, P[b]) /\ P[b] = EndsOf(w, width, b)
              /\ Q[b] = points[b].bytes
  <2> DEFINE A == EndsOf(w, width, b)
  <2>1. IsFiniteSet(A) /\ A = TakenOf(w, width, b)
    BY <1>7
  <2>2. A \subseteq E /\ A \in SUBSET RowsIn(w)
    BY <1>5 DEF EndsOf
  <2>3. IntsOn(F, A)
    BY <1>9, <2>2 DEF IntsOn
  <2>4. slots[b].bytes = Carried(w, A)
    <3>1. VolumeRow(w, width, b).bytes = Carried(w, TakenOf(w, width, b))
      BY DEF VolumeRow
    <3> HIDE DEF slots, A
    <3> QED BY <1>4, <2>1, <3>1
  <2>5. Carried(w, A) = SumOf(F, A)
    <3> HIDE DEF A
    <3> QED BY <2>1, <2>2, <2>3, CarriedIs
  <2>6. Q[b] = points[b].bytes /\ P[b] = A
    OBVIOUS
  <2> HIDE DEF Q, P, points, slots, F, A
  <2> QED BY <1>4, <2>1, <2>3, <2>4, <2>5, <2>6 DEF A
<1>11. PartedBy(P, S) /\ WholeOf(P, S) = E
  <2>1. \A b \in S : P[b] = EndsOf(w, width, b)
    OBVIOUS
  <2>2. \A b \in S : \A r \in EndsOf(w, width, b) : r \in E /\ BucketOf(r.ts, width) = b
    BY DEF EndsOf
  <2>3. \A r \in E : r \in EndsOf(w, width, BucketOf(r.ts, width))
    BY DEF EndsOf
  <2> HIDE DEF P, S, E
  <2> QED BY <1>6, <2>1, <2>2, <2>3 DEF PartedBy, WholeOf
<1>12. SumOf(Q, S) = SumOf(F, E)
  <2> HIDE DEF Q, P, S, E, F, points
  <2>1. SumOf(Q, S) = SumOf(F, WholeOf(P, S))
    BY <1>1, <1>10, <1>11, SumParts
  <2> QED BY <1>11, <2>1
<1>13. ThroughputTotals(points).bytes = SumOf(Q, S)
  <2>1. ThroughputTotals(points).bytes = MapThenSumSet(LAMBDA b : points[b].bytes, DOMAIN points)
    BY DEF ThroughputTotals
  <2>2. \A b \in S : points[b].bytes \in Int
    <3> SUFFICES ASSUME NEW b \in S PROVE points[b].bytes \in Int
      OBVIOUS
    <3>1. points[b].bytes = SumOf(F, P[b])
      <4> HIDE DEF points, F, P, Q
      <4> QED BY <1>10
    <3>2. SumOf(F, P[b]) \in Int
      <4> HIDE DEF F, P, Q, points
      <4> QED BY <1>10, SumInt
    <3> QED BY <3>1, <3>2
  <2>3. MapThenSumSet(LAMBDA b : points[b].bytes, S) = SumOf(Q, S)
    <3> HIDE DEF points, S
    <3> QED BY <1>1, <2>2, PointsSum
  <2> HIDE DEF points, Q, S
  <2> QED BY <1>2, <2>1, <2>3
<1>14. E # {}
  <2> DEFINE b == BucketOf(w.to, width)
  <2>1. b \in S
    <3>1. BucketOf(w.from, width) <= b
      BY <1>0, BucketsInOrder
    <3>2. b \in Int /\ b <= w.to /\ b % width = 0
      BY <1>0, InBucket
    <3>3. BucketOf(w.from, width) \in Int
      BY <1>0, InBucket
    <3> QED BY <1>0, <3>1, <3>2, <3>3 DEF SlotStarts
  <2> HIDE DEF b
  <2> QED BY <1>4, <2>1 DEF EndsOf
<1> HIDE DEF points, Q, F
<1> QED BY <1>8, <1>12, <1>13, <1>14 DEF points, F

\* The cycle next recorded, at the cycle or after it.
LEMMA NextIs ==
  ASSUME WorldInv, NEW k \in 1..Len(happened), NEW j \in Kept, k <= j, \A l \in Kept : k <= l => j <= l
  PROVE  NextTaken(happened[k]) = happened[j]
<1> DEFINE S == Recorded(happened[k].ts)
<1>1. /\ k \in Nat /\ j \in Nat /\ \A i \in Kept : i \in Nat /\ happened[i].ts = CycleTs(i) /\ CycleTs(i) \in Nat
      /\ happened[k].ts = CycleTs(k) /\ CycleTs(k) \in Int
  <2>1. k \in Nat /\ \A i \in Kept : i \in Nat /\ i \in 1..Len(happened)
    BY KeptAre
  <2>2. \A i \in 1..Len(happened) : happened[i].ts = CycleTs(i)
    BY KeptAre
  <2>3. \A i \in Nat : CycleTs(i) \in Nat /\ CycleTs(i) \in Int
    BY Stamp
  <2> QED BY <2>1, <2>2, <2>3
<1>2. \A a, b \in Nat : CycleTs(a) <= CycleTs(b) <=> a <= b
  <2> TAKE a \in Nat, b \in Nat
  <2>1. CycleTs(a) \in Nat /\ CycleTs(b) \in Nat
    BY Stamp
  <2>2. a < b => CycleTs(a) < CycleTs(b)
    BY Stamp
  <2>3. b < a => CycleTs(b) < CycleTs(a)
    BY Stamp
  <2> QED BY <2>1, <2>2, <2>3
<1>3. S = CyclesAt({i \in Kept : k <= i})
  <2>1. S = CyclesAt({i \in Kept : CycleTs(k) <= CycleTs(i)})
    BY <1>1, PlacesAre
  <2>2. {i \in Kept : CycleTs(k) <= CycleTs(i)} = {i \in Kept : k <= i}
    BY <1>1, <1>2
  <2> QED BY <2>1, <2>2
<1>4. happened[j] \in S /\ \A v \in S : happened[j].ts <= v.ts
  <2>1. \A i \in Kept : k <= i => CycleTs(j) <= CycleTs(i)
    BY <1>1, <1>2
  <2> QED BY <1>1, <1>3, <2>1 DEF CyclesAt
<1>5. \A u \in S : (\A v \in S : u.ts <= v.ts) => u = happened[j]
  <2> SUFFICES ASSUME NEW u \in S, \A v \in S : u.ts <= v.ts PROVE u = happened[j]
    OBVIOUS
  <2>1. PICK i \in Kept : u = happened[i] /\ k <= i
    BY <1>3 DEF CyclesAt
  <2>2. u.ts = CycleTs(i) /\ u.ts <= happened[j].ts /\ happened[j].ts <= u.ts
    BY <1>1, <1>4, <2>1
  <2>3. i = j
    BY <1>1, <1>2, <2>1, <2>2
  <2> QED BY <2>1, <2>3
<1> HIDE DEF S
<1>6. (CHOOSE u \in S : \A v \in S : u.ts <= v.ts) = happened[j]
  BY <1>4, <1>5
<1> QED BY <1>6 DEF NextTaken, S

\* The times of the rows are those of the recorded cycles.
LEMMA CycleStamps ==
  ASSUME WorldInv, NEW from \in Int, NEW to \in Int
  PROVE  Stamps(Within(tables.cycle, from, to)) = {CycleTs(i) : i \in KeptIn(from, to)}
<1>1. \A r \in tables.cycle : \E i \in Kept : r.ts = CycleTs(i)
  BY RowsOfCycles DEF RowOf
<1>2. \A i \in Kept : \E r \in tables.cycle : r.ts = CycleTs(i)
  BY RowsOfCycles DEF RowOf
<1> QED BY <1>1, <1>2 DEF Stamps, Within, KeptIn

\* The first and the last of the recorded cycles of a window.
LEMMA FirstLast ==
  ASSUME WorldInv, NEW S, S \subseteq Kept, S # {}
  PROVE  \E lo, hi \in S : /\ \A i \in S : lo <= i /\ i <= hi
                           /\ Min({CycleTs(i) : i \in S}) = CycleTs(lo) /\ Max({CycleTs(i) : i \in S}) = CycleTs(hi)
<1> DEFINE n == Len(happened)
           back == {n - i : i \in S}
           T == {CycleTs(i) : i \in S}
<1>1. n \in Nat /\ S \in SUBSET Nat /\ \A i \in S : i \in Nat /\ i <= n
  BY KeptAre
<1>2. PICK lo \in S : \A i \in S : lo <= i
  BY <1>1, LeastOf
<1>3. PICK hi \in S : \A i \in S : i <= hi
  <2>1. back \in SUBSET Nat /\ back # {}
    BY <1>1
  <2> HIDE DEF back
  <2>2. PICK x \in back : \A y \in back : x <= y
    BY <2>1, LeastOf
  <2>3. PICK hi \in S : \A i \in S : n - hi <= n - i
    BY <2>2 DEF back
  <2>4. \A i \in S : i <= hi
    BY <1>1, <2>3
  <2> QED BY <2>4
<1>4. T \in SUBSET Nat /\ T # {} /\ \A i \in S : CycleTs(lo) <= CycleTs(i) /\ CycleTs(i) <= CycleTs(hi)
  <2>1. \A a, b \in Nat : a <= b => CycleTs(a) \in Nat /\ CycleTs(b) \in Nat /\ CycleTs(a) <= CycleTs(b)
    <3> TAKE a \in Nat, b \in Nat
    <3>1. CycleTs(a) \in Nat /\ CycleTs(b) \in Nat
      BY Stamp
    <3>2. a < b => CycleTs(a) < CycleTs(b)
      BY Stamp
    <3> QED BY <3>1, <3>2
  <2> QED BY <1>1, <1>2, <1>3, <2>1
<1>5. CycleTs(lo) \in T /\ CycleTs(hi) \in T /\ \A x \in T : CycleTs(lo) <= x /\ x <= CycleTs(hi)
  BY <1>4
<1> HIDE DEF T
<1>6. Min(T) \in T /\ (\A x \in T : Min(T) <= x) /\ Max(T) \in T /\ \A x \in T : x <= Max(T)
  <2>1. CycleTs(hi) \in Nat
    BY <1>4, <1>5
  <2> QED BY <1>4, <1>5, <2>1, MinOf, MaxOf
<1>7. Min(T) = CycleTs(lo) /\ Max(T) = CycleTs(hi)
  <2>1. Min(T) \in Nat /\ Max(T) \in Nat /\ CycleTs(lo) \in Nat /\ CycleTs(hi) \in Nat
    BY <1>4, <1>5, <1>6
  <2>2. Min(T) <= CycleTs(lo) /\ CycleTs(lo) <= Min(T)
    BY <1>5, <1>6
  <2>3. Max(T) <= CycleTs(hi) /\ CycleTs(hi) <= Max(T)
    BY <1>5, <1>6
  <2> QED BY <2>1, <2>2, <2>3
<1> QED BY <1>2, <1>3, <1>7 DEF T

\* Where a volume begins: at the last row before those of the window, or at the first of them.
BeginsAt(w, lo, e) ==
  /\ e \in Reach(w) /\ e <= lo /\ \A k \in Reach(w) : k < lo => k <= e
  /\ e = lo => \A k \in Reach(w) : lo <= k

\* The cycles that crossed in the intervals of a window are those after its begin, up to its
\* last row, that are on the path of the next one.
LEMMA CrossedAre ==
  ASSUME BooksInv, NEW w, w.from \in Int, w.to \in Int,
         NEW lo \in KeptIn(w.from, w.to), NEW hi \in KeptIn(w.from, w.to),
         \A i \in KeptIn(w.from, w.to) : lo <= i /\ i <= hi, NEW e, BeginsAt(w, lo, e)
  PROVE  UNION {Crossing(w, r) : r \in EndsIn(w)}
           = {k \in 1..Len(happened) : e < k /\ k <= hi /\ PathOf(happened[k]) = PathOf(NextTaken(happened[k]))}
<1> DEFINE n == Len(happened)
           K == KeptIn(w.from, w.to)
           start == w.from - MaxIntervalS
           crossing == UNION {Crossing(w, r) : r \in EndsIn(w)}
<1>0. WorldInv
  BY DEF BooksInv
<1>1. /\ n \in Nat /\ Kept \subseteq 1..n /\ \A i \in Kept : i \in Nat /\ CycleTs(i) \in Nat
      /\ start \in Int /\ start <= w.from
  <2>1. \A i \in Kept : i \in Nat /\ CycleTs(i) \in Nat
    BY <1>0, KeptAre, Stamp
  <2>2. start \in Int /\ start <= w.from
    BY DEF MaxIntervalS
  <2> QED BY <1>0, <2>1, <2>2, KeptAre
<1>2. \A a, b \in Nat : /\ CycleTs(a) \in Nat /\ (a <= b => CycleTs(a) <= CycleTs(b)) /\ (a < b => CycleTs(a) < CycleTs(b))
  <2> TAKE a \in Nat, b \in Nat
  <2>1. CycleTs(a) \in Nat /\ CycleTs(b) \in Nat
    BY Stamp
  <2>2. a < b => CycleTs(a) < CycleTs(b)
    BY Stamp
  <2> QED BY <2>1, <2>2
<1>3. /\ \A i : i \in K <=> i \in Kept /\ w.from <= CycleTs(i) /\ CycleTs(i) <= w.to
      /\ \A i : i \in Reach(w) <=> i \in Kept /\ start <= CycleTs(i) /\ CycleTs(i) <= w.to
  BY DEF KeptIn, Reach
<1>4. /\ lo \in K /\ hi \in K /\ e \in Reach(w) /\ lo \in Nat /\ hi \in Nat /\ e \in Nat /\ e <= lo
      /\ \A k \in Reach(w) : k < lo => k <= e
      /\ e = lo => \A k \in Reach(w) : lo <= k
  BY <1>1, <1>3 DEF BeginsAt
<1> HIDE DEF n, K, start
<1>5. ASSUME NEW r \in EndsIn(w), NEW k \in Crossing(w, r)
      PROVE  k \in 1..n /\ e < k /\ k <= hi /\ PathOf(happened[k]) = PathOf(NextTaken(happened[k]))
  <2> DEFINE p == PriorTo(w, r) i == PlaceOf(p) j == PlaceOf(r)
  <2>1. r \in RowsIn(w) /\ p # Null /\ w.from <= r.ts
    BY DEF EndsIn
  <2>2. p \in RowsIn(w) /\ i \in Reach(w) /\ i < j /\ \A l \in Reach(w) : l < j => l <= i
    BY <2>1, PriorIs
  <2>3. j \in Reach(w) /\ j \in 1..n /\ r.ts = CycleTs(j)
    BY <1>0, <2>1, RowsByPlace DEF n
  <2>4. k \in i + 1..j /\ PathOf(happened[k]) = PathOf(happened[j])
    BY DEF Crossing
  <2> HIDE DEF i, j, p
  <2>5. i \in Nat /\ j \in Nat /\ i \in Kept /\ j \in K
    BY <1>1, <1>3, <2>1, <2>2, <2>3
  <2>6. k \in Nat /\ i < k /\ k <= j /\ k \in 1..n
    BY <1>1, <2>3, <2>4, <2>5
  <2>7. lo <= j /\ j <= hi
    BY <2>5 DEF K
  <2>8. e <= i
    <3>1. CASE e = lo
      BY <1>4, <2>2, <3>1
    <3>2. CASE e < lo
      <4>1. e < j
        BY <1>4, <2>5, <2>7, <3>2
      <4> QED BY <1>4, <2>2, <4>1
    <3> QED BY <1>4, <3>1, <3>2
  <2>9. ASSUME NEW l \in Kept, k <= l PROVE j <= l
    <3> SUFFICES ASSUME l < j PROVE FALSE
      BY <1>1, <2>5
    <3>1. l \in Nat /\ CycleTs(i) <= CycleTs(l) /\ CycleTs(l) <= CycleTs(j)
      BY <1>1, <1>2, <2>5, <2>6, <2>9
    <3>2. start <= CycleTs(i) /\ CycleTs(j) <= w.to
      BY <1>3, <2>2, <2>3
    <3>3. CycleTs(i) \in Nat /\ CycleTs(j) \in Nat /\ CycleTs(l) \in Nat
      BY <1>2, <2>5, <3>1
    <3>4. l \in Reach(w)
      BY <1>1, <1>3, <3>1, <3>2, <3>3
    <3>5. l <= i
      BY <2>2, <3>4
    <3> QED BY <2>5, <2>6, <2>9, <3>1, <3>5
  <2>10. NextTaken(happened[k]) = happened[j]
    <3>1. j \in Kept
      BY <1>3, <2>5
    <3> QED BY <1>0, <2>6, <2>9, <3>1, NextIs DEF n
  <2>11. e < k /\ k <= hi
    BY <1>4, <2>5, <2>6, <2>7, <2>8
  <2> QED BY <2>4, <2>6, <2>10, <2>11
<1>6. ASSUME NEW k \in 1..n, e < k, k <= hi, PathOf(happened[k]) = PathOf(NextTaken(happened[k]))
      PROVE  \E r \in EndsIn(w) : k \in Crossing(w, r)
  <2> DEFINE after == {l \in Kept : k <= l}
  <2>1. after \in SUBSET Nat /\ after # {} /\ k \in Nat
    <3>1. k \in Nat
      BY <1>1
    <3>2. hi \in Kept
      BY <1>3, <1>4
    <3>3. after # {}
      BY <1>6, <3>2
    <3> QED BY <1>1, <3>1, <3>3
  <2>2. PICK j \in after : \A l \in after : j <= l
    <3> HIDE DEF after
    <3> QED BY <2>1, LeastOf
  <2>3. j \in Kept /\ j \in Nat /\ k <= j /\ j <= hi /\ \A l \in Kept : k <= l => j <= l
    BY <1>1, <1>3, <1>4, <1>6, <2>2
  <2>4. CycleTs(j) \in Nat /\ CycleTs(e) \in Nat /\ CycleTs(hi) \in Nat /\ CycleTs(e) <= CycleTs(j) /\ CycleTs(j) <= CycleTs(hi)
    BY <1>2, <1>4, <1>6, <2>1, <2>3
  <2>5. start <= CycleTs(e) /\ CycleTs(hi) <= w.to
    BY <1>3, <1>4
  <2>6. j \in Reach(w)
    BY <1>1, <1>3, <2>3, <2>4, <2>5
  <2>7. w.from <= CycleTs(j)
    <3> SUFFICES ASSUME CycleTs(j) < w.from PROVE FALSE
      BY <2>4
    <3>1. w.from <= CycleTs(lo) /\ CycleTs(lo) \in Nat
      BY <1>2, <1>3, <1>4
    <3>2. ~(lo <= j)
      BY <1>2, <1>4, <2>3, <2>4, <3>1
    <3>3. j <= e
      BY <1>4, <2>3, <2>6, <3>2
    <3> QED BY <1>4, <1>6, <2>1, <2>3, <3>3
  <2>8. PICK r \in RowsIn(w) : PlaceOf(r) = j
    BY <1>0, <2>6, RowsByPlace
  <2> DEFINE p == PriorTo(w, r) i == PlaceOf(p)
  <2>9. p # Null
    <3>1. e \in Reach(w) /\ e < PlaceOf(r)
      BY <1>4, <1>6, <2>1, <2>3, <2>8
    <3> QED BY <3>1, PriorIs
  <2>10. i \in Reach(w) /\ i < PlaceOf(r)
    BY <2>9, PriorIs
  <2>11. r \in EndsIn(w)
    <3>1. r.ts = CycleTs(j)
      BY <1>0, <2>8, RowsByPlace
    <3> QED BY <2>7, <2>8, <2>9, <3>1 DEF EndsIn
  <2> HIDE DEF p, i
  <2>12. i \in Nat /\ i < k
    <3>1. i \in Kept /\ i \in Nat /\ i < j
      BY <1>1, <1>3, <2>8, <2>10
    <3>2. ~(k <= i)
      BY <2>3, <3>1
    <3> QED BY <2>1, <3>1, <3>2
  <2>13. NextTaken(happened[k]) = happened[j]
    BY <1>0, <2>3, NextIs DEF n
  <2>14. k \in i + 1..j
    BY <2>1, <2>3, <2>12
  <2>15. k \in Crossing(w, r)
    BY <1>6, <2>8, <2>13, <2>14 DEF Crossing, i, p
  <2> QED BY <2>11, <2>15
<1>7. crossing = {k \in 1..n : e < k /\ k <= hi /\ PathOf(happened[k]) = PathOf(NextTaken(happened[k]))}
  BY <1>5, <1>6
<1> QED BY <1>7 DEF n

\* A volume without its caveat is all that crossed.
LEMMA VolumeWholeHolds == ASSUME PageInv PROVE VolumeWhole
<1> SUFFICES ASSUME NEW width \in Widths, NEW w \in Screens(width)
             PROVE
               LET volume == ThroughputTotals(ThroughputPoints(BucketThroughput(tables, w.from, w.to, width), w, width))
                   inside == Stamps(Within(tables.cycle, w.from, w.to))
                   reach == Stamps(Within(tables.cycle, w.from - MaxIntervalS, w.to))
                   first == IF \E ts \in reach : ts < Min(inside) THEN Max({ts \in reach : ts < Min(inside)})
                            ELSE Min(inside)
                   crossed == {t \in InWindow(first + 1) : t.ts <= Max(inside) /\ PathOf(t) = PathOf(NextTaken(t))}
               IN (~VolumeCaveat(volume) /\ \A i \in DOMAIN happened : happened[i].odd # "reboot") =>
                    inside # {} /\ volume.bytes = 2 * Cardinality(crossed)
  BY DEF VolumeWhole
<1> DEFINE volume == ThroughputTotals(ThroughputPoints(BucketThroughput(tables, w.from, w.to, width), w, width))
           inside == Stamps(Within(tables.cycle, w.from, w.to))
           reach == Stamps(Within(tables.cycle, w.from - MaxIntervalS, w.to))
           first == IF \E ts \in reach : ts < Min(inside) THEN Max({ts \in reach : ts < Min(inside)})
                    ELSE Min(inside)
           crossed == {t \in InWindow(first + 1) : t.ts <= Max(inside) /\ PathOf(t) = PathOf(NextTaken(t))}
           K == KeptIn(w.from, w.to)
           L(lo) == {i \in Reach(w) : i < lo}
           C(e, hi) == {k \in 1..Len(happened) : e < k /\ k <= hi /\ PathOf(happened[k]) = PathOf(NextTaken(happened[k]))}
<1> SUFFICES ASSUME ~VolumeCaveat(volume), \A i \in DOMAIN happened : happened[i].odd # "reboot"
             PROVE  inside # {} /\ volume.bytes = 2 * Cardinality(crossed)
  OBVIOUS
<1>0. BooksInv /\ WorldInv
  BY DEF PageInv, ScreenInv, BooksInv
<1>1. w.from \in Int /\ w.to \in Int /\ w.from - MaxIntervalS \in Int
  <2>1. w.from \in Int /\ w.to \in Int
    BY <1>0, ScreensAre
  <2> QED BY <2>1 DEF MaxIntervalS
<1>2. Unbroken /\ Len(happened) \in Nat /\ DOMAIN happened = 1..Len(happened)
  <2>1. Len(happened) \in Nat /\ DOMAIN happened = 1..Len(happened)
    BY <1>0, LenProperties DEF WorldInv, Ordered
  <2> QED BY <2>1 DEF Unbroken
<1>3. /\ EndsIn(w) # {} /\ \A r \in EndsIn(w) : Usable(PriorTo(w, r), r)
      /\ volume.bytes = SumOf(Gain(w), EndsIn(w))
  BY <1>0, VolumeIs
<1>4. volume.bytes = 2 * Cardinality(UNION {Crossing(w, r) : r \in EndsIn(w)})
  <2>1. SumOf(Gain(w), EndsIn(w)) = 2 * Cardinality(UNION {Crossing(w, r) : r \in EndsIn(w)})
    BY <1>1, <1>2, <1>3, EndsBring
  <2> HIDE DEF volume
  <2> QED BY <1>3, <2>1
<1>5. /\ inside = {CycleTs(i) : i \in K} /\ reach = {CycleTs(i) : i \in Reach(w)}
  BY <1>0, <1>1, CycleStamps DEF Reach
<1>6. /\ K \subseteq Kept /\ Reach(w) \subseteq Kept /\ K \subseteq Reach(w)
      /\ \A i \in Reach(w) : i \in K <=> w.from <= CycleTs(i)
      /\ \A i \in Kept : i \in Nat /\ CycleTs(i) \in Nat /\ i \in 1..Len(happened)
  <2>1. \A i \in Kept : i \in Nat /\ i \in 1..Len(happened)
    BY <1>0, KeptAre
  <2>2. \A i \in Nat : CycleTs(i) \in Nat
    BY Stamp
  <2>3. \A i \in Kept : CycleTs(i) \in Nat
    BY <2>1, <2>2
  <2>4. w.from - MaxIntervalS <= w.from
    BY <1>1 DEF MaxIntervalS
  <2>5. \A x \in Nat : w.from <= x => w.from - MaxIntervalS <= x
    BY <1>1, <2>4
  <2> QED BY <2>1, <2>3, <2>5 DEF KeptIn, Reach
<1>7. K # {}
  <2>1. PICK r \in EndsIn(w) : TRUE
    BY <1>3
  <2>2. r \in RowsIn(w) /\ w.from <= r.ts
    BY DEF EndsIn
  <2>3. PlaceOf(r) \in Reach(w) /\ r.ts = CycleTs(PlaceOf(r))
    BY <1>0, <1>1, <2>2, RowsByPlace
  <2> HIDE DEF K
  <2> QED BY <1>6, <2>2, <2>3
<1>8. \A a, b \in Nat : CycleTs(a) \in Nat /\ (CycleTs(a) < CycleTs(b) <=> a < b) /\ (CycleTs(a) <= CycleTs(b) <=> a <= b)
  <2> TAKE a \in Nat, b \in Nat
  <2>1. CycleTs(a) \in Nat /\ CycleTs(b) \in Nat
    BY Stamp
  <2>2. a < b => CycleTs(a) < CycleTs(b)
    BY Stamp
  <2>3. b < a => CycleTs(b) < CycleTs(a)
    BY Stamp
  <2> QED BY <2>1, <2>2, <2>3
<1> HIDE DEF K
<1>9. PICK lo \in K, hi \in K : /\ \A i \in K : lo <= i /\ i <= hi
                                /\ Min({CycleTs(i) : i \in K}) = CycleTs(lo)
                                /\ Max({CycleTs(i) : i \in K}) = CycleTs(hi)
  BY <1>0, <1>6, <1>7, FirstLast
<1> HIDE DEF inside, reach
<1>10. Min(inside) = CycleTs(lo) /\ Max(inside) = CycleTs(hi) /\ lo \in Nat /\ hi \in Nat /\ lo \in Reach(w)
  BY <1>5, <1>6, <1>9
<1>11. {ts \in reach : ts < Min(inside)} = {CycleTs(i) : i \in L(lo)}
  <2>1. \A i \in Reach(w) : CycleTs(i) < CycleTs(lo) <=> i < lo
    BY <1>6, <1>8, <1>10
  <2> QED BY <1>5, <1>10, <2>1
<1>12. \E e \in Nat : BeginsAt(w, lo, e) /\ first = CycleTs(e)
  <2>1. CASE L(lo) = {}
    <3>1. ~\E ts \in reach : ts < Min(inside)
      BY <1>11, <2>1
    <3>2. first = CycleTs(lo)
      BY <1>10, <3>1
    <3>3. \A k \in Reach(w) : ~(k < lo)
      BY <2>1
    <3>4. \A k \in Reach(w) : lo <= k
      BY <1>6, <1>10, <3>3
    <3> HIDE DEF first
    <3>5. BeginsAt(w, lo, lo)
      BY <1>10, <3>3, <3>4 DEF BeginsAt
    <3> QED BY <1>10, <3>2, <3>5
  <2>2. CASE L(lo) # {}
    <3> DEFINE S == L(lo)
    <3>1. S \subseteq Kept /\ S \subseteq Reach(w)
      BY <1>6
    <3>2. \E a, e \in S : /\ \A i \in S : a <= i /\ i <= e
                          /\ Min({CycleTs(i) : i \in S}) = CycleTs(a)
                          /\ Max({CycleTs(i) : i \in S}) = CycleTs(e)
      <4> HIDE DEF S
      <4> QED BY <1>0, <2>2, <3>1, FirstLast DEF S
    <3>3. PICK e \in S : (\A i \in S : i <= e) /\ Max({CycleTs(i) : i \in S}) = CycleTs(e)
      <4> HIDE DEF S
      <4> QED BY <3>2
    <3>4. e \in Reach(w) /\ e < lo /\ e \in Nat
      BY <1>6, <3>1
    <3>5. \E ts \in reach : ts < Min(inside)
      BY <1>11, <2>2
    <3>6. first = CycleTs(e)
      BY <1>11, <3>3, <3>5
    <3>7. \A k \in Reach(w) : k < lo => k <= e
      BY <3>3
    <3> HIDE DEF first
    <3>8. BeginsAt(w, lo, e)
      <4>1. e <= lo /\ e # lo
        BY <1>10, <3>4
      <4> HIDE DEF S
      <4> QED BY <3>4, <3>7, <4>1 DEF BeginsAt
    <3> QED BY <3>4, <3>6, <3>8
  <2> QED BY <2>1, <2>2
<1>13. PICK e \in Nat : BeginsAt(w, lo, e) /\ first = CycleTs(e)
  BY <1>12
<1> HIDE DEF first
<1>14. UNION {Crossing(w, r) : r \in EndsIn(w)} = C(e, hi)
  BY <1>0, <1>1, <1>9, <1>13, CrossedAre DEF K
<1>15. crossed = CyclesAt(C(e, hi))
  <2> DEFINE J == {k \in 1..Len(happened) : first + 1 <= CycleTs(k)}
  <2>1. InWindow(first + 1) = CyclesAt(J)
    <3>1. first + 1 \in Int
      BY <1>8, <1>13
    <3>2. \A x \in Int : InWindow(x) = CyclesAt({k \in 1..Len(happened) : x <= CycleTs(k)})
      BY <1>0, PlacesAre
    <3> QED BY <3>1, <3>2
  <2>2. \A k \in 1..Len(happened) : /\ k \in Nat /\ happened[k].ts = CycleTs(k)
                                    /\ (first + 1 <= CycleTs(k) <=> e < k) /\ (CycleTs(k) <= Max(inside) <=> k <= hi)
    <3> TAKE k \in 1..Len(happened)
    <3>1. k \in Nat
      BY <1>2
    <3>2. happened[k].ts = CycleTs(k)
      BY <1>0, KeptAre
    <3>3. CycleTs(k) \in Nat /\ CycleTs(e) \in Nat /\ CycleTs(hi) \in Nat
      BY <1>8, <1>10, <3>1
    <3>4. CycleTs(e) < CycleTs(k) <=> e < k
      BY <1>8, <3>1
    <3>5. CycleTs(k) <= CycleTs(hi) <=> k <= hi
      BY <1>8, <1>10, <3>1
    <3> QED BY <1>10, <1>13, <3>1, <3>2, <3>3, <3>4, <3>5
  <2>3. CyclesAt(J) = {happened[k] : k \in {i \in 1..Len(happened) : e < i}}
    BY <2>2 DEF CyclesAt
  <2>4. crossed = {t \in CyclesAt(J) : t.ts <= Max(inside) /\ PathOf(t) = PathOf(NextTaken(t))}
    BY <2>1
  <2> HIDE DEF J
  <2>5. \A t : t \in crossed <=> \E k \in 1..Len(happened) : /\ e < k /\ t = happened[k] /\ t.ts <= Max(inside)
                                                             /\ PathOf(t) = PathOf(NextTaken(t))
    BY <2>3, <2>4
  <2>6. \A t : t \in crossed <=> \E k \in C(e, hi) : t = happened[k]
    BY <2>2, <2>5
  <2> HIDE DEF crossed, C
  <2> QED BY <2>6 DEF CyclesAt
<1>16. Cardinality(crossed) = Cardinality(C(e, hi))
  <2>1. C(e, hi) \in SUBSET (1..Len(happened))
    OBVIOUS
  <2> HIDE DEF C, crossed
  <2> QED BY <1>0, <1>15, <2>1, AsMany
<1>17. inside # {}
  BY <1>5, <1>7
<1> HIDE DEF crossed, C, volume
<1> QED BY <1>4, <1>14, <1>16, <1>17

-----------------------------------------------------------------------------
(* Shapes, headlines and tints. *)

\* There is a value of each rank among some values.
LEMMA AscendingIs ==
  ASSUME NEW values, NEW n \in Nat, DOMAIN values = 1..n, \A i \in 1..n : values[i] \in Nat, NEW k \in 1..n
  PROVE  \E i \in 1..n : Ascending(values, k) = values[i]
<1> DEFINE row == [i \in 1..n |-> [at |-> i, med |-> values[i]]]
           rows == ImageOf(row, 1..n)
<1>1. \A i \in 1..n : row[i].at = i /\ row[i].med = values[i]
  OBVIOUS
<1>2. IsFiniteSet(1..n) /\ Cardinality(1..n) = n
  <2>1. 1 \in Int /\ n \in Int /\ n - 1 + 1 = n /\ (1 > n => n = 0)
    OBVIOUS
  <2> QED BY <2>1, FS_Interval
<1> HIDE DEF row
<1>3. \A J \in SUBSET (1..n) : OneToOne(row, J)
  BY <1>1 DEF OneToOne
<1>4. ASSUME NEW J \in SUBSET (1..n)
      PROVE  IsFiniteSet(ImageOf(row, J)) /\ Cardinality(ImageOf(row, J)) = Cardinality(J)
  <2>1. IsFiniteSet(J) /\ OneToOne(row, J)
    BY <1>2, <1>3, FS_Subset
  <2> QED BY <2>1, SameMany
<1>5. IsFiniteSet(rows) /\ Cardinality(rows) = n
  BY <1>2, <1>4
<1>6. Timed(rows)
  BY <1>1, <1>5 DEF Timed, ImageOf
<1> DEFINE m == AtRank(rows, k)
<1> HIDE DEF rows
<1>7. /\ m \in Nat /\ \E r \in rows : m = r.med
      /\ Cardinality(Under(rows, m)) < k /\ k <= Cardinality(UpTo(rows, m))
  BY <1>5, <1>6, RankIs
<1> HIDE DEF m
<1> DEFINE low == {i \in 1..n : values[i] < m}
           high == {i \in 1..n : values[i] <= m}
<1>8. ImageOf(row, low) = Under(rows, m) /\ ImageOf(row, high) = UpTo(rows, m)
  BY <1>1 DEF ImageOf, Under, UpTo, rows
<1>9. Cardinality(low) < k /\ k <= Cardinality(high)
  <2>1. low \in SUBSET (1..n) /\ high \in SUBSET (1..n)
    OBVIOUS
  <2> HIDE DEF low, high
  <2>2. Cardinality(low) = Cardinality(ImageOf(row, low)) /\ Cardinality(high) = Cardinality(ImageOf(row, high))
    BY <1>4, <2>1
  <2> QED BY <1>7, <1>8, <2>2
<1>10. m \in ToSet(values)
  BY <1>1, <1>7 DEF rows, ImageOf, ToSet
<1>11. Ascending(values, k) \in ToSet(values)
  BY <1>9, <1>10 DEF Ascending
<1> QED BY <1>11 DEF ToSet

\* A middle lies between two of its values.
LEMMA MedianBetween ==
  ASSUME NEW values, NEW n \in Nat \ {0}, Len(values) = n, DOMAIN values = 1..n,
         \A i \in 1..n : values[i] \in Nat
  PROVE  /\ Percentile(values, 50) \in Nat
         /\ \E i, j \in 1..n : values[i] <= Percentile(values, 50) /\ Percentile(values, 50) <= values[j]
<1> DEFINE rank == 50 * (n - 1)
           a == rank \div 100 + 1
           b == (rank + 99) \div 100 + 1
<1>1. a \in 1..n /\ b \in 1..n /\ (rank % 100 = 0 \/ rank % 100 = 50)
  OBVIOUS
<1>2. values # <<>>
  <2>1. Len(<<>>) = 0
    BY EmptyFacts
  <2> QED BY <2>1
<1>3. Percentile(values, 50)
        = Ascending(values, a) + ((Ascending(values, b) - Ascending(values, a)) * (rank % 100)) \div 100
  BY <1>2 DEF Percentile
<1> HIDE DEF a, b, rank
<1>4. PICK i \in 1..n : Ascending(values, a) = values[i]
  BY <1>1, AscendingIs
<1>5. PICK j \in 1..n : Ascending(values, b) = values[j]
  BY <1>1, AscendingIs
<1> DEFINE low == values[i] high == values[j] q == rank % 100
<1>6. low \in Nat /\ high \in Nat /\ (q = 0 \/ q = 50)
  BY <1>1
<1>7. Percentile(values, 50) = low + ((high - low) * q) \div 100
  BY <1>3, <1>4, <1>5
<1>8. \A x, y \in Nat : /\ x <= y \/ y <= x
                        /\ x + ((y - x) * 0) \div 100 = x
  OBVIOUS
<1> HIDE DEF low, high, q
<1>9. CASE q = 0
  <2>1. Percentile(values, 50) = low
    BY <1>6, <1>7, <1>8, <1>9
  <2>2. low <= low
    BY <1>6
  <2> QED BY <1>6, <2>1, <2>2 DEF low
<1>10. CASE q = 50 /\ low <= high
  <2>1. LET m == low + ((high - low) * 50) \div 100 IN m \in Nat /\ low <= m /\ m <= high
    <3>1. low <= low /\ high <= high
      BY <1>6
    <3> QED BY <1>6, <1>10, <3>1, MiddleLies
  <2> QED BY <1>7, <1>10, <2>1 DEF low, high
<1>11. CASE q = 50 /\ high <= low
  <2>1. LET m == low + ((high - low) * 50) \div 100 IN m \in Nat /\ high <= m /\ m <= low
    <3>1. low <= low /\ high <= high
      BY <1>6
    <3> QED BY <1>6, <1>11, <3>1, MiddleLies
  <2> QED BY <1>7, <1>11, <2>1 DEF low, high
<1> QED BY <1>6, <1>8, <1>9, <1>10, <1>11

\* A set in a row.
LEMMA InARow ==
  ASSUME NEW S, IsFiniteSet(S)
  PROVE  LET s == SetToSeq(S)
         IN /\ DOMAIN s = 1..Cardinality(S) /\ Cardinality(S) \in Nat
            /\ \A i \in 1..Cardinality(S) : s[i] \in S
<1> DEFINE n == Cardinality(S)
<1>1. n \in Nat /\ ExistsBijection(1..n, S)
  BY FS_CardinalityType
<1>2. \E f \in [1..n -> S] : IsInjective(f)
  BY <1>1 DEF ExistsBijection, Bijection, Injection
<1>3. SetToSeq(S) \in [1..n -> S]
  BY <1>2 DEF SetToSeq
<1> QED BY <1>1, <1>3

\* The middle of what is there: unknown, or between two of the values.
LEMMA MedianIs ==
  ASSUME NEW values, IsFiniteSet(DOMAIN values), \A x \in DOMAIN values : values[x] \in Nat \cup {Null},
         Median(values).value # Null
  PROVE  /\ Median(values).value \in Nat
         /\ \E x, y \in DOMAIN values : /\ values[x] \in Nat /\ values[y] \in Nat
                                        /\ values[x] <= Median(values).value /\ Median(values).value <= values[y]
<1> DEFINE present == {i \in DOMAIN values : values[i] # Null}
           s == SetToSeq(present)
           n == Cardinality(present)
           column == [i \in DOMAIN s |-> values[s[i]]]
           m == Percentile(column, 50)
<1>1. Median(values).value = m
  BY DEF Median, Column
<1>2. IsFiniteSet(present)
  BY FS_Subset
<1>3. \A x \in present : x \in DOMAIN values /\ values[x] \in Nat
  OBVIOUS
<1> HIDE DEF present
<1>4. DOMAIN s = 1..n /\ n \in Nat /\ \A i \in 1..n : s[i] \in present
  BY <1>2, InARow
<1> HIDE DEF s, n
<1>5. DOMAIN column = 1..n /\ \A i \in 1..n : column[i] = values[s[i]]
  BY <1>4
<1>6. Len(column) = n
  BY <1>4, <1>5
<1>7. n # 0
  <2> SUFFICES ASSUME n = 0 PROVE FALSE
    OBVIOUS
  <2>1. column = <<>>
    <3>1. DOMAIN s = {}
      BY <1>4
    <3> QED BY <3>1
  <2> HIDE DEF column
  <2>2. m = Null
    BY <2>1 DEF Percentile
  <2> QED BY <1>1, <2>2
<1>8. \A i \in 1..n : column[i] \in Nat
  BY <1>3, <1>4, <1>5
<1> HIDE DEF column
<1>9. m \in Nat /\ \E i, j \in 1..n : column[i] <= m /\ m <= column[j]
  BY <1>4, <1>5, <1>6, <1>7, <1>8, MedianBetween
<1>10. PICK i, j \in 1..n : column[i] <= m /\ m <= column[j]
  BY <1>9
<1>11. s[i] \in DOMAIN values /\ s[j] \in DOMAIN values /\ values[s[i]] \in Nat /\ values[s[j]] \in Nat
  BY <1>3, <1>4
<1>12. values[s[i]] <= m /\ m <= values[s[j]]
  BY <1>5, <1>10
<1> HIDE DEF m
<1> QED BY <1>1, <1>9, <1>11, <1>12

\* One slow round trip of four does not move the middle.
LEMMA StalledMiddle ==
  ASSUME NEW c \in Nat \ {0}
  PROVE  Percentile([k \in 1..4 |-> IF k = 4 THEN 10 * c ELSE c], 50) = c
<1> DEFINE trips == [k \in 1..4 |-> IF k = 4 THEN 10 * c ELSE c]
           d == 10 * c
<1>1. d \in Nat /\ c < d
  OBVIOUS
<1>2. Len(trips) = 4 /\ DOMAIN trips = 1..4 /\ (\A k \in 1..3 : trips[k] = c) /\ trips[4] = d
  OBVIOUS
<1>3. trips # <<>>
  <2>1. Len(<<>>) = 0
    BY EmptyFacts
  <2> QED BY <1>2, <2>1
<1> HIDE DEF trips, d
<1>4. \A i \in 1..4 : trips[i] \in Nat
  <2>1. \A k \in 1..4 : k \in 1..3 \/ k = 4
    OBVIOUS
  <2> QED BY <1>1, <1>2, <2>1
<1>5. ASSUME NEW k \in {2, 3} PROVE Ascending(trips, k) = c
  <2> DEFINE Fits(v) == /\ Cardinality({i \in DOMAIN trips : trips[i] < v}) < k
                        /\ k <= Cardinality({i \in DOMAIN trips : trips[i] <= v})
             below == {i \in DOMAIN trips : trips[i] < c}
             upTo == {i \in DOMAIN trips : trips[i] <= c}
             under == {i \in DOMAIN trips : trips[i] < d}
  <2>1. \A i \in 1..4 : (i \in 1..3 /\ trips[i] = c) \/ (i = 4 /\ trips[i] = d)
    <3>1. \A i \in 1..4 : i \in 1..3 \/ i = 4
      OBVIOUS
    <3> QED BY <1>2, <3>1
  <2>2. below = {} /\ upTo = 1..3 /\ under = 1..3
    BY <1>1, <1>2, <2>1
  <2>3. Cardinality({}) = 0 /\ Cardinality(1..3) = 3
    <3>1. 1 \in Int /\ 3 \in Int /\ ~(1 > 3) /\ 3 - 1 + 1 = 3
      OBVIOUS
    <3>2. Cardinality(1..3) = 3
      BY <3>1, FS_Interval
    <3> QED BY <3>2, FS_EmptySet
  <2> HIDE DEF below, upTo, under
  <2>4. Cardinality(below) < k /\ k <= Cardinality(upTo) /\ ~(Cardinality(under) < k)
    BY <2>2, <2>3
  <2>5. Fits(c) /\ ~Fits(d)
    BY <2>4 DEF below, upTo, under
  <2>6. c \in ToSet(trips) /\ \A v \in ToSet(trips) : v = c \/ v = d
    BY <1>2, <2>1 DEF ToSet
  <2>7. Ascending(trips, k) = CHOOSE v \in ToSet(trips) : Fits(v)
    BY DEF Ascending
  <2> HIDE DEF Fits
  <2> QED BY <2>5, <2>6, <2>7
<1>6. Percentile(trips, 50) = Ascending(trips, 2) + ((Ascending(trips, 3) - Ascending(trips, 2)) * 50) \div 100
  <2>1. 50 * (Len(trips) - 1) = 150 /\ 150 \div 100 + 1 = 2 /\ (150 + 99) \div 100 + 1 = 3 /\ 150 % 100 = 50
    BY <1>2
  <2> QED BY <1>3, <2>1 DEF Percentile
<1>7. Percentile(trips, 50) = c
  <2>1. Ascending(trips, 2) = c /\ Ascending(trips, 3) = c
    BY <1>5
  <2> QED BY <1>6, <2>1
<1> QED BY <1>7 DEF trips

\* The median of an anchor's sample is the round trip of its cycle, which was answered.
LEMMA MedianIsTrip ==
  ASSUME NEW t, t.meets \in DOMAIN Meets, NEW s \in SampleRows(t), s.target \in WanTargets, s.med # Null
  PROVE  Meets[t.meets].wan > 0 /\ s.med = Meets[t.meets].rtt /\ s.med \in Nat
<1> DEFINE c == Meets[t.meets].rtt
           n == s.received
           trips == Rtts(t, n)
<1>1. c \in Nat \ {0} /\ Meets[t.meets].wan \in {0, 2, 4} /\ (t.meets = "stall" => Meets[t.meets].wan = 4)
  BY MeetsAre DEF Meets
<1>2. s.target # GatewayTarget
  BY ReadsAssumption
<1>3. /\ n = IF Silent(t, s.target) THEN 0 ELSE Meets[t.meets].wan
      /\ s = Sample(t.ts, s.target, 4, trips)
  BY <1>2, Heard
<1>4. n \in {0, Meets[t.meets].wan} /\ (t.meets = "stall" => n = 4)
  BY <1>1, <1>3 DEF Silent
<1>5. s.med = Percentile(trips, 50)
  <2> HIDE DEF trips
  <2>1. \A ts, x, r : Sample(ts, x, 4, r).med = Percentile(r, 50)
    BY DEF Sample
  <2> QED BY <1>3, <2>1
<1>6. n # 0
  <2> SUFFICES ASSUME n = 0 PROVE FALSE
    OBVIOUS
  <2>1. t.meets # "stall"
    BY <1>4
  <2>2. trips = [k \in 1..0 |-> c] /\ 1..0 = {}
    BY <2>1, RttsFacts
  <2>3. trips = <<>>
    BY <2>2
  <2> HIDE DEF trips
  <2> QED BY <1>5, <2>3 DEF Percentile
<1>7. n \in {2, 4} /\ Meets[t.meets].wan > 0
  BY <1>1, <1>4, <1>6
<1>8. CASE t.meets # "stall"
  <2>1. trips = [k \in 1..n |-> c] /\ c \in Nat
    BY <1>1, <1>7, <1>8, RttsFacts
  <2>2. Percentile(trips, 50) = c
    BY <1>7, <2>1, ConstantTrips
  <2> QED BY <1>1, <1>5, <1>7, <2>2
<1>9. CASE t.meets = "stall"
  <2>1. trips = [k \in 1..4 |-> IF k = 4 THEN 10 * c ELSE c]
    BY <1>4, <1>9 DEF Rtts
  <2>2. Percentile(trips, 50) = c
    BY <1>1, <2>1, StalledMiddle
  <2> QED BY <1>1, <1>5, <1>7, <2>2
<1> QED BY <1>8, <1>9

\* The cycles of a window and of a bucket of it that an anchor answered, and what lies between
\* two of their round trips, which are counted twice.
AnsweredIn(w) == {t \in TakenIn(w.from, w.to) : Meets[t.meets].wan > 0}
AnsweredAt(w, width, b) == {t \in AnsweredIn(w) : BucketOf(t.ts, width) = b}
Between(x, cycles) == \E t, u \in cycles : 2 * Meets[t.meets].rtt <= x /\ x <= 2 * Meets[u.meets].rtt

\* A sample of a bucket is of a recorded cycle of it.
LEMMA CellCycles ==
  ASSUME WorldInv, NEW from \in Int, NEW to \in Int, NEW width, NEW bucket, NEW target \in TargetNames
  PROVE  \A s \in Cell(from, to, width, bucket, target) :
           \E i \in PlacesAt(from, to, width, bucket) : s \in SampleRows(happened[i]) /\ s.ts = CycleTs(i)
<1> DEFINE cell == Cell(from, to, width, bucket, target)
           places == PlacesAt(from, to, width, bucket)
<1>1. \A s \in cell : \E i \in places : s \in SampleRows(happened[i]) /\ s.ts = CycleTs(i)
  BY OneSample DEF PlacesAt, KeptIn, Cell, Within
<1> QED BY <1>1

\* A median of an anchor's sample is a round trip of the bucket.
LEMMA CellTrips ==
  ASSUME WorldInv, NEW w, w.from \in Int, w.to \in Int, NEW width, NEW b, NEW x \in WanTargets,
         NEW s \in Cell(w.from, w.to, width, b, x), s.med # Null
  PROVE  s.med \in Nat /\ \E t \in AnsweredAt(w, width, b) : s.med = Meets[t.meets].rtt
<1>1. x \in TargetNames
  BY DEF TargetNames
<1>2. PICK i \in PlacesAt(w.from, w.to, width, b) : s \in SampleRows(happened[i]) /\ s.ts = CycleTs(i)
  <2>1. \A r \in Cell(w.from, w.to, width, b, x) :
          \E i \in PlacesAt(w.from, w.to, width, b) : r \in SampleRows(happened[i]) /\ r.ts = CycleTs(i)
    BY <1>1, CellCycles
  <2> QED BY <2>1
<1>3. i \in KeptIn(w.from, w.to) /\ BucketOf(CycleTs(i), width) = b
  BY <1>2 DEF PlacesAt
<1>4. happened[i] \in Cycle /\ happened[i].ts = CycleTs(i)
  BY <1>3, KeptAre DEF KeptIn
<1>5. happened[i] \in TakenIn(w.from, w.to)
  BY <1>3, PlacesAre DEF CyclesAt
<1>6. happened[i].meets \in DOMAIN Meets /\ s.target \in WanTargets
  BY <1>4 DEF Cycle, Cell
<1>7. Meets[happened[i].meets].wan > 0 /\ s.med = Meets[happened[i].meets].rtt /\ s.med \in Nat
  BY <1>2, <1>6, MedianIsTrip
<1> QED BY <1>3, <1>4, <1>5, <1>7 DEF AnsweredAt, AnsweredIn

\* The centre of an anchor's row lies between two of the bucket's round trips.
LEMMA CentreLies ==
  ASSUME WorldInv, NEW w, w.from \in Int, w.to \in Int, NEW width, NEW b, NEW x \in WanTargets,
         RowAt(w, width, b, x).med2 # Null
  PROVE  RowAt(w, width, b, x).med2 \in Nat /\ Between(RowAt(w, width, b, x).med2, AnsweredAt(w, width, b))
<1> DEFINE cell == Cell(w.from, w.to, width, b, x)
           timed == {r \in cell : r.med # Null}
           n == Cardinality(timed)
           T == AnsweredAt(w, width, b)
           mid == RowAt(w, width, b, x).med2
           p == AtRank(timed, (n + 1) \div 2)
           q == AtRank(timed, (n + 2) \div 2)
<1>1. \A s \in timed : s.med \in Nat /\ \E t \in T : s.med = Meets[t.meets].rtt
  BY CellTrips
<1>2. IsFiniteSet(timed)
  <2>1. x \in TargetNames
    BY DEF TargetNames
  <2>2. IsFiniteSet(cell)
    BY <2>1, CellIs
  <2> HIDE DEF cell
  <2> QED BY <2>2, FS_Subset
<1>3. mid = IF n = 0 THEN Null ELSE p + q
  <2> HIDE DEF cell
  <2>1. mid = ProbeBucket(b, x, cell).med2
    BY DEF RowAt, cell
  <2> QED BY <2>1 DEF ProbeBucket
<1>4. Timed(timed) /\ n \in Nat
  BY <1>1, <1>2, FS_CardinalityType DEF Timed
<1> HIDE DEF timed
<1>5. n # 0 /\ mid = p + q
  BY <1>3 DEF mid
<1>6. (n + 1) \div 2 \in 1..n /\ (n + 2) \div 2 \in 1..n
  BY <1>4, <1>5
<1>7. p \in Nat /\ \E r \in timed : p = r.med
  BY <1>4, <1>6, RankIs
<1>8. q \in Nat /\ \E r \in timed : q = r.med
  BY <1>4, <1>6, RankIs
<1> HIDE DEF p, q, n, mid, T
<1>9. PICK t \in T : p = Meets[t.meets].rtt
  BY <1>1, <1>7
<1>10. PICK u \in T : q = Meets[u.meets].rtt
  BY <1>1, <1>8
<1>11. mid \in Nat /\ (p <= q => 2 * p <= mid /\ mid <= 2 * q) /\ (q <= p => 2 * q <= mid /\ mid <= 2 * p) /\ (p <= q \/ q <= p)
  BY <1>5, <1>7, <1>8
<1>12. Between(mid, T)
  BY <1>9, <1>10, <1>11 DEF Between
<1> QED BY <1>11, <1>12 DEF mid, T

\* Every answered cycle has a round trip.
LEMMA AnsweredTrips ==
  ASSUME WorldInv, NEW w, w.from \in Int, w.to \in Int, NEW t \in AnsweredIn(w)
  PROVE  t.meets \in DOMAIN Meets /\ Meets[t.meets].rtt \in Nat
<1>1. PICK i \in KeptIn(w.from, w.to) : t = happened[i]
  BY PlacesAre DEF AnsweredIn, CyclesAt
<1>2. t \in Cycle
  BY <1>1, KeptAre DEF KeptIn
<1>3. t.meets \in DOMAIN Meets
  BY <1>2 DEF Cycle
<1> QED BY <1>3, MeetsAre

\* What lies between two values that lie between round trips lies between round trips.
LEMMA BetweenTwo ==
  ASSUME WorldInv, NEW w, w.from \in Int, w.to \in Int, NEW T \in SUBSET AnsweredIn(w),
         NEW low \in Nat, NEW x \in Nat, NEW high \in Nat, low <= x, x <= high, Between(low, T), Between(high, T)
  PROVE  Between(x, T)
<1>1. PICK t \in T : 2 * Meets[t.meets].rtt <= low
  BY DEF Between
<1>2. PICK u \in T : high <= 2 * Meets[u.meets].rtt
  BY DEF Between
<1>3. Meets[t.meets].rtt \in Nat /\ Meets[u.meets].rtt \in Nat
  BY AnsweredTrips
<1> DEFINE a == Meets[t.meets].rtt b == Meets[u.meets].rtt
<1>4. a \in Nat /\ b \in Nat /\ 2 * a <= low /\ high <= 2 * b
  BY <1>1, <1>2, <1>3
<1> HIDE DEF a, b
<1>5. 2 * a <= x /\ x <= 2 * b
  BY <1>4
<1> QED BY <1>5 DEF Between, a, b

\* The latency of a point lies between two of its bucket's round trips.
LEMMA PointLies ==
  ASSUME WorldInv, NEW w, w.from \in Int, w.to \in Int, NEW width, NEW b \in SlotStarts(w, width),
         PointsOf(w, width)[b].wan # Null
  PROVE  PointsOf(w, width)[b].wan \in Nat /\ Between(PointsOf(w, width)[b].wan, AnsweredAt(w, width, b))
<1> DEFINE buckets == BucketsOf(w, width)
           merged == {[bucket |-> c, rows |-> {r \in buckets : r.bucket = c}] : c \in {r.bucket : r \in buckets}}
           slots == DensifyBuckets(merged, w, width)
           rows == IF slots[b] = Null THEN {} ELSE slots[b].rows
           values == [r \in OfAnchors(rows) |-> r.med2]
           wan == PointsOf(w, width)[b].wan
           T == AnsweredAt(w, width, b)
<1>1. slots = [c \in SlotStarts(w, width) |->
                 IF \E r \in merged : r.bucket = c THEN CHOOSE r \in merged : r.bucket = c ELSE Null]
  <2> HIDE DEF merged
  <2> QED BY DEF DensifyBuckets
<1>2. \A r \in merged : r.rows = {q \in buckets : q.bucket = r.bucket}
  OBVIOUS
<1>3. wan = Median(values).value
  <2> DEFINE points == [c \in DOMAIN slots |-> ToComparePoint(slots[c])]
  <2>1. PointsOf(w, width) = points
    BY DEF PointsOf, ComparePointsFrom
  <2>2. points[b] = ToComparePoint(slots[b])
    <3> HIDE DEF merged, slots
    <3> QED BY <1>1
  <2>3. wan = ToComparePoint(slots[b]).wan
    BY <2>1, <2>2
  <2> HIDE DEF slots, wan
  <2> QED BY <2>3 DEF ToComparePoint
<1> HIDE DEF merged
<1>4. \A r \in rows : r \in buckets /\ r.bucket = b
  BY <1>1, <1>2
<1> HIDE DEF slots, rows, wan
<1>5. OfAnchors(rows) \subseteq AnchorsAt(w, width, b)
  BY <1>4 DEF OfAnchors, AnchorsAt
<1>6. IsFiniteSet(OfAnchors(rows))
  <2>1. CASE AnchorsAt(w, width, b) = {}
    BY <1>5, <2>1, FS_EmptySet
  <2>2. CASE AnchorsAt(w, width, b) # {}
    <3>1. IsFiniteSet(AnchorsAt(w, width, b))
      BY <2>2, AnchorRows
    <3> QED BY <1>5, <3>1, FS_Subset
  <2> QED BY <2>1, <2>2
<1>7. ASSUME NEW r \in OfAnchors(rows), r.med2 # Null PROVE r.med2 \in Nat /\ Between(r.med2, T)
  <2>1. r \in buckets /\ r.bucket = b /\ r.target \in WanTargets
    BY <1>4 DEF OfAnchors
  <2>2. r = RowAt(w, width, b, r.target)
    BY <2>1, RowsAre
  <2> HIDE DEF buckets
  <2> DEFINE x == r.target
  <2>3. x \in WanTargets /\ RowAt(w, width, b, x).med2 = r.med2
    BY <2>1, <2>2
  <2> HIDE DEF x
  <2>4. RowAt(w, width, b, x).med2 # Null
    BY <1>7, <2>3
  <2>5. RowAt(w, width, b, x).med2 \in Nat /\ Between(RowAt(w, width, b, x).med2, T)
    BY <2>3, <2>4, CentreLies
  <2> QED BY <2>3, <2>5
<1>8. DOMAIN values = OfAnchors(rows) /\ \A r \in OfAnchors(rows) : values[r] = r.med2
  OBVIOUS
<1> HIDE DEF values
<1>9. \A r \in DOMAIN values : values[r] \in Nat \cup {Null} /\ (values[r] \in Nat => Between(values[r], T))
  <2> SUFFICES ASSUME NEW r \in OfAnchors(rows)
               PROVE  r.med2 \in Nat \cup {Null} /\ (r.med2 \in Nat => Between(r.med2, T))
    BY <1>8
  <2>1. CASE r.med2 = Null
    <3>1. Null \notin Nat
      BY AbsentIsNoNumber
    <3> QED BY <2>1, <3>1
  <2>2. CASE r.med2 # Null
    BY <1>7, <2>2
  <2> QED BY <2>1, <2>2
<1>10. wan # Null
  BY DEF wan
<1>11. wan \in Nat /\ \E x, y \in DOMAIN values : values[x] \in Nat /\ values[y] \in Nat /\ values[x] <= wan /\ wan <= values[y]
  BY <1>3, <1>6, <1>8, <1>9, <1>10, MedianIs
<1>12. PICK x, y \in DOMAIN values : values[x] \in Nat /\ values[y] \in Nat /\ values[x] <= wan /\ wan <= values[y]
  BY <1>11
<1>13. T \in SUBSET AnsweredIn(w)
  BY DEF AnsweredAt
<1> HIDE DEF T
<1>14. Between(wan, T)
  BY <1>9, <1>11, <1>12, <1>13, BetweenTwo
<1> QED BY <1>11, <1>14 DEF wan, T

\* A shape has an answer in every slot.
LEMMA ShapeIsDense ==
  ASSUME WorldInv, NEW w, w.from \in Int, w.to \in Int, NEW width,
         DenseSparkline([b \in DOMAIN PointsOf(w, width) |-> PointsOf(w, width)[b].wan]) # Null
  PROVE  SlotStarts(w, width) \subseteq {BucketOf(t.ts, width) : t \in AnsweredIn(w)}
<1> DEFINE points == PointsOf(w, width)
           values == [b \in DOMAIN points |-> points[b].wan]
<1>1. DOMAIN points = SlotStarts(w, width)
  BY PointsAre
<1>2. \A b \in DOMAIN values : values[b] # Null
  BY DEF DenseSparkline
<1>3. ASSUME NEW b \in SlotStarts(w, width) PROVE \E t \in AnsweredIn(w) : BucketOf(t.ts, width) = b
  <2>1. points[b].wan # Null
    BY <1>1, <1>2
  <2>2. Between(points[b].wan, AnsweredAt(w, width, b))
    BY <2>1, PointLies
  <2> QED BY <2>2 DEF Between, AnsweredAt
<1> QED BY <1>3

\* The headline latency lies between two round trips of the window.
LEMMA HeadlineLies ==
  ASSUME WorldInv, NEW w, w.from \in Int, w.to \in Int, NEW width \in Nat \ {0},
         WindowWanMedian(PointsOf(w, width)) # Null
  PROVE  Between(WindowWanMedian(PointsOf(w, width)), AnsweredIn(w))
<1> DEFINE points == PointsOf(w, width)
           values == [b \in DOMAIN points |-> points[b].wan]
           m == WindowWanMedian(points)
           T == AnsweredIn(w)
<1>1. m = Median(values).value /\ m # Null
  BY DEF WindowWanMedian
<1>2. DOMAIN values = SlotStarts(w, width) /\ \A b \in SlotStarts(w, width) : values[b] = points[b].wan
  BY PointsAre
<1>3. IsFiniteSet(SlotStarts(w, width))
  <2>1. BucketOf(w.from, width) \in Int
    BY DEF BucketOf
  <2>2. IsFiniteSet(BucketOf(w.from, width)..w.to)
    BY <2>1, FS_Interval
  <2> QED BY <2>2, FS_Subset DEF SlotStarts
<1>4. ASSUME NEW b \in SlotStarts(w, width), points[b].wan # Null
      PROVE  points[b].wan \in Nat /\ Between(points[b].wan, T)
  <2>1. points[b].wan \in Nat /\ Between(points[b].wan, AnsweredAt(w, width, b))
    BY <1>4, PointLies
  <2>2. Between(points[b].wan, T)
    BY <2>1 DEF Between, AnsweredAt
  <2> QED BY <2>1, <2>2
<1>5. Null \notin Nat
  BY AbsentIsNoNumber
<1>6. \A b \in DOMAIN values : values[b] \in Nat \cup {Null} /\ (values[b] \in Nat => Between(values[b], T))
  BY <1>2, <1>4, <1>5
<1> HIDE DEF values, m, points
<1>7. m \in Nat /\ \E x, y \in DOMAIN values : values[x] \in Nat /\ values[y] \in Nat /\ values[x] <= m /\ m <= values[y]
  BY <1>1, <1>2, <1>3, <1>6, MedianIs
<1>8. PICK x, y \in DOMAIN values : values[x] \in Nat /\ values[y] \in Nat /\ values[x] <= m /\ m <= values[y]
  BY <1>7
<1>9. T \in SUBSET AnsweredIn(w)
  OBVIOUS
<1> HIDE DEF T
<1>10. Between(m, T)
  BY <1>6, <1>7, <1>8, <1>9, BetweenTwo
<1> QED BY <1>10 DEF m, points, T

\* The card and the section take the middle of the same tests, and every test ran or failed.
LEMMA TestsAgree ==
  ASSUME NEW tests, IsFiniteSet(tests)
  PROVE  /\ SpeedWindowStats(tests).p50 = WindowDownloadMedian(tests)
         /\ SpeedWindowStats(tests).runs + SpeedWindowStats(tests).failed = Cardinality(tests)
<1> DEFINE ok == {t \in tests : t.mbit # Null}
           values == [t \in tests |-> t.mbit]
           present == {t \in DOMAIN values : values[t] # Null}
           s == SetToSeq(ok)
           n == Cardinality(ok)
<1>1. ok = present /\ IsFiniteSet(ok)
  <2>1. DOMAIN values = tests /\ \A t \in tests : values[t] = t.mbit
    OBVIOUS
  <2>2. ok = present
    BY <2>1
  <2> QED BY <2>2, FS_Subset
<1>2. SpeedWindowStats(tests).p50 = Percentile([i \in DOMAIN s |-> s[i].mbit], 50)
  BY DEF SpeedWindowStats, Column
<1>3. WindowDownloadMedian(tests) = Percentile([i \in DOMAIN s |-> values[s[i]]], 50)
  <2>1. Median(values).value = Percentile(Column(present, LAMBDA t : values[t]), 50)
    <3> HIDE DEF values
    <3> QED BY DEF Median
  <2>2. Median(values).value = Percentile(Column(ok, LAMBDA t : values[t]), 50)
    BY <1>1, <2>1
  <2>3. WindowDownloadMedian(tests) = Median(values).value
    BY DEF WindowDownloadMedian
  <2> HIDE DEF values, ok
  <2> QED BY <2>2, <2>3 DEF Column
<1>4. ok \subseteq tests
  OBVIOUS
<1>5. SpeedWindowStats(tests).runs = n /\ SpeedWindowStats(tests).failed = Cardinality(tests \ ok)
  BY DEF SpeedWindowStats
<1> HIDE DEF ok
<1>6. DOMAIN s = 1..n /\ \A i \in 1..n : s[i] \in tests
  BY <1>1, <1>4, InARow
<1>7. [i \in DOMAIN s |-> s[i].mbit] = [i \in DOMAIN s |-> values[s[i]]]
  BY <1>6
<1>8. Cardinality(tests \ ok) = Cardinality(tests) - n /\ Cardinality(tests) \in Nat /\ n \in Nat
  <2>1. tests \cap ok = ok
    BY <1>4
  <2>2. Cardinality(tests \ ok) = Cardinality(tests) - Cardinality(tests \cap ok)
    BY FS_Difference
  <2> QED BY <1>1, <2>1, <2>2, FS_CardinalityType
<1>9. n + (Cardinality(tests) - n) = Cardinality(tests)
  BY <1>8
<1> QED BY <1>2, <1>3, <1>5, <1>7, <1>8, <1>9

\* The rows of the cycles of a bucket, and the cycles that read the link.
RowsAt(w, width, b) == {r \in Within(tables.cycle, w.from, w.to) : BucketOf(r.ts, width) = b}
ReadAt(w, width, b) == {t \in TakenIn(w.from, w.to) : BucketOf(t.ts, width) = b /\ t.odd # "blind"}

\* The links of a bucket's rows are those its cycles read.
LEMMA LinksAre ==
  ASSUME WorldInv, NEW w, w.from \in Int, w.to \in Int, NEW width, NEW b
  PROVE  {r.link : r \in RowsAt(w, width, b)} \ {Null} = {LinkSpeed(t) : t \in ReadAt(w, width, b)}
<1>1. TakenIn(w.from, w.to) = CyclesAt(KeptIn(w.from, w.to))
  BY PlacesAre
<1>2. \A i \in Kept : happened[i].ts = CycleTs(i)
  BY KeptAre
<1>3. \A t : LinkSpeed(t) # Null
  BY AbsentIsNoNumber DEF LinkSpeed
<1>4. ASSUME NEW r \in RowsAt(w, width, b), r.link # Null
      PROVE  \E t \in ReadAt(w, width, b) : r.link = LinkSpeed(t)
  <2>1. r \in tables.cycle /\ w.from <= r.ts /\ r.ts <= w.to /\ BucketOf(r.ts, width) = b
    BY DEF RowsAt, Within
  <2>2. PICK i \in Kept : RowOf(r, i)
    BY <2>1, RowsOfCycles
  <2>3. r.ts = CycleTs(i) /\ happened[i].odd # "blind" /\ r.link = LinkSpeed(happened[i])
    BY <1>4, <2>2 DEF RowOf
  <2>4. happened[i] \in TakenIn(w.from, w.to)
    BY <1>1, <2>1, <2>3 DEF CyclesAt, KeptIn
  <2> QED BY <1>2, <2>1, <2>3, <2>4 DEF ReadAt
<1>5. ASSUME NEW t \in ReadAt(w, width, b) PROVE \E r \in RowsAt(w, width, b) : r.link = LinkSpeed(t)
  <2>1. t \in TakenIn(w.from, w.to) /\ BucketOf(t.ts, width) = b /\ t.odd # "blind"
    BY DEF ReadAt
  <2>2. PICK i \in Kept : t = happened[i] /\ w.from <= CycleTs(i) /\ CycleTs(i) <= w.to
    BY <1>1, <2>1 DEF CyclesAt, KeptIn
  <2>3. PICK r \in tables.cycle : RowOf(r, i)
    BY RowsOfCycles
  <2>4. r.ts = CycleTs(i) /\ r.link = LinkSpeed(t)
    BY <2>1, <2>2, <2>3 DEF RowOf
  <2>5. r \in RowsAt(w, width, b)
    BY <1>2, <2>1, <2>2, <2>4 DEF RowsAt, Within
  <2> QED BY <2>4, <2>5
<1> QED BY <1>3, <1>4, <1>5

\* A row of the vantage strip is a row.
LEMMA PlaceIsThere ==
  ASSUME NEW b \in Int, NEW cycles \in Nat, NEW rows, IsFiniteSet(rows),
         \A r \in rows : r.link \in Nat \cup {Null} /\ r.pathIf \in {Home, Away, Null}
  PROVE  VantageBucket(b, cycles, rows) # Null
<1> DEFINE home == Cardinality({r \in rows : r.home = 1})
           off == Cardinality({r \in rows : r.home = 0})
           f1 == Cardinality(rows)
           f2 == {r.link : r \in rows} \ {Null}
           f3 == {r.pathIf : r \in rows} \ {Null}
           f4 == HomeLineVerdict(cycles, home, off)
           f5 == cycles - home - off
<1>1. VantageBucket(b, cycles, rows)
        = [bucket |-> b, cycles |-> cycles, vantage |-> f1, links |-> f2, paths |-> f3, onHomeLine |-> f4,
           unknown |-> f5]
  BY DEF VantageBucket
<1>2. f1 \in Nat /\ home \in Nat /\ off \in Nat
  <2>1. \A T \in SUBSET rows : Cardinality(T) \in Nat
    BY FS_Subset, FS_CardinalityType
  <2> QED BY <2>1
<1>3. f2 \in SUBSET Nat /\ f3 \in SUBSET {Home, Away}
  OBVIOUS
<1>4. f4 \in {"unknown", "all", "none", "mixed"} /\ f5 \in Int
  <2> HIDE DEF home, off
  <2> QED BY <1>2 DEF HomeLineVerdict
<1> HIDE DEF f1, f2, f3, f4, f5
<1>5. VantageBucket(b, cycles, rows)
        \in [bucket : Int, cycles : Nat, vantage : Nat, links : SUBSET Nat, paths : SUBSET {Home, Away},
            onHomeLine : {"unknown", "all", "none", "mixed"}, unknown : Int]
  BY <1>1, <1>2, <1>3, <1>4
<1> QED BY <1>5, AbsentIsNoRow

\* What the strip says of a bucket's link.
LEMMA StripIsTrue ==
  ASSUME BooksInv, NEW w, w.from \in Int, w.to \in Int, NEW width \in Nat \ {0},
         NEW place \in BucketVantage(tables, w.from, w.to, width)
  PROVE  /\ LinkBucketState(place) = "steady" =>
              \A t, u \in ReadAt(w, width, place.bucket) : LinkSpeed(t) = LinkSpeed(u)
         /\ LinkBucketState(place) = "no-vantage" <=> ReadAt(w, width, place.bucket) = {}
<1>0. WorldInv
  BY DEF BooksInv
<1> DEFINE stamps == Stamps(Within(tables.sample, w.from, w.to))
           In(b) == {t \in stamps : BucketOf(t, width) = b}
           buckets == {BucketOf(t, width) : t \in stamps}
<1>1. BucketVantage(tables, w.from, w.to, width) = {VantageBucket(b, Cardinality(In(b)), RowsAt(w, width, b)) : b \in buckets}
  BY DEF BucketVantage, RowsAt
<1>2. stamps \subseteq Nat /\ IsFiniteSet(stamps)
  BY <1>0, StampsIn
<1>3. PICK b \in buckets : place = VantageBucket(b, Cardinality(In(b)), RowsAt(w, width, b))
  BY <1>1
<1>4. b \in Int
  <2>1. PICK t \in stamps : b = BucketOf(t, width)
    BY <1>3
  <2>2. t \in Int
    BY <1>2, <2>1
  <2> QED BY <2>1, <2>2, InBucket
<1> DEFINE rows == RowsAt(w, width, b)
           read == ReadAt(w, width, b)
           n == Cardinality(In(b))
<1>5. n \in Nat
  <2>1. IsFiniteSet(In(b))
    <3> HIDE DEF stamps
    <3> QED BY <1>2, FS_Subset
  <2> HIDE DEF In
  <2> QED BY <2>1, FS_CardinalityType
<1> HIDE DEF stamps, In, n, buckets
<1>6. rows \subseteq tables.cycle
  BY DEF RowsAt, Within
<1>7. IsFiniteSet(rows)
  BY <1>0, <1>6, CyclesFinite, FS_Subset
<1>8. \A r \in rows : r.link \in Nat \cup {Null} /\ r.pathIf \in {Home, Away, Null}
  <2> SUFFICES ASSUME NEW r \in rows PROVE r.link \in Nat \cup {Null} /\ r.pathIf \in {Home, Away, Null}
    OBVIOUS
  <2>0. PICK i \in Kept : \E bytes : r = CycleRow(happened[i], bytes)
    BY <1>0, <1>6 DEF WorldInv, CyclesKept
  <2>1. PICK bytes : r = CycleRow(happened[i], bytes)
    BY <2>0
  <2>2. /\ r.link \in {LinkSpeed(happened[i]), Null}
        /\ r.pathIf \in {PathOf(happened[i]), Null}
    BY <2>1 DEF CycleRow
  <2> QED BY <2>2 DEF LinkSpeed, PathOf
<1>9. place = VantageBucket(b, n, rows)
  BY <1>3 DEF n
<1>10. place # Null
  <2> HIDE DEF rows
  <2> QED BY <1>4, <1>5, <1>7, <1>8, <1>9, PlaceIsThere
<1>11. place.bucket = b /\ place.links = {r.link : r \in rows} \ {Null}
  <2> HIDE DEF rows
  <2> QED BY <1>9 DEF VantageBucket
<1>12. place.links = {LinkSpeed(t) : t \in read}
  BY <1>0, <1>11, LinksAre
<1> HIDE DEF rows, read
<1>13. IsFiniteSet(place.links)
  <2>1. place.links \subseteq {100, 1000}
    BY <1>12 DEF LinkSpeed
  <2>2. place.links \in SUBSET Nat /\ \A x \in place.links : x <= 1000
    BY <2>1
  <2> QED BY <2>2, FS_BoundedSetOfNaturals
<1>14. place.links = {} <=> read = {}
  BY <1>12
<1>15. LinkBucketState(place) = "no-vantage" <=> place.links = {}
  <2>1. CASE place.links = {}
    <3>1. Cardinality(place.links) # 1
      BY <2>1, FS_EmptySet
    <3> QED BY <1>10, <2>1, <3>1 DEF LinkBucketState
  <2>2. CASE place.links # {} /\ Cardinality(place.links) = 1
    BY <1>10, <2>2 DEF LinkBucketState
  <2>3. CASE place.links # {} /\ Cardinality(place.links) # 1
    BY <1>10, <2>3 DEF LinkBucketState
  <2> QED BY <2>1, <2>2, <2>3
<1>16. ASSUME LinkBucketState(place) = "steady" PROVE \A t, u \in read : LinkSpeed(t) = LinkSpeed(u)
  <2>1. Cardinality(place.links) = 1
    BY <1>10, <1>16 DEF LinkBucketState
  <2>2. PICK x : place.links = {x}
    BY <1>13, <2>1, FS_Singleton
  <2>3. \A t \in read : LinkSpeed(t) = x
    BY <1>12, <2>2
  <2> QED BY <2>3
<1> QED BY <1>11, <1>14, <1>15, <1>16 DEF read

\* The shapes, the headline, the card and the strip are of what was the case.
LEMMA ChartsHold == ASSUME PageInv PROVE ChartsTrue
<1> SUFFICES ASSUME NEW width \in Widths, NEW w \in Screens(width)
             PROVE
               LET points == PointsOf(w, width)
                   answered == {t \in TakenIn(w.from, w.to) : Meets[t.meets].wan > 0}
                   tests == Within(tables.speed, w.from, w.to)
                   speed == SpeedWindowStats(tests)
               IN /\ DenseSparkline([b \in DOMAIN points |-> points[b].wan]) # Null =>
                       SlotStarts(w, width) \subseteq {BucketOf(t.ts, width) : t \in answered}
                  /\ WindowWanMedian(points) # Null =>
                       \E t, u \in answered : 2 * Meets[t.meets].rtt <= WindowWanMedian(points)
                                              /\ WindowWanMedian(points) <= 2 * Meets[u.meets].rtt
                  /\ speed.p50 = WindowDownloadMedian(tests) /\ speed.runs + speed.failed = Cardinality(tests)
                  /\ \A place \in BucketVantage(tables, w.from, w.to, width) :
                       LET read == {t \in TakenIn(w.from, w.to) : BucketOf(t.ts, width) = place.bucket
                                                                  /\ t.odd # "blind"}
                       IN /\ LinkBucketState(place) = "steady" => \A t, u \in read : LinkSpeed(t) = LinkSpeed(u)
                          /\ LinkBucketState(place) = "no-vantage" <=> read = {}
  BY DEF ChartsTrue
<1>0. BooksInv /\ WorldInv
  BY DEF PageInv, ScreenInv, BooksInv
<1>1. w.from \in Int /\ w.to \in Int /\ width \in Nat \ {0}
  BY <1>0, ScreensAre
<1> DEFINE points == PointsOf(w, width)
           answered == {t \in TakenIn(w.from, w.to) : Meets[t.meets].wan > 0}
           tests == Within(tables.speed, w.from, w.to)
<1>2. answered = AnsweredIn(w)
  BY DEF AnsweredIn
<1>3. DenseSparkline([b \in DOMAIN points |-> points[b].wan]) # Null =>
        SlotStarts(w, width) \subseteq {BucketOf(t.ts, width) : t \in answered}
  BY <1>0, <1>1, <1>2, ShapeIsDense
<1>4. WindowWanMedian(points) # Null =>
        \E t, u \in answered : 2 * Meets[t.meets].rtt <= WindowWanMedian(points)
                               /\ WindowWanMedian(points) <= 2 * Meets[u.meets].rtt
  <2> SUFFICES ASSUME WindowWanMedian(points) # Null PROVE Between(WindowWanMedian(points), answered)
    BY DEF Between
  <2> QED BY <1>0, <1>1, <1>2, HeadlineLies
<1>5. SpeedWindowStats(tests).p50 = WindowDownloadMedian(tests)
      /\ SpeedWindowStats(tests).runs + SpeedWindowStats(tests).failed = Cardinality(tests)
  <2>1. tests \subseteq tables.speed
    BY DEF Within
  <2>2. IsFiniteSet(tests)
    BY <2>1, FS_Subset DEF PageInv, StandsStill
  <2> HIDE DEF tests
  <2> QED BY <2>2, TestsAgree
<1>6. ASSUME NEW place \in BucketVantage(tables, w.from, w.to, width)
      PROVE  LET read == {t \in TakenIn(w.from, w.to) : BucketOf(t.ts, width) = place.bucket /\ t.odd # "blind"}
             IN /\ LinkBucketState(place) = "steady" => \A t, u \in read : LinkSpeed(t) = LinkSpeed(u)
                /\ LinkBucketState(place) = "no-vantage" <=> read = {}
  <2>1. ReadAt(w, width, place.bucket) = {t \in TakenIn(w.from, w.to) : BucketOf(t.ts, width) = place.bucket
                                                                        /\ t.odd # "blind"}
    BY DEF ReadAt
  <2> QED BY <1>0, <1>1, <2>1, StripIsTrue
<1> QED BY <1>3, <1>4, <1>5, <1>6

\* What the page draws, for every range and width of bucket: the bounds on the loss of the
\* internet, the slots, the volume without its caveat, the shapes and the headline, and the
\* warnings behind no disclosure; and the path's chip, whichever of its polls were answered.
THEOREM ScreenTrue == ScreenSpec => []ScreenIsTrue
<1>1. PageInv => WorldInv
  BY DEF PageInv, ScreenInv, BooksInv
<1>2. PageInv => FoldProven /\ SlotsTrue /\ VolumeWhole /\ ChartsTrue /\ NothingBuried
  BY <1>1, FoldHolds, SlotsHold, VolumeWholeHolds, ChartsHold, NothingIsBuried
<1>3. WorldInv /\ PageTells /\ PageDrawn /\ LineTells => PathIsNow
  BY PathHolds
<1>4. PageInv /\ PageTells /\ PageDrawn /\ LineTells => ScreenIsTrue
  BY <1>1, <1>2, <1>3 DEF ScreenIsTrue
<1> QED BY <1>4, WorldOfScreen, PageHolds, PageIsTrue, LineIsTold, PTL
=============================================================================
