---------------------------- MODULE RecordProofs ----------------------------
(***************************************************************************)
(* Theorems of RecordWorld.tla for every cycle length, every set of        *)
(* anchors, every window and width of the buckets, and every number of     *)
(* cycles and of things out of the ordinary: a cycle without an answer is  *)
(* always listed as downtime and never as degradation, what is said of     *)
(* the home line, of the link and of the LAN was so, a gap in the record   *)
(* is never passed over in silence; buckets, ranges and outage rows count  *)
(* the same cycles, percentile bands enclose their centres, and no window  *)
(* says more moved than crossed the interfaces.                            *)
(***************************************************************************)
EXTENDS RecordWorld, FiniteSetTheorems, DataLemmas

WorldSpec == WorldInit /\ [][WorldNext]_worldVars

-----------------------------------------------------------------------------
(* The cycles of the world. *)

\* Between two slots there is none, and the phase is less than one.
LEMMA SlotOf ==
  ASSUME NEW p \in Nat \ {0}, NEW i \in Nat, NEW a \in 0..(p - 1)
  PROVE  (i * p + a) \div p = i
<1>1. PICK q \in Nat : q = (i * p + a) \div p
  BY (i * p + a) \in Nat
<1>2. q * p <= i * p + a /\ i * p + a < q * p + p
  BY <1>1
<1>3. i * p \in Nat /\ q * p \in Nat
  OBVIOUS
<1>4. q <= i
  <2> SUFFICES ASSUME i + 1 <= q PROVE FALSE
    OBVIOUS
  <2>1. PICK d \in Nat : q = i + 1 + d
    BY q - (i + 1) \in Nat
  <2>2. q * p = i * p + p + d * p /\ d * p \in Nat
    BY <2>1
  <2> QED BY <1>2, <1>3, <2>2
<1>5. i <= q
  <2> SUFFICES ASSUME q + 1 <= i PROVE FALSE
    OBVIOUS
  <2>1. PICK d \in Nat : i = q + 1 + d
    BY i - (q + 1) \in Nat
  <2>2. i * p = q * p + p + d * p /\ d * p \in Nat
    BY <2>1
  <2> QED BY <1>2, <1>3, <2>2
<1> QED BY <1>1, <1>4, <1>5

\* Cycles have their instants one by one, and an instant has its cycle.
LEMMA Stamp ==
  /\ \A i \in Nat : CycleTs(i) \in Nat /\ CycleTs(i) \div ProbeCycleS = i
  /\ \A i, j \in Nat : i < j => CycleTs(i) < CycleTs(j)
  /\ \A i, j \in Nat : CycleTs(i) = CycleTs(j) => i = j
<1>1. ASSUME NEW i \in Nat PROVE CycleTs(i) \in Nat /\ CycleTs(i) \div ProbeCycleS = i
  BY ReadsAssumption, InstantAssumption, SlotOf DEF CycleTs
<1>2. ASSUME NEW i \in Nat, NEW j \in Nat, i < j PROVE CycleTs(i) < CycleTs(j)
  <2>1. PICK d \in Nat : j = i + 1 + d
    BY <1>2, j - (i + 1) \in Nat
  <2>2. j * ProbeCycleS = i * ProbeCycleS + ProbeCycleS + d * ProbeCycleS
        /\ d * ProbeCycleS \in Nat /\ i * ProbeCycleS \in Nat
    BY <2>1, ReadsAssumption
  <2> QED BY <2>2, ReadsAssumption, InstantAssumption DEF CycleTs
<1>3. ASSUME NEW i \in Nat, NEW j \in Nat, CycleTs(i) = CycleTs(j) PROVE i = j
  <2>1. CycleTs(i) \div ProbeCycleS = i /\ CycleTs(j) \div ProbeCycleS = j
    BY <1>1
  <2> QED BY <1>3, <2>1
<1> QED BY <1>1, <1>2, <1>3

Cycle == [ts : Nat, meets : DOMAIN Meets, odd : Oddities \cup {"none"}]
OutageRow == [scope : {"wan", "gateway"}, startedAt : Nat, endedAt : Nat \cup {Null}, cycles : Nat]

\* The cycles the collector recorded.
Kept == {i \in 1..Len(happened) : happened[i].odd # "missed"}

Ordered == /\ happened \in Seq(Cycle)
           /\ \A i \in 1..Len(happened) : happened[i].ts = CycleTs(i)
Shaped == tables = [ sample |-> tables.sample, cycle |-> tables.cycle, outage |-> tables.outage,
                     event |-> tables.event, speed |-> tables.speed, intf |-> tables.intf, line |-> tables.line ]

\* The samples are those of the recorded cycles, all of them and no others.
SamplesKept == /\ \A s \in tables.sample : \E i \in Kept : s \in SampleRows(happened[i])
               /\ \A i \in Kept : SampleRows(happened[i]) \subseteq tables.sample
\* A recorded cycle has one row, an unrecorded one has none.
CyclesKept == /\ \A r \in tables.cycle : \E i \in Kept : \E bytes : r = CycleRow(happened[i], bytes)
              /\ \A i \in Kept : \E bytes : CycleRow(happened[i], bytes) \in tables.cycle
              /\ \A q, r \in tables.cycle : q.ts = r.ts => q = r
EventsKept == /\ IsFiniteSet(tables.event)
              /\ \A i \in Kept : EventRows(happened[i]) \subseteq tables.event
TestsKept == \A u \in tables.speed : u.mbit \in {Null, 940}

Covers(o, ts) == o.startedAt <= ts /\ (o.endedAt # Null => ts < o.endedAt)
\* An outage began with a recorded cycle of its kind, and covers every such cycle since.
OutagesKept ==
  /\ tables.outage \subseteq OutageRow
  /\ \A o \in tables.outage : \E i \in Kept :
       o.startedAt = CycleTs(i) /\ (o.scope = "gateway" => Meets[happened[i].meets].gw = 0)
  /\ \A i \in Kept : Meets[happened[i].meets].wan = 0 =>
       \E o \in tables.outage : o.scope = "wan" /\ Covers(o, CycleTs(i))

WorldInv == Ordered /\ Shaped /\ SamplesKept /\ CyclesKept /\ EventsKept /\ TestsKept /\ OutagesKept

-----------------------------------------------------------------------------
(* One more cycle. *)

\* What one cycle does to the outages of a scope: none is forgotten, one that was open is
\* closed at this cycle at the earliest, and a cycle that is down lies in one.
Follows(after, rows, scope, ts, down) ==
  /\ after \subseteq OutageRow
  /\ \A o \in after : \/ down /\ o.scope = scope /\ o.startedAt = ts
                      \/ \E p \in rows : o.scope = p.scope /\ o.startedAt = p.startedAt
  /\ \A p \in rows : \E o \in after : /\ o.scope = p.scope /\ o.startedAt = p.startedAt
                                      /\ \/ o.endedAt = p.endedAt
                                         \/ p.scope = scope /\ p.endedAt = Null /\ o.endedAt = ts
  /\ down => \E o \in after : /\ o.scope = scope /\ o.endedAt = Null
                              /\ o.startedAt = ts \/ \E p \in rows : o.startedAt = p.startedAt

LEMMA AfterCycleFacts ==
  ASSUME NEW rows \in SUBSET OutageRow, NEW scope \in {"wan", "gateway"}, NEW ts \in Nat, NEW down \in BOOLEAN
  PROVE  Follows(AfterCycle(rows, scope, ts, down), rows, scope, ts, down)
<1> DEFINE after == AfterCycle(rows, scope, ts, down)
           open == {o \in rows : o.scope = scope /\ o.endedAt = Null}
           new == [scope |-> scope, startedAt |-> ts, endedAt |-> Null, cycles |-> 1]
           Longer(o) == [o EXCEPT !.cycles = @ + 1]
           Closed(o) == [o EXCEPT !.endedAt = ts]
<1>1. new \in OutageRow /\ new.scope = scope /\ new.startedAt = ts /\ new.endedAt = Null
  BY DEF OutageRow
<1>2. ASSUME NEW o \in rows
      PROVE  /\ Longer(o) \in OutageRow /\ Longer(o).scope = o.scope /\ Longer(o).startedAt = o.startedAt
             /\ Longer(o).endedAt = o.endedAt
             /\ Closed(o) \in OutageRow /\ Closed(o).scope = o.scope /\ Closed(o).startedAt = o.startedAt
             /\ Closed(o).endedAt = ts
  BY DEF OutageRow
<1>3. CASE down /\ open = {}
  <2>1. after = rows \cup {new}
    BY <1>3, Zenon DEF AfterCycle
  <2> HIDE DEF after, new
  <2> QED BY <1>1, <1>3, <2>1 DEF after, Follows
<1>4. CASE down /\ open # {}
  <2>1. after = (rows \ open) \cup {Longer(o) : o \in open}
    BY <1>4, Zenon DEF AfterCycle
  <2> HIDE DEF after, Longer, Closed
  <2>2. after \subseteq OutageRow
    BY <1>2, <2>1
  <2>3. \A o \in after : \E p \in rows : o.scope = p.scope /\ o.startedAt = p.startedAt /\ o.endedAt = p.endedAt
    BY <1>2, <2>1
  <2>4. ASSUME NEW p \in rows
        PROVE  \E o \in after : o.scope = p.scope /\ o.startedAt = p.startedAt /\ o.endedAt = p.endedAt
    BY <1>2, <2>1
  <2>5. \E o \in after : o.scope = scope /\ o.endedAt = Null /\ \E p \in rows : o.startedAt = p.startedAt
    <3>1. PICK p \in open : TRUE
      BY <1>4
    <3> QED BY <2>4, <3>1
  <2> QED BY <1>4, <2>2, <2>3, <2>4, <2>5 DEF after, Follows
<1>5. CASE ~down
  <2>1. after = (rows \ open) \cup {Closed(o) : o \in open}
    BY <1>5, Zenon DEF AfterCycle
  <2> HIDE DEF after, Longer, Closed
  <2>2. after \subseteq OutageRow
    BY <1>2, <2>1
  <2>3. \A o \in after : \E p \in rows : o.scope = p.scope /\ o.startedAt = p.startedAt
    BY <1>2, <2>1
  <2>4. ASSUME NEW p \in rows
        PROVE  \E o \in after : /\ o.scope = p.scope /\ o.startedAt = p.startedAt
                                /\ \/ o.endedAt = p.endedAt
                                   \/ p.scope = scope /\ p.endedAt = Null /\ o.endedAt = ts
    <3>1. CASE p \in open
      BY <1>2, <2>1, <3>1
    <3>2. CASE p \notin open
      BY <2>1, <3>2
    <3> QED BY <3>1, <3>2
  <2> QED BY <1>5, <2>2, <2>3, <2>4 DEF after, Follows
<1> QED BY <1>3, <1>4, <1>5

\* The fields of a cycle's row, of a sample and of an event.
LEMMA RowFields ==
  ASSUME NEW t, NEW bytes
  PROVE  LET r == CycleRow(t, bytes)
         IN /\ r.ts = t.ts /\ r.gateway = (IF t.odd # "blind" THEN PathOf(t) ELSE Null)
            /\ r.link = IF t.odd # "blind" THEN LinkSpeed(t) ELSE Null
            /\ r.home = IF t.odd = "blind" THEN Null ELSE IF PathOf(t) = Home THEN 1 ELSE 0
  BY DEF CycleRow

LEMMA SampleFields ==
  ASSUME NEW t, NEW s \in SampleRows(t)
  PROVE  s.ts = t.ts /\ s.target \in TargetNames
  BY DEF SampleRows, Sample, TargetNames

LEMMA EventFields ==
  ASSUME NEW t, t.ts \in Nat
  PROVE  /\ IsFiniteSet(EventRows(t))
         /\ t.meets = "slip" /\ t.odd # "unwatched" =>
              \E e \in EventRows(t) : e.ts = t.ts + 1 /\ e.source = "link-sampler"
<1> DEFINE e1 == [ts |-> t.ts + 1, source |-> "link-sampler"]
           e2 == [ts |-> t.ts + 2, source |-> "link-sampler"]
<1>1. e1.ts = t.ts + 1 /\ e1.source = "link-sampler"
  OBVIOUS
<1> HIDE DEF e1, e2
<1>2. EventRows(t) = IF t.meets = "slip" /\ t.odd # "unwatched" THEN {e1, e2} ELSE {}
  BY Zenon DEF EventRows, e1, e2
<1>3. IsFiniteSet({e1, e2}) /\ IsFiniteSet({})
  <2>1. IsFiniteSet({e1})
    BY FS_Singleton
  <2>2. IsFiniteSet({e1} \cup {e2})
    BY <2>1, FS_AddElement
  <2>3. {e1} \cup {e2} = {e1, e2}
    OBVIOUS
  <2> QED BY <2>2, <2>3, FS_EmptySet
<1> QED BY <1>1, <1>2, <1>3

\* A cycle, whatever it meets and whether or not it is recorded, leaves the tables true to
\* what happened (probes.ts ingest route).
LEMMA CycleKeepsRecord ==
  ASSUME WorldInv, NEW meets \in DOMAIN Meets, NEW odd \in Oddities \cup {"none"}, CycleHappens(meets, odd)
  PROVE  WorldInv'
<1> DEFINE n == Len(happened)
           t == [ts |-> CycleTs(n + 1), meets |-> meets, odd |-> odd]
           kept == IF odd = "reboot" THEN [i \in DOMAIN counter |-> 0] ELSE counter
           bytes == kept[PathOf(t)] + 2
           wan == AfterCycle(tables.outage, "wan", t.ts, Meets[meets].wan = 0)
           outage == AfterCycle(wan, "gateway", t.ts, Meets[meets].gw = 0)
           speed == IF odd = "test"
                    THEN tables.speed \cup {[ts |-> t.ts, mbit |-> IF Meets[meets].wan = 0 THEN Null ELSE 940]}
                    ELSE tables.speed
           sample == tables.sample \cup SampleRows(t)
           cycle == tables.cycle \cup {CycleRow(t, bytes)}
           event == tables.event \cup EventRows(t)
<1>1. n \in Nat /\ happened \in Seq(Cycle)
  BY LenProperties DEF WorldInv, Ordered
<1>2. t \in Cycle /\ t.ts = CycleTs(n + 1) /\ t.meets = meets /\ t.odd = odd
  BY <1>1, Stamp DEF Cycle
<1>3. /\ happened' = Append(happened, t)
      /\ tables' = IF odd = "missed" THEN tables
                   ELSE [tables EXCEPT !.sample = sample, !.cycle = cycle, !.event = event,
                                       !.outage = outage, !.speed = speed]
  BY Zenon DEF CycleHappens
<1> HIDE DEF t, kept, bytes
<1>4. /\ happened' \in Seq(Cycle) /\ Len(happened') = n + 1 /\ happened'[n + 1] = t
      /\ \A i \in 1..n : happened'[i] = happened[i]
  BY <1>1, <1>2, <1>3, AppendFacts
<1>5. Ordered'
  <2> SUFFICES ASSUME NEW i \in 1..n + 1 PROVE happened'[i].ts = CycleTs(i)
    BY <1>4 DEF Ordered
  <2> QED BY <1>1, <1>2, <1>4 DEF WorldInv, Ordered
<1>6. Kept \subseteq 1..n /\ Kept' = IF odd = "missed" THEN Kept ELSE Kept \cup {n + 1}
  <2>1. Kept \subseteq 1..n /\ Kept' = {i \in 1..n + 1 : happened'[i].odd # "missed"}
    BY <1>4 DEF Kept
  <2>2. \A i \in 1..n : i \in Kept' <=> i \in Kept
    BY <1>1, <1>4, <2>1 DEF Kept
  <2>3. n + 1 \in Kept' <=> odd # "missed"
    BY <1>1, <1>2, <1>4, <2>1
  <2>4. Kept' \subseteq 1..n \cup {n + 1}
    BY <1>1, <2>1
  <2> QED BY <2>1, <2>2, <2>3, <2>4
<1>7. \A i \in Kept : i \in 1..n /\ i \in Nat /\ happened'[i] = happened[i] /\ happened[i].ts = CycleTs(i)
                     /\ CycleTs(i) < CycleTs(n + 1)
  BY <1>1, <1>4, <1>6, Stamp DEF WorldInv, Ordered
<1>8. CASE odd = "missed"
  <2>1. tables' = tables /\ Kept' = Kept
    BY <1>3, <1>6, <1>8
  <2>2. \A i \in Kept : happened'[i] = happened[i]
    BY <1>7
  <2>3. Shaped' /\ EventsKept' /\ TestsKept'
    BY <2>1, <2>2 DEF WorldInv, Shaped, EventsKept, TestsKept
  <2>4. SamplesKept'
    BY <2>1, <2>2 DEF WorldInv, SamplesKept
  <2>5. CyclesKept'
    BY <2>1, <2>2 DEF WorldInv, CyclesKept
  <2>6. OutagesKept'
    BY <2>1, <2>2 DEF WorldInv, OutagesKept
  <2> QED BY <1>5, <2>3, <2>4, <2>5, <2>6 DEF WorldInv
<1>9. CASE odd # "missed"
  <2>3. tables' = [ sample |-> sample, cycle |-> cycle, outage |-> outage, event |-> event, speed |-> speed,
                    intf |-> tables.intf, line |-> tables.line ]
    <3> HIDE DEF sample, cycle, outage, event, speed
    <3>1. tables' = [tables EXCEPT !.sample = sample, !.cycle = cycle, !.event = event,
                                   !.outage = outage, !.speed = speed]
      BY <1>3, <1>9
    <3>2. tables = [ sample |-> tables.sample, cycle |-> tables.cycle, outage |-> tables.outage,
                     event |-> tables.event, speed |-> tables.speed, intf |-> tables.intf, line |-> tables.line ]
      BY DEF WorldInv, Shaped
    <3> QED BY <3>1, <3>2
  <2>4. /\ tables'.sample = sample /\ tables'.cycle = cycle /\ tables'.event = event
        /\ tables'.outage = outage /\ tables'.speed = speed /\ Shaped'
    <3> HIDE DEF sample, cycle, outage, event, speed
    <3> QED BY <2>3 DEF Shaped
  <2>5. Kept' = Kept \cup {n + 1} /\ happened'[n + 1] = t
    BY <1>4, <1>6, <1>9
  <2>6. SamplesKept'
    <3>1. /\ \A s \in tables.sample : \E i \in Kept : s \in SampleRows(happened[i])
          /\ \A i \in Kept : SampleRows(happened[i]) \subseteq tables.sample
      BY DEF WorldInv, SamplesKept
    <3> QED BY <1>7, <2>4, <2>5, <3>1 DEF SamplesKept
  <2>7. CyclesKept'
    <3>1. /\ \A r \in tables.cycle : \E i \in Kept : \E b : r = CycleRow(happened[i], b)
          /\ \A i \in Kept : \E b : CycleRow(happened[i], b) \in tables.cycle
          /\ \A q, r \in tables.cycle : q.ts = r.ts => q = r
      BY DEF WorldInv, CyclesKept
    <3>2. CycleRow(t, bytes).ts = CycleTs(n + 1)
      BY <1>2, RowFields
    <3>3. \A r \in tables.cycle : r.ts # CycleTs(n + 1)
      <4> SUFFICES ASSUME NEW r \in tables.cycle PROVE r.ts # CycleTs(n + 1)
        OBVIOUS
      <4>1. PICK i \in Kept : \E b : r = CycleRow(happened[i], b)
        BY <3>1
      <4>0. PICK b : r = CycleRow(happened[i], b)
        BY <4>1
      <4>2. CycleTs(i) < CycleTs(n + 1) /\ CycleTs(n + 1) \in Nat /\ CycleTs(i) \in Nat
        BY <1>1, <1>7, Stamp
      <4>3. r.ts = CycleTs(i)
        BY <1>7, <4>0, <4>1, RowFields
      <4> QED BY <4>2, <4>3
    <3>4. ASSUME NEW r \in cycle PROVE \E i \in Kept' : \E b : r = CycleRow(happened'[i], b)
      <4>1. CASE r \in tables.cycle
        <5>1. PICK i \in Kept : \E b : r = CycleRow(happened[i], b)
          BY <3>1, <4>1
        <5>2. i \in Kept' /\ happened'[i] = happened[i]
          BY <1>7, <2>5
        <5> QED BY <5>1, <5>2
      <4>2. CASE r = CycleRow(t, bytes)
        <5>1. n + 1 \in Kept' /\ r = CycleRow(happened'[n + 1], bytes)
          BY <2>5, <4>2
        <5> QED BY <5>1
      <4> QED BY <4>1, <4>2
    <3>5. ASSUME NEW i \in Kept' PROVE \E b : CycleRow(happened'[i], b) \in cycle
      <4>1. CASE i \in Kept
        <5>1. PICK b : CycleRow(happened[i], b) \in tables.cycle
          BY <3>1, <4>1
        <5>2. CycleRow(happened'[i], b) \in cycle
          BY <1>7, <4>1, <5>1
        <5> QED BY <5>2
      <4>2. CASE i = n + 1
        <5>1. CycleRow(happened'[i], bytes) \in cycle
          BY <2>5, <4>2
        <5> QED BY <5>1
      <4> QED BY <2>5, <4>1, <4>2
    <3>6. \A q, r \in cycle : q.ts = r.ts => q = r
      BY <3>1, <3>2, <3>3
    <3> QED BY <2>4, <3>4, <3>5, <3>6 DEF CyclesKept
  <2>8. EventsKept'
    <3>1. IsFiniteSet(event)
      <4>1. IsFiniteSet(tables.event) /\ IsFiniteSet(EventRows(t))
        BY <1>1, <1>2, EventFields, Stamp DEF WorldInv, EventsKept
      <4> QED BY <4>1, FS_Union
    <3>2. \A i \in Kept' : EventRows(happened'[i]) \subseteq event
      BY <1>7, <2>5 DEF WorldInv, EventsKept
    <3> QED BY <2>4, <3>1, <3>2 DEF EventsKept
  <2>9. TestsKept'
    <3>1. \A u \in speed : u.mbit \in {Null, 940}
      BY DEF WorldInv, TestsKept
    <3> QED BY <2>4, <3>1 DEF TestsKept
  <2>10. OutagesKept'
    <3>1. /\ tables.outage \subseteq OutageRow
          /\ \A o \in tables.outage : \E i \in Kept :
               o.startedAt = CycleTs(i) /\ (o.scope = "gateway" => Meets[happened[i].meets].gw = 0)
          /\ \A i \in Kept : Meets[happened[i].meets].wan = 0 =>
               \E o \in tables.outage : o.scope = "wan" /\ Covers(o, CycleTs(i))
      BY DEF WorldInv, OutagesKept
    <3>2. t.ts \in Nat /\ t.ts = CycleTs(n + 1)
      BY <1>1, <1>2, Stamp
    <3>3. PICK down \in BOOLEAN, dead \in BOOLEAN : down = (Meets[meets].wan = 0) /\ dead = (Meets[meets].gw = 0)
      OBVIOUS
    <3>4. Follows(wan, tables.outage, "wan", t.ts, down)
      <4>1. wan = AfterCycle(tables.outage, "wan", t.ts, down)
        BY <3>3
      <4> HIDE DEF wan
      <4> QED BY <3>1, <3>2, <4>1, AfterCycleFacts
    <3>5. Follows(outage, wan, "gateway", t.ts, dead)
      <4>1. outage = AfterCycle(wan, "gateway", t.ts, dead)
        BY <3>3
      <4> HIDE DEF outage, wan
      <4>2. wan \in SUBSET OutageRow
        BY <3>4 DEF Follows
      <4> QED BY <3>2, <4>1, <4>2, AfterCycleFacts
    <3> HIDE DEF outage, wan
    <3>6. ASSUME NEW o \in outage
          PROVE  \E i \in Kept' : /\ o.startedAt = CycleTs(i)
                                  /\ o.scope = "gateway" => Meets[happened'[i].meets].gw = 0
      <4>1. CASE \E p \in tables.outage : o.scope = p.scope /\ o.startedAt = p.startedAt
        <5>1. PICK i \in Kept : /\ o.startedAt = CycleTs(i)
                                /\ o.scope = "gateway" => Meets[happened[i].meets].gw = 0
          BY <3>1, <4>1
        <5>2. i \in Kept' /\ happened'[i] = happened[i]
          BY <1>7, <2>5
        <5> QED BY <5>1, <5>2
      <4>2. CASE o.startedAt = t.ts /\ (o.scope = "gateway" => dead)
        BY <1>2, <2>5, <3>2, <3>3, <4>2
      <4>3. CASE dead /\ o.scope = "gateway" /\ o.startedAt = t.ts
        BY <4>2, <4>3
      <4>4. CASE \E p \in wan : o.scope = p.scope /\ o.startedAt = p.startedAt
        <5>1. PICK p \in wan : o.scope = p.scope /\ o.startedAt = p.startedAt
          BY <4>4
        <5>2. CASE down /\ p.scope = "wan" /\ p.startedAt = t.ts
          BY <4>2, <5>1, <5>2
        <5> QED BY <3>4, <4>1, <5>1, <5>2 DEF Follows
      <4> QED BY <3>5, <4>3, <4>4 DEF Follows
    <3>7. ASSUME NEW i \in Kept', Meets[happened'[i].meets].wan = 0
          PROVE  \E o \in outage : o.scope = "wan" /\ Covers(o, CycleTs(i))
      <4>1. CycleTs(i) \in Nat /\ CycleTs(i) <= t.ts
        <5>1. CASE i \in Kept
          BY <1>7, <3>2, <5>1, Stamp
        <5>2. CASE i = n + 1
          BY <3>2, <5>2
        <5> QED BY <2>5, <5>1, <5>2
      <4>2. \E p \in wan : /\ p.scope = "wan" /\ p.startedAt <= CycleTs(i)
                           /\ p.endedAt # Null => CycleTs(i) < p.endedAt
        <5>1. CASE i \in Kept
          <6>1. happened'[i] = happened[i] /\ CycleTs(i) < t.ts
            BY <1>7, <3>2, <5>1
          <6>2. PICK p \in tables.outage : p.scope = "wan" /\ Covers(p, CycleTs(i))
            BY <3>1, <3>7, <5>1, <6>1
          <6>3. PICK o \in wan : /\ o.scope = p.scope /\ o.startedAt = p.startedAt
                                 /\ \/ o.endedAt = p.endedAt
                                    \/ p.endedAt = Null /\ o.endedAt = t.ts
            BY <3>4 DEF Follows
          <6> QED BY <6>1, <6>2, <6>3 DEF Covers
        <5>2. CASE i = n + 1
          <6>1. down
            BY <1>2, <2>5, <3>3, <3>7, <5>2
          <6>2. PICK o \in wan : /\ o.scope = "wan" /\ o.endedAt = Null
                                 /\ o.startedAt = t.ts \/ \E p \in tables.outage : o.startedAt = p.startedAt
            BY <3>4, <6>1 DEF Follows
          <6>3. o.startedAt <= CycleTs(i)
            <7>1. CASE o.startedAt = t.ts
              BY <3>2, <5>2, <7>1
            <7>2. CASE \E p \in tables.outage : o.startedAt = p.startedAt
              <8>1. PICK j \in Kept : o.startedAt = CycleTs(j)
                BY <3>1, <7>2
              <8>2. CycleTs(j) < CycleTs(n + 1) /\ CycleTs(j) \in Nat /\ CycleTs(n + 1) \in Nat
                BY <1>7, <3>2, Stamp
              <8> QED BY <5>2, <8>1, <8>2
            <7> QED BY <6>2, <7>1, <7>2
          <6> QED BY <6>2, <6>3
        <5> QED BY <2>5, <5>1, <5>2
      <4>3. PICK p \in wan : /\ p.scope = "wan" /\ p.startedAt <= CycleTs(i)
                             /\ p.endedAt # Null => CycleTs(i) < p.endedAt
        BY <4>2
      <4>4. PICK o \in outage : /\ o.scope = p.scope /\ o.startedAt = p.startedAt
                                /\ \/ o.endedAt = p.endedAt
                                   \/ p.scope = "gateway" /\ p.endedAt = Null /\ o.endedAt = t.ts
        BY <3>5 DEF Follows
      <4> QED BY <4>3, <4>4 DEF Covers
    <3> QED BY <2>4, <3>5, <3>6, <3>7 DEF OutagesKept, Follows
  <2> QED BY <1>5, <2>4, <2>6, <2>7, <2>8, <2>9, <2>10 DEF WorldInv
<1> QED BY <1>8, <1>9

\* The tables hold the rows of the recorded cycles and of no others, at all times.
LEMMA RecordHolds == WorldSpec => []WorldInv
<1>1. WorldInit => WorldInv
  <2> SUFFICES ASSUME WorldInit PROVE WorldInv
    OBVIOUS
  <2>1. happened = <<>> /\ happened \in Seq(Cycle) /\ Len(happened) = 0
    BY EmptyFacts DEF WorldInit
  <2>2. 1..Len(happened) = {} /\ Kept = {}
    BY <2>1 DEF Kept
  <2>3. /\ tables.sample = {} /\ tables.cycle = {} /\ tables.outage = {} /\ tables.event = {}
        /\ tables.speed = {} /\ Shaped
    BY DEF WorldInit, Shaped
  <2>4. Ordered
    BY <2>1, <2>2 DEF Ordered
  <2>5. SamplesKept /\ CyclesKept /\ EventsKept /\ TestsKept /\ OutagesKept
    BY <2>2, <2>3, FS_EmptySet DEF SamplesKept, CyclesKept, EventsKept, TestsKept, OutagesKept
  <2> QED BY <2>3, <2>4, <2>5 DEF WorldInv
<1>2. WorldInv /\ [WorldNext]_worldVars => WorldInv'
  <2> SUFFICES ASSUME WorldInv, [WorldNext]_worldVars PROVE WorldInv'
    OBVIOUS
  <2>1. CASE WorldNext
    <3>1. PICK meets \in DOMAIN Meets : \E odd \in Oddities \cup {"none"} : CycleHappens(meets, odd)
      BY <2>1 DEF WorldNext
    <3>2. PICK odd \in Oddities \cup {"none"} : CycleHappens(meets, odd)
      BY <3>1
    <3> QED BY <3>1, <3>2, CycleKeepsRecord
  <2>2. CASE UNCHANGED worldVars
    <3>1. tables' = tables /\ happened' = happened /\ Kept' = Kept
      BY <2>2 DEF worldVars, Kept
    <3>2. Ordered' /\ Shaped' /\ TestsKept' /\ EventsKept'
      BY <3>1 DEF WorldInv, Ordered, Shaped, TestsKept, EventsKept
    <3>3. SamplesKept' /\ CyclesKept'
      BY <3>1 DEF WorldInv, SamplesKept, CyclesKept
    <3>4. OutagesKept'
      BY <3>1 DEF WorldInv, OutagesKept
    <3> QED BY <3>2, <3>3, <3>4 DEF WorldInv
  <2> QED BY <2>1, <2>2
<1> QED BY <1>1, <1>2, PTL DEF WorldSpec

-----------------------------------------------------------------------------
(* Downtime. *)

\* The recorded cycles of a window, by their places.
LEMMA RecordedCycles ==
  ASSUME WorldInv, NEW from \in Nat
  PROVE  /\ \A t \in Recorded(from) : \E i \in Kept : t = happened[i] /\ from <= CycleTs(i)
         /\ \A i \in Kept : from <= CycleTs(i) => happened[i] \in Recorded(from)
         /\ \A i \in Kept : /\ i \in 1..Len(happened) /\ happened[i] \in Cycle /\ happened[i].ts = CycleTs(i)
                            /\ CycleTs(i) \in Nat /\ CycleTs(i) <= Clock - 10 /\ At(CycleTs(i)) = happened[i]
         /\ Clock \in Nat
<1>1. /\ Len(happened) \in Nat /\ DOMAIN happened = 1..Len(happened)
      /\ \A i \in 1..Len(happened) : happened[i] \in Cycle /\ happened[i].ts = CycleTs(i)
  BY SeqFacts DEF WorldInv, Ordered
<1>2. \A i \in 1..Len(happened) :
        CycleTs(i) \in Nat /\ CycleTs(i) <= CycleTs(Len(happened)) /\ CycleTs(i) \div ProbeCycleS = i
  <2> SUFFICES ASSUME NEW i \in 1..Len(happened)
               PROVE  CycleTs(i) \in Nat /\ CycleTs(i) <= CycleTs(Len(happened)) /\ CycleTs(i) \div ProbeCycleS = i
    OBVIOUS
  <2>1. i \in Nat /\ (i < Len(happened) \/ i = Len(happened))
    <3>1. Len(happened) \in Nat
      BY <1>1
    <3> QED BY <3>1
  <2>2. CycleTs(i) \in Nat /\ CycleTs(Len(happened)) \in Nat /\ CycleTs(i) \div ProbeCycleS = i
    BY <1>1, <2>1, Stamp
  <2>3. i < Len(happened) => CycleTs(i) < CycleTs(Len(happened))
    BY <1>1, <2>1, Stamp
  <2> QED BY <2>1, <2>2, <2>3
<1>3. Clock \in Nat /\ CycleTs(Len(happened)) <= Clock - 10 /\ CycleTs(Len(happened)) \in Nat
  <2>1. PICK last \in Nat : last = CycleTs(Len(happened))
    BY <1>1, Stamp
  <2>2. Clock = last + ReadAfterS
    BY <2>1 DEF Clock
  <2>3. ReadAfterS \in Nat /\ ReadAfterS >= 10
    BY ReadsAssumption, InstantAssumption
  <2> QED BY <2>1, <2>2, <2>3
<1>4. ASSUME NEW t \in Recorded(from) PROVE \E i \in Kept : t = happened[i] /\ from <= CycleTs(i)
  BY <1>1, <1>4 DEF Recorded, InWindow, Kept
<1>5. ASSUME NEW i \in Kept, from <= CycleTs(i) PROVE happened[i] \in Recorded(from)
  BY <1>1, <1>2, <1>5 DEF Recorded, InWindow, Kept
<1>6. ASSUME NEW i \in Kept
      PROVE  /\ i \in 1..Len(happened) /\ happened[i] \in Cycle /\ happened[i].ts = CycleTs(i)
             /\ CycleTs(i) \in Nat /\ CycleTs(i) <= Clock - 10 /\ At(CycleTs(i)) = happened[i]
  BY <1>1, <1>2, <1>3 DEF Kept, At
<1> QED BY <1>3, <1>4, <1>5, <1>6

\* A window begins at an instant.
LEMMA WindowsAre == ASSUME WorldInv, NEW from \in Windows PROVE from \in Nat
<1>1. Len(happened) \in Nat
  BY LenProperties DEF WorldInv, Ordered
<1>2. PICK n \in 0..Len(happened), offset \in {0, Phase} : from = n * ProbeCycleS + offset
  BY DEF Windows
<1>3. n \in Nat /\ n * ProbeCycleS \in Nat /\ offset \in Nat
  BY <1>1, ReadsAssumption, InstantAssumption
<1> QED BY <1>2, <1>3

\* Every recorded cycle in which no anchor answered lies in an outage that the window lists,
\* whatever became of the line since, and no such cycle counts as degraded (outages.ts,
\* range-summary.ts).
THEOREM DowntimeListed == WorldSpec => []DowntimeIsListed
<1>1. ASSUME WorldInv PROVE DowntimeIsListed
  <2> SUFFICES ASSUME NEW from \in Windows, NEW t \in Recorded(from), Meets[t.meets].wan = 0
               PROVE  /\ \E o \in {p \in OutagesListed(tables, from, Clock, 0) : p.scope = "wan"} :
                           o.startedAt <= t.ts /\ (o.endedAt # Null => t.ts < o.endedAt)
                      /\ t.ts \notin Degraded(tables, from, Clock)
    BY DEF DowntimeIsListed
  <2>1. from \in Nat
    BY <1>1, WindowsAre
  <2>2. PICK i \in Kept : t = happened[i] /\ from <= CycleTs(i)
    BY <1>1, <2>1, RecordedCycles
  <2>3. t.ts = CycleTs(i) /\ CycleTs(i) \in Nat /\ CycleTs(i) <= Clock - 10 /\ Clock \in Nat
    BY <1>1, <2>1, <2>2, RecordedCycles
  <2>4. PICK o \in tables.outage : o.scope = "wan" /\ Covers(o, CycleTs(i))
    BY <1>1, <2>2 DEF WorldInv, OutagesKept
  <2>5. o.startedAt \in Nat /\ (o.endedAt # Null => o.endedAt \in Nat)
    BY <1>1, <2>4 DEF WorldInv, OutagesKept, OutageRow
  <2>6. o.startedAt <= t.ts /\ (o.endedAt # Null => t.ts < o.endedAt)
    BY <2>3, <2>4 DEF Covers
  <2>7. o \in OutagesListed(tables, from, Clock, 0)
    BY <2>1, <2>2, <2>3, <2>4, <2>5, <2>6 DEF OutagesListed
  <2>8. t.ts \notin Degraded(tables, from, Clock)
    BY <2>3, <2>4, <2>5, <2>6 DEF Degraded
  <2> QED BY <2>4, <2>6, <2>7, <2>8
<1> QED BY <1>1, RecordHolds, PTL

-----------------------------------------------------------------------------
(* What the rows of a recorded cycle say. *)

\* What becomes of the echoes tells a cycle by its kind.
LEMMA MeetsAre ==
  ASSUME NEW m \in DOMAIN Meets
  PROVE  /\ Meets[m].gw \in {0, 2, 4} /\ Meets[m].wan \in {0, 2, 4} /\ Meets[m].rtt \in Nat \ {0}
         /\ Meets[m].gw = 2 \/ m = "stall" => Meets[m].local
         /\ Meets[m].gw = 0 => Meets[m].forwards \/ m \in {"dead", "slip", "away"}
         /\ m = "dead" => Meets[m].gw = 0 /\ Meets[m].wan = 0
  BY DEF Meets

\* The row a recorded cycle has, and the cycle a row is of.
RowOf(r, i) ==
  /\ r.ts = CycleTs(i)
  /\ r.link = IF happened[i].odd # "blind" THEN LinkSpeed(happened[i]) ELSE Null
  /\ r.home = IF happened[i].odd = "blind" THEN Null ELSE IF PathOf(happened[i]) = Home THEN 1 ELSE 0

\* Each recorded cycle has its row and each row its cycle.
LEMMA RowsOfCycles ==
  ASSUME WorldInv
  PROVE  /\ \A r \in tables.cycle : \E i \in Kept : RowOf(r, i)
         /\ \A i \in Kept : \E r \in tables.cycle : RowOf(r, i)
         /\ \A i \in Kept : \A r \in tables.cycle : r.ts = CycleTs(i) => RowOf(r, i)
         /\ \A q, r \in tables.cycle : q.ts = r.ts => q = r
<1>1. \A i \in Kept : i \in Nat /\ happened[i].ts = CycleTs(i)
  BY SeqFacts DEF WorldInv, Ordered, Kept
<1>2. ASSUME NEW i \in Kept, NEW b PROVE RowOf(CycleRow(happened[i], b), i)
  BY <1>1, RowFields DEF RowOf
<1>3. ASSUME NEW r \in tables.cycle PROVE \E i \in Kept : RowOf(r, i)
  <2>1. PICK i \in Kept : \E b : r = CycleRow(happened[i], b)
    BY DEF WorldInv, CyclesKept
  <2> QED BY <1>2, <2>1
<1>4. ASSUME NEW i \in Kept PROVE \E r \in tables.cycle : RowOf(r, i)
  <2>1. PICK b : CycleRow(happened[i], b) \in tables.cycle
    BY DEF WorldInv, CyclesKept
  <2> QED BY <1>2, <2>1
<1>5. \A q, r \in tables.cycle : q.ts = r.ts => q = r
  BY DEF WorldInv, CyclesKept
<1>6. ASSUME NEW i \in Kept, NEW r \in tables.cycle, r.ts = CycleTs(i) PROVE RowOf(r, i)
  <2>1. PICK q \in tables.cycle : RowOf(q, i)
    BY <1>4
  <2>2. q.ts = CycleTs(i)
    BY <2>1 DEF RowOf
  <2> QED BY <1>5, <1>6, <2>1, <2>2
<1> QED BY <1>3, <1>4, <1>5, <1>6

\* As many round trips as echoes came back.
LEMMA RttsFacts ==
  ASSUME NEW t, NEW n \in Nat
  PROVE  /\ Len(Rtts(t, n)) = n
         /\ t.meets # "stall" => Rtts(t, n) = [k \in 1..n |-> Meets[t.meets].rtt]
<1>1. ASSUME t.meets # "stall" PROVE Rtts(t, n) = [k \in 1..n |-> Meets[t.meets].rtt]
  BY <1>1 DEF Rtts
<1>2. Len(Rtts(t, n)) = n
  BY DEF Rtts
<1> QED BY <1>1, <1>2

\* The median and the worst of round trips that are all alike.
LEMMA ConstantTrips ==
  ASSUME NEW n \in {2, 4}, NEW c \in Nat
  PROVE  LET trips == [k \in 1..n |-> c]
         IN Percentile(trips, 50) = c /\ Max(ToSet(trips)) = c /\ trips # <<>>
<1> DEFINE trips == [k \in 1..n |-> c]
<1>1. Len(trips) = n /\ DOMAIN trips = 1..n /\ \A k \in 1..n : trips[k] = c
  OBVIOUS
<1>2. trips # <<>>
  <2>1. Len(<<>>) = 0
    BY EmptyFacts
  <2> QED BY <1>1, <2>1
<1> HIDE DEF trips
<1>3. ToSet(trips) = {c}
  <2>1. ToSet(trips) \subseteq {c}
    BY <1>1 DEF ToSet
  <2>2. trips[1] \in ToSet(trips) /\ trips[1] = c
    BY <1>1 DEF ToSet
  <2> QED BY <2>1, <2>2
<1>4. Max(ToSet(trips)) = c
  BY <1>3 DEF Max
<1>5. ASSUME NEW k \in 1..n PROVE Ascending(trips, k) = c
  <2> DEFINE below == {i \in DOMAIN trips : trips[i] < c}
             upTo == {i \in DOMAIN trips : trips[i] <= c}
  <2>1. below = {} /\ upTo = 1..n
    BY <1>1
  <2>2. Cardinality({}) = 0 /\ Cardinality(1..n) = n
    <3>1. 1 \in Int /\ n \in Int /\ ~(1 > n) /\ n - 1 + 1 = n
      OBVIOUS
    <3>2. Cardinality(1..n) = n
      BY <3>1, FS_Interval
    <3> QED BY <3>2, FS_EmptySet
  <2> HIDE DEF below, upTo
  <2>3. Cardinality(below) < k /\ k <= Cardinality(upTo)
    BY <2>1, <2>2
  <2> QED BY <1>3, <2>3 DEF Ascending, below, upTo
<1>6. Percentile(trips, 50) = c
  <2>1. CASE n = 2
    <3>1. Percentile(trips, 50) = Ascending(trips, 1) + ((Ascending(trips, 2) - Ascending(trips, 1)) * 50) \div 100
      <4>1. 50 * (Len(trips) - 1) = 50 /\ 50 \div 100 + 1 = 1 /\ (50 + 99) \div 100 + 1 = 2 /\ 50 % 100 = 50
        BY <1>1, <2>1
      <4> QED BY <1>2, <4>1 DEF Percentile
    <3>2. Ascending(trips, 1) = c /\ Ascending(trips, 2) = c
      BY <1>5, <2>1
    <3> QED BY <3>1, <3>2
  <2>2. CASE n = 4
    <3>1. Percentile(trips, 50) = Ascending(trips, 2) + ((Ascending(trips, 3) - Ascending(trips, 2)) * 50) \div 100
      <4>1. 50 * (Len(trips) - 1) = 150 /\ 150 \div 100 + 1 = 2 /\ (150 + 99) \div 100 + 1 = 3 /\ 150 % 100 = 50
        BY <1>1, <2>2
      <4> QED BY <1>2, <4>1 DEF Percentile
    <3>2. Ascending(trips, 2) = c /\ Ascending(trips, 3) = c
      BY <1>5, <2>2
    <3> QED BY <3>1, <3>2
  <2> QED BY <2>1, <2>2
<1> QED BY <1>2, <1>4, <1>6 DEF trips

\* What a sample of a cycle counts.
LEMMA SampleCounts ==
  ASSUME NEW t, t.meets \in DOMAIN Meets, NEW s \in SampleRows(t)
  PROVE  \E n \in {0, 2, 4} :
           /\ s.received = n /\ s.loss = 25 * (4 - n)
           /\ s.target = GatewayTarget => n = Meets[t.meets].gw
           /\ s.target \in WanTargets => n \in {0, Meets[t.meets].wan}
           /\ t.meets # "stall" /\ n # 0 => s.med = Meets[t.meets].rtt /\ s.max = Meets[t.meets].rtt
<1> DEFINE gw == Meets[t.meets].gw
           wan == Meets[t.meets].wan
           c == Meets[t.meets].rtt
<1>1. gw \in {0, 2, 4} /\ wan \in {0, 2, 4} /\ c \in Nat
  BY MeetsAre
<1> HIDE DEF gw, wan, c
<1>2. PICK n \in {0, 2, 4}, w \in TargetNames :
        /\ s = Sample(t.ts, w, 4, Rtts(t, n))
        /\ w = GatewayTarget => n = gw
        /\ w \in WanTargets => n \in {0, wan}
  <2>1. CASE s = Sample(t.ts, GatewayTarget, 4, Rtts(t, gw))
    BY <1>1, <2>1, ReadsAssumption DEF TargetNames
  <2>2. CASE \E w \in WanTargets : s = Sample(t.ts, w, 4, Rtts(t, IF Silent(t, w) THEN 0 ELSE wan))
    <3>1. PICK w \in WanTargets : s = Sample(t.ts, w, 4, Rtts(t, IF Silent(t, w) THEN 0 ELSE wan))
      BY <2>2
    <3>2. PICK n \in {0, 2, 4} : n = IF Silent(t, w) THEN 0 ELSE wan
      BY <1>1
    <3> QED BY <3>1, <3>2, ReadsAssumption DEF TargetNames
  <2> QED BY <2>1, <2>2 DEF SampleRows, gw, wan
<1>3. Len(Rtts(t, n)) = n /\ (t.meets # "stall" => Rtts(t, n) = [k \in 1..n |-> c])
  <2>1. n \in Nat
    BY <1>2
  <2> QED BY <2>1, RttsFacts DEF c
<1>4. s.target = w /\ s.received = n /\ s.loss = 25 * (4 - n)
  <2>1. s.target = w /\ s.received = n /\ s.loss = (100 * (4 - n)) \div 4
    BY <1>2, <1>3 DEF Sample
  <2> QED BY <1>2, <2>1
<1>5. ASSUME t.meets # "stall", n # 0 PROVE s.med = c /\ s.max = c
  <2>1. n \in {2, 4}
    BY <1>2, <1>5
  <2>2. Percentile(Rtts(t, n), 50) = c /\ Max(ToSet(Rtts(t, n))) = c /\ Rtts(t, n) # <<>>
    BY <1>1, <1>3, <1>5, <2>1, ConstantTrips
  <2> QED BY <1>2, <2>2 DEF Sample
<1> QED BY <1>2, <1>4, <1>5 DEF gw, wan, c

-----------------------------------------------------------------------------
(* The home line. *)

\* The cycles that have samples in a window are its recorded ones.
LEMMA StampsAre ==
  ASSUME WorldInv, NEW from \in Nat
  PROVE  LET stamps == Stamps(Within(tables.sample, from, Clock))
         IN /\ IsFiniteSet(stamps)
            /\ \A i \in Kept : from <= CycleTs(i) => CycleTs(i) \in stamps
            /\ \A ts \in stamps : \E i \in Kept : ts = CycleTs(i) /\ from <= ts /\ ts <= Clock
<1> DEFINE stamps == Stamps(Within(tables.sample, from, Clock))
<1>1. ASSUME NEW i \in Kept
      PROVE  happened[i].ts = CycleTs(i) /\ CycleTs(i) \in Nat /\ CycleTs(i) <= Clock - 10 /\ Clock \in Nat
  BY RecordedCycles
<1>2. ASSUME NEW ts \in stamps PROVE \E i \in Kept : ts = CycleTs(i) /\ from <= ts /\ ts <= Clock
  <2>1. PICK s \in tables.sample : ts = s.ts /\ from <= s.ts /\ s.ts <= Clock
    BY DEF Stamps, Within
  <2>2. PICK i \in Kept : s \in SampleRows(happened[i])
    BY DEF WorldInv, SamplesKept
  <2>3. s.ts = CycleTs(i)
    BY <1>1, <2>2, SampleFields
  <2> QED BY <2>1, <2>3
<1>3. ASSUME NEW i \in Kept, from <= CycleTs(i) PROVE CycleTs(i) \in stamps
  <2>1. PICK s \in SampleRows(happened[i]) : TRUE
    BY DEF SampleRows
  <2>2. s.ts = CycleTs(i) /\ s \in tables.sample
    BY <1>1, SampleFields DEF WorldInv, SamplesKept
  <2>3. from <= s.ts /\ s.ts <= Clock
    BY <1>1, <1>3, <2>2
  <2> QED BY <2>2, <2>3 DEF Stamps, Within
<1>4. IsFiniteSet(stamps)
  <2>1. Clock \in Nat
    BY RecordedCycles
  <2>2. stamps \in SUBSET (0..Clock)
    BY <1>1, <1>2, <2>1
  <2>3. IsFiniteSet(0..Clock)
    BY <2>1, FS_Interval
  <2> HIDE DEF stamps
  <2> QED BY <2>2, <2>3, FS_Subset
<1> QED BY <1>2, <1>3, <1>4

\* Rows of the window that are as many as its recorded cycles are one for each of them.
LEMMA RowForEach ==
  ASSUME WorldInv, NEW from \in Nat, NEW rows \in SUBSET Within(tables.cycle, from, Clock),
         Cardinality(rows) = Cardinality(Stamps(Within(tables.sample, from, Clock))),
         NEW i \in Kept, from <= CycleTs(i)
  PROVE  \E r \in rows : RowOf(r, i)
<1> DEFINE stamps == Stamps(Within(tables.sample, from, Clock))
           f == [r \in rows |-> r.ts]
<1>1. rows \subseteq tables.cycle /\ \A r \in rows : from <= r.ts /\ r.ts <= Clock
  BY DEF Within
<1>2. ASSUME NEW r \in rows PROVE r.ts \in stamps
  <2>1. PICK j \in Kept : RowOf(r, j)
    BY <1>1, RowsOfCycles
  <2>2. r.ts = CycleTs(j) /\ from <= r.ts
    BY <1>1, <2>1 DEF RowOf
  <2> QED BY <2>1, <2>2, StampsAre
<1>3. IsFiniteSet(stamps) /\ CycleTs(i) \in stamps
  BY StampsAre
<1>4. \A q, r \in rows : q.ts = r.ts => q = r
  BY <1>1, RowsOfCycles
<1>5. Cardinality(rows) = Cardinality(stamps)
  OBVIOUS
<1> HIDE DEF stamps
<1>6. f \in Injection(rows, stamps)
  BY <1>2, <1>4 DEF Injection, IsInjective
<1> HIDE DEF f
<1>7. f \in Surjection(rows, stamps)
  BY <1>3, <1>5, <1>6, FS_Injection
<1>8. PICK r \in rows : f[r] = CycleTs(i)
  BY <1>3, <1>7 DEF Surjection
<1>9. r.ts = CycleTs(i)
  BY <1>8 DEF f
<1> QED BY <1>1, <1>9, RowsOfCycles

\* A window is called all, or none, of the home line only when it was (homeLineVerdict).
LEMMA HomeIsHome == ASSUME WorldInv PROVE HomeClaim
<1> SUFFICES ASSUME NEW from \in Windows
             PROVE  LET says == RangeSummary(tables, from, Clock).onHomeLine
                    IN /\ says = "all" => \A t \in Recorded(from) : t.odd # "blind" /\ PathOf(t) = Home
                       /\ says = "none" => \A t \in Recorded(from) : t.odd # "blind" /\ PathOf(t) = Away
  BY DEF HomeClaim
<1> DEFINE stamps == Stamps(Within(tables.sample, from, Clock))
           rows == Within(tables.cycle, from, Clock)
           Of(h) == {r \in rows : r.home = h}
           says == RangeSummary(tables, from, Clock).onHomeLine
<1>1. says = HomeLineVerdict(Cardinality(stamps), Cardinality(Of(1)), Cardinality(Of(0)))
  BY DEF RangeSummary, VantageBucket
<1>2. ASSUME NEW h \in {0, 1}, Cardinality(Of(h)) = Cardinality(stamps), NEW t \in Recorded(from)
      PROVE  t.odd # "blind" /\ PathOf(t) = IF h = 1 THEN Home ELSE Away
  <2>1. PICK i \in Kept : t = happened[i] /\ from <= CycleTs(i)
    BY WindowsAre, RecordedCycles
  <2>2. PICK r \in Of(h) : RowOf(r, i)
    BY <1>2, <2>1, WindowsAre, RowForEach
  <2>3. r.home = h /\ h # Null
    BY <1>2, AbsentIsNoNumber
  <2>4. t.odd # "blind" /\ h = IF PathOf(t) = Home THEN 1 ELSE 0
    BY <2>1, <2>2, <2>3 DEF RowOf
  <2>5. PathOf(t) \in {Home, Away}
    BY DEF PathOf
  <2> QED BY <2>4, <2>5
<1> HIDE DEF stamps, Of, says
<1>3. says = "all" => Cardinality(Of(1)) = Cardinality(stamps)
  BY <1>1 DEF HomeLineVerdict
<1>4. says = "none" => Cardinality(Of(0)) = Cardinality(stamps)
  BY <1>1 DEF HomeLineVerdict
<1> QED BY <1>2, <1>3, <1>4 DEF says

-----------------------------------------------------------------------------
(* The verdicts. *)

\* A verdict keeps the id of the rule it comes from, through the gate too.
LEMMA IdKept ==
  \A id, severity, about, cause, l :
     Said(id, severity, about, cause).id = id /\ Gated(Said(id, severity, about, cause), l).id = id
<1>1. ASSUME NEW id, NEW severity, NEW about, NEW cause, NEW l
      PROVE  Said(id, severity, about, cause).id = id /\ Gated(Said(id, severity, about, cause), l).id = id
  <2>1. PICK v : v = Said(id, severity, about, cause)
    OBVIOUS
  <2>2. v.id = id /\ Gated(v, l).id = id
    <3>1. v.id = id
      BY <2>1 DEF Said
    <3>2. CASE LinkCertain(l)
      BY <3>1, <3>2 DEF Gated
    <3>3. CASE ~LinkCertain(l)
      BY <2>1, <3>3 DEF Gated, Said
    <3> QED BY <3>2, <3>1, <3>3
  <2> QED BY <2>1, <2>2
<1> QED BY <1>1

\* The verdicts of three of the rules, told from all the others by their id.
LEMMA CallsAre ==
  ASSUME NEW in, NEW v \in DeriveVerdicts(in)
  PROVE  /\ v.id = "throughput_exceeds_link" => v \in ThroughputExceedsLink(in.throughput, in.changes)
         /\ v.id = "link_below_carrier_sync" => v \in LinkBelowCarrierSync(in.linkVsSync, in.now)
         /\ v.id = "sub_cycle_path_stall" => v \in SubCyclePathStall(in.stalls)
         /\ v.id = "gateway_outage_uncorroborated" => v \in GatewayOutageUncorroborated(in.gateway, in.link)
<1>1. ASSUME v \in CollectorSilent(in.last, in.now) PROVE v.id \in {"no_data", "collector_silent"}
  BY <1>1, IdKept DEF CollectorSilent
<1>2. ASSUME v \in ThroughputExceedsLink(in.throughput, in.changes) PROVE v.id = "throughput_exceeds_link"
  BY <1>2, IdKept DEF ThroughputExceedsLink
<1>3. ASSUME v \in LinkBelowCarrierSync(in.linkVsSync, in.now) PROVE v.id = "link_below_carrier_sync"
  BY <1>3, IdKept DEF LinkBelowCarrierSync
<1>4. ASSUME v \in ProbeCoverageLow(in.from, in.to, in.coverage)
      PROVE  v.id \in {"coverage_unknown", "probe_coverage_low"}
  BY <1>4, IdKept DEF ProbeCoverageLow
<1>5. ASSUME v \in RouterCoverageLow(in.enabled, in.from, in.router)
      PROVE  v.id \in {"router_disabled", "router_no_data", "router_coverage_low"}
  BY <1>5, IdKept DEF RouterCoverageLow
<1>6. ASSUME v \in CarrierResyncDated(in.clusters) PROVE v.id = "carrier_resync_dated"
  BY <1>6, IdKept DEF CarrierResyncDated
<1>7. ASSUME v \in SubCyclePathStall(in.stalls) PROVE v.id = "sub_cycle_path_stall"
  BY <1>7 DEF SubCyclePathStall, Said
<1>8. ASSUME v \in GatewayOutageUncorroborated(in.gateway, in.link) PROVE v.id = "gateway_outage_uncorroborated"
  BY <1>8, IdKept DEF GatewayOutageUncorroborated
<1>9. ASSUME v \in SymmetricLossNotLine(in.symmetric, in.link) PROVE v.id = "symmetric_loss_not_line"
  BY <1>9, IdKept DEF SymmetricLossNotLine
<1> QED BY <1>1, <1>2, <1>3, <1>4, <1>5, <1>6, <1>7, <1>8, <1>9 DEF DeriveVerdicts

\* The vantage of a recorded cycle is the row it has.
LEMMA VantageIs ==
  ASSUME WorldInv, NEW i \in Kept
  PROVE  RowOf(VantageAt(tables, CycleTs(i)), i) /\ VantageAt(tables, CycleTs(i)) \in tables.cycle
<1>1. PICK r \in tables.cycle : RowOf(r, i)
  BY RowsOfCycles
<1>2. r.ts = CycleTs(i) /\ CycleTs(i) \in Nat
  BY <1>1, Stamp DEF RowOf, Kept
<1> DEFINE rows == {q \in tables.cycle : q.ts = CycleTs(i)}
<1>3. \A q \in rows : q = r
  BY <1>1, <1>2, RowsOfCycles
<1>4. rows = {r}
  BY <1>2, <1>3
<1> HIDE DEF rows
<1>5. Newest(rows) = r
  BY <1>2, <1>4 DEF Newest
<1>6. VantageAt(tables, CycleTs(i)) = r
  BY <1>5 DEF VantageAt, rows
<1> QED BY <1>1, <1>6

\* The samples of a recorded cycle's instant are its own.
LEMMA SamplesAt ==
  ASSUME WorldInv, NEW i \in Kept, NEW s \in tables.sample, s.ts = CycleTs(i)
  PROVE  s \in SampleRows(happened[i])
<1>1. PICK j \in Kept : s \in SampleRows(happened[j])
  BY DEF WorldInv, SamplesKept
<1>2. \A k \in Kept : k \in Nat /\ happened[k].ts = CycleTs(k)
  BY SeqFacts DEF WorldInv, Ordered, Kept
<1>3. s.ts = CycleTs(j)
  BY <1>1, <1>2, SampleFields
<1>4. i = j
  BY <1>2, <1>3, Stamp
<1> QED BY <1>1, <1>4

\* What contradicts a gateway's outage without reserve was carried by that gateway, or nobody
\* watched (gatewayOutageUncorroborated, applyLinkGate).
LEMMA ContradictionHolds == ASSUME WorldInv PROVE ContradictionIsReal
<1> SUFFICES ASSUME NEW from \in Windows, NEW v \in Calls(from, "gateway_outage_uncorroborated"), ~v.hedged
             PROVE  Meets[At(v.about).meets].forwards \/ At(v.about).odd = "unwatched"
  BY DEF ContradictionIsReal
<1> DEFINE link == LinkStateOver(tables, from, Clock)
           outages == GatewayOutages(tables, from, Clock)
<1>1. v \in GatewayOutageUncorroborated(outages, link)
  BY CallsAre DEF Calls, Verdicts, CollectVerdictInput
<1>2. PICK o \in outages :
        o.home = 1 /\ v = Gated(Said("gateway_outage_uncorroborated", "warn", o.ts, "gateway"), link)
  <2> HIDE DEF outages, link
  <2> QED BY <1>1 DEF GatewayOutageUncorroborated
<1>3. LinkCertain(link) /\ v.about = o.ts
  <2> HIDE DEF outages, link
  <2> DEFINE u == Said("gateway_outage_uncorroborated", "warn", o.ts, "gateway")
  <2>1. LinkCertain(link)
    BY <1>2 DEF Gated, Said
  <2>2. v = u
    BY <1>2, <2>1 DEF Gated
  <2> QED BY <2>1, <2>2 DEF Said
<1>4. PICK p \in tables.outage :
        /\ p.scope = "gateway" /\ p.startedAt \in from..Clock /\ o.ts = p.startedAt
        /\ Cardinality(Alive(OfCycle(tables, p.startedAt, WanTargets))) >= 2
        /\ o.home = IF VantageAt(tables, p.startedAt) = Null THEN Null ELSE VantageAt(tables, p.startedAt).home
  <2> DEFINE Gateway(row) == IF row = Null THEN Null ELSE row.gateway
             Told(p) == /\ \E s \in OfCycle(tables, p.startedAt, {GatewayTarget}) : s.loss = 100
                        /\ Cardinality(Alive(OfCycle(tables, p.startedAt, WanTargets))) >= MinAlive
             Home1(p) == IF VantageAt(tables, p.startedAt) = Null THEN Null ELSE VantageAt(tables, p.startedAt).home
             G(p) == Gateway(VantageAt(tables, p.startedAt))
             B(p) == Gateway(Newest({r \in tables.cycle : r.ts < p.startedAt}))
  <2>1. PICK p \in {q \in tables.outage : q.scope = "gateway" /\ q.startedAt \in from..Clock /\ Told(q)} :
          o = [ts |-> p.startedAt, home |-> Home1(p), gateway |-> G(p), before |-> B(p)]
    BY Zenon DEF GatewayOutages
  <2>2. o.ts = p.startedAt /\ o.home = Home1(p)
    <3> HIDE DEF Home1, G, B
    <3> QED BY <2>1
  <2> HIDE DEF G, B
  <2> QED BY <2>1, <2>2 DEF MinAlive
<1>5. PICK i \in Kept : p.startedAt = CycleTs(i) /\ Meets[happened[i].meets].gw = 0
  BY <1>4 DEF WorldInv, OutagesKept
<1>6. /\ happened[i] \in Cycle /\ happened[i].ts = CycleTs(i) /\ CycleTs(i) \in Nat
      /\ CycleTs(i) <= Clock - 10 /\ At(CycleTs(i)) = happened[i] /\ Clock \in Nat /\ from \in Nat
  BY WindowsAre, RecordedCycles
<1>7. At(v.about) = happened[i] /\ happened[i].meets \in DOMAIN Meets
  BY <1>3, <1>4, <1>5, <1>6 DEF Cycle
<1>8. CASE happened[i].meets = "slip"
  <2> SUFFICES ASSUME happened[i].odd # "unwatched" PROVE FALSE
    BY <1>7
  <2>1. PICK e \in EventRows(happened[i]) : e.ts = CycleTs(i) + 1 /\ e.source = "link-sampler"
    BY <1>6, <1>8, EventFields
  <2> DEFINE seen == {x \in Within(tables.event, from, Clock) : x.source = "link-sampler"}
  <2>2. e \in seen
    BY <1>4, <1>5, <1>6, <2>1 DEF WorldInv, EventsKept, Within
  <2>3. IsFiniteSet(seen)
    BY FS_Subset DEF WorldInv, EventsKept, Within
  <2>4. Cardinality(seen) = 0
    BY <1>3 DEF LinkCertain, LinkStateOver
  <2> HIDE DEF seen
  <2> QED BY <2>2, <2>3, <2>4, FS_EmptySet
<1>9. CASE happened[i].meets = "away"
  <2>1. RowOf(VantageAt(tables, CycleTs(i)), i)
    BY VantageIs
  <2>2. VantageAt(tables, CycleTs(i)).home = 1
    BY <1>2, <1>4, <1>5, AbsentIsNoNumber
  <2>3. PathOf(happened[i]) = Away
    BY <1>9 DEF PathOf
  <2> QED BY <2>1, <2>2, <2>3, AbsentIsNoNumber, WorldAssumption DEF RowOf
<1>10. CASE happened[i].meets = "dead"
  <2>1. ASSUME NEW s \in OfCycle(tables, CycleTs(i), WanTargets) PROVE ~(s.received > 0)
    <3>1. s \in SampleRows(happened[i]) /\ s.target \in WanTargets
      BY SamplesAt DEF OfCycle
    <3>2. Meets[happened[i].meets].wan = 0
      BY <1>7, <1>10, MeetsAre
    <3>3. s.received = 0
      BY <1>7, <3>1, <3>2, SampleCounts
    <3> QED BY <3>3
  <2>2. Alive(OfCycle(tables, CycleTs(i), WanTargets)) = {}
    BY <2>1 DEF Alive
  <2> QED BY <1>4, <1>5, <2>2, FS_EmptySet
<1> QED BY <1>5, <1>7, <1>8, <1>9, <1>10, MeetsAre

\* What is blamed on the host or the LAN happened there (symmetricLoss, pathStalls).
LEMMA LocalIsLocal == ASSUME WorldInv PROVE LocalClaimsTrue
<1> SUFFICES ASSUME NEW from \in Windows,
                    NEW ts \in SymmetricCycles(tables, from, Clock)
                                 \cup {v.about : v \in Calls(from, "sub_cycle_path_stall")}
             PROVE  Meets[At(ts).meets].local
  BY DEF LocalClaimsTrue
<1> DEFINE stamps == Stamps(Within(tables.sample, from, Clock))
<1>1. ASSUME ts \in stamps
      PROVE  \E i \in Kept : ts = CycleTs(i) /\ At(ts) = happened[i] /\ happened[i].meets \in DOMAIN Meets
  <2>1. PICK i \in Kept : ts = CycleTs(i)
    BY <1>1, WindowsAre, StampsAre
  <2>2. At(CycleTs(i)) = happened[i] /\ happened[i] \in Cycle
    BY WindowsAre, RecordedCycles
  <2> QED BY <2>1, <2>2 DEF Cycle
<1>2. CASE ts \in SymmetricCycles(tables, from, Clock)
  <2> DEFINE losses == {s.loss : s \in OfCycle(tables, ts, {GatewayTarget})}
  <2>1. ts \in stamps /\ Min(losses) >= 10 /\ Max(losses) < 100
    BY <1>2 DEF SymmetricCycles, SymmetricMin
  <2>2. PICK i \in Kept : ts = CycleTs(i) /\ At(ts) = happened[i] /\ happened[i].meets \in DOMAIN Meets
    BY <1>1, <2>1
  <2> DEFINE loss == 25 * (4 - Meets[happened[i].meets].gw)
  <2>3. losses = {loss}
    <3>1. ASSUME NEW s \in OfCycle(tables, ts, {GatewayTarget}) PROVE s.loss = loss
      <4>1. s \in SampleRows(happened[i]) /\ s.target = GatewayTarget
        BY <2>2, SamplesAt DEF OfCycle
      <4> QED BY <2>2, <4>1, SampleCounts
    <3>2. \E s \in OfCycle(tables, ts, {GatewayTarget}) : TRUE
      <4> DEFINE s == Sample(happened[i].ts, GatewayTarget, 4, Rtts(happened[i], Meets[happened[i].meets].gw))
      <4>1. s \in SampleRows(happened[i])
        BY DEF SampleRows
      <4>2. s.ts = happened[i].ts /\ s.target = GatewayTarget
        BY DEF Sample
      <4> HIDE DEF s
      <4>3. happened[i].ts = CycleTs(i) /\ s \in tables.sample
        BY <4>1, SeqFacts DEF WorldInv, SamplesKept, Ordered, Kept
      <4> QED BY <2>2, <4>2, <4>3 DEF OfCycle
    <3> HIDE DEF loss
    <3> QED BY <3>1, <3>2
  <2>4. Meets[happened[i].meets].gw \in {0, 2, 4}
    BY <2>2, MeetsAre
  <2>5. loss \in Int /\ Min({loss}) = loss /\ Max({loss}) = loss
    <3>1. loss \in Int
      BY <2>4
    <3> HIDE DEF loss
    <3> QED BY <3>1 DEF Min, Max
  <2>6. Meets[happened[i].meets].gw = 2
    <3>1. loss >= 10 /\ loss < 100
      <4> HIDE DEF losses, loss
      <4> QED BY <2>1, <2>3, <2>5
    <3> QED BY <2>4, <3>1
  <2> QED BY <2>2, <2>6, MeetsAre
<1>3. CASE \E v \in Calls(from, "sub_cycle_path_stall") : ts = v.about
  <2>1. PICK v \in SubCyclePathStall(PathStalls(tables, from, Clock)) : ts = v.about
    BY <1>3, CallsAre DEF Calls, Verdicts, CollectVerdictInput
  <2>2. PICK p \in PathStalls(tables, from, Clock) : ts = p.ts
    BY <2>1 DEF SubCyclePathStall, Said
  <2> DEFINE Timed == {s \in OfCycle(tables, ts, TargetNames) : s.med # Null /\ s.max # Null}
  <2>3. /\ ts \in stamps /\ \E s \in Timed : s.med > 0
        /\ \A s \in Timed : s.loss = 0 /\ (s.med > 0 => s.max >= 8 * s.med)
    <3> DEFINE TimedAt(t) == {s \in OfCycle(tables, t, TargetNames) : s.med # Null /\ s.max # Null}
               Stalled(t) == /\ Complete(TimedAt(t)) /\ \E s \in TimedAt(t) : s.med > 0
                             /\ \A s \in TimedAt(t) : s.loss = 0 /\ (s.med > 0 => s.max >= StallRatio * s.med)
               W(t) == IF VantageAt(tables, t) = Null THEN Null ELSE VantageAt(tables, t).watch
    <3>1. PICK t \in {u \in stamps : Stalled(u)} : p = [ts |-> t, watch |-> W(t)]
      BY <2>2, Zenon DEF PathStalls
    <3>2. ts = t
      <4> HIDE DEF W
      <4> QED BY <2>2, <3>1
    <3> HIDE DEF W
    <3> QED BY <3>1, <3>2 DEF StallRatio
  <2>4. PICK i \in Kept : ts = CycleTs(i) /\ At(ts) = happened[i] /\ happened[i].meets \in DOMAIN Meets
    BY <1>1, <2>3
  <2>5. PICK s \in Timed : s.med > 0 /\ s.loss = 0 /\ s.max >= 8 * s.med
    BY <2>3
  <2>6. s \in SampleRows(happened[i])
    BY <2>4, SamplesAt DEF OfCycle
  <2>7. PICK n \in {0, 2, 4} :
          /\ s.loss = 25 * (4 - n)
          /\ happened[i].meets # "stall" /\ n # 0 =>
               s.med = Meets[happened[i].meets].rtt /\ s.max = Meets[happened[i].meets].rtt
    BY <2>4, <2>6, SampleCounts
  <2>8. n = 4
    BY <2>5, <2>7
  <2>9. Meets[happened[i].meets].rtt \in Nat \ {0}
    BY <2>4, MeetsAre
  <2>10. happened[i].meets = "stall"
    BY <2>5, <2>7, <2>8, <2>9
  <2> QED BY <2>4, <2>10, MeetsAre
<1> QED BY <1>2, <1>3

\* The newest row, where instants are numbers and one row has an instant.
LEMMA NewestIs ==
  ASSUME NEW rows, rows # {}, NEW last \in Nat, \A r \in rows : r.ts \in Nat /\ r.ts <= last
  PROVE  Newest(rows) \in rows /\ \A r \in rows : r.ts <= Newest(rows).ts
<1> DEFINE ages == {last - r.ts : r \in rows}
<1>1. ages \in SUBSET Nat /\ ages # {}
  OBVIOUS
<1> HIDE DEF ages
<1>2. PICK least \in ages : \A y \in ages : least <= y
  BY <1>1, LeastOf
<1>3. PICK r \in rows : \A q \in rows : last - r.ts <= last - q.ts
  BY <1>2 DEF ages
<1>4. \A q \in rows : q.ts <= r.ts
  BY <1>3
<1> QED BY <1>3, <1>4 DEF Newest

\* A set of link speeds has its maximum.
LEMMA MaxOfTwo ==
  ASSUME NEW S, NEW e \in S, \A x \in S : x = 100 \/ x = 1000
  PROVE  Max(S) \in S /\ \A x \in S : x <= Max(S)
<1>1. \E x \in S : \A y \in S : x >= y
  <2>1. CASE 1000 \in S
    BY <2>1
  <2>2. CASE 1000 \notin S
    <3>1. \A y \in S : y = 100
      BY <2>2
    <3> QED BY <3>1
  <2> QED BY <2>1, <2>2
<1> DEFINE m == CHOOSE x \in S : \A y \in S : x >= y
<1>2. m \in S /\ \A y \in S : m >= y
  BY <1>1
<1>3. Max(S) = m
  BY DEF Max
<1> HIDE DEF m
<1> QED BY <1>2, <1>3

\* What is said of the link's speed was so (throughputExceedsLink, linkBelowCarrierSync).
LEMMA LinkIsLink == ASSUME WorldInv PROVE LinkClaimsTrue
<1> SUFFICES ASSUME NEW from \in Windows
             PROVE  LET read == {t \in Recorded(from) : t.odd # "blind"}
                    IN /\ Calls(from, "throughput_exceeds_link") # {} => \A t \in read : LinkSpeed(t) = 100
                       /\ \A v \in Calls(from, "link_below_carrier_sync") :
                            \A t \in read : LinkSpeed(t) = v.cause /\ PathOf(t) = Home
  BY DEF LinkClaimsTrue
<1> DEFINE links == ReportedLinks(tables, from, Clock)
           speeds == {r.link : r \in links}
<1>1. \A t : LinkSpeed(t) \in {100, 1000} /\ LinkSpeed(t) # Null
  BY AbsentIsNoNumber DEF LinkSpeed
<1>2. ASSUME NEW t \in Recorded(from), t.odd # "blind"
      PROVE  \E r \in links : r.link = LinkSpeed(t) /\ r.home = IF PathOf(t) = Home THEN 1 ELSE 0
  <2>1. PICK i \in Kept : t = happened[i] /\ from <= CycleTs(i)
    BY WindowsAre, RecordedCycles
  <2>2. PICK r \in tables.cycle : RowOf(r, i)
    BY RowsOfCycles
  <2>3. CycleTs(i) \in Nat /\ CycleTs(i) <= Clock - 10 /\ Clock \in Nat
    BY WindowsAre, RecordedCycles
  <2>4. r.ts = CycleTs(i) /\ r.link = LinkSpeed(t) /\ r.home = IF PathOf(t) = Home THEN 1 ELSE 0
    BY <1>2, <2>1, <2>2 DEF RowOf
  <2>5. r \in links
    BY <1>1, <2>1, <2>3, <2>4 DEF ReportedLinks, Within
  <2> QED BY <2>4, <2>5
<1>3. ASSUME NEW r \in tables.cycle, r.link # Null PROVE r.link \in {100, 1000} /\ r.ts \in Nat
  <2>1. PICK i \in Kept : RowOf(r, i)
    BY RowsOfCycles
  <2>2. CycleTs(i) \in Nat
    BY Stamp DEF Kept
  <2> QED BY <1>1, <1>3, <2>1, <2>2 DEF RowOf
<1>4. speeds \subseteq {100, 1000}
  BY <1>3 DEF ReportedLinks, Within
<1>5. ASSUME NEW v \in Calls(from, "throughput_exceeds_link"), NEW t \in Recorded(from), t.odd # "blind"
      PROVE  LinkSpeed(t) = 100
  <2>1. v \in ThroughputExceedsLink(ThroughputCandidates(tables, from, Clock),
                                    Cardinality(Within(tables.event, from, Clock)))
    BY CallsAre DEF Calls, Verdicts, CollectVerdictInput
  <2>2. PICK u \in ThroughputCandidates(tables, from, Clock) : 2 * u.mbit > 3 * u.link
    BY <2>1 DEF ThroughputExceedsLink
  <2>3. u.mbit = 940 /\ u.link = Max(speeds)
    BY <2>2 DEF ThroughputCandidates, Within, WorldInv, TestsKept
  <2>4. LinkSpeed(t) \in speeds
    BY <1>2, <1>5
  <2>5. \A x \in speeds : x = 100 \/ x = 1000
    BY <1>4
  <2> HIDE DEF speeds
  <2>6. Max(speeds) \in speeds /\ \A x \in speeds : x <= Max(speeds)
    BY <2>4, <2>5, MaxOfTwo
  <2>7. Max(speeds) # 1000
    BY <2>2, <2>3
  <2>8. Max(speeds) = 100 /\ LinkSpeed(t) <= Max(speeds)
    BY <2>4, <2>5, <2>6, <2>7
  <2>9. LinkSpeed(t) = 100 \/ LinkSpeed(t) = 1000
    BY <2>4, <2>5
  <2> QED BY <2>8, <2>9
<1>6. ASSUME NEW v \in Calls(from, "link_below_carrier_sync"), NEW t \in Recorded(from), t.odd # "blind"
      PROVE  LinkSpeed(t) = v.cause /\ PathOf(t) = Home
  <2> DEFINE rows == {r \in tables.cycle : r.ts <= Clock /\ r.link # Null}
             s == LinkVsSync(tables, from, Clock)
  <2>1. v \in LinkBelowCarrierSync(s, Clock)
    BY CallsAre DEF Calls, Verdicts, CollectVerdictInput
  <2>2. s.link = Newest(rows) /\ s.speeds = speeds /\ (s.atHome => \A r \in links : r.home = 1)
    BY DEF LinkVsSync
  <2>3. v.cause = s.link.link /\ Cardinality(s.speeds) = 1 /\ s.atHome
    <3> HIDE DEF s
    <3> QED BY <2>1 DEF LinkBelowCarrierSync, Said
  <2>4. PICK r \in links : r.link = LinkSpeed(t) /\ r.home = IF PathOf(t) = Home THEN 1 ELSE 0
    BY <1>2, <1>6
  <2>5. PathOf(t) = Home
    <3>1. r.home = 1
      <4> HIDE DEF s, links
      <4> QED BY <2>2, <2>3, <2>4
    <3> QED BY <2>4, <3>1
  <2>6. Clock \in Nat /\ from \in Nat
    BY WindowsAre, RecordedCycles
  <2>7. r \in rows /\ from <= r.ts
    BY <2>4 DEF ReportedLinks, Within
  <2>8. Newest(rows) \in rows /\ r.ts <= Newest(rows).ts
    <3>1. \A q \in rows : q.ts \in Nat /\ q.ts <= Clock
      BY <1>3
    <3> HIDE DEF rows
    <3> QED BY <2>6, <2>7, <3>1, NewestIs
  <2>9. Newest(rows) \in links
    BY <1>3, <2>6, <2>7, <2>8 DEF ReportedLinks, Within
  <2>10. \E x : speeds = {x}
    <3>1. IsFiniteSet({100, 1000})
      <4>1. IsFiniteSet({100} \cup {1000})
        <5>1. IsFiniteSet({100})
          BY FS_Singleton
        <5> QED BY <5>1, FS_AddElement
      <4>2. {100} \cup {1000} = {100, 1000}
        OBVIOUS
      <4> QED BY <4>1, <4>2
    <3> DEFINE both == {100, 1000}
    <3>2. IsFiniteSet(speeds) /\ Cardinality(speeds) = 1
      <4> HIDE DEF speeds, s
      <4>1. speeds \in SUBSET both /\ IsFiniteSet(both)
        BY <1>4, <3>1
      <4>2. IsFiniteSet(speeds)
        <5> HIDE DEF both
        <5> QED BY <4>1, FS_Subset
      <4> QED BY <2>2, <2>3, <4>2
    <3> HIDE DEF speeds
    <3> QED BY <3>2, FS_Singleton
  <2>11. Newest(rows).link \in speeds /\ r.link \in speeds
    BY <2>4, <2>9
  <2> HIDE DEF speeds, rows, s
  <2> QED BY <2>2, <2>3, <2>4, <2>5, <2>10, <2>11
<1> QED BY <1>5, <1>6

\* What is said of the home line is so, and the verdicts that put the blame somewhere - a
\* contradicted gateway outage, the LAN, the host, a link too slow - put it where it belongs,
\* for every window that ends now (range-summary.ts, verdict.ts, verdict-queries.ts).
THEOREM ClaimsHold == WorldSpec => []ClaimsTrue
<1>1. WorldInv => ClaimsTrue
  BY HomeIsHome, ContradictionHolds, LocalIsLocal, LinkIsLink DEF ClaimsTrue
<1> QED BY <1>1, RecordHolds, PTL

-----------------------------------------------------------------------------
(* Silence. *)

\* Rounding, and shares in whole percent.
LEMMA RoundedFacts ==
  ASSUME NEW a \in Nat, NEW p \in Nat \ {0}
  PROVE  Rounded(a, p) \in Nat /\ \A k \in Nat : k * p <= a => Rounded(a, p) >= k
<1>1. Rounded(a, p) \in Nat
  BY DEF Rounded
<1>2. ASSUME NEW k \in Nat, k * p <= a PROVE (2 * a + p) \div (2 * p) >= k
  <2>1. \A d \in Nat \ {0} : (k * d) \div d = k
    OBVIOUS
  <2>2. \A b, c \in Nat, d \in Nat \ {0} : b <= c => b \div d <= c \div d
    OBVIOUS
  <2>3. k * p \in Nat /\ k * (2 * p) = 2 * (k * p)
    OBVIOUS
  <2>4. 2 * p \in Nat \ {0} /\ k * (2 * p) \in Nat /\ 2 * a + p \in Nat /\ k * (2 * p) <= 2 * a + p
    BY <1>2, <2>3
  <2> QED BY <2>1, <2>2, <2>4
<1> QED BY <1>1, <1>2 DEF Rounded

LEMMA ShareFacts ==
  ASSUME NEW a \in Nat, NEW d \in Nat \ {0}, NEW q \in Nat, a \div d >= q
  PROVE  q * d <= a
OBVIOUS

LEMMA ShareFacts2 ==
  ASSUME NEW r \in Nat, NEW d \in Nat \ {0}, (100 * r) \div d >= 90
  PROVE  9 * d <= 10 * r
<1>1. 100 * r \in Nat
  OBVIOUS
<1>2. 90 * d <= 100 * r
  BY <1>1, ShareFacts
<1> QED BY <1>2

\* A bounded set of instants has its last one, a set of instants its first.
LEMMA MaxOf ==
  ASSUME NEW S \in SUBSET Nat, S # {}, NEW last \in Nat, \A x \in S : x <= last
  PROVE  Max(S) \in S /\ \A x \in S : x <= Max(S)
<1> DEFINE left == {last - x : x \in S}
<1>1. left \in SUBSET Nat /\ left # {}
  <2>1. \A x \in S : last - x \in Nat
    OBVIOUS
  <2>2. PICK x \in S : TRUE
    OBVIOUS
  <2>3. last - x \in left
    OBVIOUS
  <2> QED BY <2>1, <2>3
<1> HIDE DEF left
<1>2. PICK least \in left : \A y \in left : least <= y
  BY <1>1, LeastOf
<1>3. PICK x \in S : \A y \in S : last - x <= last - y
  BY <1>2 DEF left
<1>4. \A y \in S : x >= y
  BY <1>3
<1> DEFINE m == CHOOSE z \in S : \A y \in S : z >= y
<1>5. m \in S /\ \A y \in S : m >= y
  BY <1>3, <1>4
<1>6. Max(S) = m
  BY DEF Max
<1> HIDE DEF m
<1> QED BY <1>5, <1>6

LEMMA MinOf ==
  ASSUME NEW S \in SUBSET Nat, S # {}
  PROVE  Min(S) \in S /\ \A x \in S : Min(S) <= x
<1> DEFINE m == CHOOSE z \in S : \A y \in S : z <= y
<1>1. m \in S /\ \A y \in S : m <= y
  BY LeastOf
<1>2. Min(S) = m
  BY DEF Min
<1> HIDE DEF m
<1> QED BY <1>1, <1>2

\* The extreme of a set without a Null in it.
LEMMA ExtremeIs ==
  ASSUME NEW S \in SUBSET Nat
  PROVE  /\ Extreme(Max, S) = IF S = {} THEN Null ELSE Max(S)
         /\ Extreme(Min, S) = IF S = {} THEN Null ELSE Min(S)
<1>1. S \ {Null} = S
  BY AbsentIsNoNumber
<1> QED BY <1>1 DEF Extreme

\* What the silence of the two rules on the record itself says of it: its newest cycle is
\* recent, and it has nine tenths of the cycles since its first one in the window.
LEMMA RecordCalls ==
  ASSUME WorldInv, NEW from \in Windows,
         \A v \in Verdicts(from) : v.id \notin {"no_data", "collector_silent", "probe_coverage_low", "coverage_unknown"}
  PROVE  LET all == Stamps(tables.sample)
             stamps == Stamps(Within(tables.sample, from, Clock))
         IN /\ all # {} /\ Clock - Max(all) <= 2 * ProbeCycleS
            /\ stamps # {}
            /\ \A k \in Nat : k * ProbeCycleS <= Clock - Min(stamps) => 9 * k <= 10 * Cardinality(stamps)
<1> DEFINE all == Stamps(tables.sample)
           stamps == Stamps(Within(tables.sample, from, Clock))
           last == Extreme(Max, all)
           c == RangeSummary(tables, from, Clock)
           share == EffectiveShare(from, Clock, c)
           R == Cardinality(stamps)
           E == Max({0, Rounded(Clock - from, ProbeCycleS)})
           first == Extreme(Min, stamps)
<1>1. CollectorSilent(last, Clock) \subseteq Verdicts(from) /\ ProbeCoverageLow(from, Clock, c) \subseteq Verdicts(from)
  BY Zenon DEF Verdicts, DeriveVerdicts, CollectVerdictInput
<1>2. last # Null /\ ~(Clock - last > 2 * ProbeCycleS)
  <2> HIDE DEF last
  <2>1. CollectorSilent(last, Clock) = {}
    <3> SUFFICES ASSUME NEW v \in CollectorSilent(last, Clock) PROVE FALSE
      OBVIOUS
    <3>1. v.id \in {"no_data", "collector_silent"}
      BY IdKept DEF CollectorSilent
    <3> QED BY <1>1, <3>1
  <2> QED BY <2>1 DEF CollectorSilent, SilentWarnCycles
<1>3. share # Null /\ ~(share < 90)
  <2> HIDE DEF c
  <2>1. ProbeCoverageLow(from, Clock, c) = {}
    <3> SUFFICES ASSUME NEW v \in ProbeCoverageLow(from, Clock, c) PROVE FALSE
      OBVIOUS
    <3>1. v.id \in {"coverage_unknown", "probe_coverage_low"}
      BY IdKept DEF ProbeCoverageLow
    <3> QED BY <1>1, <3>1
  <2> HIDE DEF share
  <2>2. ProbeCoverageLow(from, Clock, c) =
          CASE share = Null -> {Said("coverage_unknown", "info", from, Null)}
            [] share # Null /\ share < 90 ->
                 {Said("probe_coverage_low", IF share < CoverageCritical THEN "critical" ELSE "warn", from, Null)}
            [] OTHER -> {}
    BY Zenon DEF ProbeCoverageLow, share, CoverageWarn
  <2> QED BY <2>1, <2>2
<1>4. /\ c.coverage = IF E = 0 THEN Null ELSE Least(100, (100 * R) \div E)
      /\ c.recorded = R /\ c.firstTs = first
  BY DEF RangeSummary
<1>5. all \in SUBSET Nat /\ stamps \in SUBSET Nat /\ IsFiniteSet(stamps)
      /\ (\A x \in stamps : from <= x /\ x <= Clock) /\ (\A x \in all : x <= Clock)
  <2>0. \A i \in Kept : CycleTs(i) \in Nat /\ CycleTs(i) <= Clock
    <3> SUFFICES ASSUME NEW i \in Kept PROVE CycleTs(i) \in Nat /\ CycleTs(i) <= Clock
      OBVIOUS
    <3>1. CycleTs(i) \in Nat /\ CycleTs(i) <= Clock - 10 /\ Clock \in Nat
      BY WindowsAre, RecordedCycles
    <3> QED BY <3>1
  <2>1. \A i \in Kept : happened[i].ts = CycleTs(i)
    BY WindowsAre, RecordedCycles
  <2>2. ASSUME NEW x \in all PROVE x \in Nat /\ x <= Clock
    <3>1. PICK s \in tables.sample : x = s.ts
      BY DEF Stamps
    <3>2. PICK i \in Kept : s \in SampleRows(happened[i])
      BY DEF WorldInv, SamplesKept
    <3>3. x = CycleTs(i)
      BY <2>1, <3>1, <3>2, SampleFields
    <3> QED BY <2>0, <3>2, <3>3
  <2>3. ASSUME NEW x \in stamps PROVE x \in Nat /\ from <= x /\ x <= Clock
    <3>1. PICK i \in Kept : x = CycleTs(i) /\ from <= x /\ x <= Clock
      BY WindowsAre, StampsAre
    <3> QED BY <2>0, <3>1
  <2>4. IsFiniteSet(stamps)
    BY WindowsAre, StampsAre
  <2> QED BY <2>2, <2>3, <2>4
<1>6. from \in Nat /\ Clock \in Nat
  BY WindowsAre, RecordedCycles
<1>7. Clock - from \in Nat
  <2>1. PICK n \in 0..Len(happened), offset \in {0, Phase} : from = n * ProbeCycleS + offset
    BY DEF Windows
  <2>2. PICK l \in Nat : l = Len(happened)
    BY SeqFacts DEF WorldInv, Ordered
  <2>3. PICK d \in Nat : l = n + d
    <3>1. l \in Nat /\ n \in Nat /\ n <= l
      BY <2>1, <2>2
    <3>2. l - n \in Nat /\ l = n + (l - n)
      BY <3>1
    <3> QED BY <3>2
  <2>4. l * ProbeCycleS = n * ProbeCycleS + d * ProbeCycleS /\ d * ProbeCycleS \in Nat /\ n * ProbeCycleS \in Nat
    BY <2>2, <2>3, ReadsAssumption
  <2>5. Clock = l * ProbeCycleS + Phase + ReadAfterS
    BY <2>2 DEF Clock, CycleTs
  <2> QED BY <2>1, <2>4, <2>5, ReadsAssumption, InstantAssumption
<1>8. E \in Nat /\ E = Rounded(Clock - from, ProbeCycleS)
  <2> DEFINE e == Rounded(Clock - from, ProbeCycleS)
  <2>1. e \in Nat
    BY <1>7, ReadsAssumption, RoundedFacts
  <2>2. E = Max({0, e})
    OBVIOUS
  <2> HIDE DEF e
  <2>3. Max({0, e}) \in {0, e} /\ Max({0, e}) >= e
    <3> DEFINE S == {0, e}
    <3>1. S \in SUBSET Nat /\ S # {} /\ (\A x \in S : x <= e) /\ e \in S
      BY <2>1
    <3> HIDE DEF S
    <3>2. Max(S) \in S /\ \A x \in S : x <= Max(S)
      BY <2>1, <3>1, MaxOf
    <3> QED BY <3>1, <3>2 DEF S
  <2> QED BY <2>1, <2>2, <2>3 DEF e
<1>9. R \in Nat /\ (R = 0 <=> stamps = {})
  <2> HIDE DEF stamps
  <2> QED BY <1>5, FS_CardinalityType, FS_EmptySet
<1>10. first = (IF stamps = {} THEN Null ELSE Min(stamps)) /\ last = (IF all = {} THEN Null ELSE Max(all))
  <2> HIDE DEF stamps, all
  <2> QED BY <1>5, ExtremeIs
<1> HIDE DEF all, stamps, last, R, E, first, c
<1>11. all # {} /\ Clock - Max(all) <= 2 * ProbeCycleS
  <2>1. all # {} /\ last = Max(all)
    BY <1>2, <1>10
  <2>2. Max(all) \in Nat
    <3> SUFFICES Max(all) \in all
      BY <1>5
    <3> QED BY <1>5, <1>6, <2>1, MaxOf
  <2>3. 2 * ProbeCycleS \in Nat
    BY ReadsAssumption
  <2> QED BY <1>2, <1>6, <2>1, <2>2, <2>3
<1>12. stamps # {}
  <2> SUFFICES ASSUME stamps = {} PROVE FALSE
    OBVIOUS
  <2>1. R = 0 /\ c.firstTs = Null
    BY <1>4, <1>9, <1>10
  <2>2. share = c.coverage
    BY <2>1 DEF EffectiveShare
  <2>3. E # 0 => (100 * R) \div E = 0
    BY <1>8, <2>1
  <2>4. share = IF E = 0 THEN Null ELSE 0
    BY <1>4, <2>2, <2>3 DEF Least
  <2> HIDE DEF share
  <2> QED BY <1>3, <2>4
<1>13. ASSUME NEW k \in Nat, k * ProbeCycleS <= Clock - Min(stamps) PROVE 9 * k <= 10 * R
  <2> DEFINE since == Rounded(Clock - Min(stamps), ProbeCycleS)
  <2>2. c.firstTs = Min(stamps) /\ Min(stamps) \in Nat /\ from <= Min(stamps) /\ Min(stamps) <= Clock
    <3>1. Min(stamps) \in stamps
      BY <1>5, <1>12, MinOf
    <3> QED BY <1>4, <1>5, <1>10, <1>12, <3>1
  <2>1. since \in Nat /\ since >= k
    <3>1. Clock - Min(stamps) \in Nat
      BY <1>6, <2>2
    <3> QED BY <1>13, <3>1, ReadsAssumption, RoundedFacts
  <2>3. share = IF c.coverage # Null /\ Min(stamps) > from /\ since > 0
                THEN Least(100, (100 * R) \div since) ELSE c.coverage
    <3>1. c.firstTs # Null
      BY <2>2, AbsentIsNoNumber
    <3> QED BY <1>4, <1>13, <2>2, <3>1 DEF EffectiveShare
  <2> HIDE DEF since, share
  <2>4. ASSUME NEW d \in Nat \ {0}, share = Least(100, (100 * R) \div d), d >= k PROVE 9 * k <= 10 * R
    <3>1. (100 * R) \div d \in Nat
      BY <1>9
    <3>2. (100 * R) \div d >= 90
      BY <1>3, <2>4, <3>1 DEF Least
    <3>3. 9 * d <= 10 * R
      BY <1>9, <3>2, ShareFacts2
    <3> QED BY <1>9, <2>4, <3>3
  <2>5. CASE c.coverage # Null /\ Min(stamps) > from /\ since > 0
    BY <2>1, <2>3, <2>4, <2>5
  <2>6. CASE c.coverage = Null
    BY <1>3, <2>3, <2>6
  <2>7. CASE c.coverage # Null /\ Min(stamps) = from
    <3>1. E # 0 /\ share = Least(100, (100 * R) \div E)
      BY <1>4, <1>6, <2>3, <2>7
    <3>3. E = since
      BY <1>8, <2>7 DEF since
    <3> QED BY <1>8, <2>1, <2>4, <3>1, <3>3
  <2>8. CASE since = 0
    <3>1. k = 0
      BY <2>1, <2>8
    <3> QED BY <1>9, <3>1
  <2>9. Min(stamps) > from \/ Min(stamps) = from
    BY <1>6, <2>2
  <2>10. since > 0 \/ since = 0
    BY <2>1
  <2> QED BY <2>5, <2>6, <2>7, <2>8, <2>9, <2>10
<1> QED BY <1>11, <1>12, <1>13 DEF all, stamps, R

\* Of the cycles since the first recorded one, those recorded and those not, counted apart.
LEMMA SilenceHolds == ASSUME WorldInv PROVE SilenceIsCalled
<1> SUFFICES ASSUME NEW from \in Windows,
                    \A v \in Verdicts(from) :
                      v.id \notin {"no_data", "collector_silent", "probe_coverage_low", "coverage_unknown"}
             PROVE  LET taken == {t.ts : t \in Recorded(from)}
                        since == {t \in InWindow(from) : t.ts >= Min(taken)}
                        gone == {t \in since : t.odd = "missed"}
                    IN /\ taken # {} /\ Clock - Max(taken) <= 2 * ProbeCycleS
                       /\ 10 * (Cardinality(gone) - 1) <= Cardinality(since)
  BY DEF SilenceIsCalled
<1> DEFINE taken == {t.ts : t \in Recorded(from)}
           since == {t \in InWindow(from) : t.ts >= Min(taken)}
           gone == {t \in since : t.odd = "missed"}
           all == Stamps(tables.sample)
           stamps == Stamps(Within(tables.sample, from, Clock))
           R == Cardinality(stamps)
<1>1. /\ all # {} /\ Clock - Max(all) <= 2 * ProbeCycleS
      /\ stamps # {}
      /\ \A k \in Nat : k * ProbeCycleS <= Clock - Min(stamps) => 9 * k <= 10 * R
  BY RecordCalls
<1>2. /\ \A i \in Kept : /\ CycleTs(i) \in Nat /\ CycleTs(i) <= Clock - 10 /\ happened[i].ts = CycleTs(i)
                         /\ i \in 1..Len(happened)
      /\ from \in Nat /\ Clock \in Nat
  BY WindowsAre, RecordedCycles
<1>3. /\ IsFiniteSet(stamps)
      /\ \A i \in Kept : from <= CycleTs(i) => CycleTs(i) \in stamps
      /\ \A ts \in stamps : \E i \in Kept : ts = CycleTs(i) /\ from <= ts /\ ts <= Clock
  BY WindowsAre, StampsAre
<1>4. stamps \in SUBSET Nat /\ \A ts \in stamps : ts <= Clock
  BY <1>2, <1>3
<1>5. taken = stamps
  <2>1. \A t \in Recorded(from) : t.ts \in stamps
    BY <1>2, <1>3, WindowsAre, RecordedCycles
  <2>2. ASSUME NEW ts \in stamps PROVE \E t \in Recorded(from) : t.ts = ts
    <3>1. PICK i \in Kept : ts = CycleTs(i) /\ from <= ts
      BY <1>3
    <3>2. happened[i] \in Recorded(from)
      BY <3>1, WindowsAre, RecordedCycles
    <3> QED BY <1>2, <3>1, <3>2
  <2> QED BY <2>1, <2>2
<1>6. Clock - Max(taken) <= 2 * ProbeCycleS
  <2>1. all \in SUBSET Nat /\ \A x \in all : x <= Clock /\ (from <= x => x \in stamps)
    <3> SUFFICES ASSUME NEW x \in all PROVE x \in Nat /\ x <= Clock /\ (from <= x => x \in stamps)
      OBVIOUS
    <3>1. PICK s \in tables.sample : x = s.ts
      BY DEF Stamps
    <3>2. PICK i \in Kept : s \in SampleRows(happened[i])
      BY DEF WorldInv, SamplesKept
    <3>3. x = CycleTs(i)
      BY <1>2, <3>1, <3>2, SampleFields
    <3> QED BY <1>2, <1>3, <3>2, <3>3
  <2>2. stamps \subseteq all
    BY DEF Stamps, Within
  <2> HIDE DEF all, stamps
  <2>3. Max(all) \in all /\ \A x \in all : x <= Max(all)
    BY <1>1, <1>2, <2>1, MaxOf
  <2>4. Max(stamps) \in stamps /\ \A x \in stamps : x <= Max(stamps)
    BY <1>1, <1>2, <1>4, MaxOf
  <2>5. PICK x \in stamps : from <= x
    BY <1>1, <1>3
  <2>6. Max(all) \in stamps
    <3>1. x <= Max(all) /\ x \in Nat /\ Max(all) \in Nat
      BY <1>4, <2>1, <2>2, <2>3
    <3> QED BY <1>2, <2>1, <2>3, <2>5, <3>1
  <2>7. Max(all) <= Max(stamps) /\ Max(all) \in Nat /\ Max(stamps) \in Nat
    BY <1>4, <2>4, <2>6
  <2>8. 2 * ProbeCycleS \in Nat
    BY ReadsAssumption
  <2> HIDE DEF taken
  <2> QED BY <1>1, <1>2, <1>5, <2>7, <2>8
<1>7. PICK f \in Kept : Min(stamps) = CycleTs(f) /\ from <= CycleTs(f) /\ \A x \in stamps : CycleTs(f) <= x
  <2> HIDE DEF stamps
  <2>1. Min(stamps) \in stamps /\ \A x \in stamps : Min(stamps) <= x
    BY <1>1, <1>4, MinOf
  <2> QED BY <1>3, <2>1
<1>8. PICK n \in Nat : n = Len(happened)
  BY SeqFacts DEF WorldInv, Ordered
<1>9. /\ f \in 1..n /\ f \in Nat
      /\ \A i \in 1..n : happened[i].ts = CycleTs(i) /\ CycleTs(i) \in Nat /\ CycleTs(i) \div ProbeCycleS = i
  <2>1. f \in 1..n /\ f \in Nat
    BY <1>2, <1>8
  <2>2. \A i \in 1..n : happened[i].ts = CycleTs(i)
    BY <1>8 DEF WorldInv, Ordered
  <2>3. \A i \in 1..n : i \in Nat
    OBVIOUS
  <2> QED BY <2>1, <2>2, <2>3, Stamp
<1>10. 9 * (n - f) <= 10 * R
  <2>1. n - f \in Nat
    BY <1>9
  <2>2. (n - f) * ProbeCycleS <= Clock - Min(stamps)
    <3>1. Clock = n * ProbeCycleS + Phase + ReadAfterS /\ CycleTs(f) = f * ProbeCycleS + Phase
      BY <1>8 DEF Clock, CycleTs
    <3> HIDE DEF stamps
    <3>2. PICK d \in Nat : d = n - f
      BY <2>1
    <3>3. n * ProbeCycleS = f * ProbeCycleS + d * ProbeCycleS
          /\ n * ProbeCycleS \in Nat /\ f * ProbeCycleS \in Nat /\ d * ProbeCycleS \in Nat
      BY <1>9, <3>2, ReadsAssumption
    <3> QED BY <1>7, <3>1, <3>2, <3>3, ReadsAssumption, InstantAssumption
  <2> HIDE DEF stamps, R
  <2> QED BY <1>1, <2>1, <2>2
<1>11. /\ \A t \in since : \E i \in f..n : t = happened[i]
       /\ \A i \in f..n : happened[i] \in since
  <2>1. ASSUME NEW t \in since PROVE \E i \in f..n : t = happened[i]
    <3>1. PICK i \in 1..n : t = happened[i] /\ CycleTs(f) <= CycleTs(i)
      <4>1. PICK i \in DOMAIN happened : t = happened[i]
        BY DEF InWindow
      <4>2. i \in 1..n /\ t.ts >= CycleTs(f)
        BY <1>5, <1>7, <1>8, <4>1, SeqFacts DEF WorldInv, Ordered
      <4> QED BY <1>2, <1>9, <4>1, <4>2
    <3>2. ~(i < f)
      BY <1>2, <1>9, <3>1, Stamp
    <3> QED BY <1>9, <3>1, <3>2
  <2>2. ASSUME NEW i \in f..n PROVE happened[i] \in since
    <3>1. i \in 1..n /\ i \in Nat /\ (f < i \/ f = i)
      BY <1>9
    <3>2. CycleTs(f) <= CycleTs(i) /\ CycleTs(f) \in Nat /\ CycleTs(i) \in Nat
      <4>1. CycleTs(f) \in Nat /\ CycleTs(i) \in Nat
        BY <1>9, <3>1, Stamp
      <4>2. CASE f < i
        BY <1>9, <3>1, <4>1, <4>2, Stamp
      <4> QED BY <3>1, <4>1, <4>2
    <3>3. i \in DOMAIN happened
      BY <1>8, <3>1, SeqFacts DEF WorldInv, Ordered
    <3>4. happened[i].ts >= from /\ happened[i].ts >= CycleTs(f)
      BY <1>2, <1>7, <1>9, <3>1, <3>2
    <3> QED BY <1>5, <1>7, <3>3, <3>4 DEF InWindow
  <2> QED BY <2>1, <2>2
<1>12. IsFiniteSet(since) /\ Cardinality(since) = n - f + 1
  <2> DEFINE place == [t \in since |-> t.ts \div ProbeCycleS]
  <2> HIDE DEF since
  <2>1. \A i \in f..n : happened[i].ts \div ProbeCycleS = i
    BY <1>9
  <2>2. place \in Injection(since, f..n)
    BY <1>11, <2>1 DEF Injection, IsInjective
  <2>3. place \in Surjection(since, f..n)
    BY <1>11, <2>1, <2>2 DEF Surjection, Injection
  <2>4. IsFiniteSet(f..n) /\ Cardinality(f..n) = n - f + 1
    <3>1. f \in Int /\ n \in Int /\ ~(f > n)
      BY <1>9
    <3> QED BY <3>1, FS_Interval
  <2> HIDE DEF place
  <2> QED BY <2>2, <2>3, <2>4, FS_Injection
<1>13. IsFiniteSet(Recorded(from)) /\ Cardinality(Recorded(from)) = R
  <2> DEFINE at == [t \in Recorded(from) |-> t.ts]
             T == Recorded(from)
  <2>1. \A t \in T : t.ts \in stamps
    BY <1>5
  <2>2. \A s, t \in T : s.ts = t.ts => s = t
    <3> SUFFICES ASSUME NEW s \in T, NEW t \in T, s.ts = t.ts PROVE s = t
      OBVIOUS
    <3>1. PICK i \in Kept : s = happened[i]
      BY WindowsAre, RecordedCycles
    <3>2. PICK j \in Kept : t = happened[j]
      BY WindowsAre, RecordedCycles
    <3>3. i = j
      <4>1. i \in Nat /\ j \in Nat
        BY <1>2, <1>8
      <4>2. CycleTs(i) = CycleTs(j)
        BY <1>2, <3>1, <3>2
      <4> QED BY <4>1, <4>2, Stamp
    <3> QED BY <3>1, <3>2, <3>3
  <2>3. \A x \in stamps : \E t \in T : t.ts = x
    BY <1>5
  <2> HIDE DEF T, stamps
  <2>4. at \in Injection(T, stamps)
    BY <2>1, <2>2 DEF Injection, IsInjective, T
  <2>5. at \in Surjection(T, stamps)
    BY <2>1, <2>3 DEF Surjection, T
  <2> HIDE DEF at
  <2> QED BY <1>3, <2>4, <2>5, FS_Injection DEF T
<1>14. since = Recorded(from) \cup gone /\ Recorded(from) \cap gone = {} /\ gone \subseteq since
  <2>1. \A t \in Recorded(from) : t \in since
    <3> SUFFICES ASSUME NEW t \in Recorded(from) PROVE t \in since
      OBVIOUS
    <3>1. t.ts \in stamps /\ t \in InWindow(from)
      BY <1>5 DEF Recorded
    <3>2. CycleTs(f) <= t.ts /\ t.ts \in Nat /\ CycleTs(f) \in Nat
      BY <1>2, <1>4, <1>7, <3>1
    <3> QED BY <1>5, <1>7, <3>1, <3>2
  <2> QED BY <2>1 DEF Recorded
<1>15. IsFiniteSet(gone) /\ Cardinality(since) = R + Cardinality(gone) /\ Cardinality(gone) \in Nat /\ R \in Nat
  <2> HIDE DEF since, gone
  <2>1. IsFiniteSet(gone) /\ Cardinality(gone) \in Nat
    BY <1>12, <1>14, FS_Subset, FS_CardinalityType
  <2>2. R \in Nat
    BY <1>13, FS_CardinalityType
  <2>3. Cardinality(Recorded(from) \cup gone) = Cardinality(Recorded(from)) + Cardinality(gone) - Cardinality({})
    BY <1>13, <1>14, <2>1, FS_Union
  <2> QED BY <1>13, <1>14, <2>1, <2>2, <2>3, FS_EmptySet
<1>16. 10 * (Cardinality(gone) - 1) <= Cardinality(since)
  <2> HIDE DEF since, gone, R
  <2> QED BY <1>9, <1>10, <1>12, <1>15
<1> QED BY <1>1, <1>5, <1>6, <1>16

\* When no verdict calls the collector silent or the window badly covered, the last cycle is
\* at most two cycles old, and since the first one the window holds at most a tenth of the
\* cycles and one more went unrecorded, whatever the cycle and the window (verdict.ts
\* collectorSilent, probeCoverageLow).
THEOREM SilenceCalled == WorldSpec => []SilenceIsCalled
<1>1. WorldInv => SilenceIsCalled
  BY SilenceHolds
<1> QED BY <1>1, RecordHolds, PTL

-----------------------------------------------------------------------------
(* What the outage rows count, and what the interfaces carried. *)

Cycles == [o \in OutageRow |-> o.cycles]
DownIn(rows) == SumOf(Cycles, {o \in rows : o.scope = "gateway"})
\* One outage of a scope begins at a time, and one is open.
OneEach(rows) ==
  \A o, p \in rows : o.scope = p.scope /\ (o.startedAt = p.startedAt \/ (o.endedAt = Null /\ p.endedAt = Null)) => o = p

\* What the outages of the gateway count is a number.
LEMMA DownInt ==
  ASSUME NEW rows \in SUBSET OutageRow, IsFiniteSet(rows)
  PROVE  DownIn(rows) \in Int
<1> DEFINE mine == {o \in rows : o.scope = "gateway"}
<1>1. IsFiniteSet(mine) /\ mine \subseteq OutageRow
  BY FS_Subset
<1>2. \A o \in OutageRow : Cycles[o] \in Int
  BY DEF Cycles, OutageRow
<1>3. IntsOn(Cycles, mine)
  BY <1>1, <1>2 DEF IntsOn
<1>4. DownIn(rows) = SumOf(Cycles, mine)
  BY DEF DownIn
<1> HIDE DEF mine
<1> QED BY <1>1, <1>3, <1>4, SumInt

\* A row more, and a row in the place of another.
LEMMA RowAdded ==
  ASSUME NEW rows \in SUBSET OutageRow, IsFiniteSet(rows), OneEach(rows), NEW q \in OutageRow,
         \A p \in rows : p.scope = q.scope => p.startedAt # q.startedAt /\ (q.endedAt = Null => p.endedAt # Null)
  PROVE  LET after == rows \cup {q}
         IN /\ IsFiniteSet(after) /\ OneEach(after)
            /\ DownIn(after) = DownIn(rows) + IF q.scope = "gateway" THEN q.cycles ELSE 0
<1> DEFINE mine == {o \in rows : o.scope = "gateway"}
           after == rows \cup {q}
           all == {o \in after : o.scope = "gateway"}
<1>1. IsFiniteSet(mine) /\ IsFiniteSet(after)
  BY FS_Subset, FS_AddElement
<1>2. OneEach(after)
  BY DEF OneEach
<1>3. \A o \in OutageRow : Cycles[o] = o.cycles /\ o.cycles \in Int
  BY DEF Cycles, OutageRow
<1>4. q \notin mine /\ mine \subseteq OutageRow
  OBVIOUS
<1>5. SumOf(Cycles, mine) \in Int
  <2>1. IntsOn(Cycles, mine)
    BY <1>3, <1>4 DEF IntsOn
  <2> HIDE DEF mine
  <2> QED BY <1>1, <2>1, SumInt
<1>6. CASE q.scope = "gateway"
  <2>1. all = mine \cup {q} /\ IntsOn(Cycles, mine \cup {q})
    BY <1>3, <1>4, <1>6 DEF IntsOn
  <2> HIDE DEF mine, all
  <2>2. SumOf(Cycles, mine \cup {q}) = SumOf(Cycles, mine) + Cycles[q]
    BY <1>1, <1>4, <2>1, SumJoin
  <2>3. SumOf(Cycles, all) = SumOf(Cycles, mine) + q.cycles
    BY <1>3, <2>1, <2>2
  <2> QED BY <1>1, <1>2, <1>6, <2>3 DEF DownIn, all, mine
<1>7. CASE q.scope # "gateway"
  <2>1. all = mine
    BY <1>7
  <2>2. DownIn(after) = SumOf(Cycles, all) /\ DownIn(rows) = SumOf(Cycles, mine)
    BY DEF DownIn
  <2> HIDE DEF after, mine, all
  <2> QED BY <1>1, <1>2, <1>5, <1>7, <2>1, <2>2 DEF after
<1> QED BY <1>6, <1>7

\* A row in the place of another.
LEMMA RowReplaced ==
  ASSUME NEW rows \in SUBSET OutageRow, IsFiniteSet(rows), OneEach(rows), NEW p \in rows, NEW q \in OutageRow,
         q.scope = p.scope, q.startedAt = p.startedAt, q.endedAt = Null => p.endedAt = Null
  PROVE  LET after == (rows \ {p}) \cup {q}
         IN /\ IsFiniteSet(after) /\ OneEach(after)
            /\ DownIn(after) = DownIn(rows) + IF p.scope = "gateway" THEN q.cycles - p.cycles ELSE 0
<1> DEFINE rest == rows \ {p}
<1>1. rest \in SUBSET OutageRow /\ IsFiniteSet(rest) /\ OneEach(rest) /\ rest \cup {p} = rows
  BY FS_Subset DEF OneEach
<1>2. \A o \in rest : o.scope = p.scope => o.startedAt # p.startedAt /\ (p.endedAt = Null => o.endedAt # Null)
  BY DEF OneEach
<1>3. \A o \in rest : o.scope = q.scope => o.startedAt # q.startedAt /\ (q.endedAt = Null => o.endedAt # Null)
  BY <1>2
<1> HIDE DEF rest
<1>4. DownIn(rest \cup {p}) = DownIn(rest) + IF p.scope = "gateway" THEN p.cycles ELSE 0
  BY <1>1, <1>2, RowAdded
<1>5. /\ IsFiniteSet(rest \cup {q}) /\ OneEach(rest \cup {q})
      /\ DownIn(rest \cup {q}) = DownIn(rest) + IF q.scope = "gateway" THEN q.cycles ELSE 0
  BY <1>1, <1>3, RowAdded
<1>6. DownIn(rest) \in Int /\ p.cycles \in Int /\ q.cycles \in Int
  BY <1>1, DownInt DEF OutageRow
<1>7. DownIn(rest \cup {q}) = DownIn(rows) + IF p.scope = "gateway" THEN q.cycles - p.cycles ELSE 0
  <2> DEFINE a == DownIn(rest) b == DownIn(rows) c == DownIn(rest \cup {q}) d == p.cycles e == q.cycles
  <2>1. b = a + (IF p.scope = "gateway" THEN d ELSE 0) /\ c = a + IF p.scope = "gateway" THEN e ELSE 0
    BY <1>1, <1>4, <1>5
  <2>2. a \in Int /\ d \in Int /\ e \in Int
    BY <1>6
  <2> HIDE DEF a, b, c, d, e
  <2>3. c = b + IF p.scope = "gateway" THEN e - d ELSE 0
    BY <2>1, <2>2
  <2> QED BY <2>3 DEF b, c, d, e
<1> QED BY <1>5, <1>7 DEF rest

\* A cycle of the gateway that is down counts once, and no other counts.
LEMMA AfterCounts ==
  ASSUME NEW rows \in SUBSET OutageRow, IsFiniteSet(rows), OneEach(rows),
         NEW scope \in {"wan", "gateway"}, NEW ts \in Nat, NEW down \in BOOLEAN,
         \A p \in rows : p.scope = scope => p.startedAt # ts
  PROVE  LET after == AfterCycle(rows, scope, ts, down)
         IN /\ IsFiniteSet(after) /\ OneEach(after)
            /\ DownIn(after) = DownIn(rows) + IF scope = "gateway" /\ down THEN 1 ELSE 0
<1> DEFINE after == AfterCycle(rows, scope, ts, down)
           open == {o \in rows : o.scope = scope /\ o.endedAt = Null}
           new == [scope |-> scope, startedAt |-> ts, endedAt |-> Null, cycles |-> 1]
           Longer(o) == [o EXCEPT !.cycles = @ + 1]
           Closed(o) == [o EXCEPT !.endedAt = ts]
<1>0. ts # Null
  BY AbsentIsNoNumber
<1>1. /\ new \in OutageRow /\ new.scope = scope /\ new.startedAt = ts /\ new.endedAt = Null /\ new.cycles = 1
  BY DEF OutageRow
<1>2. ASSUME NEW o \in rows
      PROVE  /\ Longer(o) \in OutageRow /\ Longer(o).scope = o.scope /\ Longer(o).startedAt = o.startedAt
             /\ Longer(o).endedAt = o.endedAt /\ Longer(o).cycles = o.cycles + 1
             /\ Closed(o) \in OutageRow /\ Closed(o).scope = o.scope /\ Closed(o).startedAt = o.startedAt
             /\ Closed(o).endedAt = ts /\ Closed(o).cycles = o.cycles /\ o.cycles \in Int
  BY DEF OutageRow
<1>3. DownIn(rows) \in Int
  BY DownInt
<1>4. CASE down /\ open = {}
  <2>1. after = rows \cup {new}
    BY <1>4, Zenon DEF AfterCycle
  <2>2. \A p \in rows : p.scope = new.scope => p.startedAt # new.startedAt /\ (new.endedAt = Null => p.endedAt # Null)
    BY <1>4
  <2> HIDE DEF after, new
  <2>3. /\ IsFiniteSet(rows \cup {new}) /\ OneEach(rows \cup {new})
        /\ DownIn(rows \cup {new}) = DownIn(rows) + IF new.scope = "gateway" THEN new.cycles ELSE 0
    BY <1>1, <2>2, RowAdded
  <2> QED BY <1>1, <1>4, <2>1, <2>3 DEF after
<1>5. ASSUME NEW p \in open PROVE open = {p} /\ p \in rows /\ p.scope = scope /\ p.endedAt = Null
  BY <1>5 DEF OneEach
<1>6. CASE down /\ open # {}
  <2>1. PICK p \in open : TRUE
    BY <1>6
  <2>2. open = {p} /\ p \in rows /\ p.scope = scope /\ p.endedAt = Null
    BY <1>5, <2>1
  <2>3. after = (rows \ open) \cup {Longer(o) : o \in open}
    BY <1>6, Zenon DEF AfterCycle
  <2> DEFINE q == Longer(p)
  <2>4. after = (rows \ {p}) \cup {q}
    BY <2>2, <2>3
  <2>5. q \in OutageRow /\ q.scope = p.scope /\ q.startedAt = p.startedAt /\ q.endedAt = p.endedAt
        /\ q.cycles - p.cycles = 1
    <3>1. /\ q \in OutageRow /\ q.scope = p.scope /\ q.startedAt = p.startedAt /\ q.endedAt = p.endedAt
          /\ q.cycles = p.cycles + 1 /\ p.cycles \in Int
      BY <1>2, <2>2
    <3> HIDE DEF q
    <3> QED BY <3>1
  <2> HIDE DEF after, q, open
  <2>6. LET new1 == (rows \ {p}) \cup {q}
        IN /\ IsFiniteSet(new1) /\ OneEach(new1)
           /\ DownIn(new1) = DownIn(rows) + IF p.scope = "gateway" THEN q.cycles - p.cycles ELSE 0
    BY <2>2, <2>5, RowReplaced
  <2> QED BY <1>6, <2>2, <2>4, <2>5, <2>6 DEF after
<1>7. CASE ~down /\ open = {}
  <2>1. after = (rows \ open) \cup {Closed(o) : o \in open}
    BY <1>7, Zenon DEF AfterCycle
  <2>2. after = rows
    <3> HIDE DEF Closed, after
    <3> QED BY <1>7, <2>1
  <2> QED BY <1>3, <1>7, <2>2
<1>8. CASE ~down /\ open # {}
  <2>1. PICK p \in open : TRUE
    BY <1>8
  <2>2. open = {p} /\ p \in rows /\ p.scope = scope /\ p.endedAt = Null
    BY <1>5, <2>1
  <2>3. after = (rows \ open) \cup {Closed(o) : o \in open}
    BY <1>8, Zenon DEF AfterCycle
  <2> DEFINE q == Closed(p)
  <2>4. after = (rows \ {p}) \cup {q}
    BY <2>2, <2>3
  <2>5. q \in OutageRow /\ q.scope = p.scope /\ q.startedAt = p.startedAt /\ q.endedAt # Null
        /\ q.cycles - p.cycles = 0
    <3>1. /\ q \in OutageRow /\ q.scope = p.scope /\ q.startedAt = p.startedAt /\ q.endedAt = ts
          /\ q.cycles = p.cycles /\ p.cycles \in Int
      BY <1>2, <2>2
    <3> HIDE DEF q
    <3> QED BY <1>0, <3>1
  <2> HIDE DEF after, q, open
  <2>6. LET new1 == (rows \ {p}) \cup {q}
        IN /\ IsFiniteSet(new1) /\ OneEach(new1)
           /\ DownIn(new1) = DownIn(rows) + IF p.scope = "gateway" THEN q.cycles - p.cycles ELSE 0
    BY <2>2, <2>5, RowReplaced
  <2> QED BY <1>3, <1>8, <2>2, <2>4, <2>5, <2>6 DEF after
<1> QED BY <1>4, <1>6, <1>7, <1>8

\* What one cycle leaves, in the record and in the counters.
LEMMA CycleLeaves ==
  ASSUME WorldInv, NEW meets \in DOMAIN Meets, NEW odd \in Oddities \cup {"none"}, CycleHappens(meets, odd)
  PROVE  LET n == Len(happened)
             t == [ts |-> CycleTs(n + 1), meets |-> meets, odd |-> odd]
             kept == IF odd = "reboot" THEN [i \in DOMAIN counter |-> 0] ELSE counter
             bytes == kept[PathOf(t)] + 2
             wan == AfterCycle(tables.outage, "wan", t.ts, Meets[meets].wan = 0)
         IN /\ n \in Nat /\ Len(happened') = n + 1 /\ happened'[n + 1] = t
            /\ \A i \in 1..n : happened'[i] = happened[i]
            /\ Kept \subseteq 1..n /\ Kept' = IF odd = "missed" THEN Kept ELSE Kept \cup {n + 1}
            /\ \A i \in Kept : CycleTs(i) < CycleTs(n + 1) /\ CycleTs(i) \in Nat
            /\ odd = "missed" => tables' = tables
            /\ odd # "missed" => /\ tables'.cycle = tables.cycle \cup {CycleRow(t, bytes)}
                                 /\ tables'.outage = AfterCycle(wan, "gateway", t.ts, Meets[meets].gw = 0)
            /\ counter' = [kept EXCEPT ![PathOf(t)] = bytes]
<1> DEFINE n == Len(happened)
           t == [ts |-> CycleTs(n + 1), meets |-> meets, odd |-> odd]
           kept == IF odd = "reboot" THEN [i \in DOMAIN counter |-> 0] ELSE counter
           bytes == kept[PathOf(t)] + 2
           wan == AfterCycle(tables.outage, "wan", t.ts, Meets[meets].wan = 0)
           outage == AfterCycle(wan, "gateway", t.ts, Meets[meets].gw = 0)
           speed == IF odd = "test"
                    THEN tables.speed \cup {[ts |-> t.ts, mbit |-> IF Meets[meets].wan = 0 THEN Null ELSE 940]}
                    ELSE tables.speed
           sample == tables.sample \cup SampleRows(t)
           cycle == tables.cycle \cup {CycleRow(t, bytes)}
           event == tables.event \cup EventRows(t)
<1>1. n \in Nat /\ happened \in Seq(Cycle)
  BY LenProperties DEF WorldInv, Ordered
<1>2. t \in Cycle /\ t.odd = odd
  BY <1>1, Stamp DEF Cycle
<1>3. /\ happened' = Append(happened, t) /\ counter' = [kept EXCEPT ![PathOf(t)] = bytes]
      /\ tables' = IF odd = "missed" THEN tables
                   ELSE [tables EXCEPT !.sample = sample, !.cycle = cycle, !.event = event,
                                       !.outage = outage, !.speed = speed]
  BY Zenon DEF CycleHappens
<1>4. odd # "missed" => tables'.cycle = cycle /\ tables'.outage = outage
  <2> HIDE DEF sample, cycle, outage, event, speed
  <2>1. tables = [ sample |-> tables.sample, cycle |-> tables.cycle, outage |-> tables.outage,
                   event |-> tables.event, speed |-> tables.speed, intf |-> tables.intf, line |-> tables.line ]
    BY DEF WorldInv, Shaped
  <2> QED BY <1>3, <2>1
<1> HIDE DEF t, kept, bytes, sample, cycle, outage, event, speed
<1>5. /\ Len(happened') = n + 1 /\ happened'[n + 1] = t /\ \A i \in 1..n : happened'[i] = happened[i]
  BY <1>1, <1>2, <1>3, AppendFacts
<1>6. Kept \subseteq 1..n /\ Kept' = IF odd = "missed" THEN Kept ELSE Kept \cup {n + 1}
  <2>1. Kept \subseteq 1..n /\ Kept' = {i \in 1..n + 1 : happened'[i].odd # "missed"}
    BY <1>5 DEF Kept
  <2>2. \A i \in 1..n : i \in Kept' <=> i \in Kept
    BY <1>1, <1>5, <2>1 DEF Kept
  <2>3. n + 1 \in Kept' <=> odd # "missed"
    BY <1>1, <1>2, <1>5, <2>1
  <2>4. Kept' \subseteq 1..n \cup {n + 1}
    BY <1>1, <2>1
  <2> QED BY <2>1, <2>2, <2>3, <2>4
<1>7. \A i \in Kept : CycleTs(i) < CycleTs(n + 1) /\ CycleTs(i) \in Nat
  BY <1>1, <1>6, Stamp
<1> QED BY <1>1, <1>3, <1>4, <1>5, <1>6, <1>7 DEF t, kept, bytes, cycle, outage

\* The cycles the gateway did not answer are as many as its outages count.
OutagesCounted ==
  /\ IsFiniteSet(tables.outage) /\ OneEach(tables.outage)
  /\ DownIn(tables.outage) = Cardinality({i \in Kept : Meets[happened[i].meets].gw = 0})

\* A cycle keeps the count.
LEMMA CycleKeepsCounts ==
  ASSUME WorldInv, OutagesCounted, NEW meets \in DOMAIN Meets, NEW odd \in Oddities \cup {"none"},
         CycleHappens(meets, odd)
  PROVE  OutagesCounted'
<1> DEFINE n == Len(happened)
           t == [ts |-> CycleTs(n + 1), meets |-> meets, odd |-> odd]
           wan == AfterCycle(tables.outage, "wan", t.ts, Meets[meets].wan = 0)
           outage == AfterCycle(wan, "gateway", t.ts, Meets[meets].gw = 0)
           down == {i \in Kept : Meets[happened[i].meets].gw = 0}
           downNow == {i \in Kept' : Meets[happened'[i].meets].gw = 0}
<1>1. /\ n \in Nat /\ Len(happened') = n + 1 /\ happened'[n + 1] = t
      /\ \A i \in 1..n : happened'[i] = happened[i]
      /\ Kept \subseteq 1..n /\ Kept' = IF odd = "missed" THEN Kept ELSE Kept \cup {n + 1}
      /\ \A i \in Kept : CycleTs(i) < CycleTs(n + 1) /\ CycleTs(i) \in Nat
      /\ odd = "missed" => tables' = tables
      /\ odd # "missed" => tables'.outage = outage
  BY CycleLeaves
<1>2. t.ts = CycleTs(n + 1) /\ t.meets = meets /\ t.ts \in Nat
  BY <1>1, Stamp
<1>3. \A i \in Kept : happened'[i] = happened[i]
  BY <1>1
<1> HIDE DEF t
<1>4. CASE odd = "missed"
  <2>1. Kept' = Kept /\ tables' = tables
    BY <1>1, <1>4
  <2>2. downNow = down
    BY <1>3, <2>1
  <2> QED BY <2>1, <2>2 DEF OutagesCounted
<1>5. CASE odd # "missed"
  <2>1. Kept' = Kept \cup {n + 1} /\ tables'.outage = outage /\ n + 1 \notin Kept
    BY <1>1, <1>5
  <2>2. PICK lost \in BOOLEAN, dead \in BOOLEAN : lost = (Meets[meets].wan = 0) /\ dead = (Meets[meets].gw = 0)
    OBVIOUS
  <2>3. tables.outage \in SUBSET OutageRow /\ \A p \in tables.outage : p.startedAt # t.ts
    <3> SUFFICES ASSUME NEW p \in tables.outage PROVE p.startedAt # t.ts
      BY DEF WorldInv, OutagesKept
    <3>1. PICK i \in Kept : p.startedAt = CycleTs(i)
      BY DEF WorldInv, OutagesKept
    <3> QED BY <1>1, <1>2, <3>1
  <2>4. Follows(wan, tables.outage, "wan", t.ts, lost) /\ wan = AfterCycle(tables.outage, "wan", t.ts, lost)
    <3>1. wan = AfterCycle(tables.outage, "wan", t.ts, lost)
      BY <2>2
    <3> HIDE DEF wan
    <3> QED BY <1>2, <2>3, <3>1, AfterCycleFacts
  <2>5. outage = AfterCycle(wan, "gateway", t.ts, dead)
    BY <2>2
  <2> HIDE DEF wan, outage
  <2>6. IsFiniteSet(wan) /\ OneEach(wan) /\ DownIn(wan) = DownIn(tables.outage) + 0
    <3>1. IsFiniteSet(tables.outage) /\ OneEach(tables.outage)
      BY DEF OutagesCounted
    <3> QED BY <1>2, <2>3, <2>4, <3>1, AfterCounts
  <2>7. wan \in SUBSET OutageRow /\ \A p \in wan : p.scope = "gateway" => p.startedAt # t.ts
    BY <2>3, <2>4 DEF Follows
  <2>8. /\ IsFiniteSet(outage) /\ OneEach(outage)
        /\ DownIn(outage) = DownIn(wan) + IF dead THEN 1 ELSE 0
    BY <1>2, <2>5, <2>6, <2>7, AfterCounts
  <2>9. IsFiniteSet(down) /\ n + 1 \notin down /\ down \subseteq Kept
    <3>1. down \subseteq 1..n /\ IsFiniteSet(1..n)
      BY <1>1, FS_Interval
    <3> HIDE DEF down
    <3>2. IsFiniteSet(down)
      BY <3>1, FS_Subset
    <3> QED BY <2>1, <3>2 DEF down
  <2>10. downNow = IF dead THEN down \cup {n + 1} ELSE down
    <3>1. happened'[n + 1].meets = meets
      BY <1>1, <1>2
    <3> QED BY <1>3, <2>1, <2>2, <3>1
  <2>11. Cardinality(downNow) = Cardinality(down) + IF dead THEN 1 ELSE 0
    <3> HIDE DEF down, downNow
    <3>1. Cardinality(down) \in Nat /\ Cardinality(down \cup {n + 1}) = Cardinality(down) + 1
      BY <2>9, FS_AddElement, FS_CardinalityType
    <3> QED BY <2>10, <3>1
  <2>12. DownIn(tables.outage) \in Int /\ DownIn(tables.outage) = Cardinality(down)
    BY <2>3, DownInt DEF OutagesCounted
  <2>13. DownIn(outage) = Cardinality(downNow)
    <3> HIDE DEF down, downNow
    <3> QED BY <2>6, <2>8, <2>11, <2>12
  <2> QED BY <2>1, <2>8, <2>13 DEF OutagesCounted
<1> QED BY <1>4, <1>5

\* The cycle a row is of, by its place.
PlaceOf(r) == r.ts \div ProbeCycleS
Steady == \A i \in 1..Len(happened) : happened[i].odd # "reboot" /\ PathOf(happened[i]) = Home

\* No interface's counter has run ahead of the cycles, as it stood in a row and as it stands
\* now; while nothing restarts or moves, it is all they brought.
BytesCounted ==
  /\ counter \in [{Home, Away} -> Nat]
  /\ \A r \in tables.cycle : r.bytes # Null =>
       /\ r.bytes \in Nat /\ r.pathIf \in {Home, Away}
       /\ counter[r.pathIf] - r.bytes <= 2 * (Len(happened) - PlaceOf(r))
  /\ \A q, r \in tables.cycle : q.bytes # Null /\ r.bytes # Null /\ q.pathIf = r.pathIf /\ q.ts <= r.ts =>
       r.bytes - q.bytes <= 2 * (PlaceOf(r) - PlaceOf(q))
  /\ Steady => /\ counter[Home] = 2 * Len(happened)
               /\ \A r \in tables.cycle : r.bytes # Null => r.bytes = 2 * PlaceOf(r)

\* What the counters were at a row is a number, and bounded by its place.
LEMMA BytesFields ==
  ASSUME NEW t, NEW bytes \in Nat
  PROVE  LET r == CycleRow(t, bytes)
         IN /\ r.ts = t.ts
            /\ r.bytes # Null => r.bytes = bytes /\ r.pathIf = PathOf(t)
  BY DEF CycleRow

\* A cycle keeps the bytes counted.
LEMMA CycleKeepsBytes ==
  ASSUME WorldInv, BytesCounted, NEW meets \in DOMAIN Meets, NEW odd \in Oddities \cup {"none"},
         CycleHappens(meets, odd)
  PROVE  BytesCounted'
<1> DEFINE n == Len(happened)
           t == [ts |-> CycleTs(n + 1), meets |-> meets, odd |-> odd]
           kept == IF odd = "reboot" THEN [i \in DOMAIN counter |-> 0] ELSE counter
           path == PathOf(t)
           bytes == kept[path] + 2
           row == CycleRow(t, bytes)
<1>1. /\ n \in Nat /\ Len(happened') = n + 1 /\ happened'[n + 1] = t
      /\ \A i \in 1..n : happened'[i] = happened[i]
      /\ Kept \subseteq 1..n
      /\ \A i \in Kept : CycleTs(i) < CycleTs(n + 1) /\ CycleTs(i) \in Nat
      /\ odd = "missed" => tables' = tables
      /\ odd # "missed" => tables'.cycle = tables.cycle \cup {row}
      /\ counter' = [kept EXCEPT ![path] = bytes]
  BY CycleLeaves
<1>2. t.ts = CycleTs(n + 1) /\ t.odd = odd /\ t.ts \in Nat /\ CycleTs(n + 1) \div ProbeCycleS = n + 1
  BY <1>1, Stamp
<1>3. path \in {Home, Away}
  BY DEF PathOf
<1>4. /\ kept \in [{Home, Away} -> Nat] /\ \A i \in {Home, Away} : kept[i] <= counter[i] /\ counter[i] \in Nat
      /\ odd # "reboot" => kept = counter
  BY DEF BytesCounted
<1> HIDE DEF t, kept, path
<1>5. bytes \in Nat /\ bytes <= counter[path] + 2 /\ counter[path] \in Nat
  BY <1>3, <1>4
<1>6. row.ts = CycleTs(n + 1) /\ (row.bytes # Null => row.bytes = bytes /\ row.pathIf = path) /\ PlaceOf(row) = n + 1
  BY <1>2, <1>5, BytesFields DEF path, PlaceOf
<1>7. /\ counter' \in [{Home, Away} -> Nat] /\ counter'[path] = bytes
      /\ \A i \in {Home, Away} : counter'[i] <= counter[i] + 2 /\ counter'[i] \in Nat /\ counter[i] \in Nat
  BY <1>1, <1>3, <1>4, <1>5
<1> HIDE DEF row, bytes
<1>8. ASSUME NEW r \in tables.cycle
      PROVE  PlaceOf(r) \in 1..n /\ r.ts < CycleTs(n + 1) /\ r.ts \in Nat /\ CycleTs(n + 1) \in Nat /\ r.ts = CycleTs(PlaceOf(r))
  <2>1. PICK i \in Kept : RowOf(r, i)
    BY RowsOfCycles
  <2>2. r.ts = CycleTs(i) /\ i \in 1..n /\ i \in Nat
    BY <1>1, <2>1 DEF RowOf
  <2>3. PlaceOf(r) = i
    BY <2>2, Stamp DEF PlaceOf
  <2> QED BY <1>1, <1>2, <2>1, <2>2, <2>3
<1>9. ASSUME NEW r \in tables.cycle, r.bytes # Null
      PROVE  /\ r.bytes \in Nat /\ r.pathIf \in {Home, Away}
             /\ counter[r.pathIf] - r.bytes <= 2 * (n - PlaceOf(r))
  BY <1>9 DEF BytesCounted
<1>10. tables'.cycle \subseteq tables.cycle \cup {row}
  BY <1>1
<1>11. ASSUME NEW r \in tables'.cycle, r.bytes # Null
       PROVE  /\ r.bytes \in Nat /\ r.pathIf \in {Home, Away}
              /\ counter'[r.pathIf] - r.bytes <= 2 * ((n + 1) - PlaceOf(r))
  <2>1. CASE r \in tables.cycle
    <3>1. r.bytes \in Nat /\ r.pathIf \in {Home, Away} /\ counter[r.pathIf] - r.bytes <= 2 * (n - PlaceOf(r))
      BY <1>9, <1>11, <2>1
    <3>2. counter'[r.pathIf] <= counter[r.pathIf] + 2 /\ counter'[r.pathIf] \in Nat /\ counter[r.pathIf] \in Nat
      BY <1>7, <3>1
    <3>3. PlaceOf(r) \in Nat
      BY <1>8, <2>1
    <3> QED BY <1>1, <3>1, <3>2, <3>3
  <2>2. CASE r = row
    BY <1>1, <1>3, <1>5, <1>6, <1>7, <1>11, <2>2
  <2> QED BY <1>10, <2>1, <2>2
<1>12. ASSUME NEW q \in tables'.cycle, NEW r \in tables'.cycle,
              q.bytes # Null, r.bytes # Null, q.pathIf = r.pathIf, q.ts <= r.ts
       PROVE  r.bytes - q.bytes <= 2 * (PlaceOf(r) - PlaceOf(q))
  <2>1. CASE q \in tables.cycle /\ r \in tables.cycle
    BY <1>12, <2>1 DEF BytesCounted
  <2>2. CASE q = row /\ r \in tables.cycle
    BY <1>6, <1>8, <1>12, <2>2
  <2>3. CASE q \in tables.cycle /\ r = row
    <3>1. q.bytes \in Nat /\ q.pathIf = path /\ counter[path] - q.bytes <= 2 * (n - PlaceOf(q))
      BY <1>6, <1>9, <1>12, <2>3
    <3>2. PlaceOf(q) \in Nat /\ PlaceOf(r) = n + 1 /\ r.bytes = bytes
      BY <1>6, <1>8, <1>12, <2>3
    <3> QED BY <1>1, <1>5, <3>1, <3>2
  <2>4. CASE q = row /\ r = row
    BY <1>1, <1>5, <1>6, <1>12, <2>4
  <2> QED BY <1>10, <2>1, <2>2, <2>3, <2>4
<1>13. ASSUME Steady'
       PROVE  /\ counter'[Home] = 2 * (n + 1)
              /\ \A r \in tables'.cycle : r.bytes # Null => r.bytes = 2 * PlaceOf(r)
  <2>1. Steady /\ odd # "reboot" /\ path = Home
    <3>1. \A i \in 1..n + 1 : happened'[i].odd # "reboot" /\ PathOf(happened'[i]) = Home
      BY <1>1, <1>13 DEF Steady, PathOf
    <3>2. Steady
      BY <1>1, <3>1 DEF Steady
    <3>3. happened'[n + 1].odd # "reboot" /\ PathOf(happened'[n + 1]) = Home
      BY <1>1, <3>1
    <3> QED BY <1>1, <1>2, <3>2, <3>3 DEF path
  <2>2. counter[Home] = 2 * n /\ \A r \in tables.cycle : r.bytes # Null => r.bytes = 2 * PlaceOf(r)
    BY <2>1 DEF BytesCounted
  <2>3. bytes = 2 * (n + 1)
    BY <1>1, <1>4, <2>1, <2>2 DEF bytes
  <2> QED BY <1>6, <1>7, <1>10, <2>1, <2>2, <2>3
<1> QED BY <1>1, <1>7, <1>11, <1>12, <1>13 DEF BytesCounted

BooksInv == WorldInv /\ OutagesCounted /\ BytesCounted

\* Both hold at all times.
LEMMA BooksHold == WorldSpec => []BooksInv
<1>1. WorldInit => OutagesCounted /\ BytesCounted
  <2> SUFFICES ASSUME WorldInit PROVE OutagesCounted /\ BytesCounted
    OBVIOUS
  <2>1. Len(happened) = 0 /\ 1..0 = {} /\ tables.outage = {} /\ tables.cycle = {}
    BY EmptyFacts DEF WorldInit
  <2>2. {i \in Kept : Meets[happened[i].meets].gw = 0} = {}
    BY <2>1 DEF Kept
  <2>3. DownIn(tables.outage) = 0
    <3>1. {o \in tables.outage : o.scope = "gateway"} = {}
      BY <2>1
    <3> QED BY <3>1, SumEmpty DEF DownIn
  <2>4. OutagesCounted
    BY <2>1, <2>2, <2>3, FS_EmptySet DEF OutagesCounted, OneEach
  <2>5. counter \in [{Home, Away} -> Nat] /\ counter[Home] = 0
    BY DEF WorldInit
  <2>6. BytesCounted
    BY <2>1, <2>5 DEF BytesCounted
  <2> QED BY <2>4, <2>6
<1>2. WorldInv /\ OutagesCounted /\ BytesCounted /\ [WorldNext]_worldVars => OutagesCounted' /\ BytesCounted'
  <2> SUFFICES ASSUME WorldInv, OutagesCounted, BytesCounted, [WorldNext]_worldVars
               PROVE  OutagesCounted' /\ BytesCounted'
    OBVIOUS
  <2>1. CASE WorldNext
    <3>1. PICK meets \in DOMAIN Meets : \E odd \in Oddities \cup {"none"} : CycleHappens(meets, odd)
      BY <2>1 DEF WorldNext
    <3>2. PICK odd \in Oddities \cup {"none"} : CycleHappens(meets, odd)
      BY <3>1
    <3> QED BY <3>1, <3>2, CycleKeepsCounts, CycleKeepsBytes
  <2>2. CASE UNCHANGED worldVars
    <3>1. tables' = tables /\ happened' = happened /\ counter' = counter /\ Kept' = Kept /\ (Steady' <=> Steady)
      BY <2>2 DEF worldVars, Kept, Steady, PathOf
    <3> QED BY <3>1 DEF OutagesCounted, BytesCounted
  <2> QED BY <2>1, <2>2
<1> QED BY <1>1, <1>2, RecordHolds, PTL DEF WorldSpec, BooksInv

-----------------------------------------------------------------------------
(* Sums of a field, as they are written in the reads. *)

\* The bytes of a set of intervals, and the seconds, as sums over it.
LEMMA BytesSum ==
  ASSUME NEW S, IsFiniteSet(S), \A x \in S : x.bytes \in Int
  PROVE  MapThenSumSet(LAMBDA b : b.bytes, S) = SumOf([x \in S |-> x.bytes], S)
<1> DEFINE F == [x \in S |-> x.bytes]
           h == CHOOSE g : g = [s \in SUBSET S |-> IF s = {} THEN 0 ELSE Pick(s).bytes + g[s \ {Pick(s)}]]
<1>1. MapThenSumSet(LAMBDA b : b.bytes, S) = h[S]
  BY DEF MapThenSumSet, MapThenFoldSet, Pick
<1>2. IntsOn(F, S) /\ \A x \in S : F[x] \in Int
  BY DEF IntsOn
<1>3. \A s \in SUBSET S : s # {} => Pick(s) \in S /\ F[Pick(s)] = Pick(s).bytes
  BY DEF Pick
<1> HIDE DEF F
<1>4. \A g : Adds(F, S, g) <=> g = [s \in SUBSET S |-> IF s = {} THEN 0 ELSE Pick(s).bytes + g[s \ {Pick(s)}]]
  BY <1>3 DEF Adds
<1>5. Adds(F, S, h)
  <2>1. PICK g : Adds(F, S, g)
    BY <1>2, AddsExists
  <2> QED BY <1>4, <2>1
<1> HIDE DEF h
<1>6. h[S] = SumOf(F, S)
  BY <1>2, <1>5, SumWhole
<1> QED BY <1>1, <1>6 DEF F

\* The seconds of a set of intervals, as a sum over it.
LEMMA SpanSum ==
  ASSUME NEW S, IsFiniteSet(S), \A x \in S : x.span \in Int
  PROVE  MapThenSumSet(LAMBDA b : b.span, S) = SumOf([x \in S |-> x.span], S)
<1> DEFINE F == [x \in S |-> x.span]
           h == CHOOSE g : g = [s \in SUBSET S |-> IF s = {} THEN 0 ELSE Pick(s).span + g[s \ {Pick(s)}]]
<1>1. MapThenSumSet(LAMBDA b : b.span, S) = h[S]
  BY DEF MapThenSumSet, MapThenFoldSet, Pick
<1>2. IntsOn(F, S) /\ \A x \in S : F[x] \in Int
  BY DEF IntsOn
<1>3. \A s \in SUBSET S : s # {} => Pick(s) \in S /\ F[Pick(s)] = Pick(s).span
  BY DEF Pick
<1> HIDE DEF F
<1>4. \A g : Adds(F, S, g) <=> g = [s \in SUBSET S |-> IF s = {} THEN 0 ELSE Pick(s).span + g[s \ {Pick(s)}]]
  BY <1>3 DEF Adds
<1>5. Adds(F, S, h)
  <2>1. PICK g : Adds(F, S, g)
    BY <1>2, AddsExists
  <2> QED BY <1>4, <2>1
<1> HIDE DEF h
<1>6. h[S] = SumOf(F, S)
  BY <1>2, <1>5, SumWhole
<1> QED BY <1>1, <1>6 DEF F

-----------------------------------------------------------------------------
(* Volumes. *)

\* There are no more rows than cycles.
LEMMA CyclesFinite == ASSUME WorldInv PROVE IsFiniteSet(tables.cycle)
<1> DEFINE row == [i \in Kept |-> CHOOSE r \in tables.cycle : r.ts = CycleTs(i)]
<1>1. IsFiniteSet(Kept)
  <2>1. Len(happened) \in Nat
    BY LenProperties DEF WorldInv, Ordered
  <2>2. Kept \subseteq 1..Len(happened) /\ IsFiniteSet(1..Len(happened))
    BY <2>1, FS_Interval DEF Kept
  <2> QED BY <2>2, FS_Subset
<1>2. ASSUME NEW r \in tables.cycle PROVE \E i \in Kept : r = row[i]
  <2>1. PICK i \in Kept : r.ts = CycleTs(i)
    BY RowsOfCycles DEF RowOf
  <2>2. row[i] \in tables.cycle /\ row[i].ts = CycleTs(i)
    BY <2>1
  <2>3. r = row[i]
    BY <2>1, <2>2, RowsOfCycles
  <2> QED BY <2>3
<1> HIDE DEF row
<1>3. tables.cycle \subseteq ImageOf(row, Kept)
  BY <1>2 DEF ImageOf
<1>4. IsFiniteSet(ImageOf(row, Kept))
  BY <1>1, ImageFinite
<1> QED BY <1>3, <1>4, FS_Subset

\* The rows the volumes of a window are read from, the intervals that end in it, those that
\* are used, and what each of them moved and lasted.
RowsFrom(from) == Within(tables.cycle, from - MaxIntervalS, Clock)
Ends(from) == {r \in RowsFrom(from) : from <= r.ts /\ Before(RowsFrom(from), r) # Null}
Used(from) == {r \in Ends(from) : Usable(Before(RowsFrom(from), r), r)}
Brought(from) == [r \in RowsFrom(from) |-> r.bytes - Before(RowsFrom(from), r).bytes]
Lasted(from) == [r \in RowsFrom(from) |-> r.ts - Before(RowsFrom(from), r).ts]

\* An interval in use ends at a cycle and begins at the last recorded one before it.
LEMMA IntervalsAre ==
  ASSUME BooksInv, NEW from \in Windows, NEW r \in Used(from)
  PROVE  LET p == Before(RowsFrom(from), r)
         IN /\ p \in RowsFrom(from) /\ p.ts < r.ts /\ PlaceOf(p) < PlaceOf(r)
            /\ \A q \in RowsFrom(from) : PlaceOf(q) < PlaceOf(r) => PlaceOf(q) <= PlaceOf(p)
            /\ PlaceOf(p) \in 1..Len(happened) /\ PlaceOf(r) \in 1..Len(happened)
            /\ from - MaxIntervalS <= CycleTs(PlaceOf(p))
            /\ Brought(from)[r] \in Nat /\ Brought(from)[r] <= 2 * (PlaceOf(r) - PlaceOf(p))
            /\ Steady => Brought(from)[r] = 2 * (PlaceOf(r) - PlaceOf(p))
            /\ Lasted(from)[r] = ProbeCycleS * (PlaceOf(r) - PlaceOf(p))
<1> DEFINE rows == RowsFrom(from)
           earlier == {q \in rows : q.ts < r.ts}
           p == Before(rows, r)
<1>0. WorldInv /\ BytesCounted
  BY DEF BooksInv
<1>1. rows \subseteq tables.cycle /\ r \in rows /\ p # Null /\ Usable(p, r) /\ \A q \in rows : from - MaxIntervalS <= q.ts
  BY DEF Used, Ends, RowsFrom, Within
<1>2. ASSUME NEW q \in rows
      PROVE  /\ PlaceOf(q) \in 1..Len(happened) /\ PlaceOf(q) \in Nat /\ q.ts = CycleTs(PlaceOf(q)) /\ q.ts \in Nat
             /\ q.ts <= Clock
  <2>1. PICK i \in Kept : RowOf(q, i)
    BY <1>0, <1>1, RowsOfCycles
  <2>2. q.ts = CycleTs(i) /\ i \in 1..Len(happened) /\ i \in Nat /\ q.ts <= Clock
    BY <1>0, <2>1, SeqFacts DEF RowOf, Kept, WorldInv, Ordered, RowsFrom, Within
  <2>3. PlaceOf(q) = i
    BY <2>2, Stamp DEF PlaceOf
  <2> QED BY <2>2, <2>3, Stamp
<1>3. p = IF earlier = {} THEN Null ELSE Newest(earlier)
  BY DEF Before, Newest
<1>4. p \in earlier /\ \A q \in earlier : q.ts <= p.ts
  <2>1. earlier # {} /\ p = Newest(earlier)
    BY <1>1, <1>3
  <2>2. Clock \in Nat /\ \A q \in earlier : q.ts \in Nat /\ q.ts <= Clock
    BY <1>0, <1>2, RecordedCycles
  <2> HIDE DEF earlier, p
  <2> QED BY <2>1, <2>2, NewestIs
<1>5. p \in rows /\ p.ts < r.ts /\ \A q \in rows : q.ts < r.ts => q.ts <= p.ts
  BY <1>4
<1> HIDE DEF rows, p, earlier
<1> DEFINE a == PlaceOf(p) b == PlaceOf(r)
<1>6. a \in Nat /\ b \in Nat /\ p.ts = CycleTs(a) /\ r.ts = CycleTs(b) /\ a \in 1..Len(happened) /\ b \in 1..Len(happened)
  BY <1>1, <1>2, <1>5
<1>7. r.ts - p.ts = ProbeCycleS * (b - a)
  BY <1>6, ReadsAssumption, InstantAssumption DEF CycleTs
<1>8. a < b
  <2> SUFFICES ASSUME b <= a PROVE FALSE
    BY <1>6
  <2>1. b = a \/ b < a
    BY <1>6
  <2>2. CycleTs(b) = CycleTs(a) \/ CycleTs(b) < CycleTs(a)
    BY <1>6, <2>1, Stamp
  <2>3. CycleTs(a) \in Nat /\ CycleTs(b) \in Nat /\ CycleTs(a) < CycleTs(b)
    BY <1>5, <1>6, Stamp
  <2> HIDE DEF a, b
  <2> QED BY <2>2, <2>3
<1>9. ASSUME NEW q \in rows, PlaceOf(q) < b PROVE PlaceOf(q) <= a
  <2> DEFINE c == PlaceOf(q)
  <2>1. c \in Nat /\ q.ts = CycleTs(c) /\ c < b
    BY <1>2, <1>9
  <2> HIDE DEF c
  <2>2. CycleTs(c) < CycleTs(b)
    BY <1>6, <2>1, Stamp
  <2>3. CycleTs(c) <= CycleTs(a)
    BY <1>5, <1>6, <2>1, <2>2
  <2>4. ~(a < c)
    BY <1>6, <2>1, <2>3, Stamp
  <2> QED BY <1>6, <2>1, <2>4 DEF c
<1>10. /\ r.bytes # Null /\ p.bytes # Null /\ p.bytes <= r.bytes /\ p.pathIf = r.pathIf
       /\ p \in tables.cycle /\ r \in tables.cycle /\ p.ts <= r.ts
  BY <1>1, <1>2, <1>5 DEF Usable
<1>11. p.bytes \in Nat /\ r.bytes \in Nat /\ r.bytes - p.bytes <= 2 * (b - a)
  BY <1>0, <1>10 DEF BytesCounted
<1>12. Steady => r.bytes = 2 * b /\ p.bytes = 2 * a
  BY <1>0, <1>10 DEF BytesCounted
<1>13. Brought(from)[r] = r.bytes - p.bytes /\ Lasted(from)[r] = r.ts - p.ts
  BY <1>1 DEF Brought, Lasted, rows, p
<1> DEFINE moved == Brought(from)[r] took == Lasted(from)[r]
<1>14. moved \in Nat /\ moved <= 2 * (b - a) /\ (Steady => moved = 2 * (b - a)) /\ took = ProbeCycleS * (b - a)
  BY <1>6, <1>7, <1>10, <1>11, <1>12, <1>13
<1>15. from - MaxIntervalS <= CycleTs(a)
  BY <1>1, <1>5, <1>6
<1> QED BY <1>5, <1>6, <1>8, <1>9, <1>14, <1>15 DEF rows, p

\* The intervals in use are finitely many, and each moved and lasted something.
LEMMA UsedFinite ==
  ASSUME BooksInv, NEW from \in Windows
  PROVE  /\ IsFiniteSet(Ends(from)) /\ IsFiniteSet(Used(from)) /\ Used(from) \subseteq Ends(from)
         /\ IntsOn(Brought(from), Used(from)) /\ IntsOn(Lasted(from), Used(from))
<1>1. IsFiniteSet(tables.cycle)
  BY CyclesFinite DEF BooksInv
<1>2. Ends(from) \subseteq tables.cycle /\ Used(from) \subseteq Ends(from)
  BY DEF Ends, Used, RowsFrom, Within
<1>3. IsFiniteSet(Ends(from)) /\ IsFiniteSet(Used(from))
  <2>1. IsFiniteSet(Ends(from))
    BY <1>1, <1>2, FS_Subset
  <2> QED BY <1>2, <2>1, FS_Subset
<1>4. ASSUME NEW r \in Used(from) PROVE Brought(from)[r] \in Int /\ Lasted(from)[r] \in Int
  <2> DEFINE a == PlaceOf(Before(RowsFrom(from), r)) b == PlaceOf(r)
  <2>1. /\ a \in 1..Len(happened) /\ b \in 1..Len(happened) /\ Brought(from)[r] \in Nat
        /\ Lasted(from)[r] = ProbeCycleS * (b - a)
    BY IntervalsAre
  <2> HIDE DEF a, b
  <2> QED BY <2>1, ReadsAssumption
<1>5. IntsOn(Brought(from), Used(from)) /\ IntsOn(Lasted(from), Used(from))
  BY <1>4 DEF IntsOn
<1> QED BY <1>2, <1>3, <1>5

\* Whatever the width of the buckets, they sum up the intervals in use (bucket-throughput.ts).
LEMMA ThroughputSums ==
  ASSUME BooksInv, NEW from \in Windows, NEW width
  PROVE  LET buckets == BucketThroughput(tables, from, Clock, width)
         IN /\ MapThenSumSet(LAMBDA b : b.bytes, buckets) = SumOf(Brought(from), Used(from))
            /\ MapThenSumSet(LAMBDA b : b.span, buckets) = SumOf(Lasted(from), Used(from))
<1> DEFINE rows == RowsFrom(from)
           In(b) == {r \in Ends(from) : BucketOf(r.ts, width) = b}
           Taken(b) == {r \in In(b) : Usable(Before(rows, r), r)}
           Carried(b) == MapThenSumSet(LAMBDA r : r.bytes - Before(rows, r).bytes, Taken(b))
           Took(b) == MapThenSumSet(LAMBDA r : r.ts - Before(rows, r).ts, Taken(b))
           Row(b) == [bucket |-> b, bytes |-> Carried(b), span |-> Took(b), intervals |-> Cardinality(Taken(b)),
                      skipped |-> Cardinality(In(b)) - Cardinality(Taken(b))]
           place == [r \in Ends(from) |-> BucketOf(r.ts, width)]
           B == ImageOf(place, Ends(from))
           P == [b \in B |-> Taken(b)]
           row == [b \in B |-> Row(b)]
           buckets == ImageOf(row, B)
<1>1. BucketThroughput(tables, from, Clock, width) = buckets
  <2>1. B = {BucketOf(r.ts, width) : r \in Ends(from)}
    BY DEF ImageOf
  <2>2. buckets = {Row(b) : b \in B}
    BY DEF ImageOf
  <2>3. BucketThroughput(tables, from, Clock, width) = {Row(b) : b \in {BucketOf(r.ts, width) : r \in Ends(from)}}
    BY DEF BucketThroughput, Ends, RowsFrom
  <2> QED BY <2>1, <2>2, <2>3
<1>2. /\ IsFiniteSet(Ends(from)) /\ IsFiniteSet(Used(from)) /\ Used(from) \subseteq Ends(from)
      /\ IntsOn(Brought(from), Used(from)) /\ IntsOn(Lasted(from), Used(from))
  BY UsedFinite
<1>3. IsFiniteSet(B)
  BY <1>2, ImageFinite
<1>4. ASSUME NEW b \in B
      PROVE  /\ P[b] = Taken(b) /\ P[b] \subseteq Used(from) /\ IsFiniteSet(P[b])
             /\ IntsOn(Brought(from), P[b]) /\ IntsOn(Lasted(from), P[b])
  <2>1. P[b] = Taken(b) /\ Taken(b) \subseteq Used(from)
    BY DEF Used
  <2> HIDE DEF P
  <2>2. IsFiniteSet(P[b])
    BY <1>2, <2>1, FS_Subset
  <2> QED BY <1>2, <2>1, <2>2 DEF IntsOn
<1>5. PartedBy(P, B) /\ WholeOf(P, B) = Used(from)
  <2>1. \A b \in B : P[b] = Taken(b)
    OBVIOUS
  <2>2. \A r \in Used(from) : place[r] \in B /\ r \in Taken(place[r])
    BY DEF Used, ImageOf
  <2>3. \A b \in B : \A r \in P[b] : r \in Used(from) /\ place[r] = b
    BY DEF Used
  <2> HIDE DEF P, place, B
  <2> QED BY <2>1, <2>2, <2>3 DEF PartedBy, WholeOf
<1>6. ASSUME NEW b \in B PROVE Carried(b) = SumOf(Brought(from), P[b])
  <2> DEFINE S == P[b]
             F == Brought(from)
             h == CHOOSE g : g = [s \in SUBSET S |-> IF s = {} THEN 0
                                    ELSE (Pick(s).bytes - Before(rows, Pick(s)).bytes) + g[s \ {Pick(s)}]]
  <2>1. Carried(b) = h[S]
    BY DEF MapThenSumSet, MapThenFoldSet, Pick
  <2>2. IsFiniteSet(S) /\ IntsOn(F, S) /\ (\A x \in S : F[x] \in Int) /\ S \subseteq rows
    BY <1>4 DEF IntsOn, Used, Ends
  <2>3. \A s \in SUBSET S : s # {} => Pick(s) \in S /\ F[Pick(s)] = Pick(s).bytes - Before(rows, Pick(s)).bytes
    BY <2>2 DEF Pick, Brought
  <2> HIDE DEF F, S
  <2>4. \A g : Adds(F, S, g) <=> g = [s \in SUBSET S |-> IF s = {} THEN 0
                                       ELSE (Pick(s).bytes - Before(rows, Pick(s)).bytes) + g[s \ {Pick(s)}]]
    BY <2>3 DEF Adds
  <2>5. Adds(F, S, h)
    <3>1. PICK g : Adds(F, S, g)
      BY <2>2, AddsExists
    <3> QED BY <2>4, <3>1
  <2> HIDE DEF h
  <2>6. h[S] = SumOf(F, S)
    BY <2>2, <2>5, SumWhole
  <2> QED BY <2>1, <2>6 DEF F, S
<1>7. ASSUME NEW b \in B PROVE Took(b) = SumOf(Lasted(from), P[b])
  <2> DEFINE S == P[b]
             F == Lasted(from)
             h == CHOOSE g : g = [s \in SUBSET S |-> IF s = {} THEN 0
                                    ELSE (Pick(s).ts - Before(rows, Pick(s)).ts) + g[s \ {Pick(s)}]]
  <2>1. Took(b) = h[S]
    BY DEF MapThenSumSet, MapThenFoldSet, Pick
  <2>2. IsFiniteSet(S) /\ IntsOn(F, S) /\ (\A x \in S : F[x] \in Int) /\ S \subseteq rows
    BY <1>4 DEF IntsOn, Used, Ends
  <2>3. \A s \in SUBSET S : s # {} => Pick(s) \in S /\ F[Pick(s)] = Pick(s).ts - Before(rows, Pick(s)).ts
    BY <2>2 DEF Pick, Lasted
  <2> HIDE DEF F, S
  <2>4. \A g : Adds(F, S, g) <=> g = [s \in SUBSET S |-> IF s = {} THEN 0
                                       ELSE (Pick(s).ts - Before(rows, Pick(s)).ts) + g[s \ {Pick(s)}]]
    BY <2>3 DEF Adds
  <2>5. Adds(F, S, h)
    <3>1. PICK g : Adds(F, S, g)
      BY <2>2, AddsExists
    <3> QED BY <2>4, <3>1
  <2> HIDE DEF h
  <2>6. h[S] = SumOf(F, S)
    BY <2>2, <2>5, SumWhole
  <2> QED BY <2>1, <2>6 DEF F, S
<1>8. \A b \in B : row[b].bucket = b /\ row[b].bytes = Carried(b) /\ row[b].span = Took(b)
  OBVIOUS
<1> DEFINE V == [x \in buckets |-> x.bytes]
           W == [x \in buckets |-> x.span]
<1>9. \A b \in B : row[b] \in buckets /\ V[row[b]] = SumOf(Brought(from), P[b]) /\ W[row[b]] = SumOf(Lasted(from), P[b])
  <2>1. \A b \in B : row[b] \in buckets
    BY DEF ImageOf
  <2> HIDE DEF row, buckets, P, B, Carried, Took
  <2> QED BY <1>6, <1>7, <1>8, <2>1
<1>10. OneToOne(row, B)
  <2> HIDE DEF row
  <2> QED BY <1>8 DEF OneToOne
<1>11. /\ IsFiniteSet(buckets) /\ IntsOn(V, buckets) /\ IntsOn(W, buckets)
       /\ SumOf(V, buckets) = SumOf(Brought(from), Used(from))
       /\ SumOf(W, buckets) = SumOf(Lasted(from), Used(from))
  <2> HIDE DEF row, V, W, P, B
  <2>1. /\ IsFiniteSet(ImageOf(row, B)) /\ IntsOn(V, ImageOf(row, B))
        /\ SumOf(V, ImageOf(row, B)) = SumOf(Brought(from), WholeOf(P, B))
    BY <1>3, <1>4, <1>5, <1>9, <1>10, SumRows
  <2>2. /\ IsFiniteSet(ImageOf(row, B)) /\ IntsOn(W, ImageOf(row, B))
        /\ SumOf(W, ImageOf(row, B)) = SumOf(Lasted(from), WholeOf(P, B))
    BY <1>3, <1>4, <1>5, <1>9, <1>10, SumRows
  <2> QED BY <1>5, <2>1, <2>2
<1> HIDE DEF buckets
<1>12. \A x \in buckets : x.bytes \in Int /\ x.span \in Int
  BY <1>11 DEF IntsOn
<1>13. /\ MapThenSumSet(LAMBDA b : b.bytes, buckets) = SumOf(V, buckets)
       /\ MapThenSumSet(LAMBDA b : b.span, buckets) = SumOf(W, buckets)
  BY <1>11, <1>12, BytesSum, SpanSum
<1> QED BY <1>1, <1>11, <1>13

\* What a window says moved is what crossed the interfaces at most, whatever the width of its
\* buckets, and bytes over span is the true rate while nothing restarts or moves
\* (bucket-throughput.ts).
LEMMA VolumeHolds == ASSUME BooksInv PROVE VolumeIsReal
<1> SUFFICES ASSUME NEW from \in Windows
             PROVE
               LET Total(width) == MapThenSumSet(LAMBDA b : b.bytes, BucketThroughput(tables, from, Clock, width))
                   Span(width) == MapThenSumSet(LAMBDA b : b.span, BucketThroughput(tables, from, Clock, width))
               IN /\ Total(ProbeCycleS) <= 2 * Cardinality(InWindow(from - MaxIntervalS))
                  /\ \A width \in Widths : Total(width) = Total(ProbeCycleS)
                  /\ (\A t \in {happened[i] : i \in DOMAIN happened} : t.odd # "reboot" /\ PathOf(t) = Home)
                       => ProbeCycleS * Total(ProbeCycleS) = 2 * Span(ProbeCycleS)
  BY DEF VolumeIsReal
<1> DEFINE Total(width) == MapThenSumSet(LAMBDA b : b.bytes, BucketThroughput(tables, from, Clock, width))
           Span(width) == MapThenSumSet(LAMBDA b : b.span, BucketThroughput(tables, from, Clock, width))
           used == Used(from)
           brought == Brought(from)
           lasted == Lasted(from)
           n == Len(happened)
           start == from - MaxIntervalS
           inside == {j \in 1..n : start <= CycleTs(j)}
           before == [r \in used |-> PlaceOf(Before(RowsFrom(from), r))]
           P == [r \in used |-> before[r] + 1..PlaceOf(r)]
           G == [r \in used |-> PlaceOf(r) - before[r]]
           H == [r \in used |-> 2 * G[r]]
<1>0. WorldInv
  BY DEF BooksInv
<1>1. \A width : Total(width) = SumOf(brought, used) /\ Span(width) = SumOf(lasted, used)
  BY ThroughputSums
<1>2. IsFiniteSet(used) /\ IntsOn(brought, used) /\ IntsOn(lasted, used)
  BY UsedFinite
<1>3. ASSUME NEW r \in used
      PROVE  /\ before[r] \in 1..n /\ PlaceOf(r) \in 1..n /\ before[r] < PlaceOf(r)
             /\ \A q \in used : PlaceOf(q) < PlaceOf(r) => PlaceOf(q) <= before[r]
             /\ start <= CycleTs(before[r])
             /\ brought[r] \in Nat /\ brought[r] <= 2 * (PlaceOf(r) - before[r])
             /\ Steady => brought[r] = 2 * (PlaceOf(r) - before[r])
             /\ lasted[r] = ProbeCycleS * (PlaceOf(r) - before[r])
  <2>1. before[r] = PlaceOf(Before(RowsFrom(from), r)) /\ used \subseteq RowsFrom(from)
    BY DEF Used, Ends
  <2> HIDE DEF before
  <2> QED BY <2>1, IntervalsAre
<1>4. \A q, r \in used : q # r => PlaceOf(q) # PlaceOf(r)
  <2> SUFFICES ASSUME NEW q \in used, NEW r \in used, PlaceOf(q) = PlaceOf(r) PROVE q = r
    OBVIOUS
  <2>1. q \in tables.cycle /\ r \in tables.cycle
    BY DEF Used, Ends, RowsFrom, Within
  <2>2. PICK i \in Kept, j \in Kept : q.ts = CycleTs(i) /\ r.ts = CycleTs(j)
    BY <1>0, <2>1, RowsOfCycles DEF RowOf
  <2>3. i \in Nat /\ j \in Nat
    BY <1>0, RecordedCycles DEF Kept
  <2>4. PlaceOf(q) = i /\ PlaceOf(r) = j
    BY <2>2, <2>3, Stamp DEF PlaceOf
  <2> QED BY <1>0, <2>1, <2>2, <2>4, RowsOfCycles
<1>5. n \in Nat /\ DOMAIN happened = 1..n
  BY <1>0, SeqFacts DEF WorldInv, Ordered
<1> HIDE DEF used, before, Total, Span
<1>6. ASSUME NEW r \in used PROVE IsFiniteSet(P[r]) /\ G[r] = Cardinality(P[r]) /\ G[r] \in Nat /\ G[r] = PlaceOf(r) - before[r]
  <2> DEFINE a == before[r] b == PlaceOf(r)
  <2>1. a \in Int /\ b \in Int /\ a < b
    BY <1>3
  <2> HIDE DEF a, b
  <2>2. IsFiniteSet(a + 1..b) /\ Cardinality(a + 1..b) = b - a /\ b - a \in Nat
    <3>1. a + 1 \in Int /\ ~(a + 1 > b) /\ b - (a + 1) + 1 = b - a /\ b - a \in Nat
      BY <2>1
    <3>2. IsFiniteSet(a + 1..b) /\ Cardinality(a + 1..b) = b - (a + 1) + 1
      BY <2>1, <3>1, FS_Interval
    <3> QED BY <3>1, <3>2
  <2> QED BY <2>2 DEF a, b
<1>7. PartedBy(P, used)
  <2> SUFFICES ASSUME NEW q \in used, NEW r \in used, q # r PROVE P[q] \cap P[r] = {}
    BY DEF PartedBy
  <2> DEFINE a == before[q] b == PlaceOf(q) c == before[r] d == PlaceOf(r)
  <2>1. a \in 1..n /\ b \in 1..n /\ c \in 1..n /\ d \in 1..n /\ b # d /\ (b < d => b <= c) /\ (d < b => d <= a)
    BY <1>3, <1>4
  <2>2. P[q] = a + 1..b /\ P[r] = c + 1..d
    OBVIOUS
  <2> HIDE DEF a, b, c, d, P
  <2>3. (a + 1..b) \cap (c + 1..d) = {}
    BY <2>1
  <2> QED BY <2>2, <2>3
<1>8. WholeOf(P, used) \subseteq inside
  <2> SUFFICES ASSUME NEW r \in used, NEW j \in P[r] PROVE j \in inside
    BY DEF WholeOf
  <2> DEFINE a == before[r] b == PlaceOf(r)
  <2>1. a \in 1..n /\ b \in 1..n /\ start <= CycleTs(a) /\ j \in a + 1..b
    BY <1>3
  <2> HIDE DEF a, b
  <2>2. j \in 1..n /\ a \in Nat /\ j \in Nat /\ a < j
    BY <1>5, <2>1
  <2>3. CycleTs(a) < CycleTs(j) /\ CycleTs(a) \in Nat /\ CycleTs(j) \in Nat
    BY <2>2, Stamp
  <2>4. start \in Int
    <3>1. from \in Nat
      BY <1>0, WindowsAre
    <3> QED BY <3>1 DEF MaxIntervalS
  <2> HIDE DEF start
  <2> QED BY <2>1, <2>2, <2>3, <2>4
<1>9. IsFiniteSet(inside) /\ Cardinality(inside) = Cardinality(InWindow(start))
  <2>1. inside \subseteq 1..n /\ IsFiniteSet(1..n)
    BY <1>5, FS_Interval
  <2>2. OneToOne(happened, inside) /\ ImageOf(happened, inside) = InWindow(start)
    <3>1. \A i \in 1..n : happened[i].ts = CycleTs(i) /\ i \in Nat
      BY <1>0, <1>5 DEF WorldInv, Ordered
    <3>2. OneToOne(happened, inside)
      <4> SUFFICES ASSUME NEW i \in inside, NEW j \in inside, happened[i] = happened[j] PROVE i = j
        BY DEF OneToOne
      <4>1. i \in Nat /\ j \in Nat /\ CycleTs(i) = CycleTs(j)
        BY <3>1
      <4> QED BY <4>1, Stamp
    <3>3. ImageOf(happened, inside) = InWindow(start)
      BY <1>5, <3>1 DEF ImageOf, InWindow
    <3> QED BY <3>2, <3>3
  <2> HIDE DEF inside
  <2>3. IsFiniteSet(inside)
    BY <2>1, FS_Subset
  <2> QED BY <2>2, <2>3, SameMany
<1>10. SumOf(G, used) \in Nat /\ SumOf(G, used) <= Cardinality(InWindow(start)) /\ Cardinality(InWindow(start)) \in Nat
  <2> HIDE DEF G, P, inside
  <2>1. IsFiniteSet(WholeOf(P, used)) /\ SumOf(G, used) = Cardinality(WholeOf(P, used))
    BY <1>2, <1>6, <1>7, SizeOfParts
  <2>2. Cardinality(WholeOf(P, used)) <= Cardinality(inside)
    BY <1>8, <1>9, FS_Subset
  <2> QED BY <1>9, <2>1, <2>2, FS_CardinalityType
<1>11. IntsOn(G, used) /\ IntsOn(H, used) /\ \A r \in used : H[r] = 2 * G[r]
  BY <1>6 DEF IntsOn
<1>12. SumOf(H, used) = 2 * SumOf(G, used)
  <2> HIDE DEF G, H
  <2> QED BY <1>2, <1>11, SumTimes
<1>13. SumOf(brought, used) <= SumOf(H, used)
  <2>1. \A r \in used : brought[r] <= H[r]
    BY <1>3
  <2> HIDE DEF H, brought
  <2> QED BY <1>2, <1>11, <2>1, SumLess
<1>14. SumOf(brought, used) \in Int /\ SumOf(lasted, used) \in Int
  <2> HIDE DEF brought, lasted
  <2> QED BY <1>2, SumInt
<1>15. Steady => ProbeCycleS * SumOf(brought, used) = 2 * SumOf(lasted, used)
  <2> SUFFICES ASSUME Steady PROVE ProbeCycleS * SumOf(brought, used) = 2 * SumOf(lasted, used)
    OBVIOUS
  <2>1. (\A r \in used : brought[r] = 2 * G[r] /\ lasted[r] = ProbeCycleS * G[r]) /\ ProbeCycleS \in Int
    BY <1>3, <1>6, ReadsAssumption
  <2> HIDE DEF G, brought, lasted
  <2>2. SumOf(brought, used) = 2 * SumOf(G, used)
    BY <1>2, <1>11, <2>1, SumTimes
  <2>3. SumOf(lasted, used) = ProbeCycleS * SumOf(G, used)
    BY <1>2, <1>11, <2>1, SumTimes
  <2> DEFINE s == SumOf(G, used) p == ProbeCycleS
  <2>4. s \in Int /\ p \in Int
    BY <1>10, <2>1
  <2> HIDE DEF s, p
  <2>5. p * (2 * s) = 2 * (p * s)
    BY <2>4
  <2> QED BY <2>2, <2>3, <2>5 DEF s, p
<1>16. (\A t \in {happened[i] : i \in DOMAIN happened} : t.odd # "reboot" /\ PathOf(t) = Home) => Steady
  BY <1>5 DEF Steady
<1>17. Total(ProbeCycleS) <= 2 * Cardinality(InWindow(start))
  <2> DEFINE a == SumOf(brought, used) b == SumOf(G, used) c == SumOf(H, used) d == Cardinality(InWindow(start))
  <2>1. a <= c /\ c = 2 * b /\ b <= d /\ a \in Int /\ b \in Nat /\ d \in Nat
    BY <1>10, <1>12, <1>13, <1>14
  <2> HIDE DEF a, b, c, d
  <2>2. a <= 2 * d
    BY <2>1
  <2> QED BY <1>1, <2>2 DEF a, d
<1>18. \A width \in Widths : Total(width) = Total(ProbeCycleS)
  BY <1>1
<1>19. Steady => ProbeCycleS * Total(ProbeCycleS) = 2 * Span(ProbeCycleS)
  BY <1>1, <1>15
<1> HIDE DEF G, H, P, inside, brought, lasted
<1> QED BY <1>16, <1>17, <1>18, <1>19 DEF Total, Span

\* The volume and the rate a window states are what crossed the interfaces, for every window
\* and width (bucket-throughput.ts).
THEOREM VolumeReal == WorldSpec => []VolumeIsReal
<1>1. BooksInv => VolumeIsReal
  BY VolumeHolds
<1> QED BY <1>1, BooksHold, PTL

-----------------------------------------------------------------------------
(* Percentiles. *)

\* A middle of two values of a set between its ends lies between them too.
LEMMA MiddleLies ==
  ASSUME NEW low \in Nat, NEW high \in Nat, NEW a \in Nat, NEW b \in Nat,
         a <= low, low <= b, a <= high, high <= b
  PROVE  LET m == low + ((high - low) * 50) \div 100 IN m \in Nat /\ a <= m /\ m <= b
<1> DEFINE d == ((high - low) * 50) \div 100
<1>1. d \in Int /\ 100 * d <= (high - low) * 50 /\ (high - low) * 50 < 100 * d + 100
  OBVIOUS
<1> HIDE DEF d
<1>2. a <= low + d /\ low + d <= b /\ low + d \in Nat
  <2>1. 2 * d <= high - low /\ high - low < 2 * d + 2
    BY <1>1
  <2>2. low <= high => 0 <= d /\ d <= high - low
    BY <1>1, <2>1
  <2>3. high < low => high - low <= d /\ d <= 0
    BY <1>1, <2>1
  <2> QED BY <1>1, <2>2, <2>3
<1> QED BY <1>2 DEF d

\* Four round trips of which the last was slow.
LEMMA StalledTrips ==
  ASSUME NEW c \in Nat \ {0}
  PROVE  LET trips == [k \in 1..4 |-> IF k = 4 THEN 10 * c ELSE c]
             med == Percentile(trips, 50)
         IN /\ trips # <<>> /\ med \in Nat /\ Min(ToSet(trips)) = c /\ Max(ToSet(trips)) = 10 * c
            /\ c <= med /\ med <= 10 * c
<1> DEFINE trips == [k \in 1..4 |-> IF k = 4 THEN 10 * c ELSE c]
           d == 10 * c
<1>1. d \in Nat /\ c < d
  OBVIOUS
<1>2. Len(trips) = 4 /\ DOMAIN trips = 1..4 /\ (\A k \in 1..3 : trips[k] = c) /\ trips[4] = d
  OBVIOUS
<1>3. trips # <<>>
  <2>1. Len(<<>>) = 0
    BY EmptyFacts
  <2> QED BY <1>2, <2>1
<1> HIDE DEF trips, d
<1>4. ToSet(trips) = {c, d}
  <2>1. \A k \in 1..4 : k \in 1..3 \/ k = 4
    OBVIOUS
  <2>2. ToSet(trips) \subseteq {c, d}
    BY <1>2, <2>1 DEF ToSet
  <2>3. trips[1] \in ToSet(trips) /\ trips[4] \in ToSet(trips)
    BY <1>2 DEF ToSet
  <2> QED BY <1>2, <2>2, <2>3
<1>5. Min(ToSet(trips)) = c /\ Max(ToSet(trips)) = d
  BY <1>1, <1>4 DEF Min, Max
<1>6. ASSUME NEW k \in 1..3 PROVE Ascending(trips, k) \in {c, d}
  <2> DEFINE below == {i \in DOMAIN trips : trips[i] < c}
             upTo == {i \in DOMAIN trips : trips[i] <= c}
  <2>1. below = {} /\ 1..3 \subseteq upTo /\ upTo \subseteq 1..4
    <3>1. \A i \in 1..4 : trips[i] \in {c, d}
      BY <1>2, <1>4 DEF ToSet
    <3> QED BY <1>1, <1>2, <3>1
  <2>2. Cardinality({}) = 0 /\ Cardinality(1..3) = 3 /\ IsFiniteSet(1..4)
    <3>1. 1 \in Int /\ 3 \in Int /\ 4 \in Int /\ ~(1 > 3) /\ 3 - 1 + 1 = 3
      OBVIOUS
    <3>2. Cardinality(1..3) = 3 /\ IsFiniteSet(1..4)
      BY <3>1, FS_Interval
    <3> QED BY <3>2, FS_EmptySet
  <2> HIDE DEF below, upTo
  <2>3. IsFiniteSet(upTo)
    BY <2>1, <2>2, FS_Subset
  <2>4. Cardinality(1..3) <= Cardinality(upTo) /\ Cardinality(upTo) \in Nat
    BY <2>1, <2>3, FS_Subset, FS_CardinalityType
  <2>5. Cardinality(below) < k /\ k <= Cardinality(upTo)
    BY <2>1, <2>2, <2>4
  <2>6. c \in ToSet(trips) /\ \E v \in ToSet(trips) : /\ Cardinality({i \in DOMAIN trips : trips[i] < v}) < k
                               /\ k <= Cardinality({i \in DOMAIN trips : trips[i] <= v})
    BY <1>4, <2>5 DEF below, upTo
  <2>7. Ascending(trips, k) \in ToSet(trips)
    BY <2>6 DEF Ascending
  <2> QED BY <1>4, <2>7
<1>7. Percentile(trips, 50) = Ascending(trips, 2) + ((Ascending(trips, 3) - Ascending(trips, 2)) * 50) \div 100
  <2>1. 50 * (Len(trips) - 1) = 150 /\ 150 \div 100 + 1 = 2 /\ (150 + 99) \div 100 + 1 = 3 /\ 150 % 100 = 50
    BY <1>2
  <2> QED BY <1>3, <2>1 DEF Percentile
<1>8. Ascending(trips, 2) \in {c, d} /\ Ascending(trips, 3) \in {c, d}
  BY <1>6
<1>9. Percentile(trips, 50) \in Nat /\ c <= Percentile(trips, 50) /\ Percentile(trips, 50) <= d
  <2> DEFINE low == Ascending(trips, 2) high == Ascending(trips, 3)
  <2>1. low \in Nat /\ high \in Nat /\ c <= low /\ low <= d /\ c <= high /\ high <= d
    BY <1>1, <1>8
  <2> HIDE DEF low, high
  <2>2. LET m == low + ((high - low) * 50) \div 100 IN m \in Nat /\ c <= m /\ m <= d
    BY <1>1, <2>1, MiddleLies
  <2> QED BY <1>7, <2>2 DEF low, high
<1> QED BY <1>3, <1>5, <1>9 DEF trips, d

\* The least, the middle and the worst of a sample are in this order, or none is known.
InOrder(s) == \/ s.med = Null /\ s.min = Null /\ s.max = Null
              \/ /\ s.med \in Nat /\ s.min \in Nat /\ s.max \in Nat
                 /\ s.min <= s.med /\ s.med <= s.max

\* The sample of a cycle is in order.
LEMMA SampleOrder ==
  ASSUME NEW t, t.meets \in DOMAIN Meets, NEW s \in SampleRows(t)
  PROVE  InOrder(s)
<1> DEFINE gw == Meets[t.meets].gw
           wan == Meets[t.meets].wan
           c == Meets[t.meets].rtt
<1>1. gw \in {0, 2, 4} /\ wan \in {0, 2, 4} /\ c \in Nat \ {0} /\ (t.meets = "stall" => gw = 4 /\ wan = 4)
  BY MeetsAre DEF Meets
<1> HIDE DEF gw, wan, c
<1>2. PICK n \in {0, 2, 4}, w \in TargetNames :
        s = Sample(t.ts, w, 4, Rtts(t, n)) /\ (t.meets = "stall" => n = 4)
  <2>1. CASE s = Sample(t.ts, GatewayTarget, 4, Rtts(t, gw))
    BY <1>1, <2>1 DEF TargetNames
  <2>2. CASE \E w \in WanTargets : s = Sample(t.ts, w, 4, Rtts(t, IF Silent(t, w) THEN 0 ELSE wan))
    <3>1. PICK w \in WanTargets : s = Sample(t.ts, w, 4, Rtts(t, IF Silent(t, w) THEN 0 ELSE wan))
      BY <2>2
    <3>2. t.meets = "stall" => ~Silent(t, w)
      BY DEF Silent
    <3>3. PICK n \in {0, 2, 4} : n = (IF Silent(t, w) THEN 0 ELSE wan) /\ (t.meets = "stall" => n = 4)
      BY <1>1, <3>2
    <3> QED BY <3>1, <3>3 DEF TargetNames
  <2> QED BY <2>1, <2>2 DEF SampleRows, gw, wan
<1> DEFINE trips == Rtts(t, n)
<1>3. /\ s.med = Percentile(trips, 50)
      /\ s.min = IF trips = <<>> THEN Null ELSE Min(ToSet(trips))
      /\ s.max = IF trips = <<>> THEN Null ELSE Max(ToSet(trips))
  BY <1>2 DEF Sample
<1>4. Len(trips) = n /\ (t.meets # "stall" => trips = [k \in 1..n |-> c])
  <2>1. n \in Nat
    BY <1>2
  <2> QED BY <2>1, RttsFacts DEF c
<1>5. t.meets = "stall" => trips = [k \in 1..4 |-> IF k = 4 THEN 10 * c ELSE c]
  BY <1>2 DEF Rtts, c
<1> HIDE DEF trips
<1>6. CASE n = 0
  <2>1. trips = <<>>
    <3>1. trips = [k \in 1..0 |-> c] /\ 1..0 = {}
      BY <1>2, <1>4, <1>6
    <3> QED BY <3>1
  <2> QED BY <1>3, <2>1 DEF InOrder, Percentile
<1>7. CASE n # 0 /\ t.meets # "stall"
  <2>1. n \in {2, 4} /\ c \in Nat /\ trips = [k \in 1..n |-> c]
    BY <1>1, <1>2, <1>4, <1>7
  <2>2. Percentile(trips, 50) = c /\ Max(ToSet(trips)) = c /\ trips # <<>>
    BY <2>1, ConstantTrips
  <2>3. ToSet(trips) = {c}
    <3>1. DOMAIN trips = 1..n /\ 1 \in 1..n /\ \A k \in 1..n : trips[k] = c
      BY <2>1
    <3>2. ToSet(trips) \subseteq {c} /\ trips[1] \in ToSet(trips)
      BY <3>1 DEF ToSet
    <3> QED BY <3>1, <3>2
  <2>4. Min(ToSet(trips)) = c
    BY <2>3 DEF Min
  <2> QED BY <1>3, <2>1, <2>2, <2>4 DEF InOrder
<1>8. CASE t.meets = "stall"
  <2>1. /\ trips # <<>> /\ Percentile(trips, 50) \in Nat /\ Min(ToSet(trips)) = c /\ Max(ToSet(trips)) = 10 * c
        /\ c <= Percentile(trips, 50) /\ Percentile(trips, 50) <= 10 * c
    BY <1>1, <1>5, <1>8, StalledTrips
  <2> QED BY <1>1, <1>3, <2>1 DEF InOrder
<1> QED BY <1>6, <1>7, <1>8

\* The rows up to a value, and those under it.
UpTo(rows, m) == {r \in rows : r.med <= m}
Under(rows, m) == {r \in rows : r.med < m}
Timed(rows) == IsFiniteSet(rows) /\ \A r \in rows : r.med \in Nat

\* Round trips have a greatest.
LEMMA TimedBound == ASSUME NEW rows, Timed(rows) PROVE \E last \in Nat : \A r \in rows : r.med <= last
<1> DEFINE F == [r \in rows |-> r.med]
<1>1. IsFiniteSet(rows) /\ \A r \in rows : F[r] = r.med /\ F[r] \in Nat
  BY DEF Timed
<1> HIDE DEF F
<1>2. SumOf(F, rows) \in Nat /\ \A r \in rows : F[r] <= SumOf(F, rows)
  BY <1>1, SumNat
<1> QED BY <1>1, <1>2

\* There is a value of each rank.
LEMMA RankIs ==
  ASSUME NEW rows, Timed(rows), NEW k \in 1..Cardinality(rows)
  PROVE  LET m == AtRank(rows, k)
         IN /\ m \in Nat /\ \E r \in rows : m = r.med
            /\ Cardinality(Under(rows, m)) < k /\ k <= Cardinality(UpTo(rows, m))
<1> DEFINE meds == {r.med : r \in rows}
           High == {m \in meds : k <= Cardinality(UpTo(rows, m))}
<1>1. IsFiniteSet(rows) /\ (\A r \in rows : r.med \in Nat) /\ meds \in SUBSET Nat
  BY DEF Timed
<1>2. Cardinality(rows) \in Nat /\ k \in Nat /\ 1 <= k /\ k <= Cardinality(rows)
  BY <1>1, FS_CardinalityType
<1>3. PICK last \in Nat : \A r \in rows : r.med <= last
  BY TimedBound
<1>4. rows # {}
  BY <1>2, FS_EmptySet
<1>5. ASSUME NEW m PROVE /\ IsFiniteSet(Under(rows, m)) /\ IsFiniteSet(UpTo(rows, m))
                         /\ Cardinality(Under(rows, m)) \in Nat /\ Cardinality(UpTo(rows, m)) \in Nat
  <2>1. Under(rows, m) \subseteq rows /\ UpTo(rows, m) \subseteq rows
    BY DEF Under, UpTo
  <2>2. IsFiniteSet(Under(rows, m)) /\ IsFiniteSet(UpTo(rows, m))
    BY <1>1, <2>1, FS_Subset
  <2> QED BY <2>2, FS_CardinalityType
<1>6. High # {}
  <2>1. meds # {} /\ \A x \in meds : x <= last
    BY <1>3, <1>4
  <2> HIDE DEF meds
  <2>2. Max(meds) \in meds /\ \A x \in meds : x <= Max(meds)
    BY <1>1, <2>1, MaxOf
  <2>3. UpTo(rows, Max(meds)) = rows
    BY <2>2 DEF UpTo, meds
  <2> QED BY <1>2, <2>2, <2>3
<1>7. PICK m \in High : \A x \in High : m <= x
  <2>1. High \in SUBSET Nat
    BY <1>1
  <2> HIDE DEF High
  <2> QED BY <1>6, <2>1, LeastOf
<1>8. m \in meds /\ m \in Nat /\ k <= Cardinality(UpTo(rows, m))
  BY <1>1, <1>7
<1>9. Cardinality(Under(rows, m)) < k
  <2>1. CASE Under(rows, m) = {}
    BY <1>2, <2>1, FS_EmptySet
  <2>2. CASE Under(rows, m) # {}
    <3> DEFINE lower == {r.med : r \in Under(rows, m)}
    <3>1. lower \in SUBSET Nat /\ lower # {} /\ \A x \in lower : x <= last /\ x < m /\ x \in meds
      BY <1>1, <1>3, <2>2 DEF Under
    <3> HIDE DEF lower
    <3>2. Max(lower) \in lower /\ \A x \in lower : x <= Max(lower)
      BY <3>1, MaxOf
    <3> DEFINE u == Max(lower)
    <3>3. u \in meds /\ u < m /\ u \in Nat
      BY <3>1, <3>2
    <3>4. UpTo(rows, u) = Under(rows, m)
      <4>1. \A r \in rows : r.med < m => r.med \in lower
        BY DEF lower, Under
      <4>2. \A r \in rows : r.med < m => r.med <= u
        BY <3>2, <4>1
      <4> HIDE DEF u
      <4> QED BY <1>1, <1>8, <3>3, <4>2 DEF UpTo, Under
    <3>5. u \notin High
      <4> HIDE DEF High, u
      <4> QED BY <1>7, <1>8, <3>3
    <3>6. ~(k <= Cardinality(UpTo(rows, u)))
      BY <3>3, <3>5
    <3> HIDE DEF u
    <3> QED BY <1>2, <1>5, <3>4, <3>6
  <2> QED BY <2>1, <2>2
<1>10. ASSUME NEW x \in Nat
       PROVE  Cardinality(UpTo(rows, x)) = Cardinality(Under(rows, x)) + Cardinality({r \in rows : r.med = x})
  <2> DEFINE same == {r \in rows : r.med = x}
  <2>1. UpTo(rows, x) = Under(rows, x) \cup same /\ Under(rows, x) \cap same = {} /\ same \subseteq rows
    BY <1>1 DEF UpTo, Under
  <2> HIDE DEF same
  <2>2. IsFiniteSet(same)
    BY <1>1, <2>1, FS_Subset
  <2>3. Cardinality(Under(rows, x) \cup same)
          = Cardinality(Under(rows, x)) + Cardinality(same) - Cardinality(Under(rows, x) \cap same)
    BY <1>5, <2>2, FS_Union
  <2>4. Cardinality(same) \in Nat /\ Cardinality(Under(rows, x) \cap same) = 0
    BY <2>1, <2>2, FS_CardinalityType, FS_EmptySet
  <2>5. Cardinality(UpTo(rows, x)) = Cardinality(Under(rows, x)) + Cardinality(same)
    <3> DEFINE a == Cardinality(Under(rows, x)) b == Cardinality(same) c == Cardinality(Under(rows, x) \cap same)
    <3>1. a \in Nat /\ b \in Nat /\ c = 0 /\ Cardinality(UpTo(rows, x)) = a + b - c
      BY <1>5, <2>1, <2>3, <2>4
    <3> HIDE DEF a, b, c
    <3>2. Cardinality(UpTo(rows, x)) = a + b
      BY <3>1
    <3> QED BY <3>2 DEF a, b
  <2> QED BY <2>5 DEF same
<1> DEFINE Fits(x) == Cardinality(Under(rows, x)) < k /\ k <= Cardinality(Under(rows, x)) + Cardinality({r \in rows : r.med = x})
<1>11. \E x \in meds : Fits(x)
  BY <1>8, <1>9, <1>10
<1> DEFINE a == AtRank(rows, k)
<1>12. a \in meds /\ Fits(a)
  <2>1. a = CHOOSE x \in meds : Fits(x)
    BY DEF AtRank, Under
  <2> HIDE DEF Fits, meds, a
  <2> QED BY <1>11, <2>1
<1> HIDE DEF a
<1>13. a \in Nat /\ (\E r \in rows : a = r.med) /\ Cardinality(Under(rows, a)) < k /\ k <= Cardinality(UpTo(rows, a))
  BY <1>1, <1>10, <1>12
<1> QED BY <1>13 DEF a

\* A higher rank has no lower value.
LEMMA RanksInOrder ==
  ASSUME NEW rows, Timed(rows), NEW j \in 1..Cardinality(rows), NEW k \in 1..Cardinality(rows), j <= k
  PROVE  AtRank(rows, j) <= AtRank(rows, k)
<1> DEFINE a == AtRank(rows, j) b == AtRank(rows, k)
<1>1. a \in Nat /\ Cardinality(Under(rows, a)) < j /\ j <= Cardinality(UpTo(rows, a))
  BY RankIs
<1>2. b \in Nat /\ Cardinality(Under(rows, b)) < k /\ k <= Cardinality(UpTo(rows, b))
  BY RankIs
<1> HIDE DEF a, b
<1>3. ASSUME b < a PROVE FALSE
  <2>1. UpTo(rows, b) \subseteq Under(rows, a) /\ Under(rows, a) \subseteq rows /\ IsFiniteSet(rows)
    BY <1>1, <1>2, <1>3 DEF UpTo, Under, Timed
  <2>2. IsFiniteSet(Under(rows, a))
    BY <2>1, FS_Subset
  <2>3. Cardinality(UpTo(rows, b)) <= Cardinality(Under(rows, a)) /\ IsFiniteSet(UpTo(rows, b))
    BY <2>1, <2>2, FS_Subset
  <2>4. Cardinality(UpTo(rows, b)) \in Nat /\ Cardinality(Under(rows, a)) \in Nat /\ Cardinality(rows) \in Nat
    BY <2>1, <2>2, <2>3, FS_CardinalityType
  <2> QED BY <1>1, <1>2, <2>3, <2>4
<1>4. a <= b
  BY <1>1, <1>2, <1>3
<1> QED BY <1>4 DEF a, b

\* The ranks of the percentiles and of the two middles, in order.
LEMMA RanksAre ==
  ASSUME NEW n \in Nat \ {0}
  PROVE  /\ RankOf(n, 5) \in 1..n /\ RankOf(n, 95) \in 1..n /\ (n + 1) \div 2 \in 1..n /\ (n + 2) \div 2 \in 1..n
         /\ RankOf(n, 5) <= (n + 1) \div 2 /\ (n + 1) \div 2 <= (n + 2) \div 2 /\ (n + 2) \div 2 <= RankOf(n, 95)
<1> DEFINE a == (2 * (5 * n) + 100) \div 200
           b == (2 * (95 * n) + 100) \div 200
           c == (n + 1) \div 2
           d == (n + 2) \div 2
<1>1. /\ a \in Int /\ 200 * a <= 10 * n + 100 /\ 10 * n + 100 < 200 * a + 200
      /\ b \in Int /\ 200 * b <= 190 * n + 100 /\ 190 * n + 100 < 200 * b + 200
      /\ c \in Int /\ 2 * c <= n + 1 /\ n + 1 < 2 * c + 2
      /\ d \in Int /\ 2 * d <= n + 2 /\ n + 2 < 2 * d + 2
  OBVIOUS
<1>2. RankOf(n, 5) = Max({1, a}) /\ RankOf(n, 95) = Max({1, b})
  BY DEF RankOf, Rounded
<1> HIDE DEF a, b, c, d
<1>3. \A x \in Int : Max({1, x}) = IF x <= 1 THEN 1 ELSE x
  BY DEF Max
<1>4. RankOf(n, 5) = (IF a <= 1 THEN 1 ELSE a) /\ RankOf(n, 95) = IF b <= 1 THEN 1 ELSE b
  BY <1>1, <1>2, <1>3
<1>5. CASE n = 1
  <2>1. a <= 1 /\ b <= 1 /\ c = 1 /\ d = 1
    BY <1>1, <1>5
  <2>2. RankOf(n, 5) = 1 /\ RankOf(n, 95) = 1
    BY <1>4, <2>1
  <2> QED BY <1>5, <2>1, <2>2 DEF c, d
<1>6. CASE n >= 2
  <2>1. c \in 1..n /\ d \in 1..n /\ c <= d /\ a <= c /\ d <= b /\ b <= n
    BY <1>1, <1>6
  <2>2. RankOf(n, 5) \in 1..n /\ RankOf(n, 95) \in 1..n /\ RankOf(n, 5) <= c /\ d <= RankOf(n, 95)
    BY <1>1, <1>4, <1>6, <2>1
  <2> QED BY <2>1, <2>2 DEF c, d
<1> QED BY <1>5, <1>6

-----------------------------------------------------------------------------
(* Buckets. *)

\* The samples of a set of buckets, as a sum over it.
LEMMA CountSum ==
  ASSUME NEW S, IsFiniteSet(S), \A x \in S : x.count \in Int
  PROVE  MapThenSumSet(LAMBDA b : b.count, S) = SumOf([x \in S |-> x.count], S)
<1> DEFINE F == [x \in S |-> x.count]
           h == CHOOSE g : g = [s \in SUBSET S |-> IF s = {} THEN 0 ELSE Pick(s).count + g[s \ {Pick(s)}]]
<1>1. MapThenSumSet(LAMBDA b : b.count, S) = h[S]
  BY DEF MapThenSumSet, MapThenFoldSet, Pick
<1>2. IntsOn(F, S) /\ \A x \in S : F[x] \in Int
  BY DEF IntsOn
<1>3. \A s \in SUBSET S : s # {} => Pick(s) \in S /\ F[Pick(s)] = Pick(s).count
  BY DEF Pick
<1> HIDE DEF F
<1>4. \A g : Adds(F, S, g) <=> g = [s \in SUBSET S |-> IF s = {} THEN 0 ELSE Pick(s).count + g[s \ {Pick(s)}]]
  BY <1>3 DEF Adds
<1>5. Adds(F, S, h)
  <2>1. PICK g : Adds(F, S, g)
    BY <1>2, AddsExists
  <2> QED BY <1>4, <2>1
<1> HIDE DEF h
<1>6. h[S] = SumOf(F, S)
  BY <1>2, <1>5, SumWhole
<1> QED BY <1>1, <1>6 DEF F

\* The samples without an answer of a set of buckets, as a sum over it.
LEMMA DownSum ==
  ASSUME NEW S, IsFiniteSet(S), \A x \in S : x.down \in Int
  PROVE  MapThenSumSet(LAMBDA b : b.down, S) = SumOf([x \in S |-> x.down], S)
<1> DEFINE F == [x \in S |-> x.down]
           h == CHOOSE g : g = [s \in SUBSET S |-> IF s = {} THEN 0 ELSE Pick(s).down + g[s \ {Pick(s)}]]
<1>1. MapThenSumSet(LAMBDA b : b.down, S) = h[S]
  BY DEF MapThenSumSet, MapThenFoldSet, Pick
<1>2. IntsOn(F, S) /\ \A x \in S : F[x] \in Int
  BY DEF IntsOn
<1>3. \A s \in SUBSET S : s # {} => Pick(s) \in S /\ F[Pick(s)] = Pick(s).down
  BY DEF Pick
<1> HIDE DEF F
<1>4. \A g : Adds(F, S, g) <=> g = [s \in SUBSET S |-> IF s = {} THEN 0 ELSE Pick(s).down + g[s \ {Pick(s)}]]
  BY <1>3 DEF Adds
<1>5. Adds(F, S, h)
  <2>1. PICK g : Adds(F, S, g)
    BY <1>2, AddsExists
  <2> QED BY <1>4, <2>1
<1> HIDE DEF h
<1>6. h[S] = SumOf(F, S)
  BY <1>2, <1>5, SumWhole
<1> QED BY <1>1, <1>6 DEF F

\* The cycles of a set of outages, as a sum over it.
LEMMA CyclesSum ==
  ASSUME NEW S, IsFiniteSet(S), \A x \in S : x.cycles \in Int
  PROVE  MapThenSumSet(LAMBDA b : b.cycles, S) = SumOf([x \in S |-> x.cycles], S)
<1> DEFINE F == [x \in S |-> x.cycles]
           h == CHOOSE g : g = [s \in SUBSET S |-> IF s = {} THEN 0 ELSE Pick(s).cycles + g[s \ {Pick(s)}]]
<1>1. MapThenSumSet(LAMBDA b : b.cycles, S) = h[S]
  BY DEF MapThenSumSet, MapThenFoldSet, Pick
<1>2. IntsOn(F, S) /\ \A x \in S : F[x] \in Int
  BY DEF IntsOn
<1>3. \A s \in SUBSET S : s # {} => Pick(s) \in S /\ F[Pick(s)] = Pick(s).cycles
  BY DEF Pick
<1> HIDE DEF F
<1>4. \A g : Adds(F, S, g) <=> g = [s \in SUBSET S |-> IF s = {} THEN 0 ELSE Pick(s).cycles + g[s \ {Pick(s)}]]
  BY <1>3 DEF Adds
<1>5. Adds(F, S, h)
  <2>1. PICK g : Adds(F, S, g)
    BY <1>2, AddsExists
  <2> QED BY <1>4, <2>1
<1> HIDE DEF h
<1>6. h[S] = SumOf(F, S)
  BY <1>2, <1>5, SumWhole
<1> QED BY <1>1, <1>6 DEF F

\* The cycles without a known path of a set of buckets, as a sum over it.
LEMMA UnknownSum ==
  ASSUME NEW S, IsFiniteSet(S), \A x \in S : x.unknown \in Int
  PROVE  MapThenSumSet(LAMBDA b : b.unknown, S) = SumOf([x \in S |-> x.unknown], S)
<1> DEFINE F == [x \in S |-> x.unknown]
           h == CHOOSE g : g = [s \in SUBSET S |-> IF s = {} THEN 0 ELSE Pick(s).unknown + g[s \ {Pick(s)}]]
<1>1. MapThenSumSet(LAMBDA b : b.unknown, S) = h[S]
  BY DEF MapThenSumSet, MapThenFoldSet, Pick
<1>2. IntsOn(F, S) /\ \A x \in S : F[x] \in Int
  BY DEF IntsOn
<1>3. \A s \in SUBSET S : s # {} => Pick(s) \in S /\ F[Pick(s)] = Pick(s).unknown
  BY DEF Pick
<1> HIDE DEF F
<1>4. \A g : Adds(F, S, g) <=> g = [s \in SUBSET S |-> IF s = {} THEN 0 ELSE Pick(s).unknown + g[s \ {Pick(s)}]]
  BY <1>3 DEF Adds
<1>5. Adds(F, S, h)
  <2>1. PICK g : Adds(F, S, g)
    BY <1>2, AddsExists
  <2> QED BY <1>4, <2>1
<1> HIDE DEF h
<1>6. h[S] = SumOf(F, S)
  BY <1>2, <1>5, SumWhole
<1> QED BY <1>1, <1>6 DEF F


\* A target has one sample of a recorded cycle, and it is a sample in order.
LEMMA OneSample ==
  ASSUME WorldInv
  PROVE  /\ \A r, s \in tables.sample : r.ts = s.ts /\ r.target = s.target => r = s
         /\ \A i \in Kept : \A target \in TargetNames : \E s \in tables.sample : s.ts = CycleTs(i) /\ s.target = target
         /\ \A s \in tables.sample : /\ InOrder(s)
                                     /\ \E i \in Kept : /\ s \in SampleRows(happened[i]) /\ s.ts = CycleTs(i)
                                                        /\ s.target = GatewayTarget => s.received = Meets[happened[i].meets].gw
<1>1. \A i \in Kept : happened[i] \in Cycle /\ happened[i].ts = CycleTs(i) /\ i \in Nat /\ happened[i].meets \in DOMAIN Meets
  <2> SUFFICES ASSUME NEW i \in Kept
               PROVE  happened[i] \in Cycle /\ happened[i].ts = CycleTs(i) /\ i \in Nat /\ happened[i].meets \in DOMAIN Meets
    OBVIOUS
  <2>1. 0 \in Nat
    OBVIOUS
  <2>2. happened[i] \in Cycle /\ happened[i].ts = CycleTs(i) /\ i \in 1..Len(happened)
    BY <2>1, RecordedCycles
  <2>3. i \in Nat
    BY <2>2, LenProperties DEF WorldInv, Ordered
  <2>4. happened[i].meets \in DOMAIN Meets
    BY <2>2 DEF Cycle
  <2> QED BY <2>2, <2>3, <2>4
<1>2. ASSUME NEW t, NEW r \in SampleRows(t), NEW s \in SampleRows(t), r.target = s.target PROVE r = s
  <2>1. PICK n, w : r = Sample(t.ts, w, 4, Rtts(t, n)) /\ (w = GatewayTarget => n = Meets[t.meets].gw)
                    /\ (w # GatewayTarget => n = IF Silent(t, w) THEN 0 ELSE Meets[t.meets].wan)
    BY ReadsAssumption DEF SampleRows
  <2>2. PICK m, u : s = Sample(t.ts, u, 4, Rtts(t, m)) /\ (u = GatewayTarget => m = Meets[t.meets].gw)
                    /\ (u # GatewayTarget => m = IF Silent(t, u) THEN 0 ELSE Meets[t.meets].wan)
    BY ReadsAssumption DEF SampleRows
  <2>3. r.target = w /\ s.target = u
    BY <2>1, <2>2 DEF Sample
  <2>4. w = u /\ n = m
    BY <1>2, <2>1, <2>2, <2>3
  <2> QED BY <2>1, <2>2, <2>4
<1>3. ASSUME NEW r \in tables.sample, NEW s \in tables.sample, r.ts = s.ts, r.target = s.target PROVE r = s
  <2>1. PICK i \in Kept : s \in SampleRows(happened[i])
    BY DEF WorldInv, SamplesKept
  <2>2. s.ts = CycleTs(i)
    BY <1>1, <2>1, SampleFields
  <2>3. r \in SampleRows(happened[i])
    BY <1>3, <2>2, SamplesAt
  <2> QED BY <1>2, <1>3, <2>1, <2>3
<1>4. ASSUME NEW i \in Kept, NEW target \in TargetNames
      PROVE  \E s \in tables.sample : s.ts = CycleTs(i) /\ s.target = target
  <2> DEFINE t == happened[i]
  <2>1. \E s \in SampleRows(t) : s.target = target
    <3>1. CASE target = GatewayTarget
      <4>1. Sample(t.ts, GatewayTarget, 4, Rtts(t, Meets[t.meets].gw)).target = target
        BY <3>1 DEF Sample
      <4> QED BY <4>1 DEF SampleRows
    <3>2. CASE target \in WanTargets
      <4>1. Sample(t.ts, target, 4, Rtts(t, IF Silent(t, target) THEN 0 ELSE Meets[t.meets].wan)).target = target
        BY DEF Sample
      <4> QED BY <3>2, <4>1 DEF SampleRows
    <3> QED BY <3>1, <3>2 DEF TargetNames
  <2>2. PICK s \in SampleRows(t) : s.target = target
    BY <2>1
  <2>3. s \in tables.sample /\ s.ts = CycleTs(i)
    BY <1>1, SampleFields DEF WorldInv, SamplesKept
  <2> QED BY <2>2, <2>3
<1>5. ASSUME NEW s \in tables.sample
      PROVE  /\ InOrder(s)
             /\ \E i \in Kept : /\ s \in SampleRows(happened[i]) /\ s.ts = CycleTs(i)
                                /\ s.target = GatewayTarget => s.received = Meets[happened[i].meets].gw
  <2>1. PICK i \in Kept : s \in SampleRows(happened[i])
    BY DEF WorldInv, SamplesKept
  <2>2. s.ts = CycleTs(i) /\ InOrder(s)
    BY <1>1, <2>1, SampleFields, SampleOrder
  <2>3. s.target = GatewayTarget => s.received = Meets[happened[i].meets].gw
    BY <1>1, <2>1, SampleCounts
  <2> QED BY <2>1, <2>2, <2>3
<1> QED BY <1>3, <1>4, <1>5

\* A target has as many samples in a window as it has recorded cycles.
SamplesOf(from, target) == {r \in Within(tables.sample, from, Clock) : r.target = target}

\* They are finitely many, one per recorded cycle.
LEMMA SamplesOfTarget ==
  ASSUME WorldInv, NEW from \in Nat, NEW target \in TargetNames
  PROVE  /\ IsFiniteSet(SamplesOf(from, target))
         /\ Cardinality(SamplesOf(from, target)) = Cardinality(Stamps(Within(tables.sample, from, Clock)))
<1> DEFINE stamps == Stamps(Within(tables.sample, from, Clock))
           mine == SamplesOf(from, target)
           sample == [ts \in stamps |-> CHOOSE s \in tables.sample : s.ts = ts /\ s.target = target]
<1>1. IsFiniteSet(stamps)
  BY StampsAre
<1>2. ASSUME NEW ts \in stamps PROVE sample[ts] \in mine /\ sample[ts].ts = ts
  <2>1. PICK i \in Kept : ts = CycleTs(i) /\ from <= ts /\ ts <= Clock
    BY StampsAre
  <2>2. \E s \in tables.sample : s.ts = ts /\ s.target = target
    BY <2>1, OneSample
  <2>3. sample[ts] \in tables.sample /\ sample[ts].ts = ts /\ sample[ts].target = target
    BY <2>2
  <2> HIDE DEF sample
  <2> QED BY <2>1, <2>3 DEF SamplesOf, Within
<1>3. ASSUME NEW s \in mine PROVE s.ts \in stamps /\ sample[s.ts] = s
  <2>1. s \in tables.sample /\ s.target = target /\ s.ts \in stamps
    BY DEF SamplesOf, Within, Stamps
  <2>2. sample[s.ts] \in tables.sample /\ sample[s.ts].ts = s.ts /\ sample[s.ts].target = target
    BY <1>2, <2>1 DEF SamplesOf, Within
  <2> HIDE DEF sample, stamps
  <2> QED BY <2>1, <2>2, OneSample
<1> HIDE DEF sample, mine, stamps
<1>4. OneToOne(sample, stamps) /\ ImageOf(sample, stamps) = mine
  BY <1>2, <1>3 DEF OneToOne, ImageOf
<1>5. IsFiniteSet(mine) /\ Cardinality(mine) = Cardinality(stamps)
  BY <1>1, <1>4, SameMany
<1> QED BY <1>5 DEF mine, stamps

\* What a bucket of samples counts.
LEMMA BucketFields ==
  ASSUME NEW bucket, NEW target, NEW rows
  PROVE  LET b == ProbeBucket(bucket, target, rows)
         IN /\ b.bucket = bucket /\ b.target = target /\ b.count = Cardinality(rows)
            /\ b.down = Cardinality({r \in rows : r.received = 0})
BY DEF ProbeBucket

\* The band of a bucket encloses its centre and the spread encloses the band.
LEMMA BandsHold ==
  ASSUME WorldInv, NEW from \in Nat, NEW width, NEW b \in BucketProbes(tables, from, Clock, width), b.med2 # Null
  PROVE  2 * b.min <= 2 * b.p5 /\ 2 * b.p5 <= b.med2 /\ b.med2 <= 2 * b.p95 /\ b.p95 <= b.max
<1> DEFINE within == Within(tables.sample, from, Clock)
           In(k) == {r \in within : BucketOf(r.ts, width) = k[1] /\ r.target = k[2]}
<1>1. PICK q \in within : b = ProbeBucket(BucketOf(q.ts, width), q.target, In(<<BucketOf(q.ts, width), q.target>>))
  <2>1. BucketProbes(tables, from, Clock, width)
          = {ProbeBucket(k[1], k[2], In(k)) : k \in {<<BucketOf(r.ts, width), r.target>> : r \in within}}
    BY DEF BucketProbes
  <2>2. PICK k \in {<<BucketOf(r.ts, width), r.target>> : r \in within} : b = ProbeBucket(k[1], k[2], In(k))
    BY <2>1, Zenon
  <2>3. PICK q \in within : k = <<BucketOf(q.ts, width), q.target>>
    BY <2>2
  <2>4. k[1] = BucketOf(q.ts, width) /\ k[2] = q.target
    BY <2>3
  <2> QED BY <2>2, <2>3, <2>4, Zenon
<1> DEFINE rows == In(<<BucketOf(q.ts, width), q.target>>)
           timed == {r \in rows : r.med # Null}
           n == Cardinality(timed)
<1>2. rows \subseteq tables.sample /\ rows \subseteq SamplesOf(from, q.target) /\ q.target \in TargetNames
  <2>1. rows \subseteq tables.sample /\ rows \subseteq SamplesOf(from, q.target) /\ q \in tables.sample
    BY DEF Within, SamplesOf
  <2>2. \E t : q \in SampleRows(t)
    BY <2>1 DEF WorldInv, SamplesKept
  <2> QED BY <2>1, <2>2, SampleFields
<1>3. b = ProbeBucket(BucketOf(q.ts, width), q.target, rows)
  BY <1>1
<1> HIDE DEF rows
<1>4. IsFiniteSet(rows) /\ \A r \in rows : InOrder(r)
  <2>1. IsFiniteSet(SamplesOf(from, q.target))
    BY <1>2, SamplesOfTarget
  <2> QED BY <1>2, <2>1, FS_Subset, OneSample
<1>5. /\ b.med2 = IF n = 0 THEN Null ELSE AtRank(timed, (n + 1) \div 2) + AtRank(timed, (n + 2) \div 2)
      /\ b.p5 = IF n = 0 THEN Null ELSE AtRank(timed, RankOf(n, 5))
      /\ b.p95 = IF n = 0 THEN Null ELSE AtRank(timed, RankOf(n, 95))
      /\ b.min = Extreme(Min, {r.min : r \in rows}) /\ b.max = Extreme(Max, {r.max : r \in rows})
  <2> DEFINE p == BucketOf(q.ts, width)
  <2>1. b = ProbeBucket(p, q.target, rows)
    BY <1>3
  <2> HIDE DEF p
  <2>2. LET c == ProbeBucket(p, q.target, rows)
        IN /\ c.med2 = IF n = 0 THEN Null ELSE AtRank(timed, (n + 1) \div 2) + AtRank(timed, (n + 2) \div 2)
           /\ c.p5 = IF n = 0 THEN Null ELSE AtRank(timed, RankOf(n, 5))
           /\ c.p95 = IF n = 0 THEN Null ELSE AtRank(timed, RankOf(n, 95))
           /\ c.min = Extreme(Min, {r.min : r \in rows}) /\ c.max = Extreme(Max, {r.max : r \in rows})
    BY DEF ProbeBucket
  <2> QED BY <2>1, <2>2
<1>6. /\ timed \subseteq rows
      /\ \A r \in timed : r.med \in Nat /\ r.min \in Nat /\ r.max \in Nat /\ r.min <= r.med /\ r.med <= r.max
      /\ \A r \in rows : r \in timed \/ (r.min = Null /\ r.max = Null)
  BY <1>4, AbsentIsNoNumber DEF InOrder
<1> HIDE DEF timed
<1>7. Timed(timed) /\ n \in Nat \ {0}
  <2>1. IsFiniteSet(timed)
    BY <1>4, <1>6, FS_Subset
  <2>2. n \in Nat /\ n # 0
    BY <1>5, <2>1, FS_CardinalityType
  <2> QED BY <1>6, <2>1, <2>2 DEF Timed
<1> DEFINE low == RankOf(n, 5) high == RankOf(n, 95) left == (n + 1) \div 2 right == (n + 2) \div 2
<1>8. /\ low \in 1..n /\ high \in 1..n /\ left \in 1..n /\ right \in 1..n
      /\ low <= left /\ left <= right /\ right <= high
  BY <1>7, RanksAre
<1>9. b.p5 = AtRank(timed, low) /\ b.p95 = AtRank(timed, high) /\ b.med2 = AtRank(timed, left) + AtRank(timed, right)
  BY <1>5, <1>7
<1> HIDE DEF low, high, left, right
<1>10. ASSUME NEW k \in 1..n PROVE AtRank(timed, k) \in Nat /\ \E r \in timed : AtRank(timed, k) = r.med
  BY <1>7, RankIs
<1>11. AtRank(timed, low) <= AtRank(timed, left) /\ AtRank(timed, left) <= AtRank(timed, right)
       /\ AtRank(timed, right) <= AtRank(timed, high)
  BY <1>7, <1>8, RanksInOrder
<1> DEFINE mins == {r.min : r \in timed}
           maxs == {r.max : r \in timed}
<1>12. mins \in SUBSET Nat /\ mins # {} /\ maxs \in SUBSET Nat /\ maxs # {}
  <2>1. timed # {}
    BY <1>7, FS_EmptySet
  <2> QED BY <1>6, <2>1
<1>13. b.min = Extreme(Min, {r.min : r \in rows}) /\ b.max = Extreme(Max, {r.max : r \in rows})
  BY <1>5
<1>14. {r.min : r \in rows} \ {Null} = mins /\ {r.max : r \in rows} \ {Null} = maxs
  BY <1>6, AbsentIsNoNumber
<1>15. b.min = Min(mins) /\ b.max = Max(maxs)
  <2>1. Extreme(Min, {r.min : r \in rows}) = Min(mins)
    <3> DEFINE all == {r.min : r \in rows}
    <3>1. all \ {Null} = mins
      BY <1>14
    <3> HIDE DEF all, mins
    <3>2. Extreme(Min, all) = Min(mins)
      BY <1>12, <3>1 DEF Extreme
    <3> QED BY <3>2 DEF all
  <2>2. Extreme(Max, {r.max : r \in rows}) = Max(maxs)
    <3> DEFINE all == {r.max : r \in rows}
    <3>1. all \ {Null} = maxs
      BY <1>14
    <3> HIDE DEF all, maxs
    <3>2. Extreme(Max, all) = Max(maxs)
      BY <1>12, <3>1 DEF Extreme
    <3> QED BY <3>2 DEF all
  <2> QED BY <1>13, <2>1, <2>2
<1>16. \E last \in Nat : \A x \in maxs : x <= last
  <2> DEFINE F == [r \in timed |-> r.max]
  <2>1. IsFiniteSet(timed) /\ \A r \in timed : F[r] = r.max /\ F[r] \in Nat
    BY <1>6, <1>7 DEF Timed
  <2> HIDE DEF F
  <2>2. SumOf(F, timed) \in Nat /\ \A r \in timed : F[r] <= SumOf(F, timed)
    BY <2>1, SumNat
  <2> QED BY <2>1, <2>2
<1>17. (\A r \in timed : r.min \in mins /\ r.max \in maxs)
  OBVIOUS
<1> HIDE DEF mins, maxs
<1>18. b.min \in Nat /\ \A x \in mins : b.min <= x
  <2>1. Min(mins) \in mins /\ \A x \in mins : Min(mins) <= x
    BY <1>12, MinOf
  <2> QED BY <1>12, <1>15, <2>1
<1>19. b.max \in Nat /\ \A x \in maxs : x <= b.max
  <2>1. Max(maxs) \in maxs /\ \A x \in maxs : x <= Max(maxs)
    BY <1>12, <1>16, MaxOf
  <2> QED BY <1>12, <1>15, <2>1
<1>20. b.p5 \in Nat /\ b.min <= b.p5
  <2>1. PICK r \in timed : AtRank(timed, low) = r.med
    BY <1>8, <1>10
  <2> QED BY <1>6, <1>9, <1>17, <1>18, <2>1
<1>21. b.p95 \in Nat /\ b.p95 <= b.max
  <2>1. PICK r \in timed : AtRank(timed, high) = r.med
    BY <1>8, <1>10
  <2> QED BY <1>6, <1>9, <1>17, <1>19, <2>1
<1>22. 2 * b.p5 <= b.med2 /\ b.med2 <= 2 * b.p95
  <2> DEFINE p == AtRank(timed, low) q1 == AtRank(timed, left) q2 == AtRank(timed, right) u == AtRank(timed, high)
  <2>1. p \in Nat /\ q1 \in Nat /\ q2 \in Nat /\ u \in Nat /\ p <= q1 /\ q1 <= q2 /\ q2 <= u
    BY <1>8, <1>10, <1>11
  <2> HIDE DEF p, q1, q2, u
  <2>2. 2 * p <= q1 + q2 /\ q1 + q2 <= 2 * u
    BY <2>1
  <2> QED BY <1>9, <2>2 DEF p, q1, q2, u
<1>23. 2 * b.min <= 2 * b.p5
  BY <1>18, <1>20
<1> QED BY <1>21, <1>22, <1>23

\* The buckets of a target count its samples in the window, and those without an answer.
LEMMA ProbeSums ==
  ASSUME WorldInv, NEW from \in Nat, NEW width, NEW target \in TargetNames
  PROVE  LET mine == {b \in BucketProbes(tables, from, Clock, width) : b.target = target}
         IN /\ MapThenSumSet(LAMBDA b : b.count, mine) = Cardinality(SamplesOf(from, target))
            /\ MapThenSumSet(LAMBDA b : b.down, mine) = Cardinality({s \in SamplesOf(from, target) : s.received = 0})
<1> DEFINE within == Within(tables.sample, from, Clock)
           In(k) == {r \in within : BucketOf(r.ts, width) = k[1] /\ r.target = k[2]}
           S == SamplesOf(from, target)
           lost == {s \in S : s.received = 0}
           place == [s \in S |-> BucketOf(s.ts, width)]
           B == ImageOf(place, S)
           P == [b \in B |-> {s \in S : BucketOf(s.ts, width) = b}]
           L == [b \in B |-> {s \in lost : BucketOf(s.ts, width) = b}]
           row == [b \in B |-> ProbeBucket(b, target, P[b])]
           mine == {b \in BucketProbes(tables, from, Clock, width) : b.target = target}
<1>1. IsFiniteSet(S)
  BY SamplesOfTarget
<1>2. IsFiniteSet(B)
  BY <1>1, ImageFinite
<1>3. \A b \in B : IsFiniteSet(P[b]) /\ IsFiniteSet(L[b])
  <2> SUFFICES ASSUME NEW b \in B PROVE IsFiniteSet(P[b]) /\ IsFiniteSet(L[b])
    OBVIOUS
  <2>1. P[b] \subseteq S /\ L[b] \subseteq S
    OBVIOUS
  <2> QED BY <1>1, <2>1, FS_Subset
<1>4. /\ PartedBy(P, B) /\ WholeOf(P, B) = S
      /\ PartedBy(L, B) /\ WholeOf(L, B) = lost
  <2>1. \A s \in S : place[s] \in B /\ s \in P[place[s]] /\ (s \in lost => s \in L[place[s]])
    BY DEF ImageOf
  <2>2. \A b \in B : (\A s \in P[b] : s \in S /\ place[s] = b) /\ (\A s \in L[b] : s \in lost /\ place[s] = b)
    OBVIOUS
  <2>3. lost \subseteq S
    OBVIOUS
  <2> HIDE DEF place, B, P, L, S, lost
  <2> QED BY <2>1, <2>2, <2>3 DEF PartedBy, WholeOf
<1>5. \A b \in B : /\ row[b].bucket = b /\ row[b].target = target /\ row[b].count = Cardinality(P[b])
                   /\ row[b].down = Cardinality(L[b])
  <2> SUFFICES ASSUME NEW b \in B
               PROVE  /\ row[b].bucket = b /\ row[b].target = target /\ row[b].count = Cardinality(P[b])
                      /\ row[b].down = Cardinality(L[b])
    OBVIOUS
  <2>1. row[b] = ProbeBucket(b, target, P[b]) /\ L[b] = {r \in P[b] : r.received = 0}
    OBVIOUS
  <2> HIDE DEF row, P, L
  <2> QED BY <2>1, BucketFields
<1>6. mine = ImageOf(row, B)
  <2>1. BucketProbes(tables, from, Clock, width)
          = {ProbeBucket(k[1], k[2], In(k)) : k \in {<<BucketOf(r.ts, width), r.target>> : r \in within}}
    BY DEF BucketProbes
  <2>2. \A b \in B : In(<<b, target>>) = P[b]
    BY DEF SamplesOf
  <2>3. ASSUME NEW c \in mine PROVE \E b \in B : c = row[b]
    <3>1. PICK k \in {<<BucketOf(r.ts, width), r.target>> : r \in within} : c = ProbeBucket(k[1], k[2], In(k))
      BY <2>1, Zenon
    <3>2. PICK q \in within : k = <<BucketOf(q.ts, width), q.target>>
      BY <3>1
    <3>3. k[1] = BucketOf(q.ts, width) /\ k[2] = q.target
      BY <3>2
    <3>4. c.target = k[2] /\ c.target = target
      <4> DEFINE a == k[1] u == k[2] R == In(k)
      <4>1. c = ProbeBucket(a, u, R) /\ c.target = target
        BY <3>1
      <4> HIDE DEF a, u, R
      <4>2. ProbeBucket(a, u, R).target = u
        BY DEF ProbeBucket
      <4> QED BY <4>1, <4>2 DEF u
    <3>5. q \in S
      BY <3>3, <3>4 DEF SamplesOf
    <3>6. k[1] \in B /\ k = <<k[1], target>>
      BY <3>2, <3>3, <3>4, <3>5 DEF ImageOf
    <3>7. In(k) = P[k[1]]
      <4> HIDE DEF In, P
      <4> QED BY <2>2, <3>6
    <3>8. c = ProbeBucket(k[1], target, P[k[1]])
      BY <3>1, <3>3, <3>4, <3>7, Zenon
    <3> QED BY <3>6, <3>8
  <2>4. ASSUME NEW b \in B PROVE row[b] \in mine
    <3>1. PICK q \in S : b = BucketOf(q.ts, width)
      BY DEF ImageOf
    <3>2. q \in within /\ q.target = target
      BY DEF SamplesOf
    <3> DEFINE k == <<b, target>>
    <3>3. k \in {<<BucketOf(r.ts, width), r.target>> : r \in within}
      BY <3>1, <3>2
    <3>4. k[1] = b /\ k[2] = target /\ In(k) = P[b]
      BY <2>2
    <3>5. row[b] = ProbeBucket(b, target, P[b])
      OBVIOUS
    <3> HIDE DEF k, In, P, row
    <3>6. row[b] \in BucketProbes(tables, from, Clock, width)
      BY <2>1, <3>3, <3>4, <3>5
    <3> QED BY <1>5, <3>6
  <2> HIDE DEF mine, row, B
  <2> QED BY <2>3, <2>4 DEF ImageOf
<1> DEFINE V == [c \in mine |-> c.count]
           W == [c \in mine |-> c.down]
<1>7. \A b \in B : /\ IsFiniteSet(P[b]) /\ V[row[b]] = Cardinality(P[b])
                   /\ IsFiniteSet(L[b]) /\ W[row[b]] = Cardinality(L[b])
  <2> SUFFICES ASSUME NEW b \in B PROVE V[row[b]] = Cardinality(P[b]) /\ W[row[b]] = Cardinality(L[b])
    BY <1>3
  <2>1. row[b] \in mine
    <3> HIDE DEF mine, row, B
    <3> QED BY <1>6 DEF ImageOf
  <2>2. V[row[b]] = row[b].count /\ W[row[b]] = row[b].down
    <3> HIDE DEF mine, row, B
    <3> QED BY <2>1
  <2> HIDE DEF V, W, row, P, L, mine
  <2> QED BY <1>5, <2>2
<1>8. OneToOne(row, B)
  <2> HIDE DEF row, B
  <2> QED BY <1>5 DEF OneToOne
<1> HIDE DEF V, W, row, P, L, B, mine, lost
<1>9. IsFiniteSet(ImageOf(row, B)) /\ IntsOn(V, ImageOf(row, B)) /\ SumOf(V, ImageOf(row, B)) = Cardinality(WholeOf(P, B))
  BY <1>2, <1>4, <1>7, <1>8, CountRows
<1>10. IsFiniteSet(ImageOf(row, B)) /\ IntsOn(W, ImageOf(row, B)) /\ SumOf(W, ImageOf(row, B)) = Cardinality(WholeOf(L, B))
  BY <1>2, <1>4, <1>7, <1>8, CountRows
<1>11. IsFiniteSet(mine) /\ IntsOn(V, mine) /\ IntsOn(W, mine) /\ SumOf(V, mine) = Cardinality(S) /\ SumOf(W, mine) = Cardinality(lost)
  BY <1>4, <1>6, <1>9, <1>10
<1>12. \A c \in mine : c.count \in Int /\ c.down \in Int
  BY <1>11 DEF IntsOn, V, W
<1>13. /\ MapThenSumSet(LAMBDA b : b.count, mine) = SumOf(V, mine)
       /\ MapThenSumSet(LAMBDA b : b.down, mine) = SumOf(W, mine)
  BY <1>11, <1>12, CountSum, DownSum DEF V, W
<1> QED BY <1>11, <1>13 DEF mine, lost

\* The buckets of the vantage count the recorded cycles, and those whose path nobody knows.
LEMMA VantageSums ==
  ASSUME WorldInv, NEW from \in Nat, NEW width
  PROVE  LET places == BucketVantage(tables, from, Clock, width)
             range == RangeSummary(tables, from, Clock)
         IN /\ MapThenSumSet(LAMBDA p : p.cycles, places) = range.recorded
            /\ MapThenSumSet(LAMBDA p : p.unknown, places) = range.unknown
            /\ range.recorded = Cardinality(Stamps(Within(tables.sample, from, Clock)))
<1> DEFINE S == Stamps(Within(tables.sample, from, Clock))
           C == Within(tables.cycle, from, Clock)
           C1 == {r \in C : r.home = 1}
           C0 == {r \in C : r.home = 0}
           place == [ts \in S |-> BucketOf(ts, width)]
           B == ImageOf(place, S)
           P == [b \in B |-> {ts \in S : BucketOf(ts, width) = b}]
           Of == [b \in B |-> {r \in C : BucketOf(r.ts, width) = b}]
           P1 == [b \in B |-> {r \in C1 : BucketOf(r.ts, width) = b}]
           P0 == [b \in B |-> {r \in C0 : BucketOf(r.ts, width) = b}]
           row == [b \in B |-> VantageBucket(b, Cardinality(P[b]), Of[b])]
           places == BucketVantage(tables, from, Clock, width)
<1>1. IsFiniteSet(S)
  BY StampsAre
<1>2. IsFiniteSet(B)
  BY <1>1, ImageFinite
<1>3. IsFiniteSet(C) /\ IsFiniteSet(C1) /\ IsFiniteSet(C0)
  <2>1. IsFiniteSet(tables.cycle)
    BY CyclesFinite
  <2>2. C \subseteq tables.cycle /\ C1 \subseteq tables.cycle /\ C0 \subseteq tables.cycle
    BY DEF Within
  <2> QED BY <2>1, <2>2, FS_Subset
<1>4. \A r \in C : r.ts \in S
  <2> SUFFICES ASSUME NEW r \in C PROVE r.ts \in S
    OBVIOUS
  <2>1. r \in tables.cycle /\ from <= r.ts
    BY DEF Within
  <2>2. PICK i \in Kept : r.ts = CycleTs(i)
    BY <2>1, RowsOfCycles DEF RowOf
  <2> QED BY <2>1, <2>2, StampsAre
<1>5. ASSUME NEW b \in B
      PROVE  IsFiniteSet(P[b]) /\ IsFiniteSet(P1[b]) /\ IsFiniteSet(P0[b])
  <2>1. P[b] \subseteq S /\ P1[b] \subseteq C1 /\ P0[b] \subseteq C0
    OBVIOUS
  <2> HIDE DEF P, P1, P0, S, C1, C0
  <2> QED BY <1>1, <1>3, <2>1, FS_Subset
<1>6. /\ PartedBy(P, B) /\ WholeOf(P, B) = S
      /\ PartedBy(P1, B) /\ WholeOf(P1, B) = C1
      /\ PartedBy(P0, B) /\ WholeOf(P0, B) = C0
  <2>1. \A ts \in S : place[ts] \in B /\ ts \in P[place[ts]] /\ place[ts] = BucketOf(ts, width)
    BY DEF ImageOf
  <2>2. \A b \in B : (\A ts \in P[b] : ts \in S /\ place[ts] = b)
    OBVIOUS
  <2>3. \A r \in C : BucketOf(r.ts, width) \in B
    <3> HIDE DEF place, B, S, C
    <3> QED BY <1>4, <2>1
  <2>4. \A b \in B : P1[b] = {r \in C1 : BucketOf(r.ts, width) = b} /\ P0[b] = {r \in C0 : BucketOf(r.ts, width) = b}
    OBVIOUS
  <2>5. C1 \subseteq C /\ C0 \subseteq C
    OBVIOUS
  <2> HIDE DEF place, B, P, P1, P0, S, C, C1, C0
  <2>6. PartedBy(P, B) /\ WholeOf(P, B) = S
    BY <2>1, <2>2 DEF PartedBy, WholeOf
  <2>7. PartedBy(P1, B) /\ WholeOf(P1, B) = C1
    BY <2>3, <2>4, <2>5 DEF PartedBy, WholeOf
  <2>8. PartedBy(P0, B) /\ WholeOf(P0, B) = C0
    BY <2>3, <2>4, <2>5 DEF PartedBy, WholeOf
  <2> QED BY <2>6, <2>7, <2>8
<1>7. \A bucket, cycles, rows :
        LET p == VantageBucket(bucket, cycles, rows)
        IN /\ p.bucket = bucket /\ p.cycles = cycles
           /\ p.unknown = cycles - Cardinality({r \in rows : r.home = 1}) - Cardinality({r \in rows : r.home = 0})
  BY DEF VantageBucket
<1>8. ASSUME NEW b \in B
      PROVE  /\ row[b].bucket = b /\ row[b].cycles = Cardinality(P[b])
             /\ row[b].unknown = Cardinality(P[b]) - Cardinality(P1[b]) - Cardinality(P0[b])
  <2>1. row[b] = VantageBucket(b, Cardinality(P[b]), Of[b])
    OBVIOUS
  <2>2. P1[b] = {r \in Of[b] : r.home = 1} /\ P0[b] = {r \in Of[b] : r.home = 0}
    OBVIOUS
  <2> HIDE DEF row, P, Of, P1, P0
  <2> QED BY <1>7, <2>1, <2>2
<1>9. places = ImageOf(row, B)
  <2>1. B = {BucketOf(ts, width) : ts \in S}
    BY DEF ImageOf
  <2>2. places = {VantageBucket(b, Cardinality({ts \in S : BucketOf(ts, width) = b}),
                                {r \in C : BucketOf(r.ts, width) = b}) : b \in B}
    BY <2>1 DEF BucketVantage
  <2>3. ImageOf(row, B) = {VantageBucket(b, Cardinality({ts \in S : BucketOf(ts, width) = b}),
                                {r \in C : BucketOf(r.ts, width) = b}) : b \in B}
    BY DEF ImageOf
  <2> QED BY <2>2, <2>3
<1> HIDE DEF places
<1> DEFINE V == [c \in places |-> c.cycles]
           U == [c \in places |-> c.unknown]
           G == [b \in B |-> Cardinality(P[b])]
           G1 == [b \in B |-> Cardinality(P1[b])]
           G0 == [b \in B |-> Cardinality(P0[b])]
           H == [b \in B |-> G1[b] + G0[b]]
           K == [b \in B |-> G[b] - G1[b] - G0[b]]
<1>10. OneToOne(row, B) /\ \A b \in B : row[b] \in places
  <2> HIDE DEF row, B
  <2> QED BY <1>8, <1>9 DEF OneToOne, ImageOf
<1>11. \A b \in B : V[row[b]] = Cardinality(P[b]) /\ U[row[b]] = K[b]
  <2> HIDE DEF row, B, P, P1, P0
  <2> QED BY <1>8, <1>10
<1> HIDE DEF row, B, P, P1, P0, Of, S, C, C1, C0
<1>12. ASSUME NEW b \in B
       PROVE  /\ G[b] = Cardinality(P[b]) /\ G1[b] = Cardinality(P1[b]) /\ G0[b] = Cardinality(P0[b])
              /\ G[b] \in Nat /\ G1[b] \in Nat /\ G0[b] \in Nat
              /\ H[b] = G1[b] + G0[b] /\ K[b] \in Int /\ G[b] = K[b] + H[b]
  <2>1. Cardinality(P[b]) \in Nat /\ Cardinality(P1[b]) \in Nat /\ Cardinality(P0[b]) \in Nat
    BY <1>5, FS_CardinalityType
  <2> QED BY <2>1
<1> HIDE DEF G, G1, G0, H, K, V, U
<1>13. IntsOn(G1, B) /\ IntsOn(G0, B) /\ IntsOn(H, B) /\ IntsOn(K, B)
  BY <1>12 DEF IntsOn
<1>14. SumOf(G, B) = Cardinality(S) /\ SumOf(G1, B) = Cardinality(C1) /\ SumOf(G0, B) = Cardinality(C0)
  <2>1. SumOf(G, B) = Cardinality(WholeOf(P, B))
    BY <1>2, <1>5, <1>6, <1>12, SizeOfParts
  <2>2. SumOf(G1, B) = Cardinality(WholeOf(P1, B))
    BY <1>2, <1>5, <1>6, <1>12, SizeOfParts
  <2>3. SumOf(G0, B) = Cardinality(WholeOf(P0, B))
    BY <1>2, <1>5, <1>6, <1>12, SizeOfParts
  <2> QED BY <1>6, <2>1, <2>2, <2>3
<1>15. SumOf(H, B) = SumOf(G1, B) + SumOf(G0, B)
  BY <1>2, <1>12, <1>13, SumPlus
<1>16. SumOf(G, B) = SumOf(K, B) + SumOf(H, B)
  BY <1>2, <1>12, <1>13, SumPlus
<1>17. SumOf(K, B) = Cardinality(S) - Cardinality(C1) - Cardinality(C0)
  <2> DEFINE k == SumOf(K, B) s == Cardinality(S) c1 == Cardinality(C1) c0 == Cardinality(C0) h == SumOf(H, B)
  <2>1. k \in Int /\ s \in Nat /\ c1 \in Nat /\ c0 \in Nat /\ h = c1 + c0 /\ s = k + h
    BY <1>1, <1>2, <1>3, <1>13, <1>14, <1>15, <1>16, SumInt, FS_CardinalityType
  <2> HIDE DEF k, s, c1, c0, h
  <2>2. k = s - c1 - c0
    BY <2>1
  <2> QED BY <2>2 DEF k, s, c1, c0
<1>18. /\ IsFiniteSet(places) /\ IntsOn(V, places) /\ SumOf(V, places) = Cardinality(S)
  <2>1. /\ IsFiniteSet(ImageOf(row, B)) /\ IntsOn(V, ImageOf(row, B))
        /\ SumOf(V, ImageOf(row, B)) = Cardinality(WholeOf(P, B))
    BY <1>2, <1>5, <1>6, <1>10, <1>11, CountRows
  <2> QED BY <1>6, <1>9, <2>1
<1>19. IntsOn(U, places) /\ SumOf(U, places) = SumOf(K, B)
  <2>1. /\ IsFiniteSet(ImageOf(row, B)) /\ IntsOn(U, ImageOf(row, B))
        /\ SumOf(U, ImageOf(row, B)) = SumOf(K, B)
    BY <1>2, <1>10, <1>11, <1>13, SumImage
  <2> QED BY <1>9, <2>1
<1>20. \A c \in places : c.cycles \in Int /\ c.unknown \in Int
  BY <1>18, <1>19 DEF IntsOn, V, U
<1>21. /\ MapThenSumSet(LAMBDA p : p.cycles, places) = SumOf(V, places)
       /\ MapThenSumSet(LAMBDA p : p.unknown, places) = SumOf(U, places)
  BY <1>18, <1>20, CyclesSum, UnknownSum DEF V, U
<1>22. LET range == RangeSummary(tables, from, Clock)
       IN /\ range.recorded = Cardinality(S)
          /\ range.unknown = Cardinality(S) - Cardinality(C1) - Cardinality(C0)
  BY <1>7 DEF RangeSummary, S, C, C1, C0
<1> QED BY <1>14, <1>17, <1>18, <1>19, <1>21, <1>22 DEF places, S

\* The cycles the gateway did not answer are its samples without an answer.
LEMMA GatewayDown ==
  ASSUME WorldInv
  PROVE  Cardinality({s \in SamplesOf(0, GatewayTarget) : s.received = 0})
           = Cardinality({i \in Kept : Meets[happened[i].meets].gw = 0})
<1> DEFINE down == {i \in Kept : Meets[happened[i].meets].gw = 0}
           lost == {s \in SamplesOf(0, GatewayTarget) : s.received = 0}
           sample == [i \in down |-> CHOOSE s \in tables.sample : s.ts = CycleTs(i) /\ s.target = GatewayTarget]
<1>1. \A i \in Kept : i \in Nat /\ CycleTs(i) \in Nat /\ CycleTs(i) <= Clock - 10 /\ Clock \in Nat
  <2> SUFFICES ASSUME NEW i \in Kept PROVE i \in Nat /\ CycleTs(i) \in Nat /\ CycleTs(i) <= Clock - 10 /\ Clock \in Nat
    OBVIOUS
  <2>1. 0 \in Nat
    OBVIOUS
  <2>2. i \in 1..Len(happened) /\ CycleTs(i) \in Nat /\ CycleTs(i) <= Clock - 10 /\ Clock \in Nat
    BY <2>1, RecordedCycles
  <2>3. i \in Nat
    BY <2>2, LenProperties DEF WorldInv, Ordered
  <2> QED BY <2>2, <2>3
<1>2. IsFiniteSet(down)
  <2>1. Len(happened) \in Nat
    BY LenProperties DEF WorldInv, Ordered
  <2>2. down \subseteq 1..Len(happened) /\ IsFiniteSet(1..Len(happened))
    BY <2>1, FS_Interval DEF Kept
  <2> QED BY <2>2, FS_Subset
<1>3. GatewayTarget \in TargetNames
  BY DEF TargetNames
<1>4. ASSUME NEW i \in down PROVE sample[i] \in lost /\ sample[i].ts = CycleTs(i)
  <2>1. \E s \in tables.sample : s.ts = CycleTs(i) /\ s.target = GatewayTarget
    BY <1>3, OneSample
  <2> DEFINE s == sample[i]
  <2>2. s \in tables.sample /\ s.ts = CycleTs(i) /\ s.target = GatewayTarget
    BY <2>1
  <2> HIDE DEF s
  <2>3. PICK j \in Kept : s.ts = CycleTs(j) /\ s.received = Meets[happened[j].meets].gw
    BY <2>2, OneSample
  <2>4. i = j
    BY <1>1, <2>2, <2>3, Stamp
  <2>5. s.received = 0 /\ 0 <= s.ts /\ s.ts <= Clock
    BY <1>1, <2>2, <2>3, <2>4
  <2> QED BY <2>2, <2>5 DEF s, SamplesOf, Within
<1>5. ASSUME NEW s \in lost PROVE \E i \in down : s = sample[i]
  <2>1. s \in tables.sample /\ s.target = GatewayTarget /\ s.received = 0
    BY DEF SamplesOf, Within
  <2>2. PICK i \in Kept : s.ts = CycleTs(i) /\ s.received = Meets[happened[i].meets].gw
    BY <2>1, OneSample
  <2>3. i \in down
    BY <2>1, <2>2
  <2>4. sample[i] \in tables.sample /\ sample[i].ts = s.ts /\ sample[i].target = s.target
    BY <1>4, <2>1, <2>2, <2>3 DEF SamplesOf, Within
  <2> HIDE DEF sample, down, lost
  <2> QED BY <2>1, <2>3, <2>4, OneSample
<1> HIDE DEF sample, lost
<1>6. OneToOne(sample, down)
  <2> SUFFICES ASSUME NEW i \in down, NEW j \in down, sample[i] = sample[j] PROVE i = j
    BY DEF OneToOne
  <2>1. CycleTs(i) = CycleTs(j) /\ i \in Nat /\ j \in Nat
    BY <1>1, <1>4
  <2> QED BY <2>1, Stamp
<1>7. ImageOf(sample, down) = lost
  BY <1>4, <1>5 DEF ImageOf
<1> HIDE DEF down
<1>8. Cardinality(lost) = Cardinality(down)
  BY <1>2, <1>6, <1>7, SameMany
<1> QED BY <1>8 DEF lost, down

\* Bands enclose their centres, and what the buckets count adds up to the range's own figures
\* and to the outage rows, whatever the width (bucket-probes.ts, range-summary.ts).
LEMMA BucketsHold == ASSUME BooksInv PROVE BucketsAddUp
<1> SUFFICES ASSUME NEW width \in Widths, NEW from \in Windows
             PROVE
               LET buckets == BucketProbes(tables, from, Clock, width)
                   Of(target) == {b \in buckets : b.target = target}
                   places == BucketVantage(tables, from, Clock, width)
                   range == RangeSummary(tables, from, Clock)
               IN /\ \A b \in buckets : b.med2 # Null =>
                       2 * b.min <= 2 * b.p5 /\ 2 * b.p5 <= b.med2 /\ b.med2 <= 2 * b.p95 /\ b.p95 <= b.max
                  /\ \A target \in TargetNames : MapThenSumSet(LAMBDA b : b.count, Of(target)) = range.recorded
                  /\ MapThenSumSet(LAMBDA p : p.cycles, places) = range.recorded
                  /\ MapThenSumSet(LAMBDA p : p.unknown, places) = range.unknown
                  /\ from = 0 => MapThenSumSet(LAMBDA b : b.down, Of(GatewayTarget))
                                   = MapThenSumSet(LAMBDA o : o.cycles, {o \in tables.outage : o.scope = "gateway"})
  BY DEF BucketsAddUp
<1> DEFINE buckets == BucketProbes(tables, from, Clock, width)
           Of(target) == {b \in buckets : b.target = target}
           places == BucketVantage(tables, from, Clock, width)
           range == RangeSummary(tables, from, Clock)
           rows == {o \in tables.outage : o.scope = "gateway"}
<1>1. WorldInv /\ OutagesCounted
  BY DEF BooksInv
<1>2. from \in Nat
  BY <1>1, WindowsAre
<1>3. \A b \in buckets : b.med2 # Null =>
        2 * b.min <= 2 * b.p5 /\ 2 * b.p5 <= b.med2 /\ b.med2 <= 2 * b.p95 /\ b.p95 <= b.max
  BY <1>1, <1>2, BandsHold
<1>4. /\ MapThenSumSet(LAMBDA p : p.cycles, places) = range.recorded
      /\ MapThenSumSet(LAMBDA p : p.unknown, places) = range.unknown
      /\ range.recorded = Cardinality(Stamps(Within(tables.sample, from, Clock)))
  BY <1>1, <1>2, VantageSums
<1>5. ASSUME NEW target \in TargetNames
      PROVE  /\ MapThenSumSet(LAMBDA b : b.count, Of(target)) = range.recorded
             /\ MapThenSumSet(LAMBDA b : b.down, Of(target)) = Cardinality({s \in SamplesOf(from, target) : s.received = 0})
  <2>1. /\ MapThenSumSet(LAMBDA b : b.count, Of(target)) = Cardinality(SamplesOf(from, target))
        /\ MapThenSumSet(LAMBDA b : b.down, Of(target)) = Cardinality({s \in SamplesOf(from, target) : s.received = 0})
    BY <1>1, <1>2, ProbeSums
  <2>2. Cardinality(SamplesOf(from, target)) = range.recorded
    BY <1>1, <1>2, <1>4, SamplesOfTarget
  <2> QED BY <2>1, <2>2
<1>6. MapThenSumSet(LAMBDA o : o.cycles, rows) = Cardinality({i \in Kept : Meets[happened[i].meets].gw = 0})
  <2>1. IsFiniteSet(rows) /\ rows \subseteq OutageRow
    <3>1. IsFiniteSet(tables.outage) /\ tables.outage \subseteq OutageRow
      BY <1>1 DEF OutagesCounted, WorldInv, OutagesKept
    <3> QED BY <3>1, FS_Subset
  <2>2. DownIn(tables.outage) = SumOf(Cycles, rows)
    BY DEF DownIn
  <2>3. \A o \in rows : o.cycles \in Int /\ Cycles[o] = o.cycles
    BY <2>1 DEF Cycles, OutageRow
  <2> HIDE DEF rows
  <2> DEFINE F == [o \in rows |-> o.cycles]
  <2>4. MapThenSumSet(LAMBDA o : o.cycles, rows) = SumOf(F, rows)
    BY <2>1, <2>3, CyclesSum
  <2>5. IntsOn(F, rows) /\ \A o \in rows : F[o] = Cycles[o]
    BY <2>3 DEF IntsOn
  <2> HIDE DEF F
  <2>6. SumOf(F, rows) = SumOf(Cycles, rows)
    BY <2>1, <2>5, SumSame
  <2> QED BY <1>1, <2>2, <2>4, <2>6 DEF OutagesCounted
<1>7. from = 0 => MapThenSumSet(LAMBDA b : b.down, Of(GatewayTarget)) = MapThenSumSet(LAMBDA o : o.cycles, rows)
  <2>1. GatewayTarget \in TargetNames
    BY DEF TargetNames
  <2>2. MapThenSumSet(LAMBDA b : b.down, Of(GatewayTarget))
          = Cardinality({s \in SamplesOf(from, GatewayTarget) : s.received = 0})
    BY <1>5, <2>1
  <2>3. Cardinality({s \in SamplesOf(0, GatewayTarget) : s.received = 0})
          = Cardinality({i \in Kept : Meets[happened[i].meets].gw = 0})
    BY <1>1, GatewayDown
  <2> HIDE DEF Of, rows
  <2> QED BY <1>6, <2>2, <2>3
<1> QED BY <1>3, <1>4, <1>5, <1>7

\* What the buckets count is what the range and the outage rows count, and bands enclose
\* (bucket-probes.ts, range-summary.ts, outage-detector.ts).
THEOREM BucketsSum == WorldSpec => []BucketsAddUp
<1>1. BooksInv => BucketsAddUp
  BY BucketsHold
<1> QED BY <1>1, BooksHold, PTL
=============================================================================
