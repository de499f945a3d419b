--------------------------- MODULE CarrierProofs ---------------------------
(***************************************************************************)
(* Theorems of CarrierWorld.tla for every number of minutes and of things  *)
(* out of the ordinary, and every cycle length the assumptions admit: a    *)
(* dated resync took place and is dated once, it explains no outage of the *)
(* host's own making, and the router's history counts no restart and no    *)
(* byte that there was not.                                                *)
(***************************************************************************)
EXTENDS CarrierWorld, RecordProofs

-----------------------------------------------------------------------------
(* The minutes as they passed, and the rows they left. *)

\* The carrier's minutes, without the world of RecordWorld beside them.
CarrierSpec == CarrierInit /\ [][CarrierNext]_carrierVars

MinuteRow == [ts : Nat, fate : Fates, poll : Polls, watched : BOOLEAN, upAt : Int, wanBytes : Nat]
PastFate(i) == IF i = 1 THEN "up" ELSE minutes[i - 1].fate
\* The line comes up before the i-th cycle, and the host's link changes.
ComesUp(i) == minutes[i].fate = "blip" \/ (PastFate(i) = "line" /\ minutes[i].fate # "line")
Slips(i) == (minutes[i].fate = "host") # (PastFate(i) = "host")
Ups(ms, i, j) == {l \in (i + 1)..j : ms[l].fate # "line"}

\* The rows of the i-th cycle and of the poll after it.
SeenRow(i) == [ts |-> CycleTs(i), watch |-> IF minutes[i].watched THEN ProbeCycleS ELSE Null,
               link |-> Null, pathIf |-> Home, home |-> 1, gateway |-> Home, bytes |-> Null, errs |-> Null]
LanRow(i) == [ts |-> CycleTs(i) + 20, name |-> "br0", role |-> "lan", bytes |-> 50 + 3 * i]
WanRow(i) == [ts |-> CycleTs(i) + 20, name |-> "ppp0", role |-> "wan", bytes |-> minutes[i].wanBytes]
Polled == {i \in 1..Len(minutes) : minutes[i].poll # "none"}
PolledUp == {i \in Polled : minutes[i].fate # "line"}

\* Cycles follow each other, the line came up last where it says, and what crossed the WAN
\* since any cycle came while the line was up.
MinutesRun ==
  /\ minutes \in Seq(MinuteRow)
  /\ \A i \in 1..Len(minutes) : minutes[i].ts = CycleTs(i)
UpSince ==
  /\ \A j \in 1..Len(minutes) : minutes[j].upAt = 0 - 1000 \/ \E l \in 1..j : ComesUp(l) /\ minutes[j].upAt = CycleTs(l) - 10
  /\ \A j \in 1..Len(minutes) : \A i \in 1..j :
       minutes[j].upAt = minutes[i].upAt \/ \E l \in (i + 1)..j : ComesUp(l) /\ minutes[j].upAt = CycleTs(l) - 10
WanCounted ==
  \A j \in 1..Len(minutes) : \A i \in 1..j : minutes[j].wanBytes <= minutes[i].wanBytes + 2 * Cardinality(Ups(minutes, i, j))
CarrierRows ==
  /\ carrier = [sample |-> carrier.sample, cycle |-> carrier.cycle, outage |-> carrier.outage, event |-> carrier.event,
                speed |-> carrier.speed, line |-> carrier.line, intf |-> carrier.intf]
  /\ \A r \in carrier.cycle : \E i \in 1..Len(minutes) : r = SeenRow(i)
  /\ \A i \in 1..Len(minutes) : SeenRow(i) \in carrier.cycle
  /\ IsFiniteSet(carrier.event)
  /\ \A i \in 1..Len(minutes) : Slips(i) /\ minutes[i].watched =>
       [ts |-> CycleTs(i) - 5, source |-> "link-sampler"] \in carrier.event
  /\ carrier.line = {LineRow(minutes[i]) : i \in Polled}
  /\ carrier.intf = {LanRow(i) : i \in Polled} \cup {WanRow(i) : i \in PolledUp}
CarrierInv == MinutesRun /\ UpSince /\ WanCounted /\ CarrierRows

\* The minute that passes, by its fields.
LEMMA MinuteFields ==
  ASSUME CarrierInv, NEW n, n = Len(minutes), NEW k, k = n + 1, NEW fate \in Fates, NEW poll \in Polls, NEW watched \in BOOLEAN, MinutePasses(fate, poll, watched)
  PROVE  LET m == minutes'[k]
         IN /\ n \in Nat /\ minutes' \in Seq(MinuteRow) /\ Len(minutes') = n + 1
            /\ \A i \in 1..n : minutes'[i] = minutes[i]
            /\ m.ts = CycleTs(k) /\ m.fate = fate /\ m.poll = poll /\ m.watched = watched
            /\ m.upAt = IF ComesUp(k)' THEN CycleTs(k) - 10 ELSE IF n = 0 THEN 0 - 1000 ELSE minutes[n].upAt
            /\ m.wanBytes = IF fate = "line" THEN 0 ELSE IF ComesUp(k)' \/ n = 0 THEN 2 ELSE minutes[n].wanBytes + 2
            /\ carrier'.cycle = carrier.cycle \cup {SeenRow(k)'}
            /\ carrier'.event = carrier.event \cup
                 (IF Slips(k)' /\ watched THEN {[ts |-> CycleTs(k) - 5, source |-> "link-sampler"]} ELSE {})
            /\ carrier'.line = carrier.line \cup (IF poll = "none" THEN {} ELSE {LineRow(m)})
            /\ carrier'.intf = carrier.intf \cup
                 (IF poll = "none" THEN {} ELSE {LanRow(k)} \cup (IF fate = "line" THEN {} ELSE {WanRow(k)'}))
<1> DEFINE ask == [ts |-> Minute + ProbeCycleS, fate |-> fate, poll |-> poll, watched |-> watched]
           m == [ts |-> ask.ts, fate |-> fate, poll |-> poll, watched |-> watched,
                 upAt |-> UpAt(ask), wanBytes |-> WanBytes(ask)]
<1>1. /\ minutes \in Seq(MinuteRow) /\ n \in Nat /\ (minutes = <<>> <=> n = 0)
      /\ n # 0 => minutes[n] \in MinuteRow /\ Last(minutes) = minutes[n]
  <2>1. minutes \in Seq(MinuteRow)
    BY DEF CarrierInv, MinutesRun
  <2>2. minutes = <<>> => n = 0
    BY EmptyFacts
  <2> QED BY <2>1, <2>2, SeqFacts, LenProperties, EmptySeq DEF Last
<1>2. Minute + ProbeCycleS = CycleTs(k) /\ CycleTs(k) \in Nat
  <2>1. (n + 1) * ProbeCycleS = n * ProbeCycleS + ProbeCycleS /\ n * ProbeCycleS \in Nat
    BY <1>1, ReadsAssumption
  <2> QED BY <1>1, <2>1, ReadsAssumption, InstantAssumption DEF Minute, CycleTs
<1>3. /\ ask.ts = CycleTs(k) /\ ask.fate = fate /\ ask.poll = poll /\ ask.watched = watched
  BY <1>2
<1> HIDE DEF ask
<1>4. FateBefore = IF n = 0 THEN "up" ELSE minutes[n].fate
  BY <1>1 DEF FateBefore
<1> DEFINE up == fate = "blip" \/ (FateBefore = "line" /\ fate # "line")
<1>5. UpAt(ask) = IF up THEN CycleTs(k) - 10 ELSE IF n = 0 THEN 0 - 1000 ELSE minutes[n].upAt
  BY <1>1, <1>3 DEF UpAt
<1>6. UpAt(ask) \in Int
  BY <1>1, <1>2, <1>5 DEF MinuteRow
<1>7. n # 0 => minutes[n].upAt <= CycleTs(n) - 10 /\ CycleTs(n) \in Nat /\ CycleTs(n) < CycleTs(k)
  <2> SUFFICES ASSUME n # 0 PROVE minutes[n].upAt <= CycleTs(n) - 10 /\ CycleTs(n) \in Nat /\ CycleTs(n) < CycleTs(k)
    OBVIOUS
  <2>1. n \in 1..n /\ n \in Nat /\ CycleTs(n) \in Nat /\ CycleTs(n) < CycleTs(k)
    BY <1>1, Stamp
  <2>2. minutes[n].upAt = 0 - 1000 \/ \E l \in 1..n : ComesUp(l) /\ minutes[n].upAt = CycleTs(l) - 10
    BY <2>1 DEF CarrierInv, UpSince
  <2>3. \A l \in 1..n : CycleTs(l) \in Nat /\ CycleTs(l) <= CycleTs(n)
    <3> TAKE l \in 1..n
    <3>1. l \in Nat /\ (l = n \/ l < n)
      BY <1>1
    <3>2. CASE l = n
      BY <2>1, <3>2
    <3>3. CASE l < n
      <4>1. CycleTs(l) \in Nat /\ CycleTs(l) < CycleTs(n)
        BY <2>1, <3>1, <3>3, Stamp
      <4> QED BY <2>1, <4>1
    <3> QED BY <3>1, <3>2, <3>3
  <2> QED BY <2>1, <2>2, <2>3
<1>8. (UpAt(ask) = CycleTs(k) - 10 \/ n = 0) <=> (up \/ n = 0)
  <2>1. CASE up \/ n = 0
    BY <1>5, <2>1
  <2>2. CASE ~up /\ n # 0
    <3>1. UpAt(ask) = minutes[n].upAt /\ minutes[n].upAt \in Int
      BY <1>1, <1>5, <2>2 DEF MinuteRow
    <3> QED BY <1>2, <1>7, <2>2, <3>1
  <2> QED BY <2>1, <2>2
<1>9. WanBytes(ask) = IF fate = "line" THEN 0 ELSE IF up \/ n = 0 THEN 2 ELSE minutes[n].wanBytes + 2
  BY <1>1, <1>3, <1>8 DEF WanBytes
<1>10. WanBytes(ask) \in Nat
  BY <1>1, <1>9 DEF MinuteRow
<1>11. /\ m.ts = CycleTs(k) /\ m.fate = fate /\ m.poll = poll /\ m.watched = watched
       /\ m.upAt = UpAt(ask) /\ m.wanBytes = WanBytes(ask)
       /\ m \in MinuteRow
  BY <1>2, <1>3, <1>6, <1>10 DEF MinuteRow
<1> HIDE DEF m
<1>12. minutes' = Append(minutes, m)
  BY DEF MinutePasses, m, ask
<1>13. /\ minutes' \in Seq(MinuteRow) /\ Len(minutes') = n + 1 /\ minutes'[k] = m
       /\ \A i \in 1..n : minutes'[i] = minutes[i]
  BY <1>1, <1>11, <1>12, AppendFacts
<1>14. PastFate(k)' = FateBefore
  BY <1>1, <1>4, <1>13 DEF PastFate
<1>15. (ComesUp(k)' <=> up) /\ (Slips(k)' <=> HostMoved(ask))
  BY <1>3, <1>11, <1>13, <1>14 DEF ComesUp, Slips, HostMoved
<1>16. SeenRow(k)' = [ts |-> m.ts, watch |-> IF watched THEN ProbeCycleS ELSE Null,
                      link |-> Null, pathIf |-> Home, home |-> 1, gateway |-> Home, bytes |-> Null, errs |-> Null]
  BY <1>11, <1>13 DEF SeenRow
<1>17. IntfRows(m) = {LanRow(k)} \cup (IF fate = "line" THEN {} ELSE {WanRow(k)'})
  BY <1>11, <1>13 DEF IntfRows, LanRow, WanRow
<1>18. LineRow(m) = LineRow(minutes'[k])
  BY <1>13
<1>19. /\ carrier'.cycle = carrier.cycle \cup {SeenRow(k)'}
       /\ carrier'.event = IF HostMoved(ask) /\ watched THEN carrier.event \cup {[ts |-> m.ts - 5, source |-> "link-sampler"]} ELSE carrier.event
       /\ carrier'.line = IF poll = "none" THEN carrier.line ELSE carrier.line \cup {LineRow(m)}
       /\ carrier'.intf = IF poll = "none" THEN carrier.intf ELSE carrier.intf \cup IntfRows(m)
  BY <1>16 DEF MinutePasses, m, ask, CarrierInv, CarrierRows
<1> QED BY <1>1, <1>5, <1>8, <1>9, <1>11, <1>13, <1>15, <1>17, <1>19

\* What is said of a cycle stays so of it.
LEMMA PastStays ==
  ASSUME NEW n \in Nat, n = Len(minutes), \A i \in 1..n : minutes'[i] = minutes[i]
  PROVE  /\ \A i \in 1..n : (ComesUp(i)' <=> ComesUp(i)) /\ (Slips(i)' <=> Slips(i))
         /\ \A i \in 1..n : SeenRow(i)' = SeenRow(i) /\ WanRow(i)' = WanRow(i)
         /\ \A j \in 1..n, i \in Nat : Ups(minutes', i, j) = Ups(minutes, i, j)
<1>1. ASSUME NEW i \in 1..n PROVE minutes'[i] = minutes[i] /\ PastFate(i)' = PastFate(i)
  <2>1. i # 1 => i - 1 \in 1..n
    OBVIOUS
  <2>2. i # 1 => minutes'[i - 1] = minutes[i - 1]
    BY <2>1
  <2> QED BY <2>2 DEF PastFate
<1>2. \A i \in 1..n : (ComesUp(i)' <=> ComesUp(i)) /\ (Slips(i)' <=> Slips(i))
  BY <1>1 DEF ComesUp, Slips
<1>3. \A i \in 1..n : SeenRow(i)' = SeenRow(i) /\ WanRow(i)' = WanRow(i)
  BY <1>1 DEF SeenRow, WanRow
<1>4. ASSUME NEW j \in 1..n, NEW i \in Nat PROVE Ups(minutes', i, j) = Ups(minutes, i, j)
  <2>1. \A l \in (i + 1)..j : l \in 1..n
    OBVIOUS
  <2> QED BY <1>1, <2>1 DEF Ups
<1> QED BY <1>2, <1>3, <1>4

\* Of the cycles since one, those with the line up are finitely many, and one more at most with
\* each cycle.
LEMMA UpsFacts ==
  ASSUME NEW ms, NEW i \in Nat, NEW j \in Nat
  PROVE  /\ IsFiniteSet(Ups(ms, i, j)) /\ Cardinality(Ups(ms, i, j)) \in Nat
         /\ j <= i => Ups(ms, i, j) = {} /\ Cardinality(Ups(ms, i, j)) = 0
         /\ i <= j /\ ms[j + 1].fate # "line" => Cardinality(Ups(ms, i, j + 1)) = Cardinality(Ups(ms, i, j)) + 1
<1>1. IsFiniteSet((i + 1)..j)
  BY FS_Interval
<1>2. IsFiniteSet(Ups(ms, i, j))
  BY <1>1, FS_Subset DEF Ups
<1>3. j <= i => Ups(ms, i, j) = {}
  BY DEF Ups
<1>4. i <= j /\ ms[j + 1].fate # "line" => Ups(ms, i, j + 1) = Ups(ms, i, j) \cup {j + 1} /\ j + 1 \notin Ups(ms, i, j)
  BY DEF Ups
<1> QED BY <1>2, <1>3, <1>4, FS_CardinalityType, FS_EmptySet, FS_AddElement

\* A minute keeps what is known of the minutes and of their rows.
LEMMA MinuteKeeps ==
  ASSUME CarrierInv, NEW fate \in Fates, NEW poll \in Polls, NEW watched \in BOOLEAN, MinutePasses(fate, poll, watched)
  PROVE  CarrierInv'
<1> DEFINE N == Len(minutes)
<1>0. N \in Nat
  BY MinuteFields
<1> PICK n \in Nat : n = N
  BY <1>0
<1> PICK k \in Nat : k = n + 1
  OBVIOUS
<1>1. /\ minutes \in Seq(MinuteRow) /\ minutes' \in Seq(MinuteRow) /\ n = Len(minutes) /\ Len(minutes') = k
      /\ \A i \in 1..n : minutes'[i] = minutes[i]
  BY MinuteFields DEF CarrierInv, MinutesRun
<1> DEFINE m == minutes'[k]
<1>2. /\ m.ts = CycleTs(k) /\ m.fate = fate /\ m.poll = poll /\ m.watched = watched
      /\ m.upAt = IF ComesUp(k)' THEN CycleTs(k) - 10 ELSE IF n = 0 THEN 0 - 1000 ELSE minutes[n].upAt
      /\ m.wanBytes = IF fate = "line" THEN 0 ELSE IF ComesUp(k)' \/ n = 0 THEN 2 ELSE minutes[n].wanBytes + 2
      /\ carrier'.cycle = carrier.cycle \cup {SeenRow(k)'}
      /\ carrier'.event = carrier.event \cup
           (IF Slips(k)' /\ watched THEN {[ts |-> CycleTs(k) - 5, source |-> "link-sampler"]} ELSE {})
      /\ carrier'.line = carrier.line \cup (IF poll = "none" THEN {} ELSE {LineRow(m)})
      /\ carrier'.intf = carrier.intf \cup
           (IF poll = "none" THEN {} ELSE {LanRow(k)} \cup (IF fate = "line" THEN {} ELSE {WanRow(k)'}))
  BY <1>1, MinuteFields
<1> HIDE DEF N, m
<1>3. /\ \A i \in 1..n : (ComesUp(i)' <=> ComesUp(i)) /\ (Slips(i)' <=> Slips(i))
      /\ \A i \in 1..n : SeenRow(i)' = SeenRow(i) /\ WanRow(i)' = WanRow(i)
      /\ \A j \in 1..n, i \in Nat : Ups(minutes', i, j) = Ups(minutes, i, j)
  BY <1>1, PastStays
<1>4. 1..k = 1..n \cup {k} /\ 1..Len(minutes') = 1..k /\ 1..Len(minutes) = 1..n /\ k \in 1..k /\ k \notin 1..n
      /\ (n # 0 => n \in 1..n)
  <2>1. 1..k = 1..n \cup {k} /\ k \in 1..k /\ k \notin 1..n /\ (n # 0 => n \in 1..n)
    OBVIOUS
  <2> QED BY <1>1, <2>1
<1>5. MinutesRun'
  <2>1. \A i \in 1..n : minutes[i].ts = CycleTs(i)
    BY <1>4 DEF CarrierInv, MinutesRun
  <2>2. \A i \in 1..k : minutes'[i].ts = CycleTs(i)
    BY <1>1, <1>2, <1>4, <2>1 DEF m
  <2> QED BY <1>1, <1>4, <2>2 DEF MinutesRun, CycleTs
<1>6. UpSince'
  <2>1. /\ \A j \in 1..n : minutes[j].upAt = 0 - 1000 \/ \E l \in 1..j : ComesUp(l) /\ minutes[j].upAt = CycleTs(l) - 10
        /\ \A j \in 1..n : \A i \in 1..j :
             minutes[j].upAt = minutes[i].upAt \/ \E l \in (i + 1)..j : ComesUp(l) /\ minutes[j].upAt = CycleTs(l) - 10
    BY <1>4 DEF CarrierInv, UpSince
  <2> DEFINE Since(i, j) == minutes'[j].upAt = minutes'[i].upAt \/ \E l \in (i + 1)..j : ComesUp(l)' /\ minutes'[j].upAt = CycleTs(l) - 10
             Last1(j) == minutes'[j].upAt = 0 - 1000 \/ \E l \in 1..j : ComesUp(l)' /\ minutes'[j].upAt = CycleTs(l) - 10
  <2>2. ASSUME NEW j \in 1..n PROVE Last1(j) /\ \A i \in 1..j : Since(i, j)
    <3>1. minutes'[j] = minutes[j] /\ \A l \in 1..j : l \in 1..n
      BY <1>1
    <3>2. Last1(j)
      BY <1>3, <2>1, <3>1
    <3>3. ASSUME NEW i \in 1..j PROVE Since(i, j)
      <4>1. minutes'[i] = minutes[i] /\ \A l \in (i + 1)..j : l \in 1..n
        BY <1>1, <3>1
      <4> QED BY <1>3, <2>1, <3>1, <4>1
    <3> QED BY <3>2, <3>3
  <2>3. Last1(k) /\ \A i \in 1..k : Since(i, k)
    <3>1. CASE ComesUp(k)'
      <4>1. minutes'[k].upAt = CycleTs(k) - 10
        BY <1>2, <3>1 DEF m
      <4>2. \A i \in 1..n : k \in (i + 1)..k
        OBVIOUS
      <4> QED BY <1>4, <3>1, <4>1, <4>2
    <3>2. CASE ~ComesUp(k)' /\ n = 0
      <4>1. minutes'[k].upAt = 0 - 1000 /\ k = 1
        BY <1>2, <3>2 DEF m
      <4> QED BY <1>4, <3>2, <4>1
    <3>3. CASE ~ComesUp(k)' /\ n # 0
      <4>1. minutes'[k].upAt = minutes'[n].upAt /\ n \in 1..n
        BY <1>1, <1>2, <1>4, <3>3 DEF m
      <4>2. Last1(n) /\ \A i \in 1..n : Since(i, n)
        BY <2>2, <4>1
      <4>3. Last1(k)
        BY <1>4, <4>1, <4>2
      <4>4. ASSUME NEW i \in 1..n PROVE Since(i, k)
        <5>1. \A l \in (i + 1)..n : l \in (i + 1)..k
          OBVIOUS
        <5> QED BY <4>1, <4>2, <5>1
      <4>5. Since(k, k)
        OBVIOUS
      <4> QED BY <1>4, <4>3, <4>4, <4>5
    <3> QED BY <3>1, <3>2, <3>3
  <2>4. \A j \in 1..k : Last1(j) /\ \A i \in 1..j : Since(i, j)
    BY <1>4, <2>2, <2>3
  <2> QED BY <1>4, <2>4 DEF UpSince, CycleTs
<1>7. WanCounted'
  <2>1. \A j \in 1..n : \A i \in 1..j : minutes[j].wanBytes <= minutes[i].wanBytes + 2 * Cardinality(Ups(minutes, i, j))
    BY <1>4 DEF CarrierInv, WanCounted
  <2>2. \A i \in 1..k : minutes'[i].wanBytes \in Nat
    <3>1. \A i \in 1..Len(minutes') : minutes'[i] \in MinuteRow
      BY <1>1, SeqFacts
    <3> QED BY <1>4, <3>1 DEF MinuteRow
  <2>3. ASSUME NEW j \in 1..n, NEW i \in 1..j
        PROVE  minutes'[j].wanBytes <= minutes'[i].wanBytes + 2 * Cardinality(Ups(minutes', i, j))
    <3>1. i \in 1..n /\ i \in Nat
      OBVIOUS
    <3> QED BY <1>1, <1>3, <2>1, <3>1
  <2>4. ASSUME NEW i \in 1..k
        PROVE  minutes'[k].wanBytes <= minutes'[i].wanBytes + 2 * Cardinality(Ups(minutes', i, k))
    <3> DEFINE c == Cardinality(Ups(minutes', i, n))
               d == Cardinality(Ups(minutes', i, k))
    <3>1. /\ i \in Nat /\ c \in Nat /\ d \in Nat
          /\ i <= n /\ minutes'[k].fate # "line" => d = c + 1
      <4>1. i \in Nat
        OBVIOUS
      <4> QED BY <4>1, UpsFacts
    <3> HIDE DEF c, d
    <3>2. minutes'[i].wanBytes \in Nat /\ minutes'[k].wanBytes \in Nat
      BY <1>4, <2>2
    <3>3. CASE i = k
      BY <3>1, <3>2, <3>3 DEF d
    <3>4. CASE i # k /\ minutes'[k].wanBytes <= 2
      <4>1. n # 0
        BY <3>4
      <4>2. CASE fate = "line"
        BY <1>2, <3>1, <3>2, <4>2 DEF m, d
      <4>3. CASE fate # "line"
        <5>1. d = c + 1
          BY <1>2, <3>1, <3>4, <4>3 DEF m
        <5> QED BY <3>1, <3>2, <3>4, <5>1 DEF d
      <4> QED BY <4>2, <4>3
    <3>5. CASE i # k /\ ~(minutes'[k].wanBytes <= 2)
      <4>1. i \in 1..n /\ n \in 1..n /\ fate # "line" /\ minutes'[k].wanBytes = minutes[n].wanBytes + 2
        BY <1>2, <3>5 DEF m
      <4>2. d = c + 1 /\ minutes[n].wanBytes \in Nat
        BY <1>1, <1>2, <1>4, <2>2, <3>1, <4>1 DEF m
      <4>3. minutes'[n].wanBytes <= minutes'[i].wanBytes + 2 * c
        BY <2>3, <4>1 DEF c
      <4> QED BY <1>1, <3>1, <3>2, <4>1, <4>2, <4>3 DEF d
    <3> QED BY <3>3, <3>4, <3>5
  <2>5. \A j \in 1..k : \A i \in 1..j : minutes'[j].wanBytes <= minutes'[i].wanBytes + 2 * Cardinality(Ups(minutes', i, j))
    BY <1>4, <2>3, <2>4
  <2> QED BY <1>4, <2>5 DEF WanCounted
<1>8. CarrierRows'
  <2>1. /\ \A r \in carrier.cycle : \E i \in 1..n : r = SeenRow(i)
        /\ \A i \in 1..n : SeenRow(i) \in carrier.cycle
        /\ IsFiniteSet(carrier.event)
        /\ \A i \in 1..n : Slips(i) /\ minutes[i].watched =>
             [ts |-> CycleTs(i) - 5, source |-> "link-sampler"] \in carrier.event
        /\ carrier.line = {LineRow(minutes[i]) : i \in Polled}
        /\ carrier.intf = {LanRow(i) : i \in Polled} \cup {WanRow(i) : i \in PolledUp}
    BY <1>4 DEF CarrierInv, CarrierRows
  <2>2. (\A r \in carrier'.cycle : \E i \in 1..k : r = SeenRow(i)') /\ (\A i \in 1..k : SeenRow(i)' \in carrier'.cycle)
    BY <1>2, <1>3, <1>4, <2>1
  <2>3. IsFiniteSet(carrier'.event)
    <3>1. carrier'.event = carrier.event \/ \E e : carrier'.event = carrier.event \cup {e}
      BY <1>2
    <3> QED BY <2>1, <3>1, FS_AddElement
  <2>4. \A i \in 1..k : Slips(i)' /\ minutes'[i].watched =>
             [ts |-> CycleTs(i) - 5, source |-> "link-sampler"] \in carrier'.event
    <3>1. ASSUME NEW i \in 1..n, Slips(i)', minutes'[i].watched
          PROVE  [ts |-> CycleTs(i) - 5, source |-> "link-sampler"] \in carrier'.event
      BY <1>1, <1>2, <1>3, <2>1, <3>1
    <3>2. Slips(k)' /\ minutes'[k].watched => [ts |-> CycleTs(k) - 5, source |-> "link-sampler"] \in carrier'.event
      BY <1>2 DEF m
    <3> QED BY <1>4, <3>1, <3>2
  <2>5. /\ Polled' = Polled \cup (IF poll = "none" THEN {} ELSE {k})
        /\ PolledUp' = PolledUp \cup (IF poll = "none" \/ fate = "line" THEN {} ELSE {k})
        /\ Polled \subseteq 1..n /\ PolledUp \subseteq 1..n
    BY <1>1, <1>2, <1>4 DEF Polled, PolledUp, m
  <2>6. carrier'.line = {LineRow(minutes'[i]) : i \in Polled'}
    BY <1>1, <1>2, <2>1, <2>5 DEF m
  <2>7. carrier'.intf = {LanRow(i) : i \in Polled'} \cup {WanRow(i)' : i \in PolledUp'}
    <3>1. {LanRow(i) : i \in Polled'} = {LanRow(i) : i \in Polled} \cup (IF poll = "none" THEN {} ELSE {LanRow(k)})
      BY <2>5
    <3>2. {WanRow(i)' : i \in PolledUp'} = {WanRow(i) : i \in PolledUp} \cup (IF poll = "none" \/ fate = "line" THEN {} ELSE {WanRow(k)'})
      BY <1>3, <2>5
    <3> QED BY <1>2, <2>1, <3>1, <3>2
  <2>8. carrier' = [sample |-> carrier'.sample, cycle |-> carrier'.cycle, outage |-> carrier'.outage, event |-> carrier'.event,
                    speed |-> carrier'.speed, line |-> carrier'.line, intf |-> carrier'.intf]
    BY DEF MinutePasses, CarrierInv, CarrierRows
  <2>9. \A i : CycleTs(i)' = CycleTs(i) /\ LanRow(i)' = LanRow(i)
    BY DEF CycleTs, LanRow
  <2>10. {LineRow(minutes[i]) : i \in Polled}' = {LineRow(minutes'[i]) : i \in Polled'}
    BY DEF LineRow
  <2>11. {LanRow(i) : i \in Polled}' = {LanRow(i) : i \in Polled'} /\ {WanRow(i) : i \in PolledUp}' = {WanRow(i)' : i \in PolledUp'}
    BY DEF LanRow
  <2> QED BY <1>4, <2>2, <2>3, <2>4, <2>6, <2>7, <2>8, <2>9, <2>10, <2>11 DEF CarrierRows
<1> QED BY <1>5, <1>6, <1>7, <1>8 DEF CarrierInv

\* The rows are those of the minutes, always.
LEMMA CarrierHolds == CarrierSpec => []CarrierInv
<1>1. CarrierInit => CarrierInv
  <2> SUFFICES ASSUME CarrierInit PROVE CarrierInv
    OBVIOUS
  <2>1. Len(minutes) = 0 /\ 1..0 = {} /\ minutes \in Seq(MinuteRow) /\ Polled = {} /\ PolledUp = {}
    BY EmptyFacts DEF CarrierInit, Polled, PolledUp
  <2>2. CarrierRows
    BY <2>1, FS_EmptySet DEF CarrierInit, CarrierRows
  <2> QED BY <2>1, <2>2 DEF CarrierInv, MinutesRun, UpSince, WanCounted
<1>2. CarrierInv /\ [CarrierNext]_carrierVars => CarrierInv'
  <2> SUFFICES ASSUME CarrierInv, [CarrierNext]_carrierVars PROVE CarrierInv'
    OBVIOUS
  <2>1. CASE CarrierNext
    BY <2>1, MinuteKeeps DEF CarrierNext
  <2>2. CASE UNCHANGED carrierVars
    <3>1. carrier' = carrier /\ minutes' = minutes
      BY <2>2 DEF carrierVars
    <3>2. MinutesRun'
      BY <3>1 DEF CarrierInv, MinutesRun, CycleTs
    <3>3. UpSince'
      <4>1. \A i : ComesUp(i)' = ComesUp(i) /\ CycleTs(i)' = CycleTs(i)
        BY <3>1 DEF ComesUp, PastFate, CycleTs
      <4>2. UpSince
        BY DEF CarrierInv
      <4> QED BY <3>1, <4>1, <4>2 DEF UpSince
    <3>4. WanCounted'
      BY <3>1 DEF CarrierInv, WanCounted
    <3>5. CarrierRows'
      <4>1. Polled' = Polled /\ PolledUp' = PolledUp
        BY <3>1 DEF Polled, PolledUp
      <4> QED BY <3>1, <4>1 DEF CarrierInv, CarrierRows, Slips, PastFate, SeenRow, LanRow, WanRow, LineRow, CycleTs
    <3> QED BY <3>2, <3>3, <3>4, <3>5 DEF CarrierInv
  <2> QED BY <2>1, <2>2
<1> QED BY <1>1, <1>2, PTL DEF CarrierSpec

-----------------------------------------------------------------------------
(* Resyncs. *)

\* The minutes, one by one.
LEMMA MinutesAre ==
  ASSUME CarrierInv
  PROVE  /\ Len(minutes) \in Nat
         /\ \A i \in 1..Len(minutes) : /\ i \in Nat /\ minutes[i] \in MinuteRow /\ minutes[i].ts = CycleTs(i)
                                       /\ CycleTs(i) \in Nat /\ CycleTs(i) <= Minute /\ minutes[i].upAt \in Int
                                       /\ CycleTs(i) \div ProbeCycleS = i
         /\ Minute \in Nat /\ ReadNow = Minute + 30
<1>1. /\ Len(minutes) \in Nat /\ \A i \in 1..Len(minutes) : minutes[i] \in MinuteRow /\ minutes[i].ts = CycleTs(i)
  BY SeqFacts DEF CarrierInv, MinutesRun
<1>2. Minute \in Nat /\ ReadNow = Minute + 30
  BY <1>1, Stamp DEF Minute, ReadNow
<1>3. ASSUME NEW i \in 1..Len(minutes)
      PROVE  i \in Nat /\ CycleTs(i) \in Nat /\ CycleTs(i) <= Minute /\ CycleTs(i) \div ProbeCycleS = i
  <2>1. i \in Nat /\ (i = Len(minutes) \/ i < Len(minutes))
    BY <1>1
  <2>2. i < Len(minutes) => CycleTs(i) < Minute
    BY <1>1, <2>1, Stamp DEF Minute
  <2>3. CycleTs(i) \in Nat /\ CycleTs(i) \div ProbeCycleS = i
    BY <2>1, Stamp
  <2>4. i = Len(minutes) => CycleTs(i) = Minute
    BY DEF Minute
  <2> QED BY <1>2, <2>1, <2>2, <2>3, <2>4
<1> QED BY <1>1, <1>2, <1>3 DEF MinuteRow

\* A reading points at the line's coming up, or to fifteen seconds before it.
LEMMA ReadingsAre ==
  ASSUME CarrierInv, NEW from, NEW r \in Readings(carrier, from, ReadNow)
  PROVE  \E i \in 1..Len(minutes) : r.at \in {minutes[i].upAt, minutes[i].upAt - 15}
<1>1. PICK l \in Within(carrier.line, from, ReadNow) : l.showtime # Null /\ r.at = l.ts - l.showtime
  BY DEF Readings
<1>2. PICK i \in Polled : l = LineRow(minutes[i])
  BY <1>1 DEF Within, CarrierInv, CarrierRows
<1>3. i \in 1..Len(minutes) /\ minutes[i].ts \in Nat /\ minutes[i].upAt \in Int
  BY <1>2, MinutesAre DEF Polled
<1>4. /\ l.ts = minutes[i].ts + 20
      /\ l.showtime = IF minutes[i].fate = "line" \/ minutes[i].poll = "unread" THEN Null
                      ELSE minutes[i].ts + 20 - minutes[i].upAt + (IF minutes[i].poll = "late" THEN 15 ELSE 0)
  BY <1>2 DEF LineRow
<1>5. l.showtime = minutes[i].ts + 20 - minutes[i].upAt + (IF minutes[i].poll = "late" THEN 15 ELSE 0)
  BY <1>1, <1>4
<1> QED BY <1>1, <1>3, <1>4, <1>5

\* Two resyncs are further apart than the tolerance.
LEMMA HeadsApart ==
  ASSUME CarrierInv, NEW from, NEW g \in Heads(Readings(carrier, from, ReadNow)), NEW h \in Heads(Readings(carrier, from, ReadNow))
  PROVE  g \in Int /\ h \in Int /\ (g < h => h - g > ClusterTolerance)
<1> DEFINE R == Readings(carrier, from, ReadNow)
<1>1. ASSUME NEW r \in R PROVE r.at \in Int
  BY ReadingsAre, MinutesAre
<1>2. PICK p \in R : p.at = g
  BY DEF Heads
<1>3. PICK q \in R : q.at = h /\ \A r \in R : r.at < q.at => q.at - r.at > ClusterTolerance
  BY DEF Heads
<1> QED BY <1>1, <1>2, <1>3

\* What a dated resync says, and when it names a cause.
LEMMA DatedAre ==
  ASSUME NEW from
  PROVE  /\ \A v \in Dated(from) : /\ v.about \in Heads(Readings(carrier, from, ReadNow))
                                   /\ v.cause # Null => LinkCertain(LinkStateOver(carrier, v.about - ResyncWindow, v.about + ResyncWindow))
         /\ \A u, v \in Dated(from) : u.about = v.about => u = v
<1> DEFINE C(h) == ResyncCluster(carrier, from, ReadNow, h)
           Cause(c) == IF LinkCertain(c.link) /\ c.outage # Null /\ c.outage.endedAt # Null THEN c.outage.startedAt ELSE Null
           V(c) == Gated(Said("carrier_resync_dated", "info", c.at, Cause(c)), c.link)
<1>1. ASSUME NEW v \in Dated(from)
      PROVE  \E h \in Heads(Readings(carrier, from, ReadNow)) : v = V(C(h))
  BY DEF Dated, CarrierResyncDated, ResyncClusters
<1>2. ASSUME NEW h PROVE C(h).at = h /\ C(h).link = LinkStateOver(carrier, h - ResyncWindow, h + ResyncWindow)
  BY DEF ResyncCluster, GateWindow
<1> HIDE DEF C
<1>3. ASSUME NEW c PROVE V(c).about = c.at /\ V(c).cause = Cause(c)
  <2> DEFINE said == Said("carrier_resync_dated", "info", c.at, Cause(c))
  <2>1. said.about = c.at /\ said.cause = Cause(c)
    BY DEF Said
  <2>2. V(c) = said \/ V(c) = [said EXCEPT !.severity = Downgrade(said.severity), !.hedged = TRUE]
    BY DEF Gated
  <2>3. said = [id |-> "carrier_resync_dated", severity |-> "info", about |-> c.at, cause |-> Cause(c), hedged |-> FALSE]
    BY DEF Said
  <2> HIDE DEF V, Cause
  <2> QED BY <2>1, <2>2, <2>3
<1> HIDE DEF V
<1>4. ASSUME NEW h
      PROVE  /\ V(C(h)).about = h
             /\ V(C(h)).cause # Null => LinkCertain(LinkStateOver(carrier, h - ResyncWindow, h + ResyncWindow))
  BY <1>2, <1>3
<1> QED BY <1>1, <1>4

\* A dated resync took place, and none is dated twice (verdict-queries.ts resyncClusters).
LEMMA ResyncsReal == ASSUME CarrierInv PROVE ResyncIsReal
<1> SUFFICES ASSUME NEW from \in Froms
             PROVE  /\ \A v \in Dated(from) : \E s \in TrueStarts : s - v.about \in 0..15
                    /\ \A s \in TrueStarts : Cardinality({v \in Dated(from) : s - v.about \in 0..15}) <= 1
  BY DEF ResyncIsReal
<1>0. DOMAIN minutes = 1..Len(minutes) /\ \A i \in 1..Len(minutes) : minutes[i].upAt \in Int
  BY MinutesAre, SeqFacts DEF CarrierInv, MinutesRun
<1>1. TrueStarts = {minutes[i].upAt : i \in 1..Len(minutes)} /\ TrueStarts \subseteq Int
  BY <1>0 DEF TrueStarts, Elapsed
<1>2. ASSUME NEW v \in Dated(from) PROVE \E s \in TrueStarts : s - v.about \in 0..15
  <2>1. \E r \in Readings(carrier, from, ReadNow) : r.at = v.about
    BY DatedAre DEF Heads
  <2>2. PICK i \in 1..Len(minutes) : v.about \in {minutes[i].upAt, minutes[i].upAt - 15}
    BY <2>1, ReadingsAre
  <2>3. minutes[i].upAt - v.about \in 0..15
    BY <1>0, <2>2
  <2> QED BY <1>1, <2>3
<1>3. ASSUME NEW s \in TrueStarts PROVE Cardinality({v \in Dated(from) : s - v.about \in 0..15}) <= 1
  <2> DEFINE S == {v \in Dated(from) : s - v.about \in 0..15}
  <2>1. ASSUME NEW u \in S, NEW v \in S PROVE u = v
    <3>1. u.about \in Heads(Readings(carrier, from, ReadNow)) /\ v.about \in Heads(Readings(carrier, from, ReadNow))
      BY DatedAre
    <3>2. u.about \in Int /\ v.about \in Int /\ ~(u.about < v.about /\ v.about - u.about <= 60) /\ ~(v.about < u.about /\ u.about - v.about <= 60)
      BY <3>1, HeadsApart DEF ClusterTolerance
    <3> DEFINE a == u.about b == v.about
    <3>3. s \in Int /\ a \in Int /\ b \in Int /\ s - a \in 0..15 /\ s - b \in 0..15
      BY <1>1, <3>2
    <3>4. ~(a < b /\ b - a <= 60) /\ ~(b < a /\ a - b <= 60)
      BY <3>2
    <3> HIDE DEF a, b
    <3>5. a = b
      BY <3>3, <3>4
    <3> USE DEF a, b
    <3> QED BY <3>5, DatedAre
  <2>2. S = {} \/ \E x : S = {x}
    <3> HIDE DEF S
    <3> QED BY <2>1
  <2> HIDE DEF S
  <2>3. Cardinality(S) = 0 \/ Cardinality(S) = 1
    BY <2>2, FS_EmptySet, FS_Singleton
  <2> QED BY <2>3 DEF S
<1> QED BY <1>2, <1>3

-----------------------------------------------------------------------------
(* The link gate around a resync. *)

\* The seconds watched, as a sum over the rows that tell them.
LEMMA WatchSum ==
  ASSUME NEW S, IsFiniteSet(S), NEW k \in Int, \A x \in S : x.watch = k
  PROVE  MapThenSumSet(LAMBDA r : r.watch, S) = k * Cardinality(S)
<1> DEFINE F == [x \in S |-> x.watch]
           h == CHOOSE g : g = [s \in SUBSET S |-> IF s = {} THEN 0 ELSE Pick(s).watch + g[s \ {Pick(s)}]]
<1>1. MapThenSumSet(LAMBDA r : r.watch, S) = h[S]
  BY DEF MapThenSumSet, MapThenFoldSet, Pick
<1>2. IntsOn(F, S) /\ \A x \in S : F[x] \in Int /\ F[x] = k
  BY DEF IntsOn
<1>3. \A s \in SUBSET S : s # {} => Pick(s) \in S /\ F[Pick(s)] = Pick(s).watch
  BY DEF Pick
<1> HIDE DEF F
<1>4. \A g : Adds(F, S, g) <=> g = [s \in SUBSET S |-> IF s = {} THEN 0 ELSE Pick(s).watch + g[s \ {Pick(s)}]]
  BY <1>3 DEF Adds
<1>5. h = CHOOSE g : Adds(F, S, g)
  BY <1>4
<1>6. PICK g : Adds(F, S, g)
  BY <1>2, AddsExists
<1>7. Adds(F, S, h)
  BY <1>5, <1>6
<1> HIDE DEF h
<1>8. h[S] = SumOf(F, S)
  BY <1>2, <1>7, SumWhole
<1>9. SumOf(F, S) = k * Cardinality(S)
  BY <1>2, SumOnes
<1> QED BY <1>1, <1>8, <1>9

\* Between a cycle in which the host's link is the cause and one before which the line comes up,
\* the link changes.
LEMMA SlipBetween ==
  ASSUME CarrierInv, NEW i \in 1..Len(minutes), NEW c \in 1..Len(minutes), minutes[i].fate = "host", ComesUp(c)
  PROVE  \E e \in 1..Len(minutes) : Slips(e) /\ (e = c \/ (i < e /\ e <= c) \/ (c < e /\ e <= i))
<1>0. Len(minutes) \in Nat /\ i \in Nat /\ c \in Nat
  BY MinutesAre
<1>1. CASE minutes[c].fate = "host"
  <2>1. Slips(c)
    BY <1>1 DEF ComesUp, Slips
  <2> QED BY <2>1
<1>2. CASE minutes[c].fate # "host" /\ i < c
  <2> DEFINE T == {l \in (i + 1)..c : minutes[l].fate # "host"}
  <2>1. c \in T /\ T \subseteq Nat
    BY <1>0, <1>2
  <2> HIDE DEF T
  <2>2. PICK e \in T : \A l \in T : e <= l
    BY <2>1, LeastOf
  <2>3. e \in (i + 1)..c /\ minutes[e].fate # "host" /\ e \in 1..Len(minutes) /\ e # 1
    BY <1>0, <2>2 DEF T
  <2>4. minutes[e - 1].fate = "host"
    <3>1. CASE e - 1 = i
      BY <3>1
    <3>2. CASE e - 1 # i
      <4>1. e - 1 \in (i + 1)..c /\ ~(e <= e - 1)
        BY <1>0, <2>3, <3>2
      <4> QED BY <2>2, <4>1 DEF T
    <3> QED BY <3>1, <3>2
  <2>5. Slips(e)
    BY <2>3, <2>4 DEF Slips, PastFate
  <2> QED BY <1>0, <2>3, <2>5
<1>3. CASE minutes[c].fate # "host" /\ c < i
  <2> DEFINE T == {l \in (c + 1)..i : minutes[l].fate = "host"}
  <2>1. i \in T /\ T \subseteq Nat
    BY <1>0, <1>3
  <2> HIDE DEF T
  <2>2. PICK e \in T : \A l \in T : e <= l
    BY <2>1, LeastOf
  <2>3. e \in (c + 1)..i /\ minutes[e].fate = "host" /\ e \in 1..Len(minutes) /\ e # 1
    BY <1>0, <2>2 DEF T
  <2>4. minutes[e - 1].fate # "host"
    <3>1. CASE e - 1 = c
      BY <1>3, <3>1
    <3>2. CASE e - 1 # c
      <4>1. e - 1 \in (c + 1)..i /\ ~(e <= e - 1)
        BY <1>0, <2>3, <3>2
      <4> QED BY <2>2, <4>1 DEF T
    <3> QED BY <3>1, <3>2
  <2>5. Slips(e)
    BY <2>3, <2>4 DEF Slips, PastFate
  <2> QED BY <1>0, <2>3, <2>5
<1>4. i = c \/ i < c \/ c < i
  BY <1>0
<1> QED BY <1>1, <1>2, <1>3, <1>4

\* The cycles of a window around an instant d seconds before the cycle c.
Reach(d) == (0 - (ResyncWindow + d) \div ProbeCycleS)..((ResyncWindow - d) \div ProbeCycleS)
\* A cycle in such a window is in reach.
LEMMA InReach ==
  ASSUME NEW c \in Nat, NEW l \in Nat, NEW d \in {10, 25}, CycleTs(l) \in (CycleTs(c) - d - ResyncWindow)..(CycleTs(c) - d + ResyncWindow)
  PROVE  l - c \in Reach(d)
<1> DEFINE P == ProbeCycleS
           k == l - c
<1>1. P \in Nat /\ P > 20 /\ k \in Int /\ CycleTs(l) = l * P + Phase /\ CycleTs(c) = c * P + Phase /\ Phase \in Nat
  BY ReadsAssumption, CarrierAssumption, InstantAssumption DEF CycleTs
<1>2. l * P - c * P = k * P /\ l * P \in Nat /\ c * P \in Nat
  BY <1>1
<1>3. k * P <= 120 - d /\ k * P >= 0 - (120 + d) /\ k * P \in Int
  <2>1. CycleTs(l) - CycleTs(c) = k * P /\ k * P \in Int /\ CycleTs(l) \in Int /\ CycleTs(c) \in Int
    BY <1>1, <1>2
  <2> HIDE DEF k, P
  <2> QED BY <2>1 DEF ResyncWindow
<1> HIDE DEF P, k
<1> DEFINE x == 120 - d y == 120 + d
<1>4. x \in Nat /\ y \in Nat /\ k * P <= x /\ k * P >= 0 - y
  BY <1>3
<1> HIDE DEF x, y
<1>5. ASSUME NEW z \in Nat, NEW q \in Int, q * P <= z PROVE q <= z \div P
  <2> DEFINE w == z \div P
  <2>1. w \in Nat /\ z < (w + 1) * P
    BY <1>1
  <2> HIDE DEF w
  <2>2. ~(w + 1 <= q)
    <3> SUFFICES ASSUME w + 1 <= q PROVE FALSE
      OBVIOUS
    <3>1. (w + 1) * P <= q * P
      BY <1>1, <2>1
    <3> QED BY <1>1, <1>5, <2>1, <3>1
  <2> QED BY <2>1, <2>2 DEF w
<1>6. k <= x \div P
  BY <1>1, <1>4, <1>5
<1>7. (0 - k) <= y \div P
  <2>1. (0 - k) * P <= y
    BY <1>1, <1>4
  <2> QED BY <1>1, <1>4, <1>5, <2>1
<1>8. x \div P \in Nat /\ y \div P \in Nat
  BY <1>1, <1>4
<1> QED BY <1>1, <1>6, <1>7, <1>8 DEF Reach, ResyncWindow, P, k, x, y

\* Of the rows in reach of a cycle, one short of all.
LEMMA FewRows ==
  ASSUME CarrierInv, NEW c \in Nat, NEW d \in {10, 25}, NEW e \in Nat, e - c \in Reach(d),
         NEW W, \A r \in W : \E l \in Nat : r = SeenRow(l) /\ l # e /\ l - c \in Reach(d)
  PROVE  /\ IsFiniteSet(W) /\ Cardinality(W) \in Nat
         /\ Cardinality(W) <= (ResyncWindow + d) \div ProbeCycleS + (ResyncWindow - d) \div ProbeCycleS
<1> DEFINE a == (ResyncWindow + d) \div ProbeCycleS
           b == (ResyncWindow - d) \div ProbeCycleS
           K == Reach(d) \ {e - c}
           row == [x \in K |-> SeenRow(c + x)]
<1>1. a \in Nat /\ b \in Nat /\ Reach(d) = (0 - a)..b
  <2>1. ResyncWindow + d \in Nat /\ ResyncWindow - d \in Nat
    BY DEF ResyncWindow
  <2> QED BY <2>1, ReadsAssumption DEF Reach
<1> HIDE DEF a, b
<1>2. IsFiniteSet(Reach(d)) /\ Cardinality(Reach(d)) = a + b + 1
  BY <1>1, FS_Interval
<1>3. IsFiniteSet(K) /\ Cardinality(K) = a + b
  <2>1. IsFiniteSet(K) /\ Cardinality(K) = Cardinality(Reach(d)) - 1
    BY <1>2, FS_RemoveElement
  <2> QED BY <1>1, <1>2, <2>1
<1>4. W \subseteq ImageOf(row, K)
  <2> SUFFICES ASSUME NEW r \in W PROVE r \in ImageOf(row, K)
    OBVIOUS
  <2>1. PICK l \in Nat : r = SeenRow(l) /\ l # e /\ l - c \in Reach(d)
    OBVIOUS
  <2>2. l - c \in K /\ c + (l - c) = l
    BY <2>1
  <2>3. row[l - c] = r
    BY <2>1, <2>2
  <2> QED BY <2>2, <2>3 DEF ImageOf
<1> HIDE DEF K, row
<1>5. IsFiniteSet(ImageOf(row, K)) /\ Cardinality(ImageOf(row, K)) <= Cardinality(K)
  BY <1>3, ImageFinite
<1>6. Cardinality(ImageOf(row, K)) \in Nat
  BY <1>5, FS_CardinalityType
<1>7. IsFiniteSet(W) /\ Cardinality(W) \in Nat /\ Cardinality(W) <= Cardinality(ImageOf(row, K))
  BY <1>4, <1>5, FS_Subset, FS_CardinalityType
<1>8. Cardinality(W) <= a + b
  BY <1>1, <1>3, <1>5, <1>6, <1>7
<1> QED BY <1>7, <1>8 DEF a, b

\* How long a window the link gate looks at.
LEMMA WindowOf ==
  ASSUME NEW h \in Int
  PROVE  LinkStateOver(carrier, h - ResyncWindow, h + ResyncWindow).window = 2 * ResyncWindow
<1> DEFINE f == h - ResyncWindow
           t == h + ResyncWindow
<1>1. t - f = 2 * ResyncWindow
  BY DEF ResyncWindow
<1> HIDE DEF f, t
<1>2. LinkStateOver(carrier, f, t).window = t - f
  BY DEF LinkStateOver
<1>3. LinkStateOver(carrier, f, t).window = 2 * ResyncWindow
  BY <1>1, <1>2
<1> QED BY <1>3 DEF f, t

\* Where the link gate vouches for the link around a resync, the host's link was at fault in no
\* cycle there (verdict.ts linkCertain).
LEMMA GateVouches ==
  ASSUME CarrierInv, NEW j \in 1..Len(minutes), NEW h \in {minutes[j].upAt, minutes[j].upAt - 15},
         LinkCertain(LinkStateOver(carrier, h - ResyncWindow, h + ResyncWindow)),
         NEW i \in 1..Len(minutes), CycleTs(i) \in (h - ResyncWindow)..(h + ResyncWindow)
  PROVE  minutes[i].fate # "host"
<1> SUFFICES ASSUME minutes[i].fate = "host" PROVE FALSE
  OBVIOUS
<1> DEFINE W == {r \in Within(carrier.cycle, h - ResyncWindow, h + ResyncWindow) : r.watch # Null}
           E == {e \in Within(carrier.event, h - ResyncWindow, h + ResyncWindow) : e.source = "link-sampler"}
           total == MapThenSumSet(LAMBDA r : r.watch, W)
           fold == CHOOSE g : g = [s \in SUBSET W |-> IF s = {} THEN 0 ELSE Pick(s).watch + g[s \ {Pick(s)}]]
           l == LinkStateOver(carrier, h - ResyncWindow, h + ResyncWindow)
<1>0. h \in Int /\ Len(minutes) \in Nat
  BY MinutesAre
<1>1. /\ l.watched = (IF W = {} THEN Null ELSE total) /\ l.window = 2 * ResyncWindow
      /\ l.transitions = Cardinality(E)
  <2>1. l.window = 2 * ResyncWindow
    BY <1>0, WindowOf
  <2>0. l.transitions = Cardinality(E)
    BY Zenon DEF LinkStateOver
  <2>2. W = {} => l.watched = Null
    BY DEF LinkStateOver
  <2>3. W # {} => l.watched = fold[W]
    BY DEF LinkStateOver, MapThenSumSet, MapThenFoldSet, Pick
  <2>4. total = fold[W]
    BY DEF MapThenSumSet, MapThenFoldSet, Pick
  <2> HIDE DEF l, W, E, total, fold
  <2> QED BY <2>0, <2>1, <2>2, <2>3, <2>4
<1> HIDE DEF l
<1>2. /\ W # {} /\ Cardinality(E) = 0 /\ 100 * total >= MinLinkShare * (2 * ResyncWindow)
  BY <1>1 DEF LinkCertain, l
<1>4. E = {}
  <2>1. IsFiniteSet(carrier.event) /\ E \subseteq carrier.event
    BY DEF CarrierInv, CarrierRows, Within
  <2> HIDE DEF E
  <2> QED BY <1>2, <2>1, FS_Subset, FS_EmptySet
<1>5. ASSUME NEW r \in W
      PROVE  r.watch = ProbeCycleS /\ \E k \in 1..Len(minutes) : /\ r = SeenRow(k) /\ minutes[k].watched
                                       /\ CycleTs(k) \in (h - ResyncWindow)..(h + ResyncWindow)
  <2>1. PICK k \in 1..Len(minutes) : r = SeenRow(k)
    BY DEF Within, CarrierInv, CarrierRows
  <2>2. r.ts = CycleTs(k) /\ r.watch = IF minutes[k].watched THEN ProbeCycleS ELSE Null
    BY <2>1 DEF SeenRow
  <2>3. CycleTs(k) \in Nat
    BY MinutesAre
  <2>4. h - ResyncWindow \in Int /\ h + ResyncWindow \in Int
    BY <1>0 DEF ResyncWindow
  <2> QED BY <2>1, <2>2, <2>3, <2>4 DEF Within
<1> HIDE DEF W, E, total, fold
<1>6. PICK c \in 1..Len(minutes) : ComesUp(c) /\ \E d \in {10, 25} : h = CycleTs(c) - d
  <2>1. minutes[j].upAt = 0 - 1000 \/ \E k \in 1..j : ComesUp(k) /\ minutes[j].upAt = CycleTs(k) - 10
    BY DEF CarrierInv, UpSince
  <2>2. CASE minutes[j].upAt = 0 - 1000
    <3>1. PICK r : r \in W
      BY <1>2
    <3>2. PICK k \in 1..Len(minutes) : CycleTs(k) \in (h - ResyncWindow)..(h + ResyncWindow)
      BY <1>5, <3>1
    <3>3. CycleTs(k) \in Nat /\ (h = 0 - 1000 \/ h = 0 - 1015)
      BY <2>2, MinutesAre
    <3> QED BY <3>2, <3>3 DEF ResyncWindow
  <2>3. CASE \E k \in 1..j : ComesUp(k) /\ minutes[j].upAt = CycleTs(k) - 10
    <3>1. PICK k \in 1..j : ComesUp(k) /\ minutes[j].upAt = CycleTs(k) - 10
      BY <2>3
    <3>2. k \in 1..Len(minutes)
      BY <1>0
    <3>3. CycleTs(k) \in Nat
      BY <3>2, MinutesAre
    <3>4. h = CycleTs(k) - 10 \/ h = CycleTs(k) - 25
      BY <3>1, <3>3
    <3> QED BY <3>1, <3>2, <3>4
  <2> QED BY <2>1, <2>2, <2>3
<1>7. PICK d \in {10, 25} : h = CycleTs(c) - d
  BY <1>6
<1>8. PICK e \in 1..Len(minutes) : Slips(e) /\ (e = c \/ (i < e /\ e <= c) \/ (c < e /\ e <= i))
  BY <1>6, SlipBetween
<1>9. \A k \in 1..Len(minutes) : k \in Nat /\ CycleTs(k) \in Nat
  BY MinutesAre
<1>10. /\ CycleTs(e) \in (h - ResyncWindow)..(h + ResyncWindow)
       /\ CycleTs(e) - 5 \in (h - ResyncWindow)..(h + ResyncWindow)
  <2> DEFINE x == CycleTs(e) y == CycleTs(c) z == CycleTs(i)
  <2>1. x \in Nat /\ y \in Nat /\ z \in Nat
    BY <1>9
  <2>2. /\ e < c => x < y
        /\ i < e => z + 20 < x
        /\ e < i => x < z
        /\ c < e => y < x
    <3>1. e \in Nat /\ c \in Nat /\ i \in Nat
      BY <1>9
    <3>2. i < e => z + 20 < x
      <4> SUFFICES ASSUME i < e PROVE z + 20 < x
        OBVIOUS
      <4>1. x = e * ProbeCycleS + Phase /\ z = i * ProbeCycleS + Phase
        BY DEF CycleTs
      <4>2. (i + 1) * ProbeCycleS <= e * ProbeCycleS /\ (i + 1) * ProbeCycleS = i * ProbeCycleS + ProbeCycleS
        BY <3>1, ReadsAssumption
      <4> QED BY <2>1, <4>1, <4>2, CarrierAssumption, ReadsAssumption, InstantAssumption
    <3> QED BY <3>1, <3>2, Stamp
  <2>3. e \in Nat /\ c \in Nat /\ i \in Nat
    BY <1>9
  <2> HIDE DEF x, y, z
  <2>4. (e = c => x = y) /\ (e = i => x = z)
    BY DEF x, y, z
  <2>5. z \in (h - 120)..(h + 120) /\ h = y - d
    BY <1>7 DEF z, y, ResyncWindow
  <2>6. d \in Nat /\ d <= 25 /\ d >= 10
    OBVIOUS
  <2>7. CASE e = c
    BY <2>1, <2>4, <2>5, <2>6, <2>7 DEF x, ResyncWindow
  <2>8. CASE i < e /\ e <= c
    <3>1. x <= y /\ z + 20 < x
      BY <2>1, <2>2, <2>3, <2>4, <2>8
    <3> QED BY <2>1, <2>5, <2>6, <3>1 DEF x, ResyncWindow
  <2>9. CASE c < e /\ e <= i
    <3>1. y < x /\ x <= z
      BY <2>1, <2>2, <2>3, <2>4, <2>9
    <3> QED BY <2>1, <2>5, <2>6, <3>1 DEF x, ResyncWindow
  <2> QED BY <1>8, <2>7, <2>8, <2>9
<1>11. ~minutes[e].watched
  <2> SUFFICES ASSUME minutes[e].watched PROVE FALSE
    OBVIOUS
  <2> DEFINE ev == [ts |-> CycleTs(e) - 5, source |-> "link-sampler"]
  <2>1. ev \in carrier.event
    BY <1>8 DEF CarrierInv, CarrierRows
  <2>2. ev.ts = CycleTs(e) - 5 /\ ev.source = "link-sampler"
    OBVIOUS
  <2>3. h - ResyncWindow <= ev.ts /\ ev.ts <= h + ResyncWindow
    BY <1>0, <1>9, <1>10, <2>2 DEF ResyncWindow
  <2> QED BY <1>4, <2>1, <2>2, <2>3 DEF E, Within
<1>12. e - c \in Reach(d)
  BY <1>7, <1>9, <1>10, InReach
<1>13. ASSUME NEW r \in W PROVE \E k \in Nat : r = SeenRow(k) /\ k # e /\ k - c \in Reach(d)
  <2>1. PICK k \in 1..Len(minutes) : r = SeenRow(k) /\ minutes[k].watched /\ CycleTs(k) \in (h - ResyncWindow)..(h + ResyncWindow)
    BY <1>5
  <2>2. k - c \in Reach(d) /\ k \in Nat
    BY <1>7, <1>9, <2>1, InReach
  <2> QED BY <1>11, <2>1, <2>2
<1> DEFINE some == (ResyncWindow + d) \div ProbeCycleS + (ResyncWindow - d) \div ProbeCycleS
           w == Cardinality(W)
<1>14. IsFiniteSet(W) /\ w \in Nat /\ w <= some /\ e \in Nat /\ c \in Nat
  <2>1. e \in Nat /\ c \in Nat
    BY <1>9
  <2> QED BY <1>12, <1>13, <2>1, FewRows
<1>15. total = ProbeCycleS * w
  BY <1>5, <1>14, ReadsAssumption, WatchSum DEF total
<1>16. some \in Nat /\ 100 * ProbeCycleS * some < MinLinkShare * (2 * ResyncWindow)
  <2>1. ResyncWindow + d \in Nat /\ ResyncWindow - d \in Nat
    BY <1>7 DEF ResyncWindow
  <2>2. (ResyncWindow + d) \div ProbeCycleS \in Nat /\ (ResyncWindow - d) \div ProbeCycleS \in Nat
    <3>1. ASSUME NEW a \in Nat PROVE a \div ProbeCycleS \in Nat
      <4>1. ProbeCycleS \in Nat /\ ProbeCycleS > 0
        BY ReadsAssumption
      <4> QED BY <4>1
    <3> QED BY <2>1, <3>1
  <2>3. 100 * ProbeCycleS * some < MinLinkShare * (2 * ResyncWindow)
    BY <1>7, GateAssumption
  <2> QED BY <2>2, <2>3
<1> HIDE DEF some, w
<1>17. 100 * (ProbeCycleS * w) <= 100 * ProbeCycleS * some
  <2>1. ProbeCycleS \in Nat /\ w \in Nat /\ some \in Nat /\ w <= some
    BY <1>14, <1>16, ReadsAssumption
  <2>2. ProbeCycleS * w <= ProbeCycleS * some /\ 100 * ProbeCycleS * some = 100 * (ProbeCycleS * some)
    BY <2>1
  <2> DEFINE a == ProbeCycleS * w b == ProbeCycleS * some
  <2>3. a \in Int /\ b \in Int /\ a <= b
    BY <2>1, <2>2
  <2> HIDE DEF a, b
  <2>4. 100 * a <= 100 * b
    BY <2>3
  <2> QED BY <2>2, <2>4 DEF a, b
<1>18. 100 * (ProbeCycleS * w) >= MinLinkShare * (2 * ResyncWindow)
  BY <1>2, <1>15
<1> DEFINE q == 100 * (ProbeCycleS * w) u == 100 * ProbeCycleS * some v == MinLinkShare * (2 * ResyncWindow)
<1>19. q \in Nat /\ u \in Nat /\ v \in Nat /\ q <= u /\ u < v /\ q >= v
  BY <1>14, <1>16, <1>17, <1>18, ReadsAssumption DEF MinLinkShare, ResyncWindow
<1> HIDE DEF q, u, v
<1> QED BY <1>19

\* An outage is given as the line's only where the host's own link was not at fault around the
\* resync (verdict.ts carrierResyncDated, linkCertain).
LEMMA CausesHold == ASSUME CarrierInv PROVE CauseIsLicensed
<1> SUFFICES ASSUME NEW from \in Froms, NEW v \in Dated(from), v.cause # Null, NEW i \in Elapsed, minutes[i].fate = "host",
                    minutes[i].ts \in (v.about - ResyncWindow)..(v.about + ResyncWindow)
             PROVE  FALSE
  BY DEF CauseIsLicensed
<1>1. i \in 1..Len(minutes) /\ minutes[i].ts = CycleTs(i)
  BY SeqFacts DEF Elapsed, CarrierInv, MinutesRun
<1>2. LinkCertain(LinkStateOver(carrier, v.about - ResyncWindow, v.about + ResyncWindow))
      /\ \E r \in Readings(carrier, from, ReadNow) : r.at = v.about
  BY DatedAre DEF Heads
<1>3. PICK j \in 1..Len(minutes) : v.about \in {minutes[j].upAt, minutes[j].upAt - 15}
  BY <1>2, ReadingsAre
<1> QED BY <1>1, <1>2, <1>3, GateVouches

\* A dated resync took place and is dated once, and the outage it explains was not the host's
\* (verdict-queries.ts resyncClusters, verdict.ts carrierResyncDated, linkCertain).
THEOREM CarrierClaims == CarrierSpec => []CarrierClaimsTrue
<1>1. CarrierInv => CarrierClaimsTrue
  BY ResyncsReal, CausesHold DEF CarrierClaimsTrue
<1> QED BY <1>1, CarrierHolds, PTL

-----------------------------------------------------------------------------
(* Polls and restarts. *)

\* A poll is answered before the next cycle: its rows have the place of the cycle.
PollOf(r) == (r.ts - 20) \div ProbeCycleS
LEMMA PollPlace ==
  ASSUME NEW i \in Nat
  PROVE  /\ CycleTs(i) \in Nat /\ ((CycleTs(i) + 20) - 20) \div ProbeCycleS = i
         /\ \A j \in Nat : (CycleTs(i) < CycleTs(j) <=> i < j) /\ (i < j => CycleTs(i) + ProbeCycleS <= CycleTs(j))
<1>1. CycleTs(i) \in Nat /\ CycleTs(i) \div ProbeCycleS = i
  BY Stamp
<1>2. (CycleTs(i) + 20) - 20 = CycleTs(i)
  BY <1>1
<1>3. ASSUME NEW j \in Nat
      PROVE  (CycleTs(i) < CycleTs(j) <=> i < j) /\ (i < j => CycleTs(i) + ProbeCycleS <= CycleTs(j))
  <2>1. i < j => CycleTs(i) + ProbeCycleS <= CycleTs(j)
    <3> SUFFICES ASSUME i < j PROVE CycleTs(i) + ProbeCycleS <= CycleTs(j)
      OBVIOUS
    <3>1. PICK d \in Nat : j = i + 1 + d
      BY j - (i + 1) \in Nat
    <3>2. j * ProbeCycleS = i * ProbeCycleS + ProbeCycleS + d * ProbeCycleS
          /\ d * ProbeCycleS \in Nat /\ i * ProbeCycleS \in Nat
      BY <3>1, ReadsAssumption
    <3> QED BY <3>2, ReadsAssumption, InstantAssumption DEF CycleTs
  <2>2. i < j => CycleTs(i) < CycleTs(j)
    BY Stamp
  <2>3. j < i => CycleTs(j) < CycleTs(i)
    BY Stamp
  <2>4. i = j \/ i < j \/ j < i
    OBVIOUS
  <2>5. CycleTs(i) \in Nat /\ CycleTs(j) \in Nat
    BY Stamp
  <2>6. i = j => CycleTs(i) = CycleTs(j)
    OBVIOUS
  <2>7. j < i => ~(i < j)
    OBVIOUS
  <2> QED BY <2>1, <2>2, <2>3, <2>4, <2>5, <2>6, <2>7
<1> QED BY <1>1, <1>2, <1>3

\* The line came up before the cycle that says so, after every earlier one that says otherwise.
LEMMA CameUp ==
  ASSUME CarrierInv, NEW j \in 1..Len(minutes)
  PROVE  /\ minutes[j].upAt \in Int /\ minutes[j].upAt <= CycleTs(j) - 10
         /\ \A i \in 1..j : minutes[j].upAt # minutes[i].upAt => minutes[j].upAt >= CycleTs(i) + ProbeCycleS - 10
<1>1. /\ Len(minutes) \in Nat /\ j \in Nat /\ minutes[j].upAt \in Int /\ CycleTs(j) \in Nat
  BY MinutesAre
<1>2. minutes[j].upAt <= CycleTs(j) - 10
  <2>1. CASE minutes[j].upAt = 0 - 1000
    BY <1>1, <2>1
  <2>2. CASE minutes[j].upAt # 0 - 1000
    <3>1. PICK l \in 1..j : minutes[j].upAt = CycleTs(l) - 10
      BY <2>2 DEF CarrierInv, UpSince
    <3>2. l \in Nat /\ (l = j \/ l < j) /\ CycleTs(l) \in Nat
      BY <1>1, <3>1, Stamp
    <3>3. l < j => CycleTs(l) < CycleTs(j)
      BY <1>1, <3>2, Stamp
    <3> QED BY <1>1, <3>1, <3>2, <3>3
  <2> QED BY <2>1, <2>2
<1>3. ASSUME NEW i \in 1..j, minutes[j].upAt # minutes[i].upAt
      PROVE  minutes[j].upAt >= CycleTs(i) + ProbeCycleS - 10
  <2>1. PICK l \in (i + 1)..j : minutes[j].upAt = CycleTs(l) - 10
    BY <1>3 DEF CarrierInv, UpSince
  <2>2. i \in Nat /\ l \in Nat /\ i < l
    BY <1>1
  <2>3. CycleTs(i) + ProbeCycleS <= CycleTs(l) /\ CycleTs(i) \in Nat /\ CycleTs(l) \in Nat
    BY <2>2, PollPlace
  <2> QED BY <2>1, <2>3, ReadsAssumption
<1> QED BY <1>1, <1>2, <1>3

\* The newest of some rows of polls.
LEMMA NewestPoll ==
  ASSUME CarrierInv, NEW rows, rows # {}, \A q \in rows : \E i \in 1..Len(minutes) : q.ts = CycleTs(i) + 20
  PROVE  Newest(rows) \in rows /\ \A q \in rows : q.ts <= Newest(rows).ts
<1>1. ASSUME NEW q \in rows PROVE q.ts \in Nat /\ q.ts <= Minute + 20
  BY MinutesAre
<1>2. Minute + 20 \in Nat
  BY MinutesAre
<1> QED BY <1>1, <1>2, NewestIs

\* The windows begin with a cycle.
LEMMA FromsAre ==
  ASSUME CarrierInv, NEW from \in Froms
  PROVE  \E n \in 0..Len(minutes) : from = CycleTs(n) /\ from \in Nat /\ n \in Nat
<1>1. PICK n \in 0..Len(minutes) : from = CycleTs(n)
  BY DEF Froms
<1>2. n \in Nat
  BY MinutesAre
<1> QED BY <1>1, <1>2, Stamp

\* The rows of the line in a window, and those that show a restart.
LineRows(from) == Within(carrier.line, from, ReadNow)
Restarted(from) ==
  {r \in LineRows(from) : LET p == Before(LineRows(from), r)
                          IN p # Null /\ p.showtime # Null /\ r.showtime # Null /\ r.showtime < p.showtime}

\* A row of the line is that of the poll after its cycle.
LEMMA LineRowsAre ==
  ASSUME CarrierInv, NEW from, NEW r \in LineRows(from)
  PROVE  /\ PollOf(r) \in 1..Len(minutes) /\ PollOf(r) \in Nat /\ r = LineRow(minutes[PollOf(r)])
         /\ r.ts = CycleTs(PollOf(r)) + 20 /\ from <= r.ts
<1>1. PICK i \in Polled : r = LineRow(minutes[i])
  BY DEF LineRows, Within, CarrierInv, CarrierRows
<1>2. i \in 1..Len(minutes) /\ i \in Nat /\ minutes[i].ts = CycleTs(i)
  BY <1>1, MinutesAre DEF Polled
<1>3. r.ts = CycleTs(i) + 20
  BY <1>1, <1>2 DEF LineRow
<1>4. PollOf(r) = i
  BY <1>2, <1>3, PollPlace DEF PollOf
<1> QED BY <1>1, <1>2, <1>3, <1>4 DEF LineRows, Within

\* There are no more rows of the line than minutes.
LEMMA LineRowsFinite == ASSUME CarrierInv, NEW from PROVE IsFiniteSet(LineRows(from))
<1> DEFINE row == [i \in 1..Len(minutes) |-> LineRow(minutes[i])]
<1>1. Len(minutes) \in Nat
  BY MinutesAre
<1>2. IsFiniteSet(1..Len(minutes))
  BY <1>1, FS_Interval
<1>3. LineRows(from) \subseteq ImageOf(row, 1..Len(minutes))
  BY LineRowsAre DEF ImageOf
<1> HIDE DEF row
<1> QED BY <1>2, <1>3, ImageFinite, FS_Subset

\* A restart shows that the line came up since the row before, and later than at any earlier row.
LEMMA RestartsAre ==
  ASSUME CarrierInv, NEW from \in Froms, NEW r \in Restarted(from)
  PROVE  /\ minutes[PollOf(r)].upAt >= from
         /\ \A q \in LineRows(from) : q.ts < r.ts => minutes[PollOf(q)].upAt < minutes[PollOf(r)].upAt
<1> DEFINE rows == LineRows(from)
           earlier == {q \in rows : q.ts < r.ts}
           p == Before(rows, r)
<1>1. r \in rows /\ p # Null /\ p.showtime # Null /\ r.showtime # Null /\ r.showtime < p.showtime
  BY DEF Restarted
<1>2. p = IF earlier = {} THEN Null ELSE Newest(earlier)
  BY DEF Before, Newest
<1>3. p \in earlier /\ \A q \in earlier : q.ts <= p.ts
  <2>1. earlier # {} /\ p = Newest(earlier)
    BY <1>1, <1>2
  <2>2. \A q \in earlier : \E i \in 1..Len(minutes) : q.ts = CycleTs(i) + 20
    BY LineRowsAre
  <2> HIDE DEF earlier, p
  <2> QED BY <2>1, <2>2, NewestPoll
<1>4. p \in rows /\ p.ts < r.ts /\ \A q \in rows : q.ts < r.ts => q.ts <= p.ts
  BY <1>3
<1> HIDE DEF rows, p, earlier
<1> DEFINE k == PollOf(p) j == PollOf(r)
<1>5. /\ k \in 1..Len(minutes) /\ k \in Nat /\ p = LineRow(minutes[k]) /\ p.ts = CycleTs(k) + 20 /\ from <= p.ts
      /\ j \in 1..Len(minutes) /\ j \in Nat /\ r = LineRow(minutes[j]) /\ r.ts = CycleTs(j) + 20
  BY <1>1, <1>4, LineRowsAre DEF rows
<1> HIDE DEF k, j
<1>6. /\ CycleTs(k) \in Nat /\ CycleTs(j) \in Nat /\ CycleTs(k) < CycleTs(j) /\ k < j
      /\ CycleTs(k) + ProbeCycleS <= CycleTs(j)
  <2>1. CycleTs(k) \in Nat /\ CycleTs(j) \in Nat
    BY <1>5, PollPlace
  <2>2. CycleTs(k) < CycleTs(j)
    BY <1>4, <1>5, <2>1
  <2> QED BY <1>5, <2>1, <2>2, PollPlace
<1>7. minutes[j].upAt # minutes[k].upAt
  <2> SUFFICES ASSUME minutes[j].upAt = minutes[k].upAt PROVE FALSE
    OBVIOUS
  <2> DEFINE late(i) == IF minutes[i].poll = "late" THEN 15 ELSE 0
             u == minutes[k].upAt
  <2>1. /\ p.showtime = minutes[k].ts + 20 - minutes[k].upAt + late(k)
        /\ r.showtime = minutes[j].ts + 20 - minutes[j].upAt + late(j)
    BY <1>1, <1>5 DEF LineRow
  <2>2. minutes[k].ts = CycleTs(k) /\ minutes[j].ts = CycleTs(j) /\ u \in Int
    BY <1>5, MinutesAre
  <2>3. late(k) \in 0..15 /\ late(j) \in 0..15
    OBVIOUS
  <2> DEFINE x == CycleTs(k) y == CycleTs(j) a == late(k) b == late(j)
  <2>4. p.showtime = x + 20 - u + a /\ r.showtime = y + 20 - u + b
    BY <2>1, <2>2
  <2>5. x \in Nat /\ y \in Nat /\ a \in 0..15 /\ b \in 0..15 /\ x + ProbeCycleS <= y /\ ProbeCycleS \in Nat /\ ProbeCycleS > 20
    BY <1>6, <2>3, ReadsAssumption, CarrierAssumption
  <2> HIDE DEF x, y, a, b, u
  <2>6. y + 20 - u + b < x + 20 - u + a
    BY <1>1, <2>4
  <2> QED BY <2>2, <2>5, <2>6
<1>8. minutes[j].upAt \in Int /\ minutes[j].upAt >= CycleTs(k) + ProbeCycleS - 10
  <2>1. k \in 1..j
    BY <1>5, <1>6
  <2> QED BY <1>5, <1>7, <2>1, CameUp
<1>9. ProbeCycleS \in Nat /\ ProbeCycleS > 20
  BY ReadsAssumption, CarrierAssumption
<1>10. minutes[j].upAt >= from
  <2>1. PICK n \in 0..Len(minutes) : from = CycleTs(n) /\ from \in Nat /\ n \in Nat
    BY FromsAre
  <2>2. ~(k < n)
    <3> SUFFICES ASSUME k < n PROVE FALSE
      OBVIOUS
    <3>1. CycleTs(k) + ProbeCycleS <= from
      BY <1>5, <2>1, PollPlace
    <3> QED BY <1>5, <1>6, <1>9, <2>1, <3>1
  <2>3. from <= CycleTs(k)
    <3>1. n = k \/ n < k
      BY <1>5, <2>1, <2>2
    <3>2. n < k => CycleTs(n) < CycleTs(k)
      BY <1>5, <2>1, PollPlace
    <3>3. n = k => CycleTs(n) = CycleTs(k)
      OBVIOUS
    <3> QED BY <1>6, <2>1, <3>1, <3>2, <3>3
  <2> QED BY <1>6, <1>8, <1>9, <2>1, <2>3
<1>11. ASSUME NEW q \in rows, q.ts < r.ts PROVE minutes[PollOf(q)].upAt < minutes[j].upAt
  <2> DEFINE i == PollOf(q)
  <2>1. i \in 1..Len(minutes) /\ i \in Nat /\ q.ts = CycleTs(i) + 20
    BY LineRowsAre DEF rows
  <2> HIDE DEF i
  <2>2. CycleTs(i) + 20 <= CycleTs(k) + 20 /\ CycleTs(i) \in Nat
    BY <1>4, <1>5, <1>11, <2>1, PollPlace
  <2>3. minutes[i].upAt \in Int /\ minutes[i].upAt <= CycleTs(i) - 10
    BY <2>1, CameUp
  <2>4. minutes[i].upAt < minutes[j].upAt
    BY <1>6, <1>8, <1>9, <2>2, <2>3
  <2> QED BY <2>4 DEF i
<1> QED BY <1>10, <1>11 DEF rows, j

\* The restarts of a set of buckets, as a sum over it.
LEMMA ResyncsSum ==
  ASSUME NEW S, IsFiniteSet(S), \A x \in S : x.resyncs \in Int
  PROVE  MapThenSumSet(LAMBDA b : b.resyncs, S) = SumOf([x \in S |-> x.resyncs], S)
<1> DEFINE F == [x \in S |-> x.resyncs]
           h == CHOOSE g : g = [s \in SUBSET S |-> IF s = {} THEN 0 ELSE Pick(s).resyncs + g[s \ {Pick(s)}]]
<1>1. MapThenSumSet(LAMBDA b : b.resyncs, S) = h[S]
  BY DEF MapThenSumSet, MapThenFoldSet, Pick
<1>2. IntsOn(F, S) /\ \A x \in S : F[x] \in Int
  BY DEF IntsOn
<1>3. \A s \in SUBSET S : s # {} => Pick(s) \in S /\ F[Pick(s)] = Pick(s).resyncs
  BY DEF Pick
<1> HIDE DEF F
<1>4. \A g : Adds(F, S, g) <=> g = [s \in SUBSET S |-> IF s = {} THEN 0 ELSE Pick(s).resyncs + g[s \ {Pick(s)}]]
  BY <1>3 DEF Adds
<1>5. Adds(F, S, h)
  <2>1. PICK g : Adds(F, S, g)
    BY <1>2, AddsExists
  <2> QED BY <1>4, <2>1
<1> HIDE DEF h
<1>6. h[S] = SumOf(F, S)
  BY <1>2, <1>5, SumWhole
<1> QED BY <1>1, <1>6 DEF F

\* The buckets count each restart in the rows once.
LEMMA RestartsCount ==
  ASSUME CarrierInv, NEW from
  PROVE  /\ IsFiniteSet(Restarted(from))
         /\ MapThenSumSet(LAMBDA b : b.resyncs, BucketRouterLine(carrier, from, ReadNow, ProbeCycleS))
              = Cardinality(Restarted(from))
<1> DEFINE rows == LineRows(from)
           In(b) == {r \in rows : BucketOf(r.ts, ProbeCycleS) = b}
           Bad(r) == LET p == Before(rows, r)
                     IN p # Null /\ p.showtime # Null /\ r.showtime # Null /\ r.showtime < p.showtime
           Row(b) == [bucket |-> b, samples |-> Cardinality(In(b)),
                      statuses |-> {r.status : r \in In(b)} \ {Null},
                      up |-> Cardinality({r \in In(b) : r.status = "Up"}),
                      syncMin |-> Extreme(Min, {r.sync : r \in In(b)}), syncMax |-> Extreme(Max, {r.sync : r \in In(b)}),
                      resyncs |-> Cardinality({r \in In(b) : Bad(r)})]
           place == [r \in rows |-> BucketOf(r.ts, ProbeCycleS)]
           B == ImageOf(place, rows)
           P == [b \in B |-> {r \in In(b) : Bad(r)}]
           row == [b \in B |-> Row(b)]
           buckets == ImageOf(row, B)
<1>1. BucketRouterLine(carrier, from, ReadNow, ProbeCycleS) = buckets
  <2>1. B = {BucketOf(r.ts, ProbeCycleS) : r \in rows}
    BY DEF ImageOf
  <2>2. buckets = {Row(b) : b \in B}
    BY DEF ImageOf
  <2>3. BucketRouterLine(carrier, from, ReadNow, ProbeCycleS) = {Row(b) : b \in {BucketOf(r.ts, ProbeCycleS) : r \in rows}}
    BY DEF BucketRouterLine, LineRows
  <2> QED BY <2>1, <2>2, <2>3
<1>2. IsFiniteSet(rows)
  BY LineRowsFinite
<1>3. IsFiniteSet(B)
  BY <1>2, ImageFinite
<1>4. Restarted(from) = {r \in rows : Bad(r)}
  BY DEF Restarted
<1>5. IsFiniteSet(Restarted(from))
  BY <1>2, <1>4, FS_Subset
<1>6. \A b \in B : P[b] = {r \in rows : BucketOf(r.ts, ProbeCycleS) = b /\ Bad(r)}
  OBVIOUS
<1>7. \A r \in rows : place[r] \in B /\ place[r] = BucketOf(r.ts, ProbeCycleS)
  BY DEF ImageOf
<1>8. \A b \in B : row[b].bucket = b /\ row[b].resyncs = Cardinality({r \in In(b) : Bad(r)}) /\ P[b] = {r \in In(b) : Bad(r)}
  OBVIOUS
<1> HIDE DEF P, row, B, place, Bad, In, rows
<1>9. ASSUME NEW b \in B PROVE IsFiniteSet(P[b]) /\ row[b].resyncs = Cardinality(P[b]) /\ row[b].bucket = b
  <2>1. P[b] \subseteq rows
    BY <1>6
  <2> QED BY <1>2, <1>8, <2>1, FS_Subset
<1>10. PartedBy(P, B) /\ WholeOf(P, B) = Restarted(from)
  BY <1>4, <1>6, <1>7 DEF PartedBy, WholeOf
<1> DEFINE V == [x \in buckets |-> x.resyncs]
<1>11. OneToOne(row, B) /\ \A b \in B : row[b] \in buckets
  BY <1>9 DEF OneToOne, ImageOf
<1>12. \A b \in B : IsFiniteSet(P[b]) /\ V[row[b]] = Cardinality(P[b])
  <2> HIDE DEF buckets
  <2> QED BY <1>9, <1>11
<1> HIDE DEF V
<1>13. IsFiniteSet(buckets) /\ IntsOn(V, buckets) /\ SumOf(V, buckets) = Cardinality(Restarted(from))
  BY <1>3, <1>10, <1>11, <1>12, CountRows
<1> HIDE DEF buckets
<1>14. \A x \in buckets : x.resyncs \in Int
  BY <1>13 DEF IntsOn, V
<1>15. MapThenSumSet(LAMBDA b : b.resyncs, buckets) = SumOf(V, buckets)
  BY <1>13, <1>14, ResyncsSum DEF V
<1> QED BY <1>1, <1>5, <1>13, <1>15

\* The history counts no restart of the line that was none.
LEMMA RestartsReal ==
  ASSUME CarrierInv, NEW from \in Froms
  PROVE  Cardinality(Restarted(from)) <= Cardinality({s \in TrueStarts : s >= from})
<1> DEFINE S == Restarted(from)
           T == {s \in TrueStarts : s >= from}
           start == [i \in 1..Len(minutes) |-> minutes[i].upAt]
           up == [r \in S |-> minutes[PollOf(r)].upAt]
<1>0. Len(minutes) \in Nat /\ DOMAIN minutes = 1..Len(minutes) /\ \A i \in 1..Len(minutes) : minutes[i].upAt \in Int
  BY MinutesAre, SeqFacts DEF CarrierInv, MinutesRun
<1>1. IsFiniteSet(S)
  BY RestartsCount
<1>2. IsFiniteSet(T)
  <2>1. TrueStarts = ImageOf(start, 1..Len(minutes))
    BY <1>0 DEF TrueStarts, Elapsed, ImageOf
  <2> HIDE DEF start
  <2>2. IsFiniteSet(1..Len(minutes))
    BY <1>0, FS_Interval
  <2>3. IsFiniteSet(TrueStarts)
    BY <2>1, <2>2, ImageFinite
  <2> QED BY <2>3, FS_Subset
<1>3. ASSUME NEW r \in S PROVE up[r] \in T /\ up[r] = minutes[PollOf(r)].upAt /\ up[r] \in Int /\ r \in LineRows(from)
  <2>1. r \in LineRows(from) /\ PollOf(r) \in 1..Len(minutes) /\ minutes[PollOf(r)].upAt >= from
    BY RestartsAre, LineRowsAre DEF Restarted
  <2> QED BY <1>0, <2>1 DEF TrueStarts, Elapsed
<1>4. ASSUME NEW q \in S, NEW r \in S, up[q] = up[r] PROVE q = r
  <2>1. q.ts < r.ts => up[q] < up[r]
    BY <1>3, RestartsAre
  <2>2. r.ts < q.ts => up[r] < up[q]
    BY <1>3, RestartsAre
  <2>3. up[q] \in Int /\ up[r] \in Int
    BY <1>3
  <2>4. ~(q.ts < r.ts) /\ ~(r.ts < q.ts)
    BY <1>4, <2>1, <2>2, <2>3
  <2> HIDE DEF up, S
  <2>5. /\ PollOf(q) \in Nat /\ q = LineRow(minutes[PollOf(q)]) /\ q.ts = CycleTs(PollOf(q)) + 20
        /\ PollOf(r) \in Nat /\ r = LineRow(minutes[PollOf(r)]) /\ r.ts = CycleTs(PollOf(r)) + 20
    BY <1>3, LineRowsAre
  <2>6. CycleTs(PollOf(q)) \in Nat /\ CycleTs(PollOf(r)) \in Nat
    BY <2>5, PollPlace
  <2>7. CycleTs(PollOf(q)) = CycleTs(PollOf(r))
    BY <2>4, <2>5, <2>6
  <2>8. PollOf(q) = PollOf(r)
    BY <2>5, <2>7, Stamp
  <2> QED BY <2>5, <2>8
<1>5. OneToOne(up, S) /\ ImageOf(up, S) \subseteq T
  BY <1>3, <1>4 DEF OneToOne, ImageOf
<1> HIDE DEF up, S, T
<1>6. IsFiniteSet(ImageOf(up, S)) /\ Cardinality(ImageOf(up, S)) = Cardinality(S)
  BY <1>1, <1>5, SameMany
<1>7. Cardinality(ImageOf(up, S)) <= Cardinality(T)
  BY <1>2, <1>5, FS_Subset
<1> QED BY <1>6, <1>7 DEF S, T

-----------------------------------------------------------------------------
(* What crossed the interfaces, by the router's rows. *)

Roles == {"wan", "lan"}
IntfWithin(from) == Within(carrier.intf, from, ReadNow)
RoleRows(role, from) == {r \in IntfWithin(from) : r.role = role}
\* The cycles in which something crosses an interface of the role, and how much at most.
Carrying(role) == {i \in 1..Len(minutes) : role = "wan" => minutes[i].fate # "line"}
Load(role) == IF role = "wan" THEN 2 ELSE 3
Counted(from) == [r \in IntfWithin(from) |-> Moved(IntfWithin(from), r)]

\* A row of an interface is that of the poll after its cycle, and what it counts since an
\* earlier one of the same interface crossed it in between.
LEMMA IntfRowsAre ==
  ASSUME CarrierInv, NEW from, NEW r \in IntfWithin(from)
  PROVE  /\ PollOf(r) \in 1..Len(minutes) /\ PollOf(r) \in Nat
         /\ r.ts = CycleTs(PollOf(r)) + 20 /\ from <= r.ts /\ r.role \in Roles
         /\ r.bytes \in Nat
         /\ r.role = "wan" => r = WanRow(PollOf(r)) /\ PollOf(r) \in PolledUp
         /\ r.role = "lan" => r = LanRow(PollOf(r)) /\ PollOf(r) \in Polled
         /\ \A q \in IntfWithin(from) : q.name = r.name <=> q.role = r.role
<1>1. ASSUME NEW q \in IntfWithin(from)
      PROVE  \/ \E i \in Polled : q = LanRow(i) /\ q.role = "lan" /\ q.name = "br0"
             \/ \E i \in PolledUp : q = WanRow(i) /\ q.role = "wan" /\ q.name = "ppp0"
  BY DEF IntfWithin, Within, CarrierInv, CarrierRows, LanRow, WanRow
<1>2. from <= r.ts
  BY DEF IntfWithin, Within
<1>3. ASSUME NEW i \in 1..Len(minutes), r.ts = CycleTs(i) + 20
      PROVE  PollOf(r) = i /\ i \in Nat
  <2>1. i \in Nat
    BY MinutesAre
  <2> QED BY <1>3, <2>1, PollPlace DEF PollOf
<1>4. \A q \in IntfWithin(from) : q.name = r.name <=> q.role = r.role
  BY <1>1
<1>5. CASE \E i \in Polled : r = LanRow(i) /\ r.role = "lan" /\ r.name = "br0"
  <2>1. PICK i \in Polled : r = LanRow(i) /\ r.role = "lan"
    BY <1>5
  <2>2. i \in 1..Len(minutes) /\ r.ts = CycleTs(i) + 20 /\ r.bytes = 50 + 3 * i
    BY <2>1 DEF Polled, LanRow
  <2>3. PollOf(r) = i /\ i \in Nat
    BY <1>3, <2>2
  <2> QED BY <1>2, <1>4, <2>1, <2>2, <2>3 DEF Roles
<1>6. CASE \E i \in PolledUp : r = WanRow(i) /\ r.role = "wan" /\ r.name = "ppp0"
  <2>1. PICK i \in PolledUp : r = WanRow(i) /\ r.role = "wan"
    BY <1>6
  <2>2. i \in 1..Len(minutes) /\ r.ts = CycleTs(i) + 20 /\ r.bytes = minutes[i].wanBytes
    BY <2>1 DEF PolledUp, Polled, WanRow
  <2>3. PollOf(r) = i /\ i \in Nat /\ minutes[i].wanBytes \in Nat
    BY <1>3, <2>2, MinutesAre DEF MinuteRow
  <2> QED BY <1>2, <1>4, <2>1, <2>2, <2>3 DEF Roles
<1> QED BY <1>1, <1>5, <1>6

\* Nor more than two rows of interfaces to a minute.
LEMMA IntfRowsFinite == ASSUME CarrierInv, NEW from PROVE IsFiniteSet(IntfWithin(from))
<1> DEFINE lan == [i \in 1..Len(minutes) |-> LanRow(i)]
           wan == [i \in 1..Len(minutes) |-> WanRow(i)]
<1>1. Len(minutes) \in Nat
  BY MinutesAre
<1>2. IsFiniteSet(1..Len(minutes))
  BY <1>1, FS_Interval
<1>3. IntfWithin(from) \subseteq ImageOf(lan, 1..Len(minutes)) \cup ImageOf(wan, 1..Len(minutes))
  BY IntfRowsAre DEF ImageOf, Roles
<1> HIDE DEF lan, wan
<1>4. IsFiniteSet(ImageOf(lan, 1..Len(minutes))) /\ IsFiniteSet(ImageOf(wan, 1..Len(minutes)))
  BY <1>2, ImageFinite
<1> QED BY <1>3, <1>4, FS_Subset, FS_Union

\* What two rows of a role differ by crossed its interface in between.
LEMMA CrossedBetween ==
  ASSUME CarrierInv, NEW from, NEW r \in IntfWithin(from), NEW p \in IntfWithin(from), p.role = r.role,
         PollOf(p) < PollOf(r)
  PROVE  LET crossed == {l \in Carrying(r.role) : PollOf(p) < l /\ l <= PollOf(r)}
         IN /\ IsFiniteSet(crossed) /\ Cardinality(crossed) \in Nat
            /\ r.bytes - p.bytes <= Load(r.role) * Cardinality(crossed)
<1> DEFINE crossed == {l \in Carrying(r.role) : PollOf(p) < l /\ l <= PollOf(r)}
           j == PollOf(r)
           k == PollOf(p)
<1>1. /\ j \in 1..Len(minutes) /\ j \in Nat /\ k \in 1..Len(minutes) /\ k \in Nat /\ k < j
      /\ r.role \in Roles
      /\ r.role = "wan" => r = WanRow(j) /\ p = WanRow(k)
      /\ r.role = "lan" => r = LanRow(j) /\ p = LanRow(k)
      /\ r.bytes \in Nat /\ p.bytes \in Nat
  BY IntfRowsAre
<1>2. crossed = {l \in Carrying(r.role) : k < l /\ l <= j}
  OBVIOUS
<1> HIDE DEF j, k, crossed
<1>3. Len(minutes) \in Nat /\ \A l \in 1..Len(minutes) : l \in Nat
  BY MinutesAre
<1>4. CASE r.role = "wan"
  <2>1. crossed = Ups(minutes, k, j)
    <3>1. \A l \in (k + 1)..j : l \in 1..Len(minutes) /\ k < l /\ l <= j
      BY <1>1, <1>3
    <3>2. \A l \in crossed : l \in (k + 1)..j /\ minutes[l].fate # "line"
      BY <1>1, <1>2, <1>3, <1>4 DEF Carrying
    <3> QED BY <1>2, <1>4, <3>1, <3>2 DEF Ups, Carrying
  <2>2. r.bytes = minutes[j].wanBytes /\ p.bytes = minutes[k].wanBytes
    BY <1>1, <1>4 DEF WanRow
  <2>3. minutes[j].wanBytes <= minutes[k].wanBytes + 2 * Cardinality(Ups(minutes, k, j))
    <3>1. k \in 1..j
      BY <1>1
    <3> QED BY <1>1, <3>1 DEF CarrierInv, WanCounted
  <2>4. IsFiniteSet(crossed) /\ Cardinality(crossed) \in Nat
    BY <1>1, <2>1, UpsFacts
  <2> DEFINE c == Cardinality(crossed) x == r.bytes y == p.bytes
  <2>5. x <= y + 2 * c /\ x \in Nat /\ y \in Nat /\ c \in Nat
    BY <1>1, <2>1, <2>2, <2>3, <2>4
  <2> HIDE DEF c, x, y
  <2>6. x - y <= 2 * c
    BY <2>5
  <2> QED BY <1>4, <2>4, <2>6 DEF Load, c, x, y, crossed, j, k
<1>5. CASE r.role = "lan"
  <2>1. crossed = (k + 1)..j
    <3>1. \A l \in (k + 1)..j : l \in 1..Len(minutes) /\ k < l /\ l <= j
      BY <1>1, <1>3
    <3>2. \A l \in crossed : l \in (k + 1)..j
      BY <1>1, <1>2, <1>3 DEF Carrying
    <3> QED BY <1>2, <1>5, <3>1, <3>2 DEF Carrying
  <2>2. IsFiniteSet(crossed) /\ Cardinality(crossed) = j - k
    <3>1. IsFiniteSet((k + 1)..j) /\ Cardinality((k + 1)..j) = j - k
      BY <1>1, FS_Interval
    <3> QED BY <2>1, <3>1
  <2>3. r.bytes = 50 + 3 * j /\ p.bytes = 50 + 3 * k
    BY <1>1, <1>5 DEF LanRow
  <2>4. r.bytes - p.bytes <= 3 * (j - k) /\ j - k \in Nat
    BY <1>1, <2>3
  <2> QED BY <1>5, <2>2, <2>4 DEF Load, crossed, j, k
<1> QED BY <1>1, <1>4, <1>5 DEF Roles

\* The bytes of a row are those since the last one of its interface, or none.
LEMMA MovedIs ==
  ASSUME CarrierInv, NEW from, NEW r \in IntfWithin(from)
  PROVE  /\ Counted(from)[r] \in Nat
         /\ \/ Counted(from)[r] = 0
            \/ \E p \in RoleRows(r.role, from) :
                 /\ PollOf(p) < PollOf(r)
                 /\ \A q \in RoleRows(r.role, from) : PollOf(q) < PollOf(r) => PollOf(q) <= PollOf(p)
                 /\ Counted(from)[r] <= Load(r.role)
                                          * Cardinality({l \in Carrying(r.role) : PollOf(p) < l /\ l <= PollOf(r)})
<1> DEFINE rows == IntfWithin(from)
           earlier == {q \in rows : q.name = r.name /\ q.ts < r.ts}
           p == Newest(earlier)
<1>1. Counted(from)[r] = IF p # Null /\ p.bytes <= r.bytes THEN r.bytes - p.bytes ELSE 0
  BY DEF Counted, Moved
<1>2. CASE ~(p # Null /\ p.bytes <= r.bytes)
  <2> HIDE DEF p
  <2> QED BY <1>1, <1>2
<1>3. CASE p # Null /\ p.bytes <= r.bytes
  <2>1. earlier # {}
    BY <1>3 DEF Newest
  <2>2. p \in earlier /\ \A q \in earlier : q.ts <= p.ts
    <3>1. \A q \in earlier : \E i \in 1..Len(minutes) : q.ts = CycleTs(i) + 20
      BY IntfRowsAre
    <3> HIDE DEF earlier
    <3> QED BY <2>1, <3>1, NewestPoll
  <2>3. p \in rows /\ p.name = r.name /\ p.ts < r.ts /\ \A q \in rows : q.name = r.name /\ q.ts < r.ts => q.ts <= p.ts
    BY <2>2
  <2> HIDE DEF p, earlier
  <2>4. r.role \in Roles /\ p.role = r.role /\ p.bytes \in Nat /\ r.bytes \in Nat
    BY <2>3, IntfRowsAre DEF rows
  <2>5. ASSUME NEW q \in rows PROVE /\ PollOf(q) \in Nat
                                    /\ (q.ts < r.ts <=> PollOf(q) < PollOf(r)) /\ (q.ts <= p.ts => PollOf(q) <= PollOf(p))
    <3> DEFINE a == PollOf(q) b == PollOf(r) c == PollOf(p)
    <3>1. /\ a \in Nat /\ q.ts = CycleTs(a) + 20 /\ b \in Nat /\ r.ts = CycleTs(b) + 20
          /\ c \in Nat /\ p.ts = CycleTs(c) + 20
      BY <2>3, IntfRowsAre DEF rows
    <3> HIDE DEF a, b, c
    <3>2. CycleTs(a) \in Nat /\ CycleTs(b) \in Nat /\ CycleTs(c) \in Nat
      BY <3>1, PollPlace
    <3>3. (CycleTs(a) < CycleTs(b) <=> a < b) /\ (CycleTs(c) < CycleTs(a) <=> c < a)
      BY <3>1, PollPlace
    <3>4. (q.ts < r.ts <=> a < b) /\ (q.ts <= p.ts => a <= c) /\ a \in Nat
      BY <3>1, <3>2, <3>3
    <3> QED BY <3>4 DEF a, b, c
  <2>6. PollOf(p) < PollOf(r)
    BY <2>3, <2>5
  <2>7. p \in RoleRows(r.role, from)
    BY <2>3, <2>4 DEF RoleRows, rows
  <2>8. ASSUME NEW q \in RoleRows(r.role, from), PollOf(q) < PollOf(r) PROVE PollOf(q) <= PollOf(p)
    <3>1. q \in rows /\ q.role = r.role
      BY DEF RoleRows, rows
    <3>2. q.name = r.name
      BY <3>1, IntfRowsAre DEF rows
    <3> QED BY <2>3, <2>5, <2>8, <3>1, <3>2
  <2>9. r.bytes - p.bytes <= Load(r.role) * Cardinality({l \in Carrying(r.role) : PollOf(p) < l /\ l <= PollOf(r)})
    BY <2>3, <2>4, <2>6, CrossedBetween DEF rows
  <2>10. Counted(from)[r] = r.bytes - p.bytes /\ r.bytes - p.bytes \in Nat
    BY <1>1, <1>3, <2>4
  <2> QED BY <2>6, <2>7, <2>8, <2>9, <2>10
<1> QED BY <1>2, <1>3

\* The rows of a role count no byte that did not cross an interface of it.
LEMMA MovedBound ==
  ASSUME CarrierInv, NEW from \in Froms, NEW role \in Roles
  PROVE  /\ IsFiniteSet(RoleRows(role, from)) /\ IntsOn(Counted(from), RoleRows(role, from))
         /\ SumOf(Counted(from), RoleRows(role, from))
              <= Load(role) * Cardinality({l \in Carrying(role) : CycleTs(l) >= from})
<1> DEFINE R == RoleRows(role, from)
           C == Carrying(role)
           T == {l \in C : CycleTs(l) >= from}
           P == [r \in R |-> {l \in C : /\ l <= PollOf(r) /\ \E p \in R : PollOf(p) < l
                                        /\ \A q \in R : PollOf(q) < PollOf(r) => PollOf(q) < l}]
           N == [r \in R |-> Cardinality(P[r])]
           M == [r \in R |-> Load(role) * N[r]]
           F == Counted(from)
<1>1. IsFiniteSet(R) /\ R \subseteq IntfWithin(from) /\ \A r \in R : r.role = role
  <2>1. IsFiniteSet(IntfWithin(from))
    BY IntfRowsFinite
  <2> QED BY <2>1, FS_Subset DEF RoleRows
<1>2. ASSUME NEW r \in R PROVE PollOf(r) \in Nat /\ r.ts = CycleTs(PollOf(r)) + 20 /\ from <= r.ts
                               /\ \A q \in R : PollOf(q) = PollOf(r) => q = r
  <2>1. r \in IntfWithin(from) /\ r.role = role
    BY <1>1
  <2>2. ASSUME NEW q \in R, PollOf(q) = PollOf(r) PROVE q = r
    <3>1. q \in IntfWithin(from) /\ q.role = role
      BY <1>1
    <3> HIDE DEF R
    <3> QED BY <2>1, <2>2, <3>1, IntfRowsAre DEF Roles
  <2> QED BY <2>1, <2>2, IntfRowsAre
<1>3. IsFiniteSet(C) /\ C \subseteq Nat
  <2>0. Len(minutes) \in Nat
    BY MinutesAre
  <2>1. IsFiniteSet(1..Len(minutes)) /\ 1..Len(minutes) \subseteq Nat
    BY <2>0, FS_Interval
  <2> QED BY <2>1, FS_Subset DEF Carrying
<1>4. IsFiniteSet(T) /\ Cardinality(T) \in Nat
  <2>1. IsFiniteSet(T)
    BY <1>3, FS_Subset
  <2> QED BY <2>1, FS_CardinalityType
<1>5. \A r \in R : P[r] = {l \in C : /\ l <= PollOf(r) /\ \E p \in R : PollOf(p) < l
                                        /\ \A q \in R : PollOf(q) < PollOf(r) => PollOf(q) < l}
  OBVIOUS
<1>6. \A r \in R : N[r] = Cardinality(P[r]) /\ M[r] = Load(role) * N[r]
  OBVIOUS
<1>7. ASSUME NEW r \in R, NEW p \in R, PollOf(p) < PollOf(r), \A q \in R : PollOf(q) < PollOf(r) => PollOf(q) <= PollOf(p)
      PROVE  {l \in C : PollOf(p) < l /\ l <= PollOf(r)} \subseteq P[r]
  <2> HIDE DEF R, P, C
  <2>1. ASSUME NEW l \in C, PollOf(p) < l, NEW q \in R, PollOf(q) < PollOf(r) PROVE PollOf(q) < l
    <3>1. PollOf(q) <= PollOf(p) /\ PollOf(p) \in Nat /\ PollOf(q) \in Nat /\ l \in Nat
      BY <1>2, <1>3, <1>7, <2>1
    <3> QED BY <2>1, <3>1
  <2> QED BY <1>5, <2>1
<1>8. T = {l \in C : CycleTs(l) >= from} /\ F = Counted(from) /\ R = RoleRows(role, from) /\ C = Carrying(role)
  OBVIOUS
<1> HIDE DEF R, C, T, P, N, M, F
<1>9. ASSUME NEW r \in R
      PROVE  IsFiniteSet(P[r]) /\ N[r] \in Nat /\ M[r] \in Nat
  <2>1. P[r] \subseteq C
    BY <1>5
  <2>2. IsFiniteSet(P[r]) /\ Cardinality(P[r]) \in Nat
    BY <1>3, <2>1, FS_Subset, FS_CardinalityType
  <2> QED BY <1>6, <2>2 DEF Load
<1>10. ASSUME NEW r \in R
       PROVE  F[r] \in Nat /\ F[r] <= M[r]
  <2>1. r \in IntfWithin(from) /\ r.role = role
    BY <1>1
  <2>2. F[r] \in Nat /\ (F[r] = 0 \/ \E p \in R : /\ PollOf(p) < PollOf(r)
                 /\ \A q \in R : PollOf(q) < PollOf(r) => PollOf(q) <= PollOf(p)
                 /\ F[r] <= Load(role) * Cardinality({l \in C : PollOf(p) < l /\ l <= PollOf(r)}))
    BY <1>8, <2>1, MovedIs
  <2>3. CASE F[r] = 0
    BY <1>9, <2>2, <2>3
  <2>4. CASE F[r] # 0
    <3>1. PICK p \in R : /\ PollOf(p) < PollOf(r)
                 /\ \A q \in R : PollOf(q) < PollOf(r) => PollOf(q) <= PollOf(p)
                 /\ F[r] <= Load(role) * Cardinality({l \in C : PollOf(p) < l /\ l <= PollOf(r)})
      BY <2>2, <2>4
    <3> DEFINE X == {l \in C : PollOf(p) < l /\ l <= PollOf(r)}
    <3>2. X \subseteq P[r]
      BY <1>7, <3>1
    <3>3. F[r] <= Load(role) * Cardinality(X)
      BY <3>1
    <3> HIDE DEF X
    <3>4. Cardinality(X) <= N[r] /\ Cardinality(X) \in Nat
      BY <1>6, <1>9, <3>2, FS_Subset, FS_CardinalityType
    <3>5. Load(role) * Cardinality(X) <= M[r]
      <4>1. Load(role) = 2 \/ Load(role) = 3
        BY DEF Load
      <4> QED BY <1>6, <1>9, <3>4, <4>1
    <3>6. Load(role) * Cardinality(X) \in Nat
      BY <3>4 DEF Load
    <3> QED BY <1>9, <2>2, <3>3, <3>5, <3>6
  <2> QED BY <2>3, <2>4
<1>11. PartedBy(P, R)
  <2> SUFFICES ASSUME NEW q \in R, NEW r \in R, q # r PROVE P[q] \cap P[r] = {}
    BY DEF PartedBy
  <2>1. PollOf(q) \in Nat /\ PollOf(r) \in Nat /\ PollOf(q) # PollOf(r)
    BY <1>2
  <2>2. PollOf(q) < PollOf(r) \/ PollOf(r) < PollOf(q)
    BY <2>1
  <2>3. \A l \in C : l \in Nat
    BY <1>3
  <2>4. ASSUME NEW l \in P[q], l \in P[r] PROVE FALSE
    <3>1. l \in C /\ l <= PollOf(q) /\ l <= PollOf(r)
      BY <1>5, <2>4
    <3>2. PollOf(q) < PollOf(r) => PollOf(q) < l
      BY <1>5, <2>4
    <3>3. PollOf(r) < PollOf(q) => PollOf(r) < l
      BY <1>5, <2>4
    <3> QED BY <2>1, <2>2, <2>3, <3>1, <3>2, <3>3
  <2> QED BY <2>4
<1>12. WholeOf(P, R) \subseteq T
  <2> SUFFICES ASSUME NEW r \in R, NEW l \in P[r] PROVE l \in T
    BY DEF WholeOf
  <2>1. PICK p \in R : PollOf(p) < l
    BY <1>5
  <2>2. l \in C /\ l \in Nat
    BY <1>3, <1>5
  <2>3. /\ PollOf(p) \in Nat /\ from <= CycleTs(PollOf(p)) + 20
    BY <1>2, <2>1
  <2>4. CycleTs(PollOf(p)) + ProbeCycleS <= CycleTs(l) /\ CycleTs(l) \in Nat /\ CycleTs(PollOf(p)) \in Nat
    BY <2>1, <2>2, <2>3, PollPlace
  <2>5. CycleTs(l) >= from
    BY <2>3, <2>4, CarrierAssumption, ReadsAssumption, FromsAre
  <2> QED BY <1>8, <2>2, <2>5
<1>13. IntsOn(F, R) /\ IntsOn(M, R) /\ IntsOn(N, R)
  BY <1>9, <1>10 DEF IntsOn
<1>14. SumOf(F, R) <= SumOf(M, R)
  BY <1>1, <1>10, <1>13, SumLess
<1>15. Load(role) \in Nat /\ Load(role) \in Int
  BY DEF Load
<1>16. SumOf(M, R) = Load(role) * SumOf(N, R)
  BY <1>1, <1>6, <1>13, <1>15, SumTimes
<1>17. SumOf(N, R) = Cardinality(WholeOf(P, R)) /\ IsFiniteSet(WholeOf(P, R))
  BY <1>1, <1>6, <1>9, <1>11, SizeOfParts
<1>18. Cardinality(WholeOf(P, R)) <= Cardinality(T) /\ Cardinality(WholeOf(P, R)) \in Nat
  BY <1>4, <1>12, <1>17, FS_Subset, FS_CardinalityType
<1> DEFINE f == SumOf(F, R) m == SumOf(M, R) w == Cardinality(WholeOf(P, R)) t == Cardinality(T)
<1>19. f <= Load(role) * t
  <2>1. f \in Int /\ f <= m /\ m = Load(role) * w /\ w <= t /\ w \in Nat /\ t \in Nat
    BY <1>1, <1>4, <1>13, <1>14, <1>16, <1>17, <1>18, SumInt
  <2>2. Load(role) = 2 \/ Load(role) = 3
    BY DEF Load
  <2> HIDE DEF f, m, w, t
  <2> QED BY <2>1, <2>2
<1> QED BY <1>1, <1>8, <1>13, <1>19

\* The buckets of a role add up to what its rows count.
LEMMA RoleSums ==
  ASSUME CarrierInv, NEW from \in Froms, NEW role \in Roles
  PROVE  MapThenSumSet(LAMBDA b : b.bytes,
           {b \in BucketRouterThroughput(carrier, from, ReadNow, ProbeCycleS, Null) : b.role = role})
             = SumOf(Counted(from), RoleRows(role, from))
<1> DEFINE rows == {r \in Within(carrier.intf, from, ReadNow) : Null # Null => r.role = Null}
           R == RoleRows(role, from)
           F == Counted(from)
           In(k) == {r \in rows : BucketOf(r.ts, ProbeCycleS) = k[1] /\ r.role = k[2]}
           Carried(k) == MapThenSumSet(LAMBDA r : Moved(rows, r), In(k))
           Row(k) == [bucket |-> k[1], role |-> k[2], samples |-> Cardinality(In(k)),
                      names |-> {r.name : r \in In(k)}, bytes |-> Carried(k)]
           key == [r \in R |-> <<BucketOf(r.ts, ProbeCycleS), r.role>>]
           K == ImageOf(key, R)
           P == [k \in K |-> In(k)]
           row == [k \in K |-> Row(k)]
           buckets == ImageOf(row, K)
           all == BucketRouterThroughput(carrier, from, ReadNow, ProbeCycleS, Null)
<1>0. rows = IntfWithin(from)
  BY DEF IntfWithin
<1>1. {b \in all : b.role = role} = buckets
  <2>1. all = {Row(k) : k \in {<<BucketOf(r.ts, ProbeCycleS), r.role>> : r \in rows}}
    BY DEF BucketRouterThroughput
  <2>2. K = {<<BucketOf(r.ts, ProbeCycleS), r.role>> : r \in R}
    BY DEF ImageOf
  <2>3. buckets = {Row(k) : k \in K}
    BY DEF ImageOf
  <2>4. \A k : Row(k).role = k[2]
    OBVIOUS
  <2>5. R = {r \in rows : r.role = role}
    BY <1>0 DEF RoleRows
  <2> HIDE DEF all, Row, rows, R, K, buckets
  <2>6. K = {k \in {<<BucketOf(r.ts, ProbeCycleS), r.role>> : r \in rows} : k[2] = role}
    BY <2>2, <2>5
  <2> QED BY <2>1, <2>3, <2>4, <2>6
<1> HIDE DEF rows
<1>2. IsFiniteSet(R) /\ IntsOn(F, R) /\ R \subseteq rows /\ \A r \in R : r.role = role
  BY <1>0, MovedBound DEF RoleRows
<1>3. IsFiniteSet(K)
  BY <1>2, ImageFinite
<1>4. \A k \in K : k[2] = role /\ k = <<k[1], k[2]>>
  BY <1>2 DEF ImageOf
<1>5. \A r \in R : key[r] \in K /\ key[r] = <<BucketOf(r.ts, ProbeCycleS), role>>
  BY <1>2 DEF ImageOf
<1>6. \A k \in K : P[k] = In(k) /\ In(k) = {r \in R : BucketOf(r.ts, ProbeCycleS) = k[1]}
  <2>1. R = {r \in rows : r.role = role}
    BY <1>0 DEF RoleRows
  <2> HIDE DEF K, R
  <2> QED BY <1>4, <2>1
<1>7. ASSUME NEW k \in K PROVE P[k] \subseteq R /\ IsFiniteSet(P[k]) /\ IntsOn(F, P[k])
  <2>1. P[k] \subseteq R
    BY <1>6
  <2> HIDE DEF P, F, R, K
  <2>2. IsFiniteSet(P[k])
    BY <1>2, <2>1, FS_Subset
  <2> QED BY <1>2, <2>1, <2>2 DEF IntsOn
<1>8. PartedBy(P, K) /\ WholeOf(P, K) = R
  <2> HIDE DEF P, K, R, key, In
  <2>1. ASSUME NEW j \in K, NEW k \in K, j # k PROVE P[j] \cap P[k] = {}
    <3>1. j[1] # k[1]
      BY <1>4, <2>1
    <3> QED BY <1>6, <3>1
  <2>2. \A r \in R : \E k \in K : r \in P[k]
    BY <1>5, <1>6
  <2> QED BY <1>7, <2>1, <2>2 DEF PartedBy, WholeOf
<1>9. ASSUME NEW k \in K PROVE Carried(k) = SumOf(F, P[k])
  <2> DEFINE S == P[k]
             h == CHOOSE g : g = [s \in SUBSET S |-> IF s = {} THEN 0 ELSE Moved(rows, Pick(s)) + g[s \ {Pick(s)}]]
  <2>1. Carried(k) = h[S]
    BY DEF MapThenSumSet, MapThenFoldSet, Pick
  <2>2. IsFiniteSet(S) /\ IntsOn(F, S) /\ (\A x \in S : F[x] \in Int) /\ S \subseteq rows
    BY <1>2, <1>7 DEF IntsOn
  <2>3. \A s \in SUBSET S : s # {} => Pick(s) \in S /\ F[Pick(s)] = Moved(rows, Pick(s))
    BY <1>0, <2>2 DEF Pick, Counted
  <2> HIDE DEF F, S
  <2>4. \A g : Adds(F, S, g) <=> g = [s \in SUBSET S |-> IF s = {} THEN 0 ELSE Moved(rows, Pick(s)) + g[s \ {Pick(s)}]]
    BY <2>3 DEF Adds
  <2>5. Adds(F, S, h)
    <3>1. PICK g : Adds(F, S, g)
      BY <2>2, AddsExists
    <3> QED BY <2>4, <3>1
  <2> HIDE DEF h
  <2>6. h[S] = SumOf(F, S)
    BY <2>2, <2>5, SumWhole
  <2> QED BY <2>1, <2>6 DEF F, S
<1>10. \A k \in K : row[k].bucket = k[1] /\ row[k].bytes = Carried(k)
  OBVIOUS
<1> DEFINE V == [x \in buckets |-> x.bytes]
<1>11. \A k \in K : row[k] \in buckets
  BY DEF ImageOf
<1>12. \A k \in K : V[row[k]] = SumOf(F, P[k])
  <2> HIDE DEF row, buckets, P, K, Carried, F
  <2> QED BY <1>9, <1>10, <1>11
<1> HIDE DEF row, buckets, P, K, Carried, F, V, R, rows, key, In
<1>13. OneToOne(row, K)
  <2> SUFFICES ASSUME NEW j \in K, NEW k \in K, row[j] = row[k] PROVE j = k
    BY DEF OneToOne
  <2>1. j[1] = k[1]
    BY <1>10
  <2> QED BY <1>4, <2>1
<1>14. /\ IsFiniteSet(ImageOf(row, K)) /\ IntsOn(V, ImageOf(row, K))
       /\ SumOf(V, ImageOf(row, K)) = SumOf(F, WholeOf(P, K))
  BY <1>3, <1>7, <1>8, <1>12, <1>13, SumRows
<1>15. IsFiniteSet(buckets) /\ IntsOn(V, buckets) /\ SumOf(V, buckets) = SumOf(F, R)
  BY <1>8, <1>14 DEF buckets
<1>16. \A x \in buckets : x.bytes \in Int
  BY <1>15 DEF IntsOn, V
<1>17. MapThenSumSet(LAMBDA b : b.bytes, buckets) = SumOf(V, buckets)
  BY <1>15, <1>16, BytesSum DEF V
<1> QED BY <1>1, <1>15, <1>17 DEF F, R, all

\* What the snapshot shows of the line and of a role is the newest row of it, at its age.
LEMMA ShownIs ==
  ASSUME CarrierInv, NEW rows, NEW S \in SUBSET Polled,
         \A q \in rows : \E i \in S : q.ts = CycleTs(i) + 20,
         \A i \in S : \E q \in rows : q.ts = CycleTs(i) + 20
  PROVE  LET part == Observe(Newest(rows), ReadNow, StaleAfterS)
         IN part # Null =>
              /\ ~part.stale => \E i \in Elapsed : minutes[i].poll # "none" /\ ReadNow - minutes[i].ts <= StaleAfterS + 20
              /\ part.stale <=> ~\E i \in S : ReadNow - minutes[i].ts - 20 <= StaleAfterS
<1> DEFINE top == Newest(rows)
           part == Observe(top, ReadNow, StaleAfterS)
<1>1. SUFFICES ASSUME part # Null
               PROVE  /\ ~part.stale => \E i \in Elapsed : minutes[i].poll # "none" /\ ReadNow - minutes[i].ts <= StaleAfterS + 20
                      /\ part.stale <=> ~\E i \in S : ReadNow - minutes[i].ts - 20 <= StaleAfterS
  OBVIOUS
<1>2. top # Null
  BY <1>1 DEF Observe
<1>3. rows # {}
  BY <1>2 DEF Newest
<1>4. S \subseteq 1..Len(minutes) /\ \A i \in S : minutes[i].poll # "none"
  BY DEF Polled
<1>5. top \in rows /\ \A q \in rows : q.ts <= top.ts
  <2>1. \A q \in rows : \E i \in 1..Len(minutes) : q.ts = CycleTs(i) + 20
    BY <1>4
  <2> HIDE DEF top
  <2> QED BY <1>3, <2>1, NewestPoll DEF top
<1>6. part.stale <=> ReadNow - top.ts > StaleAfterS
  <2> HIDE DEF top
  <2> QED BY <1>2 DEF Observe
<1> HIDE DEF top, part
<1>7. PICK m \in S : top.ts = CycleTs(m) + 20
  BY <1>5
<1>8. \A i \in 1..Len(minutes) : minutes[i].ts = CycleTs(i) /\ CycleTs(i) \in Nat
  BY MinutesAre
<1>9. \A i \in S : CycleTs(i) + 20 <= CycleTs(m) + 20
  BY <1>5, <1>7
<1>10. ReadNow \in Nat /\ StaleAfterS \in Nat
  BY MinutesAre, CarrierAssumption
<1>11. m \in Elapsed
  BY <1>4, <1>7, SeqFacts DEF Elapsed, CarrierInv, MinutesRun
<1>12. ASSUME ~part.stale PROVE minutes[m].poll # "none" /\ ReadNow - minutes[m].ts <= StaleAfterS + 20
                                /\ ReadNow - minutes[m].ts - 20 <= StaleAfterS
  <2>1. m \in 1..Len(minutes) /\ minutes[m].poll # "none"
    BY <1>4, <1>7
  <2>2. minutes[m].ts = CycleTs(m) /\ CycleTs(m) \in Nat /\ ~(ReadNow - (CycleTs(m) + 20) > StaleAfterS)
    BY <1>6, <1>7, <1>8, <1>12, <2>1
  <2> QED BY <1>10, <2>1, <2>2
<1>13. ASSUME NEW i \in S, ReadNow - minutes[i].ts - 20 <= StaleAfterS PROVE ~part.stale
  <2>1. i \in 1..Len(minutes) /\ m \in 1..Len(minutes)
    BY <1>4, <1>7
  <2>2. minutes[i].ts = CycleTs(i) /\ CycleTs(i) \in Nat /\ CycleTs(m) \in Nat /\ CycleTs(i) + 20 <= CycleTs(m) + 20
    BY <1>8, <1>9, <2>1
  <2> QED BY <1>6, <1>7, <1>10, <1>13, <2>2
<1> QED BY <1>7, <1>11, <1>12, <1>13 DEF part, top

-----------------------------------------------------------------------------
(* The router's history. *)

\* The rows the snapshot takes its parts from are those of the polls.
LEMMA ShownFrom ==
  ASSUME CarrierInv
  PROVE  /\ Polled \in SUBSET Polled /\ PolledUp \in SUBSET Polled
         /\ \A q \in carrier.line : \E i \in Polled : q.ts = CycleTs(i) + 20
         /\ \A i \in Polled : \E q \in carrier.line : q.ts = CycleTs(i) + 20
         /\ \A q \in {r \in carrier.intf : r.role = "wan"} : \E i \in PolledUp : q.ts = CycleTs(i) + 20
         /\ \A i \in PolledUp : \E q \in {r \in carrier.intf : r.role = "wan"} : q.ts = CycleTs(i) + 20
         /\ \A q \in {r \in carrier.intf : r.role = "lan"} : \E i \in Polled : q.ts = CycleTs(i) + 20
         /\ \A i \in Polled : \E q \in {r \in carrier.intf : r.role = "lan"} : q.ts = CycleTs(i) + 20
<1>1. carrier.line = {LineRow(minutes[i]) : i \in Polled} /\ carrier.intf = {LanRow(i) : i \in Polled} \cup {WanRow(i) : i \in PolledUp}
  BY DEF CarrierInv, CarrierRows
<1>2. \A i \in Polled : LineRow(minutes[i]).ts = CycleTs(i) + 20
  <2>1. \A i \in Polled : minutes[i].ts = CycleTs(i)
    BY MinutesAre DEF Polled
  <2> QED BY <2>1 DEF LineRow
<1>3. \A i : /\ LanRow(i).ts = CycleTs(i) + 20 /\ LanRow(i).role = "lan"
             /\ WanRow(i).ts = CycleTs(i) + 20 /\ WanRow(i).role = "wan"
  BY DEF LanRow, WanRow
<1>4. PolledUp \in SUBSET Polled
  BY DEF PolledUp
<1> QED BY <1>1, <1>2, <1>3, <1>4

\* The router's history invents nothing (range.ts bucketRouterLine, bucketRouterThroughput;
\* poll.ts readRouterSnapshot).
LEMMA HistoryHolds == ASSUME CarrierInv PROVE HistoryIsReal
<1> DEFINE now == RouterSnapshot(carrier, ReadNow, StaleAfterS)
           Total(role, from) == MapThenSumSet(LAMBDA b : b.bytes,
                                  {b \in BucketRouterThroughput(carrier, from, ReadNow, ProbeCycleS, Null) : b.role = role})
           Restarts(from) == MapThenSumSet(LAMBDA b : b.resyncs, BucketRouterLine(carrier, from, ReadNow, ProbeCycleS))
           Up(from) == {i \in Elapsed : minutes[i].ts >= from /\ minutes[i].fate # "line"}
           wanRows == {r \in carrier.intf : r.role = "wan"}
           lanRows == {r \in carrier.intf : r.role = "lan"}
<1>1. ASSUME NEW from \in Froms PROVE Restarts(from) <= Cardinality({s \in TrueStarts : s >= from})
  BY RestartsCount, RestartsReal
<1>2. ASSUME NEW from \in Froms
      PROVE  /\ Total("wan", from) <= 2 * Cardinality(Up(from))
             /\ Total("lan", from) <= 3 * Cardinality({i \in Elapsed : minutes[i].ts >= from})
  <2>1. Elapsed = 1..Len(minutes) /\ \A i \in 1..Len(minutes) : minutes[i].ts = CycleTs(i)
    BY SeqFacts DEF Elapsed, CarrierInv, MinutesRun
  <2>2. /\ {l \in Carrying("wan") : CycleTs(l) >= from} = Up(from)
        /\ {l \in Carrying("lan") : CycleTs(l) >= from} = {i \in Elapsed : minutes[i].ts >= from}
    BY <2>1 DEF Carrying
  <2>3. Load("wan") = 2 /\ Load("lan") = 3 /\ "wan" \in Roles /\ "lan" \in Roles
    BY DEF Load, Roles
  <2>4. ASSUME NEW role \in Roles
        PROVE  Total(role, from) <= Load(role) * Cardinality({l \in Carrying(role) : CycleTs(l) >= from})
    BY RoleSums, MovedBound
  <2> HIDE DEF Total, Up
  <2>5. Total("wan", from) <= Load("wan") * Cardinality({l \in Carrying("wan") : CycleTs(l) >= from})
    BY <2>3, <2>4
  <2>6. Total("lan", from) <= Load("lan") * Cardinality({l \in Carrying("lan") : CycleTs(l) >= from})
    BY <2>3, <2>4
  <2> QED BY <2>2, <2>3, <2>5, <2>6
<1> DEFINE Lately(part) == ~part.stale => \E i \in Elapsed : minutes[i].poll # "none" /\ ReadNow - minutes[i].ts <= StaleAfterS + 20
           line == Observe(Newest(carrier.line), ReadNow, StaleAfterS)
           wan == Observe(Newest(wanRows), ReadNow, StaleAfterS)
           lan == Observe(Newest(lanRows), ReadNow, StaleAfterS)
<1>3. now.line = line /\ now.wan = wan /\ now.lan = lan
  BY DEF RouterSnapshot
<1>4. line # Null => Lately(line)
  <2> HIDE DEF line
  <2> QED BY ShownFrom, ShownIs DEF line
<1>5. lan # Null => Lately(lan)
  <2> HIDE DEF lan
  <2> QED BY ShownFrom, ShownIs DEF lan
<1>6. /\ wan # Null => Lately(wan)
      /\ wan # Null => (wan.stale <=> ~\E i \in PolledUp : ReadNow - minutes[i].ts - 20 <= StaleAfterS)
  <2> HIDE DEF wan
  <2> QED BY ShownFrom, ShownIs DEF wan
<1>7. (\E i \in PolledUp : ReadNow - minutes[i].ts - 20 <= StaleAfterS)
        <=> \E i \in Elapsed : minutes[i].poll # "none" /\ minutes[i].fate # "line" /\ ReadNow - minutes[i].ts - 20 <= StaleAfterS
  <2>1. Elapsed = 1..Len(minutes)
    BY SeqFacts DEF Elapsed, CarrierInv, MinutesRun
  <2> QED BY <2>1 DEF PolledUp, Polled
<1> HIDE DEF line, wan, lan, now, Total, Restarts, Lately
<1>8. \A part \in {now.line, now.wan, now.lan} \ {Null} : Lately(part)
  BY <1>3, <1>4, <1>5, <1>6
<1>9. now.wan # Null => (now.wan.stale <=>
        ~\E i \in Elapsed : minutes[i].poll # "none" /\ minutes[i].fate # "line" /\ ReadNow - minutes[i].ts - 20 <= StaleAfterS)
  BY <1>3, <1>6, <1>7
<1>10. \A from \in Froms :
         ResolveRange(from, ReadNow, ProbeCycleS) = "ok" =>
            /\ Restarts(from) <= Cardinality({s \in TrueStarts : s >= from})
            /\ Total("wan", from) <= 2 * Cardinality(Up(from))
            /\ Total("lan", from) <= 3 * Cardinality({i \in Elapsed : minutes[i].ts >= from})
  BY <1>1, <1>2
<1> QED BY <1>8, <1>9, <1>10 DEF HistoryIsReal, now, Total, Restarts, Up, Lately

\* No restart that was none, no byte that did not cross, nothing old shown as current
\* (range.ts bucketRouterLine, bucketRouterThroughput; poll.ts readRouterSnapshot).
THEOREM HistoryReal == CarrierSpec => []HistoryIsReal
<1>1. CarrierInv => HistoryIsReal
  BY HistoryHolds
<1> QED BY <1>1, CarrierHolds, PTL
=============================================================================
