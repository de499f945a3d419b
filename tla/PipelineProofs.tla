--------------------------- MODULE PipelineProofs ---------------------------
(***************************************************************************)
(* Of the probe pipeline, for every set of targets, every behaviour of the *)
(* line, every spool limit, every choice of faults and every bound: no     *)
(* cycle is lost between its measurement and the record, the record grows  *)
(* in the order of the cycles, the outage machine's memory is the table's  *)
(* open row, and each of its scopes implements OutageRecord: its rows are  *)
(* the unbroken runs of down cycles among those it was fed.                *)
(***************************************************************************)
EXTENDS ProbePipeline, DataLemmas, FiniteSetTheorems, WellFoundedInduction

-----------------------------------------------------------------------------
(* The inductive invariant. *)

\* A collector that is not at work holds nothing, and one that is works on the newest cycle.
Hand ==
  /\ ~col.up => col.pc = "idle"
  /\ col.pc = "idle" => col.current = Null /\ col.todo = <<>>
  /\ col.pc # "idle" => col.current = now /\ now \in Times /\ Torn \notin ToSet(spool)

\* Cycles in their order, with at most one torn line, the last.
Ordered(s) == \A i, j \in 1..Len(s) : i < j => s[i] # Torn /\ (s[j] # Torn => s[i] <= s[j])

\* The backlog in hand is in the order of the cycles, and covers the file it was read from.
Files ==
  /\ Ordered(spool) /\ Ordered(col.todo)
  /\ \A t \in (ToSet(spool) \ {Torn}) \cup ToSet(col.todo) : t <= now
  /\ col.todo # <<>> => ToSet(spool) \subseteq ToSet(col.todo) \cup db.samples
  /\ col.todo = <<>> /\ col.pc # "idle" => spool = <<>>

\* Nothing is sent, and so nothing stored, before all that is older is stored or let go of.
Settled == \A u \in net \cup db.samples : \A s \in 1..(u - 1) : s \in db.samples \cup gaveUp

\* What the table says is going on, and what the machine remembers of it.
Ongoing(outages, s) == {r \in outages : r.scope = s /\ r.endedAt = Null}
Remembered(open, s) == IF open[s] = Null THEN {} ELSE {Row(s, open[s], Null)}
InStep(open, outages) == \A s \in Scopes : Ongoing(outages, s) = Remembered(open, s)
Single(outages) == \A s \in Scopes : \A q, r \in Ongoing(outages, s) : q = r
Memory == Single(db.outages) /\ (srv.up => InStep(srv.open, db.outages))

PipeInv == TypeOK /\ Hand /\ Files /\ NothingLost /\ Settled /\ InOrder /\ Memory

Opens == [Scopes -> OpenOutage \cup {Null}]
Tables == [samples : SUBSET Times, vantages : SUBSET Times, changes : SUBSET Change,
           outages : SUBSET OutageRow]

-----------------------------------------------------------------------------
(* Numbers. *)

\* A set of natural numbers has a least one.
LEMMA LeastNat ==
  ASSUME NEW T, T \subseteq Nat, T # {}
  PROVE  \E x \in T : \A y \in T : x <= y
<1> DEFINE R == OpToRel(<, Nat)
<1>1. IsWellFoundedOn(R, Nat)
  BY NatLessThanWellFounded
<1>2. \A x, y \in Nat : y < x => <<y, x>> \in R
  BY DEF OpToRel
<1> HIDE DEF R
<1>3. PICK x \in T : \A y \in T : ~ (<<y, x>> \in R)
  BY <1>1, WFMin
<1>4. \A y \in T : ~ (y < x)
  BY <1>2, <1>3
<1>5. \A a, b \in Nat : ~ (b < a) => a <= b
  OBVIOUS
<1> QED BY <1>4, <1>5

\* A set of numbers that has a bound has a greatest one.
LEMMA MaxFacts ==
  ASSUME NEW n \in Nat, NEW T, T \subseteq 0..n, T # {}
  PROVE  Max(T) \in T /\ \A y \in T : Max(T) >= y
<1> DEFINE D == {n - x : x \in T}
<1>1. \A x \in T : x \in Nat /\ n - x \in Nat
  OBVIOUS
<1>2. D \subseteq Nat /\ D # {}
  BY <1>1
<1>3. \E d \in D : \A y \in D : d <= y
  BY <1>2, LeastNat
<1>4. \E x \in T : \A y \in T : x >= y
  <2> PICK d \in D : \A y \in D : d <= y
    BY <1>3
  <2> PICK x \in T : d = n - x
    OBVIOUS
  <2>1. \A y \in T : n - x <= n - y
    OBVIOUS
  <2> QED BY <2>1
<1> QED BY <1>4 DEF Max

-----------------------------------------------------------------------------
(* The outage state machine. *)

\* What one of its steps leaves, field by field.
LEMMA MachineStep ==
  ASSUME NEW open, NEW outages, NEW S, S = [open |-> open, outages |-> outages],
         NEW scope, NEW o, NEW rows, NEW E, E = [S EXCEPT !.open[scope] = o, !.outages = rows]
  PROVE  /\ E = [open |-> [open EXCEPT ![scope] = o], outages |-> rows]
         /\ E.open = [open EXCEPT ![scope] = o] /\ E.outages = rows
<1>1. E = [open |-> [open EXCEPT ![scope] = o], outages |-> rows]
  OBVIOUS
<1> QED BY <1>1

\* Its memory and the table stay in step, whatever a scope is fed.
LEMMA EvaluateFacts ==
  ASSUME NEW open \in Opens, NEW outages \in SUBSET OutageRow, InStep(open, outages),
         NEW S, S = [open |-> open, outages |-> outages],
         NEW scope \in Scopes, NEW t \in Times
  PROVE  LET E == EvaluateScope(S, scope, t)
         IN /\ E.open \in Opens /\ E.outages \in SUBSET OutageRow /\ InStep(E.open, E.outages)
            /\ E = [open |-> E.open, outages |-> E.outages]
<1> DEFINE Good(E) == /\ E.open \in Opens /\ E.outages \in SUBSET OutageRow
                      /\ InStep(E.open, E.outages)
                      /\ E = [open |-> E.open, outages |-> E.outages]
<1>0. Null \notin Nat /\ Null \notin Times /\ t \in Nat
  BY PipelineAssumption DEF Times
<1>1. \A o \in OpenOutage : o = [startedAt |-> o.startedAt, lastTs |-> o.lastTs, cycles |-> o.cycles]
                            /\ o.startedAt \in Times /\ o.lastTs \in Times /\ o.cycles \in Nat
                            /\ o # Null
  <2> TAKE o \in OpenOutage
  <2>1. o \in [startedAt : Nat, lastTs : Nat, cycles : Nat]
    BY DEF OpenOutage, Times
  <2> QED BY <2>1, PipelineAssumption DEF OpenOutage
<1>2. ASSUME NEW o \in OpenOutage, NEW end \in Times \cup {Null}
      PROVE  LET r == Row(scope, o, end)
             IN r \in OutageRow /\ r.scope = scope /\ r.startedAt = o.startedAt /\ r.endedAt = end
  BY <1>1 DEF Row, OutageRow
<1>3. CASE open[scope] = Null
  <2>1. Ongoing(outages, scope) = {}
    BY <1>3 DEF InStep, Remembered
  <2> DEFINE o == [startedAt |-> t, lastTs |-> t, cycles |-> 1]
  <2> PICK E : E = Opened(S, scope, t)
    OBVIOUS
  <2>2. E = [S EXCEPT !.open[scope] = o, !.outages = outages \cup {Row(scope, o, Null)}]
    BY DEF Opened
  <2>3. o \in OpenOutage
    BY DEF OpenOutage
  <2>4. Good(E)
    <3> DEFINE r == Row(scope, o, Null)
    <3>1. r \in OutageRow /\ r.scope = scope /\ r.endedAt = Null
      BY <1>2, <2>3
    <3> HIDE DEF o, r
    <3>2. /\ E.open = [open EXCEPT ![scope] = o] /\ E.outages = outages \cup {r}
          /\ E = [open |-> E.open, outages |-> E.outages]
      BY <2>2, MachineStep DEF r
    <3>3. E.open \in Opens /\ E.open[scope] = o /\ \A s \in Scopes : s # scope => E.open[s] = open[s]
      BY <2>3, <3>2 DEF Opens
    <3>4. ASSUME NEW s \in Scopes PROVE Ongoing(E.outages, s) = Remembered(E.open, s)
      <4>1. CASE s = scope
        BY <1>1, <2>1, <2>3, <3>1, <3>2, <3>3, <4>1 DEF Ongoing, Remembered, r
      <4>2. CASE s # scope
        <5>1. Ongoing(E.outages, s) = Ongoing(outages, s)
          BY <3>1, <3>2, <4>2 DEF Ongoing
        <5>2. Remembered(E.open, s) = Remembered(open, s)
          BY <3>3, <4>2 DEF Remembered
        <5> QED BY <5>1, <5>2 DEF InStep
      <4> QED BY <4>1, <4>2
    <3> QED BY <3>1, <3>2, <3>3, <3>4 DEF InStep
  <2>5. EvaluateScope(S, scope, t) \in {S, E}
    BY <1>3 DEF EvaluateScope
  <2> HIDE DEF Good
  <2>6. Good(S)
    BY DEF Good
  <2> QED BY <2>4, <2>5, <2>6 DEF Good
<1>4. CASE open[scope] # Null
  <2> DEFINE p == open[scope]
  <2>1. p \in OpenOutage
    BY <1>4 DEF Opens
  <2>2. Ongoing(outages, scope) = {Row(scope, p, Null)}
    BY <1>4 DEF InStep, Remembered
  <2>3. ASSUME NEW o \in OpenOutage, o.startedAt = p.startedAt
        PROVE  /\ Others(S, scope, o) \subseteq outages
               /\ Ongoing(Others(S, scope, o), scope) = {}
               /\ \A s \in Scopes \ {scope} : Ongoing(Others(S, scope, o), s) = Ongoing(outages, s)
    <3> DEFINE r == Row(scope, p, Null)
    <3>1. r.scope = scope /\ r.startedAt = o.startedAt
      BY <2>1, <2>3, <1>2
    <3> HIDE DEF r
    <3>2. Ongoing(outages, scope) = {r}
      BY <2>2 DEF r
    <3> QED BY <3>1, <3>2 DEF Others, Ongoing
  <2>4. Good(Extended(S, scope, t))
    <3> PICK E : E = Extended(S, scope, t)
      OBVIOUS
    <3> PICK o : o = [p EXCEPT !.lastTs = t, !.cycles = @ + 1]
      OBVIOUS
    <3> DEFINE r == Row(scope, o, Null)
    <3>1. o \in OpenOutage /\ o.startedAt = p.startedAt
      <4>1. p = [startedAt |-> p.startedAt, lastTs |-> p.lastTs, cycles |-> p.cycles]
            /\ p.startedAt \in Times /\ p.cycles \in Nat
        BY <2>1, <1>1
      <4> HIDE DEF p
      <4>2. o = [startedAt |-> p.startedAt, lastTs |-> t, cycles |-> p.cycles + 1]
        BY <4>1
      <4> QED BY <4>1, <4>2 DEF OpenOutage
    <3>2. E = [S EXCEPT !.open[scope] = o, !.outages = Others(S, scope, o) \cup {r}]
      BY DEF Extended
    <3>3. r \in OutageRow /\ r.scope = scope /\ r.endedAt = Null
      BY <3>1, <1>2
    <3> HIDE DEF r, p
    <3>4. /\ E.open = [open EXCEPT ![scope] = o] /\ E.outages = Others(S, scope, o) \cup {r}
          /\ E = [open |-> E.open, outages |-> E.outages]
      BY <3>2, MachineStep
    <3>5. E.open \in Opens /\ E.open[scope] = o /\ \A s \in Scopes : s # scope => E.open[s] = open[s]
      BY <3>1, <3>4 DEF Opens
    <3>6. ASSUME NEW s \in Scopes PROVE Ongoing(E.outages, s) = Remembered(E.open, s)
      <4>1. CASE s = scope
        <5>1. Ongoing(E.outages, s) = {r}
          BY <2>3, <3>1, <3>3, <3>4, <4>1 DEF Ongoing
        <5>2. Remembered(E.open, s) = {r}
          BY <1>1, <3>1, <3>5, <4>1 DEF Remembered, r
        <5> QED BY <5>1, <5>2
      <4>2. CASE s # scope
        <5>1. Ongoing(E.outages, s) = Ongoing(Others(S, scope, o), s)
          BY <3>3, <3>4, <4>2 DEF Ongoing
        <5>2. Remembered(E.open, s) = Remembered(open, s)
          BY <3>5, <4>2 DEF Remembered
        <5> QED BY <2>3, <3>1, <4>2, <5>1, <5>2 DEF InStep
      <4> QED BY <4>1, <4>2
    <3> QED BY <2>3, <3>1, <3>3, <3>4, <3>5, <3>6 DEF InStep
  <2>5. Good(Closed(S, scope, t))
    <3> PICK E : E = Closed(S, scope, t)
      OBVIOUS
    <3> DEFINE r == Row(scope, p, t)
    <3>1. E = [S EXCEPT !.open[scope] = Null, !.outages = Others(S, scope, p) \cup {r}]
      BY DEF Closed
    <3>2. r \in OutageRow /\ r.scope = scope /\ r.endedAt = t
      BY <2>1, <1>2
    <3> HIDE DEF r, p
    <3>3. /\ E.open = [open EXCEPT ![scope] = Null] /\ E.outages = Others(S, scope, p) \cup {r}
          /\ E = [open |-> E.open, outages |-> E.outages]
      BY <3>1, MachineStep
    <3>4. E.open \in Opens /\ E.open[scope] = Null /\ \A s \in Scopes : s # scope => E.open[s] = open[s]
      BY <3>3 DEF Opens
    <3>5. ASSUME NEW s \in Scopes PROVE Ongoing(E.outages, s) = Remembered(E.open, s)
      <4>0. Ongoing(E.outages, s) = Ongoing(Others(S, scope, p), s)
        BY <1>0, <3>2, <3>3 DEF Ongoing
      <4>1. CASE s = scope
        BY <2>1, <2>3, <3>4, <4>0, <4>1 DEF Remembered
      <4>2. CASE s # scope
        <5>2. Remembered(E.open, s) = Remembered(open, s)
          BY <3>4, <4>2 DEF Remembered
        <5> QED BY <2>1, <2>3, <4>0, <4>2, <5>2 DEF InStep
      <4> QED BY <4>1, <4>2
    <3> QED BY <2>1, <2>3, <3>2, <3>3, <3>4, <3>5 DEF InStep
  <2>6. EvaluateScope(S, scope, t) \in {S, Extended(S, scope, t), Closed(S, scope, t)}
    BY <1>4 DEF EvaluateScope
  <2> HIDE DEF Good
  <2>7. Good(S)
    BY DEF Good
  <2>8. Good(EvaluateScope(S, scope, t))
    BY <2>4, <2>5, <2>6, <2>7
  <2> QED BY <2>8 DEF Good
<1> QED BY <1>3, <1>4

\* At most one row is going on while the machine is in step with the table.
LEMMA InStepSingle == ASSUME NEW open, NEW outages, InStep(open, outages) PROVE Single(outages)
  BY DEF InStep, Single, Remembered

\* A machine that starts on a table with at most one open row for a scope is in step with it.
LEMMA LoadedFacts ==
  ASSUME NEW outages \in SUBSET OutageRow, Single(outages)
  PROVE  Loaded(outages) \in Opens /\ InStep(Loaded(outages), outages)
<1>1. ASSUME NEW s \in Scopes
      PROVE  /\ Loaded(outages)[s] \in OpenOutage \cup {Null}
             /\ Ongoing(outages, s) = Remembered(Loaded(outages), s)
  <2> DEFINE f == Loaded(outages)
             ongoing == {r \in outages : r.scope = s /\ r.endedAt = Null}
  <2>1. CASE ongoing = {}
    <3>1. f[s] = Null
      BY <2>1 DEF Loaded
    <3> QED BY <2>1, <3>1 DEF Remembered, Ongoing
  <2>2. CASE ongoing # {}
    <3> DEFINE r == CHOOSE r \in ongoing : TRUE
    <3>1. r \in ongoing
      BY <2>2
    <3>2. ongoing = {r}
      BY <3>1 DEF Single, Ongoing
    <3>3. f[s] = [startedAt |-> r.startedAt, lastTs |-> r.startedAt, cycles |-> r.cycles]
      BY <2>2 DEF Loaded
    <3> HIDE DEF f, r
    <3>4. r \in OutageRow /\ r.scope = s /\ r.endedAt = Null
      BY <3>1
    <3> HIDE DEF ongoing
    <3>5. /\ r = [scope |-> s, startedAt |-> r.startedAt, endedAt |-> Null, cycles |-> r.cycles]
          /\ r.startedAt \in Times /\ r.cycles \in Nat
      BY <3>4 DEF OutageRow
    <3>6. f[s] \in OpenOutage
      BY <3>3, <3>5 DEF OpenOutage
    <3>7. f[s] # Null
      <4>1. f[s] \in [startedAt : Nat, lastTs : Nat, cycles : Nat]
        BY <3>6 DEF OpenOutage, Times
      <4> QED BY <4>1, PipelineAssumption
    <3>8. Row(s, f[s], Null) = r
      BY <3>3, <3>5 DEF Row
    <3> QED BY <3>2, <3>6, <3>7, <3>8 DEF Remembered, Ongoing, f, ongoing
  <2> QED BY <2>1, <2>2
<1>2. Loaded(outages) = [s \in Scopes |-> Loaded(outages)[s]]
  BY DEF Loaded
<1> QED BY <1>1, <1>2 DEF Opens, InStep

\* Nothing remembered.
LEMMA NoneOpenFacts == NoneOpen \in Opens
  BY DEF NoneOpen, Opens

-----------------------------------------------------------------------------
(* The ingest handler. *)

\* A link change is one between two vantages that are there.
LEMMA ChangeAtFacts ==
  ASSUME line \in [Times -> Lines], NEW rows \in SUBSET Times, NEW t \in Times
  PROVE  ChangeAt(rows, t) \in SUBSET Change /\ \A c \in ChangeAt(rows, t) : c.ts = t
<1> DEFINE before == {u \in rows : u < t}
           p == line[Max(before)].vantage
           q == line[t].vantage
<1>1. \A u \in Times : line[u].vantage \in STRING
  BY PipelineAssumption DEF Measurement
<1>2. CASE before = {}
  <2>1. ChangeAt(rows, t) = {}
    BY <1>2 DEF ChangeAt
  <2> QED BY <2>1
<1>3. CASE before # {}
  <2>0. MaxTime \in Nat /\ Times \subseteq 0..MaxTime
    BY PipelineAssumption DEF Times
  <2>1. before \subseteq 0..MaxTime /\ before \subseteq Times /\ MaxTime \in Nat
    BY <2>0
  <2>2. Max(before) \in before
    BY <1>3, <2>1, MaxFacts
  <2>3. p \in STRING /\ q \in STRING
    BY <1>1, <2>1, <2>2
  <2>4. ChangeAt(rows, t) \subseteq {[ts |-> t, before |-> p, after |-> q]}
    BY DEF ChangeAt
  <2> HIDE DEF p, q
  <2>5. [ts |-> t, before |-> p, after |-> q] \in Change
    BY <2>3 DEF Change
  <2> QED BY <2>4, <2>5
<1> QED BY <1>2, <1>3

\* What the first k writes of a new batch leave.
LEMMA WrittenFacts ==
  ASSUME TypeOK, Memory, srv.up, NEW t \in Times, NEW k \in 0..Writes
  PROVE  LET w == Written(t, k)
         IN /\ w.open \in Opens /\ w.db \in Tables /\ InStep(w.open, w.db.outages)
            /\ w.db.samples = IF k >= 1 THEN db.samples \cup {t} ELSE db.samples
            /\ w.db.vantages =
                 IF k >= 2 /\ line[t].vantage # "absent" THEN db.vantages \cup {t} ELSE db.vantages
            /\ w.db.changes =
                 IF k >= 3 /\ line[t].vantage # "absent" THEN db.changes \cup ChangeAt(db.vantages, t)
                 ELSE db.changes
<1> DEFINE Good(E) == /\ E.open \in Opens /\ E.outages \in SUBSET OutageRow
                      /\ InStep(E.open, E.outages)
                      /\ E = [open |-> E.open, outages |-> E.outages]
<1>1. /\ line \in [Times -> Lines]
      /\ db.samples \in SUBSET Times /\ db.vantages \in SUBSET Times
      /\ db.changes \in SUBSET Change /\ db.outages \in SUBSET OutageRow
      /\ srv.open \in Opens /\ InStep(srv.open, db.outages)
  BY DEF TypeOK, Opens, Memory
<1> PICK S : S = [open |-> srv.open, outages |-> db.outages]
  OBVIOUS
<1> PICK G : G = IF k >= 4 THEN EvaluateScope(S, "gateway", t) ELSE S
  OBVIOUS
<1> PICK W : W = IF k >= 5 THEN EvaluateScope(G, "wan", t) ELSE G
  OBVIOUS
<1>2. Good(S)
  BY <1>1
<1>3. ASSUME NEW E, Good(E), NEW s \in Scopes PROVE Good(EvaluateScope(E, s, t))
  BY <1>3, EvaluateFacts
<1>4. Good(G)
  BY <1>2, <1>3 DEF Scopes
<1>5. Good(W)
  BY <1>4, <1>3 DEF Scopes
<1> HIDE DEF Good
<1> DEFINE vantage == line[t].vantage # "absent"
           samples == IF k >= 1 THEN db.samples \cup {t} ELSE db.samples
           vantages == IF k >= 2 /\ vantage THEN db.vantages \cup {t} ELSE db.vantages
           changes == IF k >= 3 /\ vantage THEN db.changes \cup ChangeAt(db.vantages, t) ELSE db.changes
<1>6. Written(t, k) = [open |-> W.open,
         db |-> [samples |-> samples, vantages |-> vantages, changes |-> changes, outages |-> W.outages]]
  BY Zenon DEF Written
<1>7. samples \in SUBSET Times /\ vantages \in SUBSET Times /\ changes \in SUBSET Change
  BY <1>1, ChangeAtFacts
<1> HIDE DEF samples, vantages, changes
<1>8. /\ Written(t, k).open = W.open /\ Written(t, k).db.outages = W.outages
      /\ Written(t, k).db.samples = samples /\ Written(t, k).db.vantages = vantages
      /\ Written(t, k).db.changes = changes
      /\ Written(t, k).db \in Tables
  <2>1. W.outages \in SUBSET OutageRow
    BY <1>5 DEF Good
  <2> QED BY <1>6, <1>7, <2>1 DEF Tables
<1>9. W.open \in Opens /\ InStep(W.open, W.outages)
  BY <1>5 DEF Good
<1> QED BY <1>8, <1>9 DEF samples, vantages, changes

\* A batch is new to the record when it is stored, and what is older is stored or let go of.
LEMMA PutFacts ==
  ASSUME PipeInv, srv.up, NEW t \in net, t \notin db.samples, NEW k \in 0..Writes, Put(t, k)
  PROVE  /\ db' \in Tables /\ belated' \subseteq Times /\ belated' \subseteq gaveUp
         /\ applied' \in [Scopes -> SUBSET Times]
         /\ db.samples \subseteq db'.samples /\ db'.samples \subseteq db.samples \cup {t}
         /\ k >= 1 => t \in db'.samples
         /\ Written(t, k).open \in Opens /\ InStep(Written(t, k).open, db'.outages)
<1>1. t \in Times /\ TypeOK /\ Memory /\ t \in Nat
  BY DEF PipeInv, TypeOK, Times
<1>2. db' = Written(t, k).db
  BY DEF Put
<1>3. /\ db' \in Tables
      /\ db'.samples = IF k >= 1 THEN db.samples \cup {t} ELSE db.samples
      /\ Written(t, k).open \in Opens /\ InStep(Written(t, k).open, db'.outages)
  BY <1>1, <1>2, WrittenFacts
<1>4. ASSUME NEW u \in db.samples, u > t PROVE t \in gaveUp
  <2>1. u \in Nat
    BY <1>1 DEF TypeOK, Times
  <2>2. t \in 1..(u - 1)
    BY <1>1, <1>4, <2>1 DEF Times
  <2> QED BY <2>2 DEF PipeInv, Settled
<1>5. belated' \subseteq belated \cup {t}
  BY DEF Put
<1>6. belated' \subseteq gaveUp
  <2>1. CASE \E u \in db.samples : u > t
    BY <1>4, <1>5, <2>1 DEF PipeInv, InOrder
  <2>2. CASE ~\E u \in db.samples : u > t
    <3>1. belated' = belated
      BY <2>2 DEF Put
    <3> QED BY <3>1 DEF PipeInv, InOrder
  <2> QED BY <2>1, <2>2
<1>7. applied' \in [Scopes -> SUBSET Times]
  BY <1>1 DEF Put, TypeOK, Scopes
<1> QED BY <1>1, <1>3, <1>5, <1>6, <1>7 DEF TypeOK

-----------------------------------------------------------------------------
(* The collector's hand and its file. *)

ColShape == [up : BOOLEAN, pc : {"idle", "sending", "waiting"}, current : Times \cup {Null},
             todo : Seq(Times), count : Nat]

\* What the collector has a part in.
Collects == /\ now \in 0..MaxTime /\ spool \in Seq(Times \cup {Torn}) /\ col \in ColShape
            /\ gaveUp \subseteq Times
            /\ Hand /\ Files /\ NothingLost

\* In front of a sequence there is the least of it.
LEMMA OrderedTail ==
  ASSUME NEW s \in Seq(Times), s # <<>>, Ordered(s)
  PROVE  Ordered(Tail(s)) /\ \A t \in ToSet(s) : Head(s) <= t
<1>1. /\ Head(s) = s[1] /\ Tail(s) \in Seq(Times) /\ Len(s) \in Nat \ {0}
      /\ Len(Tail(s)) = Len(s) - 1 /\ \A k \in 1..Len(s) - 1 : Tail(s)[k] = s[k + 1]
  BY TailFacts
<1>2. \A k \in 1..Len(s) : s[k] \in Times /\ s[k] \in Nat /\ s[k] # Torn
  BY SeqFacts, PipelineAssumption DEF Times
<1>3. ASSUME NEW i \in 1..Len(Tail(s)), NEW j \in 1..Len(Tail(s)), i < j
      PROVE  Tail(s)[i] # Torn /\ (Tail(s)[j] # Torn => Tail(s)[i] <= Tail(s)[j])
  <2>1. i + 1 \in 1..Len(s) /\ j + 1 \in 1..Len(s) /\ i + 1 < j + 1
    BY <1>1, <1>3
  <2>2. Tail(s)[i] = s[i + 1] /\ Tail(s)[j] = s[j + 1]
    BY <1>1
  <2> QED BY <2>1, <2>2 DEF Ordered
<1>4. ASSUME NEW t \in ToSet(s) PROVE Head(s) <= t
  <2>1. PICK k \in 1..Len(s) : s[k] = t
    BY SeqFacts
  <2>2. 1 \in 1..Len(s)
    BY <1>1
  <2>3. k = 1 \/ 1 < k
    BY <1>1
  <2> QED BY <1>1, <1>2, <2>1, <2>2, <2>3 DEF Ordered
<1> QED BY <1>3, <1>4 DEF Ordered

\* A newer cycle, or a torn line, goes behind.
LEMMA OrderedAppend ==
  ASSUME NEW s \in Seq(Times), Ordered(s), NEW e \in Times \cup {Torn},
         e # Torn => \A t \in ToSet(s) : t <= e
  PROVE  Ordered(Append(s, e))
<1> DEFINE a == Append(s, e)
<1>1. s \in Seq(Times \cup {Torn})
  BY SeqMonotonic
<1>2. /\ Len(a) = Len(s) + 1 /\ Len(s) \in Nat
      /\ \A k \in 1..Len(s) : a[k] = s[k]
      /\ a[Len(s) + 1] = e
  BY <1>1, AppendFacts
<1>3. \A k \in 1..Len(s) : s[k] \in Times /\ s[k] # Torn /\ s[k] \in ToSet(s)
  BY SeqFacts, PipelineAssumption DEF Times
<1> HIDE DEF a
<1>4. ASSUME NEW i \in 1..Len(a), NEW j \in 1..Len(a), i < j
      PROVE  a[i] # Torn /\ (a[j] # Torn => a[i] <= a[j])
  <2>1. i \in 1..Len(s) /\ (j \in 1..Len(s) \/ j = Len(s) + 1)
    BY <1>2, <1>4
  <2> QED BY <1>2, <1>3, <1>4, <2>1 DEF Ordered
<1> QED BY <1>4 DEF Ordered, a

\* What happens elsewhere takes nothing from it.
LEMMA Untouched ==
  ASSUME Collects, db \in Tables, db' \in Tables, db.samples \subseteq db'.samples,
         UNCHANGED <<now, spool, col, gaveUp>>
  PROVE  Collects'
  BY DEF Collects, Hand, Files, Ordered, NothingLost

\* A batch that was accepted is out of its hands.
LEMMA AcceptedFacts ==
  ASSUME Collects, db.samples \subseteq db'.samples, NEW t \in db'.samples, Waiting(t),
         Accepted, UNCHANGED <<now, gaveUp>>
  PROVE  Collects'
<1>1. /\ col = [up |-> col.up, pc |-> col.pc, current |-> col.current, todo |-> col.todo, count |-> col.count]
      /\ col.up \in BOOLEAN /\ col.current \in Times \cup {Null} /\ col.todo \in Seq(Times)
      /\ col.count \in Nat /\ col.pc = "waiting"
      /\ col.current = now /\ now \in Times /\ Torn \notin ToSet(spool)
  BY DEF Collects, ColShape, Waiting, Hand
<1>2. CASE col.todo = <<>>
  <2>1. col' = [col EXCEPT !.pc = "idle", !.current = Null] /\ spool' = spool /\ spool = <<>> /\ t = now
    BY <1>1, <1>2 DEF Accepted, Waiting, Sending, Collects, Files
  <2>2. col' = [up |-> col.up, pc |-> "idle", current |-> Null, todo |-> <<>>, count |-> col.count]
    BY <1>1, <1>2, <2>1
  <2>3. col' \in ColShape /\ col'.pc = "idle" /\ col'.current = Null /\ col'.todo = <<>>
    BY <1>1, <1>2, <2>2 DEF ColShape
  <2>4. Hand'
    BY <2>3 DEF Hand
  <2>5. Files'
    BY <1>2, <2>1, <2>3 DEF Files, Collects, Ordered
  <2>6. NothingLost'
    BY <1>1, <2>1, <2>3 DEF NothingLost, Collects
  <2> QED BY <2>1, <2>3, <2>4, <2>5, <2>6 DEF Collects
<1>3. CASE col.todo # <<>>
  <2> DEFINE rest == Tail(col.todo)
  <2>1. /\ t = Head(col.todo)
        /\ col' = [col EXCEPT !.pc = "sending", !.todo = rest, !.count = IF rest = <<>> THEN 0 ELSE @]
        /\ spool' = IF rest = <<>> THEN <<>> ELSE spool
    BY <1>1, <1>3 DEF Accepted, Waiting, Sending
  <2>2. rest \in Seq(Times) /\ ToSet(col.todo) = {t} \cup ToSet(rest) /\ Ordered(rest)
    BY <1>1, <1>3, <2>1, TailFacts, OrderedTail DEF Collects, Files
  <2> HIDE DEF rest
  <2>3. col' = [up |-> col.up, pc |-> "sending", current |-> now, todo |-> rest,
                count |-> IF rest = <<>> THEN 0 ELSE col.count]
    BY <1>1, <2>1
  <2>4. col' \in ColShape /\ col'.pc = "sending" /\ col'.current = now /\ col'.todo = rest /\ col'.up = col.up
    BY <1>1, <2>2, <2>3 DEF ColShape
  <2>5. ToSet(spool) \subseteq {t} \cup ToSet(rest) \cup db.samples
    BY <1>3, <2>2 DEF Collects, Files
  <2>6. spool' \in Seq(Times \cup {Torn}) /\ ToSet(spool') \subseteq ToSet(spool)
    BY <2>1, EmptyFacts DEF Collects
  <2>7. ToSet(spool) \subseteq db'.samples \cup ToSet(spool')
    <3>1. CASE rest = <<>>
      BY <2>5, <3>1, EmptyFacts
    <3>2. CASE rest # <<>>
      BY <2>1, <3>2
    <3> QED BY <3>1, <3>2
  <2>8. Hand'
    BY <1>1, <2>4, <2>6, Zenon DEF Hand, Waiting
  <2>9. Files'
    <3>1. Ordered(spool)' /\ Ordered(col.todo)'
      <4>1. Ordered(<<>>)
        BY EmptyFacts DEF Ordered
      <4> QED BY <2>1, <2>2, <2>4, <4>1 DEF Collects, Files, Ordered
    <3>2. \A u \in (ToSet(spool') \ {Torn}) \cup ToSet(col'.todo) : u <= now'
      BY <2>2, <2>4, <2>6 DEF Collects, Files
    <3>3. ToSet(spool') \subseteq ToSet(rest) \cup db'.samples
      BY <2>5, <2>6
    <3>4. rest = <<>> => spool' = <<>>
      BY <2>1
    <3> QED BY <2>4, <3>1, <3>2, <3>3, <3>4 DEF Files
  <2>10. NothingLost'
    BY <1>1, <2>4, <2>7 DEF NothingLost, Collects
  <2> QED BY <2>4, <2>6, <2>8, <2>9, <2>10 DEF Collects
<1> QED BY <1>2, <1>3

\* A batch that was not is written back with all that is behind it, and the new cycle is
\* behind them or let go of.
LEMMA FailedFacts ==
  ASSUME Collects, db.samples \subseteq db'.samples, col.pc # "idle",
         NEW torn \in BOOLEAN, Failed(torn), now' = now
  PROVE  Collects' /\ gaveUp \subseteq gaveUp'
<1>1. /\ col = [up |-> col.up, pc |-> col.pc, current |-> col.current, todo |-> col.todo, count |-> col.count]
      /\ col.up \in BOOLEAN /\ col.todo \in Seq(Times) /\ col.count \in Nat
      /\ col.current = now /\ now \in Times /\ Torn \notin ToSet(spool)
  BY DEF Collects, ColShape, Hand
<1>2. Remainder = col.todo
  BY DEF Remainder, Collects, Files
<1> DEFINE count == IF col.todo = <<>> THEN col.count ELSE Len(col.todo)
<1>3. count \in Nat
  BY <1>1, SeqFacts
<1> DEFINE full == count >= SpoolMax
           last == IF torn THEN Torn ELSE now
<1>4. /\ torn => ~full
      /\ spool' = IF full THEN col.todo ELSE Append(col.todo, last)
      /\ gaveUp' = IF full \/ torn THEN gaveUp \cup {now} ELSE gaveUp
  <2>1. now # Null
    BY <1>1, PipelineAssumption DEF Times
  <2> QED BY <1>1, <1>2, <2>1 DEF Failed, DropCurrent
<1>5. col' \in ColShape /\ col'.pc = "idle" /\ col'.current = Null /\ col'.todo = <<>>
  <2>1. CASE torn
    <3>1. col' = DeadCol
      BY <2>1 DEF Failed
    <3> QED BY <3>1, EmptyFacts DEF DeadCol, ColShape
  <2>2. CASE ~torn
    <3> DEFINE c == IF full THEN count ELSE count + 1
    <3>1. c \in Nat /\ col' = [col EXCEPT !.pc = "idle", !.current = Null, !.todo = <<>>, !.count = c]
      BY <1>3, <2>2 DEF Failed
    <3> HIDE DEF c
    <3>2. col' = [up |-> col.up, pc |-> "idle", current |-> Null, todo |-> <<>>, count |-> c]
      BY <1>1, <3>1
    <3> QED BY <1>1, <3>1, <3>2, EmptyFacts DEF ColShape
  <2> QED BY <2>1, <2>2
<1> HIDE DEF full, count
<1>6. /\ ToSet(spool) \subseteq ToSet(col.todo) \cup db.samples
      /\ \A u \in ToSet(col.todo) : u <= now /\ u \in Times
      /\ Ordered(col.todo)
  <2>1. CASE col.todo = <<>>
    BY <1>1, <2>1, EmptyFacts, SeqFacts DEF Collects, Files
  <2>2. CASE col.todo # <<>>
    BY <1>1, <2>2, SeqFacts DEF Collects, Files
  <2> QED BY <2>1, <2>2
<1>7. last \in Times \cup {Torn} /\ (last # Torn => last = now) /\ (~torn => last = now)
  BY <1>1
<1> HIDE DEF last
<1>8. col.todo \in Seq(Times \cup {Torn})
  BY <1>1, SeqMonotonic
<1>9. /\ spool' \in Seq(Times \cup {Torn}) /\ Ordered(spool')
      /\ ToSet(spool') = IF full THEN ToSet(col.todo) ELSE ToSet(col.todo) \cup {last}
  <2>1. CASE full
    BY <1>4, <1>6, <1>8, <2>1
  <2>2. CASE ~full
    <3>1. Ordered(Append(col.todo, last))
      BY <1>1, <1>6, <1>7, OrderedAppend
    <3>2. /\ Append(col.todo, last) \in Seq(Times \cup {Torn})
          /\ ToSet(Append(col.todo, last)) = ToSet(col.todo) \cup {last}
      BY <1>7, <1>8, AppendFacts
    <3> QED BY <1>4, <2>2, <3>1, <3>2
  <2> QED BY <2>1, <2>2
<1>10. Hand'
  BY <1>5 DEF Hand
<1>11. Files'
  <2>1. Ordered(col.todo)' /\ ToSet(col'.todo) = {}
    BY <1>5, EmptyFacts DEF Ordered
  <2>2. \A u \in ToSet(spool') \ {Torn} : u <= now
    BY <1>1, <1>6, <1>7, <1>9 DEF Times
  <2> QED BY <1>5, <1>9, <2>1, <2>2 DEF Files, Ordered
<1>12. NothingLost'
  <2>1. ASSUME NEW u \in 1..now' PROVE u \in db'.samples \cup ToSet(spool') \cup gaveUp'
    <3>1. u \in db.samples \cup ToSet(spool) \cup gaveUp \/ u = now
      BY <1>1 DEF Collects, NothingLost
    <3>2. CASE u = now
      BY <1>4, <1>7, <1>9, <3>2
    <3>3. CASE u # now
      BY <1>4, <1>6, <1>9, <3>1, <3>3
    <3> QED BY <3>2, <3>3
  <2> QED BY <2>1 DEF NothingLost
<1> QED BY <1>1, <1>4, <1>5, <1>9, <1>10, <1>11, <1>12 DEF Collects

-----------------------------------------------------------------------------
(* The invariant. *)

LEMMA CollectsFacts == ASSUME PipeInv PROVE Collects
  BY DEF PipeInv, TypeOK, Collects, ColShape

\* What is neither the collector's nor the record's keeps its shape.
Frame == /\ line \in [Times -> Lines] /\ allowed \subseteq Allowed /\ net \subseteq Times
         /\ srv \in [up : BOOLEAN, open : Opens] /\ db \in Tables
         /\ faults \in 0..MaxFaults /\ belated \subseteq Times /\ applied \in [Scopes -> SUBSET Times]

LEMMA FrameFacts == ASSUME PipeInv PROVE Frame
  BY DEF PipeInv, TypeOK, Frame, Opens, Tables

LEMMA WholeInv == ASSUME Collects, Frame, Settled, InOrder, Memory PROVE PipeInv
  BY DEF PipeInv, TypeOK, Collects, ColShape, Frame, Opens, Tables

\* Nothing comes to the record that was not sent, and what was let go of stays so.
LEMMA SettledKept ==
  ASSUME Settled, net' \subseteq net \cup db.samples, db'.samples \subseteq db.samples \cup net,
         db.samples \subseteq db'.samples, gaveUp \subseteq gaveUp'
  PROVE  Settled'
  BY DEF Settled

\* Faults are counted.
LEMMA FaultyFacts == ASSUME Frame, Faulty \/ UNCHANGED faults PROVE faults' \in 0..MaxFaults
  BY PipelineAssumption DEF Frame, Faulty

LEMMA InitInv == Init => PipeInv
<1> SUFFICES ASSUME Init PROVE PipeInv
  OBVIOUS
<1>1. db = [samples |-> {}, vantages |-> {}, changes |-> {}, outages |-> {}]
      /\ db.samples = {} /\ db.outages = {}
  BY DEF Init
<1>2. srv = [up |-> TRUE, open |-> NoneOpen] /\ srv.open = NoneOpen
  BY DEF Init
<1>3. col = [up |-> TRUE, pc |-> "idle", current |-> Null, todo |-> <<>>, count |-> 0]
  BY DEF Init, DeadCol
<1>4. Collects
  <2>1. col \in ColShape /\ col.pc = "idle" /\ col.current = Null /\ col.todo = <<>>
    BY <1>3, EmptyFacts DEF ColShape
  <2>2. spool = <<>> /\ now = 0 /\ MaxTime \in Nat /\ gaveUp = {}
    BY PipelineAssumption DEF Init
  <2>3. Hand /\ Files
    BY <2>1, <2>2, EmptyFacts DEF Hand, Files, Ordered
  <2> QED BY <2>1, <2>2, <2>3, EmptyFacts DEF Collects, NothingLost
<1>5. Frame
  BY <1>1, <1>2, NoneOpenFacts, PipelineAssumption DEF Init, Frame, Tables
<1>6. Settled /\ InOrder
  BY <1>1 DEF Init, Settled, InOrder
<1>7. Memory
  BY <1>1, <1>2 DEF Memory, Single, InStep, Ongoing, Remembered, NoneOpen
<1> QED BY <1>4, <1>5, <1>6, <1>7, WholeInv

\* With nothing in hand, what is not stored or let go of is in the file.
LEMMA HandEmpty ==
  ASSUME Collects, col.current = Null
  PROVE  \A t \in 1..now : t \in db.samples \cup ToSet(spool) \cup gaveUp
<1>1. \A t \in 1..now : t # Null
  BY PipelineAssumption DEF Collects
<1> QED BY <1>1 DEF Collects, NothingLost

\* Between its measurement and its first batch the collector keeps the file.
LEMMA MeasureInv == ASSUME PipeInv, Measure PROVE PipeInv'
<1>1. Collects /\ Frame
  BY CollectsFacts, FrameFacts
<1>2. /\ now' \in Times /\ now' \in 0..MaxTime /\ now <= now'
      /\ \A t \in 1..now' : t \in 1..now \/ t = now'
  BY <1>1, PipelineAssumption DEF Measure, Times, Collects
<1>3. CASE Torn \in ToSet(spool)
  <2>0. col.current = Null
    BY <1>1 DEF Collects, Hand, Measure
  <2>1. col' = DeadCol /\ gaveUp' = gaveUp \cup {now'} /\ spool' = spool /\ db' = db
    BY <1>3 DEF Measure
  <2>2. col' \in ColShape /\ col'.pc = "idle" /\ col'.current = Null /\ col'.todo = <<>>
    BY <2>1, EmptyFacts DEF DeadCol, ColShape
  <2>3. Hand'
    BY <2>2 DEF Hand
  <2>4. Files'
    <3>1. ToSet(col'.todo) = {} /\ Ordered(col.todo)'
      BY <2>2, EmptyFacts DEF Ordered
    <3>2. \A t \in ToSet(spool) \ {Torn} : t \in Nat /\ t <= now
      BY <1>1, SeqFacts DEF Collects, Files, Times
    <3>3. \A t \in ToSet(spool) \ {Torn} : t <= now'
      BY <1>1, <1>2, <3>2 DEF Collects
    <3> QED BY <1>1, <2>1, <2>2, <3>1, <3>3 DEF Files, Collects, Ordered
  <2>5. NothingLost'
    <3>1. \A t \in 1..now : t \in db.samples \cup ToSet(spool) \cup gaveUp
      BY <1>1, <2>0, HandEmpty
    <3> QED BY <1>2, <2>1, <3>1 DEF NothingLost
  <2>6. gaveUp' \subseteq Times
    BY <1>1, <1>2, <2>1 DEF Collects
  <2>7. Collects'
    BY <1>1, <1>2, <2>1, <2>2, <2>3, <2>4, <2>5, <2>6 DEF Collects
  <2>8. Settled' /\ InOrder' /\ Memory'
    BY <2>1 DEF PipeInv, Settled, InOrder, Memory, Measure
  <2>9. Frame'
    BY <1>1 DEF Frame, Measure
  <2> QED BY <2>7, <2>8, <2>9, WholeInv, PTL
<1>4. CASE Torn \notin ToSet(spool)
  <2> USE DEF Backlog
  <2>0. col.current = Null
    BY <1>1 DEF Collects, Hand, Measure
  <2>1. /\ col = [up |-> col.up, pc |-> col.pc, current |-> col.current, todo |-> col.todo, count |-> col.count]
        /\ col.up \in BOOLEAN /\ col.count \in Nat /\ col.up
    BY <1>1 DEF Collects, ColShape, Measure
  <2>2. col' = [col EXCEPT !.pc = "sending", !.current = now', !.todo = spool]
        /\ gaveUp' = gaveUp /\ spool' = spool /\ db' = db
    BY <1>4 DEF Measure
  <2>3. col' = [up |-> col.up, pc |-> "sending", current |-> now', todo |-> spool, count |-> col.count]
    BY <2>1, <2>2
  <2>4. spool \in Seq(Times)
    <3>1. \A k \in 1..Len(spool) : spool[k] \in Times
      BY <1>1, <1>4, SeqFacts DEF Collects
    <3> QED BY <1>1, <3>1, LenProperties, SeqDef DEF Collects
  <2>5. col' \in ColShape /\ col'.pc = "sending" /\ col'.current = now' /\ col'.todo = spool /\ col'.up
    BY <1>2, <2>1, <2>3, <2>4 DEF ColShape
  <2>6. Hand'
    BY <1>2, <1>4, <2>2, <2>5 DEF Hand
  <2>7. Files'
    <3>1. \A t \in ToSet(spool) : t \in Nat /\ t <= now
      BY <1>1, <1>4, <2>4, SeqFacts DEF Collects, Files, Times
    <3>2. \A t \in ToSet(spool) : t <= now'
      BY <1>1, <1>2, <3>1 DEF Collects
    <3> QED BY <1>1, <2>2, <2>5, <3>2 DEF Files, Collects, Ordered
  <2>8. NothingLost'
    <3>1. \A t \in 1..now : t \in db.samples \cup ToSet(spool) \cup gaveUp
      BY <1>1, <2>0, HandEmpty
    <3> QED BY <1>2, <2>2, <2>5, <3>1 DEF NothingLost
  <2>9. Collects'
    BY <1>1, <1>2, <2>2, <2>5, <2>6, <2>7, <2>8 DEF Collects
  <2>10. Settled' /\ InOrder' /\ Memory'
    BY <2>2 DEF PipeInv, Settled, InOrder, Memory, Measure
  <2>11. Frame'
    BY <1>1 DEF Frame, Measure
  <2> QED BY <2>9, <2>10, <2>11, WholeInv, PTL
<1> QED BY <1>3, <1>4

\* What is sent has only what is stored or let go of before it.
LEMMA SendInv == ASSUME PipeInv, Send PROVE PipeInv'
<1>1. Collects /\ Frame
  BY CollectsFacts, FrameFacts
<1>2. /\ col = [up |-> col.up, pc |-> col.pc, current |-> col.current, todo |-> col.todo, count |-> col.count]
      /\ col \in ColShape /\ col.todo \in Seq(Times) /\ col.pc = "sending"
      /\ col.current = now /\ now \in Times /\ Torn \notin ToSet(spool)
  BY <1>1 DEF Collects, ColShape, Send, Hand
<1>3. /\ col' = [col EXCEPT !.pc = "waiting"] /\ net' = net \cup {Sending}
      /\ spool' = spool /\ db' = db /\ now' = now /\ gaveUp' = gaveUp
  BY DEF Send
<1>4. col' = [up |-> col.up, pc |-> "waiting", current |-> col.current, todo |-> col.todo, count |-> col.count]
  BY <1>2, <1>3
<1>5. /\ col' \in ColShape /\ col'.pc = "waiting" /\ col'.current = col.current /\ col'.todo = col.todo
      /\ (col.up <=> col'.up)
  BY <1>2, <1>4 DEF ColShape
<1>6. Hand' /\ Files' /\ NothingLost'
  BY <1>1, <1>2, <1>3, <1>5 DEF Collects, Hand, Files, NothingLost, Ordered, Send
<1>7. Collects'
  BY <1>1, <1>3, <1>5, <1>6 DEF Collects
<1>8. Sending \in Times /\ Sending <= now /\ \A s \in 1..(Sending - 1) : s \in db.samples \cup gaveUp
  <2>1. CASE col.todo = <<>>
    <3>1. Sending = now /\ spool = <<>> /\ \A s \in 1..(now - 1) : s \in 1..now /\ s # now
      BY <1>1, <1>2, <2>1 DEF Sending, Collects, Files, Times
    <3> QED BY <1>1, <1>2, <3>1, EmptyFacts DEF Collects, NothingLost, Times
  <2>2. CASE col.todo # <<>>
    <3>1. /\ Sending = Head(col.todo) /\ Sending \in Times /\ Sending \in ToSet(col.todo)
          /\ \A t \in ToSet(col.todo) : Sending <= t
          /\ \A t \in ToSet(col.todo) : t <= now /\ t \in Times
      BY <1>1, <1>2, <2>2, TailFacts, SeqFacts, OrderedTail DEF Sending, Collects, Files
    <3>2. ASSUME NEW s \in 1..(Sending - 1) PROVE s \in db.samples \cup gaveUp
      <4>1. s \in 1..now /\ s # now /\ s < Sending
        BY <1>2, <3>1, <3>2 DEF Times
      <4>2. s \notin ToSet(col.todo)
        BY <3>1, <4>1 DEF Times
      <4>3. s \notin ToSet(spool) \/ s \in db.samples
        BY <1>1, <2>2, <4>2 DEF Collects, Files
      <4> QED BY <1>1, <1>2, <4>1, <4>3 DEF Collects, NothingLost
    <3> QED BY <3>1, <3>2
  <2> QED BY <2>1, <2>2
<1>9. Settled'
  BY <1>3, <1>8 DEF PipeInv, Settled
<1>10. InOrder' /\ Memory'
  BY DEF PipeInv, InOrder, Memory, Send
<1>11. Frame'
  BY <1>1, <1>3, <1>8 DEF Frame, Send
<1> QED BY <1>7, <1>9, <1>10, <1>11, WholeInv, PTL

\* No answer in time, or a torn append.
LEMMA FailedInv ==
  ASSUME PipeInv, col.pc = "waiting", NEW torn \in BOOLEAN, Failed(torn),
         Faulty \/ UNCHANGED faults, net' \subseteq net, UNCHANGED <<line, allowed, now, srv, db, belated, applied>>
  PROVE  PipeInv'
<1>1. Collects /\ Frame
  BY CollectsFacts, FrameFacts
<1>2. Collects' /\ gaveUp \subseteq gaveUp'
  BY <1>1, FailedFacts
<1>3. Settled' /\ InOrder' /\ Memory'
  BY <1>2, SettledKept DEF PipeInv, InOrder, Memory
<1>4. faults' \in 0..MaxFaults
  BY <1>1, FaultyFacts
<1>5. Frame'
  BY <1>1, <1>4 DEF Frame
<1> QED BY <1>2, <1>3, <1>5, WholeInv, PTL

LEMMA NoAnswerInv == ASSUME PipeInv, NEW arrived \in BOOLEAN, NoAnswer(arrived) PROVE PipeInv'
  BY FailedInv DEF NoAnswer

LEMMA TornAppendInv == ASSUME PipeInv, TornAppend PROVE PipeInv'
  BY FailedInv DEF TornAppend

\* A collector that starts, or one that dies.
LEMMA CollectorDiesInv == ASSUME PipeInv, NEW arrived \in BOOLEAN, CollectorDies(arrived) PROVE PipeInv'
<1>1. Collects /\ Frame
  BY CollectsFacts, FrameFacts
<1>2. /\ col' = DeadCol /\ gaveUp' = DropCurrent /\ net' \subseteq net
      /\ spool' = spool /\ now' = now /\ db' = db
  BY DEF CollectorDies
<1>3. col' \in ColShape /\ col'.pc = "idle" /\ col'.current = Null /\ col'.todo = <<>>
  BY <1>2, EmptyFacts DEF DeadCol, ColShape
<1>4. gaveUp' = gaveUp \cup ({col.current} \ {Null})
  BY <1>2 DEF DropCurrent
<1>5. gaveUp' \subseteq Times
  BY <1>1, <1>4 DEF Collects, ColShape
<1>6. Hand'
  BY <1>3 DEF Hand
<1>7. Files'
  BY <1>1, <1>2, <1>3, EmptyFacts DEF Collects, Files, Ordered
<1>8. NothingLost'
  <2>1. \A t \in 1..now : t # Null
    BY <1>1, PipelineAssumption DEF Collects
  <2> QED BY <1>1, <1>2, <1>4, <2>1 DEF Collects, NothingLost
<1>9. Collects'
  BY <1>1, <1>2, <1>3, <1>5, <1>6, <1>7, <1>8 DEF Collects
<1>10. Settled' /\ InOrder' /\ Memory'
  BY <1>2, <1>4, SettledKept DEF PipeInv, InOrder, Memory, CollectorDies
<1>11. faults' \in 0..MaxFaults
  BY <1>1, FaultyFacts DEF CollectorDies
<1>12. Frame'
  BY <1>1, <1>2, <1>11 DEF Frame, CollectorDies
<1> QED BY <1>9, <1>10, <1>12, WholeInv, PTL

LEMMA CollectorStartsInv == ASSUME PipeInv, CollectorStarts PROVE PipeInv'
<1>1. Collects /\ Frame
  BY CollectsFacts, FrameFacts
<1>2. Len(spool) \in Nat /\ col.current = Null /\ col.pc = "idle" /\ col.todo = <<>>
  BY <1>1, SeqFacts DEF Collects, Hand, CollectorStarts
<1>3. col' = [up |-> TRUE, pc |-> "idle", current |-> Null, todo |-> <<>>, count |-> Len(spool)]
  BY DEF CollectorStarts, DeadCol
<1>4. col' \in ColShape /\ col'.pc = "idle" /\ col'.current = Null /\ col'.todo = <<>>
  BY <1>2, <1>3, EmptyFacts DEF ColShape
<1>5. Hand' /\ Files' /\ NothingLost'
  BY <1>1, <1>2, <1>4 DEF CollectorStarts, Collects, Hand, Files, NothingLost, Ordered
<1>6. Collects'
  BY <1>1, <1>4, <1>5 DEF Collects, CollectorStarts
<1>7. Settled' /\ InOrder' /\ Memory' /\ Frame'
  BY <1>1 DEF PipeInv, Settled, InOrder, Memory, Frame, CollectorStarts
<1> QED BY <1>6, <1>7, WholeInv, PTL

\* What a handler leaves of the record, whole or cut short, and whether the batch was new.
Recorded(t) ==
  /\ db' \in Tables /\ belated' \subseteq Times /\ belated' \subseteq gaveUp
  /\ applied' \in [Scopes -> SUBSET Times]
  /\ db.samples \subseteq db'.samples /\ db'.samples \subseteq db.samples \cup {t}
  /\ srv' \in [up : BOOLEAN, open : Opens] /\ Memory'

LEMMA BreakFacts ==
  ASSUME PipeInv, srv.up, NEW t \in net, t \notin db.samples, NEW k \in 0..Writes, Put(t, k),
         \/ srv' = [srv EXCEPT !.open = Written(t, k).open]
         \/ srv' = [up |-> FALSE, open |-> NoneOpen]
  PROVE  Recorded(t)
<1>1. /\ db' \in Tables /\ belated' \subseteq Times /\ belated' \subseteq gaveUp
      /\ applied' \in [Scopes -> SUBSET Times]
      /\ db.samples \subseteq db'.samples /\ db'.samples \subseteq db.samples \cup {t}
      /\ Written(t, k).open \in Opens /\ InStep(Written(t, k).open, db'.outages)
  BY PutFacts
<1> PICK open : open = Written(t, k).open
  OBVIOUS
<1>2. Single(db'.outages)
  BY <1>1, InStepSingle
<1>3. srv \in [up : BOOLEAN, open : Opens]
  BY FrameFacts DEF Frame
<1>4. CASE srv' = [srv EXCEPT !.open = open]
  <2>1. srv' = [up |-> srv.up, open |-> open]
    BY <1>3, <1>4
  <2>2. srv' \in [up : BOOLEAN, open : Opens] /\ srv'.open = open
    BY <1>1, <1>3, <2>1
  <2> QED BY <1>1, <1>2, <2>2 DEF Recorded, Memory
<1>5. CASE srv' = [up |-> FALSE, open |-> NoneOpen]
  <2>1. srv' \in [up : BOOLEAN, open : Opens] /\ ~srv'.up
    BY <1>5, NoneOpenFacts
  <2> QED BY <1>1, <1>2, <2>1 DEF Recorded, Memory
<1> QED BY <1>4, <1>5

LEMMA StoreFacts ==
  ASSUME PipeInv, srv.up, NEW t \in net, Store(t)
  PROVE  Recorded(t) /\ t \in db'.samples
<1>1. CASE t \in db.samples
  BY <1>1, FrameFacts DEF Store, Recorded, Frame, PipeInv, InOrder, Memory
<1>2. CASE t \notin db.samples
  <2>1. Put(t, Writes) /\ srv' = [srv EXCEPT !.open = Written(t, Writes).open]
    BY <1>2 DEF Store
  <2>2. Writes \in 0..Writes /\ Writes >= 1
    BY DEF Writes
  <2>3. Recorded(t)
    BY <1>2, <2>1, <2>2, BreakFacts
  <2>4. t \in db'.samples
    BY <1>2, <2>1, <2>2, PutFacts
  <2> QED BY <2>3, <2>4
<1> QED BY <1>1, <1>2

\* What a handler does to the record leaves the rest of the invariant as the collector has it.
LEMMA RecordedInv ==
  ASSUME PipeInv, NEW t \in net, Recorded(t), Collects', gaveUp \subseteq gaveUp',
         net' \subseteq net, line' = line /\ allowed' = allowed, Faulty \/ UNCHANGED faults
  PROVE  PipeInv'
<1>1. Frame
  BY FrameFacts
<1>2. Settled' /\ InOrder'
  BY SettledKept DEF PipeInv, InOrder, Recorded
<1>3. faults' \in 0..MaxFaults
  BY <1>1, FaultyFacts
<1>4. Frame'
  BY <1>1, <1>3 DEF Frame, Recorded
<1>5. Memory'
  BY DEF Recorded
<1> QED BY <1>2, <1>4, <1>5, WholeInv, PTL

LEMMA HandleInv == ASSUME PipeInv, NEW t \in net, Handle(t) PROVE PipeInv'
<1>1. Recorded(t) /\ t \in db'.samples
  BY StoreFacts DEF Handle
<1>2. Collects /\ db \in Tables
  BY CollectsFacts, FrameFacts DEF Frame
<1>3. Collects'
  <2>1. CASE Waiting(t)
    BY <1>1, <1>2, <2>1, AcceptedFacts DEF Handle, Recorded
  <2>2. CASE ~Waiting(t)
    BY <1>1, <1>2, <2>2, Untouched DEF Handle, Recorded
  <2> QED BY <2>1, <2>2
<1> QED BY <1>1, <1>3, RecordedInv DEF Handle

\* A batch that is refused leaves the record alone and is to the collector a failed one.
LEMMA RefuseInv == ASSUME PipeInv, NEW t \in net, Refuse(t) PROVE PipeInv'
<1>1. Recorded(t)
  BY FrameFacts DEF Refuse, Recorded, Frame, PipeInv, InOrder, Memory
<1>2. Collects /\ db \in Tables
  BY CollectsFacts, FrameFacts DEF Frame
<1>3. Collects' /\ gaveUp \subseteq gaveUp'
  <2>1. CASE Waiting(t)
    <3>1. Failed(FALSE) /\ col.pc # "idle" /\ now' = now
      BY <2>1 DEF Refuse, Waiting
    <3> QED BY <1>1, <1>2, <3>1, FailedFacts DEF Recorded
  <2>2. CASE ~Waiting(t)
    BY <1>1, <1>2, <2>2, Untouched DEF Refuse, Recorded
  <2> QED BY <2>1, <2>2
<1> QED BY <1>1, <1>3, RecordedInv DEF Refuse

LEMMA HandleUnheardInv == ASSUME PipeInv, NEW t \in net, HandleUnheard(t) PROVE PipeInv'
<1>1. Recorded(t)
  BY StoreFacts DEF HandleUnheard
<1>2. Collects /\ db \in Tables
  BY CollectsFacts, FrameFacts DEF Frame
<1>3. Collects'
  BY <1>1, <1>2, Untouched DEF HandleUnheard, Recorded
<1> QED BY <1>1, <1>3, RecordedInv DEF HandleUnheard

LEMMA HandleThrowsInv ==
  ASSUME PipeInv, NEW t \in net, NEW k \in 0..Writes, HandleThrows(t, k) PROVE PipeInv'
<1>1. Recorded(t)
  BY BreakFacts DEF HandleThrows
<1>2. Collects /\ db \in Tables
  BY CollectsFacts, FrameFacts DEF Frame
<1>3. Collects' /\ gaveUp \subseteq gaveUp'
  <2>1. CASE Waiting(t)
    <3>1. Failed(FALSE) /\ col.pc # "idle" /\ now' = now
      BY <2>1 DEF HandleThrows, Waiting
    <3> QED BY <1>1, <1>2, <3>1, FailedFacts DEF Recorded
  <2>2. CASE ~Waiting(t)
    BY <1>1, <1>2, <2>2, Untouched DEF HandleThrows, Recorded
  <2> QED BY <2>1, <2>2
<1> QED BY <1>1, <1>3, RecordedInv DEF HandleThrows

LEMMA HandleDiesInv ==
  ASSUME PipeInv, NEW t \in net, NEW k \in 0..Writes, HandleDies(t, k) PROVE PipeInv'
<1>1. Recorded(t)
  BY BreakFacts DEF HandleDies
<1>2. Collects /\ db \in Tables
  BY CollectsFacts, FrameFacts DEF Frame
<1>3. Collects'
  BY <1>1, <1>2, Untouched DEF HandleDies, Recorded
<1> QED BY <1>1, <1>3, RecordedInv DEF HandleDies

\* The server's own death and its start.
LEMMA ServerInv == ASSUME PipeInv, ServerDies \/ ServerStarts PROVE PipeInv'
<1>1. Collects /\ Frame /\ Single(db.outages)
  BY CollectsFacts, FrameFacts DEF PipeInv, Memory
<1>2. /\ UNCHANGED <<line, allowed, now, spool, col, db, gaveUp, belated, applied>>
      /\ net' \subseteq net /\ (Faulty \/ UNCHANGED faults)
  BY DEF ServerDies, ServerStarts
<1>3. Collects'
  BY <1>1, <1>2, Untouched DEF Frame
<1>4. srv' \in [up : BOOLEAN, open : Opens] /\ Memory'
  <2>1. CASE ServerDies
    <3>1. srv' = [up |-> FALSE, open |-> NoneOpen]
      BY <2>1 DEF ServerDies
    <3>2. srv' \in [up : BOOLEAN, open : Opens] /\ ~srv'.up
      BY <3>1, NoneOpenFacts
    <3> QED BY <1>1, <1>2, <3>2 DEF Memory
  <2>2. CASE ServerStarts
    <3>1. srv' = [up |-> TRUE, open |-> Loaded(db.outages)]
      BY <2>2 DEF ServerStarts
    <3>2. Loaded(db.outages) \in Opens /\ InStep(Loaded(db.outages), db.outages)
      BY <1>1, LoadedFacts DEF Frame, Tables
    <3>3. srv' \in [up : BOOLEAN, open : Opens] /\ srv'.open = Loaded(db.outages)
      BY <3>1, <3>2
    <3> QED BY <1>1, <1>2, <3>2, <3>3 DEF Memory
  <2> QED BY <2>1, <2>2
<1>5. faults' \in 0..MaxFaults
  BY <1>1, <1>2, FaultyFacts
<1>6. Frame'
  BY <1>1, <1>2, <1>4, <1>5 DEF Frame
<1>7. Settled' /\ InOrder'
  BY <1>2, SettledKept DEF PipeInv, InOrder
<1> QED BY <1>3, <1>4, <1>6, <1>7, WholeInv, PTL

LEMMA PipeStep == PipeInv /\ [Next]_vars => PipeInv'
<1> SUFFICES ASSUME PipeInv, [Next]_vars PROVE PipeInv'
  OBVIOUS
<1>1. CASE CollectorStep
  BY <1>1, MeasureInv, SendInv, NoAnswerInv DEF CollectorStep
<1>2. CASE Serve
  BY <1>2, HandleInv, RefuseInv DEF Serve
<1>3. CASE TornAppend \/ CollectorStarts \/ ServerDies \/ ServerStarts
  BY <1>3, TornAppendInv, CollectorStartsInv, ServerInv
<1>4. CASE \E arrived \in BOOLEAN : CollectorDies(arrived)
  BY <1>4, CollectorDiesInv
<1>5. CASE \E t \in net : HandleUnheard(t)
  BY <1>5, HandleUnheardInv
<1>6. \A k \in 0..(Writes - 1) : k \in 0..Writes
  BY DEF Writes
<1>7. \A k \in 1..(Writes - 1) : k \in 0..Writes
  BY DEF Writes
<1>8. CASE \E t \in net, k \in 0..(Writes - 1) : HandleThrows(t, k)
  BY <1>6, <1>8, HandleThrowsInv
<1>9. CASE \E t \in net, k \in 1..(Writes - 1) : HandleDies(t, k)
  BY <1>7, <1>9, HandleDiesInv
<1>10. CASE UNCHANGED vars
  <2>1. Collects' /\ Frame' /\ Settled' /\ InOrder' /\ Memory'
    BY <1>10, CollectsFacts, FrameFacts DEF vars, PipeInv, Collects, Hand, Files, Ordered, NothingLost,
       Frame, Settled, InOrder, Memory
  <2> QED BY <2>1, WholeInv, PTL
<1> QED BY <1>1, <1>2, <1>3, <1>4, <1>5, <1>8, <1>9, <1>10 DEF Next

-----------------------------------------------------------------------------
(* The theorems. *)

LEMMA PipeAlways == Spec => []PipeInv
  BY InitInv, PipeStep, PTL DEF Spec

\* Every variable keeps its shape: the file holds cycles and at most a torn line, the record
\* rows of its columns (probe.ts, the tables of src/db/schema.ts).
THEOREM ShapeKept == Spec => []TypeOK
<1>1. PipeInv => TypeOK
  BY DEF PipeInv
<1> QED BY <1>1, PipeAlways, PTL

\* What the table and the memory agree on, as RecordSound states it.
LEMMA MemoryIsAgreed == PipeInv => MemoryAgrees
<1> SUFFICES ASSUME PipeInv, NEW s \in Scopes
             PROVE  /\ Cardinality(Ongoing(db.outages, s)) <= 1
                    /\ srv.up => {[startedAt |-> r.startedAt, cycles |-> r.cycles] :
                                     r \in Ongoing(db.outages, s)} =
                                 {[startedAt |-> o.startedAt, cycles |-> o.cycles] :
                                     o \in {srv.open[s]} \ {Null}}
  BY DEF MemoryAgrees, Ongoing
<1>1. \A q, r \in Ongoing(db.outages, s) : q = r
  BY DEF PipeInv, Memory, Single
<1>2. Cardinality(Ongoing(db.outages, s)) <= 1
  <2>1. CASE Ongoing(db.outages, s) = {}
    BY <2>1, FS_EmptySet
  <2>2. CASE Ongoing(db.outages, s) # {}
    <3>1. PICK r : Ongoing(db.outages, s) = {r}
      BY <1>1, <2>2
    <3>2. Cardinality({r}) = 1
      BY FS_Singleton
    <3> QED BY <3>1, <3>2
  <2> QED BY <2>1, <2>2
<1>3. ASSUME srv.up
      PROVE  {[startedAt |-> r.startedAt, cycles |-> r.cycles] : r \in Ongoing(db.outages, s)} =
             {[startedAt |-> o.startedAt, cycles |-> o.cycles] : o \in {srv.open[s]} \ {Null}}
  <2> DEFINE o == srv.open[s]
  <2>1. Ongoing(db.outages, s) = IF o = Null THEN {} ELSE {Row(s, o, Null)}
    BY <1>3 DEF PipeInv, Memory, InStep, Remembered
  <2>2. Row(s, o, Null).startedAt = o.startedAt /\ Row(s, o, Null).cycles = o.cycles
    BY DEF Row
  <2> HIDE DEF o
  <2>3. CASE o = Null
    BY <2>1, <2>3 DEF o
  <2>4. CASE o # Null
    <3>1. Ongoing(db.outages, s) = {Row(s, o, Null)} /\ {o} \ {Null} = {o}
      BY <2>1, <2>4
    <3> QED BY <2>2, <3>1 DEF o
  <2> QED BY <2>3, <2>4
<1> QED BY <1>2, <1>3

\* Whatever dies, is lost, comes late or is cut short, and however often: every cycle that was
\* measured is in the record, in the file, in hand or knowingly let go of; the record grows in
\* their order but for those let go of; and the machine remembers of an outage what the table
\* says of it (probe.ts, probes.ts, outage-detector.ts).
THEOREM RecordStaysSound == Spec => []RecordSound
<1>1. PipeInv => NothingLost /\ InOrder
  BY DEF PipeInv
<1>2. PipeInv => RecordSound
  BY <1>1, MemoryIsAgreed DEF RecordSound
<1> QED BY <1>2, PipeAlways, PTL

-----------------------------------------------------------------------------
(* The link changes. *)

Before(rows, t) == {u \in rows : u < t}
Differs(rows, t) ==
  LET p == line[Max(Before(rows, t))].vantage
  IN Before(rows, t) # {} /\ Known(p) /\ Known(line[t].vantage) /\ p # line[t].vantage
ChangedAt(changes, t) == \E c \in changes : c.ts = t

\* While the cycles come in their order, no change is told of that was none.
ChangesReal ==
  belated = {} => /\ db.vantages \subseteq db.samples
                  /\ \A c \in db.changes : c.ts \in db.vantages /\ Differs(db.vantages, c.ts)

\* And none that was one is kept quiet.
ChangesAll ==
  belated = {} /\ "break" \notin allowed =>
    \A t \in db.vantages : Differs(db.vantages, t) => ChangedAt(db.changes, t)

\* A batch that is newer than all there is adds its own change, and moves no other.
LEMMA NewerRow ==
  ASSUME NEW rows \in SUBSET Times, NEW t \in Times, \A u \in rows : u < t
  PROVE  /\ \A u \in rows : Before(rows \cup {t}, u) = Before(rows, u)
         /\ Before(rows \cup {t}, t) = rows /\ Before(rows, t) = rows
<1>1. t \in Nat /\ \A u \in rows : u \in Nat
  BY DEF Times
<1>2. ~(t < t) /\ \A u \in rows : u < t /\ ~(t < u)
  BY <1>1
<1> QED BY <1>2 DEF Before

LEMMA ChangeAtDiffers ==
  ASSUME NEW rows, NEW t
  PROVE  /\ Differs(rows, t) => ChangedAt(ChangeAt(rows, t), t)
         /\ ~Differs(rows, t) => ChangeAt(rows, t) = {}
  BY DEF Differs, Before, ChangedAt, ChangeAt

LEMMA ChangesPut ==
  ASSUME PipeInv, srv.up, NEW t \in net, t \notin db.samples, NEW k \in 0..Writes, Put(t, k),
         ChangesReal, line' = line /\ allowed' = allowed
  PROVE  ChangesReal' /\ (k = Writes /\ ChangesAll => ChangesAll')
<1> SUFFICES ASSUME belated' = {}
             PROVE  ChangesReal' /\ (k = Writes /\ ChangesAll => ChangesAll')
  BY DEF ChangesReal, ChangesAll
<1>1. /\ t \in Times /\ TypeOK /\ Memory /\ line \in [Times -> Lines]
      /\ db.samples \subseteq Times /\ db.vantages \subseteq Times
  BY DEF PipeInv, TypeOK
<1>2. belated = {} /\ (k >= 1 => \A u \in db.samples : ~(u > t))
  BY DEF Put
<1>3. /\ db.vantages \subseteq db.samples
      /\ \A c \in db.changes : c.ts \in db.vantages /\ Differs(db.vantages, c.ts)
  BY <1>2 DEF ChangesReal
<1> DEFINE vantage == line[t].vantage # "absent"
<1>4. /\ db'.samples = IF k >= 1 THEN db.samples \cup {t} ELSE db.samples
      /\ db'.vantages = IF k >= 2 /\ vantage THEN db.vantages \cup {t} ELSE db.vantages
      /\ db'.changes = IF k >= 3 /\ vantage THEN db.changes \cup ChangeAt(db.vantages, t) ELSE db.changes
  <2>1. db' = Written(t, k).db
    BY DEF Put
  <2> QED BY <1>1, <2>1, WrittenFacts
<1> HIDE DEF vantage
<1>5. CASE ~(k >= 2 /\ vantage)
  <2>1. db'.vantages = db.vantages /\ db'.changes = db.changes /\ db.samples \subseteq db'.samples
    BY <1>4, <1>5
  <2>2. \A u : Differs(db.vantages, u)' <=> Differs(db.vantages, u)
    BY <2>1 DEF Differs, Before
  <2> QED BY <1>2, <1>3, <2>1, <2>2 DEF ChangesReal, ChangesAll
<1>6. CASE k >= 2 /\ vantage
  <2>1. \A u \in db.vantages : u < t
    BY <1>1, <1>2, <1>3, <1>6 DEF Times
  <2>2. /\ db'.vantages = db.vantages \cup {t} /\ db'.samples = db.samples \cup {t}
        /\ db'.changes = IF k >= 3 THEN db.changes \cup ChangeAt(db.vantages, t) ELSE db.changes
    BY <1>4, <1>6
  <2>3. \A u \in db.vantages \cup {t} : Before(db'.vantages, u) = Before(db.vantages, u)
    <3>1. /\ \A u \in db.vantages : Before(db.vantages \cup {t}, u) = Before(db.vantages, u)
          /\ Before(db.vantages \cup {t}, t) = Before(db.vantages, t)
      BY <1>1, <2>1, NewerRow, SMTT(30)
    <3> QED BY <2>2, <3>1
  <2>4. \A u \in db.vantages \cup {t} : Differs(db.vantages, u)' <=> Differs(db.vantages, u)
    BY <2>3 DEF Differs
  <2>5. /\ \A c \in ChangeAt(db.vantages, t) : c.ts = t
        /\ Differs(db.vantages, t) => ChangedAt(ChangeAt(db.vantages, t), t)
        /\ ~Differs(db.vantages, t) => ChangeAt(db.vantages, t) = {}
    BY <1>1, ChangeAtFacts, ChangeAtDiffers
  <2>6. \A c \in db'.changes : c.ts \in db'.vantages /\ Differs(db.vantages, c.ts)
    BY <1>3, <2>2, <2>5
  <2>7. ChangesReal'
    BY <1>3, <2>2, <2>4, <2>6 DEF ChangesReal
  <2>8. ASSUME k = Writes, ChangesAll, "break" \notin allowed, NEW u \in db.vantages \cup {t}, Differs(db.vantages, u)
        PROVE  ChangedAt(db'.changes, u)
    <3>1. db'.changes = db.changes \cup ChangeAt(db.vantages, t)
      BY <2>2, <2>8 DEF Writes
    <3> QED BY <1>2, <2>5, <2>8, <3>1 DEF ChangesAll, ChangedAt
  <2>9. k = Writes /\ ChangesAll => ChangesAll'
    BY <2>2, <2>4, <2>8 DEF ChangesAll
  <2> QED BY <2>7, <2>9
<1> QED BY <1>5, <1>6

\* Every step tells only of changes there were; a step without a broken handler, of all.
LEMMA ChangesStep ==
  ASSUME PipeInv, [Next]_vars, ChangesReal
  PROVE  ChangesReal' /\ (ChangesAll => ChangesAll')
<1> DEFINE Kept == ChangesReal' /\ (ChangesAll => ChangesAll')
<1>1. line' = line /\ allowed' = allowed
  BY DEF Next, vars, CollectorStep, Measure, Send, NoAnswer, TornAppend, CollectorStarts, ServerDies,
     ServerStarts, CollectorDies, Serve, Handle, Refuse, HandleUnheard, HandleThrows, HandleDies
<1>2. ASSUME UNCHANGED <<db, belated>> PROVE Kept
  BY <1>1, <1>2 DEF ChangesReal, ChangesAll, Differs, Before, ChangedAt
<1>3. ASSUME NEW t \in net, srv.up, Store(t) PROVE Kept
  <2>1. CASE t \in db.samples
    BY <1>2, <1>3, <2>1 DEF Store
  <2>2. CASE t \notin db.samples
    <3>1. Put(t, Writes) /\ Writes \in 0..Writes
      BY <1>3, <2>2 DEF Store, Writes
    <3> QED BY <1>1, <1>3, <2>2, <3>1, ChangesPut
  <2> QED BY <2>1, <2>2
<1>4. ASSUME NEW t \in net, NEW k \in 0..Writes, HandleThrows(t, k) \/ HandleDies(t, k)
      PROVE  Kept
  <2>1. ChangesReal' /\ "break" \in allowed
    BY <1>1, <1>4, ChangesPut DEF HandleThrows, HandleDies
  <2> QED BY <1>1, <2>1 DEF ChangesAll
<1>5. CASE CollectorStep \/ TornAppend \/ CollectorStarts \/ ServerDies \/ ServerStarts
           \/ (\E arrived \in BOOLEAN : CollectorDies(arrived)) \/ UNCHANGED vars
  <2>1. UNCHANGED <<db, belated>>
    BY <1>5 DEF CollectorStep, Measure, Send, NoAnswer, TornAppend, CollectorStarts, ServerDies,
       ServerStarts, CollectorDies, vars
  <2> QED BY <1>2, <2>1
<1>6. CASE Serve \/ \E t \in net : HandleUnheard(t)
  BY <1>2, <1>3, <1>6 DEF Serve, Handle, Refuse, HandleUnheard
<1>7. CASE \/ \E t \in net, k \in 0..(Writes - 1) : HandleThrows(t, k)
           \/ \E t \in net, k \in 1..(Writes - 1) : HandleDies(t, k)
  <2>1. \E t \in net, k \in 0..Writes : HandleThrows(t, k) \/ HandleDies(t, k)
    BY <1>7 DEF Writes
  <2> QED BY <1>4, <2>1
<1> QED BY <1>5, <1>6, <1>7 DEF Next

LEMMA ChangesInit == Init => ChangesReal /\ ChangesAll
<1> SUFFICES ASSUME Init PROVE ChangesReal /\ ChangesAll
  OBVIOUS
<1>1. db = [samples |-> {}, vantages |-> {}, changes |-> {}, outages |-> {}]
  BY DEF Init
<1>2. db.vantages = {} /\ db.changes = {}
  BY <1>1
<1> QED BY <1>2 DEF ChangesReal, ChangesAll

\* While the cycles come in their order the timeline tells of no change that was none, even
\* when the handler breaks between its writes (probes.ts, cycle-vantage.ts `diffVantage`).
THEOREM NoFalseChange == Spec => []ChangesReal
<1>1. PipeInv /\ ChangesReal /\ [Next]_vars => ChangesReal'
  BY ChangesStep
<1> QED BY <1>1, ChangesInit, PipeAlways, PTL DEF Spec

\* And where no handler breaks between the vantage and its change, it tells of every one
\* (probes.ts: the two are statements of their own, and a batch is never stored twice).
THEOREM ChangesAreTrue == Spec => []ChangesTrue
<1>1. PipeInv /\ ChangesReal /\ ChangesAll /\ [Next]_vars => ChangesReal' /\ ChangesAll'
  BY ChangesStep
<1>2. ChangesReal /\ ChangesAll => ChangesTrue
  <2> SUFFICES ASSUME ChangesReal, ChangesAll, belated = {}, "break" \notin allowed, NEW t \in db.vantages
               PROVE  ChangedAt(db.changes, t) <=> Differs(db.vantages, t)
    BY DEF ChangesTrue, ChangedAt, Differs, Before
  <2> QED BY DEF ChangesReal, ChangesAll, ChangedAt
<1> QED BY <1>1, <1>2, ChangesInit, PipeAlways, PTL DEF Spec

-----------------------------------------------------------------------------
(* Runs of cycles, of which one grows or ends with each newer cycle. *)

\* Both scopes have the same record in mind.
LEMMA SameRuns == \A H : Wan!Runs(H) = Gateway!Runs(H)
  BY DEF Wan!Runs, Wan!Starts, Wan!RunFrom, Wan!EndOf, Wan!Recoveries,
     Gateway!Runs, Gateway!Starts, Gateway!RunFrom, Gateway!EndOf, Gateway!Recoveries,
     Wan!Min, Gateway!Min, Wan!Cardinality, Gateway!Cardinality

LEMMA SameNumbers == \A S : Gateway!Cardinality(S) = Cardinality(S)
  BY DEF Gateway!Cardinality, Cardinality

Unended(H) == {a \in Gateway!Starts(H) : Gateway!Recoveries(H, a) = {}}

\* Where a cycle was down and none after it was up, a run is going on.
LEMMA SomeRunGoesOn ==
  ASSUME NEW H, \A c \in H : c.ts \in Nat,
         NEW p \in H, p.down, Gateway!Recoveries(H, p.ts) = {}
  PROVE  Unended(H) # {}
<1> DEFINE D == {c \in H : c.down /\ Gateway!Recoveries(H, c.ts) = {}}
           T == {c.ts : c \in D}
<1>1. T \subseteq Nat /\ T # {}
  OBVIOUS
<1>2. PICK x \in T : \A y \in T : x <= y
  <2> HIDE DEF T
  <2> QED BY <1>1, LeastNat
<1>3. PICK d \in D : d.ts = x
  OBVIOUS
<1>4. ASSUME NEW q \in H, q.down, q.ts < d.ts, d \in Gateway!RunFrom(H, q.ts) PROVE FALSE
  <2>1. q \notin D
    BY <1>2, <1>3, <1>4
  <2>2. PICK r \in H : ~r.down /\ r.ts > q.ts
    BY <1>4, <2>1 DEF Gateway!Recoveries
  <2>3. r.ts \in Gateway!Recoveries(H, q.ts)
    BY <2>2 DEF Gateway!Recoveries
  <2>4. d.ts < r.ts
    BY <1>4, <2>3 DEF Gateway!RunFrom
  <2>5. r.ts \in Gateway!Recoveries(H, d.ts)
    BY <2>2, <2>4 DEF Gateway!Recoveries
  <2> QED BY <2>5
<1>5. d.ts \in Gateway!Starts(H)
  BY <1>4 DEF Gateway!Starts
<1> QED BY <1>5 DEF Unended

\* A newer cycle that is down joins the run that goes on, or begins one.
LEMMA DownJoins ==
  ASSUME NEW H, NEW t \in Nat, \A c \in H : c.ts \in Nat /\ c.ts < t,
         NEW e, e.ts = t, e.down, NEW G, G = H \cup {e}
  PROVE  /\ \A u : Gateway!Recoveries(G, u) = Gateway!Recoveries(H, u)
         /\ \A u \in Nat : u <= t /\ Gateway!Recoveries(H, u) = {} =>
              Gateway!RunFrom(G, u) = Gateway!RunFrom(H, u) \cup {e}
         /\ \A u \in Nat : Gateway!Recoveries(H, u) # {} => Gateway!RunFrom(G, u) = Gateway!RunFrom(H, u)
         /\ Gateway!RunFrom(H, t) = {} /\ Gateway!Recoveries(H, t) = {}
         /\ Gateway!Starts(G) = Gateway!Starts(H) \cup (IF Unended(H) = {} THEN {t} ELSE {})
<1>1. ASSUME NEW u PROVE Gateway!Recoveries(G, u) = Gateway!Recoveries(H, u)
  BY DEF Gateway!Recoveries
<1>2. ASSUME NEW u PROVE \A r \in Gateway!Recoveries(H, u) : r \in Nat /\ r < t /\ ~(t < r)
  BY DEF Gateway!Recoveries
<1>3. ASSUME NEW u \in Nat, u <= t, Gateway!Recoveries(H, u) = {}
      PROVE  Gateway!RunFrom(G, u) = Gateway!RunFrom(H, u) \cup {e}
  BY <1>1, <1>3 DEF Gateway!RunFrom
<1>4. ASSUME NEW u \in Nat, Gateway!Recoveries(H, u) # {}
      PROVE  Gateway!RunFrom(G, u) = Gateway!RunFrom(H, u)
  BY <1>1, <1>2, <1>4 DEF Gateway!RunFrom
<1>5. Gateway!RunFrom(H, t) = {} /\ Gateway!Recoveries(H, t) = {}
  BY DEF Gateway!RunFrom, Gateway!Recoveries
<1>6. ASSUME NEW u \in Nat, NEW c \in H
      PROVE  c \in Gateway!RunFrom(G, u) <=> c \in Gateway!RunFrom(H, u)
  BY <1>1 DEF Gateway!RunFrom
<1>7. ASSUME NEW p \in H
      PROVE  e \in Gateway!RunFrom(G, p.ts) <=> Gateway!Recoveries(H, p.ts) = {}
  <2>1. e \in G /\ p.ts <= t
    OBVIOUS
  <2>2. e \in Gateway!RunFrom(G, p.ts) <=> \A r \in Gateway!Recoveries(G, p.ts) : t < r
    BY <2>1 DEF Gateway!RunFrom
  <2> QED BY <1>1, <1>2, <2>2
<1>8. ASSUME NEW d \in H
      PROVE  (\A p \in G : p.down /\ p.ts < d.ts => d \notin Gateway!RunFrom(G, p.ts))
               <=> (\A p \in H : p.down /\ p.ts < d.ts => d \notin Gateway!RunFrom(H, p.ts))
  <2>1. \A p \in G : p.ts < d.ts => p \in H
    OBVIOUS
  <2>2. \A p \in H : p \in G /\ (d \in Gateway!RunFrom(G, p.ts) <=> d \in Gateway!RunFrom(H, p.ts))
    BY <1>6
  <2> QED BY <2>1, <2>2
<1>9. (\A p \in G : p.down /\ p.ts < e.ts => e \notin Gateway!RunFrom(G, p.ts)) <=> Unended(H) = {}
  <2>1. ASSUME NEW p \in H, p.down, e \in Gateway!RunFrom(G, p.ts) PROVE Unended(H) # {}
    BY <1>7, <2>1, SomeRunGoesOn
  <2>2. ASSUME NEW a \in Unended(H)
        PROVE  \E p \in G : p.down /\ p.ts < e.ts /\ e \in Gateway!RunFrom(G, p.ts)
    BY <1>7 DEF Unended, Gateway!Starts
  <2>3. \A p \in G : p.ts < e.ts => p \in H
    OBVIOUS
  <2> QED BY <2>1, <2>2, <2>3
<1>10. Gateway!Starts(G) = Gateway!Starts(H) \cup (IF Unended(H) = {} THEN {t} ELSE {})
  <2> DEFINE Begins(K, d) == d.down /\ \A p \in K : p.down /\ p.ts < d.ts => d \notin Gateway!RunFrom(K, p.ts)
  <2>1. /\ Gateway!Starts(G) = {c.ts : c \in {d \in G : Begins(G, d)}}
        /\ Gateway!Starts(H) = {c.ts : c \in {d \in H : Begins(H, d)}}
    BY DEF Gateway!Starts
  <2>2. /\ \A d \in H : Begins(G, d) <=> Begins(H, d)
        /\ Begins(G, e) <=> Unended(H) = {}
    BY <1>8, <1>9
  <2> HIDE DEF Begins
  <2> QED BY <2>1, <2>2
<1> QED BY <1>1, <1>3, <1>4, <1>5, <1>10

\* A newer cycle that is up ends the run that goes on.
LEMMA UpEnds ==
  ASSUME NEW H, NEW t \in Nat, \A c \in H : c.ts \in Nat /\ c.ts < t,
         NEW e, e.ts = t, ~e.down, NEW G, G = H \cup {e}
  PROVE  /\ \A u \in Nat : u < t => Gateway!Recoveries(G, u) = Gateway!Recoveries(H, u) \cup {t}
         /\ \A u \in Nat : u < t => Gateway!RunFrom(G, u) = Gateway!RunFrom(H, u)
         /\ Gateway!Starts(G) = Gateway!Starts(H)
<1>1. ASSUME NEW u \in Nat, u < t
      PROVE  Gateway!Recoveries(G, u) = Gateway!Recoveries(H, u) \cup {t}
  BY <1>1 DEF Gateway!Recoveries
<1>2. ASSUME NEW u \in Nat, u < t PROVE Gateway!RunFrom(G, u) = Gateway!RunFrom(H, u)
  BY <1>1, <1>2 DEF Gateway!RunFrom
<1>3. ASSUME NEW d \in H
      PROVE  (\A p \in G : p.down /\ p.ts < d.ts => d \notin Gateway!RunFrom(G, p.ts))
               <=> (\A p \in H : p.down /\ p.ts < d.ts => d \notin Gateway!RunFrom(H, p.ts))
  BY <1>2
<1>4. Gateway!Starts(G) = Gateway!Starts(H)
  <2> DEFINE Begins(K, d) == d.down /\ \A p \in K : p.down /\ p.ts < d.ts => d \notin Gateway!RunFrom(K, p.ts)
  <2>1. /\ Gateway!Starts(G) = {c.ts : c \in {d \in G : Begins(G, d)}}
        /\ Gateway!Starts(H) = {c.ts : c \in {d \in H : Begins(H, d)}}
    BY DEF Gateway!Starts
  <2>2. (\A d \in H : Begins(G, d) <=> Begins(H, d)) /\ ~Begins(G, e)
    BY <1>3
  <2> HIDE DEF Begins
  <2> QED BY <2>1, <2>2
<1> QED BY <1>1, <1>2, <1>4
\* The row of the run begun at a.
RunAt(H, a) ==
  [startedAt |-> a, endedAt |-> Gateway!EndOf(H, a), cycles |-> Cardinality(Gateway!RunFrom(H, a))]

LEMMA RunsAt == \A H : Gateway!Runs(H) = {RunAt(H, a) : a \in Gateway!Starts(H)}
  BY SameNumbers DEF Gateway!Runs, RunAt

LEMMA RunAtStarts == \A H, a : RunAt(H, a).startedAt = a
  BY DEF RunAt

\* Which rows change when a newer cycle is down: the one that goes on counts it, or it is one.
LEMMA RunsDown ==
  ASSUME NEW H, IsFiniteSet(H), NEW t \in Nat, \A c \in H : c.ts \in Nat /\ c.ts < t,
         NEW e, e.ts = t, e.down, NEW G, G = H \cup {e}
  PROVE  /\ Unended(H) = {} =>
              Gateway!Runs(G) = Gateway!Runs(H) \cup {[startedAt |-> t, endedAt |-> Null, cycles |-> 1]}
         /\ \A b : Unended(H) = {b} =>
              Gateway!Runs(G) =
                {r \in Gateway!Runs(H) : r.startedAt # b}
                  \cup {[startedAt |-> b, endedAt |-> Null,
                         cycles |-> Cardinality(Gateway!RunFrom(H, b)) + 1]}
<1>1. \A a \in Gateway!Starts(H) : a \in Nat /\ a <= t /\ a # t
  BY DEF Gateway!Starts
<1>2. /\ \A u : Gateway!Recoveries(G, u) = Gateway!Recoveries(H, u)
      /\ \A u \in Nat : u <= t /\ Gateway!Recoveries(H, u) = {} =>
           Gateway!RunFrom(G, u) = Gateway!RunFrom(H, u) \cup {e}
      /\ \A u \in Nat : Gateway!Recoveries(H, u) # {} => Gateway!RunFrom(G, u) = Gateway!RunFrom(H, u)
      /\ Gateway!RunFrom(H, t) = {} /\ Gateway!Recoveries(H, t) = {}
      /\ Gateway!Starts(G) = Gateway!Starts(H) \cup (IF Unended(H) = {} THEN {t} ELSE {})
  BY DownJoins
<1>3. e \notin H
  BY DEF Gateway!Starts
<1>4. ASSUME NEW a \in Gateway!Starts(H), Gateway!Recoveries(H, a) # {}
      PROVE  RunAt(G, a) = RunAt(H, a)
  BY <1>1, <1>2, <1>4 DEF RunAt, Gateway!EndOf
<1>5. ASSUME NEW a \in Nat, a <= t, Gateway!Recoveries(H, a) = {}
      PROVE  RunAt(G, a) = [startedAt |-> a, endedAt |-> Null, cycles |-> Cardinality(Gateway!RunFrom(H, a)) + 1]
  <2>1. Gateway!RunFrom(G, a) = Gateway!RunFrom(H, a) \cup {e} /\ e \notin Gateway!RunFrom(H, a)
    BY <1>2, <1>3, <1>5 DEF Gateway!RunFrom
  <2>2. IsFiniteSet(Gateway!RunFrom(H, a))
    <3>1. Gateway!RunFrom(H, a) \in SUBSET H
      BY DEF Gateway!RunFrom
    <3> QED BY <3>1, FS_Subset
  <2>3. Cardinality(Gateway!RunFrom(G, a)) = Cardinality(Gateway!RunFrom(H, a)) + 1
    BY <2>1, <2>2, FS_AddElement
  <2>4. Gateway!EndOf(G, a) = Null
    BY <1>2, <1>5 DEF Gateway!EndOf
  <2> QED BY <2>3, <2>4 DEF RunAt
<1>6. ASSUME Unended(H) = {}
      PROVE  Gateway!Runs(G) = Gateway!Runs(H) \cup {[startedAt |-> t, endedAt |-> Null, cycles |-> 1]}
  <2>1. \A a \in Gateway!Starts(H) : RunAt(G, a) = RunAt(H, a)
    BY <1>4, <1>6 DEF Unended
  <2>2. RunAt(G, t) = [startedAt |-> t, endedAt |-> Null, cycles |-> 1]
    <3>1. Cardinality(Gateway!RunFrom(H, t)) + 1 = 1
      BY <1>2, FS_EmptySet
    <3>2. RunAt(G, t) = [startedAt |-> t, endedAt |-> Null, cycles |-> Cardinality(Gateway!RunFrom(H, t)) + 1]
      <4>1. t <= t
        OBVIOUS
      <4> QED BY <1>2, <1>5, <4>1
    <3> QED BY <3>1, <3>2
  <2>3. Gateway!Starts(G) = Gateway!Starts(H) \cup {t}
    BY <1>2, <1>6
  <2>4. Gateway!Runs(G) = {RunAt(G, a) : a \in Gateway!Starts(G)}
        /\ Gateway!Runs(H) = {RunAt(H, a) : a \in Gateway!Starts(H)}
    BY RunsAt, Zenon
  <2>5. Gateway!Runs(G) = {RunAt(G, a) : a \in Gateway!Starts(H)} \cup {RunAt(G, t)}
    BY <2>3, <2>4
  <2> QED BY <2>1, <2>2, <2>4, <2>5
<1>7. ASSUME NEW b, Unended(H) = {b}
      PROVE  Gateway!Runs(G) = {r \in Gateway!Runs(H) : r.startedAt # b}
               \cup {[startedAt |-> b, endedAt |-> Null, cycles |-> Cardinality(Gateway!RunFrom(H, b)) + 1]}
  <2>1. /\ b \in Gateway!Starts(H) /\ Gateway!Recoveries(H, b) = {}
        /\ \A a \in Gateway!Starts(H) : a # b => Gateway!Recoveries(H, a) # {}
        /\ Gateway!Starts(G) = Gateway!Starts(H)
    BY <1>2, <1>7 DEF Unended
  <2>2. \A a \in Gateway!Starts(H) : a # b => RunAt(G, a) = RunAt(H, a)
    BY <1>4, <2>1
  <2>3. RunAt(G, b) = [startedAt |-> b, endedAt |-> Null, cycles |-> Cardinality(Gateway!RunFrom(H, b)) + 1]
    BY <1>1, <1>5, <2>1
  <2>4. Gateway!Runs(G) = {RunAt(G, a) : a \in Gateway!Starts(H)}
    BY <2>1, RunsAt, Zenon
  <2>5. Gateway!Runs(H) = {RunAt(H, a) : a \in Gateway!Starts(H)} /\ \A a : RunAt(H, a).startedAt = a
    BY RunsAt, RunAtStarts
  <2>6. {r \in Gateway!Runs(H) : r.startedAt # b} = {RunAt(H, a) : a \in Gateway!Starts(H) \ {b}}
    BY <2>5
  <2>7. Gateway!Runs(G) = {RunAt(H, a) : a \in Gateway!Starts(H) \ {b}} \cup {RunAt(G, b)}
    BY <2>1, <2>2, <2>4
  <2> QED BY <2>3, <2>6, <2>7
<1> QED BY <1>6, <1>7

\* And when it is up: the one that goes on has ended with it.
LEMMA RunsUp ==
  ASSUME NEW H, NEW t \in Nat, \A c \in H : c.ts \in Nat /\ c.ts < t,
         NEW e, e.ts = t, ~e.down, NEW G, G = H \cup {e}
  PROVE  /\ Unended(H) = {} => Gateway!Runs(G) = Gateway!Runs(H)
         /\ \A b : Unended(H) = {b} =>
              Gateway!Runs(G) =
                {r \in Gateway!Runs(H) : r.startedAt # b}
                  \cup {[startedAt |-> b, endedAt |-> t, cycles |-> Cardinality(Gateway!RunFrom(H, b))]}
<1>1. \A a \in Gateway!Starts(H) : a \in Nat /\ a < t
  BY DEF Gateway!Starts
<1>2. /\ \A u \in Nat : u < t => Gateway!Recoveries(G, u) = Gateway!Recoveries(H, u) \cup {t}
      /\ \A u \in Nat : u < t => Gateway!RunFrom(G, u) = Gateway!RunFrom(H, u)
      /\ Gateway!Starts(G) = Gateway!Starts(H)
  BY UpEnds
<1>3. ASSUME NEW a \in Gateway!Starts(H), Gateway!Recoveries(H, a) # {}
      PROVE  RunAt(G, a) = RunAt(H, a)
  <2> DEFINE R == Gateway!Recoveries(H, a)
  <2>1. R \subseteq Nat /\ \A r \in R : r < t
    BY DEF Gateway!Recoveries
  <2>2. \A x : (x \in R /\ \A y \in R : x <= y) <=> (x \in R \cup {t} /\ \A y \in R \cup {t} : x <= y)
    BY <1>3, <2>1
  <2>3. Gateway!Min(R \cup {t}) = Gateway!Min(R)
    BY <2>2 DEF Gateway!Min
  <2> QED BY <1>1, <1>2, <1>3, <2>3 DEF RunAt, Gateway!EndOf
<1>4. ASSUME NEW a \in Gateway!Starts(H), Gateway!Recoveries(H, a) = {}
      PROVE  RunAt(G, a) = [startedAt |-> a, endedAt |-> t, cycles |-> Cardinality(Gateway!RunFrom(H, a))]
  <2>1. Gateway!Recoveries(G, a) = {t} /\ Gateway!RunFrom(G, a) = Gateway!RunFrom(H, a)
    BY <1>1, <1>2, <1>4
  <2>2. Gateway!Min({t}) = t
    BY DEF Gateway!Min
  <2> QED BY <2>1, <2>2 DEF RunAt, Gateway!EndOf
<1>5. ASSUME Unended(H) = {} PROVE Gateway!Runs(G) = Gateway!Runs(H)
  <2>1. \A a \in Gateway!Starts(H) : RunAt(G, a) = RunAt(H, a)
    BY <1>3, <1>5 DEF Unended
  <2>2. Gateway!Runs(G) = {RunAt(G, a) : a \in Gateway!Starts(H)}
        /\ Gateway!Runs(H) = {RunAt(H, a) : a \in Gateway!Starts(H)}
    BY <1>2, RunsAt, Zenon
  <2> QED BY <2>1, <2>2
<1>6. ASSUME NEW b, Unended(H) = {b}
      PROVE  Gateway!Runs(G) = {r \in Gateway!Runs(H) : r.startedAt # b}
               \cup {[startedAt |-> b, endedAt |-> t, cycles |-> Cardinality(Gateway!RunFrom(H, b))]}
  <2>1. /\ b \in Gateway!Starts(H) /\ Gateway!Recoveries(H, b) = {}
        /\ \A a \in Gateway!Starts(H) : a # b => Gateway!Recoveries(H, a) # {}
    BY <1>6 DEF Unended
  <2>2. \A a \in Gateway!Starts(H) : a # b => RunAt(G, a) = RunAt(H, a)
    BY <1>3, <2>1
  <2>3. RunAt(G, b) = [startedAt |-> b, endedAt |-> t, cycles |-> Cardinality(Gateway!RunFrom(H, b))]
    BY <1>4, <2>1
  <2>4. Gateway!Runs(G) = {RunAt(G, a) : a \in Gateway!Starts(H)}
    BY <1>2, RunsAt, Zenon
  <2>5. Gateway!Runs(H) = {RunAt(H, a) : a \in Gateway!Starts(H)} /\ \A a : RunAt(H, a).startedAt = a
    BY RunsAt, RunAtStarts
  <2>6. {r \in Gateway!Runs(H) : r.startedAt # b} = {RunAt(H, a) : a \in Gateway!Starts(H) \ {b}}
    BY <2>5
  <2>7. Gateway!Runs(G) = {RunAt(H, a) : a \in Gateway!Starts(H) \ {b}} \cup {RunAt(G, b)}
    BY <2>1, <2>2, <2>4
  <2> QED BY <2>3, <2>6, <2>7
<1> QED BY <1>5, <1>6
-----------------------------------------------------------------------------
(* The machine, fed with one newer cycle. *)

\* The rows with the one of the run begun at u written anew.
Renewed(rows, u, end, cycles) ==
  {r \in rows : r.startedAt # u} \cup {[startedAt |-> u, endedAt |-> end, cycles |-> cycles]}

\* A row as OutageRecord knows it, and those of a scope.
Shown(r) == [startedAt |-> r.startedAt, endedAt |-> r.endedAt, cycles |-> r.cycles]
RowsIn(outages, s) == {Shown(r) : r \in {q \in outages : q.scope = s}}

\* A run without an end is one with no recovery after it.
LEMMA UnendedRuns ==
  ASSUME NEW H, \A c \in H : c.ts \in Nat, NEW a
  PROVE  Gateway!EndOf(H, a) = Null <=> Gateway!Recoveries(H, a) = {}
<1> DEFINE R == Gateway!Recoveries(H, a)
<1>1. CASE R = {}
  BY <1>1 DEF Gateway!EndOf
<1>2. CASE R # {}
  <2>1. R \subseteq Nat
    BY DEF Gateway!Recoveries
  <2>2. \E x \in R : \A y \in R : x <= y
    <3> HIDE DEF R
    <3> QED BY <1>2, <2>1, LeastNat
  <2>3. Gateway!Min(R) \in Nat
    BY <2>1, <2>2 DEF Gateway!Min
  <2>4. Gateway!EndOf(H, a) = Gateway!Min(R)
    BY <1>2 DEF Gateway!EndOf
  <2> QED BY <1>2, <2>3, <2>4, PipelineAssumption
<1> QED BY <1>1, <1>2

\* What the machine remembers is the run that goes on.
LEMMA MemoryIsTheRun ==
  ASSUME NEW open \in Opens, NEW outages \in SUBSET OutageRow, InStep(open, outages),
         NEW scope \in Scopes, NEW H, \A c \in H : c.ts \in Nat,
         RowsIn(outages, scope) = Gateway!Runs(H)
  PROVE  /\ open[scope] = Null => Unended(H) = {}
         /\ open[scope] # Null =>
              /\ Unended(H) = {open[scope].startedAt}
              /\ open[scope].cycles = Cardinality(Gateway!RunFrom(H, open[scope].startedAt))
<1>1. ASSUME NEW a \in Unended(H)
      PROVE  \E q \in Ongoing(outages, scope) :
               q.startedAt = a /\ q.cycles = Cardinality(Gateway!RunFrom(H, a))
  <2>1. RunAt(H, a) \in Gateway!Runs(H)
    BY RunsAt DEF Unended
  <2>2. PICK q \in outages : q.scope = scope /\ Shown(q) = RunAt(H, a)
    BY <2>1 DEF RowsIn
  <2>3. Gateway!EndOf(H, a) = Null
    BY UnendedRuns DEF Unended
  <2>4. /\ q.startedAt = a /\ q.endedAt = Null
        /\ q.cycles = Cardinality(Gateway!RunFrom(H, a))
    BY <2>2, <2>3 DEF Shown, RunAt
  <2> QED BY <2>2, <2>4 DEF Ongoing
<1>2. CASE open[scope] = Null
  BY <1>1, <1>2 DEF InStep, Remembered
<1>3. CASE open[scope] # Null
  <2> DEFINE o == open[scope]
             r == Row(scope, o, Null)
  <2>1. Ongoing(outages, scope) = {r}
    BY <1>3 DEF InStep, Remembered
  <2>2. r.scope = scope /\ r.startedAt = o.startedAt /\ r.endedAt = Null /\ r.cycles = o.cycles
    BY DEF Row
  <2> HIDE DEF r
  <2>3. Shown(r) \in Gateway!Runs(H)
    BY <2>1, <2>2 DEF RowsIn, Ongoing
  <2>4. PICK a \in Gateway!Starts(H) : Shown(r) = RunAt(H, a)
    BY <2>3, RunsAt
  <2>5. a = o.startedAt /\ Gateway!EndOf(H, a) = Null /\ o.cycles = Cardinality(Gateway!RunFrom(H, a))
    BY <2>2, <2>4 DEF Shown, RunAt
  <2>6. o.startedAt \in Unended(H)
    BY <2>5, UnendedRuns DEF Unended
  <2>7. \A b \in Unended(H) : b = o.startedAt
    BY <1>1, <2>1, <2>2
  <2> QED BY <1>3, <2>5, <2>6, <2>7
<1> QED BY <1>2, <1>3

\* What the machine writes back: a row in the place of the one with its start.
Rewritten(S, scope, o, end) == Others(S, scope, o) \cup {Row(scope, o, end)}

\* A row that is rewritten takes the place of its predecessor, and no other scope sees it.
LEMMA RowRewritten ==
  ASSUME NEW S, NEW scope, NEW o, NEW end
  PROVE  LET rows == Rewritten(S, scope, o, end)
         IN /\ RowsIn(rows, scope) = Renewed(RowsIn(S.outages, scope), o.startedAt, end, o.cycles)
            /\ \A s : s # scope => RowsIn(rows, s) = RowsIn(S.outages, s)
<1> DEFINE n == Row(scope, o, end)
           rows == Rewritten(S, scope, o, end)
           outages == S.outages
<1>0. rows = Others(S, scope, o) \cup {n}
  BY DEF Rewritten
<1>1. n.scope = scope /\ Shown(n) = [startedAt |-> o.startedAt, endedAt |-> end, cycles |-> o.cycles]
  BY DEF Row, Shown
<1> HIDE DEF n, rows
<1>2. \A r : Shown(r).startedAt = r.startedAt
  BY DEF Shown
<1>3. {q \in rows : q.scope = scope} = {q \in outages : q.scope = scope /\ q.startedAt # o.startedAt} \cup {n}
  BY <1>0, <1>1 DEF Others
<1>4. \A s : s # scope => {q \in rows : q.scope = s} = {q \in outages : q.scope = s}
  BY <1>0, <1>1 DEF Others
<1>5. RowsIn(rows, scope) = {r \in RowsIn(outages, scope) : r.startedAt # o.startedAt} \cup {Shown(n)}
  BY <1>2, <1>3 DEF RowsIn
<1>6. \A s : s # scope => RowsIn(rows, s) = RowsIn(outages, s)
  BY <1>4 DEF RowsIn
<1> QED BY <1>1, <1>5, <1>6 DEF Renewed, rows
\* One newer cycle fed to a scope: its rows are the runs with that cycle among them.
LEMMA ScopeFed ==
  ASSUME NEW open \in Opens, NEW outages \in SUBSET OutageRow, InStep(open, outages),
         NEW S, S = [open |-> open, outages |-> outages],
         NEW scope \in Scopes, NEW t \in Times,
         NEW H, IsFiniteSet(H), \A c \in H : c.ts \in Nat /\ c.ts < t,
         RowsIn(outages, scope) = Gateway!Runs(H),
         open[scope] # Null => open[scope].lastTs < t,
         NEW e, e.ts = t, e.down <=> Down(scope, t)
  PROVE  LET E == EvaluateScope(S, scope, t)
         IN /\ RowsIn(E.outages, scope) = Gateway!Runs(H \cup {e})
            /\ E.open[scope] # Null => E.open[scope].lastTs = t
            /\ \A s \in Scopes : s # scope =>
                 RowsIn(E.outages, s) = RowsIn(outages, s) /\ E.open[s] = open[s]
<1> PICK G : G = H \cup {e}
  OBVIOUS
<1> DEFINE Fits(E) == /\ RowsIn(E.outages, scope) = Gateway!Runs(G)
                      /\ E.open[scope] # Null => E.open[scope].lastTs = t
                      /\ \A s \in Scopes : s # scope =>
                           RowsIn(E.outages, s) = RowsIn(outages, s) /\ E.open[s] = open[s]
<1>1. t \in Nat /\ S.open = open /\ S.outages = outages
  BY DEF Times
<1>2. \A o \in OpenOutage : o.startedAt \in Nat /\ o.lastTs \in Nat /\ o.cycles \in Nat
                            /\ o = [startedAt |-> o.startedAt, lastTs |-> o.lastTs, cycles |-> o.cycles]
  BY DEF OpenOutage, Times
<1>3. /\ open[scope] = Null => Unended(H) = {}
      /\ open[scope] # Null =>
           /\ Unended(H) = {open[scope].startedAt}
           /\ open[scope].cycles = Cardinality(Gateway!RunFrom(H, open[scope].startedAt))
  BY MemoryIsTheRun
<1>4. \A f \in Opens : DOMAIN f = Scopes
  BY DEF Opens
<1>5. CASE open[scope] = Null /\ Down(scope, t)
  <2> PICK o : o = [startedAt |-> t, lastTs |-> t, cycles |-> 1]
    OBVIOUS
  <2> PICK n : n = Row(scope, o, Null)
    OBVIOUS
  <2> PICK E : E = Opened(S, scope, t)
    OBVIOUS
  <2>1. E = [S EXCEPT !.open[scope] = o, !.outages = outages \cup {n}]
    BY <1>1 DEF Opened
  <2>2. E.open = [open EXCEPT ![scope] = o] /\ E.outages = outages \cup {n}
    BY <2>1, MachineStep
  <2>3. n.scope = scope /\ Shown(n) = [startedAt |-> t, endedAt |-> Null, cycles |-> 1]
    BY DEF Row, Shown
  <2>4. RowsIn(E.outages, scope) = RowsIn(outages, scope) \cup {Shown(n)}
    BY <2>2, <2>3 DEF RowsIn
  <2>5. \A s : s # scope => RowsIn(E.outages, s) = RowsIn(outages, s)
    BY <2>2, <2>3 DEF RowsIn
  <2>6. E.open[scope] = o /\ \A s \in Scopes : s # scope => E.open[s] = open[s]
    BY <1>4, <2>2
  <2>7. Gateway!Runs(G) = Gateway!Runs(H) \cup {[startedAt |-> t, endedAt |-> Null, cycles |-> 1]}
    BY <1>1, <1>3, <1>5, RunsDown
  <2>8. EvaluateScope(S, scope, t) = E
    BY <1>1, <1>5 DEF EvaluateScope
  <2>9. RowsIn(E.outages, scope) = Gateway!Runs(G)
    BY <2>3, <2>4, <2>7
  <2>10. o.lastTs = t
    OBVIOUS
  <2>11. Fits(E)
    <3> HIDE DEF RowsIn
    <3> QED BY <2>5, <2>6, <2>9, <2>10
  <2> QED BY <2>8, <2>11
<1>6. CASE open[scope] = Null /\ ~Down(scope, t)
  <2>1. Gateway!Runs(G) = Gateway!Runs(H)
    BY <1>1, <1>3, <1>6, RunsUp
  <2>2. EvaluateScope(S, scope, t) = S
    BY <1>1, <1>6 DEF EvaluateScope
  <2> QED BY <1>1, <1>6, <2>1, <2>2
<1>7. CASE open[scope] # Null /\ Down(scope, t)
  <2> DEFINE p == open[scope]
  <2>1. p \in OpenOutage
    BY <1>7 DEF Opens
  <2>0. PICK o : o = [p EXCEPT !.lastTs = t, !.cycles = @ + 1]
    OBVIOUS
  <2> PICK rows : rows = Rewritten(S, scope, o, Null)
    OBVIOUS
  <2> PICK E : E = Extended(S, scope, t)
    OBVIOUS
  <2>2. o.startedAt = p.startedAt /\ o.lastTs = t /\ o.cycles = p.cycles + 1
    <3>1. p = [startedAt |-> p.startedAt, lastTs |-> p.lastTs, cycles |-> p.cycles]
      BY <1>2, <2>1
    <3> HIDE DEF p
    <3>2. o = [startedAt |-> p.startedAt, lastTs |-> t, cycles |-> p.cycles + 1]
      BY <2>0, <3>1
    <3> QED BY <3>2
  <2>3. E = [S EXCEPT !.open[scope] = o, !.outages = rows]
    BY <1>1, <2>0 DEF Extended, Rewritten
  <2>4. E.open = [open EXCEPT ![scope] = o] /\ E.outages = rows
    BY <2>3, MachineStep
  <2>5. /\ RowsIn(rows, scope) = Renewed(RowsIn(outages, scope), o.startedAt, Null, o.cycles)
        /\ \A s : s # scope => RowsIn(rows, s) = RowsIn(outages, s)
    BY <1>1, RowRewritten
  <2>6. E.open[scope] = o /\ \A s \in Scopes : s # scope => E.open[s] = open[s]
    BY <1>4, <2>4
  <2>7. Gateway!Runs(G) = Renewed(Gateway!Runs(H), p.startedAt, Null, Cardinality(Gateway!RunFrom(H, p.startedAt)) + 1)
    BY <1>1, <1>3, <1>7, RunsDown DEF Renewed
  <2>8. EvaluateScope(S, scope, t) = E
    BY <1>1, <1>2, <1>7, <2>1 DEF EvaluateScope
  <2>9. RowsIn(E.outages, scope) = Gateway!Runs(G)
    <3>1. o.startedAt = p.startedAt /\ o.cycles = Cardinality(Gateway!RunFrom(H, p.startedAt)) + 1
      BY <1>3, <1>7, <2>2
    <3> HIDE DEF p
    <3> QED BY <2>4, <2>5, <2>7, <3>1
  <2>10. Fits(E)
    BY <2>2, <2>4, <2>5, <2>6, <2>9
  <2> QED BY <2>8, <2>10
<1>8. CASE open[scope] # Null /\ ~Down(scope, t)
  <2> PICK p : p = open[scope]
    OBVIOUS
  <2>1. p \in OpenOutage
    BY <1>8 DEF Opens
  <2> PICK rows : rows = Rewritten(S, scope, p, t)
    OBVIOUS
  <2> PICK E : E = Closed(S, scope, t)
    OBVIOUS
  <2>3. E = [S EXCEPT !.open[scope] = Null, !.outages = rows]
    BY <1>1 DEF Closed, Rewritten
  <2>4. E.open = [open EXCEPT ![scope] = Null] /\ E.outages = rows
    BY <2>3, MachineStep
  <2>5. /\ RowsIn(rows, scope) = Renewed(RowsIn(outages, scope), p.startedAt, t, p.cycles)
        /\ \A s : s # scope => RowsIn(rows, s) = RowsIn(outages, s)
    BY <1>1, RowRewritten
  <2>6. E.open[scope] = Null /\ \A s \in Scopes : s # scope => E.open[s] = open[s]
    BY <1>4, <2>4
  <2>7. Gateway!Runs(G) = Renewed(Gateway!Runs(H), p.startedAt, t, Cardinality(Gateway!RunFrom(H, p.startedAt)))
    BY <1>1, <1>3, <1>8, RunsUp DEF Renewed
  <2>8. EvaluateScope(S, scope, t) = E
    BY <1>1, <1>2, <1>8, <2>1 DEF EvaluateScope
  <2>9. RowsIn(E.outages, scope) = Gateway!Runs(G)
    BY <1>3, <1>8, <2>4, <2>5, <2>7
  <2>10. Fits(E)
    BY <2>4, <2>5, <2>6, <2>9
  <2> QED BY <2>8, <2>10
<1> QED BY <1>5, <1>6, <1>7, <1>8
-----------------------------------------------------------------------------
(* The machine and what it was fed. *)

\* The cycles K as scope s saw them.
Seen(s, K) == {[ts |-> t, down |-> Down(s, t)] : t \in K}

\* The rows of scope s are the runs among the cycles K, and the machine knows of none later.
Follows(open, outages, s, K) ==
  /\ RowsIn(outages, s) = Gateway!Runs(Seen(s, K))
  /\ open[s] # Null => open[s].lastTs \in K

LEMMA SeenFacts ==
  ASSUME NEW s, NEW K \in SUBSET Times
  PROVE  IsFiniteSet(Seen(s, K)) /\ \A c \in Seen(s, K) : c.ts \in K /\ c.ts \in Nat
<1> DEFINE f == [t \in K |-> [ts |-> t, down |-> Down(s, t)]]
<1>1. IsFiniteSet(K)
  <2>1. IsFiniteSet(Times)
    BY FS_Interval, PipelineAssumption DEF Times
  <2> QED BY <2>1, FS_Subset
<1>2. f \in Surjection(K, Seen(s, K))
  <2>1. \A t \in K : f[t] = [ts |-> t, down |-> Down(s, t)]
    OBVIOUS
  <2>2. f \in [K -> Seen(s, K)] /\ \A c \in Seen(s, K) : \E t \in K : f[t] = c
    BY <2>1 DEF Seen
  <2> QED BY <2>2 DEF Surjection
<1>3. IsFiniteSet(Seen(s, K))
  BY <1>1, <1>2, FS_Surjection
<1> QED BY <1>3 DEF Seen, Times

\* One more cycle, newer than the others.
LEMMA FollowsOn ==
  ASSUME NEW open \in Opens, NEW outages \in SUBSET OutageRow, InStep(open, outages),
         NEW S, S = [open |-> open, outages |-> outages],
         NEW scope \in Scopes, NEW t \in Times,
         NEW K \in SUBSET Times, \A u \in K : u < t, Follows(open, outages, scope, K)
  PROVE  LET E == EvaluateScope(S, scope, t)
         IN /\ Follows(E.open, E.outages, scope, K \cup {t})
            /\ \A s \in Scopes : \A L : s # scope /\ Follows(open, outages, s, L) => Follows(E.open, E.outages, s, L)
<1> DEFINE E == EvaluateScope(S, scope, t)
<1>1. PICK e : /\ e.ts = t /\ (e.down <=> Down(scope, t))
              /\ Seen(scope, K \cup {t}) = Seen(scope, K) \cup {e}
  <2>1. Seen(scope, K \cup {t}) = Seen(scope, K) \cup {[ts |-> t, down |-> Down(scope, t)]}
    BY DEF Seen
  <2> QED BY <2>1
<1>2. PICK H : H = Seen(scope, K)
  OBVIOUS
<1>3. /\ IsFiniteSet(H) /\ \A c \in H : c.ts \in Nat /\ c.ts < t
      /\ RowsIn(outages, scope) = Gateway!Runs(H)
      /\ open[scope] # Null => open[scope].lastTs < t
  BY <1>2, SeenFacts DEF Follows
<1>4. /\ RowsIn(E.outages, scope) = Gateway!Runs(H \cup {e})
      /\ E.open[scope] # Null => E.open[scope].lastTs = t
      /\ \A s \in Scopes : s # scope =>
           RowsIn(E.outages, s) = RowsIn(outages, s) /\ E.open[s] = open[s]
  BY <1>1, <1>3, ScopeFed
<1> HIDE DEF E
<1>5. Follows(E.open, E.outages, scope, K \cup {t})
  BY <1>1, <1>2, <1>4 DEF Follows
<1>6. ASSUME NEW s \in Scopes, NEW L, s # scope, Follows(open, outages, s, L)
      PROVE  Follows(E.open, E.outages, s, L)
  BY <1>4, <1>6 DEF Follows
<1> QED BY <1>5, <1>6 DEF E
\* While no cycle has been overtaken, the machine follows the cycles it was fed.
FedWhatIsStored == \A s \in Scopes : applied[s] \subseteq db.samples
RowsAreRuns == belated = {} => \A s \in Scopes : RowsIn(db.outages, s) = Gateway!Runs(Seen(s, applied[s]))
MarkIsFed ==
  belated = {} /\ srv.up => \A s \in Scopes : srv.open[s] # Null => srv.open[s].lastTs \in applied[s]
FollowInv == FedWhatIsStored /\ RowsAreRuns /\ MarkIsFed

\* A scope that is fed is fed a newer cycle.
Newer(s, t) == applied'[s] = applied[s] \cup {t} /\ \A u \in applied[s] : u < t

\* The writes of a batch: those that feed a scope, feed it the newest cycle.
LEMMA PutFollows ==
  ASSUME PipeInv, FollowInv, srv.up, NEW t \in net, t \notin db.samples, NEW k \in 0..Writes, Put(t, k)
  PROVE  /\ FedWhatIsStored'
         /\ belated' = {} => \A s \in Scopes :
              /\ applied'[s] = applied[s] \/ Newer(s, t)
              /\ Follows(Written(t, k).open, db'.outages, s, applied'[s])
<1>1. /\ t \in Times /\ t \in Nat /\ db.samples \subseteq Times /\ db.outages \in SUBSET OutageRow
      /\ srv.open \in Opens /\ InStep(srv.open, db.outages)
      /\ applied \in [Scopes -> SUBSET Times] /\ TypeOK /\ Memory
  BY DEF PipeInv, TypeOK, Times, Opens, Memory
<1>2. /\ applied'["gateway"] = (IF k >= 4 THEN applied["gateway"] \cup {t} ELSE applied["gateway"])
      /\ applied'["wan"] = (IF k >= 5 THEN applied["wan"] \cup {t} ELSE applied["wan"])
      /\ db' = Written(t, k).db
  BY <1>1 DEF Put, Scopes
<1>3. db'.samples = IF k >= 1 THEN db.samples \cup {t} ELSE db.samples
  BY <1>1, <1>2, WrittenFacts
<1>4. FedWhatIsStored'
  BY <1>2, <1>3 DEF FollowInv, FedWhatIsStored, Scopes
<1>5. ASSUME belated' = {}
      PROVE  \A s \in Scopes : /\ applied'[s] = applied[s] \/ Newer(s, t)
                               /\ Follows(Written(t, k).open, db'.outages, s, applied'[s])
  <2>1. belated = {} /\ (k >= 1 => \A u \in db.samples : ~(u > t))
    BY <1>5 DEF Put
  <2>2. ASSUME k >= 1, NEW s \in Scopes PROVE \A u \in applied[s] : u < t
    BY <1>1, <2>1, <2>2 DEF FollowInv, FedWhatIsStored, Times
  <2>3. PICK S : S = [open |-> srv.open, outages |-> db.outages]
    OBVIOUS
  <2>4. PICK G : G = IF k >= 4 THEN EvaluateScope(S, "gateway", t) ELSE S
    OBVIOUS
  <2>5. PICK W : W = IF k >= 5 THEN EvaluateScope(G, "wan", t) ELSE G
    OBVIOUS
  <2>6. Written(t, k).open = W.open /\ Written(t, k).db.outages = W.outages
    BY <2>3, <2>4, <2>5, Zenon DEF Written
  <2>7. S.open = srv.open /\ S.outages = db.outages
    BY <2>3
  <2>8. \A s \in Scopes : Follows(srv.open, db.outages, s, applied[s])
    BY <2>1 DEF FollowInv, RowsAreRuns, MarkIsFed, Follows
  <2>9. /\ G.open \in Opens /\ G.outages \in SUBSET OutageRow /\ InStep(G.open, G.outages)
        /\ G = [open |-> G.open, outages |-> G.outages]
        /\ Follows(G.open, G.outages, "gateway", applied'["gateway"])
        /\ Follows(G.open, G.outages, "wan", applied["wan"])
    <3>1. CASE k >= 4
      <4>1. G = EvaluateScope(S, "gateway", t)
        BY <2>4, <3>1
      <4>2. /\ Follows(G.open, G.outages, "gateway", applied["gateway"] \cup {t})
            /\ Follows(G.open, G.outages, "wan", applied["wan"])
        BY <1>1, <2>2, <2>3, <2>8, <3>1, <4>1, FollowsOn DEF Scopes
      <4>3. /\ G.open \in Opens /\ G.outages \in SUBSET OutageRow /\ InStep(G.open, G.outages)
            /\ G = [open |-> G.open, outages |-> G.outages]
        BY <1>1, <2>3, <4>1, EvaluateFacts DEF Scopes
      <4> QED BY <1>2, <3>1, <4>2, <4>3
    <3>2. CASE ~(k >= 4)
      BY <1>1, <1>2, <2>3, <2>4, <2>7, <2>8, <3>2 DEF Scopes
    <3> QED BY <3>1, <3>2
  <2>10. /\ Follows(W.open, W.outages, "gateway", applied'["gateway"])
         /\ Follows(W.open, W.outages, "wan", applied'["wan"])
    <3>1. CASE k >= 5
      <4>1. W = EvaluateScope(G, "wan", t) /\ "wan" \in Scopes /\ "gateway" \in Scopes
        BY <2>5, <3>1 DEF Scopes
      <4>2. \A u \in applied["wan"] : u < t
        BY <2>2, <3>1, <4>1
      <4>3. /\ Follows(W.open, W.outages, "wan", applied["wan"] \cup {t})
            /\ Follows(W.open, W.outages, "gateway", applied'["gateway"])
        BY <1>1, <2>9, <4>1, <4>2, FollowsOn
      <4> QED BY <1>2, <3>1, <4>3
    <3>2. CASE ~(k >= 5)
      BY <1>2, <2>5, <2>9, <3>2
    <3> QED BY <3>1, <3>2
  <2>11. \A s \in Scopes : applied'[s] = applied[s] \/ Newer(s, t)
    BY <1>2, <2>2 DEF Newer, Scopes
  <2> QED BY <1>2, <2>6, <2>10, <2>11 DEF Scopes
<1> QED BY <1>4, <1>5

\* A machine that starts knows of the runs that go on, and of none later.
LEMMA LoadedFollows ==
  ASSUME NEW outages \in SUBSET OutageRow, NEW s \in Scopes, NEW K \in SUBSET Times,
         RowsIn(outages, s) = Gateway!Runs(Seen(s, K))
  PROVE  Loaded(outages)[s] # Null => Loaded(outages)[s].lastTs \in K
<1> SUFFICES ASSUME Loaded(outages)[s] # Null PROVE Loaded(outages)[s].lastTs \in K
  OBVIOUS
<1> DEFINE ongoing == {r \in outages : r.scope = s /\ r.endedAt = Null}
           r == CHOOSE r \in ongoing : TRUE
<1>1. /\ r \in ongoing
      /\ Loaded(outages)[s] = [startedAt |-> r.startedAt, lastTs |-> r.startedAt, cycles |-> r.cycles]
  BY DEF Loaded
<1> HIDE DEF r
<1>2. Shown(r) \in Gateway!Runs(Seen(s, K))
  BY <1>1 DEF RowsIn
<1>3. PICK a \in Gateway!Starts(Seen(s, K)) : Shown(r) = RunAt(Seen(s, K), a)
  BY <1>2, RunsAt
<1>4. r.startedAt = a
  BY <1>3 DEF Shown, RunAt
<1>5. a \in K
  BY <1>3, SeenFacts DEF Gateway!Starts
<1> QED BY <1>1, <1>4, <1>5

\* Either nothing is fed, and the machine stays, stops or starts; or a new batch is written,
\* whole or in part.
LEMMA StepKinds ==
  ASSUME PipeInv, [Next]_vars
  PROVE  /\ line' = line /\ allowed' = allowed
         /\ \/ /\ UNCHANGED <<db, belated, applied>>
               /\ srv' = srv \/ ~srv'.up \/ srv'.open = Loaded(db.outages)
            \/ \E t \in net, k \in 0..Writes :
                 /\ srv.up /\ t \notin db.samples /\ Put(t, k)
                 /\ ~srv'.up \/ srv'.open = Written(t, k).open
<1>1. line' = line /\ allowed' = allowed
  BY DEF Next, vars, CollectorStep, Measure, Send, NoAnswer, TornAppend, CollectorStarts, ServerDies,
     ServerStarts, CollectorDies, Serve, Handle, Refuse, HandleUnheard, HandleThrows, HandleDies
<1>2. \A o, open : [up |-> FALSE, open |-> o].up = FALSE /\ [up |-> TRUE, open |-> open].open = open
  OBVIOUS
<1>3. CASE CollectorStep \/ TornAppend \/ CollectorStarts \/ ServerDies \/ ServerStarts
           \/ (\E arrived \in BOOLEAN : CollectorDies(arrived)) \/ UNCHANGED vars
  <2>1. UNCHANGED <<db, belated, applied>>
    BY <1>3 DEF CollectorStep, Measure, Send, NoAnswer, TornAppend, CollectorStarts, ServerDies,
       ServerStarts, CollectorDies, vars
  <2>2. srv' = srv \/ ~srv'.up \/ srv'.open = Loaded(db.outages)
    BY <1>2, <1>3 DEF CollectorStep, Measure, Send, NoAnswer, TornAppend, CollectorStarts, ServerDies,
       ServerStarts, CollectorDies, vars
  <2> QED BY <1>1, <2>1, <2>2
<1>4. ASSUME NEW t \in net, srv.up, Store(t)
      PROVE  \/ UNCHANGED <<db, belated, applied>> /\ srv' = srv
             \/ t \notin db.samples /\ Put(t, Writes) /\ srv'.open = Written(t, Writes).open
  <2>1. CASE t \in db.samples
    BY <1>4, <2>1 DEF Store
  <2>2. CASE t \notin db.samples
    <3>1. Put(t, Writes) /\ srv' = [srv EXCEPT !.open = Written(t, Writes).open]
      BY <1>4, <2>2 DEF Store
    <3>2. srv'.open = Written(t, Writes).open
      BY <3>1, FrameFacts DEF Frame
    <3> QED BY <2>2, <3>1, <3>2
  <2> QED BY <2>1, <2>2
<1>5. CASE Serve \/ \E t \in net : HandleUnheard(t)
  <2>1. CASE \E t \in net : Refuse(t)
    BY <1>1, <2>1 DEF Refuse
  <2>2. CASE \E t \in net : srv.up /\ Store(t)
    <3>1. Writes \in 0..Writes
      BY DEF Writes
    <3> QED BY <1>1, <1>4, <2>2, <3>1
  <2> QED BY <1>5, <2>1, <2>2 DEF Serve, Handle, HandleUnheard
<1>6. CASE \/ \E t \in net, k \in 0..(Writes - 1) : HandleThrows(t, k)
           \/ \E t \in net, k \in 1..(Writes - 1) : HandleDies(t, k)
  <2>1. PICK t \in net, k \in 0..Writes : HandleThrows(t, k) \/ HandleDies(t, k)
    BY <1>6 DEF Writes
  <2>2. srv.up /\ t \notin db.samples /\ Put(t, k)
    BY <2>1 DEF HandleThrows, HandleDies
  <2>3. CASE HandleThrows(t, k)
    <3>1. srv' = [srv EXCEPT !.open = Written(t, k).open]
      BY <2>3 DEF HandleThrows
    <3>2. srv'.open = Written(t, k).open
      BY <3>1, FrameFacts DEF Frame
    <3> QED BY <1>1, <2>2, <3>2
  <2>4. CASE HandleDies(t, k)
    <3>1. ~srv'.up
      BY <1>2, <2>4 DEF HandleDies
    <3> QED BY <1>1, <2>2, <3>1
  <2> QED BY <2>1, <2>3, <2>4
<1> QED BY <1>3, <1>5, <1>6 DEF Next

LEMMA FollowInit == Init => FollowInv
<1> SUFFICES ASSUME Init PROVE FollowInv
  OBVIOUS
<1>1. db.outages = {} /\ applied = [s \in Scopes |-> {}] /\ srv.open = NoneOpen
  BY DEF Init
<1>2. \A s \in Scopes : applied[s] = {} /\ srv.open[s] = Null
  BY <1>1 DEF NoneOpen
<1>3. \A s : RowsIn({}, s) = {} /\ Seen(s, {}) = {}
  BY DEF RowsIn, Seen
<1>4. Gateway!Runs({}) = {}
  BY DEF Gateway!Runs, Gateway!Starts
<1>5. RowsAreRuns
  BY <1>1, <1>2, <1>3, <1>4, Zenon DEF RowsAreRuns
<1> QED BY <1>2, <1>5 DEF FollowInv, FedWhatIsStored, MarkIsFed

LEMMA FollowStep ==
  ASSUME PipeInv, FollowInv, [Next]_vars
  PROVE  FollowInv'
<1>1. PipeInv'
  BY PipeStep
<1>2. line' = line /\ allowed' = allowed
  BY StepKinds
<1>3. \A s, K : Seen(s, K)' = Seen(s, K)
  BY <1>2 DEF Seen, Down
<1>4. CASE /\ UNCHANGED <<db, belated, applied>>
           /\ srv' = srv \/ ~srv'.up \/ srv'.open = Loaded(db.outages)
  <2>0. db' = db /\ belated' = belated /\ applied' = applied
    BY <1>4
  <2>1. FedWhatIsStored' /\ RowsAreRuns'
    BY <1>3, <2>0 DEF FollowInv, FedWhatIsStored, RowsAreRuns
  <2>2. ASSUME srv' = srv PROVE MarkIsFed'
    BY <2>0, <2>2 DEF FollowInv, MarkIsFed
  <2>4. ASSUME ~srv'.up PROVE MarkIsFed'
    BY <2>4 DEF MarkIsFed
  <2>3. ASSUME srv'.open = Loaded(db.outages) PROVE MarkIsFed'
    <3> SUFFICES ASSUME belated = {}, NEW s \in Scopes, srv'.open[s] # Null
                 PROVE  srv'.open[s].lastTs \in applied[s]
      BY <2>0 DEF MarkIsFed
    <3>1. db.outages \in SUBSET OutageRow /\ applied[s] \in SUBSET Times
      BY FrameFacts DEF Frame, Tables
    <3> QED BY <2>3, <3>1, LoadedFollows DEF FollowInv, RowsAreRuns
  <2> QED BY <1>4, <2>1, <2>2, <2>3, <2>4 DEF FollowInv
<1>5. CASE \E t \in net, k \in 0..Writes :
             /\ srv.up /\ t \notin db.samples /\ Put(t, k)
             /\ ~srv'.up \/ srv'.open = Written(t, k).open
  <2>1. PICK t \in net, k \in 0..Writes :
          /\ srv.up /\ t \notin db.samples /\ Put(t, k)
          /\ ~srv'.up \/ srv'.open = Written(t, k).open
    BY <1>5
  <2>2. /\ FedWhatIsStored'
        /\ belated' = {} => \A s \in Scopes : Follows(Written(t, k).open, db'.outages, s, applied'[s])
    BY <2>1, PutFollows
  <2>3. RowsAreRuns'
    BY <1>3, <2>2 DEF RowsAreRuns, Follows
  <2>4. MarkIsFed'
    BY <2>1, <2>2 DEF MarkIsFed, Follows
  <2> QED BY <2>2, <2>3, <2>4 DEF FollowInv
<1> QED BY <1>4, <1>5, StepKinds

LEMMA FollowAlways == Spec => []FollowInv
<1>1. PipeInv /\ FollowInv /\ [Next]_vars => FollowInv'
  BY FollowStep
<1> QED BY <1>1, FollowInit, PipeAlways, PTL DEF Spec

\* The rows of each scope are the runs of the cycles it was fed.
RowsAreTheRuns == belated = {} => \A s \in Scopes : RowsOf(s) = Gateway!Runs(Fed(s))

\* Whatever dies, is lost, comes late or is cut short: while no cycle has been overtaken, the
\* rows of a scope are the unbroken runs of down cycles among those it was fed, each ended by
\* the cycle that ended it and with its cycles counted once (outage-detector.ts evaluateScope,
\* load; probes.ts).
THEOREM OutagesAreRuns == Spec => []RowsAreTheRuns
<1>1. FollowInv => RowsAreTheRuns
  BY DEF FollowInv, RowsAreRuns, RowsAreTheRuns, RowsOf, RowsIn, Shown, Fed, Seen
<1> QED BY <1>1, FollowAlways, PTL

-----------------------------------------------------------------------------
(* Where no request outlives its sender, the cycles come in their order. *)

\* The cycles the collector has in its file or in its hand.
InHand ==
  (ToSet(spool) \ {Torn}) \cup ToSet(col.todo) \cup (IF col.pc = "idle" THEN {} ELSE {col.current})

\* What is on its way is what the collector waits for; what it has yet to send is not older
\* than the record.
Ahead ==
  /\ belated = {}
  /\ net # {} => col.pc = "waiting" /\ net = {Sending} /\ col.up
  /\ \A u \in db.samples : u <= now
  /\ \A t \in InHand : t \in db.samples \/ \A u \in db.samples : u < t

\* The batch being sent is the oldest of those in hand, but for those stored.
LEMMA SendingFirst ==
  ASSUME PipeInv, col.pc # "idle"
  PROVE  /\ Sending \in InHand /\ Sending <= now
         /\ \A t \in InHand : t \in Nat /\ (t \in db.samples \/ Sending <= t)
<1>1. Collects /\ col.current = now /\ now \in Times /\ Torn \notin ToSet(spool)
  BY CollectsFacts DEF Collects, Hand
<1>2. /\ col.todo \in Seq(Times) /\ Ordered(col.todo) /\ spool \in Seq(Times \cup {Torn})
      /\ \A t \in ToSet(spool) \cup ToSet(col.todo) : t <= now /\ t \in Times
  BY <1>1, SeqFacts DEF Collects, ColShape, Files
<1>3. InHand = ToSet(spool) \cup ToSet(col.todo) \cup {now}
  BY <1>1 DEF InHand
<1>4. \A t \in InHand : t \in Nat
  BY <1>1, <1>2, <1>3 DEF Times
<1>5. CASE col.todo = <<>>
  <2>1. Sending = now /\ spool = <<>>
    BY <1>1, <1>5 DEF Sending, Collects, Files
  <2>2. InHand = {now}
    BY <1>3, <1>5, <2>1, EmptyFacts
  <2> QED BY <1>4, <2>1, <2>2
<1>6. CASE col.todo # <<>>
  <2>1. Sending = Head(col.todo)
    BY <1>6 DEF Sending
  <2>2. Sending \in ToSet(col.todo) /\ \A t \in ToSet(col.todo) : Sending <= t
    BY <1>2, <1>6, <2>1, TailFacts, OrderedTail
  <2>3. ToSet(spool) \subseteq ToSet(col.todo) \cup db.samples
    BY <1>1, <1>6 DEF Collects, Files
  <2> QED BY <1>2, <1>3, <1>4, <2>2, <2>3
<1> QED BY <1>5, <1>6

\* A batch accepted leaves the hand, one that was not goes back to the file.
LEMMA AcceptedHand ==
  ASSUME PipeInv, col.pc # "idle", Accepted
  PROVE  InHand' \subseteq InHand
<1>1. /\ col = [up |-> col.up, pc |-> col.pc, current |-> col.current, todo |-> col.todo, count |-> col.count]
      /\ col.todo \in Seq(Times)
  BY CollectsFacts DEF Collects, ColShape
<1>2. CASE col.todo = <<>>
  <2>1. col' = [col EXCEPT !.pc = "idle", !.current = Null] /\ spool' = spool
    BY <1>2 DEF Accepted
  <2>2. col' = [up |-> col.up, pc |-> "idle", current |-> Null, todo |-> col.todo, count |-> col.count]
    BY <1>1, <2>1
  <2>3. col'.pc = "idle" /\ col'.todo = col.todo
    BY <2>2
  <2> QED BY <2>1, <2>3 DEF InHand
<1>3. CASE col.todo # <<>>
  <2> PICK rest : rest = Tail(col.todo)
    OBVIOUS
  <2> PICK c : c = IF rest = <<>> THEN 0 ELSE col.count
    OBVIOUS
  <2>1. /\ col' = [col EXCEPT !.pc = "sending", !.todo = rest, !.count = c]
        /\ spool' = IF rest = <<>> THEN <<>> ELSE spool
    BY <1>1, <1>3 DEF Accepted
  <2>2. col' = [up |-> col.up, pc |-> "sending", current |-> col.current, todo |-> rest, count |-> c]
    BY <1>1, <2>1
  <2>3. col'.current = col.current /\ col'.todo = rest
    BY <2>2
  <2>4. ToSet(rest) \subseteq ToSet(col.todo)
    BY <1>1, <1>3, TailFacts
  <2>5. ToSet(spool') \subseteq ToSet(spool)
    BY <2>1, EmptyFacts
  <2> QED BY <2>3, <2>4, <2>5 DEF InHand
<1> QED BY <1>2, <1>3

LEMMA FailedHand ==
  ASSUME PipeInv, col.pc # "idle", NEW torn \in BOOLEAN, Failed(torn)
  PROVE  InHand' \subseteq InHand
<1>1. /\ col = [up |-> col.up, pc |-> col.pc, current |-> col.current, todo |-> col.todo, count |-> col.count]
      /\ col.todo \in Seq(Times) /\ spool \in Seq(Times \cup {Torn}) /\ col.current \in Times
  BY CollectsFacts DEF Collects, ColShape, Hand
<1>2. Remainder \in Seq(Times \cup {Torn}) /\ ToSet(Remainder) \subseteq ToSet(spool) \cup ToSet(col.todo)
  <2>1. col.todo \in Seq(Times \cup {Torn})
    BY <1>1, SeqMonotonic
  <2> QED BY <1>1, <2>1 DEF Remainder
<1>3. col'.pc = "idle" /\ col'.todo = <<>>
  <2>1. CASE torn
    <3>1. col' = DeadCol
      BY <2>1 DEF Failed
    <3> QED BY <3>1 DEF DeadCol
  <2>2. CASE ~torn
    <3>1. PICK c : col' = [col EXCEPT !.pc = "idle", !.current = Null, !.todo = <<>>, !.count = c]
      BY <2>2 DEF Failed
    <3>2. col' = [up |-> col.up, pc |-> "idle", current |-> Null, todo |-> <<>>, count |-> c]
      BY <1>1, <3>1
    <3> QED BY <3>2
  <2> QED BY <2>1, <2>2
<1>4. PICK e \in {Torn, col.current} : spool' \in {Remainder, Append(Remainder, e)}
  <2>1. spool' \in {Remainder, Append(Remainder, IF torn THEN Torn ELSE col.current)}
    BY DEF Failed
  <2> QED BY <2>1
<1>5. ToSet(spool') \subseteq ToSet(Remainder) \cup {e}
  <2>1. ToSet(Append(Remainder, e)) = ToSet(Remainder) \cup {e}
    BY <1>1, <1>2, AppendFacts
  <2> QED BY <1>4, <2>1
<1> QED BY <1>2, <1>3, <1>5, EmptyFacts DEF InHand

\* Nothing is stored, nothing on its way, and what is taken in hand is the newest cycle.
LEMMA AheadUnfed ==
  ASSUME PipeInv, Ahead, UNCHANGED <<db, belated>>, net' = {},
         now' \in Nat, now <= now', InHand' \subseteq InHand \cup {now'}
  PROVE  Ahead'
<1>1. db.samples \subseteq Nat /\ now \in Nat
  BY FrameFacts, CollectsFacts DEF Frame, Tables, Collects, Times
<1>2. \A u \in db.samples : u <= now'
  BY <1>1 DEF Ahead
<1>3. ASSUME NEW t \in InHand' PROVE t \in db.samples \/ \A u \in db.samples : u < t
  <2>1. CASE t \in InHand
    BY <2>1 DEF Ahead
  <2>2. CASE t = now'
    BY <1>1, <1>2, <2>2
  <2> QED BY <2>1, <2>2
<1> QED BY <1>2, <1>3 DEF Ahead

\* The batch on its way is handled: nothing it overtakes is left in hand.
LEMMA AheadFed ==
  ASSUME PipeInv, Ahead, NEW t \in net, net' = {}, now' = now, InHand' \subseteq InHand,
         \/ UNCHANGED <<db, belated>>
         \/ \E k \in 0..Writes : srv.up /\ t \notin db.samples /\ Put(t, k)
  PROVE  Ahead'
<1>1. /\ db.samples \subseteq Nat /\ now \in Nat /\ t \in Nat
  BY FrameFacts, CollectsFacts DEF Frame, Tables, Collects, Times
<1>2. CASE UNCHANGED <<db, belated>>
  BY <1>1, <1>2, AheadUnfed
<1>3. CASE \E k \in 0..Writes : srv.up /\ t \notin db.samples /\ Put(t, k)
  <2>1. t = Sending /\ col.pc # "idle"
    BY DEF Ahead
  <2>2. t \in InHand /\ t <= now /\ \A x \in InHand : x \in Nat /\ (x \in db.samples \/ t <= x)
    BY <2>1, SendingFirst
  <2>3. \A u \in db.samples : u < t
    BY <1>3, <2>2 DEF Ahead
  <2>4. db'.samples \subseteq db.samples \cup {t} /\ db.samples \subseteq db'.samples
    BY <1>3, PutFacts
  <2>5. t \in db'.samples \/ db'.samples = db.samples
    BY <2>4
  <2>6. belated' = {}
    <3>1. \A u \in db.samples : ~(u > t)
      BY <1>1, <2>3
    <3>2. belated' = belated
      BY <1>3, <3>1 DEF Put
    <3> QED BY <3>2 DEF Ahead
  <2>7. \A u \in db'.samples : u <= now'
    BY <2>2, <2>4 DEF Ahead
  <2>8. ASSUME NEW x \in InHand PROVE x \in db'.samples \/ \A u \in db'.samples : u < x
    <3>1. CASE db'.samples = db.samples
      BY <3>1 DEF Ahead
    <3>2. CASE t \in db'.samples
      <4>1. x \in db.samples \/ x = t \/ (t < x /\ \A u \in db.samples : u < x)
        BY <1>1, <2>2 DEF Ahead
      <4> QED BY <2>4, <3>2, <4>1
    <3> QED BY <2>5, <3>1, <3>2
  <2> QED BY <2>6, <2>7, <2>8 DEF Ahead
<1> QED BY <1>2, <1>3

LEMMA AheadMeasure == ASSUME PipeInv, Ahead, Measure PROVE Ahead'
<1>1. /\ Collects /\ col.pc = "idle" /\ col.current = Null
      /\ col = [up |-> col.up, pc |-> col.pc, current |-> col.current, todo |-> col.todo, count |-> col.count]
  BY CollectsFacts DEF Collects, ColShape, Measure, Hand
<1>2. now' \in Nat /\ now <= now'
  BY <1>1, PipelineAssumption DEF Measure, Collects
<1>3. InHand' \subseteq InHand \cup {now'}
  <2>1. CASE Torn \in ToSet(spool)
    <3>1. col' = DeadCol /\ spool' = spool
      BY <2>1 DEF Measure
    <3> QED BY <3>1, EmptyFacts DEF DeadCol, InHand
  <2>2. CASE Torn \notin ToSet(spool)
    <3>1. col' = [col EXCEPT !.pc = "sending", !.current = now', !.todo = spool] /\ spool' = spool
      BY <2>2 DEF Measure, Backlog
    <3>2. col' = [up |-> col.up, pc |-> "sending", current |-> now', todo |-> spool, count |-> col.count]
      BY <1>1, <3>1
    <3>3. col'.current = now' /\ col'.todo = spool
      BY <3>2
    <3> QED BY <2>2, <3>1, <3>3 DEF InHand
  <2> QED BY <2>1, <2>2
<1>4. net' = {}
  BY <1>1 DEF Ahead, Measure
<1> QED BY <1>2, <1>3, <1>4, AheadUnfed DEF Measure

LEMMA AheadSend == ASSUME PipeInv, Ahead, Send PROVE Ahead'
<1>1. col = [up |-> col.up, pc |-> col.pc, current |-> col.current, todo |-> col.todo, count |-> col.count]
  BY CollectsFacts DEF Collects, ColShape
<1>2. col' = [up |-> col.up, pc |-> "waiting", current |-> col.current, todo |-> col.todo, count |-> col.count]
  BY <1>1 DEF Send
<1>3. /\ col'.pc = "waiting" /\ col'.up /\ col'.current = col.current /\ col'.todo = col.todo
      /\ col.pc = "sending"
  BY <1>2 DEF Send
<1>4. InHand' = InHand /\ Sending' = Sending
  BY <1>3 DEF InHand, Sending, Send
<1>5. net' = {Sending}
  BY <1>3 DEF Ahead, Send
<1> QED BY <1>3, <1>4, <1>5 DEF Ahead, Send

\* The collector gives up waiting, or dies.
LEMMA AheadAlone ==
  ASSUME PipeInv, Ahead, "late" \notin allowed,
         \/ \E arrived \in BOOLEAN : NoAnswer(arrived) \/ CollectorDies(arrived)
         \/ TornAppend \/ CollectorStarts
  PROVE  Ahead'
<1>1. now \in Nat /\ now <= now
  BY CollectsFacts DEF Collects
<1>2. CASE \/ \E arrived \in BOOLEAN : NoAnswer(arrived)
           \/ TornAppend
  <2>1. /\ net' = net \ {Sending} /\ UNCHANGED <<now, db, belated>> /\ col.pc # "idle"
        /\ \E torn \in BOOLEAN : Failed(torn)
    BY <1>2 DEF NoAnswer, TornAppend
  <2>2. net' = {}
    BY <2>1 DEF Ahead
  <2>3. InHand' \subseteq InHand
    BY <2>1, FailedHand
  <2> QED BY <1>1, <2>1, <2>2, <2>3, AheadUnfed
<1>3. CASE \E arrived \in BOOLEAN : CollectorDies(arrived)
  <2>1. net' = {} /\ col' = DeadCol /\ UNCHANGED <<now, spool, db, belated>>
    BY <1>3 DEF CollectorDies
  <2>2. InHand' \subseteq InHand
    BY <2>1, EmptyFacts DEF InHand, DeadCol
  <2> QED BY <1>1, <2>1, <2>2, AheadUnfed
<1>4. CASE CollectorStarts
  <2>1. /\ col' = [DeadCol EXCEPT !.up = TRUE, !.count = Len(spool)]
        /\ UNCHANGED <<now, spool, net, db, belated>> /\ ~col.up
    BY <1>4 DEF CollectorStarts
  <2>2. col' = [up |-> TRUE, pc |-> "idle", current |-> Null, todo |-> <<>>, count |-> Len(spool)]
    BY <2>1 DEF DeadCol
  <2>3. InHand' \subseteq InHand
    <3>1. col'.pc = "idle" /\ col'.todo = <<>>
      BY <2>2
    <3> QED BY <2>1, <3>1, EmptyFacts DEF InHand
  <2>4. net' = {}
    BY <2>1 DEF Ahead
  <2> QED BY <1>1, <2>1, <2>3, <2>4, AheadUnfed
<1> QED BY <1>2, <1>3, <1>4

\* A batch is handled, heard or unheard, whole or in part.
LEMMA AheadHandled ==
  ASSUME PipeInv, Ahead, NEW t \in net,
         \/ Handle(t) \/ HandleUnheard(t) \/ Refuse(t)
         \/ \E k \in 0..Writes : HandleThrows(t, k) \/ HandleDies(t, k)
  PROVE  Ahead'
<1>1. net = {Sending} /\ t = Sending /\ col.pc # "idle"
  BY DEF Ahead
<1>2. net' = {} /\ now' = now
  BY <1>1 DEF Handle, Refuse, HandleUnheard, HandleThrows, HandleDies
<1>3. \/ UNCHANGED <<db, belated>>
      \/ \E k \in 0..Writes : srv.up /\ t \notin db.samples /\ Put(t, k)
  <2>1. CASE Handle(t) \/ HandleUnheard(t)
    <3>1. srv.up /\ Store(t) /\ Writes \in 0..Writes
      BY <2>1 DEF Handle, HandleUnheard, Writes
    <3> QED BY <3>1 DEF Store
  <2>2. CASE \E k \in 0..Writes : HandleThrows(t, k) \/ HandleDies(t, k)
    BY <2>2 DEF HandleThrows, HandleDies
  <2>3. CASE Refuse(t)
    BY <2>3 DEF Refuse
  <2> QED BY <2>1, <2>2, <2>3
<1>4. InHand' \subseteq InHand
  <2>1. Accepted \/ Failed(FALSE) \/ UNCHANGED <<spool, col>>
    BY DEF Handle, Refuse, HandleUnheard, HandleThrows, HandleDies
  <2>2. ASSUME UNCHANGED <<spool, col>> PROVE InHand' \subseteq InHand
    BY <2>2 DEF InHand
  <2> QED BY <1>1, <2>1, <2>2, AcceptedHand, FailedHand
<1> QED BY <1>2, <1>3, <1>4, AheadFed

LEMMA AheadStep ==
  ASSUME PipeInv, Ahead, "late" \notin allowed, [Next]_vars
  PROVE  Ahead'
<1>1. now \in Nat /\ now <= now
  BY CollectsFacts DEF Collects
<1>2. CASE Measure \/ Send
  BY <1>2, AheadMeasure, AheadSend
<1>3. CASE \/ \E arrived \in BOOLEAN : NoAnswer(arrived) \/ CollectorDies(arrived)
           \/ TornAppend \/ CollectorStarts
  BY <1>3, AheadAlone
<1>4. CASE ServerDies
  <2>1. UNCHANGED <<db, belated, now, spool, col>> /\ net' = {}
    BY <1>4 DEF ServerDies
  <2>2. InHand' = InHand
    BY <2>1 DEF InHand
  <2> QED BY <1>1, <2>1, <2>2, AheadUnfed
<1>5. CASE ServerStarts \/ UNCHANGED vars
  <2>1. UNCHANGED <<db, belated, now, spool, col, net>>
    BY <1>5 DEF ServerStarts, vars
  <2>2. InHand' = InHand /\ Sending' = Sending
    BY <2>1 DEF InHand, Sending
  <2> QED BY <2>1, <2>2 DEF Ahead
<1>6. CASE Serve \/ \E t \in net : HandleUnheard(t)
  BY <1>6, AheadHandled DEF Serve
<1>7. CASE \/ \E t \in net, k \in 0..(Writes - 1) : HandleThrows(t, k)
           \/ \E t \in net, k \in 1..(Writes - 1) : HandleDies(t, k)
  <2>1. PICK t \in net, k \in 0..Writes : HandleThrows(t, k) \/ HandleDies(t, k)
    BY <1>7 DEF Writes
  <2> QED BY <2>1, AheadHandled
<1> QED BY <1>2, <1>3, <1>4, <1>5, <1>6, <1>7 DEF Next, CollectorStep

LEMMA AheadInit == Init => Ahead
<1> SUFFICES ASSUME Init PROVE Ahead
  OBVIOUS
<1>1. db.samples = {} /\ belated = {} /\ net = {}
  BY DEF Init
<1> QED BY <1>1 DEF Ahead

-----------------------------------------------------------------------------
(* Each scope implements OutageRecord. *)

\* A step of the pipeline is for a scope the feeding of one cycle, or nothing.
LEMMA ScopeStep ==
  ASSUME PipeInv, FollowInv, FollowInv', Ahead', [Next]_vars, NEW s \in Scopes
  PROVE  \/ UNCHANGED <<Fed(s), RowsOf(s)>>
         \/ \E t \in Times :
              /\ \A c \in Fed(s) : c.ts < t
              /\ Fed(s)' = Fed(s) \cup {[ts |-> t, down |-> Down(s, t)]}
              /\ RowsOf(s)' = Gateway!Runs(Fed(s)')
<1>1. line' = line /\ allowed' = allowed /\ belated' = {} /\ belated = {}
  BY StepKinds DEF Ahead, Put
<1>2. \A K : Seen(s, K)' = Seen(s, K)
  BY <1>1 DEF Seen, Down
<1>3. /\ Fed(s) = Seen(s, applied[s]) /\ Fed(s)' = Seen(s, applied'[s])
      /\ RowsOf(s) = RowsIn(db.outages, s) /\ RowsOf(s)' = RowsIn(db'.outages, s)
  BY <1>1 DEF Fed, Seen, Down, RowsOf, RowsIn, Shown
<1>4. RowsOf(s) = Gateway!Runs(Fed(s)) /\ RowsOf(s)' = Gateway!Runs(Fed(s)')
  BY <1>1, <1>2, <1>3 DEF FollowInv, RowsAreRuns
<1>5. CASE applied'[s] = applied[s]
  BY <1>3, <1>4, <1>5
<1>6. ASSUME NEW t \in Times, Newer(s, t)
      PROVE  /\ \A c \in Fed(s) : c.ts < t
             /\ Fed(s)' = Fed(s) \cup {[ts |-> t, down |-> Down(s, t)]}
  BY <1>3, <1>6 DEF Newer, Seen
<1>7. applied'[s] = applied[s] \/ \E t \in Times : Newer(s, t)
  <2>1. net \subseteq Times
    BY FrameFacts DEF Frame
  <2> QED BY <1>1, <2>1, StepKinds, PutFollows
<1> QED BY <1>4, <1>5, <1>6, <1>7

\* The order holds from the first cycle on.
InTheirOrder == "late" \notin allowed => Ahead

LEMMA AheadAlways == Spec => []InTheirOrder
<1>1. Init => InTheirOrder
  BY AheadInit DEF InTheirOrder
<1>2. PipeInv /\ InTheirOrder /\ [Next]_vars => InTheirOrder'
  BY AheadStep, StepKinds DEF InTheirOrder
<1> QED BY <1>1, <1>2, PipeAlways, PTL DEF Spec

LEMMA EmptyAtFirst == Init => \A s \in Scopes : Fed(s) = {} /\ RowsOf(s) = {}
<1> SUFFICES ASSUME Init, NEW s \in Scopes PROVE Fed(s) = {} /\ RowsOf(s) = {}
  OBVIOUS
<1>1. db.outages = {} /\ applied[s] = {}
  BY DEF Init
<1> QED BY <1>1 DEF Fed, RowsOf

\* Whatever dies or is lost, with handlers broken anywhere and lines torn: as long as no request
\* outlives its sender, the rows of each scope are at every step the record OutageRecord
\* describes of the cycles that scope was fed, one newer cycle at a time (outage-detector.ts
\* evaluateScope, load; probes.ts; probe.ts replay).
THEOREM EachScopeIsARecord == Spec => EachScopeRecord
<1> DEFINE Step(s) == \/ UNCHANGED <<Prompt(Fed(s)), Prompt(RowsOf(s))>>
                      \/ \E t \in Times :
                           /\ \A c \in Prompt(Fed(s)) : c.ts < t
                           /\ Prompt(Fed(s))' = Prompt(Fed(s)) \cup {[ts |-> t, down |-> Down(s, t)]}
                           /\ Prompt(RowsOf(s))' = Gateway!Runs(Prompt(Fed(s))')
<1>1. Init => Gateway!Init /\ Wan!Init
  BY EmptyAtFirst DEF Gateway!Init, Wan!Init, Scopes, Prompt
<1>2. \A s, t : Down(s, t) \in BOOLEAN
  <2> TAKE s, t
  <2>1. CASE s = "gateway"
    BY <2>1 DEF Down
  <2>2. CASE s # "gateway"
    BY <2>2 DEF Down
  <2> QED BY <2>1, <2>2
<1>3. Step("gateway") => [Gateway!Next]_Gateway!vars
  BY <1>2 DEF Gateway!Next, Gateway!Feed, Gateway!vars
<1>4. Step("wan") => [Wan!Next]_Wan!vars
  BY <1>2, SameRuns DEF Wan!Next, Wan!Feed, Wan!vars
<1>5. PipeInv /\ FollowInv /\ FollowInv' /\ InTheirOrder' /\ [Next]_vars => Step("gateway") /\ Step("wan")
  <2> SUFFICES ASSUME PipeInv, FollowInv, FollowInv', InTheirOrder', [Next]_vars, NEW s \in Scopes
               PROVE  Step(s)
    BY DEF Scopes
  <2>1. allowed' = allowed
    BY StepKinds
  <2>2. CASE "late" \in allowed
    BY <2>1, <2>2 DEF Prompt
  <2>3. CASE "late" \notin allowed
    <3>1. /\ Prompt(Fed(s)) = Fed(s) /\ Prompt(Fed(s))' = Fed(s)'
          /\ Prompt(RowsOf(s)) = RowsOf(s) /\ Prompt(RowsOf(s))' = RowsOf(s)'
      BY <2>1, <2>3 DEF Prompt
    <3>2. Ahead'
      BY <2>1, <2>3 DEF InTheirOrder
    <3> QED BY <3>1, <3>2, ScopeStep
  <2> QED BY <2>2, <2>3
<1>6. PipeInv /\ FollowInv /\ FollowInv' /\ InTheirOrder' /\ [Next]_vars
        => [Gateway!Next]_Gateway!vars /\ [Wan!Next]_Wan!vars
  BY <1>3, <1>4, <1>5
<1> QED BY <1>1, <1>6, PipeAlways, FollowAlways, AheadAlways, PTL
        DEF Spec, EachScopeRecord, Gateway!Spec, Wan!Spec
=============================================================================
