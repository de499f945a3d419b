----------------------------- MODULE JobsProofs -----------------------------
(***************************************************************************)
(* The jobs that run beside the record, proved for every size of a log,    *)
(* every interval and every number of steps: the rotation of the log, the  *)
(* heartbeat, the throughput tests, the link sampler.  Each has its own    *)
(* specification and its own inductive invariant, which says how what the  *)
(* job remembers hangs together with what happened.                        *)
(***************************************************************************)
EXTENDS LogRotate, Heartbeat, Speedtest, LinkWatch, Capture, FiniteSetTheorems, DataLemmas

-----------------------------------------------------------------------------
(* The rotation of the log. *)

Stages == {"between", "cycle", "copy", "rename", "truncate"}

\* The lines of the file, and after them those on their way to it, are the last ones written,
\* and they are the newest part of what is kept. Nothing is on its way while the agent rotates.
LogType ==
  /\ live \in Seq(Nat) /\ previous \in Seq(Nat) /\ temp \in Seq(Nat) /\ pipe \in Seq(Nat)
  /\ written \in Nat
  /\ rotor \in [Rotors -> Stages]

LastOnes(s, w) ==
  Len(s) <= w /\ \A k \in 1..Len(s) : s[k] = w - Len(s) + k

Newest == live \o pipe

Aligned == LastOnes(Newest, written)

AtStage ==
  /\ rotor["hand"] = "cycle"
  /\ rotor["agent"] \in {"copy", "rename", "truncate"} => pipe = <<>>
  /\ rotor["agent"] = "rename" => temp = live
  /\ rotor["agent"] = "truncate" => previous = live
  /\ ~piped => pipe = <<>>

LogInv == LogType /\ Aligned /\ AtStage /\ NoHole

\* What is kept is what the generation before and the newest lines hold.
LEMMA KeptAre == ASSUME LogType PROVE Newest \in Seq(Nat) /\ Kept = ToSet(previous) \cup ToSet(Newest)
  BY ConcatFacts DEF LogType, Newest, Kept

LEMMA LastOnesAre ==
  ASSUME NEW s \in Seq(Nat), NEW w \in Nat, LastOnes(s, w)
  PROVE  ToSet(s) = (w - Len(s) + 1)..w
<1> DEFINE n == Len(s)
<1>1. n \in Nat /\ DOMAIN s = 1..n
  OBVIOUS
<1>2. n <= w /\ \A k \in 1..n : s[k] = w - n + k
  BY DEF LastOnes
<1> HIDE DEF n
<1>3. ASSUME NEW m \in ToSet(s) PROVE m \in (w - n + 1)..w
  <2>1. PICK k \in 1..n : m = s[k]
    BY <1>1, <1>3 DEF ToSet
  <2>2. m = w - n + k
    BY <1>2, <2>1
  <2> QED BY <1>1, <1>2, <2>1, <2>2
<1>4. ASSUME NEW m \in (w - n + 1)..w PROVE m \in ToSet(s)
  <2>1. m - (w - n) \in 1..n
    BY <1>1, <1>2, <1>4
  <2>2. s[m - (w - n)] = m
    BY <1>1, <1>2, <1>4, <2>1
  <2> QED BY <1>1, <2>1, <2>2 DEF ToSet
<1> QED BY <1>3, <1>4 DEF n

LEMMA KeptAgain == LogType' => Kept' = ToSet(previous') \cup ToSet(Newest')
  BY ConcatFacts DEF LogType, Newest, Kept

LEMMA LogInitInv == LogInit => LogInv
<1> SUFFICES ASSUME LogInit PROVE LogInv
  OBVIOUS
<1>1. LogType /\ ToSet(previous) = {} /\ ToSet(live) = {} /\ ToSet(pipe) = {}
  <2>1. rotor \in [Rotors -> Stages]
    BY DEF LogInit, Rotors, Stages
  <2> QED BY <2>1 DEF LogInit, LogType, ToSet
<1>2. Newest = <<>>
  BY DEF LogInit, Newest
<1>3. Aligned /\ AtStage
  BY <1>2 DEF LogInit, Aligned, LastOnes, AtStage, Rotors
<1>4. NoHole
  BY <1>1 DEF NoHole, Kept
<1> QED BY <1>1, <1>3, <1>4 DEF LogInv

\* Lines that are written, to the file or to the pipe, become the newest ones.
LEMMA WriteKeeps ==
  ASSUME LogAssumption, LogInv, NEW n \in 1..CycleLines, Write(n)
  PROVE  LogInv'
<1> DEFINE g == Grow(n)
<1>1. n \in Nat /\ n >= 1
  BY DEF LogAssumption
<1>2. g \in Seq(Nat) /\ Len(g) = n /\ \A k \in 1..n : g[k] = written + k
  BY <1>1 DEF Grow, LogInv, LogType
<1>3. /\ written' = written + n /\ previous' = previous /\ temp' = temp /\ piped' = piped
      /\ rotor' = [rotor EXCEPT !["agent"] = "between"] /\ rotor["agent"] = "cycle"
  BY DEF Write
<1>4. /\ piped => pipe' = pipe \o g /\ live' = live
      /\ ~piped => live' = live \o g /\ pipe' = pipe
  BY DEF Write
<1>5. live \in Seq(Nat) /\ pipe \in Seq(Nat) /\ written \in Nat /\ (~piped => pipe = <<>>)
  BY DEF LogInv, LogType, AtStage
<1> HIDE DEF g
<1>6. live' \in Seq(Nat) /\ pipe' \in Seq(Nat) /\ Newest' = Newest \o g
  <2>1. CASE piped
    <3>1. pipe \o g \in Seq(Nat) /\ (live \o pipe) \o g = live \o (pipe \o g)
      <4>1. g \in Seq(Nat) /\ live \in Seq(Nat) /\ pipe \in Seq(Nat)
        BY <1>2, <1>5
      <4>2. pipe \o g \in Seq(Nat)
        BY <4>1, ConcatFacts
      <4>3. (live \o pipe) \o g = live \o (pipe \o g)
        BY <4>1, ConcatAssociative
      <4> QED BY <4>2, <4>3
    <3> QED BY <1>4, <1>5, <2>1, <3>1 DEF Newest
  <2>2. CASE ~piped
    <3>1. live \o g \in Seq(Nat) /\ live \o <<>> = live /\ (live \o g) \o <<>> = live \o g
      BY <1>2, <1>5, ConcatProperties, ConcatEmptySeq
    <3> QED BY <1>4, <1>5, <2>2, <3>1 DEF Newest
  <2> QED BY <2>1, <2>2
<1>7. Newest \in Seq(Nat) /\ Kept = ToSet(previous) \cup ToSet(Newest)
  BY KeptAre DEF LogInv
<1> PICK q : q = Newest
  OBVIOUS
<1>8. /\ q \in Seq(Nat) /\ LastOnes(q, written) /\ Newest' = q \o g
  BY <1>6, <1>7 DEF LogInv, Aligned
<1>9. /\ q \o g \in Seq(Nat) /\ Len(q \o g) = Len(q) + n
      /\ \A k \in 1..Len(q) + n : (q \o g)[k] = IF k <= Len(q) THEN q[k] ELSE g[k - Len(q)]
  BY <1>2, <1>8, ConcatProperties
<1>10. LastOnes(q \o g, written + n)
  <2> PICK c : c = q \o g
    OBVIOUS
  <2>1. /\ Len(c) = Len(q) + n
        /\ \A k \in 1..Len(q) + n : c[k] = IF k <= Len(q) THEN q[k] ELSE g[k - Len(q)]
    BY <1>9
  <2>2. Len(q) \in Nat /\ Len(q) <= written /\ \A k \in 1..Len(q) : q[k] = written - Len(q) + k
    BY <1>8 DEF LastOnes
  <2>3. \A k \in 1..Len(c) : c[k] = written + n - Len(c) + k
    BY <1>1, <1>2, <1>5, <2>1, <2>2
  <2> QED BY <1>1, <1>5, <2>1, <2>2, <2>3 DEF LastOnes
<1>11. LogType'
  BY <1>1, <1>3, <1>6 DEF LogInv, LogType, Rotors, Stages
<1>12. Aligned'
  BY <1>3, <1>8, <1>10 DEF Aligned
<1>13. AtStage'
  BY <1>3, <1>4 DEF LogInv, LogType, AtStage, Rotors, Stages
<1>14. NoHole'
  <2>1. Kept' = ToSet(previous') \cup ToSet(Newest')
    BY <1>11, KeptAgain
  <2>2. ToSet(q) = (written - Len(q) + 1)..written
    BY <1>5, <1>8, LastOnesAre
  <2>3. Kept' = Kept \cup (written + 1)..(written + n)
    <3>1. PICK w, c : w = written + n /\ c = q \o g
      OBVIOUS
    <3>2. w \in Nat /\ c \in Seq(Nat) /\ LastOnes(c, w) /\ Len(c) = Len(q) + n
      BY <1>1, <1>5, <1>9, <1>10, <3>1
    <3>3. ToSet(c) = (w - Len(c) + 1)..w
      BY <3>2, LastOnesAre
    <3>4. Len(q) \in Nat /\ Len(q) <= written
      BY <1>8 DEF LastOnes
    <3>5. ToSet(c) = ToSet(q) \cup (written + 1)..(written + n)
      BY <1>1, <1>5, <2>2, <3>1, <3>2, <3>3, <3>4
    <3> QED BY <1>3, <1>7, <1>8, <2>1, <3>1, <3>5
  <2>4. \A m \in Kept : m \in Nat
    BY DEF Kept, LogInv, LogType, ToSet
  <2> QED BY <2>3, <2>4, <1>3, <1>1, <1>5 DEF NoHole, LogInv
<1> QED BY <1>11, <1>12, <1>13, <1>14 DEF LogInv

\* A line passed on is as new as it was.
LEMMA PassOnKeeps ==
  ASSUME LogInv, PassOn
  PROVE  LogInv'
<1>1. /\ live \in Seq(Nat) /\ pipe \in Seq(Nat) /\ pipe # <<>>
      /\ live' = Append(live, Head(pipe)) /\ pipe' = Tail(pipe)
      /\ UNCHANGED <<previous, temp, rotor, piped, written>>
  BY DEF PassOn, LogInv, LogType
<1>2. live' \in Seq(Nat) /\ pipe' \in Seq(Nat)
  BY <1>1
<1>3. Newest' = Newest
  <2>1. Len(pipe) \in Nat /\ Len(pipe) >= 1
    BY <1>1, EmptySeq
  <2>2. /\ Len(live \o pipe) = Len(live) + Len(pipe) /\ live \o pipe \in Seq(Nat)
        /\ \A k \in 1..Len(live) + Len(pipe) :
             (live \o pipe)[k] = IF k <= Len(live) THEN live[k] ELSE pipe[k - Len(live)]
    BY <1>1, ConcatProperties
  <2>3. /\ Len(live') = Len(live) + 1 /\ Len(pipe') = Len(pipe) - 1
        /\ \A k \in 1..Len(live) : live'[k] = live[k]
        /\ live'[Len(live) + 1] = pipe[1]
        /\ \A k \in 1..Len(pipe) - 1 : pipe'[k] = pipe[k + 1]
    BY <1>1, <2>1
  <2>4. /\ Len(live' \o pipe') = Len(live') + Len(pipe') /\ live' \o pipe' \in Seq(Nat)
        /\ \A k \in 1..Len(live') + Len(pipe') :
             (live' \o pipe')[k] = IF k <= Len(live') THEN live'[k] ELSE pipe'[k - Len(live')]
    BY <1>2, ConcatProperties
  <2> PICK a, b : a = live \o pipe /\ b = live' \o pipe'
    OBVIOUS
  <2>5. a \in Seq(Nat) /\ b \in Seq(Nat) /\ Len(a) = Len(b)
    BY <1>1, <2>1, <2>2, <2>3, <2>4
  <2>6. \A k \in 1..Len(a) : a[k] = b[k]
    <3> SUFFICES ASSUME NEW k \in 1..Len(a) PROVE a[k] = b[k]
      OBVIOUS
    <3>1. /\ a[k] = IF k <= Len(live) THEN live[k] ELSE pipe[k - Len(live)]
          /\ b[k] = IF k <= Len(live) + 1 THEN live'[k] ELSE pipe'[k - (Len(live) + 1)]
          /\ k \in 1..Len(live) + Len(pipe) /\ Len(live) \in Nat
      BY <1>1, <2>1, <2>2, <2>3, <2>4
    <3>2. CASE k <= Len(live)
      BY <2>3, <3>1, <3>2
    <3>3. CASE k = Len(live) + 1
      BY <2>3, <3>1, <3>3
    <3>4. CASE k > Len(live) + 1
      <4>1. k - (Len(live) + 1) \in 1..Len(pipe) - 1 /\ (k - (Len(live) + 1)) + 1 = k - Len(live)
        BY <2>1, <3>1, <3>4
      <4>2. pipe'[k - (Len(live) + 1)] = pipe[k - Len(live)]
        BY <2>3, <4>1
      <4> QED BY <3>1, <3>4, <4>2
    <3> QED BY <3>1, <3>2, <3>3, <3>4
  <2>7. a = b
    BY <2>5, <2>6, SeqEqual
  <2> QED BY <2>7 DEF Newest
<1>4. LogType'
  BY <1>1, <1>2 DEF LogInv, LogType
<1>5. Aligned'
  BY <1>1, <1>3 DEF LogInv, Aligned
<1>6. AtStage'
  BY <1>1 DEF LogInv, LogType, AtStage, Rotors
<1>7. NoHole'
  <2>1. Kept = ToSet(previous) \cup ToSet(Newest) /\ Kept' = ToSet(previous') \cup ToSet(Newest')
    BY <1>4, KeptAre, KeptAgain DEF LogInv
  <2> QED BY <1>1, <1>3, <2>1 DEF LogInv, NoHole
<1> QED BY <1>4, <1>5, <1>6, <1>7 DEF LogInv

LEMMA CheckKeeps ==
  ASSUME LogInv, NEW p \in Rotors, Check(p)
  PROVE  LogInv'
<1>1. PICK stage \in {"copy", "cycle"} :
        /\ rotor' = [rotor EXCEPT ![p] = stage] /\ (p = "hand" => stage = "cycle")
        /\ p = "agent" => pipe = <<>>
  BY DEF Check, DecideRotation, Stdout, StdoutIsLog
<1>2. UNCHANGED <<live, previous, temp, piped, pipe, written>>
  BY DEF Check
<1>3. LogType'
  BY <1>1, <1>2 DEF LogInv, LogType, Stages
<1>4. Aligned' /\ NoHole'
  BY <1>2 DEF LogInv, Aligned, Newest, NoHole, Kept
<1>5. AtStage'
  BY <1>1, <1>2 DEF LogInv, LogType, AtStage, Rotors
<1> QED BY <1>3, <1>4, <1>5 DEF LogInv

\* The other steps of a rotation are the agent's: the process in the terminal decides on none.
LEMMA StepKeeps ==
  ASSUME LogInv, NEW p \in Rotors, Copy(p) \/ Rename(p) \/ Truncate(p) \/ Cut(p)
  PROVE  LogInv'
<1>1. p = "agent" /\ rotor[p] \in {"copy", "rename", "truncate"}
  BY DEF Copy, Rename, Truncate, Cut, LogInv, AtStage, Rotors
<1>2. pipe = <<>> /\ pipe' = <<>> /\ piped' = piped /\ written' = written
  BY <1>1 DEF Copy, Rename, Truncate, Cut, LogInv, AtStage
<1>3. live \in Seq(Nat) /\ Newest = live /\ ToSet(pipe) = {} /\ LastOnes(live, written)
  <2>1. live \in Seq(Nat)
    BY DEF LogInv, LogType
  <2>2. Newest = live
    BY <1>2, <2>1, ConcatEmptySeq DEF Newest
  <2> QED BY <1>2, <2>1, <2>2 DEF ToSet, LogInv, Aligned
<1>4. CASE Copy(p)
  <2>1. LogType' /\ AtStage'
    BY <1>1, <1>2, <1>4 DEF Copy, LogInv, LogType, AtStage, Rotors, Stages
  <2>2. Aligned' /\ NoHole'
    BY <1>2, <1>4 DEF Copy, LogInv, Aligned, Newest, NoHole, Kept
  <2> QED BY <2>1, <2>2 DEF LogInv
<1>5. CASE Rename(p)
  <2>1. LogType'
    BY <1>1, <1>2, <1>5 DEF Rename, LogInv, LogType, Rotors, Stages
  <2>2. AtStage'
    BY <1>1, <1>2, <1>5 DEF Rename, LogInv, LogType, AtStage, Rotors
  <2>3. Aligned'
    BY <1>2, <1>5 DEF Rename, LogInv, Aligned, Newest
  <2>4. NoHole'
    <3>1. ToSet(live) = (written - Len(live) + 1)..written /\ Len(live) <= written
      BY <1>3, LastOnesAre DEF LogInv, LogType, LastOnes
    <3>2. Kept' = ToSet(live)
      BY <1>1, <1>2, <1>3, <1>5 DEF Rename, Kept, LogInv, AtStage
    <3> QED BY <1>2, <1>3, <3>1, <3>2 DEF NoHole, LogInv, LogType
  <2> QED BY <2>1, <2>2, <2>3, <2>4 DEF LogInv
<1>6. CASE Truncate(p)
  <2>1. LogType'
    BY <1>1, <1>2, <1>6 DEF Truncate, LogInv, LogType, Rotors, Stages
  <2>2. AtStage'
    BY <1>1, <1>2, <1>6 DEF Truncate, LogInv, LogType, AtStage, Rotors
  <2>3. Newest' = <<>> /\ ToSet(live') = {}
    BY <1>2, <1>6 DEF Truncate, Newest, ToSet
  <2>4. Aligned'
    BY <1>2, <2>3 DEF LogInv, LogType, Aligned, LastOnes
  <2>5. NoHole'
    <3>1. Kept = ToSet(previous) /\ Kept' = ToSet(previous)
      BY <1>1, <1>2, <1>3, <1>6, <2>3 DEF Truncate, Kept, LogInv, AtStage
    <3> QED BY <1>2, <3>1 DEF NoHole, LogInv
  <2> QED BY <2>1, <2>2, <2>4, <2>5 DEF LogInv
<1>7. CASE Cut(p)
  <2>1. temp' \in Seq(Nat)
    BY <1>7 DEF Cut, LogInv, LogType
  <2>2. PICK next \in {"cycle", "between"} : rotor' = [rotor EXCEPT ![p] = next]
    BY <1>7 DEF Cut
  <2>3. LogType' /\ AtStage'
    BY <1>1, <1>2, <1>7, <2>1, <2>2 DEF Cut, LogInv, LogType, AtStage, Rotors, Stages
  <2>4. Aligned' /\ NoHole'
    BY <1>2, <1>7 DEF Cut, LogInv, Aligned, Newest, NoHole, Kept
  <2> QED BY <2>3, <2>4 DEF LogInv
<1> QED BY <1>4, <1>5, <1>6, <1>7

\* What the log and the generation before it hold, and what is on its way to them, is the end
\* of what was written, without a hole, wherever rotateLogIfNeeded was cut and for every limit, legible or not.
THEOREM LogKept == LogSpec => []NoHole
<1>1. LogInit => LogInv
  BY LogInitInv
<1>2. LogInv /\ [LogNext]_logVars => LogInv'
  <2> SUFFICES ASSUME LogInv, [LogNext]_logVars PROVE LogInv'
    OBVIOUS
  <2>1. ASSUME NEW n \in 1..CycleLines, Write(n) PROVE LogInv'
    BY <2>1, LogAssumption, WriteKeeps
  <2>2. CASE UNCHANGED logVars
    BY <2>2 DEF logVars, LogInv, LogType, Aligned, Newest, AtStage, NoHole, Kept
  <2> QED BY <2>1, <2>2, PassOnKeeps, CheckKeeps, StepKeeps DEF LogNext
<1>3. LogInv => NoHole
  BY DEF LogInv
<1> QED BY <1>1, <1>2, <1>3, PTL DEF LogSpec

-----------------------------------------------------------------------------
(* The heartbeat. *)

HeartType ==
  /\ world.line \in Lines /\ "line" \in DOMAIN world
  /\ DOMAIN rec = {"age", "outage", "vantage"}
  /\ rec.age \in Nat \cup {Null} /\ rec.outage \in Scopes \cup {Null}
  /\ DOMAIN beat = {"pc", "status", "says", "since", "took"}
  /\ beat.took \in 0..PushMax
  /\ truth \in [Lines -> Nat]

\* What the record says of the line: that it is up, or which of its scopes is out.
Recorded == IF rec.outage = Null THEN "up" ELSE rec.outage

\* A record that is fresh was true when it was measured, and grows old with the truth.
RecordWasTrue == rec.age \in 0..Stale => truth[Recorded] <= rec.age

\* So does what a push says, from the moment it was read.
PushWasTrue ==
  beat.pc = "push" /\ beat.says \in Lines => truth[beat.says] <= Stale + beat.took

HeartInv == HeartType /\ RecordWasTrue /\ PushWasTrue

LEMMA HeartInitInv == HeartInit => HeartInv
<1> USE HeartbeatAssumption
<1> SUFFICES ASSUME HeartInit PROVE HeartInv
  OBVIOUS
<1>1. HeartType
  BY DEF HeartInit, HeartType, Quiet, Lines, Proof
<1>2. RecordWasTrue /\ PushWasTrue
  BY DEF HeartInit, RecordWasTrue, PushWasTrue, Quiet
<1> QED BY <1>1, <1>2 DEF HeartInv

\* A cycle measures what it records.
LEMMA IngestKeeps ==
  ASSUME HeartInv, NEW captured \in BOOLEAN, Ingest(captured)
  PROVE  HeartInv'
<1> USE HeartbeatAssumption
<1>1. HeartType'
  BY DEF Ingest, HeartInv, HeartType, Lines
<1>2. RecordWasTrue'
  BY DEF Ingest, HeartInv, HeartType, RecordWasTrue, Recorded, Lines
<1>3. PushWasTrue'
  BY DEF Ingest, HeartInv, HeartType, PushWasTrue
<1> QED BY <1>1, <1>2, <1>3 DEF HeartInv

\* A run that says something of the line read a fresh record, and says what it says.
LEMMA RunKeeps ==
  ASSUME HeartInv, Run
  PROVE  HeartInv'
<1> USE HeartbeatAssumption
<1> DEFINE said == IF world.api THEN Decide(rec) ELSE Says("down", "api")
<1>1. beat' = IF said.status = "skip" THEN Quiet(0)
              ELSE [pc |-> "push", status |-> said.status, says |-> said.says, since |-> 0, took |-> 0]
  BY DEF Run
<1>2. UNCHANGED <<world, rec, truth>>
  BY DEF Run
<1>3. said.says \in Lines /\ said.status # "skip" => rec.age \in 0..Stale /\ said.says = Recorded
  BY DEF Decide, Says, Lines, Recorded, HeartInv, HeartType
<1> HIDE DEF said
<1>4. HeartType' /\ RecordWasTrue'
  BY <1>1, <1>2 DEF HeartInv, HeartType, Quiet, Lines, RecordWasTrue, Recorded
<1>5. PushWasTrue'
  <2> SUFFICES ASSUME beat'.pc = "push", beat'.says \in Lines
               PROVE  truth'[beat'.says] <= Stale + beat'.took
    BY DEF PushWasTrue
  <2>1. beat'.says = said.says /\ beat'.took = 0 /\ said.status # "skip"
    BY <1>1 DEF Quiet
  <2>2. truth[Recorded] <= rec.age /\ rec.age \in 0..Stale /\ said.says = Recorded
    BY <1>3, <2>1 DEF HeartInv, RecordWasTrue
  <2>3. truth[Recorded] \in Nat
    BY <2>1, <2>2 DEF HeartInv, HeartType
  <2> QED BY <1>2, <2>1, <2>2, <2>3
<1> QED BY <1>4, <1>5 DEF HeartInv

LEMMA PassKeeps ==
  ASSUME HeartInv, Pass
  PROVE  HeartInv'
<1> USE HeartbeatAssumption
<1>1. /\ world'.line = world.line /\ DOMAIN world' = DOMAIN world
      /\ rec' = [rec EXCEPT !.age = Older(@, Stale)]
      /\ truth' = [l \in Lines |-> Older(truth[l], Proof)]
      /\ beat' = [beat EXCEPT !.since = @ + 1, !.took = IF beat.pc = "push" THEN @ + 1 ELSE 0]
      /\ beat.pc = "push" => beat.took < PushMax
  BY DEF Pass
<1>2. \A l \in Lines : truth'[l] \in Nat /\ truth'[l] <= truth[l] + 1
  BY <1>1 DEF Older, HeartInv, HeartType
<1>3. Recorded' = Recorded /\ Recorded \in Lines
  BY <1>1 DEF HeartInv, HeartType, Recorded, Lines
<1>4. HeartType'
  BY <1>1, <1>2 DEF HeartInv, HeartType, Older
<1>5. RecordWasTrue'
  BY <1>1, <1>2, <1>3 DEF HeartInv, HeartType, RecordWasTrue, Older
<1>6. PushWasTrue'
  BY <1>1, <1>2 DEF HeartInv, HeartType, PushWasTrue
<1> QED BY <1>4, <1>5, <1>6 DEF HeartInv

\* Whatever the heartbeat pushes of the line was measured within the age a record may have and
\* the time a push may take, for every interval, age and window (decideHeartbeat, pushResult).
THEOREM SaysMeasured == HeartSpec => []SaysWhatWasMeasured
<1>1. HeartInit => HeartInv
  BY HeartInitInv
<1>2. HeartInv /\ [HeartNext]_heartVars => HeartInv'
  <2> SUFFICES ASSUME HeartInv, [HeartNext]_heartVars PROVE HeartInv'
    OBVIOUS
  <2>1. CASE PushLands \/ PushFails
    BY <2>1, HeartbeatAssumption DEF PushLands, PushFails, Quiet, HeartInv, HeartType, RecordWasTrue,
                                     Recorded, PushWasTrue
  <2>2. CASE Happens
    <3>1. world'.line \in Lines /\ DOMAIN world' = DOMAIN world /\ UNCHANGED <<rec, beat, truth>>
      BY <2>2 DEF Happens, HeartInv, HeartType
    <3> QED BY <3>1 DEF HeartInv, HeartType, RecordWasTrue, Recorded, PushWasTrue
  <2>3. CASE UNCHANGED heartVars
    BY <2>3 DEF heartVars, HeartInv, HeartType, RecordWasTrue, Recorded, PushWasTrue
  <2> QED BY <2>1, <2>2, <2>3, IngestKeeps, RunKeeps, PassKeeps DEF HeartNext
<1>3. HeartInv => SaysWhatWasMeasured
  BY HeartbeatAssumption DEF HeartInv, HeartType, PushWasTrue, SaysWhatWasMeasured, Proof
<1> QED BY <1>1, <1>2, <1>3, PTL DEF HeartSpec

-----------------------------------------------------------------------------
(* The throughput tests. *)

RowSet == [ts : Nat, ok : BOOLEAN]
TestSet == [ts : Nat, by : {"cron", "button"}, lost : BOOLEAN]

SpeedType ==
  /\ clock \in Nat
  /\ \A t \in flight : t.ts \in Nat /\ t.ts <= clock
  /\ rows \in Seq(RowSet)
  /\ started \in Seq(TestSet)
  /\ \A k \in 1..Len(started) : started[k].ts <= clock

\* One test at a time, begun after those whose rows there are; and those in their order.
OneAtATime ==
  /\ \A s, t \in flight : s = t
  /\ \A k \in 1..Len(rows) : rows[k].ts <= clock /\ \A t \in flight : rows[k].ts <= t.ts
  /\ \A j, k \in 1..Len(rows) : j <= k => rows[j].ts <= rows[k].ts

SpeedInv == SpeedType /\ OneAtATime /\ EveryTestCounts

LEMMA SpeedFacts ==
  ASSUME SpeedType
  PROVE  /\ Len(rows) \in Nat /\ DOMAIN rows = 1..Len(rows)
         /\ Len(started) \in Nat /\ DOMAIN started = 1..Len(started)
         /\ \A k \in 1..Len(rows) : rows[k] \in RowSet /\ rows[k].ts \in Nat
         /\ \A k \in 1..Len(started) : /\ started[k] \in TestSet /\ started[k].ts \in Nat
                                       /\ started[k].ts <= clock
         /\ clock \in Nat /\ \A t \in flight : t.ts \in Nat /\ t.ts <= clock
<1>1. \A k \in 1..Len(rows) : rows[k] \in RowSet
  BY ElementOfSeq DEF SpeedType
<1>2. \A k \in 1..Len(started) : started[k] \in TestSet
  BY ElementOfSeq DEF SpeedType
<1>3. \A r \in RowSet : r.ts \in Nat
  BY DEF RowSet
<1>4. \A t \in TestSet : t.ts \in Nat
  BY DEF TestSet
<1>5. /\ Len(rows) \in Nat /\ DOMAIN rows = 1..Len(rows)
      /\ Len(started) \in Nat /\ DOMAIN started = 1..Len(started)
  BY LenProperties DEF SpeedType
<1> QED BY <1>1, <1>2, <1>3, <1>4, <1>5 DEF SpeedType

LEMMA SpeedInitInv == SpeedInit => SpeedInv
  BY DEF SpeedInit, SpeedInv, SpeedType, OneAtATime, EveryTestCounts, ButtonSpaced, EveryTestRecorded

\* The newest row is none, or the latest of all: nothing but an order of the rows makes
\* it so for every number of them.
LEMMA LastRowIsLatest ==
  ASSUME SpeedAssumption, SpeedType, OneAtATime
  PROVE  \A k \in 1..Len(rows) : LastRow # Null /\ LastRow \in Nat /\ rows[k].ts <= LastRow
<1> DEFINE all == {rows[k].ts : k \in 1..Len(rows)}
<1> SUFFICES ASSUME NEW k \in 1..Len(rows)
             PROVE  LastRow # Null /\ LastRow \in Nat /\ rows[k].ts <= LastRow
  OBVIOUS
<1>1. Len(rows) \in 1..Len(rows) /\ rows[Len(rows)].ts \in all
  <2>1. Len(rows) \in 1..Len(rows)
    BY SpeedFacts
  <2> QED BY <2>1
<1>2. \A other \in all : other \in Nat /\ other <= rows[Len(rows)].ts
  <2> SUFFICES ASSUME NEW i \in 1..Len(rows)
               PROVE  rows[i].ts \in Nat /\ rows[i].ts <= rows[Len(rows)].ts
    OBVIOUS
  <2>1. rows[i].ts \in Nat
    BY SpeedFacts
  <2>2. i <= Len(rows) /\ Len(rows) \in 1..Len(rows)
    BY <1>1
  <2>3. rows[i].ts <= rows[Len(rows)].ts
    BY <2>2 DEF OneAtATime
  <2> QED BY <2>1, <2>3
<1>3. LastRow = CHOOSE ts \in all : \A other \in all : other <= ts
  BY <1>1 DEF LastRow
<1>4. LastRow \in all /\ \A other \in all : other <= LastRow
  BY <1>1, <1>2, <1>3
<1> QED BY <1>2, <1>4 DEF SpeedAssumption

\* A test that is begun.
LEMMA BeginKeeps ==
  ASSUME SpeedAssumption, SpeedInv, NEW by \in {"cron", "button"}, RunGuarded(by),
         by = "button" => (LastRow # Null => clock - LastRow >= MinInterval),
         clock' = clock, rows' = rows
  PROVE  SpeedInv'
<1>1. CASE running
  BY <1>1 DEF RunGuarded, SpeedInv, SpeedType, OneAtATime, EveryTestCounts, ButtonSpaced, EveryTestRecorded
<1>2. CASE ~running
  <2> DEFINE new == [ts |-> clock, by |-> by, lost |-> FALSE]
             n == Len(started)
  <2>1. flight = {} /\ running' = TRUE /\ flight' = {[ts |-> clock, by |-> by]}
    BY <1>2 DEF RunGuarded, SpeedInv, EveryTestCounts, EveryTestRecorded
  <2>2. new \in TestSet
    BY SpeedFacts DEF SpeedInv, TestSet
  <2>3. started' = Append(started, new)
    BY <1>2 DEF RunGuarded
  <2>4. /\ started' \in Seq(TestSet)
        /\ Len(started') = n + 1 /\ n \in Nat
        /\ \A k \in 1..n : started'[k] = started[k]
        /\ started'[n + 1] = new
    BY <2>2, <2>3, AppendProperties DEF SpeedInv, SpeedType
  <2>5. SpeedType'
    <3>1. \A t \in flight' : t.ts = clock
      BY <2>1
    <3>2. ASSUME NEW k \in 1..n + 1 PROVE started'[k].ts <= clock
      <4>1. CASE k \in 1..n
        BY <2>4, <4>1, SpeedFacts DEF SpeedInv
      <4>2. CASE k = n + 1
        BY <2>4, <4>2, SpeedFacts DEF SpeedInv
      <4> QED BY <2>4, <4>1, <4>2
    <3> QED BY <2>4, <3>1, <3>2, SpeedFacts DEF SpeedInv, SpeedType
  <2>6. OneAtATime'
    BY <2>1, SpeedFacts DEF SpeedInv, OneAtATime
  <2>7. ButtonSpaced'
    <3> SUFFICES ASSUME NEW k \in 2..n + 1, started'[k].by = "button",
                        NEW j \in 1..k - 1, ~started'[j].lost
                 PROVE  started'[k].ts - started'[j].ts >= MinInterval
      BY <2>4 DEF ButtonSpaced
    <3>1. CASE k <= n
      <4>1. k \in 2..n /\ j \in 1..n /\ started'[k] = started[k] /\ started'[j] = started[j]
        BY <2>4, <3>1
      <4>2. ButtonSpaced
        BY DEF SpeedInv, EveryTestCounts
      <4> QED BY <4>1, <4>2 DEF ButtonSpaced
    <3>2. CASE k = n + 1
      <4>1. by = "button" /\ started'[k].ts = clock /\ started'[j] = started[j] /\ j \in 1..n
        BY <2>4, <3>2
      <4>2. PICK r \in ToSet(rows) : r.ts = started[j].ts
        BY <2>1, <4>1 DEF SpeedInv, EveryTestCounts, EveryTestRecorded
      <4>3. PICK i \in 1..Len(rows) : rows[i] = r
        BY SpeedFacts DEF ToSet, SpeedInv
      <4>4. LastRow # Null /\ LastRow \in Nat /\ rows[i].ts <= LastRow
        BY LastRowIsLatest DEF SpeedInv
      <4>5. clock - LastRow >= MinInterval /\ clock \in Nat /\ MinInterval \in Nat
        BY <4>1, <4>4, SpeedFacts DEF SpeedInv, SpeedAssumption
      <4>6. started[j].ts \in Nat /\ started[j].ts <= LastRow
        BY <4>1, <4>2, <4>3, <4>4, SpeedFacts DEF SpeedInv
      <4>7. \A l, c, s, m \in Nat : c - l >= m /\ s <= l => c - s >= m
        OBVIOUS
      <4>8. clock - started[j].ts >= MinInterval
        BY <4>4, <4>5, <4>6, <4>7, Zenon
      <4> QED BY <4>1, <4>8
    <3> QED BY <2>4, <3>1, <3>2
  <2>8. EveryTestRecorded'
    BY <2>1, <2>4 DEF SpeedInv, EveryTestCounts, EveryTestRecorded
  <2> QED BY <2>5, <2>6, <2>7, <2>8 DEF SpeedInv, EveryTestCounts
<1> QED BY <1>1, <1>2

\* The test at work ends with its row.
LEMMA FinishKeeps ==
  ASSUME SpeedAssumption, SpeedInv, NEW test \in flight, Finish(test)
  PROVE  SpeedInv'
<1> DEFINE n == Len(rows)
<1>1. PICK ok \in BOOLEAN : rows' = Append(rows, [ts |-> test.ts, ok |-> ok])
  BY DEF Finish, RowOf
<1>2. flight' = {} /\ running' = FALSE /\ clock' = clock /\ started' = started
  BY DEF Finish, SpeedInv, OneAtATime
<1>3. [ts |-> test.ts, ok |-> ok] \in RowSet
  BY SpeedFacts DEF SpeedInv, RowSet
<1>4. /\ rows' \in Seq(RowSet) /\ n \in Nat /\ Len(rows') = n + 1
      /\ \A k \in 1..n : rows'[k] = rows[k]
      /\ rows'[n + 1] = [ts |-> test.ts, ok |-> ok]
  BY <1>1, <1>3, AppendProperties DEF SpeedInv, SpeedType
<1>5. SpeedType'
  BY <1>2, <1>4 DEF SpeedInv, SpeedType
<1>6. OneAtATime'
  <2>1. \A k \in 1..n : /\ rows'[k].ts <= test.ts /\ rows'[k].ts <= clock
                        /\ \A j \in 1..n : j <= k => rows'[j].ts <= rows'[k].ts
    BY <1>4 DEF SpeedInv, OneAtATime
  <2>2. rows'[n + 1].ts = test.ts /\ test.ts \in Nat /\ test.ts <= clock
    BY <1>4, SpeedFacts DEF SpeedInv
  <2>3. \A k \in 1..n + 1 : k \in 1..n \/ k = n + 1
    BY <1>4
  <2>4. \A j, k \in 1..n + 1 : j <= k => rows'[j].ts <= rows'[k].ts
    <3> SUFFICES ASSUME NEW j \in 1..n + 1, NEW k \in 1..n + 1, j <= k
                 PROVE  rows'[j].ts <= rows'[k].ts
      OBVIOUS
    <3>1. CASE k \in 1..n
      <4>1. j \in 1..n
        BY <1>4, <3>1
      <4> QED BY <2>1, <3>1, <4>1
    <3>2. CASE k = n + 1
      BY <2>1, <2>2, <2>3, <3>2
    <3> QED BY <2>3, <3>1, <3>2
  <2>5. \A k \in 1..n + 1 : rows'[k].ts <= clock
    BY <2>1, <2>2, <2>3
  <2> QED BY <1>2, <1>4, <2>4, <2>5 DEF OneAtATime
<1>7. EveryTestRecorded'
  <2>1. \A r \in ToSet(rows) : r \in ToSet(rows')
    <3>1. DOMAIN rows' = 1..n + 1 /\ DOMAIN rows = 1..n
      BY <1>4, LenProperties, SpeedFacts DEF SpeedInv
    <3> QED BY <1>4, <3>1 DEF ToSet
  <2>2. \E r \in ToSet(rows') : r.ts = test.ts
    <3>1. DOMAIN rows' = 1..n + 1 /\ n + 1 \in 1..n + 1
      BY <1>4, LenProperties
    <3> QED BY <1>4, <3>1 DEF ToSet
  <2>3. \A t \in flight : t.ts = test.ts
    BY DEF SpeedInv, OneAtATime
  <2> QED BY <1>2, <2>1, <2>2, <2>3 DEF SpeedInv, EveryTestCounts, EveryTestRecorded
<1>8. ButtonSpaced'
  BY <1>2 DEF SpeedInv, EveryTestCounts, ButtonSpaced
<1> QED BY <1>5, <1>6, <1>7, <1>8 DEF SpeedInv, EveryTestCounts

\* The container restarts: the test at work is lost, and known as such.
LEMMA RestartKeeps ==
  ASSUME SpeedInv, Restart
  PROVE  SpeedInv'
<1> DEFINE Was(s) == [s EXCEPT !.lost = @ \/ \E t \in flight : t.ts = s.ts]
<1>1. /\ flight' = {} /\ running' = FALSE /\ clock' = clock /\ rows' = rows
      /\ started' = [k \in 1..Len(started) |-> Was(started[k])]
  BY DEF Restart, Lose
<1>2. ASSUME NEW k \in 1..Len(started)
      PROVE  /\ Was(started[k]) \in TestSet
             /\ Was(started[k]).ts = started[k].ts /\ Was(started[k]).by = started[k].by
             /\ Was(started[k]).lost <=> started[k].lost \/ \E t \in flight : t.ts = started[k].ts
  <2>1. started[k] \in TestSet
    BY SpeedFacts DEF SpeedInv
  <2> QED BY <2>1 DEF TestSet
<1> HIDE DEF Was
<1>3. /\ started' \in Seq(TestSet) /\ Len(started') = Len(started)
      /\ \A k \in 1..Len(started) : started'[k] = Was(started[k])
  BY <1>1, <1>2, SpeedFacts DEF SpeedInv
<1>4. SpeedType' /\ OneAtATime'
  BY <1>1, <1>2, <1>3, SpeedFacts DEF SpeedInv, SpeedType, OneAtATime
<1>5. ButtonSpaced'
  <2> SUFFICES ASSUME NEW k \in 2..Len(started), started'[k].by = "button",
                      NEW j \in 1..k - 1, ~started'[j].lost
               PROVE  started'[k].ts - started'[j].ts >= MinInterval
    BY <1>3 DEF ButtonSpaced
  <2>1. k \in 1..Len(started) /\ j \in 1..Len(started)
    BY SpeedFacts DEF SpeedInv
  <2>2. started[k].by = "button" /\ ~started[j].lost
    BY <1>2, <1>3, <2>1
  <2>3. started[k].ts - started[j].ts >= MinInterval
    BY <2>2 DEF SpeedInv, EveryTestCounts, ButtonSpaced
  <2> QED BY <1>2, <1>3, <2>1, <2>3
<1>6. EveryTestRecorded'
  <2>1. ASSUME NEW k \in 1..Len(started), ~started'[k].lost
        PROVE  \E r \in ToSet(rows) : r.ts = started'[k].ts
    <3>1. ~started[k].lost /\ ~(\E t \in flight : t.ts = started[k].ts) /\ started'[k].ts = started[k].ts
      BY <1>2, <1>3, <2>1
    <3> QED BY <3>1 DEF SpeedInv, EveryTestCounts, EveryTestRecorded
  <2> QED BY <1>1, <1>3, <2>1 DEF EveryTestRecorded
<1> QED BY <1>4, <1>5, <1>6 DEF SpeedInv, EveryTestCounts

\* What the button starts is spaced against every test the container did not lose, and every
\* such test is at work or has its row, for every number of tests and restarts of the
\* container (runGuarded, POST /api/speedtests/run).
THEOREM TestsCount == SpeedSpec => []EveryTestCounts
<1> USE SpeedAssumption
<1>1. SpeedInv /\ [SpeedNext]_speedVars => SpeedInv'
  <2> SUFFICES ASSUME SpeedInv, [SpeedNext]_speedVars PROVE SpeedInv'
    OBVIOUS
  <2>1. CASE CronFires \/ UNCHANGED speedVars
    <3>1. UNCHANGED <<clock, running, flight, rows, started>>
      BY <2>1 DEF CronFires, speedVars
    <3>2. SpeedType' /\ OneAtATime'
      BY <3>1 DEF SpeedInv, SpeedType, OneAtATime
    <3> QED BY <3>1, <3>2 DEF SpeedInv, EveryTestCounts, ButtonSpaced, EveryTestRecorded
  <2>2. CASE JitterEnds
    BY <2>2, BeginKeeps DEF JitterEnds
  <2>3. CASE Button
    BY <2>3, BeginKeeps DEF Button
  <2>4. CASE Later
    <3>1. clock' = clock + 1 /\ UNCHANGED <<running, flight, rows, started>>
      BY <2>4 DEF Later
    <3>2. SpeedType' /\ OneAtATime'
      BY <3>1, SpeedFacts DEF SpeedInv, SpeedType, OneAtATime
    <3> QED BY <3>1, <3>2 DEF SpeedInv, EveryTestCounts, ButtonSpaced, EveryTestRecorded
  <2> QED BY <2>1, <2>2, <2>3, <2>4, FinishKeeps, RestartKeeps DEF SpeedNext
<1>2. SpeedInv => EveryTestCounts
  BY DEF SpeedInv
<1> QED BY <1>1, <1>2, SpeedInitInv, PTL DEF SpeedSpec

-----------------------------------------------------------------------------
(* The link sampler. *)

States == {"active", "inactive"}
EventSet == [ts : Nat, state : States]
ReadingSet == [iface : Ifaces, watch : Nat, ts : Nat, status : States, cycle : Nat]
BatchSet ==
  [ts : Nat, path : Ifaces \cup {Null}, iface : Ifaces, watched : Nat, events : Seq(EventSet)]
SamplerSet ==
  [iface : Ifaces, last : States \cup {Null}, seen : Seq(EventSet), ticks : Nat,
   flying : Nat \cup {Null}, watch : Nat]

LinkType ==
  /\ now \in Nat
  /\ links \in [Ifaces -> States]
  /\ sampler \in SamplerSet /\ batches \in Seq(BatchSet) /\ readings \in Seq(ReadingSet)

\* What the sampler remembers is the last read of its own watch, if there was one.
MemoryIsLast ==
  /\ sampler.last # Null => readings # <<>>
  /\ readings # <<>> =>
       LET r == readings[Len(readings)]
       IN IF sampler.last = Null THEN r.watch < sampler.watch
          ELSE r.watch = sampler.watch /\ r.status = sampler.last

Placed ==
  /\ Len(sampler.seen) <= MaxBuffered
  /\ \A k \in 1..Len(readings) : readings[k].cycle \in 1..Len(batches) + 1

LinkInv == LinkType /\ MemoryIsLast /\ Placed /\ LinkReportTrue

LEMMA LinkFacts ==
  ASSUME LinkType
  PROVE  /\ Len(readings) \in Nat /\ DOMAIN readings = 1..Len(readings)
         /\ Len(batches) \in Nat /\ DOMAIN batches = 1..Len(batches)
         /\ \A k \in 1..Len(readings) :
              /\ readings[k] \in ReadingSet /\ readings[k].watch \in Nat
              /\ readings[k].cycle \in Nat /\ Event(k) \in EventSet
         /\ \A b \in 1..Len(batches) : batches[b] \in BatchSet /\ batches[b].events \in Seq(EventSet)
         /\ sampler.seen \in Seq(EventSet) /\ Len(sampler.seen) \in Nat /\ sampler.watch \in Nat
         /\ DOMAIN sampler.seen = 1..Len(sampler.seen)
<1>1. \A k \in 1..Len(readings) : readings[k] \in ReadingSet
  BY ElementOfSeq DEF LinkType
<1>2. \A b \in 1..Len(batches) : batches[b] \in BatchSet
  BY ElementOfSeq DEF LinkType
<1>3. /\ Len(readings) \in Nat /\ DOMAIN readings = 1..Len(readings)
      /\ Len(batches) \in Nat /\ DOMAIN batches = 1..Len(batches)
  BY LenProperties DEF LinkType
<1>4. sampler.seen \in Seq(EventSet) /\ sampler.watch \in Nat
  BY DEF LinkType, SamplerSet
<1>5. \A b \in 1..Len(batches) : batches[b].events \in Seq(EventSet)
  BY <1>2 DEF BatchSet
<1>6. \A k \in 1..Len(readings) :
        readings[k].watch \in Nat /\ readings[k].cycle \in Nat /\ Event(k) \in EventSet
  BY <1>1 DEF ReadingSet, EventSet, Event
<1> QED BY <1>1, <1>2, <1>3, <1>4, <1>5, <1>6, LenProperties

LEMMA LinkInitInv == LinkAssumption /\ LinkInit => LinkInv
<1> SUFFICES ASSUME LinkAssumption, LinkInit PROVE LinkInv
  OBVIOUS
<1>1. LinkType
  BY DEF LinkAssumption, LinkInit, LinkType, Fresh, SamplerSet, States
<1>2. MemoryIsLast /\ Placed
  BY DEF LinkAssumption, LinkInit, MemoryIsLast, Placed, Fresh
<1>3. LinkReportTrue
  BY DEF LinkInit, LinkReportTrue, TransitionsReal, ChangesReported, Changes, Reported, Fresh, ToSet
<1> QED BY <1>1, <1>2, <1>3 DEF LinkInv

\* A read that says something: the one after it is compared with it.
LEMMA LandKeeps ==
  ASSUME LinkAssumption, LinkInv, Land
  PROVE  LinkInv'
<1>1. PICK status \in {links[sampler.iface], "unknown"} :
        /\ sampler' = Sampled(sampler, status)
        /\ readings' =
             IF status = "unknown" THEN readings
             ELSE Append(readings, [iface |-> sampler.iface, watch |-> sampler.watch, ts |-> now,
                                    status |-> status, cycle |-> Len(batches) + 1])
  BY DEF Land
<1>2. UNCHANGED <<now, links, batches>>
  BY DEF Land
<1>3. sampler \in SamplerSet /\ links[sampler.iface] \in States
  BY DEF LinkInv, LinkType, SamplerSet
<1>4. CASE status = "unknown"
  <2>1. readings' = readings /\ sampler' = [sampler EXCEPT !.flying = Null]
    BY <1>1, <1>4 DEF Sampled
  <2>2. sampler' \in SamplerSet /\ UNCHANGED <<sampler.seen, sampler.last, sampler.watch>>
    BY <1>3, <2>1 DEF SamplerSet
  <2>3. LinkType' /\ MemoryIsLast' /\ Placed'
    BY <1>2, <2>1, <2>2 DEF LinkInv, LinkType, MemoryIsLast, Placed
  <2>4. LinkReportTrue'
    BY <1>2, <2>1, <2>2 DEF LinkInv, LinkReportTrue, TransitionsReal, ChangesReported, Changes,
                            Reported, Event
  <2> QED BY <2>3, <2>4 DEF LinkInv
<1>5. CASE status \in States
  <2> DEFINE n == Len(readings)
             new == [iface |-> sampler.iface, watch |-> sampler.watch, ts |-> now,
                     status |-> status, cycle |-> Len(batches) + 1]
             event == [ts |-> now, state |-> status]
             changed == sampler.last \notin {Null, status}
             room == Len(sampler.seen) < MaxBuffered
  <2>1. /\ now \in Nat /\ n \in Nat /\ sampler.seen \in Seq(EventSet) /\ Len(sampler.seen) \in Nat
        /\ event \in EventSet /\ new \in ReadingSet
    BY <1>3, <1>5, LinkFacts DEF LinkInv, LinkType, EventSet, ReadingSet, SamplerSet
  <2>2. /\ readings' \in Seq(ReadingSet) /\ Len(readings') = n + 1 /\ readings'[n + 1] = new
        /\ \A k \in 1..n : readings'[k] = readings[k]
    <3>1. readings' = Append(readings, new)
      BY <1>1, <1>5 DEF States
    <3> QED BY <2>1, <3>1, AppendProperties DEF LinkInv, LinkType
  <2>3. /\ sampler' \in SamplerSet /\ sampler'.last = status /\ sampler'.watch = sampler.watch
        /\ sampler'.seen = IF changed /\ room THEN Append(sampler.seen, event) ELSE sampler.seen
    <3>1. sampler' = [sampler EXCEPT !.flying = Null, !.ticks = @ + 1, !.last = status,
                        !.seen = IF changed /\ room THEN Append(@, event) ELSE @]
      BY <1>1, <1>3, <1>5 DEF Sampled, SamplerSet, States
    <3>2. Append(sampler.seen, event) \in Seq(EventSet)
      BY <2>1, AppendProperties
    <3>3. sampler.ticks + 1 \in Nat /\ status \in States \cup {Null}
      BY <1>3, <1>5 DEF SamplerSet
    <3> DEFINE seen == IF changed /\ room THEN Append(sampler.seen, event) ELSE sampler.seen
    <3>4. seen \in Seq(EventSet)
      BY <2>1, <3>2
    <3>5. sampler' = [sampler EXCEPT !.flying = Null, !.ticks = @ + 1, !.last = status, !.seen = seen]
      BY <1>3, <3>1 DEF SamplerSet
    <3> HIDE DEF seen
    <3>6. sampler' \in SamplerSet /\ sampler'.last = status /\ sampler'.watch = sampler.watch
          /\ sampler'.seen = seen
      BY <1>3, <3>3, <3>4, <3>5 DEF SamplerSet
    <3> QED BY <3>6 DEF seen
  <2> HIDE DEF event, new
  <2>4. /\ ToSet(sampler.seen) \subseteq ToSet(sampler'.seen)
        /\ changed /\ room => event \in ToSet(sampler'.seen)
        /\ \A e \in ToSet(sampler'.seen) : e \in ToSet(sampler.seen) \/ (changed /\ room /\ e = event)
        /\ Len(sampler'.seen) \in Nat /\ Len(sampler'.seen) <= MaxBuffered
        /\ ~room => sampler'.seen = sampler.seen /\ Len(sampler.seen) = MaxBuffered
    <3>1. CASE changed /\ room
      <4>1. /\ Len(sampler'.seen) = Len(sampler.seen) + 1
            /\ ToSet(sampler'.seen) = ToSet(sampler.seen) \cup {event}
        BY <2>1, <2>3, <3>1, AppendFacts
      <4>2. Len(sampler.seen) + 1 <= MaxBuffered
        BY <2>1, <3>1 DEF LinkAssumption
      <4> QED BY <2>1, <3>1, <4>1, <4>2
    <3>2. CASE ~(changed /\ room)
      BY <2>1, <2>3, <3>2 DEF LinkInv, Placed, LinkAssumption
    <3> QED BY <3>1, <3>2
  <2>5. LinkType'
    BY <1>2, <2>2, <2>3 DEF LinkInv, LinkType
  <2>6. MemoryIsLast'
    BY <1>5, <2>1, <2>2, <2>3 DEF MemoryIsLast, new, States, LinkAssumption
  <2>7. Placed'
    <3>1. \A k \in 1..n + 1 : readings'[k].cycle \in 1..Len(batches) + 1
      <4>1. Len(batches) \in Nat /\ \A k \in 1..n + 1 : k \in 1..n \/ k = n + 1
        BY <2>1, LinkFacts DEF LinkInv
      <4>2. readings'[n + 1].cycle = Len(batches) + 1
        BY <2>2 DEF new
      <4> QED BY <2>2, <4>1, <4>2 DEF LinkInv, Placed
    <3> QED BY <1>2, <2>2, <2>4, <3>1 DEF Placed
  \* The steps at which reads disagree are those there were, and this one if it is one.
  <2>8. /\ \A k \in Changes : k \in Changes' /\ k \in 1..n /\ Event(k)' = Event(k)
        /\ \A k \in Changes' : k \in Changes \/ (k = n + 1 /\ changed)
        /\ \A k : k = n + 1 => Event(k)' = event /\ (changed => k \in Changes')
    <3>1. \A k \in 2..n : k \in 1..n /\ k - 1 \in 1..n
      BY <2>1
    <3>2. \A k \in 1..n : Event(k)' = Event(k)
      BY <2>2 DEF Event
    <3>3. \A k : k = n + 1 => Event(k)' = event
      BY <2>2 DEF Event, new, event
    <3>4. \A k \in 2..n : k \in Changes <=> k \in Changes'
      BY <2>1, <2>2, <3>1, SMTT(20) DEF Changes
    <3>5. n + 1 \in Changes' <=> changed
      <4>1. CASE n = 0
        BY <2>1, <2>2, <4>1 DEF Changes, LinkInv, MemoryIsLast
      <4>2. CASE n > 0
        <5>1. readings # <<>> /\ n \in 1..n /\ n + 1 \in 2..n + 1
          BY <2>1, <4>2
        <5>2. n + 1 \in Changes' <=> readings[n].watch = sampler.watch /\ status # readings[n].status
          BY <2>1, <2>2, <5>1 DEF Changes, new
        <5>3. readings[n].watch \in Nat /\ sampler.watch \in Nat
          BY <5>1, LinkFacts DEF LinkInv
        <5> QED BY <5>1, <5>2, <5>3 DEF LinkInv, MemoryIsLast
      <4> QED BY <2>1, <4>1, <4>2
    <3>6. Changes \subseteq 2..n /\ Changes' \subseteq 2..n + 1
      BY <2>2 DEF Changes
    <3> QED BY <2>1, <3>1, <3>2, <3>3, <3>4, <3>5, <3>6
  <2>9. Reported' = Reported
    BY <1>2 DEF Reported
  <2>10. TransitionsReal'
    <3> SUFFICES ASSUME NEW e \in Reported \cup ToSet(sampler'.seen)
                 PROVE  \E k \in Changes' : Event(k)' = e
      BY <2>9 DEF TransitionsReal
    <3>1. CASE e \in Reported \cup ToSet(sampler.seen)
      <4>1. PICK k \in Changes : Event(k) = e
        BY <3>1 DEF LinkInv, LinkReportTrue, TransitionsReal
      <4> QED BY <2>8, <4>1
    <3>2. CASE changed /\ e = event
      BY <2>8, <3>2
    <3> QED BY <2>4, <3>1, <3>2
  <2>11. ChangesReported'
    <3> SUFFICES ASSUME NEW k \in Changes',
                        NEW kept,
                        kept = IF readings'[k].cycle <= Len(batches) THEN batches[readings'[k].cycle].events
                               ELSE sampler'.seen
                 PROVE  Event(k)' \in ToSet(kept) \/ Len(kept) = MaxBuffered
      BY <1>2 DEF ChangesReported
    <3>1. CASE k \in Changes
      <4> DEFINE c == readings[k].cycle
                 was == IF c <= Len(batches) THEN batches[c].events ELSE sampler.seen
      <4>1. Event(k) \in ToSet(was) \/ Len(was) = MaxBuffered
        BY <3>1 DEF LinkInv, LinkReportTrue, ChangesReported
      <4>2. readings'[k].cycle = c /\ Event(k)' = Event(k)
        BY <2>2, <2>8, <3>1
      <4>3. CASE c <= Len(batches)
        BY <4>1, <4>2, <4>3
      <4>4. CASE ~(c <= Len(batches))
        <5>1. kept = sampler'.seen /\ was = sampler.seen
          BY <4>2, <4>4
        <5>2. Len(was) = MaxBuffered => ~room
          BY <5>1, <2>1 DEF LinkAssumption
        <5> QED BY <2>4, <4>1, <4>2, <5>1, <5>2
      <4> QED BY <4>3, <4>4
    <3>2. CASE k = n + 1 /\ changed
      <4>1. kept = sampler'.seen /\ Event(k)' = event
        <5>1. Len(batches) \in Nat /\ readings'[k].cycle = Len(batches) + 1
          BY <2>2, <3>2, LinkFacts DEF LinkInv, new
        <5> QED BY <2>8, <3>2, <5>1
      <4> QED BY <2>4, <3>2, <4>1
    <3> QED BY <2>8, <3>1, <3>2
  <2> QED BY <2>5, <2>6, <2>7, <2>10, <2>11 DEF LinkInv, LinkReportTrue
<1> QED BY <1>1, <1>3, <1>4, <1>5

\* The cycle takes what there is, and what comes after is of the next one.
LEMMA CycleKeeps ==
  ASSUME LinkAssumption, LinkInv, NEW path \in Ifaces \cup {Null}, Cycle(path)
  PROVE  LinkInv'
<1> DEFINE n == Len(batches)
           batch == [ts |-> now, path |-> path, iface |-> sampler.iface,
                     watched |-> Min2(sampler.ticks, CycleS), events |-> sampler.seen]
<1>1. sampler \in SamplerSet /\ now \in Nat
  BY DEF LinkInv, LinkType
<1>2. batch \in BatchSet
  BY <1>1 DEF BatchSet, SamplerSet, Min2, LinkAssumption
<1>3. /\ batches' \in Seq(BatchSet) /\ n \in Nat /\ Len(batches') = n + 1
      /\ \A b \in 1..n : batches'[b] = batches[b]
      /\ batches'[n + 1].events = sampler.seen
  <2>1. batches' = Append(batches, batch)
    BY DEF Cycle
  <2> HIDE DEF batch
  <2>2. /\ batches' \in Seq(BatchSet) /\ n \in Nat /\ Len(batches') = n + 1
        /\ \A b \in 1..n : batches'[b] = batches[b]
        /\ batches'[n + 1] = batch
    BY <1>2, <2>1, AppendFacts DEF LinkInv, LinkType
  <2> QED BY <2>2 DEF batch
<1>4. UNCHANGED <<now, links, readings>>
  BY DEF Cycle
<1>5. /\ sampler' \in SamplerSet /\ sampler'.seen = <<>>
      /\ \/ sampler'.watch = sampler.watch /\ sampler'.last = sampler.last
         \/ sampler'.watch = sampler.watch + 1 /\ sampler'.last = Null
  <2>1. Drained(sampler) \in SamplerSet
    BY <1>1, EmptyFacts DEF Drained, SamplerSet
  <2>2. sampler' = Retarget(Drained(sampler), path)
    BY DEF Cycle
  <2>3. /\ Drained(sampler).seen = <<>> /\ Drained(sampler).last = sampler.last
        /\ Drained(sampler).watch = sampler.watch
    BY <1>1 DEF Drained, SamplerSet
  <2>4. CASE path \in {Null, Drained(sampler).iface}
    BY <2>1, <2>2, <2>3, <2>4 DEF Retarget
  <2>5. CASE path \notin {Null, Drained(sampler).iface}
    <3>1. sampler' = Fresh(path, sampler.watch + 1) /\ path \in Ifaces
      BY <2>2, <2>3, <2>5 DEF Retarget
    <3> QED BY <1>1, <3>1, EmptyFacts DEF Fresh, SamplerSet
  <2> QED BY <2>4, <2>5
<1>6. LinkType'
  BY <1>3, <1>4, <1>5 DEF LinkInv, LinkType
<1>7. MemoryIsLast'
  <2>1. CASE readings = <<>>
    BY <1>4, <1>5, <2>1 DEF LinkInv, MemoryIsLast
  <2>2. CASE readings # <<>>
    <3>1. readings[Len(readings)].watch \in Nat /\ sampler.watch \in Nat
      <4>1. Len(readings) \in 1..Len(readings)
        BY <2>2, LinkFacts, EmptySeq DEF LinkInv, LinkType
      <4> QED BY <4>1, LinkFacts DEF LinkInv
    <3> QED BY <1>4, <1>5, <2>2, <3>1 DEF LinkInv, MemoryIsLast
  <2> QED BY <2>1, <2>2
<1>8. Placed'
  <2>1. \A k \in 1..Len(readings) : readings[k].cycle \in 1..n + 2
    BY <1>3, LinkFacts DEF LinkInv, Placed
  <2> QED BY <1>3, <1>4, <1>5, <2>1, EmptyFacts DEF Placed, LinkAssumption
<1>9. Changes' = Changes /\ \A k : Event(k)' = Event(k)
  BY <1>4 DEF Changes, Event
<1>10. TransitionsReal'
  <2>1. Reported' \subseteq Reported \cup ToSet(sampler.seen)
    BY <1>3 DEF Reported
  <2> QED BY <1>5, <1>9, <2>1, EmptyFacts DEF LinkInv, LinkReportTrue, TransitionsReal
<1>11. ChangesReported'
  <2> SUFFICES ASSUME NEW k \in Changes, NEW c, c = readings[k].cycle,
                      NEW kept, kept = IF c <= n + 1 THEN batches'[c].events ELSE sampler'.seen
               PROVE  Event(k) \in ToSet(kept) \/ Len(kept) = MaxBuffered
    BY <1>3, <1>4, <1>9 DEF ChangesReported
  <2>1. c \in 1..n + 1
    BY DEF LinkInv, Placed, Changes
  <2>2. kept = IF c <= n THEN batches[c].events ELSE sampler.seen
    BY <1>3, <2>1
  <2> QED BY <2>2 DEF LinkInv, LinkReportTrue, ChangesReported
<1> QED BY <1>6, <1>7, <1>8, <1>10, <1>11 DEF LinkInv, LinkReportTrue

\* The link's events are its transitions, no more and no fewer, for every number of
\* interfaces, reads and cycles and every buffer (createLinkSampler, retargetLinkSampler).
THEOREM LinkReported == LinkSpec => []LinkReportTrue
<1> USE LinkAssumption
<1>1. LinkInv /\ [LinkNext]_linkVars => LinkInv'
  <2> SUFFICES ASSUME LinkInv, [LinkNext]_linkVars PROVE LinkInv'
    OBVIOUS
  <2>1. CASE Second
    <3>1. /\ sampler' \in SamplerSet /\ now' \in Nat /\ sampler'.seen = sampler.seen
          /\ sampler'.last = sampler.last /\ sampler'.watch = sampler.watch
      <4>1. sampler \in SamplerSet /\ now' \in Nat /\ now' = now + 1
        BY <2>1 DEF Second, LinkInv, LinkType
      <4>2. sampler' = sampler \/ sampler' = [sampler EXCEPT !.flying = now']
        BY <2>1 DEF Second
      <4> QED BY <4>1, <4>2 DEF SamplerSet
    <3>2. UNCHANGED <<links, batches, readings>>
      BY <2>1 DEF Second
    <3>3. LinkType' /\ MemoryIsLast' /\ Placed'
      BY <3>1, <3>2 DEF LinkInv, LinkType, MemoryIsLast, Placed
    <3> QED BY <3>1, <3>2, <3>3 DEF LinkInv, LinkReportTrue, TransitionsReal, ChangesReported, Changes,
                                    Reported, Event
  <2>2. CASE \/ \E i \in Ifaces : Flip(i) \/ Reroute(i)
             \/ Reroute(Null) \/ UNCHANGED linkVars
    <3>1. links' \in [Ifaces -> States] /\ UNCHANGED <<now, sampler, batches, readings>>
      BY <2>2 DEF Flip, Reroute, linkVars, LinkInv, LinkType, States
    <3>2. LinkType' /\ MemoryIsLast' /\ Placed'
      BY <3>1 DEF LinkInv, LinkType, MemoryIsLast, Placed
    <3> QED BY <3>1, <3>2 DEF LinkInv, LinkReportTrue, TransitionsReal, ChangesReported, Changes,
                              Reported, Event
  <2> QED BY <2>1, <2>2, LandKeeps, CycleKeeps DEF LinkNext
<1>2. LinkInv => LinkReportTrue
  BY DEF LinkInv
<1> QED BY <1>1, <1>2, LinkInitInv, PTL DEF LinkSpec

-----------------------------------------------------------------------------
(* The capture of the path and of the Wi-Fi. *)

CaptureSpec == CaptureInit /\ [][CaptureNext]_captureVars

LEMMA Distinct ==
  /\ Radio # Socket /\ Radio # Null /\ Socket # Null /\ Silence # Null
  /\ Radio # Silence /\ Socket # Silence /\ Expected # Null
<1> DEFINE S1 == {Radio}
           S2 == S1 \cup {Socket}
           S3 == S2 \cup {Expected}
           S4 == S3 \cup {Stranger}
           S5 == S4 \cup {Silence}
           S6 == S5 \cup {Null}
<1>1. S6 = {Radio, Socket, Expected, Stranger, Silence, Null}
  OBVIOUS
<1>2. Cardinality(S6) = 6
  BY <1>1, CaptureAssumption
<1>3. IsFiniteSet(S1) /\ Cardinality(S1) = 1
  BY FS_Singleton
<1> HIDE DEF S1
<1>4. IsFiniteSet(S2) /\ Cardinality(S2) = IF Socket \in S1 THEN Cardinality(S1) ELSE Cardinality(S1) + 1
  BY <1>3, FS_AddElement
<1> HIDE DEF S2
<1>5. IsFiniteSet(S3) /\ Cardinality(S3) = IF Expected \in S2 THEN Cardinality(S2) ELSE Cardinality(S2) + 1
  BY <1>4, FS_AddElement
<1> HIDE DEF S3
<1>6. IsFiniteSet(S4) /\ Cardinality(S4) = IF Stranger \in S3 THEN Cardinality(S3) ELSE Cardinality(S3) + 1
  BY <1>5, FS_AddElement
<1> HIDE DEF S4
<1>7. IsFiniteSet(S5) /\ Cardinality(S5) = IF Silence \in S4 THEN Cardinality(S4) ELSE Cardinality(S4) + 1
  BY <1>6, FS_AddElement
<1> HIDE DEF S5
<1>8. Cardinality(S6) = IF Null \in S5 THEN Cardinality(S5) ELSE Cardinality(S5) + 1
  BY <1>7, FS_AddElement
<1> HIDE DEF S6
<1>9. Socket \notin S1 /\ Expected \notin S2 /\ Stranger \notin S3 /\ Silence \notin S4 /\ Null \notin S5
  BY <1>2, <1>3, <1>4, <1>5, <1>6, <1>7, <1>8
<1> QED BY <1>9 DEF S1, S2, S3, S4, S5

\* The machine: what a service entry may say, and that the adapter there is has one.
Entries == {Entry(port, Socket) : port \in Ports} \cup {Entry({"wireless"}, Radio)}
           \cup {Entry(port, Null) : port \in Ports}
Machine ==
  [ route : Routes, port : Ports, fast : Speeds, services : Seq(Entries), status : Statuses, moves : Nat ]
Listed(h) == Entry(h.port, Socket) \in ToSet(h.services)

LEMMA EntriesAre ==
  /\ \A port \in Ports : Entry(port, Socket) \in Entries /\ Entry(port, Null) \in Entries
  /\ \A s \in Entries :
       /\ s = Entry(s.port, s.device)
       /\ s.device = Socket => s.port \in Ports
       /\ s.device = Radio => s.port = {"wireless"}
       /\ Unplugged(s) \in Entries
<1>1. \A port \in Ports : Entry(port, Socket) \in Entries /\ Entry(port, Null) \in Entries
  BY DEF Entries
<1>2. ASSUME NEW port, NEW device
      PROVE  Entry(port, device).port = port /\ Entry(port, device).device = device
  BY DEF Entry
<1>3. ASSUME NEW s \in Entries
      PROVE  /\ s = Entry(s.port, s.device)
             /\ s.device = Socket => s.port \in Ports
             /\ s.device = Radio => s.port = {"wireless"}
             /\ Unplugged(s) \in Entries
  <2>1. CASE \E port \in Ports : s = Entry(port, Socket)
    <3>1. PICK port \in Ports : s = Entry(port, Socket)
      BY <2>1
    <3>2. s.port = port /\ s.device = Socket
      BY <1>2, <3>1
    <3> QED BY <1>1, <3>1, <3>2, Distinct DEF Unplugged
  <2>2. CASE s = Entry({"wireless"}, Radio)
    <3>1. s.port = {"wireless"} /\ s.device = Radio
      BY <1>2, <2>2
    <3> QED BY <2>2, <3>1, Distinct DEF Unplugged
  <2>3. CASE \E port \in Ports : s = Entry(port, Null)
    <3>1. PICK port \in Ports : s = Entry(port, Null)
      BY <2>3
    <3>2. s.port = port /\ s.device = Null
      BY <1>2, <3>1
    <3> QED BY <3>1, <3>2, Distinct DEF Unplugged
  <2> QED BY <2>1, <2>2, <2>3 DEF Entries
<1> QED BY <1>1, <1>3

\* A machine that changed in one thing besides its adapters is one.
LEMMA MachineWith ==
  ASSUME NEW h \in Machine, Listed(h), NEW g,
         \/ \E way \in Routes : g = [h EXCEPT !.route = way]
         \/ \E fast \in Speeds : g = [h EXCEPT !.fast = fast]
         \/ \E status \in Statuses : g = [h EXCEPT !.status = status]
         \/ g = OneMoveOn(h)
  PROVE  g \in Machine /\ Listed(g)
<1>1. CASE \E way \in Routes : g = [h EXCEPT !.route = way]
  BY <1>1 DEF Machine, Listed
<1>2. CASE \E fast \in Speeds : g = [h EXCEPT !.fast = fast]
  BY <1>2 DEF Machine, Listed
<1>3. CASE \E status \in Statuses : g = [h EXCEPT !.status = status]
  BY <1>3 DEF Machine, Listed
<1>4. CASE g = OneMoveOn(h)
  <2>1. h.moves + 1 \in Nat
    BY DEF Machine
  <2>2. PICK moves \in Nat : moves = h.moves + 1
    BY <2>1
  <2>3. g = [h EXCEPT !.moves = moves]
    BY <1>4, <2>2 DEF OneMoveOn
  <2> QED BY <2>2, <2>3 DEF Machine, Listed
<1> QED BY <1>1, <1>2, <1>3, <1>4

LEMMA MachineMoved ==
  ASSUME NEW h \in Machine, Listed(h)
  PROVE  /\ \A way \in Routes : LET g == OneMoveOn([h EXCEPT !.route = way]) IN g \in Machine /\ Listed(g)
         /\ \A fast \in Speeds : LET g == OneMoveOn([h EXCEPT !.fast = fast]) IN g \in Machine /\ Listed(g)
         /\ \A status \in Statuses : LET g == OneMoveOn([h EXCEPT !.status = status]) IN g \in Machine /\ Listed(g)
<1>1. ASSUME NEW way \in Routes PROVE OneMoveOn([h EXCEPT !.route = way]) \in Machine /\ Listed(OneMoveOn([h EXCEPT !.route = way]))
  <2> DEFINE g == [h EXCEPT !.route = way]
  <2>1. g \in Machine /\ Listed(g)
    BY MachineWith
  <2> HIDE DEF g
  <2>2. OneMoveOn(g) \in Machine /\ Listed(OneMoveOn(g))
    BY <2>1, MachineWith
  <2> QED BY <2>2 DEF g
<1>2. ASSUME NEW fast \in Speeds PROVE OneMoveOn([h EXCEPT !.fast = fast]) \in Machine /\ Listed(OneMoveOn([h EXCEPT !.fast = fast]))
  <2> DEFINE g == [h EXCEPT !.fast = fast]
  <2>1. g \in Machine /\ Listed(g)
    BY MachineWith
  <2> HIDE DEF g
  <2>2. OneMoveOn(g) \in Machine /\ Listed(OneMoveOn(g))
    BY <2>1, MachineWith
  <2> QED BY <2>2 DEF g
<1>3. ASSUME NEW status \in Statuses PROVE OneMoveOn([h EXCEPT !.status = status]) \in Machine /\ Listed(OneMoveOn([h EXCEPT !.status = status]))
  <2> DEFINE g == [h EXCEPT !.status = status]
  <2>1. g \in Machine /\ Listed(g)
    BY MachineWith
  <2> HIDE DEF g
  <2>2. OneMoveOn(g) \in Machine /\ Listed(OneMoveOn(g))
    BY <2>1, MachineWith
  <2> QED BY <2>2 DEF g
<1> QED BY <1>1, <1>2, <1>3, Zenon

\* An adapter that takes over the name is listed, whatever else stays.
LEMMA PlugKeeps ==
  ASSUME host \in Machine, NEW port \in Ports, Plug(port)
  PROVE  host' \in Machine /\ Listed(host')
<1> DEFINE list == host.services
           lost == [i \in 1..Len(list) |-> Unplugged(list[i])]
           entry == <<Entry(port, Socket)>>
<1>1. list \in Seq(Entries) /\ entry \in Seq(Entries) /\ Entry(port, Socket) \in ToSet(entry)
  BY EntriesAre DEF Machine, ToSet
<1>2. lost \in Seq(Entries)
  <2>1. Len(list) \in Nat /\ \A i \in 1..Len(list) : list[i] \in Entries
    BY <1>1, SeqFacts
  <2>2. \A i \in 1..Len(list) : Unplugged(list[i]) \in Entries
    BY <2>1, EntriesAre
  <2>3. lost \in [1..Len(list) -> Entries]
    BY <2>2
  <2> HIDE DEF lost
  <2> QED BY <2>1, <2>3, SeqDef
<1> HIDE DEF lost, entry
<1>3. PICK stays \in BOOLEAN, first \in BOOLEAN :
        LET kept == IF stays THEN list ELSE lost
        IN host' = OneMoveOn([host EXCEPT !.port = port, !.services = IF first THEN entry \o kept ELSE kept \o entry])
  BY Zenon DEF Plug, lost, entry
<1>4. PICK kept : kept = IF stays THEN list ELSE lost
  OBVIOUS
<1>5. kept \in Seq(Entries)
  BY <1>1, <1>2, <1>4
<1>6. PICK services : services = IF first THEN entry \o kept ELSE kept \o entry
  OBVIOUS
<1>7. services \in Seq(Entries) /\ Entry(port, Socket) \in ToSet(services)
  BY <1>1, <1>5, <1>6, ConcatFacts
<1>8. PICK g : g = [host EXCEPT !.port = port, !.services = services]
  OBVIOUS
<1>9. host' = OneMoveOn(g)
  BY <1>3, <1>4, <1>6, <1>8
<1>10. g \in Machine /\ g.port = port /\ g.services = services
  <2>1. PICK f : f = [host EXCEPT !.port = port]
    OBVIOUS
  <2>2. f \in Machine /\ f.port = port
    BY <2>1 DEF Machine
  <2>3. g = [f EXCEPT !.services = services]
    BY <1>8, <2>1
  <2>4. f = [ route |-> f.route, port |-> f.port, fast |-> f.fast, services |-> f.services,
              status |-> f.status, moves |-> f.moves ]
    BY <2>2 DEF Machine
  <2>5. g = [ route |-> f.route, port |-> f.port, fast |-> f.fast, services |-> services,
              status |-> f.status, moves |-> f.moves ]
    BY <2>3, <2>4
  <2>6. /\ f.route \in Routes /\ f.port \in Ports /\ f.fast \in Speeds
        /\ f.status \in Statuses /\ f.moves \in Nat
    BY <2>2 DEF Machine
  <2> QED BY <1>7, <2>2, <2>5, <2>6 DEF Machine
<1> QED BY <1>7, <1>9, <1>10, MachineWith DEF Listed

\* What the commands said is what the machine was like at some time of the capture.
MachinesReal == /\ host \in Machine /\ Listed(host)
                /\ \A h \in lived : h \in Machine /\ Listed(h)
AllAsked == Commands \cup {"route", "airport", "ping"}
RouteHeard == taking.route # Null => \E h \in lived : taking.route \in RoutePrints(h)
NoneBefore == taking.route = Null => \A c \in Commands : taking[c] = Null
LinkHeard == taking.link # Null => \E h \in lived : taking.link \in PrintsOf(h, "link", taking.route.iface)
OwnHeard == \A c \in {"counters", "lease"} : taking[c] # Null => taking[c] \in {Silence, taking.route.iface}
ServicesHeard == taking.services # Null => taking.services \in Seq(Entries)
AirportHeard == taking.airport # Null => \E h \in lived : taking.airport \in AirportPrints(h)
PingHeard == taking.ping # Null => taking.ping \in PingPrints
Heard ==
  /\ RouteHeard /\ NoneBefore /\ LinkHeard /\ OwnHeard /\ ServicesHeard /\ AirportHeard /\ PingHeard
  /\ taking = [c \in AllAsked |-> taking[c]]

CaptureInv == capture \in {"vantage", "unset", "wifi"} /\ MachinesReal /\ Heard /\ CaptureIsTrue

\* The machine may change at any time: what was heard of it before stays.
LEMMA MovesKeep ==
  ASSUME CaptureInv, HostMoves
  PROVE  CaptureInv'
<1>1. taken = Null /\ capture' = capture /\ taking' = taking /\ taken' = taken
  BY DEF HostMoves
<1>2. lived \subseteq lived' /\ lived' \subseteq lived \cup {host'}
  BY DEF HostMoves
<1>3. host' \in Machine /\ Listed(host')
  <2>1. /\ host \in Machine /\ Listed(host) /\ host.moves \in Nat
        /\ host.route \in Routes /\ host.fast \in Speeds /\ host.status \in Statuses
    BY DEF CaptureInv, MachinesReal, Machine
  <2>2. CASE \E port \in Ports \ {host.port} : Plug(port)
    BY <2>1, <2>2, PlugKeeps
  <2>3. CASE Reroutes
    <3>1. PICK way \in Routes : host' = OneMoveOn([host EXCEPT !.route = way])
      BY <2>3, Zenon DEF Reroutes
    <3> QED BY <2>1, <3>1, MachineMoved, Zenon
  <2>4. CASE Renegotiate
    <3>1. PICK fast \in Speeds \ {host.fast} : host' = OneMoveOn([host EXCEPT !.fast = fast])
      BY <2>4, Zenon DEF Renegotiate
    <3> QED BY <2>1, <3>1, MachineMoved, Zenon
  <2>5. CASE Roam
    <3>1. PICK status \in Statuses \ {host.status} : host' = OneMoveOn([host EXCEPT !.status = status])
      BY <2>5, Zenon DEF Roam
    <3> QED BY <2>1, <3>1, MachineMoved, Zenon
  <2> QED BY <2>2, <2>3, <2>4, <2>5 DEF HostMoves
<1>4. MachinesReal'
  BY <1>2, <1>3 DEF CaptureInv, MachinesReal
<1>5. Heard'
  BY <1>1, <1>2 DEF CaptureInv, Heard, RouteHeard, NoneBefore, LinkHeard, OwnHeard, ServicesHeard,
                    AirportHeard, PingHeard
<1>6. CaptureIsTrue'
  BY <1>1 DEF CaptureIsTrue
<1> QED BY <1>1, <1>4, <1>5, <1>6 DEF CaptureInv

\* An answer is what a command prints of the machine as it is then.
LEMMA AnswersKeep ==
  ASSUME CaptureInv, NEW c \in AllAsked, Answers(c)
  PROVE  CaptureInv'
<1>1. /\ taken = Null /\ c \in Asked /\ taking[c] = Null /\ lived' = lived \cup {host}
      /\ UNCHANGED <<capture, host, taken>>
  BY DEF Answers, Awaited
<1>2. PICK print \in Prints(c) : taking' = [taking EXCEPT ![c] = print]
  BY DEF Answers
<1>3. \A d \in AllAsked : taking'[d] = IF d = c THEN print ELSE taking[d]
  BY <1>2 DEF CaptureInv, Heard
<1>4. taking' = [d \in AllAsked |-> taking'[d]]
  BY <1>2 DEF CaptureInv, Heard
<1>5. MachinesReal'
  BY <1>1 DEF CaptureInv, MachinesReal
<1>6. CaptureIsTrue'
  BY <1>1 DEF CaptureIsTrue
<1>7. c \in Commands => taking.route # Null
  BY <1>1 DEF Asked, Commands
<1>8. Heard'
  <2>1. RouteHeard /\ NoneBefore /\ LinkHeard /\ OwnHeard /\ ServicesHeard /\ AirportHeard /\ PingHeard
    BY DEF CaptureInv, Heard
  <2>2. CASE c = "route"
    <3>1. print \in RoutePrints(host) /\ \A d \in Commands : taking[d] = Null
      BY <1>1, <1>2, <2>1, <2>2 DEF Prints, NoneBefore
    <3>2. \A d \in AllAsked : d # "route" => taking'[d] = taking[d]
      BY <1>3, <2>2
    <3>3. \A d \in Commands : taking'[d] = Null
      BY <3>1, <3>2 DEF AllAsked, Commands
    <3>4. RouteHeard' /\ NoneBefore' /\ LinkHeard' /\ OwnHeard' /\ ServicesHeard'
      BY <1>1, <1>3, <2>2, <3>1, <3>3 DEF AllAsked, Commands, RouteHeard, NoneBefore, LinkHeard, OwnHeard,
                                         ServicesHeard
    <3>5. AirportHeard' /\ PingHeard'
      BY <1>1, <2>1, <3>2 DEF AirportHeard, PingHeard, AllAsked
    <3> QED BY <1>4, <3>4, <3>5 DEF Heard
  <2>3. CASE c \in Commands
    <3>1. taking'.route = taking.route /\ taking.route # Null
      BY <1>3, <1>7, <2>3 DEF Commands, AllAsked
    <3>2. print \in PrintsOf(host, c, taking.route.iface)
      BY <1>2, <2>3 DEF Prints, Commands
    <3>3. LinkHeard'
      BY <1>1, <1>3, <2>1, <3>1, <3>2 DEF LinkHeard, AllAsked, Commands
    <3>4. OwnHeard'
      BY <1>3, <2>1, <3>1, <3>2 DEF OwnHeard, AllAsked, Commands, PrintsOf
    <3>5. ServicesHeard'
      <4>1. CASE c = "services"
        <5>1. PICK n \in 0..Len(host.services) : print = SubSeq(host.services, 1, n)
          BY <3>2, <4>1 DEF PrintsOf, Printed
        <5>2. host.services \in Seq(Entries)
          BY DEF CaptureInv, MachinesReal, Machine
        <5>3. print \in Seq(Entries)
          BY <5>1, <5>2, SubSeqProperties
        <5> QED BY <1>3, <4>1, <5>3 DEF ServicesHeard, AllAsked, Commands
      <4>2. CASE c # "services"
        BY <1>3, <2>1, <4>2 DEF ServicesHeard, AllAsked, Commands
      <4> QED BY <4>1, <4>2
    <3>6. AirportHeard' /\ PingHeard' /\ RouteHeard' /\ NoneBefore'
      BY <1>1, <1>3, <2>1, <2>3, <3>1 DEF AirportHeard, PingHeard, RouteHeard, NoneBefore, AllAsked, Commands
    <3> QED BY <1>4, <3>3, <3>4, <3>5, <3>6 DEF Heard
  <2>4. CASE c \in {"airport", "ping"}
    <3>1. \A d \in Commands \cup {"route"} : taking'[d] = taking[d]
      BY <1>3, <2>4 DEF AllAsked, Commands
    <3>2. RouteHeard' /\ NoneBefore' /\ LinkHeard' /\ OwnHeard' /\ ServicesHeard'
      BY <1>1, <2>1, <3>1 DEF RouteHeard, NoneBefore, LinkHeard, OwnHeard, ServicesHeard, Commands
    <3>3. c = "airport" => print \in AirportPrints(host)
      BY <1>2 DEF Prints
    <3>4. c = "ping" => print \in PingPrints
      BY <1>2 DEF Prints
    <3>5. AirportHeard' /\ PingHeard'
      BY <1>1, <1>3, <2>1, <2>4, <3>3, <3>4 DEF AirportHeard, PingHeard, AllAsked
    <3> QED BY <1>4, <3>2, <3>5 DEF Heard
  <2> QED BY <2>2, <2>3, <2>4 DEF AllAsked
<1> QED BY <1>1, <1>5, <1>6, <1>8 DEF CaptureInv

\* What an interface is classified as is what some entry that names it says, `other` when
\* none does and nothing when the list is unusable; Ethernet only when every entry says so.
LEMMA Classified ==
  ASSUME NEW list \in Seq(Entries), NEW iface \in {Radio, Socket}
  PROVE  LET named == {s \in ToSet(list) : s.device = iface}
             class == ClassifyPath(iface, list)
         IN /\ class = "ethernet" => named # {} /\ \A s \in named : ClassifyHardwarePort(s.port) = "ethernet"
            /\ named # {} => \E s \in named : class = ClassifyHardwarePort(s.port)
<1> DEFINE named == {s \in ToSet(list) : s.device = iface}
           services == ParseServiceOrder(list)
           classes == {ClassifyHardwarePort(s.port) : s \in {x \in services : x.device = iface}}
           class == ClassifyPath(iface, list)
           Chosen(c) == c = "cellular" \/ ("cellular" \notin classes
                          /\ (c = "wifi" \/ ("wifi" \notin classes /\ (c = "other" \/ classes = {c}))))
<1>1. {x \in services : x.device = iface} = named
  BY Distinct DEF ParseServiceOrder
<1>2. classes = {ClassifyHardwarePort(s.port) : s \in named}
  BY <1>1
<1>3. class = IF services = {} THEN Null ELSE IF classes = {} THEN "other" ELSE CHOOSE c \in classes : Chosen(c)
  BY Zenon DEF ClassifyPath
<1>4. \A c \in classes : c \in {"cellular", "wifi", "ethernet", "other"}
  BY <1>2 DEF ClassifyHardwarePort
<1> HIDE DEF services, class
<1>5. Null # "ethernet"
  BY AbsentIsNoWord
<1>6. CASE classes = {}
  <2>1. named = {}
    BY <1>2, <1>6
  <2> QED BY <1>3, <1>5, <1>6, <2>1 DEF class
<1>7. CASE classes # {}
  <2>1. services # {} /\ named # {}
    BY <1>1, <1>2, <1>7
  <2>2. \E c \in classes : Chosen(c)
    <3>1. CASE "cellular" \in classes
      BY <3>1
    <3>2. CASE "cellular" \notin classes /\ "wifi" \in classes
      BY <3>2
    <3>3. CASE "cellular" \notin classes /\ "wifi" \notin classes /\ "other" \in classes
      BY <3>3
    <3>4. CASE "cellular" \notin classes /\ "wifi" \notin classes /\ "other" \notin classes
      BY <1>4, <1>7, <3>4
    <3> QED BY <3>1, <3>2, <3>3, <3>4
  <2> HIDE DEF classes
  <2>3. class \in classes /\ Chosen(class)
    BY <1>3, <1>7, <2>1, <2>2, Zenon
  <2>4. class = "ethernet" => classes = {"ethernet"}
    BY <2>3
  <2> QED BY <1>2, <2>1, <2>3, <2>4, Zenon DEF class
<1> QED BY <1>6, <1>7

\* What the ports say of themselves.
LEMMA PortsSay ==
  /\ ClassifyHardwarePort({"ethernet"}) = "ethernet" /\ ClassifyHardwarePort({"wireless"}) = "wifi"
  /\ \A port \in Ports : ClassifyHardwarePort(port) = "ethernet" => port = {"ethernet"}
<1>1. ClassifyHardwarePort({"ethernet"}) = "ethernet" /\ ClassifyHardwarePort({"wireless"}) = "wifi"
  BY DEF ClassifyHardwarePort
<1>2. ASSUME NEW port \in Ports, ClassifyHardwarePort(port) = "ethernet" PROVE port = {"ethernet"}
  <2>1. port # {"ethernet", "tether"} /\ port # {"tether"}
    BY <1>2 DEF ClassifyHardwarePort
  <2>2. ClassifyHardwarePort({}) = "other"
    BY DEF ClassifyHardwarePort
  <2> QED BY <1>2, <2>1, <2>2 DEF Ports
<1> QED BY <1>1, <1>2

\* The vantage is true of the route its first command named.
LEMMA VantageDelivered ==
  ASSUME MachinesReal, Heard, capture \in {"vantage", "unset"}, Awaited = {}
  PROVE  VantageIsTrue(CaptureVantage)
<1> DEFINE v == CaptureVantage
           iface == taking.route.iface
           class == ClassifyPath(iface, taking.services)
<1>1. taking.route # Null
  BY DEF Awaited, Asked
<1>2. PICK h \in lived : taking.route \in RoutePrints(h)
  BY <1>1 DEF Heard, RouteHeard
<1>3. h \in Machine /\ h.route \in Routes
  BY DEF MachinesReal, Machine
<1>4. CASE iface = Null
  <2>1. v = NoPath(taking.route.gateway)
    BY <1>4 DEF CaptureVantage
  <2>2. /\ v.pathIf = Null /\ v.class = Null /\ v.mbit = Null /\ v.max = Null
        /\ v.counters = Null /\ v.bound = Null /\ v.home = Null
    BY <2>1 DEF NoPath
  <2>3. v.home # 1 /\ v.home # 0
    BY <2>2, AbsentIsNoNumber
  <2> HIDE DEF v
  <2>4. {v.counters, v.bound} \ {Null} = {}
        /\ {v.class, v.mbit, v.max, v.counters, v.bound, v.home} = {Null}
    BY <2>2
  <2> QED BY <2>2, <2>3, <2>4 DEF VantageIsTrue, v
<1>5. CASE iface # Null
  <2>1. taking.route = h.route /\ iface \in {Radio, Socket}
    <3>1. taking.route = h.route
      BY <1>2, <1>5 DEF RoutePrints
    <3> QED BY <1>3, <1>5, <3>1 DEF Routes
  <2>2. \A c \in Commands : taking[c] # Null
    BY <1>1, <1>5 DEF Awaited, Asked
  <2>3. /\ v.pathIf = iface /\ v.gateway = taking.route.gateway /\ v.mbit = taking.link.mbit
        /\ v.max = taking.link.max /\ v.counters = Blank(taking.counters) /\ v.bound = Blank(taking.lease)
        /\ v.home = DeriveOnHomeLine(class, taking.route.gateway)
    BY <1>5 DEF CaptureVantage
  <2> HIDE DEF v
  <2>4. taking.services \in Seq(Entries)
    BY <2>2 DEF Heard, ServicesHeard, Commands
  <2>5. PICK named : named = {s \in ToSet(taking.services) : s.device = iface}
    OBVIOUS
  <2>6. /\ class = "ethernet" => named # {} /\ \A s \in named : ClassifyHardwarePort(s.port) = "ethernet"
        /\ named # {} => \E s \in named : class = ClassifyHardwarePort(s.port)
    BY <2>1, <2>4, <2>5, Classified
  <2>7. named \subseteq Entries
    BY <2>4, <2>5, SeqFacts
  <2>8. ASSUME NEW g \in lived, taking.services = g.services
        PROVE  g.port \in Ports /\ (iface = Socket => Entry(g.port, Socket) \in named)
    <3>1. g.port \in Ports /\ Entry(g.port, Socket) \in ToSet(g.services)
      BY DEF MachinesReal, Machine, Listed
    <3>2. Entry(g.port, Socket).device = Socket
      BY DEF Entry
    <3> QED BY <2>5, <2>8, <3>1, <3>2
  <2>9. class = "ethernet" => iface = Socket
    <3>1. SUFFICES ASSUME class = "ethernet", iface = Radio PROVE FALSE
      BY <2>1
    <3>2. PICK s \in named : ClassifyHardwarePort(s.port) = "ethernet"
      BY <2>6, <3>1
    <3>3. s.port = {"wireless"}
      BY <2>5, <2>7, <3>1, EntriesAre
    <3> QED BY <3>2, <3>3, PortsSay
  <2> HIDE DEF class, iface
  <2>10. v.home = 1 => class = "ethernet" /\ capture # "unset" /\ v.gateway = Expected
    BY <2>3, AbsentIsNoNumber, AbsentIsNoWord, Distinct DEF DeriveOnHomeLine, ExpectedGateway
  <2>11. v.home = 0 => \/ class # Null /\ class # "ethernet"
                       \/ capture # "unset" /\ v.gateway \notin {Null, Expected}
    BY <2>3, AbsentIsNoNumber, AbsentIsNoWord DEF DeriveOnHomeLine, ExpectedGateway
  <2>12. v.home = 1 => /\ capture # "unset"
                       /\ \E g \in lived : g.route = [iface |-> v.pathIf, gateway |-> Expected]
                       /\ v.pathIf = Socket /\ (ReallyWired \/ ListCut)
    <3> SUFFICES ASSUME v.home = 1
                 PROVE  /\ capture # "unset"
                        /\ \E g \in lived : g.route = [iface |-> v.pathIf, gateway |-> Expected]
                        /\ v.pathIf = Socket /\ (ReallyWired \/ ListCut)
      OBVIOUS
    <3>1. h.route = [iface |-> h.route.iface, gateway |-> h.route.gateway]
      BY <1>3 DEF Routes
    <3>2. h.route = [iface |-> v.pathIf, gateway |-> Expected]
      BY <2>1, <2>3, <2>10, <3>1 DEF iface
    <3>3. ASSUME NEW g \in lived, taking.services = g.services PROVE g.port = {"ethernet"}
      <4>1. g.port \in Ports /\ Entry(g.port, Socket) \in named
        BY <2>8, <2>9, <2>10, <3>3
      <4>2. Entry(g.port, Socket).port = g.port
        BY DEF Entry
      <4> QED BY <2>6, <2>10, <4>1, <4>2, PortsSay
    <3> QED BY <2>3, <2>9, <2>10, <3>2, <3>3 DEF ReallyWired, ListCut
  <2>13. v.home = 0 =>
           \/ /\ capture # "unset"
              /\ \E g \in lived : g.route.iface = v.pathIf /\ g.route.gateway \notin {Null, Expected}
           \/ v.pathIf = Radio \/ ListCut
           \/ \E g \in lived : \E s \in ToSet(g.services) : s.device = Socket /\ s.port # {"ethernet"}
    <3>1. CASE capture # "unset" /\ v.gateway \notin {Null, Expected}
      <4>1. h.route.iface = v.pathIf /\ h.route.gateway \notin {Null, Expected}
        BY <2>1, <2>3, <3>1 DEF iface
      <4> QED BY <3>1, <4>1
    <3>2. ASSUME class # Null, class # "ethernet", v.pathIf # Radio, NEW g \in lived, taking.services = g.services
          PROVE  \E s \in ToSet(g.services) : s.device = Socket /\ s.port # {"ethernet"}
      <4>1. iface = Socket
        BY <2>1, <2>3, <3>2
      <4>2. named # {}
        BY <2>8, <3>2, <4>1
      <4>3. PICK s \in named : class = ClassifyHardwarePort(s.port)
        BY <2>6, <4>2
      <4>4. s.port # {"ethernet"}
        BY <3>2, <4>3, PortsSay
      <4>5. s \in ToSet(g.services) /\ s.device = Socket
        BY <2>5, <3>2, <4>1
      <4> QED BY <4>4, <4>5
    <3> QED BY <2>11, <3>1, <3>2 DEF ListCut
  <2>14. PICK k \in lived : taking.link \in PrintsOf(k, "link", iface)
    BY <2>2 DEF Heard, LinkHeard, Commands, iface
  <2>15. k.fast \in Speeds
    BY DEF MachinesReal, Machine
  <2>16. taking.link \in {[mbit |-> Null, max |-> Null], [mbit |-> Speed(k, iface), max |-> Speed(k, iface)],
                          [mbit |-> Speed(k, iface), max |-> Ceiling(iface)]}
    BY <2>14 DEF PrintsOf
  <2>17. ASSUME v.mbit # Null
         PROVE  /\ v.pathIf = Socket /\ \E g \in lived : g.fast = v.mbit
                /\ v.max # Null /\ v.mbit <= v.max
    <3>1. iface # Radio
      BY <2>3, <2>16, <2>17 DEF Speed
    <3>2. Speed(k, iface) = k.fast /\ Ceiling(iface) = 1000
      BY <3>1 DEF Speed, Ceiling
    <3>3. v.mbit = k.fast /\ v.max \in {k.fast, 1000}
      BY <2>3, <2>16, <2>17, <3>2
    <3>4. v.max \in Nat /\ v.mbit <= v.max
      BY <2>15, <3>3 DEF Speeds
    <3> QED BY <2>1, <2>3, <3>1, <3>3, <3>4, AbsentIsNoNumber
  <2>18. \A figure \in {v.counters, v.bound} \ {Null} : figure = v.pathIf
    <3>1. taking.counters \in {Silence, iface} /\ taking.lease \in {Silence, iface}
      BY <2>2 DEF Heard, OwnHeard, Commands, iface
    <3> QED BY <2>3, <3>1 DEF Blank
  <2>19. v.pathIf # Null
    BY <1>5, <2>3 DEF iface
  <2> QED BY <2>12, <2>13, <2>17, <2>18, <2>19 DEF VantageIsTrue, v
<1> QED BY <1>4, <1>5

\* The block that is taken is one there is, or none; what it has of a status comes with it.
LEMMA BlockTaken ==
  ASSUME NEW B, NEW blocks \in Seq(B)
  PROVE  LET found == ParseAirportInfo(blocks)
         IN \/ found.iface = Null /\ found.radio = Null
            \/ found \in ToSet(blocks) /\ (found.status = "Connected" \/ found.status # Null)
<1> DEFINE connected == {i \in DOMAIN blocks : blocks[i].status = "Connected"}
           some == {i \in DOMAIN blocks : blocks[i].status # Null}
<1>1. connected \in SUBSET Nat /\ some \in SUBSET Nat
  BY SeqFacts
<1>2. ASSUME NEW T \in SUBSET Nat, T # {} PROVE Min(T) \in T
  <2>1. \E x \in T : \A y \in T : x <= y
    BY <1>2, LeastOf
  <2> QED BY <2>1, Zenon DEF Min
<1>3. CASE connected # {}
  <2>1. Min(connected) \in connected
    BY <1>1, <1>2, <1>3
  <2>2. ParseAirportInfo(blocks) = blocks[Min(connected)]
    BY <1>3, Zenon DEF ParseAirportInfo
  <2> QED BY <2>1, <2>2, SeqFacts
<1>4. CASE connected = {} /\ some # {}
  <2>1. Min(some) \in some
    BY <1>1, <1>2, <1>4
  <2>2. ParseAirportInfo(blocks) = blocks[Min(some)]
    BY <1>4, Zenon DEF ParseAirportInfo
  <2> QED BY <2>1, <2>2, SeqFacts
<1>5. CASE connected = {} /\ some = {}
  <2>1. ParseAirportInfo(blocks) = [iface |-> Null, status |-> Null, radio |-> Null]
    BY <1>5, Zenon DEF ParseAirportInfo
  <2> QED BY <2>1
<1> QED BY <1>3, <1>4, <1>5

\* Of the blocks about the Wi-Fi adapter, whatever else is printed.
LEMMA BlocksPrinted ==
  ASSUME NEW h, NEW blocks \in AirportPrints(h)
  PROVE  /\ blocks \in Seq(ToSet(blocks))
         /\ \A b \in ToSet(blocks) : /\ b.iface = Radio => b.status \in {Null, h.status}
                                     /\ b.iface = Radio /\ b.status # Null => b.radio \in {Null, "off", Radio}
<1> DEFINE own == [iface |-> Radio, status |-> h.status, radio |-> RadioOf(h, Radio)]
           drop == [iface |-> AirDrop, status |-> Null, radio |-> AirDrop]
           other == [iface |-> Socket, status |-> "Connected", radio |-> Socket]
           cut == [own EXCEPT !.radio = Null]
           cutter == [cut EXCEPT !.status = Null]
           Fine(b) == /\ b.iface = Radio => b.status \in {Null, h.status}
                      /\ b.iface = Radio /\ b.status # Null => b.radio \in {Null, "off", Radio}
<1>1. Fine(own) /\ Fine(drop) /\ Fine(other) /\ Fine(cut) /\ Fine(cutter)
  <2>1. RadioOf(h, Radio) \in {"off", Radio}
    BY DEF RadioOf
  <2>2. Fine(own)
    BY <2>1
  <2>3. cut = [iface |-> Radio, status |-> h.status, radio |-> Null]
    OBVIOUS
  <2>4. cutter = [iface |-> Radio, status |-> Null, radio |-> Null]
    <3>1. PICK c : c = cut
      OBVIOUS
    <3>2. c = [iface |-> Radio, status |-> h.status, radio |-> Null]
      BY <2>3, <3>1
    <3>3. [c EXCEPT !.status = Null] = [iface |-> Radio, status |-> Null, radio |-> Null]
      BY <3>2
    <3> QED BY <3>1, <3>3, Zenon
  <2>5. drop.status = Null /\ other.iface # Radio
    BY Distinct
  <2>6. Fine(cut) /\ Fine(cutter)
    BY <2>3, <2>4
  <2> QED BY <2>2, <2>5, <2>6, Zenon
<1>2. blocks \in {<<>>, <<cutter>>, <<cut>>, <<own>>, <<own, drop>>, <<drop, own>>, <<own, drop, other>>}
  BY Zenon DEF AirportPrints
<1> HIDE DEF own, drop, other, cut, cutter
<1>3. blocks \in Seq({own, drop, other, cut, cutter})
  <2> DEFINE B == {own, drop, other, cut, cutter}
  <2>1. own \in B /\ drop \in B /\ other \in B /\ cut \in B /\ cutter \in B
    OBVIOUS
  <2> HIDE DEF B
  <2>2. <<cutter>> \in Seq(B) /\ <<cut>> \in Seq(B) /\ <<own>> \in Seq(B)
    BY <2>1
  <2>3. <<own, drop>> \in Seq(B) /\ <<drop, own>> \in Seq(B)
    BY <2>1
  <2>4. <<own, drop, other>> \in Seq(B)
    BY <2>1
  <2> QED BY <1>2, <2>2, <2>3, <2>4, EmptyFacts DEF B
<1>4. ToSet(blocks) \subseteq {own, drop, other, cut, cutter}
  BY <1>3, SeqFacts
<1>5. \A b \in ToSet(blocks) : Fine(b)
  BY <1>1, <1>4
<1>6. blocks \in Seq(ToSet(blocks))
  <2>1. DOMAIN blocks = 1..Len(blocks) /\ Len(blocks) \in Nat /\ \A i \in 1..Len(blocks) : blocks[i] \in ToSet(blocks)
    BY <1>3, SeqFacts
  <2>2. blocks = [i \in 1..Len(blocks) |-> blocks[i]]
    BY <1>3, <2>1, LenProperties
  <2>3. blocks \in [1..Len(blocks) -> ToSet(blocks)]
    BY <2>1, <2>2
  <2> QED BY <2>1, <2>3, SeqDef
<1> QED BY <1>5, <1>6

\* What a ping came to is the echoes of its summary, and never nothing when there is one.
LEMMA PingParsed ==
  ASSUME NEW print \in PingPrints
  PROVE  /\ print = Silence => ParsePingOutput(print) = Null
         /\ print # Silence => /\ ParsePingOutput(print) # Null
                               /\ ParsePingOutput(print).loss = 50 * Max({0, 2 - print.received})
                               /\ ParsePingOutput(print).loss \in 0..100
<1>1. CASE print = Silence
  BY <1>1 DEF ParsePingOutput
<1>2. CASE print # Silence
  <2>1. PICK r \in 0..3, t \in {0, 1} :
          print = [sent |-> 2, received |-> r, timed |-> t, percent |-> IF r > 2 THEN Null ELSE 100 - 50 * r]
    BY <1>2 DEF PingPrints
  <2>2. PICK most : most = Max({0, 2 - r})
    OBVIOUS
  <2>3. most = IF r > 2 THEN 0 ELSE 2 - r
    <3>1. \E x \in {0, 2 - r} : \A y \in {0, 2 - r} : x >= y
      OBVIOUS
    <3>2. most \in {0, 2 - r} /\ \A y \in {0, 2 - r} : most >= y
      BY <2>2, <3>1, Zenon DEF Max
    <3> QED BY <3>2
  <2>4. print.sent = 2 /\ print.received = r /\ print.timed = t
        /\ print.percent = IF r > 2 THEN Null ELSE 100 - 50 * r
    BY <2>1
  <2>5. PICK loss : loss = IF print.percent # Null THEN print.percent
                           ELSE (100 * Max({0, print.sent - print.received})) \div print.sent
    OBVIOUS
  <2>6. loss = 50 * most /\ loss \in 0..100
    <3>1. CASE r > 2
      <4>1. loss = (100 * most) \div 2
        BY <2>2, <2>4, <2>5, <3>1
      <4> QED BY <2>3, <3>1, <4>1
    <3>2. CASE ~(r > 2)
      <4>1. 100 - 50 * r \in Nat /\ print.percent = 100 - 50 * r
        BY <2>4, <3>2
      <4>2. loss = 100 - 50 * r
        BY <2>5, <4>1, AbsentIsNoNumber
      <4> QED BY <2>3, <3>2, <4>2
    <3> QED BY <3>1, <3>2
  <2>7. PICK rtt : rtt = IF print.timed = 0 THEN Null ELSE 10
    OBVIOUS
  <2>8. ParsePingOutput(print) = [loss |-> loss, rtt |-> rtt]
    BY <1>2, <2>5, <2>7, Zenon DEF ParsePingOutput
  <2>9. [loss |-> loss, rtt |-> rtt] \in [loss : 0..100, rtt : {Null, 10}]
    BY <2>6, <2>7
  <2>10. ParsePingOutput(print) # Null
    BY <2>8, <2>9, AbsentIsNoReport
  <2> QED BY <1>2, <2>2, <2>4, <2>6, <2>8, <2>10
<1> QED BY <1>1, <1>2

\* The Wi-Fi sample is true of the radio and of the echoes.
LEMMA WifiDelivered ==
  ASSUME MachinesReal, Heard, capture = "wifi", Awaited = {}, CaptureWifi # Null
  PROVE  WifiIsTrue(CaptureWifi)
<1> DEFINE w == CaptureWifi
           found == ParseAirportInfo(taking.airport)
           reach == ParsePingOutput(taking.ping)
<1>1. taking.airport # Null /\ taking.ping # Null
  BY DEF Awaited, Asked
<1>2. PICK h \in lived : taking.airport \in AirportPrints(h)
  BY <1>1 DEF Heard, AirportHeard
<1>3. taking.ping \in PingPrints
  BY <1>1 DEF Heard, PingHeard
<1>4. w = [status |-> IF found.iface = Radio THEN found.status ELSE Null,
           radio |-> IF found.iface = Radio THEN found.radio ELSE Null,
           loss |-> IF reach = Null THEN Null ELSE reach.loss]
  BY Zenon DEF CaptureWifi
<1>5. /\ \/ found.iface = Null /\ found.radio = Null
         \/ found \in ToSet(taking.airport) /\ (found.status = "Connected" \/ found.status # Null)
      /\ \A b \in ToSet(taking.airport) : /\ b.iface = Radio => b.status \in {Null, h.status}
                                          /\ b.iface = Radio /\ b.status # Null => b.radio \in {Null, "off", Radio}
  <2>1. taking.airport \in Seq(ToSet(taking.airport))
    BY <1>2, BlocksPrinted, Zenon
  <2>2. \/ found.iface = Null /\ found.radio = Null
        \/ found \in ToSet(taking.airport) /\ (found.status = "Connected" \/ found.status # Null)
    BY <2>1, BlockTaken, Zenon
  <2> QED BY <1>2, <2>2, BlocksPrinted, Zenon
<1>6. /\ taking.ping = Silence => reach = Null
      /\ taking.ping # Silence => /\ reach # Null /\ reach.loss = 50 * Max({0, 2 - taking.ping.received})
                                  /\ reach.loss \in 0..100
  BY <1>3, PingParsed, Zenon
<1> HIDE DEF w, found, reach
<1>7. /\ w.status = IF found.iface = Radio THEN found.status ELSE Null
      /\ w.radio = IF found.iface = Radio THEN found.radio ELSE Null
      /\ w.loss = IF reach = Null THEN Null ELSE reach.loss
  BY <1>4
<1>8. found.status = "Connected" => found.status # Null
  BY AbsentIsNoWord
<1>9. w.radio # Null => w.radio \in {"off", Radio} /\ w.status \in {g.status : g \in lived}
  <2> SUFFICES ASSUME w.radio # Null
               PROVE  w.radio \in {"off", Radio} /\ w.status \in {g.status : g \in lived}
    OBVIOUS
  <2>1. found.iface = Radio /\ w.status = found.status /\ w.radio = found.radio /\ found.radio # Null
    BY <1>7
  <2>2. found \in ToSet(taking.airport) /\ found.status # Null
    BY <1>5, <1>8, <2>1
  <2>3. found.status = h.status /\ found.radio \in {"off", Radio}
    BY <1>5, <2>1, <2>2
  <2> QED BY <2>1, <2>3
<1>10. w.loss # Null => taking.ping # Silence /\ 50 * Max({0, 2 - taking.ping.received}) = w.loss
  BY <1>6, <1>7
<1>11. taking.ping # Silence => w.loss # Null
  <2>1. \A n \in 0..100 : n # Null
    BY AbsentIsNoNumber
  <2> QED BY <1>6, <1>7, <2>1
<1> QED BY <1>9, <1>10, <1>11 DEF WifiIsTrue, w

LEMMA DeliverKeeps ==
  ASSUME CaptureInv, Deliver
  PROVE  CaptureInv'
<1>1. /\ Awaited = {} /\ UNCHANGED <<capture, host, taking, lived>>
      /\ taken' = <<IF capture = "wifi" THEN CaptureWifi ELSE CaptureVantage>>
  BY DEF Deliver
<1>2. MachinesReal' /\ Heard' /\ capture' = capture
  BY <1>1 DEF CaptureInv, MachinesReal, Heard, RouteHeard, NoneBefore, LinkHeard, OwnHeard, ServicesHeard,
              AirportHeard, PingHeard
<1>3. CASE capture = "wifi"
  <2>1. PICK w : w = CaptureWifi
    OBVIOUS
  <2>2. taken' = <<w>>
    BY <1>1, <1>3, <2>1
  <2>3. w # Null => WifiIsTrue(w)
    BY <1>1, <1>3, <2>1, WifiDelivered DEF CaptureInv
  <2>4. WifiIsTrue(w) => WifiIsTrue(w)'
    BY <1>1 DEF WifiIsTrue
  <2>5. taken' # <<Null>> => w # Null
    BY <2>2
  <2>6. taken'[1] = w
    BY <2>2
  <2> QED BY <1>2, <1>3, <2>3, <2>4, <2>5, <2>6 DEF CaptureInv, CaptureIsTrue, WifiIsTrue
<1>4. CASE capture # "wifi"
  <2>1. PICK v : v = CaptureVantage
    OBVIOUS
  <2>2. taken' = <<v>>
    BY <1>1, <1>4, <2>1
  <2>3. VantageIsTrue(v)
    BY <1>1, <1>4, <2>1, VantageDelivered DEF CaptureInv
  <2>4. VantageIsTrue(v) => VantageIsTrue(v)'
    BY <1>1 DEF VantageIsTrue, ReallyWired, ListCut
  <2>5. taken'[1] = v
    BY <2>2
  <2> QED BY <1>2, <1>4, <2>3, <2>4, <2>5 DEF CaptureInv, CaptureIsTrue, VantageIsTrue, ReallyWired, ListCut
<1> QED BY <1>3, <1>4

LEMMA CaptureInitInv ==
  ASSUME CaptureInit
  PROVE  CaptureInv
<1>1. capture \in {"vantage", "unset", "wifi"} /\ taken = Null /\ lived = {}
      /\ taking = [c \in Commands \cup {"route", "airport", "ping"} |-> Null]
  BY DEF CaptureInit
<1>2. PICK port \in Ports, stale \in Leftovers :
        /\ capture = "wifi" => port = {"ethernet"} /\ stale = <<>>
        /\ host = [route |-> [iface |-> Socket, gateway |-> Expected], port |-> port, fast |-> 1000,
                   services |-> stale \o <<Entry(port, Socket)>> \o Others, status |-> "Connected", moves |-> 0]
  BY Zenon DEF CaptureInit
<1>3. PICK services : services = stale \o <<Entry(port, Socket)>> \o Others
  OBVIOUS
<1>4. services \in Seq(Entries) /\ Entry(port, Socket) \in ToSet(services)
  <2>1. Entry({}, Null) \in Entries /\ Entry({"wireless"}, Radio) \in Entries /\ Entry(port, Socket) \in Entries
        /\ Wired \in Entries
    BY DEF Entries, Ports, Wired
  <2>2. Others \in Seq(Entries) /\ stale \in Seq(Entries)
    <3>1. PICK none, air : none = Entry({}, Null) /\ air = Entry({"wireless"}, Radio)
      OBVIOUS
    <3>2. none \in Entries /\ air \in Entries
      BY <2>1, <3>1
    <3>3. <<none, air>> \in Seq(Entries)
      BY <3>2
    <3>4. Others = <<none, air>>
      BY <3>1 DEF Others
    <3>5. <<Wired>> \in Seq(Entries)
      BY <2>1
    <3> QED BY <3>3, <3>4, <3>5, EmptyFacts DEF Leftovers
  <2>3. PICK own : own = <<Entry(port, Socket)>>
    OBVIOUS
  <2>4. own \in Seq(Entries) /\ Entry(port, Socket) \in ToSet(own)
    BY <2>1, <2>3 DEF ToSet
  <2>5. PICK front : front = stale \o own
    OBVIOUS
  <2>6. front \in Seq(Entries) /\ Entry(port, Socket) \in ToSet(front)
    BY <2>2, <2>4, <2>5, ConcatFacts
  <2>7. services = front \o Others
    BY <1>3, <2>3, <2>5
  <2> QED BY <2>2, <2>6, <2>7, ConcatFacts
<1>5. MachinesReal
  <2>1. [iface |-> Socket, gateway |-> Expected] \in Routes
    BY DEF Routes
  <2>2. host = [route |-> [iface |-> Socket, gateway |-> Expected], port |-> port, fast |-> 1000,
                services |-> services, status |-> "Connected", moves |-> 0]
    BY <1>2, <1>3
  <2>3. 1000 \in Speeds /\ "Connected" \in Statuses
    BY DEF Speeds, Statuses
  <2>4. host \in Machine
    BY <1>4, <2>1, <2>2, <2>3 DEF Machine
  <2>5. host.port = port /\ host.services = services
    BY <2>2
  <2> QED BY <1>1, <1>4, <2>4, <2>5 DEF MachinesReal, Listed
<1>6. Heard
  <2>1. taking = [c \in AllAsked |-> Null]
    BY <1>1 DEF AllAsked
  <2>2. \A c \in AllAsked : taking[c] = Null
    BY <2>1
  <2>3. taking = [c \in AllAsked |-> taking[c]]
    BY <2>1
  <2> QED BY <2>2, <2>3 DEF Heard, RouteHeard, NoneBefore, LinkHeard, OwnHeard, ServicesHeard,
                            AirportHeard, PingHeard, AllAsked, Commands
<1> QED BY <1>1, <1>5, <1>6 DEF CaptureInv, CaptureIsTrue

\* What a cycle takes for its path and its radio was so at some time of the capture, whatever
\* the commands had printed when they ended, in whatever order they did, and however often
\* the machine changed under them (captureVantage, classifyPath, captureWifi).
THEOREM CaptureTrue == CaptureSpec => []CaptureIsTrue
<1>1. CaptureInv /\ [CaptureNext]_captureVars => CaptureInv'
  <2> SUFFICES ASSUME CaptureInv, [CaptureNext]_captureVars PROVE CaptureInv'
    OBVIOUS
  <2>1. DOMAIN taking = AllAsked
    BY DEF CaptureInv, Heard
  <2>2. ASSUME NEW c \in DOMAIN taking, Answers(c) PROVE CaptureInv'
    BY <2>1, <2>2, AnswersKeep
  <2>3. CASE UNCHANGED captureVars
    BY <2>3 DEF captureVars, CaptureInv, MachinesReal, Heard, RouteHeard, NoneBefore, LinkHeard, OwnHeard,
                ServicesHeard, AirportHeard, PingHeard, CaptureIsTrue, VantageIsTrue, WifiIsTrue,
                ReallyWired, ListCut
  <2> QED BY <2>2, <2>3, DeliverKeeps, MovesKeep DEF CaptureNext
<1>2. CaptureInv => CaptureIsTrue
  BY DEF CaptureInv
<1> QED BY <1>1, <1>2, CaptureInitInv, PTL DEF CaptureSpec
=============================================================================
