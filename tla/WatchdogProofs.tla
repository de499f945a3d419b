--------------------------- MODULE WatchdogProofs ---------------------------
(***************************************************************************)
(* Theorems of Watchdog.tla and WatchdogReport.tla for every policy, every *)
(* set of evidence and every bound.  The variables keep their shape, and   *)
(* whatever reached the router is on the disk at every instant, in spite   *)
(* of crashes, failed writes, lost answers and abandoned ticks.  Then what *)
(* the watchdog owes to people and to the line: it waits out the quiet     *)
(* period, announces a reboot before it decides on one, climbs and does    *)
(* not descend, and touches the line no more than the budget of a day, the *)
(* latch and the cooldown allow.  And what it writes down and says of      *)
(* itself: no event it took is lost, no action goes without one, and no    *)
(* call for help is forgotten but by a death or a full spool.              *)
(***************************************************************************)
EXTENDS WatchdogReport, FiniteSetTheorems, DataLemmas

-----------------------------------------------------------------------------
(* The judgement. *)

\* Evidence as an evaluation meets it: of the right shape, with no row of the future.
InputSet ==
  [ now : Nat, record : OrNull(RecordEvidence), self : OrNull(SelfEvidence),
    carrier : OrNull(CarrierEvidence), ledger : Ledger, armed : BOOLEAN, startedAt : Nat,
    disarmed : BOOLEAN, live : BOOLEAN, humanTs : OrNull(Nat), held : Nat, canRecord : BOOLEAN ]

Timely(in) ==
  in.record # Null =>
    \A o \in {in.record.wanOutage, in.record.gatewayOutage} \ {Null} : o.age <= in.now

\* The classes of `classify` are the nine there are.
LEMMA ClassifyType == ASSUME NEW in PROVE Classify(in) \in Classes
  BY DEF Classify, Classes

\* The record dates an outage at a time that has passed, when it dates one.
LEMMA RecordedStartType ==
  ASSUME NEW in \in InputSet, Timely(in)
  PROVE  RecordedOutageStart(in) \in OrNull(Nat)
<1>1. CASE in.record = Null
  BY <1>1 DEF RecordedOutageStart, RecordedStarts, OrNull
<1>2. CASE in.record # Null
  <2> DEFINE wan == in.record.wanOutage
             gw == in.record.gatewayOutage
             S == RecordedStarts(in)
  <2>1. /\ in.now \in Nat /\ in.record \in RecordEvidence
        /\ wan \in OrNull([age : Nat, cycles : Nat]) /\ gw \in OrNull([age : Nat])
    BY <1>2 DEF InputSet, OrNull, RecordEvidence
  <2>2. S = {in.now - o.age : o \in {wan, gw} \ {Null}}
    BY <1>2 DEF RecordedStarts
  <2>3. \A o \in {wan, gw} \ {Null} : o.age \in Nat /\ o.age <= in.now
    BY <1>2, <2>1 DEF Timely, OrNull
  <2>4. S \subseteq Nat
    BY <2>1, <2>2, <2>3
  <2>5. S # {} => \E s \in S : \A t \in S : s <= t
    <3>1. CASE wan = Null \/ gw = Null
      <4>1. \A s, t \in S : s = t
        BY <2>2, <3>1
      <4> QED BY <2>4, <4>1
    <3>2. CASE wan # Null /\ gw # Null
      <4>1. S = {in.now - wan.age, in.now - gw.age}
        BY <2>2, <3>2
      <4> QED BY <2>4, <4>1
    <3> QED BY <3>1, <3>2
  <2> QED BY <2>4, <2>5 DEF RecordedOutageStart, OrNull
<1> QED BY <1>1, <1>2

\* The ladder's clock starts at a time.
LEMMA LadderStartType ==
  ASSUME NEW in \in InputSet, Timely(in)
  PROVE  LadderStart(in) \in Nat
BY RecordedStartType DEF LadderStart, InputSet, Ledger, OrNull

\* A verb without blockers is one whose own spacing has passed.
LEMMA RebootUnblocked ==
  ASSUME NEW in, NEW class, RebootBlockers(in, class) = {}
  PROVE  ~WithinInterval(in, "reboot", Policy.rebootMinIntervalS)
<1>1. If(WithinInterval(in, "reboot", Policy.rebootMinIntervalS), "reboot_min_interval") = {}
  BY DEF RebootBlockers
<1> QED BY <1>1 DEF If

LEMMA ReconnectUnblocked ==
  ASSUME NEW in, ReconnectBlockers(in) = {}
  PROVE  ~WithinInterval(in, "reconnect", Policy.reconnectMinIntervalS)
BY DEF ReconnectBlockers, If

\* What a decision may be.
DecisionOK(in, d) ==
  /\ d.class \in Classes /\ d.rung \in Rungs /\ d.t0 \in OrNull(Nat) /\ d.shadow \in BOOLEAN
  /\ d.action \in Verbs =>
       /\ in.ledger.pending = Null /\ ~Healthy(d.class) /\ d.t0 \in Nat
       /\ ~WithinInterval(in, d.action, Spacing(d.action))

LEMMA DueOK ==
  ASSUME NEW in \in InputSet, Timely(in), in.ledger.pending = Null,
         NEW class \in Classes, ~Healthy(class), NEW kind \in Verbs, NEW blockers,
         blockers = {} => ~WithinInterval(in, kind, Spacing(kind))
  PROVE  DecisionOK(in, Due(in, class, LadderStart(in), kind, blockers))
<1>1. LadderStart(in) \in Nat
  BY LadderStartType
<1>2. in.live \in BOOLEAN
  BY DEF InputSet
<1> QED BY <1>1, <1>2 DEF DecisionOK, Due, Verbs, Rungs, OrNull

LEMMA WhenDownOK ==
  ASSUME NEW in \in InputSet, Timely(in), in.ledger.pending = Null,
         NEW class \in Classes, ~Healthy(class)
  PROVE  DecisionOK(in, WhenDown(in, class))
<1> DEFINE t0 == LadderStart(in)
           reboot == SharedBlockers(in, class) \cup RebootBlockers(in, class)
           reconnect == SharedBlockers(in, class) \cup ReconnectBlockers(in)
<1>1. t0 \in Nat /\ in.ledger.rung \in Rungs /\ in.ledger.t0 \in OrNull(Nat)
  BY LadderStartType DEF InputSet, Ledger
<1>2. DecisionOK(in, Due(in, class, t0, "reboot", reboot))
  <2>1. reboot = {} => ~WithinInterval(in, "reboot", Spacing("reboot"))
    BY RebootUnblocked DEF Spacing
  <2> QED BY <2>1, DueOK DEF Verbs
<1>3. DecisionOK(in, Due(in, class, t0, "reconnect", reconnect))
  <2>1. reconnect = {} => ~WithinInterval(in, "reconnect", Spacing("reconnect"))
    BY ReconnectUnblocked DEF Spacing
  <2> QED BY <2>1, DueOK DEF Verbs
<1>4. DecisionOK(in, WhenRebootDue(in, class, t0))
  BY <1>1, <1>2 DEF WhenRebootDue, DecisionOK, Verbs, Rungs, OrNull
<1>5. DecisionOK(in, WhenExhausted(in, class, t0))
  BY <1>1 DEF WhenExhausted, DecisionOK, Verbs, Rungs, OrNull
<1>6. DecisionOK(in, [Standing(in, class, "settling", {"settling"}) EXCEPT !.t0 = t0])
  BY <1>1 DEF Standing, DecisionOK, Verbs, OrNull
<1>7. DecisionOK(in, [Standing(in, class, "confirmed", {}) EXCEPT !.t0 = t0, !.rung = "observe"])
  BY <1>1 DEF Standing, DecisionOK, Verbs, Rungs, OrNull
<1> HIDE DEF t0, reboot, reconnect
<1> QED BY <1>2, <1>3, <1>4, <1>5, <1>6, <1>7 DEF WhenDown, t0, reconnect

\* Every judgement is well formed, and it asks for a verb only of a line that is down,
\* with no action still open and its spacing passed.
LEMMA JudgeOK ==
  ASSUME NEW in \in InputSet, Timely(in)
  PROVE  DecisionOK(in, Judge(in))
<1> DEFINE class == Classify(in)
<1>1. class \in Classes /\ in.ledger.rung \in Rungs /\ in.ledger.t0 \in OrNull(Nat)
  BY ClassifyType DEF InputSet, Ledger
<1> SUFFICES DecisionOK(in, Evaluate(in, class))
  BY DEF Judge
<1> HIDE DEF class
<1>2. \A state, why : DecisionOK(in, Standing(in, class, state, why))
  BY <1>1 DEF Standing, DecisionOK, Verbs
<1>3. CASE in.ledger.pending # Null
  BY <1>2, <1>3 DEF Evaluate
<1>4. CASE in.ledger.pending = Null /\ Healthy(class)
  BY <1>2, <1>4 DEF Evaluate, WhenHealthy
<1>5. CASE in.ledger.pending = Null /\ ~Healthy(class)
  <2>1. DecisionOK(in, WhenDown(in, class))
    BY <1>1, <1>5, WhenDownOK
  <2> QED BY <1>2, <1>5, <2>1 DEF Evaluate
<1> QED BY <1>3, <1>4, <1>5

\* A verb is asked for between the start of its outage and the ladder's exhaustion.
InTime(v) == v.key <= v.ts /\ v.ts < v.key + Policy.exhaustAtS

LEMMA JudgeInTime ==
  ASSUME NEW in \in InputSet, Timely(in), Judge(in).action \in Verbs
  PROVE  Judge(in).t0 <= in.now /\ in.now < Judge(in).t0 + Policy.exhaustAtS
<1> DEFINE class == Classify(in)
           t0 == LadderStart(in)
           d == WhenDown(in, class)
<1>1. /\ t0 \in Nat /\ in.now \in Nat /\ Policy.exhaustAtS \in Nat /\ Policy.observeS \in Nat
      /\ RebootDueAt(class) \in Nat
  BY LadderStartType, PolicyAssumption DEF InputSet, PolicyShape, RebootDueAt
<1>2. \A state, why, u, r :
        /\ Standing(in, class, state, why).action \notin Verbs
        /\ [Standing(in, class, state, why) EXCEPT !.t0 = u].action \notin Verbs
        /\ [Standing(in, class, state, why) EXCEPT !.t0 = u, !.rung = r].action \notin Verbs
  BY DEF Standing, Verbs
<1>3. \A kind, blockers : Due(in, class, t0, kind, blockers).t0 = t0
  BY DEF Due
<1>4. WhenRebootDue(in, class, t0).t0 = t0
  BY <1>3 DEF WhenRebootDue
<1>5. WhenExhausted(in, class, t0).action \notin Verbs
  BY DEF WhenExhausted, Verbs
<1> HIDE DEF class, t0
<1>6. Judge(in) = d
  BY <1>2 DEF Judge, Evaluate, WhenHealthy, class
<1>7. d.action \in Verbs => d.t0 = t0 /\ t0 <= in.now /\ in.now < t0 + Policy.exhaustAtS
  BY <1>1, <1>2, <1>3, <1>4, <1>5 DEF WhenDown, t0
<1> QED BY <1>6, <1>7

-----------------------------------------------------------------------------
(* The ledger a decision implies. *)

\* The upkeep of every evaluation keeps the shape, and every entry within retention.
LEMMA HousekeepType ==
  ASSUME NEW in \in InputSet, NEW class
  PROVE  Housekeep(in, class) \in Ledger
<1>1. in.ledger \in Ledger /\ in.now \in Nat
  BY DEF InputSet
<1> DEFINE L == in.ledger
           kept == {a \in L.actions : in.now <= a.ts + Policy.retentionS}
           v6 == IF in.self # Null /\ in.self.v6 = "up" THEN in.now ELSE L.v6LastUp
           since == IF ~Healthy(class) THEN Null
                    ELSE IF L.healthySince = Null THEN in.now ELSE L.healthySince
           clean == since # Null /\ in.now >= since + Policy.latchClearAfterCleanS
           count == IF clean THEN 0 ELSE L.consecutive
<1>2. kept \in SUBSET LedgerAction
  BY <1>1 DEF Ledger
<1>3. v6 \in OrNull(Nat) /\ since \in OrNull(Nat) /\ count \in Nat
  BY <1>1 DEF Ledger, OrNull
<1>4. Housekeep(in, class) = [L EXCEPT !.actions = kept, !.v6LastUp = v6,
                                       !.healthySince = since, !.consecutive = count]
  BY DEF Housekeep
<1> HIDE DEF kept, v6, since, clean, count
<1> QED BY <1>1, <1>2, <1>3, <1>4 DEF Ledger

LEMMA AdvanceType ==
  ASSUME NEW in \in InputSet, NEW d, DecisionOK(in, d)
  PROVE  Advance(in, d) \in Ledger
<1> DEFINE L == Housekeep(in, d.class)
<1>1. L \in Ledger /\ in.ledger \in Ledger /\ in.now \in Nat
  BY HousekeepType DEF InputSet
<1>2. /\ Policy.postActionCooldownS \in Nat
      /\ Policy.rebootSettleS \in Nat /\ Policy.reconnectSettleS \in Nat
  BY PolicyAssumption DEF PolicyShape
<1>3. d.t0 \in OrNull(Nat) /\ d.rung \in Rungs
  BY DEF DecisionOK
<1>4. d.action \in Verbs => WriteAhead(in, d) \in PendingAction
  BY <1>1 DEF DecisionOK, WriteAhead, PendingAction
<1> HIDE DEF L
<1>5. Climb(in, L, d) \in Ledger
  <2> DEFINE acts == d.action \in Verbs
             settle == IF d.rung = "reboot" THEN Policy.rebootSettleS ELSE Policy.reconnectSettleS
             t0 == IF L.t0 = Null THEN d.t0 ELSE L.t0
             rung == IF Rank[d.rung] > Rank[L.rung] THEN d.rung ELSE L.rung
             announced == IF d.action = "announce" THEN in.now ELSE L.announcedAt
             escalated == IF d.action = "escalate" THEN in.now ELSE L.lastEscalation
             pending == IF acts THEN WriteAhead(in, d) ELSE L.pending
             count == IF acts THEN in.ledger.consecutive + 1 ELSE L.consecutive
             until == IF acts \/ d.shadow THEN in.now + settle ELSE L.settleUntil
  <2>1. t0 \in OrNull(Nat) /\ rung \in Rungs
    BY <1>1, <1>3 DEF Ledger
  <2>2. announced \in OrNull(Nat) /\ escalated \in OrNull(Nat)
    BY <1>1 DEF Ledger, OrNull
  <2>3. pending \in OrNull(PendingAction) /\ count \in Nat
    BY <1>1, <1>4 DEF Ledger, OrNull
  <2>4. until \in OrNull(Nat)
    <3>1. in.now + settle \in Nat
      BY <1>1, <1>2
    <3> QED BY <1>1, <3>1 DEF Ledger, OrNull
  <2>5. Climb(in, L, d) =
          [L EXCEPT !.t0 = t0, !.rung = rung, !.announcedAt = announced,
                    !.lastEscalation = escalated, !.pending = pending,
                    !.consecutive = count, !.settleUntil = until]
    BY DEF Climb
  <2> HIDE DEF acts, settle, t0, rung, announced, escalated, pending, count, until
  <2> DEFINE M == [L EXCEPT !.t0 = t0, !.rung = rung, !.announcedAt = announced,
                            !.lastEscalation = escalated]
  <2>6. M \in Ledger
    BY <1>1, <2>1, <2>2 DEF Ledger
  <2>7. Climb(in, L, d) =
          [M EXCEPT !.pending = pending, !.consecutive = count, !.settleUntil = until]
    BY <1>1, <2>5 DEF Ledger
  <2> HIDE DEF M
  <2> QED BY <2>3, <2>4, <2>6, <2>7 DEF Ledger
<1>6. Recovered(in, L) \in Ledger
  <2> DEFINE cool == IF ActedIn(in.ledger) THEN in.now + Policy.postActionCooldownS
                     ELSE L.cooldownUntil
  <2>1. cool \in OrNull(Nat) /\ Null \in OrNull(Nat) /\ "observe" \in Rungs
    BY <1>1, <1>2 DEF Ledger, OrNull, Rungs
  <2>2. Recovered(in, L) = [L EXCEPT !.t0 = Null, !.rung = "observe", !.settleUntil = Null,
                                     !.announcedAt = Null, !.cooldownUntil = cool]
    BY DEF Recovered
  <2> HIDE DEF cool
  <2> QED BY <1>1, <2>1, <2>2 DEF Ledger
<1> QED BY <1>1, <1>5, <1>6 DEF Advance, L

\* What an evaluation never takes out of the ledger, and what it writes ahead.
LEMMA AdvanceKeeps ==
  ASSUME NEW in \in InputSet, NEW d, DecisionOK(in, d)
  PROVE  /\ \A a \in in.ledger.actions :
              in.now <= a.ts + Policy.retentionS => a \in Advance(in, d).actions
         /\ in.ledger.pending # Null => Advance(in, d).pending = in.ledger.pending
         /\ d.action \in Verbs => Advance(in, d).pending = WriteAhead(in, d)
<1> DEFINE L == Housekeep(in, d.class)
<1>1. L \in Ledger /\ in.ledger \in Ledger
  BY HousekeepType DEF InputSet
<1>2. /\ L.pending = in.ledger.pending
      /\ L.actions = {a \in in.ledger.actions : in.now <= a.ts + Policy.retentionS}
  BY <1>1 DEF Housekeep, Ledger
<1> HIDE DEF L
<1>3. /\ Climb(in, L, d).actions = L.actions
      /\ Climb(in, L, d).pending = IF d.action \in Verbs THEN WriteAhead(in, d) ELSE L.pending
  BY <1>1 DEF Climb, Ledger
<1>4. Recovered(in, L).actions = L.actions /\ Recovered(in, L).pending = L.pending
  BY <1>1 DEF Recovered, Ledger
<1>5. Advance(in, d).actions = L.actions
  BY <1>3, <1>4 DEF Advance, L
<1>6. in.ledger.pending # Null => Advance(in, d).pending = in.ledger.pending
  BY <1>2 DEF Advance, L
<1>7. d.action \in Verbs => Advance(in, d).pending = WriteAhead(in, d)
  BY <1>3 DEF Advance, DecisionOK, L
<1> QED BY <1>2, <1>5, <1>6, <1>7

\* What an evaluation hands to the ladder is evidence of the right shape.
LEMMA InputOK ==
  ASSUME TypeOK, NEW e \in EvidenceShape, NEW eventsRead \in BOOLEAN, InThePast(e)
  PROVE  LET in == Input(e, eventsRead)
         IN /\ in \in InputSet /\ Timely(in) /\ in.now = now /\ in.ledger = disk
            /\ in.humanTs = IF eventsRead THEN rows ELSE Null
<1>1. e \in EvidenceShape
  OBVIOUS
<1>2. disk \in Ledger /\ disk # Corrupt /\ now \in Nat /\ rows \in OrNull(Nat)
      /\ disarmed \in BOOLEAN /\ proc.startedAt \in Nat /\ proc.held \in Nat
  BY WatchdogAssumption DEF TypeOK, Process
<1>3. ReadLedger = disk
  BY <1>2 DEF ReadLedger, Trusted
<1>4. HeldCap \in Nat
  BY PolicyAssumption DEF HeldCap, PolicyShape
<1>5. \A class : Track(class) \in Nat
  BY <1>2, <1>4 DEF Track
<1>6. Gather(e, eventsRead) \in InputSet
  <2>1. Policy.armed \in BOOLEAN
    BY PolicyAssumption DEF PolicyShape
  <2>2. (IF eventsRead THEN rows ELSE Null) \in OrNull(Nat)
    BY <1>2 DEF OrNull
  <2>3. (Policy.armed /\ Trusted) \in BOOLEAN /\ (Policy.armed /\ Trusted /\ e.writeEnabled) \in BOOLEAN
    OBVIOUS
  <2> QED BY <1>1, <1>2, <1>3, <2>2, <2>3 DEF Gather, InputSet, EvidenceShape
<1>7. Input(e, eventsRead) \in InputSet
  BY <1>5, <1>6 DEF Input, InputSet
<1>8. /\ Input(e, eventsRead).now = now /\ Input(e, eventsRead).ledger = disk
      /\ Input(e, eventsRead).record = e.record
      /\ Input(e, eventsRead).humanTs = IF eventsRead THEN rows ELSE Null
  BY <1>3 DEF Input, Gather
<1>9. Timely(Input(e, eventsRead))
  BY <1>8 DEF Timely, InThePast
<1> QED BY <1>7, <1>8, <1>9

-----------------------------------------------------------------------------
(* The inductive invariant. *)

\* Where the process stands against the ledger and against what has reached the router:
\* an action being performed is the one written ahead, and until it is handed over, or
\* once it is known not to have run, nothing of it is out there.
Handshake ==
  /\ proc.intent # Null => proc.intent.ts <= now
  /\ proc.pc # "idle" => proc.intent # Null /\ disk.pending = proc.intent
  /\ proc.pc = "written" => proc.intent \notin sent \cup inflight
  /\ proc.pc = "waiting" => proc.intent \notin sent
  /\ proc.pc = "closing" /\ proc.answer = "not_executed" => proc.intent \notin sent \cup inflight
  /\ \A v \in sent \cup inflight : v.ts <= now

\* What one evaluation does, with its input and its decision named.
Evaluated(in, d, written) ==
  LET acts == written /\ d.action \in Verbs
  IN /\ d = Judge(in) /\ Timely(in) /\ DecisionOK(in, d)
     /\ in.now = now /\ in.ledger = disk /\ ("events_unread" \notin Allowed => in.humanTs = rows)
     /\ d.action \in Verbs => InTime(WriteAhead(in, d))
     /\ proc.up /\ proc.pc = "idle"
     /\ disk' = IF written THEN Advance(in, d) ELSE disk
     /\ proc' = [proc EXCEPT !.class = d.class, !.held = in.held, !.ticked = TRUE,
                   !.pc = IF acts THEN "written" ELSE @,
                   !.intent = IF acts THEN WriteAhead(in, d) ELSE @]
     /\ seen' = Seeing(d, written)
     /\ UNCHANGED <<now, inflight, rows, disarmed, crashes, sent>>

LEMMA TickEvaluated ==
  ASSUME TypeOK, NEW e \in EvidenceShape, NEW eventsRead \in May("events_unread"),
         NEW written \in BOOLEAN, Tick(e, eventsRead, written)
  PROVE  /\ Input(e, eventsRead) \in InputSet
         /\ Evaluated(Input(e, eventsRead), Judge(Input(e, eventsRead)), written)
<1> DEFINE in == Input(e, eventsRead)
<1>1. eventsRead \in BOOLEAN /\ ("events_unread" \notin Allowed => eventsRead = TRUE)
  BY DEF May
<1>2. /\ in \in InputSet /\ Timely(in) /\ in.now = now /\ in.ledger = disk
      /\ in.humanTs = IF eventsRead THEN rows ELSE Null
  BY <1>1, InputOK DEF Tick
<1>3. DecisionOK(in, Judge(in))
  BY <1>2, JudgeOK
<1> DEFINE d == Judge(in)
           acts == written /\ d.action \in Verbs
<1>4. /\ disk' = IF written THEN Advance(in, d) ELSE disk
      /\ proc' = [proc EXCEPT !.class = d.class, !.held = in.held, !.ticked = TRUE,
                    !.pc = IF acts THEN "written" ELSE @,
                    !.intent = IF acts THEN WriteAhead(in, d) ELSE @]
      /\ seen' = Seeing(d, written)
  BY Zenon DEF Tick
<1>5. /\ proc.up /\ proc.pc = "idle"
      /\ UNCHANGED <<now, inflight, rows, disarmed, crashes, sent>>
  BY DEF Tick
<1>6. d.action \in Verbs => InTime(WriteAhead(in, d))
  BY <1>2, JudgeInTime DEF InTime, WriteAhead
<1>7. "events_unread" \notin Allowed => in.humanTs = rows
  BY <1>1, <1>2
<1>8. d = Judge(in)
  OBVIOUS
<1> HIDE DEF in, d
<1>9. Evaluated(in, d, written)
  BY <1>2, <1>3, <1>4, <1>5, <1>6, <1>7, <1>8 DEF Evaluated
<1> QED BY <1>2, <1>9 DEF in, d

\* The steps over any evidence there is: those of an instance, and those of what composes
\* with the runner and says what it can record.
AnyEvaluation ==
  \E e \in EvidenceShape, eventsRead \in May("events_unread"), written \in May("write_error") :
    Tick(e, eventsRead, written)
AnyNext ==
  \/ AnyEvaluation \/ Performing \/ Respond
  \/ Crash \/ Restart \/ Elapse \/ Intervene \/ TouchDisarm

LEMMA NextIsAny == [Next]_vars => [AnyNext]_vars
  BY WatchdogAssumption DEF Next, AnyNext, Evaluation, AnyEvaluation

LEMMA TickEvaluates ==
  ASSUME TypeOK, AnyEvaluation
  PROVE  \E in \in InputSet, written \in BOOLEAN : \E d : Evaluated(in, d, written)
<1>1. PICK e \in EvidenceShape, eventsRead \in May("events_unread"), written \in BOOLEAN :
         Tick(e, eventsRead, written)
  BY DEF AnyEvaluation, May
<1> QED BY <1>1, TickEvaluated

\* Since when the line looks good after the decision d, when it did so since `at`.
LooksGood(d, at) == IF ~Healthy(d.class) THEN Null ELSE IF at = Null THEN now ELSE at
ToldSince(d, written) == IF written THEN LooksGood(d, seen.toldGoodAt) ELSE seen.toldGoodAt

\* What the evaluations have shown, field by field.
LEMMA SeeingFields ==
  ASSUME TypeOK, NEW d, NEW written \in BOOLEAN
  PROVE  LET S == Seeing(d, written)
         IN /\ S \in Sightings
            /\ S.goodAt = LooksGood(d, seen.goodAt) /\ S.toldGoodAt = ToldSince(d, written)
            /\ S.unsaid = (IF Healthy(d.class) THEN seen.unsaid ELSE ~written /\ ToldSince(d, written) # Null)
            /\ S.clearedAt = (IF /\ written /\ ToldSince(d, written) # Null
                                /\ now >= ToldSince(d, written) + Policy.latchClearAfterCleanS
                              THEN now ELSE seen.clearedAt)
            /\ S.acted = (IF /\ written /\ d.state = "recovered"
                            /\ \E v \in sent : v.key = ReadLedger.t0 /\ now <= v.ts + Policy.retentionS
                          THEN now ELSE seen.acted)
            /\ S.human = seen.human
<1> DEFINE good == LooksGood(d, seen.goodAt)
           told == ToldSince(d, written)
           unsaid == IF Healthy(d.class) THEN seen.unsaid ELSE ~written /\ told # Null
           cleared == IF written /\ told # Null /\ now >= told + Policy.latchClearAfterCleanS
                      THEN now ELSE seen.clearedAt
           acted == IF /\ written /\ d.state = "recovered"
                       /\ \E v \in sent : v.key = ReadLedger.t0 /\ now <= v.ts + Policy.retentionS
                    THEN now ELSE seen.acted
<1>1. now \in Nat /\ seen \in Sightings
  BY DEF TypeOK
<1>2. good \in OrNull(Nat) /\ told \in OrNull(Nat) /\ cleared \in Nat /\ acted \in OrNull(Nat)
  BY <1>1 DEF Sightings, OrNull, LooksGood, ToldSince
<1>3. unsaid \in BOOLEAN
  BY <1>1 DEF Sightings
<1>4. Seeing(d, written) = [seen EXCEPT !.goodAt = good, !.toldGoodAt = told, !.unsaid = unsaid,
                                        !.clearedAt = cleared, !.acted = acted]
  BY Zenon DEF Seeing, LooksGood, ToldSince
<1> HIDE DEF good, told, unsaid, cleared, acted
<1>5. /\ Seeing(d, written) \in Sightings /\ Seeing(d, written).goodAt = good
      /\ Seeing(d, written).toldGoodAt = told /\ Seeing(d, written).unsaid = unsaid
      /\ Seeing(d, written).clearedAt = cleared /\ Seeing(d, written).acted = acted
      /\ Seeing(d, written).human = seen.human
  BY <1>1, <1>2, <1>3, <1>4 DEF Sightings
<1> QED BY <1>5 DEF good, told, unsaid, cleared, acted

(* Each conjunct of the invariant, over every step. *)

LEMMA TypeStep ==
  ASSUME TypeOK, Handshake, [AnyNext]_vars
  PROVE  TypeOK'
<1>1. CASE AnyEvaluation
  <2>1. PICK in \in InputSet, written \in BOOLEAN : \E d : Evaluated(in, d, written)
    BY <1>1, TickEvaluates
  <2>2. PICK d : Evaluated(in, d, written)
    BY <2>1
  <2>3. disk' \in Ledger
    BY <2>2, AdvanceType DEF Evaluated, TypeOK
  <2>4. proc' \in Process
    <3> DEFINE acts == written /\ d.action \in Verbs
               pc == IF acts THEN "written" ELSE proc.pc
               intent == IF acts THEN WriteAhead(in, d) ELSE proc.intent
    <3>1. d.class \in Classes /\ in.held \in Nat /\ proc \in Process
      BY <2>2 DEF Evaluated, DecisionOK, InputSet, TypeOK
    <3>2. d.action \in Verbs => WriteAhead(in, d) \in PendingAction
      BY <2>2 DEF Evaluated, DecisionOK, InputSet, WriteAhead, PendingAction
    <3>3. intent \in OrNull(PendingAction) /\ pc \in {"idle", "written", "waiting", "closing"}
      BY <3>1, <3>2 DEF Process, OrNull
    <3>4. proc' = [proc EXCEPT !.class = d.class, !.held = in.held, !.ticked = TRUE,
                               !.pc = pc, !.intent = intent]
      BY <2>2 DEF Evaluated
    <3> HIDE DEF acts, pc, intent
    <3> QED BY <3>1, <3>3, <3>4 DEF Process
  <2>5. seen' \in Sightings
    BY <2>2, SeeingFields DEF Evaluated
  <2> QED BY <2>2, <2>3, <2>4, <2>5 DEF Evaluated, TypeOK
<1>2. CASE Request
  <2>1. proc.intent \in PendingAction
    BY <1>2 DEF Request, Handshake, TypeOK, Process, OrNull
  <2> QED BY <1>2, <2>1 DEF Request, TypeOK, Process
<1>3. ASSUME NEW arrived \in BOOLEAN, NoAnswer(arrived) PROVE TypeOK'
  BY <1>3 DEF NoAnswer, TypeOK, Process, Outcomes
<1>4. ASSUME NEW written \in BOOLEAN, Close(written) PROVE TypeOK'
  <2> DEFINE a == Outcome(proc)
  <2>1. a \in LedgerAction
    BY <1>4 DEF Close, Outcome, Handshake, TypeOK, Process, OrNull, PendingAction, LedgerAction
  <2> HIDE DEF a
  <2>2. RecordOutcome(disk, a) \in Ledger
    <3> DEFINE count == IF a.outcome # "not_executed" \/ disk.consecutive = 0
                        THEN disk.consecutive ELSE disk.consecutive - 1
               until == IF a.outcome # "not_executed" THEN disk.settleUntil ELSE Null
               closed == disk.actions \cup {a}
    <3>1. disk \in Ledger
      BY DEF TypeOK
    <3>2. count \in Nat /\ until \in OrNull(Nat) /\ closed \in SUBSET LedgerAction
          /\ Null \in OrNull(PendingAction)
      BY <2>1, <3>1 DEF Ledger, OrNull
    <3>3. RecordOutcome(disk, a) = [disk EXCEPT !.pending = Null, !.actions = closed,
                                               !.consecutive = count, !.settleUntil = until]
      BY DEF RecordOutcome
    <3> HIDE DEF count, until, closed
    <3> QED BY <3>1, <3>2, <3>3 DEF Ledger
  <2>3. disk' \in Ledger
    BY <1>4, <2>2 DEF Close, a, TypeOK
  <2>4. proc' \in Process
    BY <1>4 DEF Close, TypeOK, Process, OrNull, Outcomes
  <2> QED BY <1>4, <2>3, <2>4 DEF Close, TypeOK
<1>5. ASSUME NEW r \in inflight, NEW outcome \in Outcomes, Answer(r, outcome)
      PROVE  proc' \in Process /\ inflight' \in SUBSET PendingAction /\ r \in PendingAction
  BY <1>5 DEF Answer, TypeOK, Process
<1>6. CASE Respond
  <2>1. ASSUME NEW r \in inflight, Decline(r) PROVE TypeOK'
    <3>1. Answer(r, "not_executed") /\ "not_executed" \in Outcomes
      BY <2>1 DEF Decline, Outcomes
    <3> QED BY <1>5, <2>1, <3>1 DEF Decline, Answer, TypeOK
  <2>2. ASSUME NEW r \in inflight, NEW outcome \in {"executed", "failed", "unknown"},
               Execute(r, outcome)
        PROVE  TypeOK'
    <3>1. Answer(r, outcome) /\ outcome \in Outcomes
      BY <2>2 DEF Execute, Outcomes
    <3> QED BY <1>5, <2>2, <3>1 DEF Execute, Answer, TypeOK, OrNull
  <2>3. ASSUME NEW r \in inflight, NEW reached \in BOOLEAN, Throw(r, reached) PROVE TypeOK'
    <3>1. Answer(r, "failed") /\ "failed" \in Outcomes
      BY <2>3 DEF Throw, Outcomes
    <3> QED BY <1>5, <2>3, <3>1 DEF Throw, Answer, TypeOK
  <2> QED BY <1>6, <2>1, <2>2, <2>3 DEF Respond
<1>7. Dead \in Process /\ Started(now) \in Process
  BY DEF Dead, Started, Process, Classes, Outcomes, OrNull, TypeOK
<1>8. CASE Crash
  BY <1>7, <1>8 DEF Crash, TypeOK
<1>9. CASE Restart
  BY <1>7, <1>9 DEF Restart, TypeOK
<1>10. CASE Elapse
  <2>1. now' \in Nat
    BY <1>10 DEF Elapse, TypeOK
  <2>2. proc' \in Process
    <3>1. proc \in Process /\ proc' = [proc EXCEPT !.ticked = FALSE]
      BY <1>10 DEF Elapse, TypeOK
    <3> QED BY <3>1 DEF Process
  <2> QED BY <1>10, <2>1, <2>2 DEF Elapse, TypeOK
<1>11. CASE Intervene
  BY <1>11 DEF Intervene, TypeOK, Sightings, OrNull
<1>12. CASE TouchDisarm
  BY <1>12 DEF TouchDisarm, TypeOK
<1>13. CASE UNCHANGED vars
  BY <1>13 DEF vars, TypeOK
<1>14. CASE Performing
  BY <1>2, <1>3, <1>4, <1>14 DEF Performing, May
<1> QED BY <1>1, <1>6, <1>8, <1>9, <1>10, <1>11, <1>12, <1>13, <1>14 DEF AnyNext

\* An action decided now is not one that is out there already: such a one would be in the
\* ledger, and the spacing would have held this one back.
LEMMA DecidedIsNew ==
  ASSUME TypeOK, SentIsLogged, NEW in \in InputSet, NEW d, NEW written \in BOOLEAN,
         Evaluated(in, d, written), d.action \in Verbs
  PROVE  WriteAhead(in, d) \notin sent \cup inflight
<1> DEFINE w == WriteAhead(in, d)
<1>1. /\ in.now = now /\ now \in Nat /\ in.ledger = disk /\ disk \in Ledger
      /\ disk.pending = Null /\ ~WithinInterval(in, d.action, Spacing(d.action))
  BY DEF Evaluated, DecisionOK, TypeOK
<1>2. w \in PendingAction /\ w.ts = now /\ w.kind = d.action /\ w # Null
  BY <1>1, NullAssumption DEF Evaluated, DecisionOK, WriteAhead, PendingAction
<1>3. Spacing(d.action) \in Nat /\ Spacing(d.action) > 0 /\ Policy.retentionS \in Nat
  BY PolicyAssumption, SpacingAssumption DEF Spacing, PolicyShape
<1> HIDE DEF w
<1> SUFFICES ASSUME w \in sent \cup inflight PROVE FALSE
  BY DEF w
<1>4. AnswersFor(disk, w)
  BY <1>1, <1>2, <1>3 DEF SentIsLogged
<1>5. PICK a \in disk.actions : a.ts = now /\ a.kind = d.action
  BY <1>1, <1>2, <1>4 DEF AnswersFor
<1>6. now < a.ts + Spacing(d.action)
  BY <1>1, <1>3, <1>5
<1> QED BY <1>1, <1>5, <1>6 DEF WithinInterval, ActionsOf

LEMMA HandshakeStep ==
  ASSUME TypeOK, Handshake, SentIsLogged, [AnyNext]_vars
  PROVE  Handshake'
<1>1. CASE AnyEvaluation
  <2>1. PICK in \in InputSet, written \in BOOLEAN : \E d : Evaluated(in, d, written)
    BY <1>1, TickEvaluates
  <2>2. PICK d : Evaluated(in, d, written)
    BY <2>1
  <2> DEFINE acts == written /\ d.action \in Verbs
  <2>3. proc \in Process /\ proc.pc = "idle" /\ UNCHANGED <<now, inflight, sent>>
    BY <2>2 DEF Evaluated, TypeOK
  <2>4. CASE acts
    <3>1. proc'.pc = "written" /\ proc'.intent = WriteAhead(in, d)
      BY <2>2, <2>3, <2>4 DEF Evaluated, Process
    <3>2. disk'.pending = WriteAhead(in, d)
      BY <2>2, <2>4, AdvanceKeeps DEF Evaluated
    <3>3. WriteAhead(in, d) # Null /\ WriteAhead(in, d).ts = now /\ now \in Nat
      <4>1. in.now = now /\ now \in Nat /\ d.t0 \in Nat /\ d.action \in Verbs
        BY <2>2, <2>4 DEF Evaluated, DecisionOK, TypeOK
      <4>2. WriteAhead(in, d) \in PendingAction /\ WriteAhead(in, d).ts = now
        BY <4>1 DEF WriteAhead, PendingAction
      <4> QED BY <4>1, <4>2, NullAssumption
    <3>4. WriteAhead(in, d) \notin sent \cup inflight
      BY <2>2, <2>4, DecidedIsNew
    <3> QED BY <2>3, <3>1, <3>2, <3>3, <3>4 DEF Handshake
  <2>5. CASE ~acts
    <3>1. proc'.pc = "idle" /\ proc'.intent = proc.intent
      BY <2>2, <2>3, <2>5 DEF Evaluated, Process
    <3> QED BY <2>3, <3>1 DEF Handshake
  <2> QED BY <2>4, <2>5
<1>2. CASE Request
  BY <1>2 DEF Request, Handshake, TypeOK, Process
<1>3. ASSUME NEW arrived \in BOOLEAN, NoAnswer(arrived) PROVE Handshake'
  BY <1>3 DEF NoAnswer, Handshake, TypeOK, Process
<1>4. ASSUME NEW written \in BOOLEAN, Close(written) PROVE Handshake'
  BY <1>4 DEF Close, Handshake, TypeOK, Process
<1>5. CASE Respond
  <2>1. ASSUME NEW r \in inflight, Decline(r) PROVE Handshake'
    BY <2>1 DEF Decline, Answer, Handshake, TypeOK, Process
  <2>2. ASSUME NEW r \in inflight, NEW outcome \in {"executed", "failed", "unknown"},
               Execute(r, outcome)
        PROVE  Handshake'
    BY <2>2 DEF Execute, Answer, Handshake, TypeOK, Process
  <2>3. ASSUME NEW r \in inflight, NEW reached \in BOOLEAN, Throw(r, reached) PROVE Handshake'
    BY <2>3 DEF Throw, Answer, Handshake, TypeOK, Process
  <2> QED BY <1>5, <2>1, <2>2, <2>3 DEF Respond
<1>6. CASE Crash
  BY <1>6 DEF Crash, Dead, Handshake
<1>7. CASE Restart
  BY <1>7 DEF Restart, Started, Dead, Handshake
<1>8. CASE Elapse
  BY <1>8 DEF Elapse, Handshake, TypeOK, Process, OrNull, PendingAction
<1>9. CASE Intervene
  BY <1>9 DEF Intervene, Handshake
<1>10. CASE TouchDisarm
  BY <1>10 DEF TouchDisarm, Handshake
<1>11. CASE UNCHANGED vars
  BY <1>11 DEF vars, Handshake
<1>12. CASE Performing
  BY <1>2, <1>3, <1>4, <1>12 DEF Performing, May
<1> QED BY <1>1, <1>5, <1>6, <1>7, <1>8, <1>9, <1>10, <1>11, <1>12 DEF AnyNext

\* Closing an action leaves every answer the ledger owes where it was.
LEMMA ClosingAnswers ==
  ASSUME TypeOK, Handshake, NEW written \in BOOLEAN, Close(written),
         NEW v \in sent \cup inflight, AnswersFor(disk, v)
  PROVE  AnswersFor(disk', v)
<1> DEFINE a == Outcome(proc)
<1>1. /\ disk \in Ledger /\ disk' = IF written THEN RecordOutcome(disk, a) ELSE disk
      /\ proc.pc = "closing" /\ disk.pending = proc.intent /\ proc.intent \in PendingAction
      /\ proc.answer = "not_executed" => proc.intent \notin sent \cup inflight
  BY DEF Close, Handshake, TypeOK, Process, OrNull
<1>2. a.ts = proc.intent.ts /\ a.kind = proc.intent.kind /\ a.key = proc.intent.key
      /\ a.outcome = proc.answer
  BY DEF Outcome
<1> HIDE DEF a
<1>3. RecordOutcome(disk, a).actions = disk.actions \cup {a}
  BY <1>1 DEF RecordOutcome, Ledger
<1>4. CASE ~written
  BY <1>1, <1>4
<1>5. CASE written /\ disk.pending = v
  <2>1. a.outcome # "not_executed" /\ a.ts = v.ts /\ a.kind = v.kind /\ a.key = v.key
    BY <1>1, <1>2, <1>5
  <2> QED BY <1>1, <1>3, <1>5, <2>1 DEF AnswersFor
<1>6. CASE written /\ disk.pending # v
  BY <1>1, <1>3, <1>6 DEF AnswersFor
<1> QED BY <1>4, <1>5, <1>6

LEMMA LoggedStep ==
  ASSUME TypeOK, Handshake, SentIsLogged, [AnyNext]_vars
  PROVE  SentIsLogged'
<1>0. /\ now \in Nat /\ Policy.retentionS \in Nat
      /\ sent \cup inflight \subseteq PendingAction
  BY PolicyAssumption DEF TypeOK, PolicyShape
<1>1. CASE AnyEvaluation
  <2>1. PICK in \in InputSet, written \in BOOLEAN : \E d : Evaluated(in, d, written)
    BY <1>1, TickEvaluates
  <2>2. PICK d : Evaluated(in, d, written)
    BY <2>1
  <2>3. UNCHANGED <<now, inflight, sent>> /\ in.now = now /\ in.ledger = disk
    BY <2>2 DEF Evaluated
  <2>4. CASE ~written
    BY <2>2, <2>3, <2>4 DEF Evaluated, SentIsLogged
  <2>5. CASE written
    <3>1. disk' = Advance(in, d) /\ DecisionOK(in, d)
      BY <2>2, <2>5 DEF Evaluated
    <3>2. ASSUME NEW v \in sent \cup inflight, now <= v.ts + Policy.retentionS
          PROVE  AnswersFor(disk', v)
      <4>1. AnswersFor(disk, v)
        BY <3>2 DEF SentIsLogged
      <4>2. v # Null
        BY <1>0, NullAssumption
      <4>3. CASE disk.pending = v
        BY <2>3, <3>1, <4>2, <4>3, AdvanceKeeps DEF AnswersFor
      <4>4. CASE disk.pending # v
        <5>1. PICK a \in disk.actions :
                a.ts = v.ts /\ a.kind = v.kind /\ a.key = v.key /\ a.outcome # "not_executed"
          BY <4>1, <4>4 DEF AnswersFor
        <5>2. a \in disk'.actions
          BY <2>3, <3>1, <3>2, <5>1, AdvanceKeeps
        <5> QED BY <5>1, <5>2 DEF AnswersFor
      <4> QED BY <4>3, <4>4
    <3> QED BY <2>3, <3>2 DEF SentIsLogged
  <2> QED BY <2>4, <2>5
<1>2. CASE Request
  <2>1. disk.pending = proc.intent /\ inflight' = inflight \cup {proc.intent}
        /\ UNCHANGED <<now, disk, sent>>
    BY <1>2 DEF Request, Handshake
  <2> QED BY <2>1 DEF SentIsLogged, AnswersFor
<1>3. ASSUME NEW arrived \in BOOLEAN, NoAnswer(arrived) PROVE SentIsLogged'
  <2>1. inflight' \subseteq inflight /\ UNCHANGED <<now, disk, sent>>
    BY <1>3 DEF NoAnswer
  <2> QED BY <2>1 DEF SentIsLogged, AnswersFor
<1>4. ASSUME NEW written \in BOOLEAN, Close(written) PROVE SentIsLogged'
  <2>1. UNCHANGED <<now, inflight, sent>>
    BY <1>4 DEF Close
  <2>2. \A v \in sent \cup inflight : AnswersFor(disk, v) => AnswersFor(disk', v)
    BY <1>4, ClosingAnswers
  <2> QED BY <2>1, <2>2 DEF SentIsLogged
<1>5. CASE Respond
  <2>1. sent' \cup inflight' \subseteq sent \cup inflight /\ UNCHANGED <<now, disk>>
    BY <1>5 DEF Respond, Decline, Execute, Throw, Answer
  <2> QED BY <2>1 DEF SentIsLogged, AnswersFor
<1>6. CASE Crash \/ Restart \/ Intervene \/ TouchDisarm \/ UNCHANGED vars
  <2>1. UNCHANGED <<now, disk, inflight, sent>>
    BY <1>6 DEF Crash, Restart, Intervene, TouchDisarm, vars
  <2> QED BY <2>1 DEF SentIsLogged, AnswersFor
<1>7. CASE Elapse
  <2>1. UNCHANGED <<disk, inflight, sent>> /\ now' \in Nat /\ now <= now'
    BY <1>0, <1>7 DEF Elapse
  <2>2. \A v \in sent \cup inflight : v.ts \in Nat
    BY <1>0 DEF PendingAction
  <2> QED BY <1>0, <2>1, <2>2 DEF SentIsLogged, AnswersFor
<1>8. CASE Performing
  BY <1>2, <1>3, <1>4, <1>8 DEF Performing, May
<1> QED BY <1>1, <1>5, <1>6, <1>7, <1>8 DEF AnyNext

-----------------------------------------------------------------------------
(* The spacing of what is sent. *)

\* Everything decided that may reach the router or has: a verb written ahead and not handed
\* over is still to come.
Issued == sent \cup inflight \cup (IF proc.pc = "written" THEN {proc.intent} ELSE {})

Apart ==
  \A u, v \in Issued :
    u.kind = v.kind /\ u # v =>
      u.ts + Spacing(u.kind) <= v.ts \/ v.ts + Spacing(v.kind) <= u.ts

AllInTime == \A v \in Issued : InTime(v)

\* Only an evaluation that decides on a verb adds to what has been issued.
LEMMA IssuedStep ==
  ASSUME TypeOK, Handshake, [AnyNext]_vars
  PROVE  \/ Issued' \subseteq Issued
         \/ \E in \in InputSet : \E d :
              /\ Evaluated(in, d, TRUE) /\ d.action \in Verbs
              /\ Issued = sent \cup inflight /\ Issued' = Issued \cup {WriteAhead(in, d)}
<1>1. CASE AnyEvaluation
  <2>1. PICK in \in InputSet, written \in BOOLEAN : \E d : Evaluated(in, d, written)
    BY <1>1, TickEvaluates
  <2>2. PICK d : Evaluated(in, d, written)
    BY <2>1
  <2>3. proc \in Process /\ proc.pc = "idle" /\ UNCHANGED <<inflight, sent>>
    BY <2>2 DEF Evaluated, TypeOK
  <2>4. CASE written /\ d.action \in Verbs
    <3>1. proc'.pc = "written" /\ proc'.intent = WriteAhead(in, d)
      BY <2>2, <2>3, <2>4 DEF Evaluated, Process
    <3>2. Issued = sent \cup inflight /\ Issued' = Issued \cup {WriteAhead(in, d)}
      BY <2>3, <3>1 DEF Issued
    <3>3. written = TRUE
      BY <2>4
    <3> QED BY <2>2, <2>4, <3>2, <3>3
  <2>5. CASE ~(written /\ d.action \in Verbs)
    <3>1. proc'.pc = "idle"
      BY <2>2, <2>3, <2>5 DEF Evaluated, Process
    <3> QED BY <2>3, <3>1 DEF Issued
  <2> QED BY <2>4, <2>5
<1>2. CASE Performing
  BY <1>2 DEF Performing, Request, NoAnswer, Close, Issued, TypeOK, Process
<1>3. CASE Respond
  <2>1. sent' \cup inflight' \subseteq sent \cup inflight
    BY <1>3 DEF Respond, Decline, Execute, Throw, Answer
  <2>2. PICK r \in inflight, outcome \in Outcomes : Answer(r, outcome)
    BY <1>3 DEF Respond, Decline, Execute, Throw, Outcomes
  <2>3. proc' = proc \/ proc'.pc = "closing"
    BY <2>2 DEF Answer, TypeOK, Process
  <2> QED BY <2>1, <2>3 DEF Issued
<1>4. CASE Crash \/ Restart
  <2>1. Dead.pc = "idle" /\ Started(now).pc = "idle"
    BY DEF Dead, Started
  <2>2. proc' \in {Dead, Started(now)} /\ UNCHANGED <<inflight, sent>>
    BY <1>4 DEF Crash, Restart
  <2>3. proc'.pc = "idle"
    BY <2>1, <2>2
  <2> QED BY <2>2, <2>3 DEF Issued
<1>5. CASE Elapse
  <2>1. proc'.pc = proc.pc /\ proc'.intent = proc.intent /\ UNCHANGED <<inflight, sent>>
    BY <1>5 DEF Elapse, TypeOK, Process
  <2> QED BY <2>1 DEF Issued
<1>6. CASE Intervene \/ TouchDisarm \/ UNCHANGED vars
  BY <1>6 DEF Intervene, TouchDisarm, vars, Issued
<1> QED BY <1>1, <1>2, <1>3, <1>4, <1>5, <1>6 DEF AnyNext

\* A verb decided now is spaced from all of its kind that were issued before: those still in
\* the ledger would have held it back, and the others are older than that.
LEMMA DecidedIsSpaced ==
  ASSUME TypeOK, SentIsLogged, NEW in \in InputSet, NEW d, Evaluated(in, d, TRUE),
         d.action \in Verbs, NEW u \in sent \cup inflight, u.kind = d.action
  PROVE  u.ts + Spacing(u.kind) <= now
<1>1. /\ in.now = now /\ now \in Nat /\ in.ledger = disk /\ disk \in Ledger
      /\ disk.pending = Null /\ ~WithinInterval(in, d.action, Spacing(d.action))
  BY DEF Evaluated, DecisionOK, TypeOK
<1>2. /\ u \in PendingAction /\ u.ts \in Nat /\ u # Null
      /\ Spacing(u.kind) \in Nat /\ Policy.retentionS \in Nat
      /\ Spacing(u.kind) <= Policy.retentionS
  BY PolicyAssumption, SpacingAssumption, NullAssumption
     DEF TypeOK, PendingAction, Spacing, PolicyShape
<1>3. CASE now <= u.ts + Policy.retentionS
  <2>1. PICK a \in disk.actions : a.ts = u.ts /\ a.kind = u.kind
    BY <1>1, <1>2, <1>3 DEF SentIsLogged, AnswersFor
  <2>2. ~(now < a.ts + Spacing(u.kind))
    BY <1>1, <2>1 DEF WithinInterval, ActionsOf
  <2> QED BY <1>1, <1>2, <2>1, <2>2
<1>4. CASE ~(now <= u.ts + Policy.retentionS)
  BY <1>1, <1>2, <1>4
<1> QED BY <1>3, <1>4

LEMMA ApartStep ==
  ASSUME TypeOK, Handshake, SentIsLogged, Apart, AllInTime, [AnyNext]_vars
  PROVE  Apart' /\ AllInTime'
<1>1. CASE Issued' \subseteq Issued
  BY <1>1 DEF Apart, AllInTime, InTime, Spacing
<1>2. ASSUME NEW in \in InputSet, NEW d, Evaluated(in, d, TRUE), d.action \in Verbs,
             Issued = sent \cup inflight, Issued' = Issued \cup {WriteAhead(in, d)}
      PROVE  Apart' /\ AllInTime'
  <2> DEFINE w == WriteAhead(in, d)
  <2>1. w.ts = now /\ w.kind = d.action /\ InTime(w)
    BY <1>2 DEF Evaluated, WriteAhead
  <2> HIDE DEF w
  <2>2. Issued' = Issued \cup {w}
    BY <1>2 DEF w
  <2>3. \A u \in Issued : u.kind = w.kind => u.ts + Spacing(u.kind) <= w.ts
    BY <1>2, <2>1, DecidedIsSpaced
  <2>4. Apart'
    BY <2>2, <2>3 DEF Apart, Spacing
  <2>5. AllInTime'
    BY <2>1, <2>2 DEF AllInTime, InTime
  <2> QED BY <2>4, <2>5
<1> QED BY <1>1, <1>2, IssuedStep

-----------------------------------------------------------------------------
(* The theorems. *)

IInv == TypeOK /\ Handshake /\ SentIsLogged /\ Apart /\ AllInTime

LEMMA IInvInit == Init => IInv
<1> SUFFICES ASSUME Init PROVE IInv
  OBVIOUS
<1>1. EmptyLedger \in Ledger
  BY DEF EmptyLedger, Ledger, OrNull, Rungs
<1>2. Started(0) \in Process /\ Started(0).pc = "idle" /\ Started(0).intent = Null
  BY DEF Started, Dead, Process, Classes, Outcomes, OrNull
<1>3. NothingSeen \in Sightings
  BY DEF NothingSeen, Sightings, OrNull
<1>4. TypeOK
  BY <1>1, <1>2, <1>3 DEF Init, TypeOK, OrNull
<1>5. Handshake
  BY <1>2 DEF Init, Handshake
<1>6. SentIsLogged
  BY DEF Init, SentIsLogged
<1>7. Apart /\ AllInTime
  BY <1>2 DEF Init, Issued, Apart, AllInTime
<1> QED BY <1>4, <1>5, <1>6, <1>7 DEF IInv

LEMMA IInvStep == IInv /\ [AnyNext]_vars => IInv'
  BY TypeStep, HandshakeStep, LoggedStep, ApartStep DEF IInv

LEMMA Inductive == Spec => []IInv
  BY IInvInit, IInvStep, NextIsAny, PTL DEF Spec

\* Every variable keeps its shape, and the ledger file the program writes is always one it
\* can read back (collector/watchdog-ladder.ts `advance`, `recordOutcome`).
THEOREM TypeCorrect == Spec => []TypeOK
<1>1. IInv => TypeOK
  BY DEF IInv
<1> QED BY <1>1, Inductive, PTL

\* The write-ahead is durable: whatever reached the router, or still can, is answered for
\* by the ledger on the disk until it is past retention, at every instant and so after
\* every crash, failed write or lost answer (collector/watchdog.ts `tick`, `perform`).
THEOREM WriteAheadDurable == Spec => []SentIsLogged
<1>1. IInv => SentIsLogged
  BY DEF IInv
<1> QED BY <1>1, Inductive, PTL

\* Reboots are six hours apart and reconnects one, whatever was sent, answered or
\* forgotten by a crash in between (collector/watchdog-ladder.ts `reconnectBlockers`,
\* `rebootBlockers` over a ledger that always has the last one).
THEOREM ActionsSpaced == Spec => []SentSpaced
<1>1. IInv => SentSpaced
  <2> SUFFICES ASSUME IInv, NEW u \in sent, NEW v \in sent, u.kind = v.kind, u.ts < v.ts
               PROVE  v.ts >= u.ts + Spacing(u.kind)
    BY DEF SentSpaced
  <2>1. u \in Issued /\ v \in Issued /\ u # v
    BY DEF Issued, IInv, TypeOK, PendingAction
  <2>2. u.ts \in Nat /\ v.ts \in Nat /\ Spacing(v.kind) \in Nat /\ Spacing(u.kind) \in Nat
    BY PolicyAssumption DEF IInv, TypeOK, PendingAction, Spacing, PolicyShape
  <2> QED BY <2>1, <2>2 DEF IInv, Apart
<1> QED BY <1>1, Inductive, PTL

\* An outage is answered at most once with each verb: two would both lie between its start
\* and the ladder's exhaustion, which is closer than their spacing allows
\* (collector/watchdog-ladder.ts `evaluate`).
THEOREM OutageAnsweredOnce == Spec => []OneActionPerOutage
<1>1. IInv => OneActionPerOutage
  <2> SUFFICES ASSUME IInv, NEW u \in sent, NEW v \in sent, u.kind = v.kind, u.key = v.key,
                      u # v
               PROVE  FALSE
    BY DEF OneActionPerOutage
  <2>1. u \in Issued /\ v \in Issued
    BY DEF Issued
  <2>2. /\ u.ts \in Nat /\ v.ts \in Nat /\ u.key \in Nat
        /\ Spacing(u.kind) \in Nat /\ Policy.exhaustAtS \in Nat
        /\ Policy.exhaustAtS <= Spacing(u.kind)
    BY PolicyAssumption, SpacingAssumption
       DEF IInv, TypeOK, PendingAction, Spacing, PolicyShape
  <2>3. InTime(u) /\ InTime(v)
    BY <2>1 DEF IInv, AllInTime
  <2>4. u.ts + Spacing(u.kind) <= v.ts \/ v.ts + Spacing(u.kind) <= u.ts
    BY <2>1 DEF IInv, Apart
  <2> QED BY <2>2, <2>3, <2>4 DEF InTime
<1> QED BY <1>1, Inductive, PTL

-----------------------------------------------------------------------------
(* What a judgement that asks for something rests on. *)

BlockersOf(in, class, kind) ==
  SharedBlockers(in, class)
    \cup IF kind = "reboot" THEN RebootBlockers(in, class) ELSE ReconnectBlockers(in)

LEMMA IfEmpty == ASSUME NEW cond, NEW name, If(cond, name) = {} PROVE ~cond
  BY DEF If

LEMMA SharedUnblocked ==
  ASSUME NEW in, NEW class, SharedBlockers(in, class) = {}
  PROVE  /\ ~(in.ledger.consecutive >= Policy.latchAfterActions)
         /\ ~(in.ledger.cooldownUntil # Null /\ in.now < in.ledger.cooldownUntil)
         /\ ~(in.humanTs # Null /\ in.now < in.humanTs + Policy.humanQuietS)
<1>1. /\ If(in.ledger.consecutive >= Policy.latchAfterActions, "latched") = {}
      /\ If(in.ledger.cooldownUntil # Null /\ in.now < in.ledger.cooldownUntil,
            "post_action_cooldown") = {}
      /\ If(in.humanTs # Null /\ in.now < in.humanTs + Policy.humanQuietS,
            "human_quiet_period") = {}
  BY DEF SharedBlockers
<1> QED BY <1>1, IfEmpty

LEMMA VerbUnblocked ==
  ASSUME NEW in, NEW class, NEW kind \in Verbs, BlockersOf(in, class, kind) = {}
  PROVE  /\ SharedBlockers(in, class) = {}
         /\ ~RateLimited(in, kind, DailyLimit(kind))
         /\ kind = "reboot" =>
              /\ ~(in.ledger.announcedAt = Null)
              /\ ~(in.ledger.announcedAt # Null /\ in.now < in.ledger.announcedAt + Policy.announceLeadS)
<1>1. SharedBlockers(in, class) = {}
  BY DEF BlockersOf
<1>2. CASE kind = "reboot"
  <2>1. RebootBlockers(in, class) = {}
    BY <1>2 DEF BlockersOf
  <2>2. /\ If(RateLimited(in, "reboot", Policy.rebootMaxPer24h), "reboot_rate_limit") = {}
        /\ If(in.ledger.announcedAt = Null, "not_announced") = {}
        /\ If(in.ledger.announcedAt # Null /\ in.now < in.ledger.announcedAt + Policy.announceLeadS,
              "announce_pending") = {}
    BY <2>1 DEF RebootBlockers
  <2>3. DailyLimit(kind) = Policy.rebootMaxPer24h
    BY <1>2 DEF DailyLimit
  <2> QED BY <1>1, <1>2, <2>2, <2>3, IfEmpty
<1>3. CASE kind = "reconnect"
  <2>1. ReconnectBlockers(in) = {}
    BY <1>3 DEF BlockersOf
  <2>2. If(RateLimited(in, "reconnect", Policy.reconnectMaxPer24h), "reconnect_rate_limit") = {}
    BY <2>1 DEF ReconnectBlockers
  <2>3. DailyLimit(kind) = Policy.reconnectMaxPer24h
    BY <1>3 DEF DailyLimit
  <2> QED BY <1>1, <1>3, <2>2, <2>3, IfEmpty
<1> QED BY <1>2, <1>3 DEF Verbs

\* A verb is asked for when nothing blocks it, of the outage the ladder stands in.
LEMMA JudgeActs ==
  ASSUME NEW in, Judge(in).action \in Verbs
  PROVE  /\ Judge(in).t0 = LadderStart(in)
         /\ BlockersOf(in, Classify(in), Judge(in).action) = {}
<1> DEFINE class == Classify(in)
           t0 == LadderStart(in)
<1>1. \A state, why, u, r :
        /\ Standing(in, class, state, why).action \notin Verbs
        /\ [Standing(in, class, state, why) EXCEPT !.t0 = u].action \notin Verbs
        /\ [Standing(in, class, state, why) EXCEPT !.t0 = u, !.rung = r].action \notin Verbs
  BY DEF Standing, Verbs
<1>2. ASSUME NEW kind \in Verbs, NEW blockers
      PROVE  LET d == Due(in, class, t0, kind, blockers)
             IN d.t0 = t0 /\ (d.action \in Verbs => d.action = kind /\ blockers = {})
  BY DEF Due, Verbs
<1>3. WhenExhausted(in, class, t0).action \notin Verbs
  BY DEF WhenExhausted, Verbs
<1> HIDE DEF class, t0
<1>4. LET d == WhenRebootDue(in, class, t0)
      IN d.action \in Verbs => /\ d.t0 = t0 /\ d.action = "reboot"
                               /\ SharedBlockers(in, class) \cup RebootBlockers(in, class) = {}
  BY <1>2 DEF WhenRebootDue, Verbs
<1>5. LET d == Due(in, class, t0, "reconnect", SharedBlockers(in, class) \cup ReconnectBlockers(in))
      IN d.action \in Verbs => /\ d.t0 = t0 /\ d.action = "reconnect"
                               /\ SharedBlockers(in, class) \cup ReconnectBlockers(in) = {}
  BY <1>2 DEF Verbs
<1>6. Judge(in) = WhenDown(in, class)
  BY <1>1 DEF Judge, Evaluate, WhenHealthy, class
<1>7. \/ Judge(in) = WhenRebootDue(in, class, t0)
      \/ Judge(in) = Due(in, class, t0, "reconnect", SharedBlockers(in, class) \cup ReconnectBlockers(in))
  BY <1>1, <1>3, <1>6 DEF WhenDown, t0
<1> QED BY <1>4, <1>5, <1>7 DEF BlockersOf, class, t0

\* A reboot is announced in an outage that has begun, with no action open.
LEMMA JudgeAnnounces ==
  ASSUME NEW in \in InputSet, Timely(in), Judge(in).action = "announce"
  PROVE  /\ in.ledger.pending = Null /\ ~Healthy(Judge(in).class)
         /\ Judge(in).t0 = LadderStart(in) /\ LadderStart(in) \in Nat /\ LadderStart(in) <= in.now
<1> DEFINE class == Classify(in)
           t0 == LadderStart(in)
<1>1. \A state, why, u, r :
        /\ Standing(in, class, state, why).action # "announce"
        /\ [Standing(in, class, state, why) EXCEPT !.t0 = u].action # "announce"
        /\ [Standing(in, class, state, why) EXCEPT !.t0 = u, !.rung = r].action # "announce"
  BY DEF Standing
<1>2. \A blockers : \A kind \in Verbs : Due(in, class, t0, kind, blockers).action # "announce"
  BY DEF Due, Verbs
<1>3. WhenExhausted(in, class, t0).action # "announce"
  BY DEF WhenExhausted
<1>4. /\ t0 \in Nat /\ in.now \in Nat /\ RebootDueAt(class) \in Nat
  BY LadderStartType, PolicyAssumption DEF InputSet, PolicyShape, RebootDueAt
<1>5. WhenRebootDue(in, class, t0).action = "announce" =>
        WhenRebootDue(in, class, t0).t0 = t0 /\ WhenRebootDue(in, class, t0).class = class
  BY <1>2 DEF WhenRebootDue, Verbs
<1> HIDE DEF class, t0
<1>6. in.ledger.pending = Null /\ ~Healthy(class) /\ Judge(in) = WhenDown(in, class)
  BY <1>1 DEF Judge, Evaluate, WhenHealthy, class
<1>7. Judge(in) = WhenRebootDue(in, class, t0) /\ in.now >= t0 + RebootDueAt(class)
  BY <1>1, <1>2, <1>3, <1>6 DEF WhenDown, t0, Verbs
<1> QED BY <1>4, <1>5, <1>6, <1>7 DEF t0

\* A recovery has lasted.
LEMMA JudgeRecovers ==
  ASSUME NEW in, Judge(in).state = "recovered"
  PROVE  LET since == IF in.ledger.healthySince = Null THEN in.now ELSE in.ledger.healthySince
         IN /\ in.ledger.pending = Null /\ Healthy(Judge(in).class)
            /\ in.now >= since + Policy.recoverAfterS
<1> DEFINE class == Classify(in)
           t0 == LadderStart(in)
<1>1. \A state, why, u, r :
        /\ Standing(in, class, state, why).state = state
        /\ Standing(in, class, state, why).class = class
        /\ [Standing(in, class, state, why) EXCEPT !.t0 = u].state = state
        /\ [Standing(in, class, state, why) EXCEPT !.t0 = u, !.rung = r].state = state
  BY DEF Standing
<1>2. \A kind, blockers : Due(in, class, t0, kind, blockers).state # "recovered"
  BY DEF Due
<1>3. WhenRebootDue(in, class, t0).state # "recovered" /\ WhenExhausted(in, class, t0).state # "recovered"
  BY <1>2 DEF WhenRebootDue, WhenExhausted
<1> HIDE DEF class, t0
<1>4. WhenDown(in, class).state # "recovered"
  BY <1>1, <1>2, <1>3 DEF WhenDown, t0
<1>5. in.ledger.pending = Null /\ Healthy(class) /\ Judge(in) = WhenHealthy(in, class)
  BY <1>1, <1>4 DEF Judge, Evaluate, class
<1> QED BY <1>1, <1>5 DEF WhenHealthy

-----------------------------------------------------------------------------
(* What an evaluation makes of the ledger, field by field. *)

CleanSince(in, class) ==
  IF ~Healthy(class) THEN Null
  ELSE IF in.ledger.healthySince = Null THEN in.now ELSE in.ledger.healthySince
Cleared(in, class) ==
  CleanSince(in, class) # Null /\ in.now >= CleanSince(in, class) + Policy.latchClearAfterCleanS

LEMMA HousekeepFields ==
  ASSUME NEW in \in InputSet, NEW class
  PROVE  LET L == in.ledger
             N == Housekeep(in, class)
         IN /\ N.t0 = L.t0 /\ N.rung = L.rung /\ N.announcedAt = L.announcedAt
            /\ N.cooldownUntil = L.cooldownUntil /\ N.healthySince = CleanSince(in, class)
            /\ N.actions \subseteq L.actions
            /\ N.consecutive = IF Cleared(in, class) THEN 0 ELSE L.consecutive
<1>1. in.ledger \in Ledger
  BY DEF InputSet
<1>2. Housekeep(in, class) =
        [in.ledger EXCEPT
           !.actions = {a \in @ : in.now <= a.ts + Policy.retentionS},
           !.v6LastUp = IF in.self # Null /\ in.self.v6 = "up" THEN in.now ELSE @,
           !.healthySince = CleanSince(in, class),
           !.consecutive = IF Cleared(in, class) THEN 0 ELSE @]
  BY DEF Housekeep, CleanSince, Cleared
<1> QED BY <1>1, <1>2 DEF Ledger

Recovers(in, d) == in.ledger.pending = Null /\ Healthy(d.class) /\ d.state = "recovered"
Climbs(in, d) == in.ledger.pending = Null /\ ~Healthy(d.class)

LEMMA AdvanceFields ==
  ASSUME NEW in \in InputSet, NEW d, DecisionOK(in, d)
  PROVE  LET L == in.ledger
             N == Advance(in, d)
         IN /\ N.t0 = IF Recovers(in, d) THEN Null
                      ELSE IF Climbs(in, d) /\ L.t0 = Null THEN d.t0 ELSE L.t0
            /\ N.announcedAt = IF Recovers(in, d) THEN Null
                               ELSE IF Climbs(in, d) /\ d.action = "announce" THEN in.now
                               ELSE L.announcedAt
            /\ N.rung = IF Recovers(in, d) THEN "observe"
                        ELSE IF Climbs(in, d) /\ Rank[d.rung] > Rank[L.rung] THEN d.rung ELSE L.rung
            /\ N.cooldownUntil = IF Recovers(in, d) /\ ActedIn(L)
                                 THEN in.now + Policy.postActionCooldownS ELSE L.cooldownUntil
            /\ N.healthySince = CleanSince(in, d.class)
            /\ N.actions \subseteq L.actions
            /\ N.consecutive = IF d.action \in Verbs THEN L.consecutive + 1
                               ELSE IF Cleared(in, d.class) THEN 0 ELSE L.consecutive
<1> DEFINE L == in.ledger
           H == Housekeep(in, d.class)
<1>1. H \in Ledger /\ L \in Ledger
  BY HousekeepType DEF InputSet
<1>2. /\ H.t0 = L.t0 /\ H.rung = L.rung /\ H.announcedAt = L.announcedAt
      /\ H.cooldownUntil = L.cooldownUntil /\ H.healthySince = CleanSince(in, d.class)
      /\ H.actions \subseteq L.actions
      /\ H.consecutive = IF Cleared(in, d.class) THEN 0 ELSE L.consecutive
  BY HousekeepFields
<1>3. Healthy(d.class) \/ in.ledger.pending # Null => d.action \notin Verbs
  BY DEF DecisionOK
<1>4. ~Healthy(d.class) => ~Cleared(in, d.class)
  BY DEF Cleared, CleanSince
<1>5. Advance(in, d) = IF in.ledger.pending # Null THEN H
                       ELSE IF ~Healthy(d.class) THEN Climb(in, H, d)
                       ELSE IF d.state = "recovered" THEN Recovered(in, H) ELSE H
  BY DEF Advance
<1> HIDE DEF H
<1>6. CASE Climbs(in, d)
  <2>1. /\ Climb(in, H, d).t0 = IF H.t0 = Null THEN d.t0 ELSE H.t0
        /\ Climb(in, H, d).rung = IF Rank[d.rung] > Rank[H.rung] THEN d.rung ELSE H.rung
        /\ Climb(in, H, d).announcedAt = IF d.action = "announce" THEN in.now ELSE H.announcedAt
        /\ Climb(in, H, d).consecutive = IF d.action \in Verbs THEN in.ledger.consecutive + 1
                                         ELSE H.consecutive
        /\ Climb(in, H, d).cooldownUntil = H.cooldownUntil
        /\ Climb(in, H, d).healthySince = H.healthySince
        /\ Climb(in, H, d).actions = H.actions
    BY <1>1 DEF Climb, Ledger
  <2> QED BY <1>2, <1>4, <1>5, <1>6, <2>1 DEF Climbs, Recovers
<1>7. CASE Recovers(in, d)
  <2>1. /\ Recovered(in, H).t0 = Null /\ Recovered(in, H).rung = "observe"
        /\ Recovered(in, H).announcedAt = Null
        /\ Recovered(in, H).cooldownUntil = IF ActedIn(L) THEN in.now + Policy.postActionCooldownS
                                            ELSE H.cooldownUntil
        /\ Recovered(in, H).consecutive = H.consecutive
        /\ Recovered(in, H).healthySince = H.healthySince
        /\ Recovered(in, H).actions = H.actions
    BY <1>1 DEF Recovered, Ledger
  <2> QED BY <1>2, <1>3, <1>5, <1>7, <2>1 DEF Climbs, Recovers
<1>8. CASE ~Climbs(in, d) /\ ~Recovers(in, d)
  BY <1>2, <1>3, <1>5, <1>8 DEF Climbs, Recovers
<1> QED BY <1>6, <1>7, <1>8

-----------------------------------------------------------------------------
(* Towards people. *)

\* What people wrote down is on the rows, and an announcement belongs to the outage that is on.
Courtesy ==
  /\ rows # Null => rows <= now
  /\ seen.human # Null => rows # Null /\ seen.human <= rows
  /\ disk.announcedAt # Null => disk.t0 # Null /\ disk.t0 <= disk.announcedAt
  /\ proc.pc = "idle" => proc.intent = Null
  /\ PeopleFirst

LEMMA CourtesyInit == Init => Courtesy
<1> SUFFICES ASSUME Init PROVE Courtesy
  OBVIOUS
<1>1. /\ rows = Null /\ seen.human = Null /\ disk.announcedAt = Null
      /\ proc.intent = Null
  BY DEF Init, NothingSeen, EmptyLedger, Started, Dead
<1>2. PeopleFirst
  BY <1>1 DEF PeopleFirst, HumanQuietHeld, RebootAnnounced
<1> QED BY <1>1, <1>2 DEF Courtesy

\* An evaluation, whose decision asks for a verb or does not.
LEMMA CourtesyEvaluated ==
  ASSUME "events_unread" \notin Allowed, IInv, Courtesy,
         NEW in \in InputSet, NEW d, NEW written \in BOOLEAN, Evaluated(in, d, written)
  PROVE  Courtesy'
<1>1. /\ in.now = now /\ in.ledger = disk /\ in.humanTs = rows /\ d = Judge(in) /\ Timely(in)
      /\ DecisionOK(in, d) /\ now \in Nat /\ disk \in Ledger /\ rows \in OrNull(Nat)
      /\ seen \in Sightings /\ proc \in Process
      /\ UNCHANGED <<now, rows>> /\ proc.pc = "idle" /\ proc.intent = Null
  BY DEF Evaluated, IInv, TypeOK, Courtesy
<1>2. seen'.human = seen.human
  BY SeeingFields DEF Evaluated, IInv
<1>3. disk'.announcedAt # Null => disk'.t0 # Null /\ disk'.t0 <= disk'.announcedAt
  <2>1. CASE ~written
    BY <1>1, <2>1 DEF Evaluated, Courtesy
  <2>2. CASE written
    <3>1. disk' = Advance(in, d)
      BY <2>2 DEF Evaluated
    <3>2. CASE d.action = "announce"
      <4>1. /\ ~Recovers(in, d) /\ Climbs(in, d) /\ d.t0 = LadderStart(in)
            /\ LadderStart(in) \in Nat /\ LadderStart(in) <= now
        BY <1>1, <3>2, JudgeAnnounces DEF Recovers, Climbs
      <4>2. disk'.announcedAt = now /\ disk'.t0 = IF disk.t0 = Null THEN d.t0 ELSE disk.t0
        BY <1>1, <3>1, <3>2, <4>1, AdvanceFields
      <4>3. disk.t0 # Null => LadderStart(in) = disk.t0
        BY <1>1 DEF LadderStart
      <4> QED BY <4>1, <4>2, <4>3, NullAssumption
    <3>3. CASE d.action # "announce"
      <4>1. disk'.announcedAt \in {Null, disk.announcedAt}
        BY <1>1, <3>1, <3>3, AdvanceFields
      <4>2. disk'.announcedAt # Null /\ disk.t0 # Null => disk'.t0 = disk.t0
        BY <1>1, <3>1, <3>3, AdvanceFields
      <4> QED BY <4>1, <4>2 DEF Courtesy
    <3> QED BY <3>2, <3>3
  <2> QED BY <2>1, <2>2
<1>4. CASE written /\ d.action \in Verbs
  <2> DEFINE w == WriteAhead(in, d)
             class == Classify(in)
  <2>1. proc'.pc = "written" /\ proc'.intent = w
    BY <1>1, <1>4 DEF Evaluated
  <2>2. w.ts = now /\ w.kind = d.action /\ w.key = d.t0 /\ d.t0 = LadderStart(in)
    BY <1>1, <1>4, JudgeActs DEF WriteAhead
  <2>3. /\ SharedBlockers(in, class) = {}
        /\ d.action = "reboot" =>
              disk.announcedAt # Null /\ ~(now < disk.announcedAt + Policy.announceLeadS)
    BY <1>1, <1>4, JudgeActs, VerbUnblocked
  <2>4. rows # Null => ~(now < rows + Policy.humanQuietS)
    BY <1>1, <2>3, SharedUnblocked
  <2>5. Policy.humanQuietS \in Nat /\ Policy.announceLeadS \in Nat
    BY PolicyAssumption DEF PolicyShape
  <2>6. HumanQuietHeld'
    BY <1>1, <1>2, <2>1, <2>2, <2>4, <2>5 DEF HumanQuietHeld, Courtesy, OrNull, Sightings
  <2>7. RebootAnnounced'
    <3> SUFFICES ASSUME d.action = "reboot"
                 PROVE  /\ disk'.announcedAt # Null /\ disk'.announcedAt >= w.key
                        /\ w.ts >= disk'.announcedAt + Policy.announceLeadS
      BY <2>1, <2>2 DEF RebootAnnounced
    <3>1. disk'.announcedAt = disk.announcedAt
      <4>1. disk' = Advance(in, d) /\ ~Healthy(d.class) /\ d.action # "announce"
        BY <1>1, <1>4 DEF Evaluated, DecisionOK
      <4> QED BY <1>1, <4>1, AdvanceFields DEF Recovers
    <3>2. disk.announcedAt \in Nat /\ disk.t0 \in Nat /\ disk.t0 <= disk.announcedAt
      BY <1>1, <2>3 DEF Courtesy, Ledger, OrNull
    <3>3. w.key = disk.t0
      BY <1>1, <2>2, <3>2, NullAssumption DEF LadderStart
    <3> QED BY <1>1, <2>2, <2>3, <2>5, <3>1, <3>2, <3>3
  <2> QED BY <1>1, <1>2, <1>3, <2>1, <2>6, <2>7 DEF Courtesy, PeopleFirst
<1>5. CASE ~(written /\ d.action \in Verbs)
  <2>1. proc'.intent = Null
    BY <1>1, <1>5 DEF Evaluated, Process
  <2> QED BY <1>1, <1>2, <1>3, <2>1 DEF Courtesy, PeopleFirst, HumanQuietHeld, RebootAnnounced
<1> QED BY <1>4, <1>5

LEMMA CourtesyStep ==
  ASSUME "events_unread" \notin Allowed, IInv, Courtesy, [AnyNext]_vars
  PROVE  Courtesy'
<1>0. /\ now \in Nat /\ proc \in Process /\ seen \in Sightings /\ rows \in OrNull(Nat)
      /\ disk \in Ledger /\ Policy.humanQuietS \in Nat
  BY PolicyAssumption DEF IInv, TypeOK, PolicyShape
<1>1. CASE AnyEvaluation
  BY <1>1, TickEvaluates, CourtesyEvaluated DEF IInv
\* The steps that leave all of it alone but the place of the process.
<1>2. ASSUME UNCHANGED <<now, rows, seen>>,
             disk'.announcedAt = disk.announcedAt, disk'.t0 = disk.t0,
             proc'.intent \in {proc.intent, Null}, proc'.pc = "idle" => proc'.intent = Null
      PROVE  Courtesy'
  BY <1>2 DEF Courtesy, PeopleFirst, HumanQuietHeld, RebootAnnounced
<1>3. CASE Performing
  <2>1. CASE Request
    BY <1>0, <1>2, <2>1 DEF Request, Process
  <2>2. ASSUME NEW arrived \in BOOLEAN, NoAnswer(arrived) PROVE Courtesy'
    BY <1>0, <1>2, <2>2 DEF NoAnswer, Process
  <2>3. ASSUME NEW written \in BOOLEAN, Close(written) PROVE Courtesy'
    <3>1. /\ RecordOutcome(disk, Outcome(proc)).announcedAt = disk.announcedAt
          /\ RecordOutcome(disk, Outcome(proc)).t0 = disk.t0
      BY <1>0 DEF RecordOutcome, Ledger
    <3>2. UNCHANGED <<now, rows, seen>> /\ proc'.intent = Null
      BY <1>0, <2>3 DEF Close, Process
    <3>3. disk' \in {disk, RecordOutcome(disk, Outcome(proc))}
      BY <2>3 DEF Close
    <3> QED BY <1>2, <3>1, <3>2, <3>3
  <2> QED BY <1>3, <2>1, <2>2, <2>3 DEF Performing, May
<1>4. CASE Respond
  <2>1. PICK r \in inflight, outcome \in Outcomes : Answer(r, outcome)
    BY <1>4 DEF Respond, Decline, Execute, Throw, Outcomes
  <2>2. /\ UNCHANGED <<now, disk, seen>> /\ proc'.intent = proc.intent
        /\ proc'.pc = "idle" => proc.pc = "idle"
    BY <1>0, <2>1 DEF Answer, Process
  <2>3. rows' = rows \/ rows' = now
    BY <1>4 DEF Respond, Decline, Execute, Throw
  <2>4. /\ rows' # Null => rows' <= now
        /\ seen.human # Null => rows' # Null /\ seen.human <= rows'
    BY <1>0, <2>3, NullAssumption DEF Courtesy, OrNull, Sightings
  <2> QED BY <2>2, <2>4 DEF Courtesy, PeopleFirst, HumanQuietHeld, RebootAnnounced
<1>5. CASE Crash \/ Restart
  <2>1. Dead.intent = Null /\ Started(now).intent = Null
    BY DEF Dead, Started
  <2>2. proc' \in {Dead, Started(now)} /\ UNCHANGED <<now, rows, seen, disk>>
    BY <1>5 DEF Crash, Restart
  <2> QED BY <1>2, <2>1, <2>2
<1>6. CASE Elapse
  <2>1. /\ UNCHANGED <<rows, seen, disk>> /\ now <= now' /\ now' \in Nat
        /\ proc'.intent = proc.intent /\ proc'.pc = proc.pc
    BY <1>0, <1>6 DEF Elapse, Process
  <2>2. rows # Null => rows <= now'
    BY <1>0, <2>1 DEF Courtesy, OrNull
  <2> QED BY <2>1, <2>2 DEF Courtesy, PeopleFirst, HumanQuietHeld, RebootAnnounced
<1>7. CASE Intervene
  <2>1. /\ rows' = now /\ seen'.human = now /\ UNCHANGED <<now, disk, proc>>
    BY <1>0, <1>7 DEF Intervene, Sightings
  <2>2. HumanQuietHeld'
    BY <1>0, <2>1 DEF HumanQuietHeld, IInv, Handshake, Process, PendingAction, OrNull
  <2> QED BY <1>0, <2>1, <2>2, NullAssumption DEF Courtesy, PeopleFirst, RebootAnnounced
<1>8. CASE TouchDisarm \/ UNCHANGED vars
  BY <1>2, <1>8 DEF TouchDisarm, vars, Courtesy
<1> QED BY <1>1, <1>3, <1>4, <1>5, <1>6, <1>7, <1>8 DEF AnyNext

\* As long as the events can be read, no verb is decided on within the quiet period of a
\* person, and no reboot without an announcement in its own outage and the lead after it,
\* through every crash, failed write and lost answer (collector/watchdog-ladder.ts
\* `sharedBlockers`, `rebootBlockers`; collector/watchdog.ts `gather`).
THEOREM PeopleComeFirst == Spec /\ "events_unread" \notin Allowed => []PeopleFirst
<1> SUFFICES ASSUME "events_unread" \notin Allowed PROVE Spec => []PeopleFirst
  OBVIOUS
<1>1. IInv /\ Courtesy /\ [Next]_vars => Courtesy'
  BY NextIsAny, CourtesyStep
<1>2. Courtesy => PeopleFirst
  BY DEF Courtesy
<1> QED BY <1>1, <1>2, CourtesyInit, Inductive, PTL DEF Spec

-----------------------------------------------------------------------------
(* Up the ladder. *)

\* The ledger dates the clean line by what it was told, and where it was told everything the
\* line has looked good for as long.
GoodIsClean ==
  /\ disk.healthySince = seen.toldGoodAt
  /\ seen.goodAt # Null => seen.goodAt <= now
  /\ seen.toldGoodAt # Null /\ ~seen.unsaid => seen.goodAt # Null /\ seen.goodAt <= seen.toldGoodAt

LEMMA GoodStep ==
  ASSUME IInv, GoodIsClean, [AnyNext]_vars
  PROVE  GoodIsClean'
<1>0. /\ TypeOK /\ seen \in Sightings /\ disk \in Ledger /\ now \in Nat
  BY DEF IInv, TypeOK
<1>1. CASE AnyEvaluation
  <2>1. PICK in \in InputSet, written \in BOOLEAN : \E d : Evaluated(in, d, written)
    BY <1>1, TickEvaluates DEF IInv
  <2>2. PICK d : Evaluated(in, d, written)
    BY <2>1
  <2>3. /\ seen'.goodAt = LooksGood(d, seen.goodAt) /\ seen'.toldGoodAt = ToldSince(d, written)
        /\ seen'.unsaid = (IF Healthy(d.class) THEN seen.unsaid ELSE ~written /\ ToldSince(d, written) # Null)
        /\ now' = now
    BY <1>0, <2>2, SeeingFields DEF Evaluated
  <2>4. disk'.healthySince = seen'.toldGoodAt
    <3>1. CASE written
      <4>1. disk'.healthySince = CleanSince(in, d.class) /\ in.ledger = disk /\ in.now = now
        BY <2>2, <3>1, AdvanceFields DEF Evaluated
      <4> QED BY <2>3, <3>1, <4>1 DEF GoodIsClean, CleanSince, ToldSince, LooksGood
    <3>2. CASE ~written
      BY <2>2, <2>3, <3>2 DEF Evaluated, GoodIsClean, ToldSince
    <3> QED BY <3>1, <3>2
  <2>5. seen'.goodAt # Null => seen'.goodAt <= now
    BY <1>0, <2>3 DEF GoodIsClean, LooksGood
  <2>6. ASSUME seen'.toldGoodAt # Null, ~seen'.unsaid
        PROVE  seen'.goodAt # Null /\ seen'.goodAt <= seen'.toldGoodAt
    <3>1. Healthy(d.class) /\ ~seen.unsaid
      BY <2>3, <2>6 DEF ToldSince, LooksGood
    <3>2. seen'.goodAt = (IF seen.goodAt = Null THEN now ELSE seen.goodAt) /\ seen'.goodAt # Null
      BY <1>0, <2>3, <3>1, NullAssumption DEF LooksGood
    <3>3. CASE seen.toldGoodAt # Null
      BY <2>3, <3>1, <3>2, <3>3 DEF GoodIsClean, ToldSince, LooksGood
    <3>4. CASE seen.toldGoodAt = Null
      <4>1. seen'.toldGoodAt = now
        BY <2>3, <2>6, <3>1, <3>4 DEF ToldSince, LooksGood
      <4> QED BY <2>5, <3>2, <4>1
    <3> QED BY <3>3, <3>4
  <2> QED BY <2>3, <2>4, <2>5, <2>6 DEF GoodIsClean
<1>2. ASSUME NEW written \in BOOLEAN, Close(written) PROVE GoodIsClean'
  <2>1. RecordOutcome(disk, Outcome(proc)).healthySince = disk.healthySince
    BY <1>0 DEF RecordOutcome, Ledger
  <2> QED BY <1>2, <2>1 DEF Close, GoodIsClean
<1>3. CASE Intervene
  BY <1>0, <1>3 DEF Intervene, GoodIsClean, Sightings
<1>4. CASE \/ Request \/ \E arrived \in BOOLEAN : NoAnswer(arrived)
           \/ Respond \/ Crash \/ Restart \/ Elapse \/ TouchDisarm \/ UNCHANGED vars
  <2>1. UNCHANGED <<disk, seen>> /\ now <= now' /\ now' \in Nat
    BY <1>0, <1>4 DEF Request, NoAnswer, Respond, Decline, Execute, Throw, Answer, Crash, Restart, Elapse,
                TouchDisarm, vars
  <2> QED BY <1>0, <2>1 DEF GoodIsClean, Sightings, OrNull
<1> QED BY <1>1, <1>2, <1>3, <1>4 DEF AnyNext, Performing, May

Climbing ==
  \/ disk.t0 = Null
  \/ disk'.t0 = disk.t0 /\ Rank[disk'.rung] >= Rank[disk.rung]
  \/ /\ disk'.t0 = Null
     /\ \E since \in {seen'.goodAt} \cup If(seen'.unsaid, seen'.toldGoodAt) :
          since # Null /\ now >= since + Policy.recoverAfterS

LEMMA ClimbingStep ==
  ASSUME IInv, GoodIsClean, [AnyNext]_vars
  PROVE  Climbing
<1>0. /\ TypeOK /\ now \in Nat /\ seen \in Sightings /\ disk \in Ledger /\ Policy.recoverAfterS \in Nat
  BY PolicyAssumption DEF IInv, TypeOK, PolicyShape
<1>1. \A r \in Rungs : Rank[r] \in Nat
  BY DEF Rungs, Rank
<1>2. disk' = disk => Climbing
  BY <1>0, <1>1 DEF Climbing, Ledger
<1>3. CASE AnyEvaluation
  <2>1. PICK in \in InputSet, written \in BOOLEAN : \E d : Evaluated(in, d, written)
    BY <1>3, TickEvaluates DEF IInv
  <2>2. PICK d : Evaluated(in, d, written)
    BY <2>1
  <2>3. CASE written /\ disk.t0 # Null
    <3>1. /\ disk' = Advance(in, d) /\ in.ledger = disk /\ in.now = now
          /\ d = Judge(in) /\ DecisionOK(in, d) /\ d.rung \in Rungs
      BY <2>2, <2>3 DEF Evaluated, DecisionOK
    <3>2. CASE Recovers(in, d)
      <4>1. /\ disk'.t0 = Null /\ disk'.healthySince = CleanSince(in, d.class)
        BY <3>1, <3>2, AdvanceFields
      <4>2. Healthy(d.class) /\ now >= CleanSince(in, d.class) + Policy.recoverAfterS
        BY <3>1, <3>2, JudgeRecovers DEF Recovers, CleanSince
      <4>3. CleanSince(in, d.class) # Null /\ CleanSince(in, d.class) \in Nat
        BY <1>0, <3>1, <4>2, NullAssumption DEF CleanSince, Ledger, OrNull
      <4>4. /\ seen'.toldGoodAt = disk'.healthySince
            /\ ~seen'.unsaid => seen'.goodAt # Null /\ seen'.goodAt <= disk'.healthySince
        BY <1>3, <4>1, <4>3, GoodStep DEF GoodIsClean
      <4>5. seen' \in Sightings
        BY <2>2, <1>0, SeeingFields DEF Evaluated
      <4>6. CASE seen'.unsaid
        BY <4>1, <4>2, <4>3, <4>4, <4>6 DEF Climbing, If
      <4>7. CASE ~seen'.unsaid
        <5>1. seen'.goodAt \in Nat
          BY <4>4, <4>5, <4>7 DEF Sightings, OrNull
        <5>2. now >= seen'.goodAt + Policy.recoverAfterS
          BY <1>0, <4>1, <4>2, <4>3, <4>4, <4>7, <5>1
        <5> QED BY <4>1, <4>4, <4>7, <5>2 DEF Climbing
      <4> QED BY <4>6, <4>7
    <3>3. CASE ~Recovers(in, d)
      <4>1. /\ disk'.t0 = disk.t0
            /\ disk'.rung \in {disk.rung, d.rung}
            /\ disk'.rung # disk.rung => Rank[d.rung] > Rank[disk.rung]
        BY <2>3, <3>1, <3>3, AdvanceFields
      <4> QED BY <1>0, <1>1, <3>1, <4>1 DEF Climbing, Ledger
    <3> QED BY <3>2, <3>3
  <2> QED BY <1>2, <2>2, <2>3 DEF Evaluated, Climbing
<1>4. ASSUME NEW written \in BOOLEAN, Close(written) PROVE Climbing
  <2>1. /\ RecordOutcome(disk, Outcome(proc)).t0 = disk.t0
        /\ RecordOutcome(disk, Outcome(proc)).rung = disk.rung
    BY <1>0 DEF RecordOutcome, Ledger
  <2> QED BY <1>0, <1>1, <1>4, <2>1 DEF Close, Climbing, Ledger
<1>5. CASE \/ Request \/ \E arrived \in BOOLEAN : NoAnswer(arrived)
           \/ Respond \/ Crash \/ Restart \/ Elapse \/ Intervene \/ TouchDisarm \/ UNCHANGED vars
  <2>1. disk' = disk
    BY <1>5 DEF Request, NoAnswer, Respond, Decline, Execute, Throw, Answer, Crash, Restart, Elapse,
                Intervene, TouchDisarm, vars
  <2> QED BY <1>2, <2>1
<1> QED BY <1>3, <1>4, <1>5 DEF AnyNext, Performing, May

\* Within an outage the ladder only climbs, and the ledger lets go of the outage only after
\* every evaluation of the recovery window saw the line good, those whose ledger write threw
\* included; the one exception is a stretch the ledger counts as clean because it could not be
\* told of the evaluation that broke it, and then that stretch is the recovery window
\* (collector/watchdog-ladder.ts `advance`, `RUNG_RANK`, `evaluate`; watchdog.ts `tick`).
THEOREM LadderClimbs == Spec => LadderOnlyClimbs
<1>1. Init => GoodIsClean
  BY DEF Init, GoodIsClean, EmptyLedger, NothingSeen
<1>2. IInv /\ GoodIsClean /\ [Next]_vars => GoodIsClean' /\ Climbing
  BY NextIsAny, GoodStep, ClimbingStep
<1>3. Climbing => [Climbing]_vars
  OBVIOUS
<1>4. LadderOnlyClimbs <=> [][Climbing]_vars
  BY DEF LadderOnlyClimbs, Climbing
<1> QED BY <1>1, <1>2, <1>4, Inductive, PTL DEF Spec

-----------------------------------------------------------------------------
(* Towards the line. *)

\* What counts against the ration: what reached the router, still can, or is being
\* performed, its outcome not yet in the ledger.
Charged == sent \cup inflight \cup (IF proc.pc # "idle" THEN {proc.intent} ELSE {})

InWindow(S, v) == {u \in S : u.kind = v.kind /\ u.ts <= v.ts /\ v.ts <= u.ts + Policy.dayS}
Since(S, t) == {v \in S : v.ts >= t}

Finite == IsFiniteSet(Charged) /\ IsFiniteSet(disk.actions)

\* A verb ends the clean line it was decided in: what is charged is older than the next one.
Dated ==
  /\ seen.clearedAt <= now
  /\ disk.healthySince # Null => \A v \in Charged : v.ts <= disk.healthySince
  /\ proc.pc # "idle" => proc.intent.ts >= seen.clearedAt

Budget == \A v \in Charged : Cardinality(InWindow(Charged, v)) <= DailyLimit(v.kind)

\* The latch in the ledger counts everything charged since the line was last clean.
Latch ==
  /\ Cardinality(Since(Charged, seen.clearedAt)) <= disk.consecutive
  /\ disk.consecutive <= Policy.latchAfterActions

Cool ==
  seen.acted # Null =>
    /\ seen.acted <= now
    /\ disk.cooldownUntil # Null /\ disk.cooldownUntil >= seen.acted + Policy.postActionCooldownS
    /\ \A v \in Charged : ~(seen.acted <= v.ts /\ v.ts < seen.acted + Policy.postActionCooldownS)

Ration == Finite /\ Dated /\ Budget /\ Latch /\ Cool

LEMMA ChargedType ==
  ASSUME TypeOK, Handshake
  PROVE  Charged \subseteq PendingAction /\ \A v \in Charged : v.ts \in Nat /\ v.ts <= now
<1>1. proc.pc # "idle" => proc.intent \in PendingAction /\ proc.intent.ts <= now
  BY DEF Handshake, TypeOK, Process, OrNull
<1> QED BY <1>1 DEF Charged, TypeOK, Handshake, PendingAction

\* Only an evaluation that decides on a verb charges anything, and then one.
LEMMA ChargedStep ==
  ASSUME TypeOK, Handshake, [AnyNext]_vars
  PROVE  \/ Charged' \subseteq Charged
         \/ \E in \in InputSet : \E d :
              /\ Evaluated(in, d, TRUE) /\ d.action \in Verbs
              /\ Charged = sent \cup inflight /\ Charged' = Charged \cup {WriteAhead(in, d)}
<1>1. CASE AnyEvaluation
  <2>1. PICK in \in InputSet, written \in BOOLEAN : \E d : Evaluated(in, d, written)
    BY <1>1, TickEvaluates
  <2>2. PICK d : Evaluated(in, d, written)
    BY <2>1
  <2>3. proc \in Process /\ proc.pc = "idle" /\ UNCHANGED <<inflight, sent>>
    BY <2>2 DEF Evaluated, TypeOK
  <2>4. CASE written /\ d.action \in Verbs
    <3>1. proc'.pc = "written" /\ proc'.intent = WriteAhead(in, d)
      BY <2>2, <2>3, <2>4 DEF Evaluated, Process
    <3>2. Charged = sent \cup inflight /\ Charged' = Charged \cup {WriteAhead(in, d)}
      BY <2>3, <3>1 DEF Charged
    <3>3. written = TRUE
      BY <2>4
    <3> QED BY <2>2, <2>4, <3>2, <3>3
  <2>5. CASE ~(written /\ d.action \in Verbs)
    <3>1. proc'.pc = "idle"
      BY <2>2, <2>3, <2>5 DEF Evaluated, Process
    <3> QED BY <2>3, <3>1 DEF Charged
  <2> QED BY <2>4, <2>5
<1>2. CASE Performing
  BY <1>2 DEF Performing, Request, NoAnswer, Close, Charged, TypeOK, Process
<1>3. CASE Respond
  <2>1. sent' \cup inflight' \subseteq sent \cup inflight
    BY <1>3 DEF Respond, Decline, Execute, Throw, Answer
  <2>2. PICK r \in inflight, outcome \in Outcomes : Answer(r, outcome)
    BY <1>3 DEF Respond, Decline, Execute, Throw, Outcomes
  <2>3. proc' = proc \/ (proc.pc = "waiting" /\ proc'.intent = proc.intent)
    BY <2>2 DEF Answer, TypeOK, Process
  <2> QED BY <2>1, <2>3 DEF Charged
<1>4. CASE Crash \/ Restart
  <2>1. Dead.pc = "idle" /\ Started(now).pc = "idle"
    BY DEF Dead, Started
  <2>2. proc' \in {Dead, Started(now)} /\ UNCHANGED <<inflight, sent>>
    BY <1>4 DEF Crash, Restart
  <2> QED BY <2>1, <2>2 DEF Charged
<1>5. CASE Elapse
  <2>1. proc'.pc = proc.pc /\ proc'.intent = proc.intent /\ UNCHANGED <<inflight, sent>>
    BY <1>5 DEF Elapse, TypeOK, Process
  <2> QED BY <2>1 DEF Charged
<1>6. CASE Intervene \/ TouchDisarm \/ UNCHANGED vars
  BY <1>6 DEF Intervene, TouchDisarm, vars, Charged
<1> QED BY <1>1, <1>2, <1>3, <1>4, <1>5, <1>6 DEF AnyNext

\* What the day still remembers of a kind is in the ledger, entry by entry.
LEMMA WindowInLedger ==
  ASSUME TypeOK, SentIsLogged, IsFiniteSet(disk.actions), disk.pending = Null, NEW kind \in Verbs
  PROVE  LET W == {u \in sent \cup inflight : u.kind = kind /\ now <= u.ts + Policy.dayS}
             A == {a \in ActionsOf(disk, kind) : now <= a.ts + Policy.dayS}
         IN IsFiniteSet(W) /\ IsFiniteSet(A) /\ Cardinality(W) <= Cardinality(A)
<1> DEFINE W == {u \in sent \cup inflight : u.kind = kind /\ now <= u.ts + Policy.dayS}
           A == {a \in ActionsOf(disk, kind) : now <= a.ts + Policy.dayS}
           Same(u, a) == a.ts = u.ts /\ a.kind = u.kind /\ a.key = u.key
           f == [u \in W |-> CHOOSE a \in A : Same(u, a)]
<1>1. \A u \in W : u \in PendingAction /\ u.ts \in Nat
  BY DEF TypeOK, PendingAction
<1>2. ASSUME NEW u \in W PROVE \E a \in A : Same(u, a)
  <2>1. now <= u.ts + Policy.retentionS
    <3>1. now \in Nat /\ Policy.dayS \in Nat /\ Policy.retentionS \in Nat /\ now <= u.ts + Policy.dayS
      BY <1>2, PolicyAssumption DEF TypeOK, PolicyShape
    <3> QED BY <1>1, <1>2, <3>1, RationAssumption
  <2>2. AnswersFor(disk, u) /\ u # Null
    BY <1>1, <1>2, <2>1, NullAssumption DEF SentIsLogged
  <2>3. PICK a \in disk.actions : Same(u, a)
    BY <2>2 DEF AnswersFor
  <2>4. a \in A
    BY <1>2, <2>3 DEF ActionsOf
  <2> QED BY <2>3, <2>4
<1>3. \A u \in W : f[u] \in A /\ Same(u, f[u])
  BY <1>2
<1>4. ASSUME NEW u \in W, NEW v \in W, f[u] = f[v] PROVE u = v
  <2> HIDE DEF f, W, A
  <2>1. u.ts = v.ts /\ u.kind = v.kind /\ u.key = v.key
    BY <1>3, <1>4
  <2>2. /\ u = [kind |-> u.kind, ts |-> u.ts, key |-> u.key]
        /\ v = [kind |-> v.kind, ts |-> v.ts, key |-> v.key]
    BY <1>1 DEF PendingAction
  <2> QED BY <2>1, <2>2
<1>5. f \in Injection(W, A)
  BY <1>3, <1>4 DEF Injection, IsInjective
<1>6. IsFiniteSet(A)
  <2>1. A \in SUBSET disk.actions
    BY DEF ActionsOf
  <2> QED BY <2>1, FS_Subset
<1> HIDE DEF W, A, f
<1>7. IsFiniteSet(W) /\ Cardinality(W) <= Cardinality(A)
  BY <1>5, <1>6, FS_Injection
<1> QED BY <1>6, <1>7 DEF W, A

\* The steps that are not evaluations charge nothing and only the close of an action
\* touches the ledger.
LEMMA OtherSteps ==
  ASSUME TypeOK, Handshake, [AnyNext]_vars, ~AnyEvaluation
  PROVE  /\ Charged' \subseteq Charged /\ now' \in Nat /\ now <= now'
         /\ seen'.clearedAt = seen.clearedAt /\ seen'.acted = seen.acted
         /\ proc'.pc # "idle" => proc.pc # "idle" /\ proc'.intent = proc.intent
         /\ \/ disk' = disk
            \/ /\ proc.pc = "closing" /\ proc'.pc = "idle" /\ UNCHANGED <<sent, inflight>>
               /\ disk' = RecordOutcome(disk, Outcome(proc))
<1>0. now \in Nat /\ proc \in Process /\ seen \in Sightings
  BY DEF TypeOK
<1>1. ASSUME NEW in, NEW d, Evaluated(in, d, TRUE), Charged = sent \cup inflight,
             Charged' = Charged \cup {WriteAhead(in, d)}, d.action \in Verbs
      PROVE  Charged' \subseteq Charged
  <2>1. proc.pc = "idle" /\ proc'.pc = "written"
    BY <1>0, <1>1 DEF Evaluated, Process
  <2>2. ~(proc.pc = "idle" /\ proc'.pc = "written")
    <3>1. CASE Performing
      BY <1>0, <3>1 DEF Performing, Request, NoAnswer, Close, Process
    <3>2. CASE Respond
      <4>1. PICK r \in inflight, outcome \in Outcomes : Answer(r, outcome)
        BY <3>2 DEF Respond, Decline, Execute, Throw, Outcomes
      <4> QED BY <1>0, <4>1 DEF Answer, Process
    <3>3. CASE Crash \/ Restart
      <4>1. Dead.pc = "idle" /\ Started(now).pc = "idle"
        BY DEF Dead, Started
      <4>2. proc' \in {Dead, Started(now)}
        BY <3>3 DEF Crash, Restart
      <4> QED BY <4>1, <4>2
    <3>4. CASE Elapse \/ Intervene \/ TouchDisarm \/ UNCHANGED vars
      BY <1>0, <3>4 DEF Elapse, Intervene, TouchDisarm, vars, Process
    <3> QED BY <3>1, <3>2, <3>3, <3>4 DEF AnyNext
  <2> QED BY <2>1, <2>2
<1>2. Charged' \subseteq Charged
  BY <1>1, ChargedStep
<1>3. now' \in Nat /\ now <= now'
  <2>1. CASE Elapse
    BY <1>0, <2>1 DEF Elapse
  <2>2. CASE ~Elapse
    BY <1>0, <2>2 DEF AnyNext, Performing, Request, NoAnswer, Close, Respond, Decline, Execute, Throw, Answer,
                      Crash, Restart, Intervene, TouchDisarm, vars
  <2> QED BY <2>1, <2>2
<1>4. seen'.clearedAt = seen.clearedAt /\ seen'.acted = seen.acted
  <2>1. seen' = seen \/ seen' = [seen EXCEPT !.human = now]
    BY DEF AnyNext, Performing, Request, NoAnswer, Close, Respond, Decline, Execute, Throw, Answer,
           Crash, Restart, Elapse, Intervene, TouchDisarm, vars
  <2> QED BY <1>0, <2>1 DEF Sightings
<1>5. proc'.pc # "idle" => proc.pc # "idle" /\ proc'.intent = proc.intent
  <2>1. CASE Performing
    BY <1>0, <2>1 DEF Performing, Request, NoAnswer, Close, Process
  <2>2. CASE Respond
    <3>1. PICK r \in inflight, outcome \in Outcomes : Answer(r, outcome)
      BY <2>2 DEF Respond, Decline, Execute, Throw, Outcomes
    <3> QED BY <1>0, <3>1 DEF Answer, Process
  <2>3. CASE Crash \/ Restart
    <3>1. Dead.pc = "idle" /\ Started(now).pc = "idle"
      BY DEF Dead, Started
    <3>2. proc' \in {Dead, Started(now)}
      BY <2>3 DEF Crash, Restart
    <3> QED BY <3>1, <3>2
  <2>4. CASE Elapse \/ Intervene \/ TouchDisarm \/ UNCHANGED vars
    BY <1>0, <2>4 DEF Elapse, Intervene, TouchDisarm, vars, Process
  <2> QED BY <2>1, <2>2, <2>3, <2>4 DEF AnyNext
<1>6. \/ disk' = disk
      \/ /\ proc.pc = "closing" /\ proc'.pc = "idle" /\ UNCHANGED <<sent, inflight>>
         /\ disk' = RecordOutcome(disk, Outcome(proc))
  <2>1. ASSUME NEW written \in BOOLEAN, Close(written)
        PROVE  \/ disk' = disk
               \/ /\ proc.pc = "closing" /\ proc'.pc = "idle" /\ UNCHANGED <<sent, inflight>>
                  /\ disk' = RecordOutcome(disk, Outcome(proc))
    BY <1>0, <2>1 DEF Close, Process
  <2>2. CASE \E written \in BOOLEAN : Close(written)
    BY <2>1, <2>2
  <2>3. CASE ~(\E written \in BOOLEAN : Close(written))
    BY <2>3 DEF AnyNext, Performing, May, Request, NoAnswer, Respond, Decline, Execute, Throw, Answer,
                Crash, Restart, Elapse, Intervene, TouchDisarm, vars
  <2> QED BY <2>2, <2>3
<1> QED BY <1>2, <1>3, <1>4, <1>5, <1>6

LEMMA OutcomeFields ==
  ASSUME TypeOK, NEW a
  PROVE  LET N == RecordOutcome(disk, a)
         IN /\ N.healthySince = disk.healthySince /\ N.cooldownUntil = disk.cooldownUntil
            /\ N.actions = disk.actions \cup {a}
            /\ N.consecutive = IF a.outcome # "not_executed" \/ disk.consecutive = 0
                               THEN disk.consecutive ELSE disk.consecutive - 1
  BY DEF RecordOutcome, TypeOK, Ledger

\* What an evaluation charges, what it lets go of, and what it has shown.
LEMMA EvaluatedFields ==
  ASSUME TypeOK, Handshake, GoodIsClean, NEW in \in InputSet, NEW d, NEW written \in BOOLEAN,
         Evaluated(in, d, written)
  PROVE  /\ in.now = now /\ in.ledger = disk /\ now' = now /\ now \in Nat /\ disk \in Ledger
         /\ Charged = sent \cup inflight
         /\ Charged' = IF written /\ d.action \in Verbs THEN Charged \cup {WriteAhead(in, d)} ELSE Charged
         /\ proc'.pc # "idle" => written /\ d.action \in Verbs /\ proc'.intent = WriteAhead(in, d)
         /\ WriteAhead(in, d).ts = now /\ WriteAhead(in, d).kind = d.action
         /\ d.action \in Verbs => ~Healthy(d.class) /\ d.state # "recovered" /\ disk.pending = Null
         /\ ~written => disk' = disk /\ seen'.clearedAt = seen.clearedAt /\ seen'.acted = seen.acted
         /\ written =>
              /\ disk' = Advance(in, d)
              /\ seen'.clearedAt = IF Cleared(in, d.class) THEN now ELSE seen.clearedAt
              /\ seen'.acted = IF d.state = "recovered"
                                 /\ \E v \in sent : v.key = disk.t0 /\ now <= v.ts + Policy.retentionS
                               THEN now ELSE seen.acted
<1>1. /\ in.now = now /\ in.ledger = disk /\ UNCHANGED <<now, sent, inflight>> /\ now \in Nat
      /\ disk \in Ledger /\ disk # Corrupt /\ proc \in Process /\ proc.pc = "idle" /\ seen \in Sightings
      /\ d = Judge(in) /\ DecisionOK(in, d)
  BY WatchdogAssumption DEF Evaluated, TypeOK
<1>2. WriteAhead(in, d).ts = now /\ WriteAhead(in, d).kind = d.action
  BY <1>1 DEF WriteAhead
<1>3. d.action \in Verbs => ~Healthy(d.class) /\ d.state # "recovered" /\ disk.pending = Null
  BY <1>1, JudgeRecovers DEF DecisionOK
<1>4. /\ proc'.pc = IF written /\ d.action \in Verbs THEN "written" ELSE "idle"
      /\ written /\ d.action \in Verbs => proc'.intent = WriteAhead(in, d)
  BY <1>1 DEF Evaluated, Process
<1>5. /\ Charged = sent \cup inflight
      /\ Charged' = IF written /\ d.action \in Verbs THEN Charged \cup {WriteAhead(in, d)} ELSE Charged
  BY <1>1, <1>4 DEF Charged
<1>6. ~written => disk' = disk /\ seen'.clearedAt = seen.clearedAt /\ seen'.acted = seen.acted
  BY SeeingFields DEF Evaluated
<1>7. CASE written
  <2>1. disk' = Advance(in, d) /\ seen' = Seeing(d, TRUE)
    BY <1>7 DEF Evaluated
  <2> DEFINE good == ToldSince(d, TRUE)
  <2>2. good = CleanSince(in, d.class)
    BY <1>1 DEF GoodIsClean, CleanSince, ToldSince, LooksGood
  <2>3. seen'.clearedAt = IF good # Null /\ now >= good + Policy.latchClearAfterCleanS
                          THEN now ELSE seen.clearedAt
    BY <2>1, SeeingFields
  <2>4. seen'.acted = IF d.state = "recovered"
                           /\ \E v \in sent : v.key = ReadLedger.t0 /\ now <= v.ts + Policy.retentionS
                      THEN now ELSE seen.acted
    BY <2>1, SeeingFields
  <2>5. ReadLedger = disk
    BY <1>1 DEF ReadLedger, Trusted
  <2> HIDE DEF good
  <2>6. seen'.clearedAt = IF Cleared(in, d.class) THEN now ELSE seen.clearedAt
    BY <1>1, <2>2, <2>3 DEF Cleared
  <2> QED BY <1>1, <1>2, <1>3, <1>4, <1>5, <1>7, <2>1, <2>4, <2>5, <2>6
<1> QED BY <1>1, <1>2, <1>3, <1>4, <1>5, <1>6, <1>7

LEMMA RationInit == Init => Ration
<1> SUFFICES ASSUME Init PROVE Ration
  OBVIOUS
<1>1. /\ proc.pc = "idle" /\ disk.actions = {} /\ disk.healthySince = Null /\ disk.consecutive = 0
      /\ seen.clearedAt = 0 /\ seen.acted = Null /\ now = 0
  BY DEF Init, Started, Dead, EmptyLedger, NothingSeen
<1>2. Charged = {}
  BY <1>1 DEF Init, Charged
<1>3. Finite
  BY <1>1, <1>2, FS_EmptySet DEF Finite
<1>4. Since(Charged, seen.clearedAt) = {} /\ Policy.latchAfterActions \in Nat
  BY <1>2, PolicyAssumption DEF Since, PolicyShape
<1>5. Latch
  BY <1>1, <1>4, FS_EmptySet DEF Latch
<1> QED BY <1>1, <1>2, <1>3, <1>5 DEF Ration, Dated, Budget, Cool

LEMMA FiniteStep ==
  ASSUME IInv, GoodIsClean, Finite, [AnyNext]_vars
  PROVE  Finite'
<1>0. TypeOK /\ Handshake
  BY DEF IInv
<1>1. IsFiniteSet(Charged')
  <2>1. CASE Charged' \subseteq Charged
    BY <2>1, FS_Subset DEF Finite
  <2>2. ASSUME NEW w, Charged' = Charged \cup {w} PROVE IsFiniteSet(Charged')
    BY <2>2, FS_AddElement DEF Finite
  <2> QED BY <1>0, <2>1, <2>2, ChargedStep
<1>2. IsFiniteSet(disk'.actions)
  <2>1. CASE AnyEvaluation
    <3>1. PICK in \in InputSet, written \in BOOLEAN : \E d : Evaluated(in, d, written)
      BY <1>0, <2>1, TickEvaluates
    <3>2. PICK d : Evaluated(in, d, written)
      BY <3>1
    <3>3. disk'.actions \subseteq disk.actions
      BY <3>2, AdvanceFields DEF Evaluated
    <3> QED BY <3>3, FS_Subset DEF Finite
  <2>2. CASE ~AnyEvaluation
    <3>1. disk' = disk \/ disk' = RecordOutcome(disk, Outcome(proc))
      BY <1>0, <2>2, OtherSteps
    <3>2. RecordOutcome(disk, Outcome(proc)).actions = disk.actions \cup {Outcome(proc)}
      BY <1>0, OutcomeFields
    <3> QED BY <3>1, <3>2, FS_AddElement DEF Finite
  <2> QED BY <2>1, <2>2
<1> QED BY <1>1, <1>2 DEF Finite

LEMMA DatedStep ==
  ASSUME IInv, GoodIsClean, Dated, [AnyNext]_vars
  PROVE  Dated'
<1>0. /\ TypeOK /\ Handshake /\ now \in Nat /\ seen \in Sightings /\ disk \in Ledger
      /\ proc \in Process
  BY DEF IInv, TypeOK
<1>1. \A v \in Charged : v.ts \in Nat /\ v.ts <= now
  BY <1>0, ChargedType
<1>2. CASE AnyEvaluation
  <2>1. PICK in \in InputSet, written \in BOOLEAN : \E d : Evaluated(in, d, written)
    BY <1>0, <1>2, TickEvaluates
  <2>2. PICK d : Evaluated(in, d, written)
    BY <2>1
  <2>3. CASE written
    <3> DEFINE w == WriteAhead(in, d)
    <3>1. /\ in.ledger = disk /\ in.now = now /\ now' = now /\ disk' = Advance(in, d)
          /\ Charged' = IF d.action \in Verbs THEN Charged \cup {w} ELSE Charged
          /\ proc'.pc # "idle" => proc'.intent = w
          /\ w.ts = now
          /\ d.action \in Verbs => ~Healthy(d.class)
          /\ seen'.clearedAt = IF Cleared(in, d.class) THEN now ELSE seen.clearedAt
      BY <1>0, <2>2, <2>3, EvaluatedFields
    <3>2. disk'.healthySince = CleanSince(in, d.class)
      BY <2>2, <3>1, AdvanceFields DEF Evaluated
    <3> HIDE DEF w
    <3>3. seen.clearedAt \in Nat /\ seen'.clearedAt <= now
      BY <1>0, <3>1 DEF Dated, Sightings
    <3>4. ASSUME disk'.healthySince # Null, NEW v \in Charged' PROVE v.ts <= disk'.healthySince
      <4>1. v \in Charged
        BY <3>1, <3>2, <3>4 DEF CleanSince
      <4>2. disk'.healthySince = IF disk.healthySince = Null THEN now ELSE disk.healthySince
        BY <3>1, <3>2, <3>4 DEF CleanSince
      <4> QED BY <1>1, <4>1, <4>2 DEF Dated
    <3> QED BY <3>1, <3>3, <3>4 DEF Dated
  <2>4. CASE ~written
    <3>1. UNCHANGED <<now, disk>> /\ seen'.clearedAt = seen.clearedAt /\ Charged' = Charged /\ proc'.pc = "idle"
      BY <1>0, <2>2, <2>4, EvaluatedFields
    <3> QED BY <3>1 DEF Dated
  <2> QED BY <2>3, <2>4
<1>3. CASE ~AnyEvaluation
  <2>1. /\ Charged' \subseteq Charged /\ now' \in Nat /\ now <= now'
        /\ seen'.clearedAt = seen.clearedAt
        /\ proc'.pc # "idle" => proc.pc # "idle" /\ proc'.intent = proc.intent
        /\ disk' = disk \/ disk' = RecordOutcome(disk, Outcome(proc))
    BY <1>0, <1>3, OtherSteps
  <2>2. disk'.healthySince = disk.healthySince
    BY <1>0, <2>1, OutcomeFields
  <2>3. seen'.clearedAt <= now'
    BY <1>0, <2>1 DEF Dated, Sightings
  <2> QED BY <2>1, <2>2, <2>3 DEF Dated
<1> QED BY <1>2, <1>3

LEMMA BudgetStep ==
  ASSUME IInv, GoodIsClean, Finite, Budget, [AnyNext]_vars
  PROVE  Budget'
<1>0. /\ TypeOK /\ Handshake /\ SentIsLogged /\ now \in Nat /\ Policy.dayS \in Nat
      /\ \A kind : DailyLimit(kind) \in Nat
      /\ \A kind : Spacing(kind) \in Nat /\ Spacing(kind) > 0
  BY PolicyAssumption, SpacingAssumption DEF IInv, TypeOK, PolicyShape, DailyLimit, Spacing
<1>1. Charged \subseteq PendingAction /\ \A v \in Charged : v.ts \in Nat /\ v.ts <= now
  BY <1>0, ChargedType
<1>2. CASE Charged' \subseteq Charged
  <2> SUFFICES ASSUME NEW v \in Charged'
               PROVE  Cardinality(InWindow(Charged', v)) <= DailyLimit(v.kind)
    BY DEF Budget, InWindow
  <2>1. InWindow(Charged', v) \subseteq InWindow(Charged, v) /\ InWindow(Charged, v) \subseteq Charged
    BY <1>2 DEF InWindow
  <2>2. IsFiniteSet(InWindow(Charged, v))
    BY <2>1, FS_Subset DEF Finite
  <2>3. Cardinality(InWindow(Charged', v)) <= Cardinality(InWindow(Charged, v))
        /\ IsFiniteSet(InWindow(Charged', v))
    BY <2>1, <2>2, FS_Subset
  <2>4. Cardinality(InWindow(Charged, v)) <= DailyLimit(v.kind)
    BY <1>2 DEF Budget
  <2> QED BY <1>0, <2>2, <2>3, <2>4, FS_CardinalityType
<1>3. ASSUME NEW in \in InputSet, NEW d, Evaluated(in, d, TRUE), d.action \in Verbs,
             Charged = sent \cup inflight, Charged' = Charged \cup {WriteAhead(in, d)}
      PROVE  Budget'
  <2> DEFINE w == WriteAhead(in, d)
             W == {u \in Charged : u.kind = d.action /\ now <= u.ts + Policy.dayS}
             A == {a \in ActionsOf(disk, d.action) : now <= a.ts + Policy.dayS}
  <2>1. /\ w.ts = now /\ w.kind = d.action /\ in.ledger = disk /\ in.now = now /\ disk.pending = Null
        /\ d = Judge(in)
    BY <1>0, <1>3, EvaluatedFields DEF Evaluated
  <2>2. IsFiniteSet(W) /\ IsFiniteSet(A) /\ Cardinality(W) <= Cardinality(A)
    BY <1>0, <1>3, <2>1, WindowInLedger DEF Finite
  <2>3. Cardinality(A) < DailyLimit(d.action)
    <3>1. ~RateLimited(in, d.action, DailyLimit(d.action))
      BY <1>3, <2>1, JudgeActs, VerbUnblocked
    <3>2. RateLimited(in, d.action, DailyLimit(d.action)) <=> Cardinality(A) >= DailyLimit(d.action)
      BY <2>1 DEF RateLimited
    <3> QED BY <1>0, <2>2, <3>1, <3>2, FS_CardinalityType
  <2>4. InWindow(Charged', w) = W \cup {w}
    BY <1>0, <1>1, <1>3, <2>1 DEF InWindow
  <2>5. \A u \in Charged : u.kind = d.action => u.ts + Spacing(u.kind) <= now
    BY <1>0, <1>3, DecidedIsSpaced
  <2> HIDE DEF w, W, A
  <2>6. Cardinality(InWindow(Charged', w)) <= DailyLimit(d.action)
    <3>1. /\ IsFiniteSet(W \cup {w})
          /\ Cardinality(W \cup {w}) = IF w \in W THEN Cardinality(W) ELSE Cardinality(W) + 1
      BY <2>2, FS_AddElement
    <3>2. Cardinality(W \cup {w}) \in Nat /\ Cardinality(W) \in Nat /\ Cardinality(A) \in Nat
      BY <2>2, <3>1, FS_CardinalityType
    <3>3. Cardinality(W \cup {w}) <= DailyLimit(d.action)
      BY <1>0, <2>2, <2>3, <3>1, <3>2
    <3> QED BY <2>4, <3>3
  <2>7. ASSUME NEW v \in Charged PROVE InWindow(Charged', v) = InWindow(Charged, v)
    <3>1. ~(w.kind = v.kind /\ w.ts <= v.ts)
      <4> SUFFICES ASSUME w.kind = v.kind, w.ts <= v.ts PROVE FALSE
        OBVIOUS
      <4>1. v.ts + Spacing(v.kind) <= now /\ v.ts \in Nat
        BY <1>1, <2>1, <2>5
      <4> QED BY <1>0, <2>1, <4>1
    <3> QED BY <1>3, <3>1 DEF InWindow, w
  <2>8. \A v \in Charged' : Cardinality(InWindow(Charged', v)) <= DailyLimit(v.kind)
    BY <1>3, <2>1, <2>6, <2>7 DEF Budget, w
  <2> QED BY <2>8 DEF Budget, InWindow
<1> QED BY <1>0, <1>2, <1>3, ChargedStep

LEMMA LatchStep ==
  ASSUME IInv, GoodIsClean, Finite, Dated, Latch, [AnyNext]_vars
  PROVE  Latch'
<1>0. /\ TypeOK /\ Handshake /\ now \in Nat /\ disk \in Ledger /\ disk.consecutive \in Nat
      /\ proc \in Process /\ seen \in Sightings /\ seen.clearedAt \in Nat
      /\ Policy.latchAfterActions \in Nat /\ Policy.latchClearAfterCleanS \in Nat
  BY PolicyAssumption DEF IInv, TypeOK, PolicyShape, Ledger, Sightings
<1>1. \A v \in Charged : v.ts \in Nat /\ v.ts <= now
  BY <1>0, ChargedType
<1> DEFINE S == Since(Charged, seen.clearedAt)
<1>2. IsFiniteSet(S) /\ Cardinality(S) \in Nat
  <2>1. S \subseteq Charged
    BY DEF Since
  <2> QED BY <2>1, FS_Subset, FS_CardinalityType DEF Finite
<1>3. ASSUME Charged' \subseteq Charged, seen'.clearedAt = seen.clearedAt, disk'.consecutive = disk.consecutive
      PROVE  Latch'
  <2>1. Since(Charged', seen'.clearedAt) \subseteq S
    BY <1>3 DEF Since
  <2>2. /\ IsFiniteSet(Since(Charged', seen'.clearedAt))
        /\ Cardinality(Since(Charged', seen'.clearedAt)) <= Cardinality(S)
    BY <1>2, <2>1, FS_Subset
  <2>3. Cardinality(Since(Charged', seen'.clearedAt)) \in Nat
    BY <2>2, FS_CardinalityType
  <2>4. Cardinality(Since(Charged', seen'.clearedAt)) <= disk'.consecutive
    BY <1>0, <1>2, <1>3, <2>2, <2>3 DEF Latch
  <2> QED BY <1>3, <2>4 DEF Latch, Since
<1>4. CASE AnyEvaluation
  <2>1. PICK in \in InputSet, written \in BOOLEAN : \E d : Evaluated(in, d, written)
    BY <1>0, <1>4, TickEvaluates
  <2>2. PICK d : Evaluated(in, d, written)
    BY <2>1
  <2> DEFINE w == WriteAhead(in, d)
  <2>3. CASE ~written
    BY <1>0, <1>3, <2>2, <2>3, EvaluatedFields
  <2>4. CASE written
    <3>1. /\ in.ledger = disk /\ in.now = now /\ now' = now /\ disk' = Advance(in, d)
          /\ Charged' = IF d.action \in Verbs THEN Charged \cup {w} ELSE Charged
          /\ w.ts = now
          /\ d.action \in Verbs => ~Healthy(d.class)
          /\ seen'.clearedAt = IF Cleared(in, d.class) THEN now ELSE seen.clearedAt
          /\ d = Judge(in)
      BY <1>0, <2>2, <2>4, EvaluatedFields DEF Evaluated
    <3>2. disk'.consecutive = IF d.action \in Verbs THEN disk.consecutive + 1
                              ELSE IF Cleared(in, d.class) THEN 0 ELSE disk.consecutive
      BY <2>2, <3>1, AdvanceFields DEF Evaluated
    <3> HIDE DEF w
    <3>3. CASE d.action \in Verbs
      <4>1. ~Cleared(in, d.class)
        BY <3>1, <3>3 DEF Cleared, CleanSince
      <4>2. disk.consecutive < Policy.latchAfterActions
        <5>1. ~(in.ledger.consecutive >= Policy.latchAfterActions)
          BY <3>1, <3>3, JudgeActs, VerbUnblocked, SharedUnblocked
        <5> QED BY <1>0, <3>1, <5>1
      <4>3. Since(Charged', seen'.clearedAt) \subseteq S \cup {w}
        BY <3>1, <3>3, <4>1 DEF Since
      <4>4. /\ IsFiniteSet(S \cup {w})
            /\ Cardinality(S \cup {w}) = IF w \in S THEN Cardinality(S) ELSE Cardinality(S) + 1
        BY <1>2, FS_AddElement
      <4>5. /\ IsFiniteSet(Since(Charged', seen'.clearedAt))
            /\ Cardinality(Since(Charged', seen'.clearedAt)) <= Cardinality(S \cup {w})
        BY <4>3, <4>4, FS_Subset
      <4>6. Cardinality(Since(Charged', seen'.clearedAt)) \in Nat /\ Cardinality(S \cup {w}) \in Nat
        BY <4>4, <4>5, FS_CardinalityType
      <4>7. Cardinality(Since(Charged', seen'.clearedAt)) <= disk'.consecutive
        BY <1>0, <1>2, <3>2, <3>3, <4>4, <4>5, <4>6 DEF Latch
      <4>8. disk'.consecutive <= Policy.latchAfterActions
        BY <1>0, <3>2, <3>3, <4>2
      <4> QED BY <4>7, <4>8 DEF Latch, Since
    <3>4. CASE d.action \notin Verbs /\ Cleared(in, d.class)
      <4>1. \A v \in Charged : v.ts < now
        <5>1. 0 < Policy.latchClearAfterCleanS
          BY RationAssumption
        <5>2. disk.healthySince # Null /\ now >= disk.healthySince + Policy.latchClearAfterCleanS
          BY <1>0, <3>1, <3>4, <5>1 DEF Cleared, CleanSince
        <5>3. disk.healthySince \in Nat
          BY <1>0, <5>2 DEF Ledger, OrNull
        <5> QED BY <1>0, <1>1, <5>1, <5>2, <5>3 DEF Dated
      <4>2. Since(Charged', seen'.clearedAt) = {}
        BY <1>0, <1>1, <3>1, <3>4, <4>1 DEF Since
      <4>3. Cardinality(Since(Charged', seen'.clearedAt)) = 0
        BY <4>2, FS_EmptySet
      <4> QED BY <1>0, <3>2, <3>4, <4>3 DEF Latch, Since
    <3>5. CASE d.action \notin Verbs /\ ~Cleared(in, d.class)
      BY <1>3, <3>1, <3>2, <3>5
    <3> QED BY <3>3, <3>4, <3>5
  <2> QED BY <2>3, <2>4
<1>5. CASE ~AnyEvaluation
  <2>1. /\ Charged' \subseteq Charged /\ seen'.clearedAt = seen.clearedAt
        /\ \/ disk' = disk
           \/ /\ proc.pc = "closing" /\ proc'.pc = "idle" /\ UNCHANGED <<sent, inflight>>
              /\ disk' = RecordOutcome(disk, Outcome(proc))
    BY <1>0, <1>5, OtherSteps
  <2>2. CASE disk' = disk
    BY <1>3, <2>1, <2>2
  <2>3. CASE proc.pc = "closing" /\ proc'.pc = "idle" /\ UNCHANGED <<sent, inflight>>
             /\ disk' = RecordOutcome(disk, Outcome(proc))
    <3>1. disk'.consecutive = IF Outcome(proc).outcome # "not_executed" \/ disk.consecutive = 0
                              THEN disk.consecutive ELSE disk.consecutive - 1
      BY <1>0, <2>3, OutcomeFields
    <3>2. CASE Outcome(proc).outcome # "not_executed"
      BY <1>3, <2>1, <3>1, <3>2
    <3>3. CASE Outcome(proc).outcome = "not_executed"
      <4> DEFINE i == proc.intent
      <4>1. proc.answer = "not_executed"
        BY <3>3 DEF Outcome
      <4>2. i \notin sent \cup inflight
        BY <1>0, <2>3, <4>1 DEF Handshake
      <4>3. i \in Charged /\ Charged' = Charged \ {i}
        BY <2>3, <4>2 DEF Charged
      <4>4. i \in S /\ Since(Charged', seen'.clearedAt) = S \ {i}
        BY <2>1, <2>3, <4>3 DEF Since, Dated
      <4>5. /\ Cardinality(S \ {i}) = Cardinality(S) - 1 /\ S # {}
        BY <1>2, <4>4, FS_RemoveElement
      <4>6. Cardinality(S) # 0
        BY <1>2, <4>5, FS_EmptySet
      <4>7. disk.consecutive # 0 /\ Cardinality(S \ {i}) <= disk.consecutive - 1
        BY <1>0, <1>2, <4>5, <4>6 DEF Latch
      <4>8. Cardinality(Since(Charged', seen'.clearedAt)) <= disk'.consecutive
        BY <3>1, <3>3, <4>4, <4>7
      <4>9. disk'.consecutive <= Policy.latchAfterActions
        BY <1>0, <3>1, <3>3, <4>7 DEF Latch
      <4> QED BY <4>8, <4>9 DEF Latch, Since
    <3> QED BY <3>2, <3>3
  <2> QED BY <2>1, <2>2, <2>3
<1> QED BY <1>4, <1>5

LEMMA CoolStep ==
  ASSUME IInv, GoodIsClean, Dated, Cool, [AnyNext]_vars
  PROVE  Cool'
<1>0. /\ TypeOK /\ Handshake /\ SentIsLogged /\ now \in Nat /\ disk \in Ledger /\ disk # Corrupt
      /\ seen \in Sightings /\ seen.acted \in OrNull(Nat) /\ disk.cooldownUntil \in OrNull(Nat)
      /\ Policy.postActionCooldownS \in Nat /\ Policy.recoverAfterS \in Nat
  BY PolicyAssumption, WatchdogAssumption DEF IInv, TypeOK, PolicyShape, Ledger, Sightings
<1>1. \A v \in Charged : v.ts \in Nat /\ v.ts <= now
  BY <1>0, ChargedType
<1>2. ASSUME Charged' \subseteq Charged, seen'.acted = seen.acted, now' \in Nat, now <= now',
             disk'.cooldownUntil = disk.cooldownUntil
      PROVE  Cool'
  <2> SUFFICES ASSUME seen.acted # Null PROVE Cool'
    BY <1>2 DEF Cool
  <2>1. seen.acted \in Nat /\ seen.acted <= now'
    BY <1>0, <1>2 DEF Cool, OrNull
  <2> QED BY <1>2, <2>1 DEF Cool
<1>3. CASE AnyEvaluation
  <2>1. PICK in \in InputSet, written \in BOOLEAN : \E d : Evaluated(in, d, written)
    BY <1>0, <1>3, TickEvaluates
  <2>2. PICK d : Evaluated(in, d, written)
    BY <2>1
  <2> DEFINE w == WriteAhead(in, d)
             Torn == d.state = "recovered"
                     /\ \E v \in sent : v.key = disk.t0 /\ now <= v.ts + Policy.retentionS
  <2>3. CASE ~written
    BY <1>0, <1>2, <2>2, <2>3, EvaluatedFields
  <2>4. CASE written
    <3>1. /\ in.ledger = disk /\ in.now = now /\ now' = now /\ disk' = Advance(in, d)
          /\ Charged' = IF d.action \in Verbs THEN Charged \cup {w} ELSE Charged
          /\ w.ts = now
          /\ d.action \in Verbs => ~Healthy(d.class) /\ d.state # "recovered"
          /\ seen'.acted = IF Torn THEN now ELSE seen.acted
          /\ Charged = sent \cup inflight
          /\ d = Judge(in)
      BY <1>0, <2>2, <2>4, EvaluatedFields DEF Evaluated
    <3>2. disk'.cooldownUntil = IF Recovers(in, d) /\ ActedIn(disk)
                                THEN now + Policy.postActionCooldownS ELSE disk.cooldownUntil
      BY <2>2, <3>1, AdvanceFields DEF Evaluated
    <3> HIDE DEF w
    <3>3. CASE Torn
      <4>1. /\ disk.pending = Null /\ Healthy(d.class)
            /\ now >= (IF disk.healthySince = Null THEN now ELSE disk.healthySince) + Policy.recoverAfterS
        BY <3>1, <3>3, JudgeRecovers
      <4>2. ActedIn(disk)
        <5>1. PICK v \in sent : v.key = disk.t0 /\ now <= v.ts + Policy.retentionS
          BY <3>3
        <5>2. AnswersFor(disk, v) /\ v # Null
          BY <1>0, <5>1, NullAssumption DEF SentIsLogged, TypeOK
        <5> QED BY <4>1, <5>1, <5>2 DEF AnswersFor, ActedIn
      <4>3. disk'.cooldownUntil = now + Policy.postActionCooldownS
        BY <3>1, <3>2, <3>3, <4>1, <4>2 DEF Recovers
      <4>4. \A v \in Charged : v.ts < now
        <5>1. 0 < Policy.recoverAfterS
          BY RationAssumption
        <5>2. disk.healthySince # Null /\ now >= disk.healthySince + Policy.recoverAfterS
          BY <1>0, <4>1, <5>1
        <5>3. disk.healthySince \in Nat
          BY <1>0, <5>2 DEF Ledger, OrNull
        <5> QED BY <1>0, <1>1, <5>1, <5>2, <5>3 DEF Dated
      <4>5. Charged' = Charged /\ seen'.acted = now
        BY <3>1, <3>3
      <4>6. \A v \in Charged' : ~(seen'.acted <= v.ts)
        BY <1>0, <1>1, <4>4, <4>5
      <4>7. disk'.cooldownUntil # Null
        BY <1>0, <4>3, NullAssumption
      <4>8. seen'.acted <= now' /\ disk'.cooldownUntil >= seen'.acted + Policy.postActionCooldownS
        BY <1>0, <3>1, <4>3, <4>5
      <4> QED BY <4>6, <4>7, <4>8 DEF Cool
    <3>4. CASE ~Torn
      <4> SUFFICES ASSUME seen.acted # Null PROVE Cool'
        BY <3>1, <3>4 DEF Cool
      <4>1. /\ seen'.acted = seen.acted /\ seen.acted \in Nat /\ seen.acted <= now
            /\ disk.cooldownUntil \in Nat
            /\ disk.cooldownUntil >= seen.acted + Policy.postActionCooldownS
        BY <1>0, <3>1, <3>4 DEF Cool, OrNull
      <4>2. /\ disk'.cooldownUntil \in Nat
            /\ disk'.cooldownUntil >= seen.acted + Policy.postActionCooldownS
        BY <1>0, <3>2, <4>1
      <4>3. ASSUME NEW v \in Charged'
            PROVE  ~(seen.acted <= v.ts /\ v.ts < seen.acted + Policy.postActionCooldownS)
        <5>1. CASE v \in Charged
          BY <5>1 DEF Cool
        <5>2. CASE v \notin Charged
          <6>1. d.action \in Verbs /\ v.ts = now
            BY <3>1, <5>2
          <6>2. ~(in.ledger.cooldownUntil # Null /\ in.now < in.ledger.cooldownUntil)
            BY <3>1, <6>1, JudgeActs, VerbUnblocked, SharedUnblocked
          <6> QED BY <1>0, <3>1, <4>1, <6>1, <6>2, NullAssumption
        <5> QED BY <5>1, <5>2
      <4> QED BY <3>1, <4>1, <4>2, <4>3, NullAssumption DEF Cool
    <3> QED BY <3>3, <3>4
  <2> QED BY <2>3, <2>4
<1>4. CASE ~AnyEvaluation
  <2>1. /\ Charged' \subseteq Charged /\ now' \in Nat /\ now <= now' /\ seen'.acted = seen.acted
        /\ disk' = disk \/ disk' = RecordOutcome(disk, Outcome(proc))
    BY <1>0, <1>4, OtherSteps
  <2>2. disk'.cooldownUntil = disk.cooldownUntil
    BY <1>0, <2>1, OutcomeFields
  <2> QED BY <1>2, <2>1, <2>2
<1> QED BY <1>3, <1>4

\* In every window of a day the line is touched no more often than the budget, between two
\* clean spells no more often than the latch allows, and not within the cooldown of an outage
\* it was touched in: crashes, lost answers and failed writes notwithstanding, for whatever
\* reached the router is charged until the ledger knows better (collector/watchdog-ladder.ts
\* `sharedBlockers`, `advance`, `recordOutcome`; collector/watchdog.ts `perform`).
THEOREM RationKept == Spec => []RationHeld
<1>1. Init => GoodIsClean
  BY DEF Init, GoodIsClean, EmptyLedger, NothingSeen
<1>2. IInv /\ GoodIsClean /\ Ration /\ [Next]_vars => GoodIsClean' /\ Ration'
  BY NextIsAny, GoodStep, FiniteStep, DatedStep, BudgetStep, LatchStep, CoolStep DEF Ration
<1>3. IInv /\ Ration => RationHeld
  <2> SUFFICES ASSUME IInv, Ration PROVE RationHeld
    OBVIOUS
  <2>1. sent \subseteq Charged /\ IsFiniteSet(Charged)
    BY DEF Charged, Ration, Finite
  <2>2. ASSUME NEW T, NEW S, T \subseteq S, S \subseteq Charged, NEW limit, Cardinality(S) <= limit,
               limit \in Nat
        PROVE  Cardinality(T) <= limit
    <3>1. IsFiniteSet(S) /\ IsFiniteSet(T)
      BY <2>1, <2>2, FS_Subset
    <3>2. Cardinality(T) <= Cardinality(S) /\ Cardinality(T) \in Nat /\ Cardinality(S) \in Nat
      BY <2>2, <3>1, FS_Subset, FS_CardinalityType
    <3> QED BY <2>2, <3>2
  <2>3. ASSUME NEW v \in sent
        PROVE  Cardinality({u \in sent : u.kind = v.kind /\ u.ts <= v.ts /\ v.ts <= u.ts + Policy.dayS})
                 <= DailyLimit(v.kind)
    <3> DEFINE T == {u \in sent : u.kind = v.kind /\ u.ts <= v.ts /\ v.ts <= u.ts + Policy.dayS}
    <3>1. T \subseteq InWindow(Charged, v) /\ InWindow(Charged, v) \subseteq Charged
      BY <2>1 DEF InWindow
    <3>2. Cardinality(InWindow(Charged, v)) <= DailyLimit(v.kind) /\ DailyLimit(v.kind) \in Nat
      BY <2>1, PolicyAssumption DEF Ration, Budget, DailyLimit, PolicyShape
    <3> HIDE DEF T
    <3>3. Cardinality(T) <= DailyLimit(v.kind)
      BY <2>2, <3>1, <3>2
    <3> QED BY <3>3 DEF T
  <2>4. SentWithinLatch
    <3> DEFINE T == {v \in sent : v.ts >= seen.clearedAt}
               S == Since(Charged, seen.clearedAt)
    <3>1. T \subseteq S /\ S \subseteq Charged
      BY <2>1 DEF Since
    <3>2. Cardinality(S) <= Policy.latchAfterActions /\ Policy.latchAfterActions \in Nat
      <4>1. IsFiniteSet(S)
        BY <2>1, <3>1, FS_Subset
      <4>2. /\ Cardinality(S) \in Nat /\ Policy.latchAfterActions \in Nat /\ disk.consecutive \in Nat
            /\ Cardinality(S) <= disk.consecutive /\ disk.consecutive <= Policy.latchAfterActions
        BY <4>1, FS_CardinalityType, PolicyAssumption DEF Ration, Latch, PolicyShape, IInv, TypeOK, Ledger
      <4> QED BY <4>2
    <3> HIDE DEF T, S
    <3>3. Cardinality(T) <= Policy.latchAfterActions
      BY <2>2, <3>1, <3>2
    <3> QED BY <3>3 DEF SentWithinLatch, T
  <2>5. CooldownHeld
    BY <2>1 DEF CooldownHeld, Ration, Cool
  <2> QED BY <2>3, <2>4, <2>5 DEF RationHeld, SentWithinBudget
<1> QED BY <1>1, <1>2, <1>3, RationInit, Inductive, PTL DEF Spec

-----------------------------------------------------------------------------
(* The steps of the reporting process are steps of the watchdog. *)

RepShape ==
  /\ rep = [pc |-> rep.pc, at |-> rep.at, said |-> rep.said, lastNotify |-> rep.lastNotify,
            lastReported |-> rep.lastReported, todo |-> rep.todo]
  /\ rep.pc \in {"idle", "performing", "report", "push", "drain", "post"}

LEMMA CanRecordEvidence ==
  ASSUME NEW e \in Evidence
  PROVE  LET f == [e EXCEPT !.canRecord = CanRecord]
         IN f \in EvidenceShape /\ f.canRecord = CanRecord
<1>1. e \in EvidenceShape
  BY WatchdogAssumption
<1>2. CanRecord \in BOOLEAN
  BY DEF CanRecord
<1> QED BY <1>1, <1>2 DEF EvidenceShape

LEMMA ReportIsWatchdog == ASSUME [ReportNext]_allVars PROVE [AnyNext]_vars
<1>1. ASSUME NEW e \in Evidence, NEW eventsRead \in May("events_unread"),
             NEW written \in May("write_error"), ReportedTick(e, eventsRead, written)
      PROVE  AnyEvaluation
  <2> DEFINE f == [e EXCEPT !.canRecord = CanRecord]
  <2>1. f \in EvidenceShape
    BY CanRecordEvidence
  <2>2. Tick(f, eventsRead, written)
    BY <1>1, Zenon DEF ReportedTick
  <2> HIDE DEF f
  <2> QED BY <2>1, <2>2 DEF AnyEvaluation
<1>2. CASE ReportedEvaluation
  BY <1>1, <1>2 DEF ReportedEvaluation, AnyNext
<1>3. CASE ReportedPerforming
  BY <1>3 DEF ReportedPerforming, ReportedClose, Performing, AnyNext
<1>4. CASE Reporting
  BY <1>4 DEF Reporting, Report, BeginDrain, Push, Post
<1>5. CASE ReportedElapse \/ ReportedCrash
  BY <1>5 DEF ReportedElapse, ReportedCrash, AnyNext
<1>6. CASE (Respond \/ Restart \/ Intervene \/ TouchDisarm) /\ UNCHANGED reportVars
  BY <1>6 DEF AnyNext
<1>7. CASE UNCHANGED allVars
  BY <1>7 DEF allVars
<1> QED BY <1>2, <1>3, <1>4, <1>5, <1>6, <1>7 DEF ReportNext

\* A verb is asked for only while its event can be written down.
LEMMA ActsRecordable ==
  ASSUME NEW in, Judge(in).action \in Verbs
  PROVE  in.canRecord
<1>1. SharedBlockers(in, Classify(in)) = {}
  BY JudgeActs DEF BlockersOf
<1>2. If(~in.canRecord, "cannot_record") = {}
  BY <1>1 DEF SharedBlockers
<1> QED BY <1>2, IfEmpty

\* A call for help asks for no verb.
LEMMA CallsAct ==
  ASSUME NEW in, CallsForHelp(Told(Judge(in)))
  PROVE  Judge(in).action \notin Verbs
<1> DEFINE class == Classify(in)
           t0 == LadderStart(in)
           OK(d) == d.state = "latched" => d.action \notin Verbs
<1>1. \A state, why, u, r :
        /\ OK(Standing(in, class, state, why))
        /\ OK([Standing(in, class, state, why) EXCEPT !.t0 = u])
        /\ OK([Standing(in, class, state, why) EXCEPT !.t0 = u, !.rung = r])
  BY DEF Standing, Verbs
<1>2. \A kind, blockers : OK(Due(in, class, t0, kind, blockers))
  BY DEF Due
<1>3. OK(WhenRebootDue(in, class, t0)) /\ OK(WhenExhausted(in, class, t0))
  BY <1>2 DEF WhenRebootDue, WhenExhausted
<1> HIDE DEF class, t0
<1>4. OK(WhenDown(in, class))
  BY <1>1, <1>2, <1>3 DEF WhenDown, t0
<1>5. OK(Judge(in))
  BY <1>1, <1>4 DEF Judge, Evaluate, WhenHealthy, class
<1> QED BY <1>5 DEF CallsForHelp, Told, Verbs

-----------------------------------------------------------------------------
(* The inductive invariant. *)

IsSeq(s) == s \in Seq(ToSet(s))

\* While an action is performed its event has a place in the spool, under the time of the
\* decision.
ActsOnRecord ==
  proc.pc # "idle" => rep.pc = "performing" /\ rep.at = proc.intent.ts /\ Taken(events)

\* A drain holds what the record lacks of the spool it read.
Draining ==
  rep.pc = "post" =>
    IsSeq(rep.todo) /\ rep.todo # <<>> /\ noted \subseteq ToSet(rep.todo) \cup recorded
Pushing ==
  rep.pc = "push" => IsSeq(rep.todo) /\ ToSet(notes) \subseteq ToSet(rep.todo) \cup heard

\* The tick that calls for help is the one that is about to push the call.
Calling(t) == rep.at = t /\ rep.pc \in {"report", "push"} /\ CallsForHelp(rep.said)
AlarmsHeld ==
  \A t \in alarms :
    \/ t \in cut \cup refused \/ Calling(t)
    \/ \E n \in heard \cup ToSet(notes) : n.ts = t /\ n.status = "down"

ReportInv ==
  /\ RepShape /\ IsSeq(events) /\ IsSeq(notes)
  /\ ActsOnRecord /\ Draining /\ Pushing /\ RecordTold /\ AlarmsHeld

LEMMA SpooledFacts ==
  ASSUME NEW s, IsSeq(s), NEW line
  PROVE  /\ IsSeq(Spooled(s, line)) /\ ToSet(s) \subseteq ToSet(Spooled(s, line))
         /\ Taken(s) => line \in ToSet(Spooled(s, line))
<1>1. CASE Taken(s)
  <2> DEFINE S == ToSet(s) \cup {line}
  <2>1. s \in Seq(S) /\ line \in S
    BY SeqMonotonic DEF IsSeq
  <2> HIDE DEF S
  <2>2. Append(s, line) \in Seq(S) /\ ToSet(Append(s, line)) = ToSet(s) \cup {line}
    BY <2>1, AppendFacts
  <2> QED BY <1>1, <2>2 DEF IsSeq, Spooled, S
<1>2. CASE ~Taken(s)
  BY <1>2 DEF Spooled
<1> QED BY <1>1, <1>2

LEMMA TailSeq ==
  ASSUME NEW s, IsSeq(s), s # <<>>
  PROVE  /\ IsSeq(Tail(s)) /\ ToSet(s) = {Head(s)} \cup ToSet(Tail(s))
         /\ Len(s) = 1 => ToSet(s) = {Head(s)}
         /\ Len(s) # 1 => Tail(s) # <<>>
<1>1. /\ Tail(s) \in Seq(ToSet(s)) /\ Len(s) \in Nat \ {0} /\ Len(Tail(s)) = Len(s) - 1
      /\ ToSet(s) = {Head(s)} \cup ToSet(Tail(s))
  BY TailFacts DEF IsSeq
<1>2. IsSeq(Tail(s))
  <2>1. \A k \in 1..Len(Tail(s)) : Tail(s)[k] \in ToSet(Tail(s))
    BY <1>1, SeqFacts
  <2>2. Tail(s) = [k \in 1..Len(Tail(s)) |-> Tail(s)[k]]
    BY <1>1, LenProperties
  <2> DEFINE t == Tail(s)
  <2>3. Len(t) \in Nat
    BY <1>1, LenProperties
  <2> HIDE DEF t
  <2>4. t \in [1..Len(t) -> ToSet(t)]
    BY <2>1, <2>2 DEF t
  <2> QED BY <2>3, <2>4, SeqDef DEF IsSeq, t
<1>3. Tail(s) = <<>> <=> Len(s) = 1
  <2>1. Tail(s) = <<>> <=> Len(Tail(s)) = 0
    BY <1>1, EmptySeq
  <2> QED BY <1>1, <2>1
<1> QED BY <1>1, <1>2, <1>3, EmptyFacts

\* The steps of the world and of the call leave the ledger alone, and the action where it is.
LEMMA Undisturbed ==
  ASSUME TypeOK,
         \/ Request \/ \E arrived \in BOOLEAN : NoAnswer(arrived)
         \/ Elapse \/ Respond \/ Restart \/ Intervene \/ TouchDisarm
  PROVE  disk' = disk /\ (proc'.pc # "idle" => proc.pc # "idle" /\ proc'.intent = proc.intent)
<1>0. proc \in Process
  BY DEF TypeOK
<1>1. disk' = disk
  BY DEF Request, NoAnswer, Elapse, Respond, Decline, Execute, Throw, Answer, Restart, Intervene, TouchDisarm
<1>2. CASE Request \/ (\E arrived \in BOOLEAN : NoAnswer(arrived)) \/ Elapse \/ Intervene \/ TouchDisarm
  BY <1>0, <1>1, <1>2 DEF Request, NoAnswer, Elapse, Intervene, TouchDisarm, Process
<1>3. CASE Respond
  <2>1. PICK r \in inflight, outcome \in Outcomes : Answer(r, outcome)
    BY <1>3 DEF Respond, Decline, Execute, Throw, Outcomes
  <2> QED BY <1>0, <1>1, <2>1 DEF Answer, Process
<1>4. CASE Restart
  <2>1. Started(now).pc = "idle"
    BY DEF Started, Dead
  <2> QED BY <1>1, <1>4, <2>1 DEF Restart
<1> QED BY <1>2, <1>3, <1>4

\* What is left to show of a step once it is known where the process stands and what it holds.
LEMMA TickStep ==
  ASSUME TypeOK, ReportInv, NEW e \in Evidence, NEW eventsRead \in May("events_unread"),
         NEW written \in BOOLEAN, ReportedTick(e, eventsRead, written)
  PROVE  ReportInv'
<1> DEFINE f == [e EXCEPT !.canRecord = CanRecord]
           in == Input(f, eventsRead)
           d == Judge(in)
           pc == IF d.action \in Verbs THEN "performing" ELSE "report"
<1>1. /\ rep.pc = "idle" /\ Tick(f, eventsRead, written)
      /\ rep' = IF ~written THEN rep ELSE [rep EXCEPT !.pc = pc, !.at = now, !.said = Told(d)]
      /\ alarms' = IF written /\ CallsForHelp(Told(d)) THEN alarms \cup {now} ELSE alarms
      /\ cut' = IF written THEN cut ELSE cut \cup {now}
      /\ UNCHANGED <<events, notes, recorded, heard, noted, refused>>
  BY Zenon DEF ReportedTick
<1>2. f \in EvidenceShape /\ f.canRecord = CanRecord
  BY CanRecordEvidence
<1>3. in \in InputSet /\ Evaluated(in, d, written)
  BY <1>1, <1>2, TickEvaluated
<1>4. d.action \in Verbs => Taken(events)
  <2>1. in.canRecord = CanRecord
    BY <1>2 DEF Input, Gather
  <2>2. d.action \in Verbs => in.canRecord
    BY ActsRecordable
  <2> QED BY <2>1, <2>2 DEF CanRecord, Taken
<1>5. CallsForHelp(Told(d)) => d.action \notin Verbs
  BY CallsAct
<1>6. /\ proc \in Process /\ proc.pc = "idle"
      /\ proc'.pc = IF written /\ d.action \in Verbs THEN "written" ELSE "idle"
      /\ written /\ d.action \in Verbs => proc'.intent = WriteAhead(in, d)
      /\ WriteAhead(in, d).ts = now
      /\ disk'.actions \subseteq disk.actions
  <2>1. disk' = IF written THEN Advance(in, d) ELSE disk
    BY <1>3 DEF Evaluated
  <2>2. Advance(in, d).actions \subseteq in.ledger.actions /\ in.ledger = disk
    BY <1>3, AdvanceFields DEF Evaluated
  <2> QED BY <1>3, <2>1, <2>2 DEF Evaluated, TypeOK, Process, WriteAhead
<1> HIDE DEF f, in, d
<1>7. CASE written
  <2>1. rep' = [rep EXCEPT !.pc = pc, !.at = now, !.said = Told(d)]
    BY <1>1, <1>7
  <2> HIDE DEF pc
  <2>2. /\ rep' = [pc |-> pc, at |-> now, said |-> Told(d), lastNotify |-> rep.lastNotify,
                   lastReported |-> rep.lastReported, todo |-> rep.todo]
    BY <2>1 DEF ReportInv, RepShape
  <2>3. rep'.pc = pc /\ rep'.at = now /\ rep'.said = Told(d) /\ pc \in {"performing", "report"}
    BY <2>2 DEF pc
  <2>4. RepShape'
    BY <2>2, <2>3 DEF RepShape
  <2>5. ActsOnRecord'
    BY <1>1, <1>4, <1>6, <2>3 DEF ActsOnRecord, Taken, pc
  <2>6. AlarmsHeld'
    <3> SUFFICES ASSUME NEW t \in alarms'
                 PROVE  \/ t \in cut' \cup refused' \/ Calling(t)'
                        \/ \E n \in heard' \cup ToSet(notes') : n.ts = t /\ n.status = "down"
      BY DEF AlarmsHeld, Calling
    <3>1. CASE t \in alarms
      BY <1>1, <1>7, <3>1 DEF ReportInv, AlarmsHeld, Calling
    <3>2. CASE t \notin alarms
      <4>1. t = now /\ CallsForHelp(Told(d))
        BY <1>1, <3>2
      <4> QED BY <1>5, <2>3, <4>1 DEF Calling, pc
    <3> QED BY <3>1, <3>2
  <2>7. RecordTold'
    BY <1>1, <1>6, <1>7 DEF ReportInv, RecordTold, EventsKept, ActionsAttributed
  <2> QED BY <1>1, <2>3, <2>4, <2>5, <2>6, <2>7 DEF ReportInv, Draining, Pushing, IsSeq
<1>8. CASE ~written
  <2>1. /\ rep' = rep /\ alarms' = alarms /\ cut' = cut \cup {now}
        /\ proc'.pc = "idle"
    BY <1>1, <1>6, <1>8
  <2>2. RepShape' /\ ActsOnRecord' /\ Draining' /\ Pushing'
    BY <1>1, <2>1 DEF ReportInv, RepShape, ActsOnRecord, Draining, Pushing
  <2>3. AlarmsHeld'
    BY <1>1, <2>1 DEF ReportInv, AlarmsHeld, Calling
  <2>4. RecordTold'
    BY <1>1, <1>6, <2>1 DEF ReportInv, RecordTold, EventsKept, ActionsAttributed
  <2> QED BY <1>1, <2>2, <2>3, <2>4 DEF ReportInv, IsSeq
<1> QED BY <1>7, <1>8

\* An event is written down in the spool, and the report goes on.
LEMMA RecordEventKeeps ==
  ASSUME IsSeq(events), EventsKept, NEW event, RecordEvent(event), UNCHANGED recorded
  PROVE  /\ IsSeq(events') /\ EventsKept' /\ noted \subseteq noted'
         /\ Taken(events) => event \in noted'
<1>1. events' = Spooled(events, event)
      /\ noted' = IF Taken(events) THEN noted \cup {event} ELSE noted
  BY DEF RecordEvent
<1>2. /\ IsSeq(Spooled(events, event)) /\ ToSet(events) \subseteq ToSet(Spooled(events, event))
      /\ Taken(events) => event \in ToSet(Spooled(events, event))
  BY SpooledFacts
<1>3. IsSeq(events')
  BY <1>1, <1>2 DEF IsSeq
<1>4. EventsKept'
  BY <1>1, <1>2 DEF EventsKept
<1> QED BY <1>1, <1>3, <1>4

RepFields == {"pc", "at", "said", "lastNotify", "lastReported", "todo"}

\* What the beginning of a notification leaves behind: the backlog to be pushed, or, without
\* the URL to push it to, the tick among those that were not told of.
Addressed(at, said, reported, todo) ==
  /\ rep' = [pc |-> "push", at |-> at, said |-> said, lastNotify |-> at, lastReported |-> reported, todo |-> notes]
  /\ refused' = refused
Unaddressed(at, said, reported, todo) ==
  /\ rep' = [pc |-> "drain", at |-> at, said |-> said, lastNotify |-> at, lastReported |-> reported, todo |-> todo]
  /\ refused' = refused \cup {at}

LEMMA BeginNotifyFields ==
  ASSUME NEW r, DOMAIN r = RepFields, NEW addressed, BeginNotify(r, addressed)
  PROVE  \/ Addressed(r.at, r.said, r.lastReported, r.todo)
         \/ Unaddressed(r.at, r.said, r.lastReported, r.todo)
<1>1. PICK z : z = r.at
  OBVIOUS
<1>2. CASE addressed
  <2>1. rep' = [r EXCEPT !.pc = "push", !.lastNotify = z, !.todo = notes] /\ refused' = refused
    BY <1>1, <1>2 DEF BeginNotify
  <2>2. rep' = [pc |-> "push", at |-> r.at, said |-> r.said, lastNotify |-> z,
                lastReported |-> r.lastReported, todo |-> notes]
    BY <2>1 DEF RepFields
  <2> QED BY <1>1, <2>1, <2>2 DEF Addressed
<1>3. CASE ~addressed
  <2>1. rep' = [r EXCEPT !.pc = "drain", !.lastNotify = z] /\ refused' = refused \cup {r.at}
    BY <1>1, <1>3 DEF BeginNotify
  <2>2. rep' = [pc |-> "drain", at |-> r.at, said |-> r.said, lastNotify |-> z,
                lastReported |-> r.lastReported, todo |-> r.todo]
    BY <2>1 DEF RepFields
  <2> QED BY <1>1, <2>1, <2>2 DEF Unaddressed
<1> QED BY <1>2, <1>3

LEMMA CloseStep ==
  ASSUME TypeOK, ReportInv, NEW written \in BOOLEAN, NEW addressed \in BOOLEAN, ReportedClose(written, addressed)
  PROVE  ReportInv'
<1>1. /\ proc.up /\ proc.pc = "closing" /\ proc \in Process
      /\ disk' = IF written THEN RecordOutcome(disk, Outcome(proc)) ELSE disk
      /\ UNCHANGED <<notes, recorded, heard, alarms>>
      /\ proc'.pc = "idle"
  BY DEF ReportedClose, Close, TypeOK, Process
<1>2. rep.pc = "performing" /\ rep.at = proc.intent.ts /\ Taken(events)
  BY <1>1 DEF ReportInv, ActsOnRecord
<1>3. ActsOnRecord'
  BY <1>1 DEF ActsOnRecord
<1>4. CASE written
  <2> DEFINE event == [ts |-> rep.at, action |-> rep.said.action, kind |-> EventKind(proc.answer)]
  <2>1. RecordEvent(event) /\ BeginNotify(rep, addressed) /\ cut' = cut
    BY <1>4 DEF ReportedClose
  <2>2. IsSeq(events') /\ EventsKept' /\ noted \subseteq noted' /\ event \in noted'
    <3> HIDE DEF event
    <3> QED BY <1>1, <1>2, <2>1, RecordEventKeeps DEF ReportInv, RecordTold
  <2>3. \/ Addressed(rep.at, rep.said, rep.lastReported, rep.todo)
        \/ Unaddressed(rep.at, rep.said, rep.lastReported, rep.todo)
    <3>1. DOMAIN rep = RepFields
      BY DEF ReportInv, RepShape, RepFields
    <3> QED BY <2>1, <3>1, BeginNotifyFields
  <2>4. (rep'.pc = "drain" \/ (rep'.pc = "push" /\ rep'.todo = notes)) /\ refused \subseteq refused'
    BY <2>3 DEF Addressed, Unaddressed
  <2>5. RepShape' /\ Draining' /\ Pushing'
    <3>1. RepShape'
      BY <2>3 DEF RepShape, Addressed, Unaddressed
    <3> QED BY <1>1, <2>4, <3>1 DEF Draining, Pushing, ReportInv, IsSeq
  <2>6. ActionsAttributed'
    <3> SUFFICES ASSUME NEW a \in disk'.actions, a.outcome # "not_executed", a.ts \notin cut
                 PROVE  \E ev \in noted' : ev.ts = a.ts /\ ev.kind = "intervention"
      BY <2>1 DEF ActionsAttributed
    <3>1. disk'.actions = disk.actions \cup {Outcome(proc)}
      BY <1>1, <1>4, OutcomeFields
    <3>2. CASE a \in disk.actions
      BY <2>2, <3>2 DEF ReportInv, RecordTold, ActionsAttributed
    <3>3. CASE a = Outcome(proc)
      <4>1. a.ts = rep.at /\ a.outcome = proc.answer
        BY <1>2, <3>3 DEF Outcome
      <4>2. event.ts = a.ts /\ event.kind = "intervention"
        BY <4>1 DEF EventKind
      <4> QED BY <2>2, <4>2
    <3> QED BY <3>1, <3>2, <3>3
  <2>7. AlarmsHeld'
    BY <1>1, <1>2, <2>1, <2>4 DEF ReportInv, AlarmsHeld, Calling
  <2> QED BY <1>1, <1>3, <2>2, <2>5, <2>6, <2>7 DEF ReportInv, RecordTold, IsSeq
<1>5. CASE ~written
  <2>1. /\ rep' = [rep EXCEPT !.pc = "idle"] /\ cut' = cut \cup {rep.at}
        /\ UNCHANGED <<events, noted, refused>> /\ disk' = disk
    BY <1>1, <1>5 DEF ReportedClose
  <2>2. rep' = [pc |-> "idle", at |-> rep.at, said |-> rep.said, lastNotify |-> rep.lastNotify,
                lastReported |-> rep.lastReported, todo |-> rep.todo]
    BY <2>1 DEF ReportInv, RepShape
  <2>3. RepShape' /\ Draining' /\ Pushing'
    BY <2>2 DEF RepShape, Draining, Pushing
  <2>4. RecordTold'
    BY <1>1, <2>1 DEF ReportInv, RecordTold, EventsKept, ActionsAttributed
  <2>5. AlarmsHeld'
    BY <1>1, <1>2, <2>1 DEF ReportInv, AlarmsHeld, Calling
  <2> QED BY <1>1, <1>3, <2>1, <2>3, <2>4, <2>5 DEF ReportInv, IsSeq
<1> QED BY <1>4, <1>5

\* The steps of the report itself, with the watchdog at rest.
LEMMA ReportStep == ASSUME ReportInv, NEW addressed \in BOOLEAN, Report(addressed) PROVE ReportInv'
<1> DEFINE said == rep.said
           event == [ts |-> rep.at, action |-> IF said.shadow THEN "would" ELSE said.state, kind |-> "note"]
           last == IF said.state = "normal" THEN Null ELSE Signature(said)
           reported == [rep EXCEPT !.lastReported = last]
<1>1. /\ rep.pc = "report" /\ (UNCHANGED <<events, noted>> \/ RecordEvent(event))
      /\ IF Throttled(rep) THEN rep' = [reported EXCEPT !.pc = "drain"] /\ UNCHANGED <<fails, refused>>
         ELSE BeginNotify(reported, addressed)
      /\ UNCHANGED <<vars, notes, recorded, heard, alarms, cut>>
  BY DEF Report
<1>2. IsSeq(events') /\ EventsKept' /\ noted \subseteq noted'
  <2> HIDE DEF event
  <2>1. CASE UNCHANGED <<events, noted>>
    BY <1>1, <2>1 DEF ReportInv, RecordTold, EventsKept, IsSeq
  <2>2. CASE RecordEvent(event)
    BY <1>1, <2>2, RecordEventKeeps DEF ReportInv, RecordTold
  <2> QED BY <1>1, <2>1, <2>2
<1> HIDE DEF event
<1>3. rep = [pc |-> rep.pc, at |-> rep.at, said |-> rep.said, lastNotify |-> rep.lastNotify,
             lastReported |-> rep.lastReported, todo |-> rep.todo]
  BY DEF ReportInv, RepShape
<1> HIDE DEF last
<1>4. PICK r : r = reported
  OBVIOUS
<1>5. DOMAIN r = RepFields /\ r.at = rep.at /\ r.said = rep.said /\ r.todo = rep.todo
  BY <1>3, <1>4 DEF RepFields
<1>6. \/ /\ Throttled(rep) /\ refused' = refused
         /\ rep' = [pc |-> "drain", at |-> rep.at, said |-> rep.said, lastNotify |-> r.lastNotify,
                    lastReported |-> r.lastReported, todo |-> rep.todo]
      \/ /\ ~Throttled(rep)
         /\ \/ Addressed(rep.at, rep.said, r.lastReported, rep.todo)
            \/ Unaddressed(rep.at, rep.said, r.lastReported, rep.todo)
  <2>1. CASE Throttled(rep)
    <3>1. rep' = [r EXCEPT !.pc = "drain"] /\ refused' = refused
      BY <1>1, <1>4, <2>1
    <3>2. r = [x \in DOMAIN r |-> r[x]]
      BY <1>4
    <3> QED BY <1>5, <2>1, <3>1, <3>2 DEF RepFields
  <2>2. CASE ~Throttled(rep)
    <3>1. BeginNotify(r, addressed)
      BY <1>1, <1>4, <2>2
    <3> QED BY <1>5, <2>2, <3>1, BeginNotifyFields
  <2> QED BY <2>1, <2>2
<1>7. /\ rep'.pc \in {"drain", "push"} /\ rep'.at = rep.at /\ rep'.said = rep.said
      /\ rep'.pc = "push" => rep'.todo = notes
      /\ ~Throttled(rep) => rep'.pc = "push" \/ rep.at \in refused'
      /\ refused \subseteq refused'
  BY <1>6 DEF Addressed, Unaddressed
<1>8. RepShape'
  BY <1>6, <1>7 DEF RepShape, Addressed, Unaddressed
<1>9. proc.pc = "idle" /\ proc' = proc /\ disk' = disk
  BY <1>1 DEF ReportInv, ActsOnRecord, vars
<1>10. ActsOnRecord' /\ Draining' /\ Pushing'
  BY <1>1, <1>7, <1>9 DEF ActsOnRecord, Draining, Pushing, ReportInv, IsSeq
<1>11. ActionsAttributed'
  BY <1>1, <1>2, <1>9 DEF ReportInv, RecordTold, ActionsAttributed
<1>12. AlarmsHeld'
  <2>1. \A t : Calling(t) => Calling(t)' \/ t \in refused'
    BY <1>7 DEF Calling, Throttled
  <2>2. AlarmsHeld
    BY DEF ReportInv
  <2> HIDE DEF reported
  <2> SUFFICES ASSUME NEW t \in alarms'
               PROVE  \/ t \in cut' \cup refused' \/ Calling(t)'
                      \/ \E n \in heard' \cup ToSet(notes') : n.ts = t /\ n.status = "down"
    BY DEF AlarmsHeld, Calling
  <2> QED BY <1>1, <1>7, <2>1, <2>2 DEF AlarmsHeld
<1> QED BY <1>1, <1>2, <1>8, <1>10, <1>11, <1>12 DEF ReportInv, RecordTold, IsSeq

LEMMA PushStep ==
  ASSUME ReportInv, NEW ok \in BOOLEAN, NEW arrived \in BOOLEAN, Push(ok, arrived)
  PROVE  ReportInv'
<1>1. /\ rep.pc = "push" /\ (ok => arrived)
      /\ UNCHANGED <<vars, events, recorded, noted, alarms, cut>>
      /\ IsSeq(rep.todo) /\ ToSet(notes) \subseteq ToSet(rep.todo) \cup heard
      /\ IsSeq(notes) /\ AlarmsHeld
  BY DEF Push, Send, ReportInv, Pushing
<1>2. /\ proc.pc = "idle" /\ proc' = proc /\ disk' = disk
  BY <1>1 DEF ReportInv, ActsOnRecord, vars
<1>3. ActsOnRecord' /\ RecordTold' /\ IsSeq(events')
  BY <1>1, <1>2 DEF ReportInv, ActsOnRecord, RecordTold, EventsKept, ActionsAttributed, IsSeq
<1>4. Notification.ts = rep.at /\ (CallsForHelp(rep.said) => Notification.status = "down")
  BY DEF Notification, Status, CallsForHelp
<1>5. heard' = IF ~arrived THEN heard
               ELSE heard \cup {IF rep.todo = <<>> THEN Notification ELSE Head(rep.todo)}
  BY DEF Push
<1>6. rep = [pc |-> rep.pc, at |-> rep.at, said |-> rep.said, lastNotify |-> rep.lastNotify,
             lastReported |-> rep.lastReported, todo |-> rep.todo]
  BY DEF ReportInv, RepShape
\* What remains of an alarm once no tick is calling any more.
<1>7. ASSUME /\ ToSet(notes) \cup heard \subseteq ToSet(notes') \cup heard'
             /\ Notification \in heard' \cup ToSet(notes') \/ rep.at \in refused'
             /\ refused \subseteq refused'
      PROVE  AlarmsHeld'
  <2> SUFFICES ASSUME NEW t \in alarms'
               PROVE  \/ t \in cut' \cup refused'
                      \/ \E n \in heard' \cup ToSet(notes') : n.ts = t /\ n.status = "down"
    BY DEF AlarmsHeld
  <2>1. CASE Calling(t)
    BY <1>4, <1>7, <2>1 DEF Calling
  <2>2. CASE ~Calling(t)
    BY <1>1, <1>7, <2>2 DEF AlarmsHeld
  <2> QED BY <2>1, <2>2
<1>8. CASE ~ok
  <2>1. /\ notes' = Spooled(Backlog, Notification)
        /\ rep' = [rep EXCEPT !.pc = "drain", !.todo = <<>>]
        /\ refused' = IF Taken(Backlog) THEN refused ELSE refused \cup {rep.at}
    BY <1>8 DEF Push, AfterFailedPush
  <2>2. rep' = [pc |-> "drain", at |-> rep.at, said |-> rep.said, lastNotify |-> rep.lastNotify,
                lastReported |-> rep.lastReported, todo |-> <<>>]
    BY <1>6, <2>1
  <2>3. RepShape' /\ Draining' /\ Pushing'
    <3>1. rep'.pc = "drain"
      BY <2>2
    <3> QED BY <2>2, <3>1 DEF RepShape, Draining, Pushing
  <2>4. IsSeq(Backlog) /\ ToSet(notes) \subseteq ToSet(Backlog) \cup heard
    BY <1>1, EmptyFacts DEF Backlog
  <2>5. /\ IsSeq(notes') /\ ToSet(Backlog) \subseteq ToSet(notes')
        /\ Taken(Backlog) => Notification \in ToSet(notes')
    <3>1. /\ IsSeq(Spooled(Backlog, Notification))
          /\ ToSet(Backlog) \subseteq ToSet(Spooled(Backlog, Notification))
          /\ Taken(Backlog) => Notification \in ToSet(Spooled(Backlog, Notification))
      BY <2>4, SpooledFacts
    <3> QED BY <2>1, <3>1 DEF IsSeq
  <2>6. AlarmsHeld'
    BY <1>5, <1>7, <2>1, <2>4, <2>5
  <2> QED BY <1>3, <2>3, <2>5, <2>6 DEF ReportInv
<1>9. CASE ok /\ rep.todo = <<>>
  <2>1. rep' = [rep EXCEPT !.pc = "drain"] /\ notes' = notes /\ refused' = refused
    BY <1>9 DEF Push
  <2>2. rep' = [pc |-> "drain", at |-> rep.at, said |-> rep.said, lastNotify |-> rep.lastNotify,
                lastReported |-> rep.lastReported, todo |-> rep.todo]
    BY <1>6, <2>1
  <2>3. RepShape' /\ Draining' /\ Pushing'
    <3>1. rep'.pc = "drain"
      BY <2>2
    <3> QED BY <2>2, <3>1 DEF RepShape, Draining, Pushing
  <2>4. heard' = heard \cup {Notification}
    BY <1>1, <1>5, <1>9
  <2>5. AlarmsHeld'
    BY <1>7, <2>1, <2>4
  <2> QED BY <1>1, <1>3, <2>1, <2>3, <2>5 DEF ReportInv, IsSeq
<1>10. CASE ok /\ rep.todo # <<>>
  <2>1. /\ rep' = [rep EXCEPT !.todo = Tail(@)] /\ refused' = refused
        /\ notes' = IF Len(rep.todo) = 1 THEN <<>> ELSE notes
    BY <1>10 DEF Push
  <2>2. rep' = [pc |-> "push", at |-> rep.at, said |-> rep.said, lastNotify |-> rep.lastNotify,
                lastReported |-> rep.lastReported, todo |-> Tail(rep.todo)]
    BY <1>1, <1>6, <2>1
  <2>3. rep'.pc = "push" /\ rep'.at = rep.at /\ rep'.said = rep.said /\ rep'.todo = Tail(rep.todo)
    BY <2>2
  <2>4. /\ IsSeq(Tail(rep.todo)) /\ ToSet(rep.todo) = {Head(rep.todo)} \cup ToSet(Tail(rep.todo))
        /\ Len(rep.todo) = 1 => ToSet(rep.todo) = {Head(rep.todo)}
    BY <1>1, <1>10, TailSeq
  <2>5. heard' = heard \cup {Head(rep.todo)}
    BY <1>1, <1>5, <1>10
  <2>6. /\ IsSeq(notes') /\ ToSet(notes') \subseteq ToSet(notes)
        /\ ToSet(notes) \cup heard \subseteq ToSet(notes') \cup heard'
    BY <1>1, <2>1, <2>4, <2>5, EmptyFacts DEF IsSeq
  <2>7. RepShape' /\ Draining' /\ Pushing'
    <3>1. RepShape'
      BY <2>2, <2>3 DEF RepShape
    <3>2. Pushing'
      BY <1>1, <2>3, <2>4, <2>5, <2>6 DEF Pushing, IsSeq
    <3> QED BY <2>3, <3>1, <3>2 DEF Draining
  <2>8. AlarmsHeld'
    <3> SUFFICES ASSUME NEW t \in alarms'
                 PROVE  \/ t \in cut' \cup refused' \/ Calling(t)'
                        \/ \E n \in heard' \cup ToSet(notes') : n.ts = t /\ n.status = "down"
      BY DEF AlarmsHeld, Calling
    <3>1. CASE Calling(t)
      BY <2>3, <3>1 DEF Calling
    <3>2. CASE ~Calling(t)
      BY <1>1, <2>1, <2>6, <3>2 DEF AlarmsHeld
    <3> QED BY <3>1, <3>2
  <2> QED BY <1>3, <2>6, <2>7, <2>8 DEF ReportInv
<1> QED BY <1>8, <1>9, <1>10

LEMMA BeginDrainStep == ASSUME ReportInv, BeginDrain PROVE ReportInv'
<1>1. /\ rep.pc = "drain"
      /\ rep' = IF events = <<>> THEN [rep EXCEPT !.pc = "idle"]
                ELSE [rep EXCEPT !.pc = "post", !.todo = events]
      /\ UNCHANGED <<vars, events, notes, recorded, heard, noted, alarms, cut, refused>>
  BY DEF BeginDrain
<1>2. rep = [pc |-> rep.pc, at |-> rep.at, said |-> rep.said, lastNotify |-> rep.lastNotify,
             lastReported |-> rep.lastReported, todo |-> rep.todo]
  BY DEF ReportInv, RepShape
<1>3. \/ rep' = [pc |-> "idle", at |-> rep.at, said |-> rep.said, lastNotify |-> rep.lastNotify,
                 lastReported |-> rep.lastReported, todo |-> rep.todo]
      \/ /\ events # <<>>
         /\ rep' = [pc |-> "post", at |-> rep.at, said |-> rep.said, lastNotify |-> rep.lastNotify,
                    lastReported |-> rep.lastReported, todo |-> events]
  <2>1. CASE events = <<>>
    BY <1>1, <1>2, <2>1
  <2>2. CASE events # <<>>
    BY <1>1, <1>2, <2>2
  <2> QED BY <2>1, <2>2
<1>4. \/ rep'.pc = "idle"
      \/ rep'.pc = "post" /\ rep'.todo = events /\ events # <<>>
  BY <1>3
<1>5. RepShape'
  BY <1>3, <1>4 DEF RepShape
<1>6. proc.pc = "idle" /\ proc' = proc /\ disk' = disk
  BY <1>1 DEF ReportInv, ActsOnRecord, vars
<1>7. ActsOnRecord' /\ Pushing' /\ Draining'
  BY <1>1, <1>4, <1>6 DEF ActsOnRecord, Pushing, Draining, ReportInv, RecordTold, EventsKept, IsSeq
<1>8. RecordTold'
  BY <1>1, <1>6 DEF ReportInv, RecordTold, EventsKept, ActionsAttributed
<1>9. AlarmsHeld'
  BY <1>1 DEF ReportInv, AlarmsHeld, Calling
<1> QED BY <1>1, <1>5, <1>7, <1>8, <1>9 DEF ReportInv, IsSeq

LEMMA PostStep ==
  ASSUME ReportInv, NEW ok \in BOOLEAN, NEW arrived \in BOOLEAN, Post(ok, arrived)
  PROVE  ReportInv'
<1> DEFINE over == ~ok \/ Len(rep.todo) = 1
<1>1. /\ rep.pc = "post" /\ (ok => arrived)
      /\ rep' = IF over THEN [rep EXCEPT !.pc = "idle", !.todo = <<>>] ELSE [rep EXCEPT !.todo = Tail(@)]
      /\ events' = IF ~ok THEN rep.todo ELSE IF over THEN <<>> ELSE events
      /\ recorded' = IF arrived THEN recorded \cup {Head(rep.todo)} ELSE recorded
      /\ UNCHANGED <<vars, notes, heard, noted, alarms, cut, refused>>
  BY Zenon DEF Post, Send, Remainder
<1>2. /\ IsSeq(rep.todo) /\ rep.todo # <<>> /\ noted \subseteq ToSet(rep.todo) \cup recorded
      /\ IsSeq(events) /\ EventsKept
  BY <1>1 DEF ReportInv, Draining, RecordTold
<1>3. /\ IsSeq(Tail(rep.todo)) /\ ToSet(rep.todo) = {Head(rep.todo)} \cup ToSet(Tail(rep.todo))
      /\ Len(rep.todo) = 1 => ToSet(rep.todo) = {Head(rep.todo)}
      /\ Len(rep.todo) # 1 => Tail(rep.todo) # <<>>
  BY <1>2, TailSeq
<1>4. rep = [pc |-> rep.pc, at |-> rep.at, said |-> rep.said, lastNotify |-> rep.lastNotify,
             lastReported |-> rep.lastReported, todo |-> rep.todo]
  BY DEF ReportInv, RepShape
<1>5. \/ /\ over
         /\ rep' = [pc |-> "idle", at |-> rep.at, said |-> rep.said, lastNotify |-> rep.lastNotify,
                    lastReported |-> rep.lastReported, todo |-> <<>>]
      \/ /\ ~over
         /\ rep' = [pc |-> "post", at |-> rep.at, said |-> rep.said, lastNotify |-> rep.lastNotify,
                    lastReported |-> rep.lastReported, todo |-> Tail(rep.todo)]
  <2> HIDE DEF over
  <2>1. CASE over
    BY <1>1, <1>4, <2>1
  <2>2. CASE ~over
    BY <1>1, <1>4, <2>2
  <2> QED BY <2>1, <2>2
<1>6. \/ over /\ rep'.pc = "idle"
      \/ ~over /\ rep'.pc = "post" /\ rep'.todo = Tail(rep.todo)
  <2> HIDE DEF over
  <2>1. CASE over
    BY <1>5, <2>1
  <2>2. CASE ~over
    <3> DEFINE rest == Tail(rep.todo)
    <3> HIDE DEF rest
    <3>1. rep' = [pc |-> "post", at |-> rep.at, said |-> rep.said, lastNotify |-> rep.lastNotify,
                  lastReported |-> rep.lastReported, todo |-> rest]
      BY <1>5, <2>2 DEF rest
    <3>2. rep'.pc = "post" /\ rep'.todo = rest
      BY <3>1
    <3> QED BY <2>2, <3>2 DEF rest
  <2> QED BY <2>1, <2>2
<1>7. RepShape'
  BY <1>5, <1>6 DEF RepShape
<1>8. proc.pc = "idle" /\ proc' = proc /\ disk' = disk
  BY <1>1 DEF ReportInv, ActsOnRecord, vars
<1>9. ActsOnRecord' /\ Pushing'
  BY <1>6, <1>8 DEF ActsOnRecord, Pushing
<1>10. IsSeq(events') /\ EventsKept'
  <2>1. CASE ~ok
    BY <1>1, <1>2, <2>1 DEF EventsKept, IsSeq
  <2>2. CASE ok /\ Len(rep.todo) = 1
    BY <1>1, <1>2, <1>3, <2>2, EmptyFacts DEF EventsKept, IsSeq
  <2>3. CASE ok /\ Len(rep.todo) # 1
    BY <1>1, <1>2, <2>3 DEF EventsKept, IsSeq
  <2> QED BY <2>1, <2>2, <2>3
<1>11. Draining'
  <2>1. CASE over
    BY <1>6, <2>1 DEF Draining
  <2>2. CASE ~over
    <3>1. /\ rep'.todo = Tail(rep.todo) /\ recorded' = recorded \cup {Head(rep.todo)}
          /\ Tail(rep.todo) # <<>>
      BY <1>1, <1>3, <1>6, <2>2
    <3> QED BY <1>1, <1>2, <1>3, <3>1 DEF Draining, IsSeq
  <2> QED BY <2>1, <2>2
<1>12. ActionsAttributed'
  BY <1>1, <1>8 DEF ReportInv, RecordTold, ActionsAttributed
<1>13. AlarmsHeld'
  <2>1. \A t : ~Calling(t)
    BY <1>1 DEF Calling
  <2>2. \A t \in alarms : \/ t \in cut \cup refused
                          \/ \E n \in heard \cup ToSet(notes) : n.ts = t /\ n.status = "down"
    BY <2>1 DEF ReportInv, AlarmsHeld
  <2> QED BY <1>1, <2>2 DEF AlarmsHeld
<1> QED BY <1>1, <1>7, <1>9, <1>10, <1>11, <1>12, <1>13 DEF ReportInv, RecordTold, IsSeq

\* A death, and everything that goes on around the report.
LEMMA CrashStep == ASSUME ReportInv, ReportedCrash PROVE ReportInv'
<1>1. /\ proc' = Dead /\ disk' = disk /\ rep' = Silent
      /\ cut' = IF rep.pc = "idle" THEN cut ELSE cut \cup {rep.at}
      /\ UNCHANGED <<events, notes, recorded, heard, noted, alarms, refused>>
  BY DEF ReportedCrash, Crash
<1>2. /\ Dead.pc = "idle" /\ Silent.pc = "idle"
  BY DEF Dead, Silent
<1>3. RepShape'
  BY <1>1, <1>2 DEF RepShape, Silent
<1>4. ActsOnRecord' /\ Draining' /\ Pushing'
  BY <1>1, <1>2 DEF ActsOnRecord, Draining, Pushing
<1>5. RecordTold'
  BY <1>1 DEF ReportInv, RecordTold, EventsKept, ActionsAttributed
<1>6. AlarmsHeld'
  BY <1>1 DEF ReportInv, AlarmsHeld, Calling
<1> QED BY <1>1, <1>3, <1>4, <1>5, <1>6 DEF ReportInv, IsSeq

LEMMA WorldStep ==
  ASSUME ReportInv, UNCHANGED reportVars, disk' = disk,
         proc'.pc # "idle" => proc.pc # "idle" /\ proc'.intent = proc.intent
  PROVE  ReportInv'
<1>1. RepShape' /\ Draining' /\ Pushing' /\ IsSeq(events') /\ IsSeq(notes')
  BY DEF reportVars, ReportInv, RepShape, Draining, Pushing, IsSeq
<1>2. ActsOnRecord'
  BY DEF reportVars, ReportInv, ActsOnRecord, Taken
<1>3. RecordTold'
  BY DEF reportVars, ReportInv, RecordTold, EventsKept, ActionsAttributed
<1>4. AlarmsHeld'
  BY DEF reportVars, ReportInv, AlarmsHeld, Calling
<1> QED BY <1>1, <1>2, <1>3, <1>4 DEF ReportInv

LEMMA ReportInvStep == ASSUME TypeOK, ReportInv, [ReportNext]_allVars PROVE ReportInv'
<1>1. CASE ReportedEvaluation
  <2>1. PICK e \in Evidence, eventsRead \in May("events_unread"), written \in BOOLEAN :
           ReportedTick(e, eventsRead, written)
    BY <1>1 DEF ReportedEvaluation, May
  <2> QED BY <2>1, TickStep
<1>2. CASE \E written \in May("write_error"), addressed \in BOOLEAN : ReportedClose(written, addressed)
  <2>1. PICK written \in BOOLEAN, addressed \in BOOLEAN : ReportedClose(written, addressed)
    BY <1>2 DEF May
  <2> QED BY <2>1, CloseStep
<1>3. CASE Reporting
  <2>1. CASE \E ok, arrived \in BOOLEAN : Push(ok, arrived)
    BY <2>1, PushStep
  <2>2. CASE \E ok, arrived \in BOOLEAN : Post(ok, arrived)
    BY <2>2, PostStep
  <2> QED BY <1>3, <2>1, <2>2, ReportStep, BeginDrainStep DEF Reporting
<1>4. CASE ReportedCrash
  BY <1>4, CrashStep
<1>5. CASE /\ UNCHANGED reportVars
           /\ \/ Request \/ \E arrived \in BOOLEAN : NoAnswer(arrived)
              \/ Elapse \/ Respond \/ Restart \/ Intervene \/ TouchDisarm
  BY <1>5, Undisturbed, WorldStep
<1>6. CASE UNCHANGED allVars
  BY <1>6, WorldStep DEF allVars, vars
<1> QED BY <1>1, <1>2, <1>3, <1>4, <1>5, <1>6 DEF ReportNext, ReportedPerforming, ReportedElapse

LEMMA ReportInvInit == ASSUME ReportInit PROVE ReportInv
<1>1. proc = Started(0) /\ Started(0).pc = "idle" /\ Silent.pc = "idle" /\ disk.actions = {}
  BY DEF ReportInit, Init, Started, Dead, Silent, EmptyLedger
<1>2. /\ rep = Silent /\ events = <<>> /\ notes = <<>> /\ noted = {} /\ alarms = {}
  BY DEF ReportInit
<1>3. RepShape
  BY <1>1, <1>2 DEF RepShape, Silent
<1>4. IsSeq(events) /\ IsSeq(notes)
  BY <1>2, EmptyFacts DEF IsSeq
<1> QED BY <1>1, <1>2, <1>3, <1>4
        DEF ReportInv, ActsOnRecord, Draining, Pushing, RecordTold, EventsKept, ActionsAttributed, AlarmsHeld

LEMMA ReportInductive == ReportSpec => []ReportInv
<1>1. ReportInit => IInv /\ ReportInv
  BY IInvInit, ReportInvInit DEF ReportInit
<1>2. IInv /\ ReportInv /\ [ReportNext]_allVars => IInv' /\ ReportInv'
  BY IInvStep, ReportIsWatchdog, ReportInvStep DEF IInv
<1> QED BY <1>1, <1>2, PTL DEF ReportSpec

\* What was done is on record or on its way there: every event the spool took is in it or
\* stored, and every action that reached the line has its intervention among them, unless its
\* own tick died or threw (collector/watchdog.ts `drainEvents`, `record`, `perform`; the
\* `cannot_record` precondition of collector/watchdog-ladder.ts).
THEOREM RecordIsTold == ReportSpec => []RecordTold
<1>1. ReportInv => RecordTold
  BY DEF ReportInv
<1> QED BY <1>1, ReportInductive, PTL

\* A call for help has been heard, is on its way or waits in the spool, unless the tick that
\* made it died or found the spool full (collector/watchdog.ts `notify`).
THEOREM AlarmsAreKept == ReportSpec => []AlarmsKept
<1>1. ReportInv => AlarmsKept
  BY DEF ReportInv, AlarmsHeld, AlarmsKept, Calling
<1> QED BY <1>1, ReportInductive, PTL

-----------------------------------------------------------------------------
(* Word of a reboot. *)

\* A moment at which what is pushed still foretells a reboot announced at `a`: before its
\* lead is over, or while the process is too young to act.
Foretells(a, x) ==
  /\ x \in Nat /\ a <= x /\ x <= now
  /\ x < a + Policy.announceLeadS \/ (proc.up => x < proc.startedAt + Policy.minProcessAgeS)

\* How the announcement made at `a` stands towards the monitor: its tick or a later one was
\* cut short, it was pushed or waits in the spool, this tick is about to push it, the interval
\* holds it back for now, or a death took the throttle with it and the next tick will tell.
Lapsed(a) == \E c \in cut \cup refused : c \in Nat /\ a <= c /\ c <= now
Pushed(a) == \E n \in heard \cup ToSet(notes) : Foretells(a, n.ts)
Telling(a) ==
  /\ proc.up /\ rep.pc \in {"report", "push", "performing"} /\ Foretells(a, rep.at)
  /\ rep.pc = "report" => ~Throttled(rep)
HeldBack(a) ==
  /\ proc.up /\ proc.pc = "idle" /\ rep.lastNotify # Null /\ rep.lastNotify < a
  /\ rep.pc = "report" => Throttled(rep)
  /\ \/ now < rep.lastNotify + NotifyInterval
     \/ now = rep.lastNotify + NotifyInterval /\ ~proc.ticked
Restarting ==
  /\ rep.pc = "idle" /\ rep.lastNotify = Null
  /\ proc.up => proc.startedAt = now /\ ~proc.ticked /\ proc.pc = "idle"

\* The report runs on the clock of the ticks: what it did at this very moment, the tick of
\* this moment did.
Past(t) == t \in Nat /\ t <= now /\ (t = now => proc.ticked \/ now >= MaxTime)
Clocked ==
  /\ rep.lastNotify # Null => Past(rep.lastNotify)
  /\ rep.pc # "idle" => Past(rep.at)
  /\ ~proc.up => rep.pc = "idle" /\ rep.lastNotify = Null
  /\ proc.pc = "idle" => proc.intent = Null

Foretold ==
  disk.announcedAt # Null =>
    /\ disk.announcedAt <= now /\ (rep.pc # "idle" => disk.announcedAt <= rep.at)
    /\ \/ Lapsed(disk.announcedAt) \/ Pushed(disk.announcedAt) \/ Telling(disk.announcedAt)
       \/ HeldBack(disk.announcedAt) \/ Restarting

WordInv == Clocked /\ Foretold /\ RebootForeseen

\* As in the defaults: the interval of the notifications is within the announced lead (60
\* seconds each), a process acts only when it is some age (120 seconds), and the loop ticks on.
WordInTime ==
  /\ NotifyInterval <= Policy.announceLeadS /\ 0 < Policy.announceLeadS
  /\ 0 < Policy.minProcessAgeS /\ "slow_tick" \notin Allowed

LEMMA Spans ==
  NotifyInterval \in Nat /\ Policy.announceLeadS \in Nat /\ Policy.minProcessAgeS \in Nat /\ MaxTime \in Nat
  BY PolicyAssumption, ReportAssumption, WatchdogAssumption DEF PolicyShape

LEMMA ThrottledFacts ==
  ASSUME NEW r, Throttled(r)
  PROVE  r.lastNotify # Null /\ r.at < r.lastNotify + NotifyInterval /\ r.at < MaxTime
  BY DEF Throttled

\* A reboot is decided once its lead is over and the process is of age.
LEMMA RebootWaits ==
  ASSUME NEW in, Judge(in).action = "reboot"
  PROVE  /\ in.ledger.announcedAt # Null
         /\ ~(in.now < in.ledger.announcedAt + Policy.announceLeadS)
         /\ ~(in.now < in.startedAt + Policy.minProcessAgeS)
<1>1. "reboot" \in Verbs /\ BlockersOf(in, Classify(in), "reboot") = {}
  BY JudgeActs DEF Verbs
<1>2. /\ SharedBlockers(in, Classify(in)) = {}
      /\ in.ledger.announcedAt # Null
      /\ ~(in.now < in.ledger.announcedAt + Policy.announceLeadS)
  BY <1>1, VerbUnblocked
<1>3. If(in.now < in.startedAt + Policy.minProcessAgeS, "process_too_young") = {}
  BY <1>2 DEF SharedBlockers
<1> QED BY <1>2, <1>3, IfEmpty

\* What has been told stays told while the histories grow.
LEMMA WindowStays ==
  ASSUME NEW a, NEW x, now \in Nat, now' \in Nat, now <= now', WordInTime, Foretells(a, x),
         \/ ~proc'.up \/ proc'.startedAt = now' \/ (proc.up /\ proc'.startedAt = proc.startedAt)
  PROVE  Foretells(a, x)'
<1>1. /\ x \in Nat /\ a <= x /\ x <= now'
      /\ x < a + Policy.announceLeadS \/ (proc.up => x < proc.startedAt + Policy.minProcessAgeS)
  BY DEF Foretells
<1>2. x < now' + Policy.minProcessAgeS
  BY <1>1, Spans DEF WordInTime
<1> QED BY <1>1, <1>2 DEF Foretells

LEMMA ToldStays ==
  ASSUME NEW a, now \in Nat, now' \in Nat, now <= now', WordInTime,
         cut \cup refused \subseteq cut' \cup refused',
         heard \cup ToSet(notes) \subseteq heard' \cup ToSet(notes'),
         \/ ~proc'.up \/ proc'.startedAt = now' \/ (proc.up /\ proc'.startedAt = proc.startedAt)
  PROVE  (Lapsed(a) => Lapsed(a)') /\ (Pushed(a) => Pushed(a)')
<1>1. Lapsed(a) => Lapsed(a)'
  BY DEF Lapsed
<1>2. Pushed(a) => Pushed(a)'
  BY WindowStays DEF Pushed
<1> QED BY <1>1, <1>2

\* A reboot on its way stays foreseen while its announcement stands.
LEMMA ForeseenStays ==
  ASSUME RebootForeseen, disk'.announcedAt = disk.announcedAt, proc'.intent \in {Null, proc.intent},
         cut \cup refused \subseteq cut' \cup refused',
         heard \cup ToSet(notes) \subseteq heard' \cup ToSet(notes')
  PROVE  RebootForeseen'
<1> SUFFICES ASSUME proc'.intent # Null, proc'.intent.kind = "reboot"
             PROVE  \/ (cut' \cup refused') \cap (disk'.announcedAt .. proc'.intent.ts) # {}
                    \/ \E n \in heard' \cup ToSet(notes') :
                         disk'.announcedAt <= n.ts /\ n.ts < proc'.intent.ts
  BY DEF RebootForeseen
<1>1. proc'.intent = proc.intent
  OBVIOUS
<1> QED BY <1>1 DEF RebootForeseen

\* What an evaluation does to the announcement.
LEMMA Announced ==
  ASSUME NEW in \in InputSet, NEW d, NEW written \in BOOLEAN, Evaluated(in, d, written)
  PROVE  \/ written /\ d.action = "announce" /\ disk'.announcedAt = now
         \/ /\ disk'.announcedAt \in {Null, disk.announcedAt}
            /\ d.action \in Verbs => disk'.announcedAt = disk.announcedAt
<1>1. /\ in.now = now /\ in.ledger = disk /\ Timely(in) /\ d = Judge(in) /\ DecisionOK(in, d)
      /\ disk' = IF written THEN Advance(in, d) ELSE disk
  BY DEF Evaluated
<1>2. CASE ~written
  BY <1>1, <1>2
<1>3. CASE written /\ d.action = "announce"
  <2>1. ~Recovers(in, d) /\ Climbs(in, d)
    BY <1>1, <1>3, JudgeAnnounces DEF Recovers, Climbs
  <2> QED BY <1>1, <1>3, <2>1, AdvanceFields
<1>4. CASE written /\ d.action # "announce"
  <2>1. d.action \in Verbs => ~Recovers(in, d)
    BY <1>1 DEF DecisionOK, Recovers
  <2> QED BY <1>1, <1>4, <2>1, AdvanceFields
<1> QED BY <1>2, <1>3, <1>4

LEMMA WordTick ==
  ASSUME TypeOK, ReportInv, WordInv, WordInTime, NEW e \in Evidence,
         NEW eventsRead \in May("events_unread"), NEW written \in BOOLEAN,
         ReportedTick(e, eventsRead, written)
  PROVE  WordInv'
<1> DEFINE f == [e EXCEPT !.canRecord = CanRecord]
           in == Input(f, eventsRead)
           d == Judge(in)
           pc == IF d.action \in Verbs THEN "performing" ELSE "report"
<1>1. /\ rep.pc = "idle" /\ Tick(f, eventsRead, written)
      /\ rep' = IF ~written THEN rep ELSE [rep EXCEPT !.pc = pc, !.at = now, !.said = Told(d)]
      /\ cut' = IF written THEN cut ELSE cut \cup {now}
      /\ UNCHANGED <<notes, heard, refused>>
  BY Zenon DEF ReportedTick
<1>2. f \in EvidenceShape
  BY CanRecordEvidence
<1>3. in \in InputSet /\ Evaluated(in, d, written) /\ in.startedAt = proc.startedAt
  BY <1>1, <1>2, TickEvaluated DEF Input, Gather
<1> HIDE DEF f, in
<1>4. /\ in.now = now /\ in.ledger = disk /\ now \in Nat /\ disk \in Ledger
      /\ d.action = "reboot" => d.action \in Verbs
      /\ d.action = "announce" => d.action \notin Verbs
  BY <1>3 DEF Evaluated, TypeOK, Verbs
<1> HIDE DEF d
<1>5. /\ proc.up /\ proc.pc = "idle" /\ ~proc.ticked /\ proc \in Process /\ now' = now
      /\ proc'.up /\ proc'.startedAt = proc.startedAt /\ proc'.ticked
      /\ proc'.pc = IF written /\ d.action \in Verbs THEN "written" ELSE "idle"
      /\ proc'.intent = IF written /\ d.action \in Verbs THEN WriteAhead(in, d) ELSE Null
      /\ WriteAhead(in, d).ts = now /\ WriteAhead(in, d).kind = d.action
  <2>1. proc.intent = Null /\ proc.pc = "idle" /\ ~proc.ticked /\ proc \in Process
    BY <1>1 DEF Tick, TypeOK, WordInv, Clocked
  <2> QED BY <1>3, <1>4, <2>1 DEF Evaluated, Process, WriteAhead
<1>6. /\ disk.announcedAt \in OrNull(Nat)
      /\ cut \cup refused \subseteq cut' \cup refused'
      /\ heard \cup ToSet(notes) \subseteq heard' \cup ToSet(notes')
  BY <1>1, <1>4 DEF Ledger
<1>7. ASSUME NEW a PROVE (Lapsed(a) => Lapsed(a)') /\ (Pushed(a) => Pushed(a)')
  BY <1>4, <1>5, <1>6, ToldStays
<1>8. rep.lastNotify # Null => rep.lastNotify \in Nat /\ rep.lastNotify <= now
                               /\ (rep.lastNotify = now => now >= MaxTime)
  BY <1>5 DEF WordInv, Clocked, Past
<1>9. CASE ~written
  <2>1. rep' = rep /\ cut' = cut \cup {now} /\ proc'.intent = Null /\ disk' = disk
    BY <1>1, <1>3, <1>5, <1>9 DEF Evaluated
  <2>2. Clocked'
    BY <1>1, <1>4, <1>5, <1>8, <2>1 DEF Clocked, Past
  <2>3. ASSUME NEW a, a = disk'.announcedAt, a # Null PROVE a <= now /\ Lapsed(a)'
    BY <1>4, <1>5, <1>6, <2>1, <2>3 DEF WordInv, Foretold, Lapsed, OrNull
  <2>4. Foretold'
    <3>1. PICK a : a = disk'.announcedAt
      OBVIOUS
    <3> QED BY <1>1, <1>5, <2>1, <2>3, <3>1 DEF Foretold
  <2> QED BY <2>1, <2>2, <2>4 DEF WordInv, RebootForeseen
<1>10. CASE written
  <2> HIDE DEF pc
  <2>1. rep' = [pc |-> pc, at |-> now, said |-> Told(d), lastNotify |-> rep.lastNotify,
                lastReported |-> rep.lastReported, todo |-> rep.todo]
    BY <1>1, <1>10 DEF ReportInv, RepShape
  <2>2. /\ rep'.pc = pc /\ rep'.at = now /\ rep'.lastNotify = rep.lastNotify
        /\ pc = IF d.action \in Verbs THEN "performing" ELSE "report"
    BY <2>1 DEF pc
  <2>3. Clocked'
    BY <1>4, <1>5, <1>8, <1>10, <2>2 DEF Clocked, Past, WriteAhead
  <2>4. PICK a : a = disk.announcedAt
    OBVIOUS
  <2>5. a # Null => /\ a \in Nat /\ a <= now
                    /\ Lapsed(a) \/ Pushed(a) \/ HeldBack(a) \/ Restarting
    BY <1>1, <1>6, <2>4 DEF WordInv, Foretold, Telling, OrNull
  <2>6. ASSUME NEW b \in Nat, Foretells(b, now), ~(rep'.pc = "report" /\ Throttled(rep'))
        PROVE  Telling(b)'
    <3>1. Foretells(b, now)'
      BY <1>4, <1>5, <2>6, Spans DEF Foretells
    <3>2. Foretells(b, rep.at)'
      BY <1>5, <2>2, <3>1 DEF Foretells
    <3> QED BY <1>5, <2>2, <2>6, <3>2 DEF Telling
  <2>7. ASSUME NEW b \in Nat, rep'.pc = "report", Throttled(rep'), rep.lastNotify < b
        PROVE  HeldBack(b)'
    <3>1. rep.lastNotify # Null /\ now < rep.lastNotify + NotifyInterval
      BY <2>2, <2>7, ThrottledFacts
    <3>2. proc'.pc = "idle"
      BY <1>5, <2>2, <2>7
    <3> QED BY <1>5, <2>2, <2>7, <3>1, <3>2 DEF HeldBack
  <2>8. ASSUME disk'.announcedAt = now, d.action = "announce" PROVE Foretold'
    <3>1. Foretells(now, now)
      BY <1>4, Spans DEF Foretells, WordInTime
    <3>2. rep'.pc = "report" /\ Throttled(rep') => rep.lastNotify < now
      BY <1>4, <1>8, <2>2, ThrottledFacts, Spans
    <3>3. PICK b \in Nat : b = now
      BY <1>4
    <3>4. Telling(b)' \/ HeldBack(b)'
      BY <2>6, <2>7, <3>1, <3>2, <3>3
    <3>5. b = disk'.announcedAt
      BY <2>8, <3>3
    <3> QED BY <1>5, <2>2, <3>3, <3>4, <3>5 DEF Foretold
  <2>9. ASSUME disk'.announcedAt = a, a # Null PROVE Foretold'
    <3>1. CASE Lapsed(a) \/ Pushed(a)
      <4>1. Lapsed(a)' \/ Pushed(a)'
        BY <1>7, <3>1
      <4> QED BY <1>5, <2>2, <2>5, <2>9, <4>1 DEF Foretold
    <3>2. CASE HeldBack(a)
      <4>1. Foretells(a, now)
        BY <1>4, <1>8, <2>5, <2>9, <3>2, Spans DEF HeldBack, Foretells, WordInTime
      <4>2. Telling(a)' \/ HeldBack(a)'
        BY <2>5, <2>6, <2>7, <2>9, <3>2, <4>1 DEF HeldBack
      <4> QED BY <1>5, <2>2, <2>5, <2>9, <4>2 DEF Foretold
    <3>3. CASE Restarting
      <4>1. Foretells(a, now)
        BY <1>4, <1>5, <2>5, <2>9, <3>3, Spans DEF Restarting, Foretells, WordInTime
      <4>2. ~Throttled(rep')
        BY <2>2, <3>3, ThrottledFacts DEF Restarting
      <4>3. Telling(a)'
        BY <2>5, <2>6, <2>9, <4>1, <4>2
      <4> QED BY <1>5, <2>2, <2>5, <2>9, <4>3 DEF Foretold
    <3> QED BY <2>5, <2>9, <3>1, <3>2, <3>3
  <2>10. \/ written /\ d.action = "announce" /\ disk'.announcedAt = now
         \/ /\ disk'.announcedAt \in {Null, disk.announcedAt}
            /\ d.action \in Verbs => disk'.announcedAt = disk.announcedAt
    BY <1>3, Announced
  <2>11. Foretold'
    BY <2>4, <2>8, <2>9, <2>10 DEF Foretold
  <2>12. RebootForeseen'
    <3> SUFFICES ASSUME d.action = "reboot"
                 PROVE  \/ (cut' \cup refused') \cap (disk'.announcedAt .. now) # {}
                        \/ \E n \in heard' \cup ToSet(notes') : disk'.announcedAt <= n.ts /\ n.ts < now
      BY <1>5 DEF RebootForeseen
    <3>1. a # Null /\ ~(now < a + Policy.announceLeadS) /\ ~(now < proc.startedAt + Policy.minProcessAgeS)
      BY <1>3, <1>4, <2>4, RebootWaits DEF Evaluated
    <3>2. disk'.announcedAt = a
      BY <1>4, <2>4, <2>10
    <3>3. \A x : Foretells(a, x) => x < now
      BY <1>4, <1>5, <2>5, <3>1, Spans DEF Foretells, Process
    <3>4. ~HeldBack(a) /\ ~Restarting
      BY <1>4, <1>5, <1>8, <2>5, <3>1, Spans DEF HeldBack, Restarting, WordInTime, Process
    <3>5. CASE Lapsed(a)
      BY <1>1, <1>4, <1>6, <2>5, <3>1, <3>2, <3>5 DEF Lapsed
    <3>6. CASE Pushed(a)
      <4>1. PICK n \in heard \cup ToSet(notes) : Foretells(a, n.ts)
        BY <3>6 DEF Pushed
      <4> QED BY <1>6, <3>2, <3>3, <4>1 DEF Foretells
    <3> QED BY <2>5, <3>1, <3>4, <3>5, <3>6
  <2> QED BY <2>3, <2>11, <2>12 DEF WordInv
<1> QED BY <1>9, <1>10

\* The steps of the process that leave the ledger's announcement and the clock alone.
AtThisMoment ==
  /\ now' = now /\ disk'.announcedAt = disk.announcedAt
  /\ cut \cup refused \subseteq cut' \cup refused'
  /\ heard \cup ToSet(notes) \subseteq heard' \cup ToSet(notes')
  /\ proc.up /\ proc'.up /\ proc'.startedAt = proc.startedAt /\ proc'.ticked = proc.ticked
  /\ proc'.intent \in {Null, proc.intent} /\ (proc'.pc = "idle" => proc'.intent = Null)

\* The tick's report while it goes on, or comes to its end.
LEMMA WordGoesOn ==
  ASSUME TypeOK, WordInv, WordInTime, AtThisMoment, rep.pc # "idle", rep'.at = rep.at,
         rep'.lastNotify \in {rep.lastNotify, rep.at},
         \A a \in Nat :
           Telling(a) => Telling(a)' \/ rep.at \in cut' \cup refused'
                         \/ \E n \in heard' \cup ToSet(notes') : n.ts = rep.at,
         \A a \in Nat : HeldBack(a) => HeldBack(a)'
  PROVE  WordInv'
<1>1. now \in Nat /\ disk.announcedAt \in OrNull(Nat)
  BY DEF TypeOK, Ledger
<1>2. ASSUME NEW a PROVE (Lapsed(a) => Lapsed(a)') /\ (Pushed(a) => Pushed(a)')
  BY <1>1, ToldStays DEF AtThisMoment
<1>3. Past(rep.at) /\ rep.at \in Nat /\ rep.at <= now
  BY DEF WordInv, Clocked, Past
<1>4. Clocked'
  BY <1>3 DEF WordInv, Clocked, Past, AtThisMoment
<1>5. RebootForeseen'
  BY ForeseenStays DEF WordInv, AtThisMoment
<1>6. Foretold'
  <2>1. PICK a : a = disk.announcedAt
    OBVIOUS
  <2>2. SUFFICES ASSUME a # Null
                 PROVE  a <= now' /\ a <= rep.at /\ (Lapsed(a)' \/ Pushed(a)' \/ Telling(a)' \/ HeldBack(a)')
    BY <2>1 DEF Foretold, AtThisMoment
  <2>3. /\ a \in Nat /\ a <= now /\ a <= rep.at
        /\ Lapsed(a) \/ Pushed(a) \/ Telling(a) \/ HeldBack(a)
    BY <1>1, <2>1, <2>2 DEF WordInv, Foretold, Restarting, OrNull
  <2>4. CASE Telling(a)
    <3>1. Foretells(a, rep.at)
      BY <2>4 DEF Telling
    <3>2. CASE rep.at \in cut' \cup refused'
      BY <1>3, <2>3, <3>2 DEF Lapsed, AtThisMoment
    <3>3. CASE \E n \in heard' \cup ToSet(notes') : n.ts = rep.at
      <4>1. PICK n \in heard' \cup ToSet(notes') : n.ts = rep.at
        BY <3>3
      <4>2. Foretells(a, n.ts)
        BY <3>1, <4>1
      <4>3. Foretells(a, n.ts)'
        BY <1>1, <4>2, WindowStays DEF AtThisMoment
      <4>4. Pushed(a)'
        BY <4>1, <4>3 DEF Pushed
      <4> QED BY <2>3, <4>4 DEF AtThisMoment
    <3> QED BY <2>3, <2>4, <3>2, <3>3 DEF AtThisMoment
  <2>5. CASE Lapsed(a) \/ Pushed(a)
    <3>1. Lapsed(a)' \/ Pushed(a)'
      BY <1>2, <2>5
    <3> QED BY <2>3, <3>1 DEF AtThisMoment
  <2>6. CASE HeldBack(a)
    BY <2>3, <2>6 DEF AtThisMoment
  <2> QED BY <2>3, <2>4, <2>5, <2>6
<1> QED BY <1>4, <1>5, <1>6 DEF WordInv

LEMMA WordClose ==
  ASSUME TypeOK, ReportInv, WordInv, WordInTime, NEW written \in BOOLEAN, NEW addressed \in BOOLEAN,
         ReportedClose(written, addressed)
  PROVE  WordInv'
<1>1. /\ proc.up /\ proc.pc = "closing" /\ proc \in Process /\ disk \in Ledger
      /\ disk' = IF written THEN RecordOutcome(disk, Outcome(proc)) ELSE disk
      /\ UNCHANGED <<now, notes, heard>>
      /\ proc' = [proc EXCEPT !.pc = "idle", !.intent = Null, !.answer = "unknown"]
  BY DEF ReportedClose, Close, TypeOK
<1>2. rep.pc = "performing" /\ RepShape
  BY <1>1 DEF ReportInv, ActsOnRecord
<1>3. /\ rep'.at = rep.at /\ cut \subseteq cut' /\ refused \subseteq refused'
      /\ \/ rep'.pc = "push" /\ rep'.lastNotify = rep.at
         \/ rep'.pc = "drain" /\ rep'.lastNotify = rep.at /\ rep.at \in refused'
         \/ rep.at \in cut' /\ rep'.pc = "idle" /\ rep'.lastNotify = rep.lastNotify
  <2>1. CASE written
    <3>1. DOMAIN rep = RepFields
      BY <1>2 DEF RepShape, RepFields
    <3>2. BeginNotify(rep, addressed) /\ cut' = cut
      BY <2>1 DEF ReportedClose
    <3> QED BY <3>1, <3>2, BeginNotifyFields DEF Addressed, Unaddressed
  <2>2. CASE ~written
    BY <1>2, <2>2 DEF ReportedClose, RepShape
  <2> QED BY <2>1, <2>2
<1>4. RecordOutcome(disk, Outcome(proc)).announcedAt = disk.announcedAt
  BY <1>1 DEF RecordOutcome, Ledger
<1>5. AtThisMoment
  BY <1>1, <1>3, <1>4 DEF AtThisMoment, Process
<1>6. \A a : ~HeldBack(a)
  BY <1>1 DEF HeldBack
<1>7. ASSUME NEW a \in Nat, Telling(a) PROVE Telling(a)' \/ rep.at \in cut' \cup refused'
  <2>1. Foretells(a, rep.at)'
    BY <1>1, <1>3, <1>5, <1>7 DEF Telling, Foretells, AtThisMoment
  <2> QED BY <1>3, <1>5, <2>1 DEF Telling, AtThisMoment
<1> QED BY <1>2, <1>3, <1>5, <1>6, <1>7, WordGoesOn

LEMMA WordReport ==
  ASSUME TypeOK, ReportInv, WordInv, WordInTime, NEW addressed \in BOOLEAN, Report(addressed)
  PROVE  WordInv'
<1>1. /\ rep.pc = "report" /\ proc.up /\ proc.pc = "idle"
      /\ UNCHANGED <<vars, notes, heard, cut>>
  BY DEF Report, ReportInv, ActsOnRecord
<1>2. /\ rep'.at = rep.at /\ refused \subseteq refused'
      /\ \/ Throttled(rep) /\ rep'.pc = "drain" /\ rep'.lastNotify = rep.lastNotify
         \/ ~Throttled(rep) /\ rep'.pc = "push" /\ rep'.lastNotify = rep.at
         \/ ~Throttled(rep) /\ rep'.pc = "drain" /\ rep'.lastNotify = rep.at /\ rep.at \in refused'
  <2>1. PICK last : last = IF rep.said.state = "normal" THEN Null ELSE Signature(rep.said)
    OBVIOUS
  <2>2. PICK r : r = [rep EXCEPT !.lastReported = last]
    OBVIOUS
  <2>3. /\ DOMAIN r = RepFields /\ r.at = rep.at /\ r.lastNotify = rep.lastNotify
        /\ r = [x \in DOMAIN r |-> r[x]]
    BY <2>2 DEF ReportInv, RepShape, RepFields
  <2>4. IF Throttled(rep) THEN rep' = [r EXCEPT !.pc = "drain"] /\ UNCHANGED <<fails, refused>>
        ELSE BeginNotify(r, addressed)
    BY <2>1, <2>2 DEF Report
  <2>5. CASE Throttled(rep)
    BY <2>3, <2>4, <2>5 DEF RepFields
  <2>6. CASE ~Throttled(rep)
    BY <2>3, <2>4, <2>6, BeginNotifyFields DEF Addressed, Unaddressed
  <2> QED BY <2>5, <2>6
<1>3. AtThisMoment
  BY <1>1, <1>2 DEF AtThisMoment, vars, WordInv, Clocked
<1>4. ASSUME NEW a \in Nat, Telling(a) PROVE Telling(a)' \/ rep.at \in refused'
  BY <1>1, <1>2, <1>4 DEF Telling, Foretells, vars
<1>5. ASSUME NEW a \in Nat, HeldBack(a) PROVE HeldBack(a)'
  BY <1>1, <1>2, <1>5 DEF HeldBack, vars
<1> QED BY <1>1, <1>2, <1>3, <1>4, <1>5, WordGoesOn

\* A push loses nothing of what was heard or waits, and its own notification is heard, waits
\* behind the backlog or was refused.
LEMMA PushTells ==
  ASSUME ReportInv, NEW ok \in BOOLEAN, NEW arrived \in BOOLEAN, Push(ok, arrived)
  PROVE  /\ heard \cup ToSet(notes) \subseteq heard' \cup ToSet(notes')
         /\ rep'.at = rep.at /\ rep'.lastNotify = rep.lastNotify
         /\ \/ rep'.pc = "push"
            \/ rep'.pc = "drain" /\ (Notification \in heard' \cup ToSet(notes') \/ rep.at \in refused')
         /\ refused \subseteq refused'
<1>1. /\ rep.pc = "push" /\ (ok => arrived) /\ RepShape
      /\ IsSeq(rep.todo) /\ ToSet(notes) \subseteq ToSet(rep.todo) \cup heard /\ IsSeq(notes)
      /\ heard' = IF ~arrived THEN heard
                  ELSE heard \cup {IF rep.todo = <<>> THEN Notification ELSE Head(rep.todo)}
      /\ refused' = IF ok \/ Taken(Backlog) THEN refused ELSE refused \cup {rep.at}
  BY DEF Push, Send, ReportInv, Pushing
<1>2. CASE ~ok
  <2>1. /\ notes' = Spooled(Backlog, Notification)
        /\ rep' = [rep EXCEPT !.pc = "drain", !.todo = <<>>]
    BY <1>2 DEF Push, AfterFailedPush
  <2>2. IsSeq(Backlog) /\ ToSet(notes) \subseteq ToSet(Backlog) \cup heard
    BY <1>1, EmptyFacts DEF Backlog
  <2>3. /\ ToSet(Backlog) \subseteq ToSet(Spooled(Backlog, Notification))
        /\ Taken(Backlog) => Notification \in ToSet(Spooled(Backlog, Notification))
    BY <2>2, SpooledFacts
  <2> QED BY <1>1, <1>2, <2>1, <2>2, <2>3 DEF RepShape
<1>3. CASE ok /\ rep.todo = <<>>
  <2>1. rep' = [rep EXCEPT !.pc = "drain"] /\ notes' = notes
    BY <1>3 DEF Push
  <2> QED BY <1>1, <1>3, <2>1 DEF RepShape
<1>4. CASE ok /\ rep.todo # <<>>
  <2>1. /\ rep' = [rep EXCEPT !.todo = Tail(@)]
        /\ notes' = IF Len(rep.todo) = 1 THEN <<>> ELSE notes
    BY <1>4 DEF Push
  <2>2. Len(rep.todo) = 1 => ToSet(rep.todo) = {Head(rep.todo)}
    BY <1>1, <1>4, TailSeq
  <2>3. heard \cup ToSet(notes) \subseteq heard' \cup ToSet(notes')
    BY <1>1, <1>4, <2>1, <2>2, EmptyFacts
  <2>4. rep'.pc = "push" /\ rep'.at = rep.at /\ rep'.lastNotify = rep.lastNotify
    BY <1>1, <2>1 DEF RepShape
  <2> QED BY <1>1, <1>4, <2>3, <2>4
<1> QED BY <1>2, <1>3, <1>4

LEMMA WordPush ==
  ASSUME TypeOK, ReportInv, WordInv, WordInTime,
         NEW ok \in BOOLEAN, NEW arrived \in BOOLEAN, Push(ok, arrived)
  PROVE  WordInv'
<1>1. /\ rep.pc = "push" /\ proc.up /\ proc.pc = "idle" /\ UNCHANGED <<vars, cut>>
  BY DEF Push, ReportInv, ActsOnRecord
<1>2. /\ heard \cup ToSet(notes) \subseteq heard' \cup ToSet(notes')
      /\ rep'.at = rep.at /\ rep'.lastNotify = rep.lastNotify
      /\ \/ rep'.pc = "push"
         \/ rep'.pc = "drain" /\ (Notification \in heard' \cup ToSet(notes') \/ rep.at \in refused')
      /\ refused \subseteq refused'
  BY PushTells
<1>3. AtThisMoment
  BY <1>1, <1>2 DEF AtThisMoment, vars, WordInv, Clocked
<1>4. ASSUME NEW a \in Nat, Telling(a)
      PROVE  Telling(a)' \/ rep.at \in cut' \cup refused'
             \/ \E n \in heard' \cup ToSet(notes') : n.ts = rep.at
  <2>1. CASE rep'.pc = "push"
    BY <1>1, <1>2, <1>4, <2>1 DEF Telling, Foretells, vars
  <2>2. Notification.ts = rep.at
    BY DEF Notification
  <2> QED BY <1>2, <2>1, <2>2
<1>5. ASSUME NEW a \in Nat, HeldBack(a) PROVE HeldBack(a)'
  BY <1>1, <1>2, <1>5 DEF HeldBack, vars
<1> QED BY <1>1, <1>2, <1>3, <1>4, <1>5, WordGoesOn

LEMMA WordDrain ==
  ASSUME TypeOK, ReportInv, WordInv, WordInTime,
         BeginDrain \/ \E ok, arrived \in BOOLEAN : Post(ok, arrived)
  PROVE  WordInv'
<1>1. /\ rep.pc \in {"drain", "post"} /\ proc.up /\ proc.pc = "idle" /\ RepShape
      /\ UNCHANGED <<vars, notes, heard, cut, refused>>
  BY DEF BeginDrain, Post, ReportInv, ActsOnRecord
<1>2. rep'.at = rep.at /\ rep'.lastNotify = rep.lastNotify /\ rep'.pc # "report"
  <2>1. CASE BeginDrain
    BY <1>1, <2>1 DEF BeginDrain, RepShape
  <2>2. CASE \E ok, arrived \in BOOLEAN : Post(ok, arrived)
    <3>1. PICK ok \in BOOLEAN, arrived \in BOOLEAN : Post(ok, arrived)
      BY <2>2
    <3>2. \/ rep' = [rep EXCEPT !.pc = "idle", !.todo = <<>>]
          \/ rep' = [rep EXCEPT !.todo = Tail(@)] /\ rep.pc = "post"
      BY <3>1, Zenon DEF Post
    <3> QED BY <1>1, <3>2 DEF RepShape
  <2> QED BY <2>1, <2>2
<1>3. AtThisMoment
  BY <1>1 DEF AtThisMoment, vars, WordInv, Clocked
<1>4. \A a : ~Telling(a)
  BY <1>1 DEF Telling
<1>5. ASSUME NEW a \in Nat, HeldBack(a) PROVE HeldBack(a)'
  BY <1>1, <1>2, <1>5 DEF HeldBack, vars
<1> QED BY <1>1, <1>2, <1>3, <1>4, <1>5, WordGoesOn

LEMMA WordCrash ==
  ASSUME TypeOK, ReportInv, WordInv, WordInTime, ReportedCrash
  PROVE  WordInv'
<1>1. /\ proc' = Dead /\ UNCHANGED <<now, disk, heard, notes, refused>> /\ rep' = Silent
      /\ cut' = IF rep.pc = "idle" THEN cut ELSE cut \cup {rep.at}
      /\ now \in Nat /\ disk.announcedAt \in OrNull(Nat)
  BY DEF ReportedCrash, Crash, TypeOK, Ledger
<1>2. /\ ~Dead.up /\ Dead.intent = Null /\ Silent.pc = "idle" /\ Silent.lastNotify = Null
  BY DEF Dead, Silent
<1>3. Clocked'
  BY <1>1, <1>2 DEF Clocked
<1>4. ASSUME NEW a
      PROVE  (Lapsed(a) => Lapsed(a)') /\ (Pushed(a) => Pushed(a)')
  <2>1. /\ now \in Nat /\ now' \in Nat /\ now <= now' /\ ~proc'.up
        /\ cut \cup refused \subseteq cut' \cup refused'
        /\ heard \cup ToSet(notes) \subseteq heard' \cup ToSet(notes')
    BY <1>1, <1>2
  <2> QED BY <2>1, ToldStays
<1>5. RebootForeseen'
  BY <1>1, <1>2 DEF RebootForeseen
<1>6. Foretold'
  <2>1. PICK a : a = disk.announcedAt
    OBVIOUS
  <2>2. SUFFICES ASSUME a # Null
                 PROVE  a <= now /\ (Lapsed(a)' \/ Pushed(a)' \/ Restarting')
    BY <1>1, <1>2, <2>1 DEF Foretold
  <2>3. a \in Nat /\ a <= now
    BY <1>1, <2>1, <2>2 DEF WordInv, Foretold, OrNull
  <2>4. CASE rep.pc = "idle"
    BY <1>1, <1>2, <2>3 DEF Restarting
  <2>5. CASE rep.pc # "idle"
    <3>1. rep.at \in Nat /\ rep.at <= now /\ a <= rep.at /\ rep.at \in cut'
      BY <1>1, <2>1, <2>2, <2>5 DEF WordInv, Clocked, Past, Foretold
    <3>2. Lapsed(a)'
      BY <1>1, <3>1 DEF Lapsed
    <3> QED BY <2>3, <3>2
  <2> QED BY <2>4, <2>5
<1> QED BY <1>3, <1>5, <1>6 DEF WordInv

\* Around the report: the call and its answer, the people, a restart, and time itself.
LEMMA WordAround ==
  ASSUME TypeOK, ReportInv, WordInv, WordInTime, UNCHANGED reportVars, UNCHANGED disk,
         now \in Nat, now' \in Nat,
         proc'.pc = "idle" => proc'.intent = Null, proc'.intent \in {Null, proc.intent},
         proc'.pc = "idle" <=> proc.pc = "idle",
         \/ /\ now' = now /\ proc'.up = proc.up /\ proc'.startedAt = proc.startedAt
            /\ proc'.ticked = proc.ticked
         \/ now' = now /\ ~proc.up /\ proc'.startedAt = now /\ ~proc'.ticked /\ proc'.pc = "idle"
         \/ /\ proc'.up = proc.up /\ proc'.startedAt = proc.startedAt /\ ~proc'.ticked
            /\ now' = now + 1 \/ (now' = now /\ now >= MaxTime)
            /\ (proc.up /\ proc.pc = "idle" => proc.ticked)
  PROVE  WordInv'
<1>1. /\ rep' = rep /\ cut' = cut /\ refused' = refused /\ heard' = heard /\ notes' = notes
      /\ disk.announcedAt \in OrNull(Nat) /\ now <= now'
  BY DEF reportVars, TypeOK, Ledger
<1>2. ASSUME NEW a PROVE (Lapsed(a) => Lapsed(a)') /\ (Pushed(a) => Pushed(a)')
  <2>1. /\ cut \cup refused \subseteq cut' \cup refused'
        /\ heard \cup ToSet(notes) \subseteq heard' \cup ToSet(notes')
    BY <1>1
  <2>2. ~proc'.up \/ proc'.startedAt = now' \/ (proc.up /\ proc'.startedAt = proc.startedAt)
    BY <1>1
  <2> QED BY <1>1, <2>1, <2>2, ToldStays
<1>3. RebootForeseen'
  BY <1>1, ForeseenStays DEF WordInv
<1>4. Clocked'
  <2>1. ASSUME NEW t, Past(t), proc.up PROVE Past(t)'
    <3>1. t \in Nat /\ t <= now /\ (t = now => proc.ticked \/ now >= MaxTime) /\ MaxTime \in Nat
      BY <2>1, Spans DEF Past
    <3>2. CASE now' = now /\ proc'.ticked = proc.ticked
      BY <3>1, <3>2 DEF Past
    <3>3. CASE now' = now + 1
      BY <3>1, <3>3 DEF Past
    <3>4. CASE now' = now /\ now >= MaxTime
      BY <3>1, <3>4 DEF Past
    <3> QED BY <2>1, <3>2, <3>3, <3>4
  <2>2. rep.pc # "idle" \/ rep.lastNotify # Null => proc.up
    BY DEF WordInv, Clocked
  <2>3. rep.lastNotify # Null => Past(rep.lastNotify)'
    <3>1. PICK t : t = rep.lastNotify
      OBVIOUS
    <3> QED BY <1>1, <2>1, <2>2, <3>1 DEF WordInv, Clocked
  <2>4. rep.pc # "idle" => Past(rep.at)'
    <3>1. PICK t : t = rep.at
      OBVIOUS
    <3> QED BY <1>1, <2>1, <2>2, <3>1 DEF WordInv, Clocked
  <2>5. ~proc'.up => ~proc.up
    OBVIOUS
  <2> QED BY <1>1, <2>3, <2>4, <2>5 DEF WordInv, Clocked
<1>5. Foretold'
  <2>1. PICK a : a = disk.announcedAt
    OBVIOUS
  <2>2. SUFFICES ASSUME a # Null
                 PROVE  \/ Lapsed(a)' \/ Pushed(a)' \/ Telling(a)' \/ HeldBack(a)' \/ Restarting'
    BY <1>1, <2>1 DEF WordInv, Foretold, OrNull
  <2>3. a \in Nat /\ (Lapsed(a) \/ Pushed(a) \/ Telling(a) \/ HeldBack(a) \/ Restarting)
    BY <1>1, <2>1, <2>2 DEF WordInv, Foretold, OrNull
  <2>4. CASE Lapsed(a) \/ Pushed(a)
    BY <1>2, <2>4
  <2>5. CASE Telling(a)
    <3>1. PICK x : x = rep.at
      OBVIOUS
    <3>2. Foretells(a, x)'
      BY <1>1, <2>5, <3>1, WindowStays DEF Telling
    <3>3. Foretells(a, rep.at)'
      BY <1>1, <3>1, <3>2 DEF Foretells
    <3> QED BY <1>1, <2>5, <3>3 DEF Telling
  <2>6. CASE HeldBack(a)
    <3>1. /\ proc.up /\ proc.pc = "idle" /\ rep.lastNotify \in Nat /\ rep.lastNotify < a
          /\ rep.pc = "report" => Throttled(rep)
          /\ \/ now < rep.lastNotify + NotifyInterval
             \/ now = rep.lastNotify + NotifyInterval /\ ~proc.ticked
      BY <2>6 DEF HeldBack, WordInv, Clocked, Past
    <3>2. /\ proc'.up /\ proc'.pc = "idle"
          /\ \/ now' = now /\ proc'.ticked = proc.ticked
             \/ proc.ticked /\ ~proc'.ticked /\ now' = now + 1
             \/ proc.ticked /\ ~proc'.ticked /\ now' = now
      BY <3>1
    <3>3. \/ now' < rep.lastNotify + NotifyInterval
          \/ now' = rep.lastNotify + NotifyInterval /\ ~proc'.ticked
      BY <3>1, <3>2, Spans
    <3> QED BY <1>1, <3>1, <3>2, <3>3, NullAssumption DEF HeldBack
  <2>7. CASE Restarting
    BY <1>1, <2>7 DEF Restarting
  <2> QED BY <2>3, <2>4, <2>5, <2>6, <2>7
<1> QED BY <1>3, <1>4, <1>5 DEF WordInv

LEMMA WordStep ==
  ASSUME TypeOK, TypeOK', ReportInv, WordInv, WordInTime, [ReportNext]_allVars
  PROVE  WordInv'
<1>0. now \in Nat /\ now' \in Nat /\ proc \in Process /\ MaxTime \in Nat
  BY Spans DEF TypeOK
<1>1. CASE ReportedEvaluation
  <2>1. PICK e \in Evidence, eventsRead \in May("events_unread"), written \in BOOLEAN :
           ReportedTick(e, eventsRead, written)
    BY <1>1 DEF ReportedEvaluation, May
  <2> QED BY <2>1, WordTick
<1>2. CASE \E written \in May("write_error"), addressed \in BOOLEAN : ReportedClose(written, addressed)
  <2>1. PICK written \in BOOLEAN, addressed \in BOOLEAN : ReportedClose(written, addressed)
    BY <1>2 DEF May
  <2> QED BY <2>1, WordClose
<1>3. CASE Reporting
  BY <1>3, WordReport, WordPush, WordDrain DEF Reporting
<1>4. CASE ReportedCrash
  BY <1>4, WordCrash
<1>5. CASE (Request \/ \E arrived \in BOOLEAN : NoAnswer(arrived)) /\ UNCHANGED reportVars
  <2>1. /\ UNCHANGED <<now, disk>>
        /\ proc'.up = proc.up /\ proc'.startedAt = proc.startedAt /\ proc'.ticked = proc.ticked
        /\ proc'.intent = proc.intent /\ proc.pc # "idle" /\ proc'.pc # "idle"
    BY <1>0, <1>5 DEF Request, NoAnswer, Process
  <2> QED BY <1>0, <1>5, <2>1, WordAround
<1>6. CASE Respond /\ UNCHANGED reportVars
  <2>1. PICK r \in inflight, outcome \in Outcomes : Answer(r, outcome)
    BY <1>6 DEF Respond, Decline, Execute, Throw, Outcomes
  <2>2. /\ UNCHANGED <<now, disk>>
        /\ proc'.up = proc.up /\ proc'.startedAt = proc.startedAt /\ proc'.ticked = proc.ticked
        /\ proc'.intent = proc.intent /\ (proc'.pc = "idle" <=> proc.pc = "idle")
    BY <1>0, <2>1 DEF Answer, Process
  <2>3. proc.pc = "idle" => proc.intent = Null
    BY DEF WordInv, Clocked
  <2> QED BY <1>0, <1>6, <2>2, <2>3, WordAround
<1>7. CASE Restart /\ UNCHANGED reportVars
  <2>1. /\ UNCHANGED <<now, disk>> /\ ~proc.up /\ proc'.startedAt = now /\ ~proc'.ticked
        /\ proc'.pc = "idle" /\ proc'.intent = Null
    BY <1>7 DEF Restart, Started, Dead
  <2>2. proc.pc = "idle"
    BY <2>1 DEF ReportInv, ActsOnRecord, WordInv, Clocked
  <2> QED BY <1>0, <1>7, <2>1, <2>2, WordAround
<1>8. CASE ReportedElapse
  <2>1. /\ UNCHANGED <<disk, reportVars>> /\ (now' = now + 1 \/ (now' = now /\ now >= MaxTime))
        /\ proc.up /\ proc.pc = "idle" => proc.ticked
        /\ proc' = [proc EXCEPT !.ticked = FALSE]
    BY <1>0, <1>8 DEF ReportedElapse, Elapse, WordInTime
  <2>2. /\ proc'.up = proc.up /\ proc'.startedAt = proc.startedAt /\ ~proc'.ticked
        /\ proc'.intent = proc.intent /\ proc'.pc = proc.pc
    BY <1>0, <2>1 DEF Process
  <2>3. proc.pc = "idle" => proc.intent = Null
    BY DEF WordInv, Clocked
  <2> QED BY <1>0, <2>1, <2>2, <2>3, WordAround
<1>9. CASE (Intervene \/ TouchDisarm \/ UNCHANGED vars) /\ UNCHANGED reportVars
  <2>1. UNCHANGED <<now, disk, proc>>
    BY <1>9 DEF Intervene, TouchDisarm, vars
  <2>2. proc.pc = "idle" => proc.intent = Null
    BY DEF WordInv, Clocked
  <2> QED BY <1>0, <1>9, <2>1, <2>2, WordAround
<1> QED BY <1>1, <1>2, <1>3, <1>4, <1>5, <1>6, <1>7, <1>8, <1>9
        DEF ReportNext, ReportedPerforming, allVars

LEMMA WordInit == ASSUME ReportInit PROVE WordInv
<1>1. /\ proc = Started(0) /\ Started(0).up /\ Started(0).intent = Null
      /\ Silent.pc = "idle" /\ Silent.lastNotify = Null /\ disk.announcedAt = Null
  BY DEF ReportInit, Init, Started, Dead, Silent, EmptyLedger
<1>2. rep = Silent
  BY DEF ReportInit
<1> QED BY <1>1, <1>2 DEF WordInv, Clocked, Foretold, RebootForeseen

\* No reboot is on its way of which the monitor was not told beforehand, through throttled
\* notifications, failed pushes, deaths and restarts, unless the tick that was to tell was cut
\* short or found the spool full: as long as the interval of the notifications is within the
\* announced lead, a process acts only at some age, and the loop ticks on (collector/watchdog.ts
\* `notify`; collector/watchdog-ladder.ts `announce_pending`, `process_too_young`).
THEOREM RebootIsForeseen == ReportSpec /\ WordInTime => []RebootForeseen
<1> SUFFICES ASSUME WordInTime PROVE ReportSpec => []RebootForeseen
  OBVIOUS
<1>1. ReportInit => IInv /\ ReportInv /\ WordInv
  BY IInvInit, ReportInvInit, WordInit DEF ReportInit
<1>2. IInv /\ ReportInv /\ WordInv /\ [ReportNext]_allVars => (IInv /\ ReportInv /\ WordInv)'
  <2> SUFFICES ASSUME IInv, ReportInv, WordInv, [ReportNext]_allVars
               PROVE  (IInv /\ ReportInv /\ WordInv)'
    OBVIOUS
  <2>1. IInv' /\ ReportInv'
    BY IInvStep, ReportIsWatchdog, ReportInvStep DEF IInv
  <2> QED BY <2>1, WordStep DEF IInv
<1>3. WordInv => RebootForeseen
  BY DEF WordInv
<1> QED BY <1>1, <1>2, <1>3, PTL DEF ReportSpec
=============================================================================
