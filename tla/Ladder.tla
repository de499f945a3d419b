------------------------------- MODULE Ladder -------------------------------
(***************************************************************************)
(* The judgement of the line watchdog: collector/watchdog-ladder.ts, which *)
(* is a pure function.  Of everything one evaluation looks at, `Judge` is  *)
(* the decision and `Advance` the ledger it implies; `RecordOutcome`       *)
(* closes an action once it has been answered.  There is no state here:    *)
(* Watchdog.tla runs these operators against a disk, a clock and a line.   *)
(*                                                                         *)
(* Times are natural numbers in the unit of `Policy`.  Wording (the notes  *)
(* and log lines) is left out, a list of blockers is a set, and an outage  *)
(* key, which the code formats from T0, is T0 itself.                      *)
(***************************************************************************)
EXTENDS Naturals, FiniteSets

CONSTANTS
  Policy,   \* WatchdogPolicy: the thresholds, with the literals of the code beside them
  Null      \* the code's null

PolicyShape ==
  [ confirmTicks : Nat, observeS : Nat, reconnectSettleS : Nat, rebootAtS : Nat,
    rebootAtSv4Only : Nat, rebootSettleS : Nat, exhaustAtS : Nat, announceLeadS : Nat,
    resyncGraceS : Nat, staleSampleS : Nat, reconnectMinIntervalS : Nat,
    reconnectMaxPer24h : Nat, rebootMinIntervalS : Nat, rebootMaxPer24h : Nat,
    postActionCooldownS : Nat, escalationQuietS : Nat, v6BaselineMaxAgeS : Nat,
    recoverAfterS : Nat, latchAfterActions : Nat, latchClearAfterCleanS : Nat,
    humanQuietS : Nat, minProcessAgeS : Nat,
    armed : BOOLEAN, rebootEnabled : BOOLEAN, rebootOnV4Only : BOOLEAN,
    minCycles : Nat, freshPollS : Nat, dayS : Nat, retentionS : Nat ]

ASSUME PolicyAssumption == Policy \in PolicyShape

Verbs == {"reconnect", "reboot"}
Rungs == {"observe", "reconnect", "reboot", "exhausted"}
Outcomes == {"executed", "failed", "not_executed", "unknown"}
Classes == {"healthy", "partial", "no_evidence", "off_home_line", "local_link_down",
            "carrier_down", "full_wan_down", "v4_only_down", "wan_down_v6_unknown"}

OrNull(S) == S \cup {Null}

(***************************************************************************)
(* The evidence of one evaluation.  A set of anchors is "up" (all answer), *)
(* "some" (some do not) or "down" (none does); a stored timestamp is the   *)
(* age it has at the evaluation.                                           *)
(***************************************************************************)
RecordEvidence ==
  [ sampleAge : Nat, wan : {"up", "some", "down"}, gatewayDown : BOOLEAN,
    onHomeLine : {"yes", "no", "unknown"}, gatewayAddr : OrNull(STRING),
    linkGap : BOOLEAN, speedtestRunning : BOOLEAN,
    wanOutage : OrNull([age : Nat, cycles : Nat]), gatewayOutage : OrNull([age : Nat]) ]

SelfEvidence ==
  [ wan : {"up", "some", "down"}, gatewayDown : BOOLEAN,
    onHomeLine : {"yes", "no", "unknown"}, ethernet : BOOLEAN,
    gatewayAddr : OrNull(STRING), v6 : {"unprobed", "down", "up"} ]

CarrierEvidence ==
  [ stale : BOOLEAN, line : {"up", "down", "unknown"},
    showtimeS : OrNull(Nat), pollAge : OrNull(Nat) ]

EvidenceShape ==
  [ record : OrNull(RecordEvidence), self : OrNull(SelfEvidence),
    carrier : OrNull(CarrierEvidence), writeEnabled : BOOLEAN, canRecord : BOOLEAN ]

LedgerAction == [ts : Nat, kind : Verbs, key : Nat, outcome : Outcomes]
PendingAction == [ts : Nat, kind : Verbs, key : Nat]

ASSUME NullAssumption == Null \notin Nat /\ Null \notin STRING /\ Null \notin PendingAction

Ledger ==
  [ t0 : OrNull(Nat), rung : Rungs, settleUntil : OrNull(Nat), announcedAt : OrNull(Nat),
    actions : SUBSET LedgerAction, pending : OrNull(PendingAction), v6LastUp : OrNull(Nat),
    cooldownUntil : OrNull(Nat), lastEscalation : OrNull(Nat),
    consecutive : Nat, healthySince : OrNull(Nat) ]

EmptyLedger ==
  [ t0 |-> Null, rung |-> "observe", settleUntil |-> Null, announcedAt |-> Null,
    actions |-> {}, pending |-> Null, v6LastUp |-> Null, cooldownUntil |-> Null,
    lastEscalation |-> Null, consecutive |-> 0, healthySince |-> Null ]

-----------------------------------------------------------------------------
(* Classification.  The first match wins; the order is the meaning. *)

RecordFresh(in) == in.record # Null /\ in.record.sampleAge <= Policy.staleSampleS

V6Usable(in) ==
  /\ in.self # Null /\ in.self.v6 # "unprobed"
  /\ in.ledger.v6LastUp # Null
  /\ in.now <= in.ledger.v6LastUp + Policy.v6BaselineMaxAgeS

\* Both sources that can speak say that no anchor answers.
AgreedDown(in) ==
  /\ in.self # Null => in.self.wan = "down"
  /\ RecordFresh(in) => in.record.wan = "down"

NotInShowtime(in) ==
  in.carrier # Null /\ ~in.carrier.stale /\ in.carrier.line = "down"

GatewayDown(in) ==
  \/ in.self # Null /\ in.self.gatewayDown
  \/ RecordFresh(in) /\ in.record.gatewayDown

OffHomeLine(in) ==
  \/ in.self # Null /\ in.self.onHomeLine # "yes"
  \/ RecordFresh(in) /\ in.record.onHomeLine # "yes"

SomeAnchorDown(in) ==
  \/ in.self # Null /\ in.self.wan # "up"
  \/ RecordFresh(in) /\ in.record.wan # "up"

Classify(in) ==
  IF in.self = Null /\ ~RecordFresh(in) THEN "no_evidence"
  ELSE IF OffHomeLine(in) THEN "off_home_line"
  ELSE IF GatewayDown(in) THEN "local_link_down"
  ELSE IF AgreedDown(in)
  THEN IF NotInShowtime(in) THEN "carrier_down"
       ELSE IF in.self # Null /\ in.self.v6 = "up" THEN "v4_only_down"
       ELSE IF V6Usable(in) THEN "full_wan_down" ELSE "wan_down_v6_unknown"
  ELSE IF SomeAnchorDown(in) THEN "partial"
  ELSE "healthy"

Healthy(class) == class \in {"healthy", "partial"}
Actionable == {"full_wan_down", "v4_only_down", "wan_down_v6_unknown"}
Escalatable == Actionable \cup {"local_link_down", "carrier_down"}

\* Where the record dates the outage: the earliest scope still open.
RecordedStarts(in) ==
  IF in.record = Null THEN {}
  ELSE {in.now - o.age : o \in {in.record.wanOutage, in.record.gatewayOutage} \ {Null}}

RecordedOutageStart(in) ==
  IF RecordedStarts(in) = {} THEN Null
  ELSE CHOOSE s \in RecordedStarts(in) : \A t \in RecordedStarts(in) : s <= t

-----------------------------------------------------------------------------
(* Preconditions.  All that fail are reported, so each rung has a set. *)

ActionsOf(L, kind) == {a \in L.actions : a.kind = kind}

\* Mutant: only acknowledged actions hold the next one back.
WithinInterval_Executed(in, kind, interval) ==
  \E a \in ActionsOf(in.ledger, kind) : a.outcome = "executed" /\ in.now < a.ts + interval

WithinInterval(in, kind, interval) ==
  \E a \in ActionsOf(in.ledger, kind) : in.now < a.ts + interval

\* Mutant: one more than the daily limit.
RateLimited_OffByOne(in, kind, limit) ==
  Cardinality({a \in ActionsOf(in.ledger, kind) : in.now <= a.ts + Policy.dayS}) > limit

RateLimited(in, kind, limit) ==
  Cardinality({a \in ActionsOf(in.ledger, kind) : in.now <= a.ts + Policy.dayS}) >= limit

If(cond, name) == IF cond THEN {name} ELSE {}

SharedBlockers(in, class) ==
  LET L == in.ledger
      rec == in.record # Null
      self == in.self # Null
      current == in.carrier # Null /\ ~in.carrier.stale
  IN UNION {
    If(in.disarmed, "disarmed_file"),
    If(~in.armed, "not_armed"),
    If(L.consecutive >= Policy.latchAfterActions, "latched"),
    If(self => in.self.onHomeLine # "yes", "off_home_line"),
    If(rec /\ in.record.onHomeLine # "yes", "off_home_line_record"),
    If(self /\ in.self.gatewayDown, "gateway_down"),
    If(rec /\ in.record.gatewayDown, "gateway_down_record"),
    If(self /\ ~in.self.ethernet, "not_ethernet"),
    If(self /\ rec /\ in.self.gatewayAddr # in.record.gatewayAddr, "gateway_addr_mismatch"),
    If(~self /\ ~RecordFresh(in), "no_evidence"),
    If(rec /\ in.record.linkGap, "link_coverage_incomplete"),
    If(class \notin Actionable, "class"),
    If(current /\ in.carrier.line = "down", "carrier_down"),
    If(current /\ in.carrier.showtimeS # Null /\ in.carrier.showtimeS < Policy.resyncGraceS,
       "resync_grace"),
    If(L.pending # Null, "action_pending"),
    If(L.cooldownUntil # Null /\ in.now < L.cooldownUntil, "post_action_cooldown"),
    If(in.humanTs # Null /\ in.now < in.humanTs + Policy.humanQuietS, "human_quiet_period"),
    If(in.now < in.startedAt + Policy.minProcessAgeS, "process_too_young"),
    If(rec /\ in.record.speedtestRunning, "speedtest_running"),
    If(~in.canRecord, "cannot_record") }

Cycles(in) ==
  IF in.record # Null /\ in.record.wanOutage # Null THEN in.record.wanOutage.cycles ELSE 0

ReconnectBlockers(in) ==
  If(Cycles(in) < Policy.minCycles /\ in.held < Policy.minCycles, "insufficient_cycles")
  \cup If(WithinInterval(in, "reconnect", Policy.reconnectMinIntervalS), "reconnect_min_interval")
  \cup If(RateLimited(in, "reconnect", Policy.reconnectMaxPer24h), "reconnect_rate_limit")

RebootBlockers(in, class) ==
  LET L == in.ledger
      freshPoll == /\ in.carrier # Null /\ in.carrier.pollAge # Null
                   /\ in.carrier.pollAge <= Policy.freshPollS
  IN UNION {
    If(~Policy.rebootEnabled, "reboot_disabled"),
    If(class = "v4_only_down" /\ ~Policy.rebootOnV4Only, "reboot_on_v4_only_disabled"),
    If(L.rung = "observe", "ladder_not_advanced"),
    If(WithinInterval(in, "reboot", Policy.rebootMinIntervalS), "reboot_min_interval"),
    If(RateLimited(in, "reboot", Policy.rebootMaxPer24h), "reboot_rate_limit"),
    If(~freshPoll, "no_fresh_poll"),
    If(L.announcedAt = Null, "not_announced"),
    If(L.announcedAt # Null /\ in.now < L.announcedAt + Policy.announceLeadS,
       "announce_pending") }
-----------------------------------------------------------------------------
(* The judgement on the ledger as it stands. *)

\* A decision that proposes nothing and leaves the ladder where it is.
Standing(in, class, state, why) ==
  [ state |-> state, class |-> class, action |-> "none", shadow |-> FALSE,
    blockedBy |-> why, t0 |-> in.ledger.t0, rung |-> in.ledger.rung ]

\* A rung that is due: taken, suppressed for want of a capability, or blocked.
Due(in, class, t0, kind, blockers) ==
  LET authorised == blockers = {}
      shadow == authorised /\ ~in.live
  IN [ state |-> IF authorised THEN "armed" ELSE "blocked", class |-> class,
       action |-> IF authorised /\ ~shadow THEN kind ELSE "none",
       shadow |-> shadow, blockedBy |-> blockers, t0 |-> t0, rung |-> kind ]

\* Mutant: the first healthy look ends the outage.
WhenHealthy_Unheld(in, class) ==
  Standing(in, class, IF in.ledger.t0 = Null THEN "normal" ELSE "recovered", {})

WhenHealthy(in, class) ==
  LET since == IF in.ledger.healthySince = Null THEN in.now ELSE in.ledger.healthySince
  IN IF in.ledger.t0 = Null THEN Standing(in, class, "normal", {})
     ELSE IF in.now >= since + Policy.recoverAfterS THEN Standing(in, class, "recovered", {})
     ELSE Standing(in, class, "recovering", {"recovery_not_sustained"})

\* Mutant: T0 is read off the record on every evaluation.
LadderStart_Fresh(in) ==
  IF RecordedOutageStart(in) # Null THEN RecordedOutageStart(in) ELSE in.now

\* T0 is the outage's own start, so that a restart does not restart the clock.
LadderStart(in) ==
  IF in.ledger.t0 # Null THEN in.ledger.t0
  ELSE IF RecordedOutageStart(in) # Null THEN RecordedOutageStart(in) ELSE in.now

WhenExhausted(in, class, t0) ==
  LET quiet == /\ in.ledger.lastEscalation # Null
               /\ in.now < in.ledger.lastEscalation + Policy.escalationQuietS
      worthWaking == class \in Escalatable /\ ~in.disarmed
  IN [ state |-> "exhausted", class |-> class,
       action |-> IF worthWaking /\ ~quiet THEN "escalate" ELSE "none",
       shadow |-> FALSE,
       blockedBy |-> SharedBlockers(in, class) \cup If(~worthWaking, "no_escalation"),
       t0 |-> t0, rung |-> "exhausted" ]

WhenRebootDue(in, class, t0) ==
  LET blockers == SharedBlockers(in, class) \cup RebootBlockers(in, class)
  IN IF blockers = {"not_announced"}
     THEN [ state |-> "pre_announce", class |-> class, action |-> "announce",
            shadow |-> FALSE, blockedBy |-> {}, t0 |-> t0, rung |-> "reboot" ]
     ELSE Due(in, class, t0, "reboot", blockers)

RebootDueAt(class) ==
  IF class = "v4_only_down" THEN Policy.rebootAtSv4Only ELSE Policy.rebootAtS

WhenDown(in, class) ==
  LET L == in.ledger
      t0 == LadderStart(in)
  IN IF L.settleUntil # Null /\ in.now < L.settleUntil
     THEN [Standing(in, class, "settling", {"settling"}) EXCEPT !.t0 = t0]
     ELSE IF in.now >= t0 + Policy.exhaustAtS THEN WhenExhausted(in, class, t0)
     ELSE IF in.now >= t0 + RebootDueAt(class) /\ L.rung # "observe"
     THEN WhenRebootDue(in, class, t0)
     ELSE IF in.now >= t0 + Policy.observeS
     THEN Due(in, class, t0, "reconnect", SharedBlockers(in, class) \cup ReconnectBlockers(in))
     ELSE [Standing(in, class, "confirmed", {}) EXCEPT !.t0 = t0, !.rung = "observe"]

Evaluate(in, class) ==
  IF in.ledger.pending # Null THEN Standing(in, class, "settling", {"action_pending"})
  ELSE IF Healthy(class) THEN WhenHealthy(in, class)
  ELSE IF in.ledger.consecutive >= Policy.latchAfterActions
  THEN Standing(in, class, "latched", {"latched"})
  ELSE IF in.held < Policy.confirmTicks THEN Standing(in, class, "suspect", {"confirming"})
  ELSE WhenDown(in, class)

Judge(in) == Evaluate(in, Classify(in))

-----------------------------------------------------------------------------
(* The ledger a decision implies: what must be on the disk before anything *)
(* is performed.                                                           *)

Rank == [observe |-> 0, reconnect |-> 1, reboot |-> 2, exhausted |-> 3]

\* What every evaluation does, whatever it decides.
Housekeep(in, class) ==
  LET L == in.ledger
      since == IF ~Healthy(class) THEN Null
               ELSE IF L.healthySince = Null THEN in.now ELSE L.healthySince
      clean == since # Null /\ in.now >= since + Policy.latchClearAfterCleanS
  IN [L EXCEPT
        !.actions = {a \in @ : in.now <= a.ts + Policy.retentionS},
        !.v6LastUp = IF in.self # Null /\ in.self.v6 = "up" THEN in.now ELSE @,
        !.healthySince = since,
        !.consecutive = IF clean THEN 0 ELSE @]

ActedIn(L) == \E a \in L.actions : a.key = L.t0

\* A sustained recovery tears the ladder down, and cools down if it had acted.
Recovered(in, L) ==
  [L EXCEPT !.t0 = Null, !.rung = "observe", !.settleUntil = Null, !.announcedAt = Null,
            !.cooldownUntil =
               IF ActedIn(in.ledger) THEN in.now + Policy.postActionCooldownS ELSE @]

\* Mutant: the key the ledger had before this evaluation captured one.
WriteAhead_OldKey(in, d) == [ts |-> in.now, kind |-> d.action, key |-> in.ledger.t0]

WriteAhead(in, d) == [ts |-> in.now, kind |-> d.action, key |-> d.t0]

\* An unhealthy evaluation: capture T0, climb, announce or escalate, write ahead.
Climb(in, L, d) ==
  LET settle == IF d.rung = "reboot" THEN Policy.rebootSettleS ELSE Policy.reconnectSettleS
      acts == d.action \in Verbs
  IN [L EXCEPT
        !.t0 = IF @ = Null THEN d.t0 ELSE @,
        !.rung = IF Rank[d.rung] > Rank[@] THEN d.rung ELSE @,
        !.announcedAt = IF d.action = "announce" THEN in.now ELSE @,
        !.lastEscalation = IF d.action = "escalate" THEN in.now ELSE @,
        !.pending = IF acts THEN WriteAhead(in, d) ELSE @,
        !.consecutive = IF acts THEN in.ledger.consecutive + 1 ELSE @,
        !.settleUntil = IF acts \/ d.shadow THEN in.now + settle ELSE @]

Advance(in, d) ==
  LET next == Housekeep(in, d.class)
  IN IF in.ledger.pending # Null THEN next
     ELSE IF ~Healthy(d.class) THEN Climb(in, next, d)
     ELSE IF d.state = "recovered" THEN Recovered(in, next)
     ELSE next

\* Close a write-ahead entry.  An action that never reached the line gives the
\* latch increment and the settle window back.
RecordOutcome(L, a) ==
  LET reached == a.outcome # "not_executed"
  IN [L EXCEPT
        !.pending = Null,
        !.actions = @ \cup {a},
        !.consecutive = IF reached \/ @ = 0 THEN @ ELSE @ - 1,
        !.settleUntil = IF reached THEN @ ELSE Null]
=============================================================================
