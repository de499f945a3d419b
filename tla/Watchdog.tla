------------------------------ MODULE Watchdog ------------------------------
(***************************************************************************)
(* The watchdog runner, collector/watchdog.ts: one evaluation after        *)
(* another over a ledger on the disk, with the write-ahead made durable    *)
(* before the action route is called and closed when the route answers.    *)
(* The process can die at any point and launchd starts it again; the call  *)
(* can time out while the container goes on executing it.                  *)
(*                                                                         *)
(* The judgement is Ladder.tla; the container's action route and executor  *)
(* are the four answers of src/routes/router-actions.ts.  `sent` and       *)
(* `seen` are history variables: nothing in the code reads them.           *)
(***************************************************************************)
EXTENDS Ladder

CONSTANTS
  Evidence,      \* the evidence an evaluation may meet, a subset of EvidenceShape
  MaxTime,       \* bound: the clock stops here, and the ticks go on
  MaxCrashes,    \* bound: deaths of the process
  Allowed,       \* the disturbances an instance admits, a subset of Disturbances
  TickDeadlineS, \* a tick older than this is abandoned (watchdog.ts tickDeadlineMs)
  Corrupt        \* a ledger file that cannot be understood

Disturbances == {"write_error", "events_unread", "slow_tick", "intervene", "disarm"}

ASSUME WatchdogAssumption ==
  /\ Evidence \subseteq EvidenceShape /\ Corrupt \notin Ledger
  /\ MaxTime \in Nat /\ MaxCrashes \in Nat /\ TickDeadlineS \in Nat /\ Allowed \subseteq Disturbances

\* As in DEFAULT_POLICY: a ladder is exhausted before an action may be repeated (15 minutes
\* against one hour and six), and an action is remembered for longer than that (two days).
ASSUME SpacingAssumption ==
  \A interval \in {Policy.reconnectMinIntervalS, Policy.rebootMinIntervalS} :
    0 < interval /\ Policy.exhaustAtS <= interval /\ interval <= Policy.retentionS

\* As there: a day is remembered whole, and neither a recovery nor a clean window is over
\* in the evaluation that begins it.
ASSUME RationAssumption ==
  /\ Policy.dayS <= Policy.retentionS
  /\ 0 < Policy.recoverAfterS /\ 0 < Policy.latchClearAfterCleanS

VARIABLES
  now,        \* the wall clock, in ticks
  disk,       \* the ledger file
  proc,       \* the watchdog process: its volatile state and its place in a tick
  inflight,   \* action requests the container is executing
  rows,       \* newest `intervention` row whose source is not 'watchdog', or Null
  disarmed,   \* the disarm file exists
  crashes,    \* how often the process has died
  sent,       \* history: actions whose verb reached the line
  seen        \* history: what the evaluations so far have shown

vars == <<now, disk, proc, inflight, rows, disarmed, crashes, sent, seen>>

Dead == [up |-> FALSE, startedAt |-> 0, class |-> "healthy", held |-> 0, pc |-> "idle",
         intent |-> Null, answer |-> "unknown", ticked |-> FALSE]
Started(t) == [Dead EXCEPT !.up = TRUE, !.startedAt = t]

\* goodAt: the first of the healthy evaluations since the last unhealthy one, whether or not
\* the ledger could be written in them.  toldGoodAt: the same of those whose ledger was
\* written, which is all that the next process can know.  unsaid: within what the ledger was
\* told of as one clean stretch there was an unhealthy evaluation whose write threw.
\* clearedAt: the last evaluation that ended a clean window the ledger was told of.  acted:
\* when a ladder that had touched the line within retention was last torn down; what is older
\* the code has forgotten, and no cooldown follows an outage it outlasted.  human: the last
\* thing a person did to the line.
NothingSeen == [goodAt |-> Null, toldGoodAt |-> Null, unsaid |-> FALSE, clearedAt |-> 0,
                acted |-> Null, human |-> Null]

Init ==
  /\ now = 0 /\ disk = EmptyLedger /\ proc = Started(0)
  /\ inflight = {} /\ rows = Null /\ disarmed = FALSE /\ crashes = 0
  /\ sent = {} /\ seen = NothingSeen

-----------------------------------------------------------------------------
(* One evaluation. *)

Trusted == disk # Corrupt
ReadLedger == IF Trusted THEN disk ELSE EmptyLedger

InThePast(e) ==
  \A a \in ({e.record} \ {Null}) :
    \A o \in {a.wanOutage, a.gatewayOutage} \ {Null} : o.age <= now

\* What one tick hands to the ladder, but for the held count.
Gather(e, eventsRead) ==
  [ now |-> now, record |-> e.record, self |-> e.self, carrier |-> e.carrier,
    ledger |-> ReadLedger, armed |-> Policy.armed /\ Trusted,
    startedAt |-> proc.startedAt, disarmed |-> disarmed,
    live |-> Policy.armed /\ Trusted /\ e.writeEnabled,
    humanTs |-> IF eventsRead THEN rows ELSE Null, held |-> 0,
    canRecord |-> e.canRecord ]

\* `track`: consecutive ticks of this process that saw the same class.  Counted up
\* to the largest value anything compares it with.
HeldCap == IF Policy.minCycles > Policy.confirmTicks THEN Policy.minCycles ELSE Policy.confirmTicks
Track(class) ==
  IF class # proc.class THEN 1 ELSE IF proc.held < HeldCap THEN proc.held + 1 ELSE HeldCap

\* Every evaluation is seen, the ledger is told of those it is written in.
Seeing(d, written) ==
  LET Since(at) == IF ~Healthy(d.class) THEN Null ELSE IF at = Null THEN now ELSE at
      told == IF written THEN Since(seen.toldGoodAt) ELSE seen.toldGoodAt
  IN [seen EXCEPT
        !.goodAt = Since(@),
        !.toldGoodAt = told,
        !.unsaid = IF Healthy(d.class) THEN @ ELSE ~written /\ told # Null,
        !.clearedAt = IF written /\ told # Null /\ now >= told + Policy.latchClearAfterCleanS
                      THEN now ELSE @,
        !.acted = IF /\ written /\ d.state = "recovered"
                     /\ \E v \in sent : v.key = ReadLedger.t0 /\ now <= v.ts + Policy.retentionS
                  THEN now ELSE @]

\* Mutant: what people wrote down is read and not passed on.
Input_Unquiet(e, eventsRead) ==
  LET g == Gather(e, eventsRead)
  IN [g EXCEPT !.held = Track(Classify(g)), !.humanTs = Null]

\* The input of `decide`, with the class this tick saw counted into `held`.
Input(e, eventsRead) ==
  LET g == Gather(e, eventsRead) IN [g EXCEPT !.held = Track(Classify(g))]

\* `tick`, up to the call: read, gather, decide, and write the ledger before
\* anything is performed.  If the write throws, nothing is performed.
Tick(e, eventsRead, written) ==
  /\ proc.up /\ proc.pc = "idle" /\ ~proc.ticked /\ InThePast(e)
  /\ \E in \in {Input(e, eventsRead)} : \E d \in {Judge(in)} :
       LET acts == written /\ d.action \in Verbs
       IN /\ disk' = IF written THEN Advance(in, d) ELSE disk
          /\ proc' = [proc EXCEPT !.class = d.class, !.held = in.held, !.ticked = TRUE,
                        !.pc = IF acts THEN "written" ELSE @,
                        !.intent = IF acts THEN WriteAhead(in, d) ELSE @]
          /\ seen' = Seeing(d, written)
  /\ UNCHANGED <<now, inflight, rows, disarmed, crashes, sent>>

-----------------------------------------------------------------------------
(* `perform`: the call to the container's action route. *)

Request ==
  /\ proc.up /\ proc.pc = "written"
  /\ inflight' = inflight \cup {proc.intent}
  /\ proc' = [proc EXCEPT !.pc = "waiting"]
  /\ UNCHANGED <<now, disk, rows, disarmed, crashes, sent, seen>>

\* The answer reaches the process only if it is still waiting for this request.
Answer(r, outcome) ==
  /\ r \in inflight
  /\ inflight' = inflight \ {r}
  /\ proc' = IF proc.pc = "waiting" /\ proc.intent = r
             THEN [proc EXCEPT !.pc = "closing", !.answer = outcome] ELSE proc
  /\ UNCHANGED <<now, disk, disarmed, crashes, seen>>

\* 403, or the executor read the router and declined: nothing was sent.
Decline(r) ==
  /\ Answer(r, "not_executed")
  /\ UNCHANGED <<sent, rows>>

\* A verb went out and the route wrote it down as an intervention of the API.
Execute(r, outcome) ==
  /\ outcome = "unknown" => r.kind = "reboot"
  /\ Answer(r, outcome)
  /\ sent' = sent \cup {r}
  /\ rows' = now

\* The executor threw, so the route answers 5xx and writes nothing.  It may have
\* thrown before the first verb or after one.
Throw(r, reached) ==
  /\ Answer(r, "failed")
  /\ sent' = IF reached THEN sent \cup {r} ELSE sent
  /\ UNCHANGED rows

\* Mutant: a call that got no answer is taken for one that did nothing.
NoAnswer_Harmless(arrived) ==
  /\ proc.up /\ proc.pc = "waiting"
  /\ inflight' = IF arrived THEN inflight ELSE inflight \ {proc.intent}
  /\ proc' = [proc EXCEPT !.pc = "closing", !.answer = "not_executed"]
  /\ UNCHANGED <<now, disk, rows, disarmed, crashes, sent, seen>>

\* No answer: the request never arrived, or it timed out and is still executing.
NoAnswer(arrived) ==
  /\ proc.up /\ proc.pc = "waiting"
  /\ inflight' = IF arrived THEN inflight ELSE inflight \ {proc.intent}
  /\ proc' = [proc EXCEPT !.pc = "closing", !.answer = "unknown"]
  /\ UNCHANGED <<now, disk, rows, disarmed, crashes, sent, seen>>

Outcome(p) == [ts |-> p.intent.ts, kind |-> p.intent.kind, key |-> p.intent.key,
               outcome |-> p.answer]

\* `recordOutcome` and the second ledger write, which may throw.
Close(written) ==
  /\ proc.up /\ proc.pc = "closing"
  /\ disk' = IF written THEN RecordOutcome(disk, Outcome(proc)) ELSE disk
  /\ proc' = [proc EXCEPT !.pc = "idle", !.intent = Null, !.answer = "unknown"]
  /\ UNCHANGED <<now, inflight, rows, disarmed, crashes, sent, seen>>

-----------------------------------------------------------------------------
(* The world around the process. *)

\* A signal, an exception outside the loop, power, or `abandonHungTick`.
Crash ==
  /\ proc.up /\ crashes < MaxCrashes
  /\ proc' = Dead /\ crashes' = crashes + 1
  /\ UNCHANGED <<now, disk, inflight, rows, disarmed, sent, seen>>

Restart ==
  /\ ~proc.up
  /\ proc' = Started(now)
  /\ UNCHANGED <<now, disk, inflight, rows, disarmed, crashes, sent, seen>>

\* One tick of time.  The loop sleeps it out after an evaluation; an evaluation may
\* also take it, and a tick that is performing is abandoned at its deadline.
Elapse ==
  /\ proc.up /\ proc.pc = "idle" => proc.ticked \/ "slow_tick" \in Allowed
  /\ proc.pc # "idle" => now < proc.intent.ts + TickDeadlineS
  /\ now' = IF now < MaxTime THEN now + 1 ELSE now
  /\ proc' = [proc EXCEPT !.ticked = FALSE]
  /\ UNCHANGED <<disk, inflight, rows, disarmed, crashes, sent, seen>>

\* `make intervention`: a person writes down that they are working on the line.
Intervene ==
  /\ "intervene" \in Allowed
  /\ rows' = now /\ seen' = [seen EXCEPT !.human = now]
  /\ UNCHANGED <<now, disk, proc, inflight, disarmed, crashes, sent>>

\* The disarm file is touched or removed.
TouchDisarm ==
  /\ "disarm" \in Allowed
  /\ disarmed' = ~disarmed
  /\ UNCHANGED <<now, disk, proc, inflight, rows, crashes, sent, seen>>

May(d) == IF d \in Allowed THEN BOOLEAN ELSE {TRUE}

Evaluation ==
  \E e \in Evidence, eventsRead \in May("events_unread"), written \in May("write_error") :
    Tick(e, eventsRead, written)
Respond ==
  \E r \in inflight :
    \/ Decline(r)
    \/ \E outcome \in {"executed", "failed", "unknown"} : Execute(r, outcome)
    \/ \E reached \in BOOLEAN : Throw(r, reached)
Performing ==
  \/ Request
  \/ \E arrived \in BOOLEAN : NoAnswer(arrived)
  \/ \E written \in May("write_error") : Close(written)

Next ==
  \/ Evaluation \/ Performing \/ Respond
  \/ Crash \/ Restart \/ Elapse \/ Intervene \/ TouchDisarm

Spec == Init /\ [][Next]_vars

\* The loop keeps ticking, every await in it is bounded by a timeout, launchd
\* restarts what died, and time passes.  The container owes no answer.
Fairness ==
  /\ WF_vars(Evaluation) /\ WF_vars(Performing) /\ WF_vars(Restart) /\ WF_vars(Elapse)
FairSpec == Spec /\ Fairness

-----------------------------------------------------------------------------
(* Properties. *)

Process ==
  [ up : BOOLEAN, startedAt : Nat, class : Classes, held : Nat, ticked : BOOLEAN,
    pc : {"idle", "written", "waiting", "closing"}, intent : OrNull(PendingAction),
    answer : Outcomes ]
Sightings ==
  [ goodAt : OrNull(Nat), toldGoodAt : OrNull(Nat), unsaid : BOOLEAN, clearedAt : Nat,
    acted : OrNull(Nat), human : OrNull(Nat) ]

\* Every variable keeps its shape; the ledger file is always one this program wrote.
TypeOK ==
  /\ now \in Nat /\ disk \in Ledger /\ proc \in Process
  /\ inflight \in SUBSET PendingAction /\ sent \in SUBSET PendingAction
  /\ rows \in OrNull(Nat) /\ disarmed \in BOOLEAN /\ crashes \in Nat
  /\ seen \in Sightings

\* The ledger answers for an action: as the write-ahead, or as a closed entry that
\* still counts.
AnswersFor(L, v) ==
  \/ L.pending = v
  \/ \E a \in L.actions :
       /\ a.ts = v.ts /\ a.kind = v.kind /\ a.key = v.key
       /\ a.outcome # "not_executed"

\* The durability of the write-ahead: whatever reached the router, or still can, is
\* on the disk until it is past retention, at every instant and so after every crash.
SentIsLogged ==
  \A v \in sent \cup inflight : now <= v.ts + Policy.retentionS => AnswersFor(disk, v)

\* No outage is answered twice with the same verb, whatever the crashes, flaps and
\* lost answers in between.
OneActionPerOutage ==
  \A u, v \in sent : u.kind = v.kind /\ u.key = v.key => u = v

\* Two reboots are never closer than the six hours the policy asks for, across
\* outages; reconnects keep their hour.
Spacing(kind) == IF kind = "reboot" THEN Policy.rebootMinIntervalS ELSE Policy.reconnectMinIntervalS
SentSpaced ==
  \A u, v \in sent : u.kind = v.kind /\ u.ts < v.ts => v.ts >= u.ts + Spacing(u.kind)

\* In every window of a day the line is touched no more often than the budget.
DailyLimit(kind) == IF kind = "reboot" THEN Policy.rebootMaxPer24h ELSE Policy.reconnectMaxPer24h
SentWithinBudget ==
  \A v \in sent :
    Cardinality({u \in sent : u.kind = v.kind /\ u.ts <= v.ts /\ v.ts <= u.ts + Policy.dayS})
      <= DailyLimit(v.kind)

\* The latch: between two evaluations that ended a clean window, as far as the ledger was
\* told, the line is touched at most `latchAfterActions` times.
SentWithinLatch ==
  Cardinality({v \in sent : v.ts >= seen.clearedAt}) <= Policy.latchAfterActions

\* A recovery that does not last buys no fresh action: after a ladder that touched the
\* line is torn down nothing is sent for the cooldown.
CooldownHeld ==
  seen.acted # Null =>
    \A v \in sent : ~(seen.acted <= v.ts /\ v.ts < seen.acted + Policy.postActionCooldownS)

\* Within an outage the ladder only climbs, and the outage ends in the ledger only after
\* every evaluation of the recovery window saw the line good.  One exception, which is the
\* code's: an evaluation that saw it bad and could not write the ledger has not broken the
\* stretch the ledger counts, and the window is that stretch.
LadderOnlyClimbs ==
  [][ \/ disk.t0 = Null
      \/ disk'.t0 = disk.t0 /\ Rank[disk'.rung] >= Rank[disk.rung]
      \/ /\ disk'.t0 = Null
         /\ \E since \in {seen'.goodAt} \cup If(seen'.unsaid, seen'.toldGoodAt) :
              since # Null /\ now >= since + Policy.recoverAfterS ]_vars

\* A person who wrote down that they are at work gets the quiet period: no action is
\* on its way that was decided inside it.
HumanQuietHeld ==
  proc.intent # Null /\ seen.human # Null /\ seen.human < proc.intent.ts =>
    proc.intent.ts >= seen.human + Policy.humanQuietS

\* A reboot is never a surprise: the one on its way was announced in this same outage,
\* at least the announced lead before it was decided.
RebootAnnounced ==
  proc.intent # Null /\ proc.intent.kind = "reboot" =>
    /\ disk.announcedAt # Null
    /\ disk.announcedAt >= proc.intent.key
    /\ proc.intent.ts >= disk.announcedAt + Policy.announceLeadS

\* What the line may be made to bear: the day's budget, the latch and the cooldown, whatever
\* outage the actions were for (watchdog-ladder.ts rateLimited, latched, post-action cooldown).
RationHeld == SentWithinBudget /\ SentWithinLatch /\ CooldownHeld

\* What people are owed before the line is touched: their quiet period, and word of a reboot.
PeopleFirst == HumanQuietHeld /\ RebootAnnounced

\* An action written ahead is reconciled: it does not stay pending for ever.
PendingResolves == (Trusted /\ disk.pending # Null) ~> (disk.pending = Null)
=============================================================================
