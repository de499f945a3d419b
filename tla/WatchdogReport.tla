--------------------------- MODULE WatchdogReport ---------------------------
(***************************************************************************)
(* What the watchdog says of itself: the second half of a tick in          *)
(* collector/watchdog.ts.  Changes of its state and the actions it took    *)
(* are events, kept in a spool on the disk and posted to the container;    *)
(* the state itself is pushed to a monitor outside the house, across the   *)
(* line that may be down, with a spool of its own.  Both spools are        *)
(* drained from their head, by the same loop that evaluates.               *)
(*                                                                         *)
(* The first half, the ledger and the action, is Watchdog.tla; its steps   *)
(* are taken here as they stand.                                           *)
(***************************************************************************)
EXTENDS Watchdog, Sequences, SequencesExt

CONSTANTS
  NotifyInterval,  \* notifyIntervalMs
  SpoolMax,        \* spoolMaxLines
  MaxFails         \* bound: posts and pushes that fail, and times the push URL's file is not there

ASSUME ReportAssumption == NotifyInterval \in Nat /\ SpoolMax \in Nat \ {0} /\ MaxFails \in Nat

VARIABLES
  rep,       \* the process's report: its place in the tick, lastNotifyAt, lastReported
  events,    \* the event spool
  notes,     \* the notification spool
  recorded,  \* events the container stored
  heard,     \* notifications the monitor received
  fails,
  noted,     \* history: events the spool took
  alarms,    \* history: when a person was called for
  cut,       \* history: ticks that died or threw before they had reported
  refused,   \* history: ticks whose notification found the spool full, or no push URL
  steady     \* history: since when every look found the line down in one and the same way, or Null

reportVars == <<rep, events, notes, recorded, heard, fails, noted, alarms, cut, refused, steady>>
allVars == <<vars, reportVars>>

Silent == [pc |-> "idle", at |-> 0, said |-> Null, lastNotify |-> Null, lastReported |-> Null,
           todo |-> <<>>]

ReportInit ==
  /\ Init /\ rep = Silent /\ events = <<>> /\ notes = <<>> /\ recorded = {} /\ heard = {}
  /\ fails = 0 /\ noted = {} /\ alarms = {} /\ cut = {}
  /\ refused = {} /\ steady = Null

-----------------------------------------------------------------------------
(* The tick, with what it means to say. *)

\* No attribution, no action: a full spool takes no line.
CanRecord == Len(events) < SpoolMax

\* What is told of a decision.
Told(d) == [state |-> d.state, rung |-> d.rung, shadow |-> d.shadow, why |-> d.blockedBy,
            action |-> d.action]

\* What is pushed whatever the interval says.
CallsForHelp(said) == said.action = "escalate" \/ said.state = "latched"

\* Since when the looks of this process agree on a class a person is called for, armed.
Steady(class) ==
  IF class \notin Escalatable \/ disarmed THEN Null
  ELSE IF steady # Null /\ class = proc.class THEN steady ELSE now

\* The tick of Watchdog. A ledger write that throws ends the tick without a report.
ReportedTick(e, eventsRead, written) ==
  LET f == [e EXCEPT !.canRecord = CanRecord]
  IN /\ rep.pc = "idle"
     /\ Tick(f, eventsRead, written)
     /\ \E in \in {Input(f, eventsRead)} : \E d \in {Judge(in)} :
          /\ rep' = IF ~written THEN rep
                    ELSE [rep EXCEPT !.pc = IF d.action \in Verbs THEN "performing" ELSE "report",
                                     !.at = now, !.said = Told(d)]
          /\ alarms' = IF written /\ CallsForHelp(Told(d)) THEN alarms \cup {now} ELSE alarms
          /\ cut' = IF written THEN cut ELSE cut \cup {now}
          /\ steady' = Steady(d.class)
     /\ UNCHANGED <<events, notes, recorded, heard, fails, noted, refused>>

\* `appendSpool`: refused at the limit, the newest first.
Taken(spool) == Len(spool) < SpoolMax
Spooled(spool, line) == IF Taken(spool) THEN Append(spool, line) ELSE spool

RecordEvent(event) ==
  /\ events' = Spooled(events, event)
  /\ noted' = IF Taken(events) THEN noted \cup {event} ELSE noted

Status(said) == IF said.state = "latched" \/ said.action = "escalate" THEN "down" ELSE "up"
Notification == [ts |-> rep.at, status |-> Status(rep.said), action |-> rep.said.action]

\* `notify` before its first push: the backlog comes first. Without the URL of a monitor
\* (`resolvePushUrl`) the notification is neither pushed nor kept, and the interval has begun.
BeginNotify(r, addressed) ==
  IF addressed
  THEN rep' = [r EXCEPT !.pc = "push", !.lastNotify = r.at, !.todo = notes] /\ UNCHANGED <<fails, refused>>
  ELSE /\ rep' = [r EXCEPT !.pc = "drain", !.lastNotify = r.at]
       /\ fails < MaxFails /\ fails' = fails + 1 /\ refused' = refused \cup {r.at}

\* `eventKindFor`: only what reached the line is an intervention.
EventKind(outcome) == IF outcome = "not_executed" THEN "note" ELSE "intervention"

\* The second ledger write, then the event of the action and a forced notification.
ReportedClose(written, addressed) ==
  /\ Close(written)
  /\ IF written
     THEN /\ RecordEvent([ts |-> rep.at, action |-> rep.said.action, kind |-> EventKind(proc.answer)])
          /\ BeginNotify(rep, addressed) /\ UNCHANGED cut
     ELSE /\ rep' = [rep EXCEPT !.pc = "idle"] /\ cut' = cut \cup {rep.at}
          /\ UNCHANGED <<events, noted, fails, refused>>
  /\ UNCHANGED <<notes, recorded, heard, alarms, steady>>

Signature(said) == <<said.state, said.rung, said.shadow, said.why>>

\* Mutant: the interval is over one evaluation late.
Throttled_Late(r) ==
  /\ ~CallsForHelp(r.said) /\ r.lastNotify # Null
  /\ r.at <= r.lastNotify + NotifyInterval /\ r.at < MaxTime

\* The throttle. At the end of the bounded clock an interval is over like any other.
Throttled(r) ==
  /\ ~CallsForHelp(r.said) /\ r.lastNotify # Null
  /\ r.at < r.lastNotify + NotifyInterval /\ r.at < MaxTime

\* `reportIfChanged`, and whether the monitor is told now.
Report(addressed) ==
  LET said == rep.said
      normal == said.state = "normal"
      reported == [rep EXCEPT !.lastReported = IF normal THEN Null ELSE Signature(said)]
  IN /\ proc.up /\ rep.pc = "report"
     /\ IF normal \/ rep.lastReported = Signature(said) THEN UNCHANGED <<events, noted>>
        ELSE RecordEvent([ts |-> rep.at, action |-> IF said.shadow THEN "would" ELSE said.state,
                     kind |-> "note"])
     /\ IF Throttled(rep) THEN rep' = [reported EXCEPT !.pc = "drain"] /\ UNCHANGED <<fails, refused>>
        ELSE BeginNotify(reported, addressed)
     /\ UNCHANGED <<vars, notes, recorded, heard, alarms, cut, steady>>

-----------------------------------------------------------------------------
(* The spools. *)

\* A request may be answered, or fail; one that failed may have arrived all the same.
Send(ok, arrived) == IF ok THEN arrived /\ UNCHANGED fails ELSE fails < MaxFails /\ fails' = fails + 1

\* Mutant: a failed push leaves the backlog on the disk as it was and forgets its own line.
AfterFailedPush_Forgets == notes' = rep.todo

\* The rest of the backlog stays, the current notification behind it if it fits.
Backlog == IF rep.todo = <<>> THEN notes ELSE rep.todo
AfterFailedPush == notes' = Spooled(Backlog, Notification)

\* One push: the head of the backlog, or at the end of it the notification of this tick.
\* The file is rewritten when the backlog is through or a push fails, and only then.
Push(ok, arrived) ==
  /\ proc.up /\ rep.pc = "push" /\ Send(ok, arrived)
  /\ heard' = IF ~arrived THEN heard
              ELSE heard \cup {IF rep.todo = <<>> THEN Notification ELSE Head(rep.todo)}
  /\ IF ~ok THEN AfterFailedPush /\ rep' = [rep EXCEPT !.pc = "drain", !.todo = <<>>]
     ELSE IF rep.todo = <<>> THEN rep' = [rep EXCEPT !.pc = "drain"] /\ UNCHANGED notes
     ELSE /\ rep' = [rep EXCEPT !.todo = Tail(@)]
          /\ notes' = IF Len(rep.todo) = 1 THEN <<>> ELSE notes
  /\ refused' = IF ok \/ Taken(Backlog) THEN refused ELSE refused \cup {rep.at}
  /\ UNCHANGED <<vars, events, recorded, noted, alarms, cut, steady>>

\* `drainEvents` reads the spool once.
BeginDrain ==
  /\ proc.up /\ rep.pc = "drain"
  /\ rep' = IF events = <<>> THEN [rep EXCEPT !.pc = "idle"]
            ELSE [rep EXCEPT !.pc = "post", !.todo = events]
  /\ UNCHANGED <<vars, events, notes, recorded, heard, fails, noted, alarms, cut, refused, steady>>

\* Mutant: the event that could not be posted is dropped with those in front of it.
Remainder_Skips(todo) == Tail(todo)

\* What is kept when the head of the rest could not be posted.
Remainder(todo) == todo

Post(ok, arrived) ==
  /\ proc.up /\ rep.pc = "post" /\ Send(ok, arrived)
  /\ recorded' = IF arrived THEN recorded \cup {Head(rep.todo)} ELSE recorded
  /\ LET over == ~ok \/ Len(rep.todo) = 1
     IN /\ rep' = IF over THEN [rep EXCEPT !.pc = "idle", !.todo = <<>>] ELSE [rep EXCEPT !.todo = Tail(@)]
        /\ events' = IF ~ok THEN Remainder(rep.todo) ELSE IF over THEN <<>> ELSE events
  /\ UNCHANGED <<vars, notes, heard, noted, alarms, cut, refused, steady>>

\* A death takes the report with it; what it had read of a spool is still in the file.
\* Bound: none so late that the clock ends before a settle window does.
ReportedCrash ==
  /\ now + Policy.rebootSettleS <= MaxTime
  /\ Crash /\ rep' = Silent /\ steady' = Null
  /\ cut' = IF rep.pc = "idle" THEN cut ELSE cut \cup {rep.at}
  /\ UNCHANGED <<events, notes, recorded, heard, fails, noted, alarms, refused>>

ReportedEvaluation ==
  \E e \in Evidence, eventsRead \in May("events_unread"), written \in May("write_error") :
    ReportedTick(e, eventsRead, written)
Reporting ==
  \/ BeginDrain \/ \E addressed \in BOOLEAN : Report(addressed)
  \/ \E ok, arrived \in BOOLEAN : Push(ok, arrived) \/ Post(ok, arrived)
ReportedPerforming ==
  \/ Request /\ UNCHANGED reportVars
  \/ \E arrived \in BOOLEAN : NoAnswer(arrived) /\ UNCHANGED reportVars
  \/ \E written \in May("write_error"), addressed \in BOOLEAN : ReportedClose(written, addressed)

\* Time passes while the process reports, up to the deadline of the tick.
ReportedElapse ==
  /\ rep.pc # "idle" => now < rep.at + TickDeadlineS
  /\ Elapse
  /\ UNCHANGED reportVars

ReportNext ==
  \/ ReportedEvaluation \/ ReportedPerforming \/ Reporting \/ ReportedElapse \/ ReportedCrash
  \/ (Respond \/ Restart \/ Intervene \/ TouchDisarm) /\ UNCHANGED reportVars

\* As in Watchdog: every await is bounded by a timeout and the loop goes on.
ReportSpec ==
  /\ ReportInit /\ [][ReportNext]_allVars
  /\ WF_allVars(ReportedEvaluation) /\ WF_allVars(ReportedPerforming) /\ WF_allVars(Reporting)
  /\ WF_allVars(ReportedElapse) /\ WF_allVars(Restart /\ UNCHANGED reportVars)

-----------------------------------------------------------------------------
(* Properties. *)

\* Every event the spool took is in it or in the record, through every failed post and
\* every death (watchdog.ts drainEvents: nothing is dropped).
EventsKept == noted \subseteq ToSet(events) \cup recorded

\* No attribution, no action: what reached the line and was closed in the ledger is an
\* intervention in the spool or the record, unless its own tick died or threw; the limit
\* of the spool never costs one (watchdog.ts canRecord).
ActionsAttributed ==
  \A a \in disk.actions :
    a.outcome # "not_executed" =>
      \/ a.ts \in cut
      \/ \E event \in noted : event.ts = a.ts /\ event.kind = "intervention"

\* Whenever a person was called for, the call has been heard, is on its way or is in
\* the spool, unless the tick that made it died, found the spool full or had no push URL
\* to call (watchdog.ts notify).
AlarmsKept ==
  \A t \in alarms :
    \/ t \in cut \cup refused
    \/ rep.at = t /\ rep.pc \in {"report", "push"}
    \/ \E n \in heard \cup ToSet(notes) : n.ts = t /\ n.status = "down"

\* A person who was called for hears of it once there is a push URL and the line carries a
\* push again, unless the process dies in the tick that calls: the ledger has marked the call
\* by then, and the next process keeps quiet.
AlarmHeard ==
  LET lost == cut \cup refused
  IN (alarms \ lost # {}) ~> (alarms \subseteq lost \/ \E n \in heard : n.status = "down")

\* From the first look at an outage to the end of its ladder, at one look a tick: the looks
\* that confirm it, the ladder, and the last action's time to settle.
LadderTime == (Policy.confirmTicks - 1) + Policy.exhaustAtS + Policy.rebootSettleS

\* A line that a ladder's time long looks down, and in one and the same way, has a person
\* called, and again whenever the quiet time after a call is over, whatever was before and
\* whatever blocks the rungs: the ladder escalates or latches (watchdog-ladder.ts `evaluate`).
\* Not so a line whose looks change their class again and again: it is never confirmed
\* (watchdog.ts `track`). Nor behind an action that a death or a failed write left pending.
DownIsCalled ==
  /\ steady # Null /\ now >= steady + LadderTime
  /\ proc.ticked /\ proc.pc = "idle" /\ disk.pending = Null
  => \E t \in alarms \cup cut : now < t + Policy.escalationQuietS

\* A reboot on its way was foreseen: since its announcement the monitor was pushed a
\* notification, or one waits in the spool for the line, from before the reboot was decided.
\* The interval may swallow the announcement itself, but not past the lead (watchdog-ladder.ts:839).
RebootForeseen ==
  proc.intent # Null /\ proc.intent.kind = "reboot" =>
    \/ (cut \cup refused) \cap (disk.announcedAt .. proc.intent.ts) # {}
    \/ \E n \in heard \cup ToSet(notes) : disk.announcedAt <= n.ts /\ n.ts < proc.intent.ts

\* What was done is on record or on its way there: every event the spool took, every action
\* that reached the line.
RecordTold == EventsKept /\ ActionsAttributed
=============================================================================
