----------------------------- MODULE Heartbeat -----------------------------
(***************************************************************************)
(* The monitor of the line: collector/heartbeat.ts reads the status of the *)
(* record, decides (collector/heartbeat-verdict.ts) and pushes across the  *)
(* line itself; Uptime Kuma takes silence for an alarm.  The collector,    *)
(* the container, the line and the path the mini is on fail and come back  *)
(* as they like.                                                           *)
(*                                                                         *)
(* Time is kept as ages, capped one past the largest value anything        *)
(* compares them with, so the behaviours have no end.  The unit is a probe *)
(* cycle.                                                                  *)
(***************************************************************************)
EXTENDS Absent, Integers

CONSTANTS
  Scopes,   \* of an outage: gateway, wan
  Stale,    \* staleSampleMs
  PushMax,  \* pushTimeoutMs, rounded up
  Every,    \* launchd's StartInterval for the heartbeat
  Window    \* how long the monitor waits for a heartbeat

ASSUME HeartbeatAssumption ==
  /\ Scopes \subseteq {"gateway", "wan"} /\ Null \notin Nat \cup Scopes
  /\ {Stale, PushMax, Every, Window} \subseteq Nat \ {0}

VARIABLES
  world,   \* the line, the path the mini is on, the collector, the container
  rec,     \* what the status route answers from: newest sample, open outage, newest vantage
  beat,    \* the run of the heartbeat, and how long ago the last one began
  kuma,    \* the monitor: its state and how long ago it heard of the line as up
  truth    \* history: how long ago a cycle last measured each thing there is to say

heartVars == <<world, rec, beat, kuma, truth>>

Lines == {"up"} \cup Scopes           \* up, or what of it is dead
Paths == {"home", "away", "unknown"}  \* onHomeLine: true, false, null
Older(age, cap) == IF age = Null \/ age > cap THEN age ELSE age + 1
Proof == Stale + PushMax

Quiet(since) == [pc |-> "idle", status |-> Null, says |-> Null, since |-> since, took |-> 0]

HeartInit ==
  /\ world = [line |-> "up", path |-> "home", collector |-> TRUE, api |-> TRUE, cycled |-> FALSE]
  /\ rec = [age |-> Null, outage |-> Null, vantage |-> Null]
  /\ beat = Quiet(0)
  /\ kuma = [state |-> "up", silence |-> 0]
  /\ truth = [l \in Lines |-> Proof + 1]

-----------------------------------------------------------------------------

\* A cycle is measured and stored: the newest sample is now, an outage is open while all
\* the anchors of a scope are dead, and the vantage is the newest one that was captured.
Ingest(captured) ==
  /\ world.collector /\ world.api /\ ~world.cycled
  /\ rec' = [age |-> 0, outage |-> IF world.line = "up" THEN Null ELSE world.line,
             vantage |-> IF captured THEN world.path ELSE rec.vantage]
  /\ truth' = [truth EXCEPT ![world.line] = 0]
  /\ world' = [world EXCEPT !.cycled = TRUE]
  /\ UNCHANGED <<beat, kuma>>

\* What `decideHeartbeat` returns: what is pushed, if anything, and what it says.
Says(status, about) == [status |-> status, says |-> about]

\* Mutant: the outages are looked at before the age of the record.
Decide_OutagesFirst(r) ==
  IF r.outage # Null THEN Says("down", r.outage)
  ELSE IF r.vantage # "home" THEN Says("skip", "path")
  ELSE Says("up", "up")

\* Mutant: a path nobody reported is taken for the home line.
Decide_Coalesced(r) ==
  IF r.age = Null \/ r.age > Stale THEN Says("down", "collector")
  ELSE IF r.vantage = "away" THEN Says("down", "path")
  ELSE IF r.outage # Null THEN Says("down", r.outage)
  ELSE Says("up", "up")

Decide(r) ==
  IF r.age = Null \/ r.age > Stale THEN Says("down", "collector")
  ELSE IF r.vantage # "home" THEN Says("skip", "path")
  ELSE IF r.outage # Null THEN Says("down", r.outage)
  ELSE Says("up", "up")

\* One run: it reads the status and pushes the verdict, or ends without a word.
Run ==
  /\ beat.pc = "idle"
  /\ \E v \in {IF world.api THEN Decide(rec) ELSE Says("down", "api")} :
       beat' = IF v.status = "skip" THEN Quiet(0)
               ELSE [pc |-> "push", status |-> v.status, says |-> v.says, since |-> 0, took |-> 0]
  /\ UNCHANGED <<world, rec, kuma, truth>>

\* The push crosses the line while it is up, on whichever uplink the mini has.
PushLands ==
  /\ beat.pc = "push" /\ (world.line = "up" \/ world.path = "away")
  /\ beat' = Quiet(beat.since)
  /\ kuma' = [state |-> beat.status, silence |-> 0]
  /\ UNCHANGED <<world, rec, truth>>

PushFails ==
  /\ beat.pc = "push" /\ world.line # "up"
  /\ beat' = Quiet(beat.since)
  /\ UNCHANGED <<world, rec, kuma, truth>>

\* A unit passes: the collector that lives had its cycle, launchd kept its interval and a
\* push did not outlive its timeout. A monitor that has not heard alarms.
Pass ==
  /\ world.cycled \/ ~world.collector \/ ~world.api
  /\ beat.since < Every /\ (beat.pc = "push" => beat.took < PushMax)
  /\ world' = [world EXCEPT !.cycled = FALSE]
  /\ rec' = [rec EXCEPT !.age = Older(@, Stale)]
  /\ beat' = [beat EXCEPT !.since = @ + 1, !.took = IF beat.pc = "push" THEN @ + 1 ELSE 0]
  /\ kuma' = [kuma EXCEPT !.silence = Older(@, Window - 1),
                          !.state = IF kuma.silence >= Window THEN "down" ELSE @]
  /\ truth' = [l \in Lines |-> Older(truth[l], Proof)]

Happens ==
  /\ \/ \E l \in Lines \ {world.line} : world' = [world EXCEPT !.line = l]
     \/ \E p \in Paths \ {world.path} : world' = [world EXCEPT !.path = p]
     \/ world' = [world EXCEPT !.collector = ~@]
     \/ world' = [world EXCEPT !.api = ~@]
  /\ UNCHANGED <<rec, beat, kuma, truth>>

HeartNext ==
  \/ \E captured \in BOOLEAN : Ingest(captured)
  \/ Run \/ PushLands \/ PushFails \/ Pass \/ Happens

HeartSpec == HeartInit /\ [][HeartNext]_heartVars

-----------------------------------------------------------------------------
(* Properties. *)

\* Whatever is pushed of the line was measured: green, or an outage by its name, only if a
\* cycle said so within the age a record may have and the time a push may take. A collector
\* that died over a healthy record, or over an outage, is never taken for either.
SaysWhatWasMeasured ==
  beat.pc = "push" /\ beat.says \in Lines =>
    truth[beat.says] <= Proof

Measuring == world.collector /\ world.api
Dead == ~Measuring \/ world.line # "up"

\* A line, a collector or a container that stays dead is alarmed and stays alarmed, by a
\* push or by the silence of one that cannot cross; so is a mini that stays off the home
\* line, as long as a path can be read now and then.
AlarmRaised == <>[]Dead \/ <>[](world.path # "home") => <>[](kuma.state = "down")

\* What stays sound goes green and stays so: no alarm outlives its cause.
AlarmCleared == <>[](~Dead /\ world.path = "home") => <>[](kuma.state = "up")

\* The alarm follows the line in the end, both ways (heartbeat.ts, heartbeat-verdict.ts).
AlarmFollows == AlarmRaised /\ AlarmCleared
=============================================================================
