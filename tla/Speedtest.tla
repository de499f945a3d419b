------------------------------ MODULE Speedtest ------------------------------
(***************************************************************************)
(* The throughput tests: services/speedtest-runner.ts starts one from its  *)
(* jittered cron, or for the dashboard's button (routes/speedtests.ts);    *)
(* services/ookla.ts runs it and writes its row when it has ended.  The    *)
(* guard that lets one run at a time is in the process; the limit on the   *)
(* button reads the rows.  The container may be restarted at any time.     *)
(***************************************************************************)
EXTENDS Absent, Integers, Sequences, FiniteSets, SequencesExt

CONSTANTS
  MinInterval,  \* speedtestMinIntervalS
  TestMax,      \* bound: how long a test takes
  MaxClock,     \* bound: the clock
  MaxRestarts   \* bound: restarts of the container

ASSUME SpeedAssumption ==
  Null \notin Nat /\ {MinInterval, TestMax, MaxClock} \subseteq Nat \ {0} /\ MaxRestarts \in Nat

VARIABLES
  clock,
  running,   \* the flag in the process
  jitters,   \* cron firings that wait for their offset
  flight,    \* the tests at work on the line: when each began and who asked for it
  rows,      \* speed_test
  started,   \* history: every test begun, and whether its process was lost
  restarts

speedVars == <<clock, running, jitters, flight, rows, started, restarts>>

SpeedInit ==
  /\ clock = 0 /\ running = FALSE /\ jitters = 0 /\ flight = {} /\ rows = <<>>
  /\ started = <<>> /\ restarts = 0

-----------------------------------------------------------------------------

CronFires ==
  /\ jitters = 0 /\ jitters' = 1
  /\ UNCHANGED <<clock, running, flight, rows, started, restarts>>

\* `runGuarded`: a second test beside the one at work is skipped.
RunGuarded(by) ==
  IF running THEN UNCHANGED <<running, flight, started>>
  ELSE /\ running' = TRUE /\ flight' = flight \cup {[ts |-> clock, by |-> by]}
       /\ started' = Append(started, [ts |-> clock, by |-> by, lost |-> FALSE])

JitterEnds ==
  /\ jitters > 0 /\ jitters' = jitters - 1 /\ RunGuarded("cron")
  /\ UNCHANGED <<clock, rows, restarts>>

\* Mutant: the newest row is the last one written whose test went well.
LastRow_Worked ==
  LET worked == {rows[k].ts : k \in {j \in 1..Len(rows) : rows[j].ok}}
  IN IF worked = {} THEN Null ELSE CHOOSE ts \in worked : \A other \in worked : other <= ts

\* The newest row by the time its test began, gone well or not.
LastRow ==
  LET all == {rows[k].ts : k \in 1..Len(rows)}
  IN IF all = {} THEN Null ELSE CHOOSE ts \in all : \A other \in all : other <= ts

\* POST /api/speedtests/run: refused within the interval, else a test unless one runs.
Button ==
  /\ LastRow # Null => clock - LastRow >= MinInterval
  /\ RunGuarded("button")
  /\ UNCHANGED <<clock, jitters, rows, restarts>>

RowOf(test, ok) == [ts |-> test.ts, ok |-> ok]

\* A test ends and its row is written, the failure of a test or of its own row included.
Finish(test) ==
  /\ clock > test.ts /\ flight' = flight \ {test} /\ running' = FALSE
  /\ \E ok \in BOOLEAN : rows' = Append(rows, RowOf(test, ok))
  /\ UNCHANGED <<clock, jitters, started, restarts>>

Lose == [k \in 1..Len(started) |->
           [started[k] EXCEPT !.lost = @ \/ \E t \in flight : t.ts = started[k].ts]]

\* The container is stopped and started, or dies because no row could be written at all:
\* the flag, the waiting offsets and the test at work are gone, the rows stay.
Restart ==
  /\ restarts < MaxRestarts /\ restarts' = restarts + 1
  /\ running' = FALSE /\ jitters' = 0 /\ flight' = {} /\ started' = Lose
  /\ UNCHANGED <<clock, rows>>

Later ==
  /\ clock < MaxClock /\ clock' = clock + 1
  /\ \A t \in flight : clock < t.ts + TestMax
  /\ UNCHANGED <<running, jitters, flight, rows, started, restarts>>

SpeedNext ==
  \/ CronFires \/ JitterEnds \/ Button \/ Restart \/ Later
  \/ \E test \in flight : Finish(test)

SpeedSpec == SpeedInit /\ [][SpeedNext]_speedVars

-----------------------------------------------------------------------------
(* Properties. *)

\* The button starts a test only when no other began within the interval, from the cron or
\* from the button. One the container lost in the middle has no row and does not count:
\* the one way in which a restart does reset the budget.
ButtonSpaced ==
  \A k \in 2..Len(started) : started[k].by = "button" =>
    \A j \in 1..k - 1 : started[j].lost \/ started[k].ts - started[j].ts >= MinInterval

\* Every test that was not lost is at work or has its row, at the time it began; the flag,
\* which stops the watchdog, is up exactly while one is at work.
EveryTestRecorded ==
  /\ running <=> flight # {}
  /\ \A k \in 1..Len(started) :
       started[k].lost \/ (\E t \in flight : t.ts = started[k].ts)
       \/ \E r \in ToSet(rows) : r.ts = started[k].ts

\* What is asked for is spaced against every test there was: the rows the limit reads are
\* those of all tests, dated as they began (routes/speedtests.ts, services/ookla.ts).
EveryTestCounts == ButtonSpaced /\ EveryTestRecorded
=============================================================================
