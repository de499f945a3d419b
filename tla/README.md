# linewatch in TLA+

linewatch watches a home internet line from a machine behind it. A collector pings
and posts what it measured; a server in a container keeps the record; a watchdog
reads the record, judges the line and, if it is armed, re-dials the WAN or reboots
the router; a page shows what was recorded. This directory holds the models of those
parts, what TLC checks of them and what TLAPS proves. Paths below are relative to the
repository.

## The system

| Part | State it keeps | Operations | Talks to |
|---|---|---|---|
| Probe collector, `collector/probe.ts` | the spool file, its line counter, the batch in hand | measure, post, spool, replay | ingest route (HTTP, 10 s timeout), link sampler, captures |
| Ingest route, `src/routes/probes.ts` | sample, vantage, event and outage tables | one handler of five or more separate statements | outage machine, cycle vantage |
| Outage machine, `src/services/outage-detector.ts` | per scope the open outage in memory, the `outage` rows | `load` at boot, `ingest` per cycle | its one caller, the ingest route |
| Cycle vantage, `src/services/cycle-vantage.ts` | `probe_cycle` rows, `link_change` events | look up, insert, diff | database |
| Watchdog ladder, `collector/watchdog-ladder.ts` | none: a pure function of evidence and ledger | `classify`, `decide`, `recordOutcome` | - |
| Watchdog runner, `collector/watchdog.ts`, `watchdog-state.ts`, `watchdog-report.ts` | the ledger file, the disarm file, the held class and count of the process, two spools | one tick every 15 s, one action at most in it; report, notify, drain | status, router, events and action routes; Uptime Kuma |
| Router action route and executor, `src/routes/router-actions.ts`, `src/services/router/actions.ts` | `intervention` rows, the router | refuse, re-dial, reboot, throw | router client, events |
| Router client and poller, `src/services/router/{client,scheduler,poll}.ts` | one admin session, counters of the last poll, the last disagreement | log in, poll, log out | the router |
| Link sampler, `collector/link-sampler.ts` | transitions and seconds watched since the last drain | tick, drain, retarget, stop | collector |
| Captures, `collector/vantage.ts`, `wifi.ts` | none | run the commands of the host, parse what they print | collector, macOS |
| Heartbeat, `collector/heartbeat*.ts` | none | read the status, push up, down or nothing | status route, Uptime Kuma |
| Log rotation, `collector/log-rotate.ts` | the log file and one generation | copy, rename, truncate | collector, watchdog, heartbeat |
| Speed tests, `src/services/speedtest-runner.ts`, `ookla.ts` | a running flag, `speed_test` rows | scheduled and manual run | server |
| Read routes, `src/db/bucket-*.ts`, `range-summary.ts`, `services/router/range.ts` | none | buckets, percentiles, volumes, coverage | database |
| Verdict, `src/lib/verdict*.ts` | none | nine rules over a window | read routes, database |
| Dashboard, `web/src` | the answers it holds, the time it was last drawn | densify, fold, tint, compare | every read route |

What is hard in it:

- **An action cannot be taken back.** The watchdog writes an action ahead, performs
  it over HTTP and closes it. Its process can die between any two of the three, the
  writes can fail, and the call can time out while the container goes on with it.
- **Budgets in time.** Spacing, the daily budget, the latch and the cooldown each
  cover a different way of acting too often on a line that flaps.
- **Calling for help over the line that is down.** Notifications cross the line they
  are about, through a spool and a throttle; events go to a container that may be away.
- **The record is fed at least once.** An answer can be lost after the batch was
  stored; the spool sends it again, later and next to newer ones.
- **Two memories of one outage.** The map of the outage machine and its table must
  agree through restarts and through handlers that stop half way.
- **One session for everybody.** The poller, the executor and any person in the
  router's own pages take it from each other; a reboot takes its own answer with it.
- **Asynchronous readings.** A link sample, a command or a page lands after the thing
  it was about has been replaced.
- **Absence.** A row that is missing, a field that was not read and a zero are three
  different things, and every figure, verdict and colour has to keep them apart.

What makes each part right: the collector loses no cycle silently and keeps their
order; the ingest route stores a cycle once; the outage table is the runs of down
cycles; the timeline has a link change exactly where the path changed; the watchdog
never answers an outage twice with the same verb, keeps spacing, budget, latch and
quiet period, announces a reboot, and calls a person who hears of it; the poller tells
what the router answered and nothing else; the executor's rows say what it sent; the
heartbeat alarms what is dead and nothing else; a figure, a verdict or a green tint
says only what was measured and was so.

## The modules

| Module | Models | Kind |
|---|---|---|
| `Absent` | the one model value for a missing row or field | shared constant |
| `Ladder` | `watchdog-ladder.ts` whole, plus the thresholds of its policy | operators, no state |
| `Watchdog` | the runner around it: ledger file, process, action request, container's answer | state machine, extends `Ladder` |
| `WatchdogReport` | what the watchdog says of itself: events, notifications, their spools | state machine, extends `Watchdog` |
| `WatchdogStatus` | `make watchdog-status` beside the daemon | state machine, extends `WatchdogReport` |
| `OutageRecord` | what the outage table promises of one scope | abstract specification |
| `ProbePipeline` | collector, spool, wire, ingest handler, outage machine, link changes | state machine, refines `OutageRecord` once per scope |
| `RouterReading` | the router's pages parsed, the restart test, the comparison of vantages | operators |
| `RouterSession` | client, poller, scheduler, executor and action routes over one session | state machine, extends `RouterReading` |
| `LinkWatch` | the link sampler as the cycle drives it | state machine |
| `LogRotate` | the rotation of a log file under its writer | state machine |
| `Heartbeat` | the heartbeat, the status it reads and the monitor | state machine |
| `Speedtest` | runner, cron, button, rows | state machine |
| `Capture` | the vantage and the Wi-Fi capture beside a host that moves on | state machine |
| `RecordReads` | what the read routes compute from the tables | operators |
| `Verdict` | the nine rules and their queries | operators, extends `RecordReads` |
| `RecordWorld` | a world of cycles and the tables it fills | state machine, extends `Verdict` |
| `CarrierWorld` | a world of minutes on the carrier's side: resyncs, polls, counters | state machine, extends `RecordWorld` |
| `Dashboard` | what the page makes of the answers | operators, extends `RecordReads` |
| `ScreenWorld` | the page, its polls and when it is drawn, against the world of `RecordWorld` | state machine, extends `CarrierWorld` and `Dashboard` |
| `WatchdogProofs` | what the watchdog does to the line and owes to people; no event and no call for help lost, no reboot without a word of it | proofs about `Watchdog` and `WatchdogReport` |
| `PipelineProofs` | the record of the cycles; the refinement of `OutageRecord` | proofs about `ProbePipeline` |
| `SessionProofs` | the session, the polls, the executor and its rows | proofs about `RouterSession` |
| `JobsProofs` | log, heartbeat, speed tests, link, captures | proofs about those five |
| `RecordProofs` | the tables against the world; downtime, claims, silence; buckets, percentiles, volumes | proofs about `RecordWorld` |
| `CarrierProofs` | resyncs and their causes, the history of the router | proofs about `CarrierWorld`, extends `RecordProofs` |
| `ScreenProofs` | the page against the world | proofs about `ScreenWorld`, extends `RecordProofs` |
| `DataLemmas` | sequences that grow and lose their head; finite sets and sums over them | lemmas |
| `MCWatchdog`, `MCWatchdogLots`, `MCWatchdogReport`, `MCReportLots`, `MCWatchdogStatus`, `MCProbePipeline`, `MCRouterSession`, `MCJobs` | policies, evidence, lines, pages for TLC; the composition of small state machines in one run | instances |

Instances that differ only in bounds or inputs share a run: `MCWatchdogLots` and
`MCReportLots` have a variable `lot` that says which instance a behaviour is of, and `MCJobs` a variable `job`
that says which of the seven jobs moves; their `Next` is the disjunction of the instances'
own. `MCProbePipeline` needs neither: which faults a behaviour may meet is part of its
initial state (`allowed`), and `LotsInit` chooses.

### Ladder

`Classify`, `SharedBlockers`, `ReconnectBlockers`, `RebootBlockers`, `Evaluate` and
`Advance` follow `classify`, `sharedBlockers`, `reconnectBlockers`, `rebootBlockers`,
`evaluate` and `advance` branch by branch. `Judge` and `Advance` together are
`decide`; `RecordOutcome` is `recordOutcome`. What is abstract:

- time is a natural number in the unit of the policy, and seconds and milliseconds
  are one unit; a timestamp of the evidence is its age;
- a set of anchors is `up`, `some` or `down`, since the code asks only whether all
  or any of them is silent;
- a list of blockers is a set, and the outage key, which the code formats from T0, is
  T0 itself;
- literals of the code that a check has to scale (8 cycles, 60 s for a fresh poll, a
  day, two days of retention) are fields of `Policy`.

### Watchdog

`disk` is the ledger file, `proc` the process: what dies with it (`class`, `held`,
`startedAt`) and where it stands in a tick (`pc`). `Tick` is `tick` up to the call
and includes the write-ahead; `Request`, `NoAnswer`, `Decline`, `Execute` and `Throw`
are `perform` and the ways it can end; `Close` is `recordOutcome` and the second
write. A ledger write is one step because the code writes a temporary file, syncs it
and renames it. `Elapse` is the sleep of the loop, or a tick that takes long, and
stops at the deadline at which `abandonHungTick` ends the process. `Crash` may come
anywhere. Of the container only what the watchdog can tell apart is modelled here: it
declined, a verb went out, or it threw before or after a verb. `rows` is the newest
intervention the quiet period reads. `sent` and `seen` are history variables.

`Evidence` is a constant: an evaluation may meet any of it, in any order, so the line
flaps as it likes. `Allowed` names the disturbances an instance admits. `Seeing` keeps
`seen`, in every evaluation, also in one whose ledger write throws: since when the line has
looked good (`goodAt`), since when in the evaluations the ledger was told of (`toldGoodAt`),
whether the two differ because a bad one went unwritten (`unsaid`), when a clean window ended,
and when a ladder that had touched the line was last torn down. The last counts only what the
line was touched
with within retention: the ledger prunes what is older, so after an outage of two days
nothing in it tells that the line was acted on, and no cooldown follows.

### WatchdogReport and WatchdogStatus

The second half of a tick, over the first half's own actions: `ReportedTick` and
`ReportedClose` are `Tick` and `Close` with what they leave to say, `Report` is
`reportIfChanged`, `Push` one push of `notify` (the backlog first), `BeginDrain` and
`Post` are `drainEvents`. A request that failed may have arrived all the same. The two
files are rewritten exactly where the code rewrites them, at the end or at a failure,
so a death in the middle sends again what was already sent. `BeginNotify` looks for the
push URL: without one (`resolvePushUrl`, `watchdog.ts:577-589`) the notification is neither
pushed nor spooled, and the interval of the throttle has begun all the same. So what the
alarms are promised they are promised only where there is somewhere to push them.

`noted`, `alarms`, `cut`, `refused` and `steady` are history: what the spool took, when a
person was called for, the ticks that died or threw before they had reported, those whose
notification found a full spool or no push URL, and since when every look of this process
found the line down in one and the same way.

`WatchdogStatus` adds the second process of `make watchdog-status`, which does only one
thing to shared state: it drains the same event spool.

### ProbePipeline

`Measure` is `runCycle` and the read of the spool; `Send`, `Accepted`, `Failed` and
`NoAnswer` are `postBatch`, `replaySpool` and `processCycle`, one request at a time.
`Handle` is the whole ingest handler, `Refuse` the 401 or 422 in front of it: whether the
route takes a batch is a property of the batch (`taken`), so a refused one is refused again at
every replay, stays at the head of the spool and holds back all that is behind it. `Written(t, k)` is the database after the first
k of its statements; `HandleThrows` and `HandleDies` stop there, since nothing in
`src/routes/probes.ts` opens a transaction. `ServerStarts` is the eager `load`.
`allowed` never changes: it names the faults a behaviour may meet, so that one specification
speaks of lines with and without late requests, torn appends and broken handlers.
`gaveUp`, `belated` and `applied` are history variables: what the collector let go of
(spool full, or in hand when it died), what was stored behind a newer cycle, and what
each scope of the machine was fed.

Two copies of one batch on the wire are one element of `net`: the second would only
be skipped. At `MaxTime` the clock stands still and the last cycle is measured again,
which the server treats as a replay. The link transitions of a batch are in
`LinkWatch`, its vantage's content in `Capture`. `Gateway` and `Wan` are the instances of
`OutageRecord`, one per scope, over what the scope was fed and the rows it has.

### RouterReading and RouterSession

A page is a sequence of rows with the fields the parsers read; `ParseLineSample`,
`ParseLiveWan`, `ParseIntfSamples`, `ResolveHostPort`, `DetectRestart` and
`CompareVantage` are the functions of the same name. `RouterSession` has two pollers
(the cron and the on-demand poll share a flag) and requests to the action routes.
`BeginLogin`, `LoginOk` and `LoginFails` are `startSession`, the only operation that is
not one step: it drops the old session long before it has a new one. `PollRead` reads
one page; `Store` is the transaction and what it announces; `Snapshot`, `SendAction` and
`RecordAndAnswer` are the executor and the route. The router has one slot, and whoever
logged in last has it. `disturbed` is history: the polls and requests during which
something outside went wrong, so that a property can ask what happens to the others.
`verbs` is history too: the operations the router performed, request by request. The
constants are kept apart by two assumptions: the line's own pages are among the first two
that are read (as in `READS`), and null, the blanked value and a missing row are no words,
numbers or rows (`NullAssumption`).

`ResyncTrue` has one exception, which the code makes on purpose: a counter that reads zero
both times is taken for one that does not run (`derive.ts`, `detectRestart`), so two
trainings that are each read in the second they came up are no restart.

Assumed: the line is read within `ReadTime` of the poll's timestamp, and two trainings
of a line are further apart than the tolerance of the restart test (`ReadInTime`,
`LineResync`). A read that takes longer than the ten seconds of `RESTART_TOLERANCE_S`
would be taken for a restart. The cipher of the login is left out.

### LinkWatch, LogRotate, Heartbeat, Speedtest

`LinkWatch`: `Second` is the timer and starts a read unless one is in flight, `Land` its
end, `Cycle` drains and then retargets. `LogRotate`: the steps of `rotateLogIfNeeded`,
`Cut` between or inside any two of them, and a second process whose output is a terminal.
The agent writes to the log itself, or, as the heartbeat does, through the pipe of jobrun
(`piped`), where a flag stands for the identity of the file (`StdoutIsLog`). jobrun is not
in this repository; assumed of it is that it passes on every line and has done so before
launchd starts the next run. The heartbeat rotates before it writes anything
(`heartbeat.ts:134-141`).
`Heartbeat`: `Ingest` is the record as far as the status route shows it, `Run` reads it
and decides, `PushLands` and `PushFails` are the push, `Pass` is time, with the monitor
that goes down by itself when it hears nothing. `Speedtest`: `CronFires`, `JitterEnds`,
`Button`, `Finish` and a restart of the container.

### Capture

One capture per behaviour, the vantage, the vantage where no gateway target is configured
(`unset`), or the Wi-Fi. `Answers` ends one command with
anything it may have printed by then, the whole or a part, in any order; `HostMoves`
changes the route, the adapters or the speed between any two. `lived` collects the
states of the host while the capture ran, and the row is compared with them. A service
list that was cut short (`ListCut`) can mislead the row both ways, and the property says
so.

### RecordReads, Verdict and Dashboard against the worlds

These are pure, so they are checked against a world in which it is known what was really
the case. `RecordWorld` takes cycle by cycle what became of the echoes and why, fills the
tables as the ingest route does, and compares every answer and every verdict with it for
every window that ends now. `CarrierWorld` does the same minute by minute for the
carrier's side: when the line really came up, when a poll came late or could not read it.

Cycles begin anywhere on the page's grid: `CycleTs` has a `Phase`, and somebody reads
`ReadAfterS` after the newest one began. Windows begin where a slot does, or with a cycle.
One slot of the grid begins one cycle in the model; a cycle that drifts past the end of its
slot is a missed one in it.

`ScreenWorld` puts a page over the first of these worlds. Its variable `page` holds what the
page was last told of the status and the router, and when it was last drawn. `PagePolls` is
what follows a cycle: the status is asked for every 30 s (a cycle), the router every 60 s
(every second one; `lib/queries.ts`), and each poll may go unanswered. The page is drawn when
an answer differs from the one held. An identical status draws nothing, as its data is shared
with the one before; the router's answer is never identical, because it carries the `now` at
which the server made it (`src/routes/router.ts`), and `DashboardPage` uses it in the same
component as `nowTick` (`index.tsx:212`). `nowTick` is computed at a draw, and floored
(`NowTick`). So while the server answers, the page is drawn every second cycle also when the
collector is dead; when the server does not answer, the page stays as it is for as long as
that lasts, and the models promise nothing of its age.

A rate or a share is a whole
percentage; percentiles and medians follow the ranks and halves of the SQL and of
`lib/stats.ts`; the median is kept doubled so that it stays whole.

## What is checked

Every run is one `.cfg` in this directory. The watchdog's runs
use a policy of a few coarse units (`MCPolicy`) that keeps the order of the
defaults: observe < reboot due < deferred reboot < exhausted < spacing of reconnects <=
spacing of reboots < day < retention, with the cooldown well below the spacing.

| Run | Shows | Bounds |
|---|---|---|
| `Watchdog` | `OneActionPerOutage`, `SentSpaced`, `RationHeld`, `PeopleFirst` on a line that flaps (`long`), and with every class of evidence, a person, the disarm file and slow ticks (`wide`) | 11 units: three ladders, more than the day of the budget; `wide` 4 units: one ladder up to its reboot |
| `WatchdogCrash` | `SentIsLogged`, `LadderOnlyClimbs` with a death anywhere, in one lot with writes that fail and events that cannot be read, in another with people who act and disarm | 6 units (5 with people), 1 death; spacing and retention short enough (`ForgetfulPolicy`) that the ledger prunes within the run |
| `WatchdogReport` | `RecordTold`, `AlarmsKept`, `RebootForeseen`, `AlarmHeard`, `DownIsCalled`: in one lot while posts and pushes fail and the push URL goes missing (`faults`), in another over evidence that blocks the rungs and changes its class (`looks`) | `faults` 5 units, 1 death, 1 failed request or missing URL, under a policy that confirms at the first look (`HastyPolicy`); `looks` 7 units, two looks to confirm, no fault; spools of 2, a notification interval as long as the lead of the announcement |
| `Pipeline` | `RecordSound`, `ChangesTrue`, `EachScopeRecord`, `EveryCycleRecorded`; over kinds of path with requests that outlive their sender, over kinds of silence with handlers and spool writes cut short, over batches the route takes or refuses with handlers cut short | 3 cycles over 4 kinds of path or of silence, or 3 kinds of batch, 2 faults, spool of 2 |
| `Router` | the session, the poll, the executor and the rows | 2 pollers, 2 requests, 2 of them at work, 1 fault, 4 of the 8 pages, 2 ticks of the clock |
| `Jobs` | the seven jobs of `MCJobs`; every answer, verdict and tint | link: 3 s and 2 interfaces; log: 9 lines; speed tests: 4 units, 1 restart; record: 4 cycles that begin 1 s past the grid, 2 oddities, an unanswered stretch of polls among them; carrier: 4 minutes, 3 oddities; capture: 1 move of the host; the heartbeat has no clock to bound |

Why the bounds are enough: a spool of two fills, drains and is written back half way
within three cycles; two faults lose an answer and kill a process before it is sent
again; the eleven units of `Watchdog` hold an action, the whole spacing after it and a
second action whose budget still counts the first. One fault suffices for a session
lost in the middle of a poll, of a pair of verbs or of a login, with the other poller or
request at any other place. Four cycles hold a window with a gap at either edge, an
outage that is closed and one that is open, and a bucket of two that is half empty; each
world tries every combination of what is out of the ordinary up to its limit, in which a
stretch of missed cycles counts once, so the collector may die for good. One second past the
grid is the phase at which a floored clock makes a reading look youngest. `faults` of
`WatchdogReport` is long enough for a ladder up to its end and what is said of it; `looks` for
a change of class in the middle and a whole ladder after it.

`TypeOK` is checked once per larger state machine. The runs
of the watchdog also check that nothing stops: the loop of its process always has a step
to take. `Router`, `Pipeline` and `Jobs` are bounded by work, faults or time and end.

**Conjunctions.** Several invariants are conjunctions of named parts, each with a comment
of its own: `PeopleFirst`, `RationHeld`, `RecordTold`, `RecordSound`,
`NobodyWaitsForEver`, `TellsWhatAnswered`, `VerbsInOrder`, `LinkReportTrue`,
`EveryTestCounts`, `ClaimsTrue` (with `HomeClaim`, of the share of cycles on the home line), `CarrierClaimsTrue`, `ScreenIsTrue`, `AlarmFollows`.

**Fairness.** `Watchdog`, `WatchdogReport`: the loop ticks on, every await in it is
bounded by a timeout (`apiTimeoutMs`, 30 s for a reboot, `tickDeadlineMs`), `KeepAlive`
restarts what died, and time passes; the container owes no answer, so no fairness is
asked of it. `ProbePipeline`: the collector's loop goes on and its calls end after 10 s,
both processes are restarted (launchd, Docker), and a server that is up handles what
reached it. Faults are finitely many by `MaxFaults`. `Heartbeat`: launchd starts what is
due, a push ends by its timeout, time passes; a collector that lives reads its path now
and then, which is a strong fairness, since the read may fail at any one cycle. Nothing
has to break or to be mended. `RouterSession` has no liveness property: the schedule of
the poller is a cron, and that each poll ends follows from the timeouts of its requests,
which the model makes one step.

### Where the code and its words differ

These runs check one property each, taken from a comment or a document, and TLC
finds it violated. `PROJECT.json` quotes the lines.

| Run | What happens |
|---|---|
| `WatchdogStuck` | A death between the write-ahead and its closing leaves `pending` set. Nothing but the tick that performed the action clears it, so every later evaluation stands at `action_pending`: no action and no escalation any more. |
| `WatchdogStatus` | The status command drains the daemon's event spool; what the daemon appended between its read and its rewrite is gone. |
| `LinkMisattributed` | The batch of the cycle in which the route moved names the new interface, and the transitions of the old one are filed under it. |
| `RecordGap` | A collector that was absent at the beginning of a window counts as installed in it, so nobody says that most of the window was not measured. |
| `LossHidden` | The worst bucket is looked for among those in which something answered; a blackout of a whole bucket is none of them. |
| `StaleShown` | The page compares the stamps of the samples with a clock floored to a cycle, so a reading that is two cycles old passes for current, for up to 89 s. |

Further things the models show, for which no run is kept:

- *Watchdog.* When an evaluation finds the line bad again and its ledger write throws, the
  disk keeps the start of the clean stretch, and a later evaluation declares a recovery that
  was interrupted (`unsaid`). Every change of the class of a down line starts its confirmation
  over (`track`), so one that alternates is neither acted on nor called. With no push URL an
  alarm is marked in the ledger and said nowhere. The evaluation that meets a damaged ledger stands down and writes an empty
  one over it, so the next one has its whole budget back. The row the action route writes
  has the source `api`, and the filter drops only `watchdog`, so each action of the
  watchdog begins a quiet period. Unarmed is a blocker, so an unarmed watchdog never notes
  the action it would have taken. If `/api/events` does not answer, the quiet period is
  taken as absent. A 5xx of an executor that threw before its first verb counts against
  the latch. The log is rotated at the start of the process only.
- *Pipeline.* A handler cut short after its first statement leaves a sample; the replay
  is skipped, and the vantage and the outage cycle are never written. Half a line in the
  spool ends every later start of the collector.
- *Router.* An executor that throws records nothing, also when a verb went out before.
  An on-demand poll that was skipped is answered like one that ran.
- *Speed tests.* A container that restarts in the middle of a test resets the budget that
  `src/routes/speedtests.ts` says a restart cannot reset.
- *Heartbeat.* The path it decides by is the newest one that was captured, however old.
- *Reads and verdicts.* The loss that hits everything alike is compared with the worst
  anchor only; a sampler that ran for no second counts as one that watched; a resync is
  missed when a poll without showtime lies between; degradation leaves out every cycle
  inside any outage row, also one of the gateway alone, and the recovery cycle; the
  watching of the first and the last cycle counts in full; an outage that had ended before
  the resync can be given it as its cause; a counter that restarted and has passed its old
  value is taken for one that went on; bytes older than the lookback are lost without a
  caveat.
- *Page.* The downtime of a window adds up the rows of both scopes (`lib/downtime.ts:51`, from
  `index.tsx:262`, which passes on both), so while gateway and WAN are silent at once each
  second counts twice, and a window can have more downtime than time. A page whose server does
  not answer goes on showing what it showed. The share that was measured counts buckets as shown and takes one in which
  nothing answered for not measured; the coverage since the first cycle has the left edge
  of `RecordGap`.

Properties are stated so that they hold with these; where one needs an exception, its
comment names it.

## What is proved

By induction over the actions of each specification, for every value of its constants that
its named assumptions admit and whatever number its bounds are:

| Module | Theorem | Says |
|---|---|---|
| `WatchdogProofs` | `TypeCorrect` | `Spec => []TypeOK` |
| | `WriteAheadDurable` | `SentIsLogged`: what reached the router, or still can, is on the disk until retention |
| | `ActionsSpaced` | `SentSpaced`: two actions of a kind are never closer than their minimum interval |
| | `OutageAnsweredOnce` | `OneActionPerOutage`: no outage is answered twice with the same verb |
| | `PeopleComeFirst` | `PeopleFirst`: no verb in a person's quiet period, no reboot without an announcement in its own outage and the lead after it |
| | `LadderClimbs` | `LadderOnlyClimbs`, an action property: no step lowers the ladder before every evaluation of the recovery window saw the line good; where one saw it bad and could not write the ledger, the window is that of the evaluations that could |
| | `RationKept` | `RationHeld`: the budget of the day, the latch, the cooldown |
| | `RecordIsTold` | `RecordTold`: every event the spool took, and one for every action |
| | `AlarmsAreKept` | `AlarmsKept`: every call for help, but of a tick that died, found the spool full or had no push URL |
| | `RebootIsForeseen` | `RebootForeseen`: since the announcement, and before the reboot was decided, a notification was pushed or is waiting in the spool for the line |
| `PipelineProofs` | `ShapeKept` | `Spec => []TypeOK` |
| | `RecordStaysSound` | `RecordSound`: nothing is lost between file, wire and record, the record grows in order, the memory of the outage machine is the table's open row |
| | `NoFalseChange` | no link change is told of that was none, even when handlers break |
| | `ChangesAreTrue` | `ChangesTrue`: and every one is told of where none breaks |
| | `OutagesAreRuns` | the rows of a scope are the runs of down cycles it was fed, whatever dies, is lost or is cut short |
| | `EachScopeIsARecord` | `EachScopeRecord`: each scope implements `OutageRecord`, where no request outlives its sender |
| `SessionProofs` | `ShapesHold` | `Spec => []TypeOK` |
| | `NobodyIsWedged` | `NobodyWaitsForEver`: the poller's flag and the client's chain are always given back |
| | `PollsBreakOffForCause` | `AbandonedForCause`: the executor never costs a poll its session |
| | `PollsTellWhatAnswered` | `TellsWhatAnswered`: nothing unasked is told, nothing withheld because the WAN is down |
| | `ResyncsAreTrue` | `ResyncTrue`: a resync is recorded exactly when there was one |
| | `DoubtsAreSettled` | `TimelineAgrees`: a doubt is announced once, its end only after it |
| | `VerbsKeepTheirOrder` | `VerbsInOrder`: the plan, in its order, on a live connection |
| | `RowsAreTrue` | `RowsTellWhatWasSent`: a note sent nothing, an executed row everything |
| `JobsProofs` | `LogKept` | `NoHole` of `LogRotate` |
| | `SaysMeasured` | `SaysWhatWasMeasured` of `Heartbeat` |
| | `TestsCount` | `EveryTestCounts` of `Speedtest` |
| | `LinkReported` | `LinkReportTrue` of `LinkWatch` |
| | `CaptureTrue` | `CaptureIsTrue` of `Capture` |
| `RecordProofs` | `DowntimeListed` | `DowntimeIsListed`: every recorded cycle in which no anchor answered lies in an outage the window lists, and is not degradation as well |
| | `ClaimsHold` | `ClaimsTrue`: the share on the home line, the contradiction of gateway and anchors, the faults put on the local side and on the link |
| | `SilenceCalled` | `SilenceIsCalled`: where no verdict calls the collector silent or the coverage low, it was there |
| | `VolumeReal` | `VolumeIsReal`: no more is said to have moved than crossed the interfaces, whatever the width of the buckets, and bytes over span is the true rate while nothing restarts or moves |
| | `BucketsSum` | `BucketsAddUp`: bands enclose their centres, and buckets, range and outage rows count the same cycles |
| `CarrierProofs` | `CarrierClaims` | `CarrierClaimsTrue`: a dated resync took place and is dated once, and explains no outage with the host's own link at fault around it |
| | `HistoryReal` | `HistoryIsReal`: the router's history counts no restart that was none and no byte that did not cross, and shows nothing old as current |
| `ScreenProofs` | `GreenEarned` | `GreenIsWatched`: what is said to be up or shown green was answered in the newest cycle the page was told of, less than three cycles before the page was drawn; while its polls are answered it is drawn again within a cycle; and a window shown green or compared was watched |
| | `ScreenTrue` | `ScreenIsTrue`: the six parts of what the page draws (`FoldProven`, `SlotsTrue`, `VolumeWhole`, `ChartsTrue`, `PathIsNow`, `NothingBuried`) |

Where the run checks an instance under fairness (`LotsSpec`, `ReportSpec` with its own), the
theorem is about the specification without it, which has all of its behaviours. `MCJobs`
runs `LogSpec`, `HeartSpec`, `SpeedSpec`, `LinkSpec`, `CaptureSpec`, `WorldSpec` and
`CarrierSpec` side by side, one of them moving in each behaviour.

**Assumptions.** `PolicyAssumption`, `WatchdogAssumption`, `ReportAssumption`,
`PipelineAssumption`, `RouterAssumption` and those of the jobs give the constants their
types; the null assumptions keep a missing value apart from values. What is more than that:

- `SpacingAssumption`: each minimum interval is positive, at least the exhaustion time and
  at most the retention of the ledger. `DEFAULT_POLICY` has 15 minutes, one and six hours,
  and two days. Without its upper part an action would be pruned while it still holds the
  next one back; without its lower part a ladder could live long enough to repeat one.
- `RationAssumption`: the day of the budget is within retention, and neither a recovery nor
  a clean window is over in the evaluation that begins it.
- `PeopleComeFirst` asks for `"events_unread" \notin Allowed`: the code takes the quiet
  period as absent when `/api/events` does not answer, and the theorem is false then.
- `RebootIsForeseen` asks for `WordInTime`: the notification interval is within the announced
  lead (60 seconds each by default), a process is of some age before it acts (120 seconds),
  and `"slow_tick" \notin Allowed`: a tick that takes as long as the lead says nothing in it.
- `AbsentIsNoNumber`, `AbsentIsNoWord`, `AbsentIsNoReport`, `AbsentIsNoRow` and
  `AbsentIsNoLabel` keep the missing value apart from what a column, a row or a variable may
  hold; `CaptureAssumption` and `WorldAssumption` that names of different things differ;
  `InstantAssumption` that the phase is within a slot and that whoever reads does so between
  10 s after the newest cycle began, when its echoes are in, and the next one;
  `ScreenAssumption` that the anchors are finitely many.
- `CarrierAssumption`: a poll is answered before the next cycle.
- `GateAssumption`: of the cycles around a resync none can go unwatched and leave the 90 %
  the link gate asks for (`MinLinkShare`). It holds for the default cycle of 30 s
  (`src/collector/probe.ts:102`) and for the 60 s of the run. With cycles of 25 s it is
  false, and `CarrierClaimsTrue` with it, in the model, where a cycle is watched whole or not
  at all: the host's link is at fault in cycles 2 and 3, the line in 4 to 7, cycle 4 goes
  unwatched, and the resync is given as the cause although the link did move.
- `RouterAssumption`: a read of the line comes no later than the tolerance of the restart
  test allows, and the line's own pages are read first.
- `PipelineProofs`: `EachScopeRecord` and `ChangesTrue` say themselves which faults they
  exclude (a late request, a broken handler), and `OutagesAreRuns` and `NoFalseChange` say
  what is left when those faults are there.

**The arguments.** None of these invariants is inductive as it stands.

*Watchdog.* `SentIsLogged` does not say that the process which is about to send wrote its
intent down first. `Handshake` does: while the process is performing, the ledger's pending
entry is its intent; until that is handed over, and once it is known not to have run, nothing
of it is on its way or at the router. With it each action keeps the log complete: `Tick`
writes the pending entry before anything can be sent, `Close` replaces it by a closed entry
of the same time, kind and key, and `Housekeep` prunes only what is past retention. `Apart`
says that whatever has been issued keeps its distance: a new verb is decided only if
`WithinInterval` finds nothing in the log, and `SentIsLogged` says that the log has everything
that matters to it. `AllInTime` says that an issued action is less than `exhaustAtS` past its
own outage key; two actions of one key and kind would then be closer than the interval.

    IInv == TypeOK /\ Handshake /\ SentIsLogged /\ Apart /\ AllInTime

`LadderOnlyClimbs` needs to know what `disk.healthySince` is worth: it is `toldGoodAt`, and
`goodAt` too unless a bad evaluation went unsaid; that an evaluation which throws leaves the
disk alone is then all the difference.

`Courtesy` adds that what a person wrote is never newer than the clock and that an
announcement is of the outage at hand. `Ration` counts `Charged`, what reached the line or
still can: the budget because what the ledger holds of a day is in one-to-one correspondence
with what was charged (so no set of charged actions has more members than the log), the
latch because `disk.consecutive` counts everything since the last clean window, the cooldown
because `disk.cooldownUntil` outlives what is asked of it.

*Report.* The steps of the reporting process are steps of the watchdog, so `IInv` holds of
it. `ActsOnRecord` says that an action is only performed while its event has a place in the
spool, `Draining` and `Pushing` that what a request has in hand covers what the file would
lose by the rewrite, `AlarmsHeld` that a call that is in no file is the one about to be made.

For `RebootForeseen` the invariant `WordInv` says where the word of an announcement is while
its lead runs (`Foretold`): it was pushed or waits (`Pushed`), the tick that announced is
about to send it (`Telling`), the throttle holds it back and will let it through before the
lead is over (`HeldBack`), the process is of a restart since and too young to act
(`Restarting`), or a tick was cut or refused (`Lapsed`), for want of a URL too. `Clocked` says that none of the
times these compare is ahead of the clock.

*Pipeline.* `NothingLost` needs to know what the collector has in hand, and why the rewrite
of the spool loses nothing:

    PipeInv == TypeOK /\ Hand /\ Files /\ NothingLost /\ Settled /\ InOrder /\ Memory

`Files` says that the backlog in hand is in the order of the cycles, torn lines last, and
covers the file it was read from; `Settled` that nothing is sent, and so nothing stored,
before all that is older is stored or let go of, which is what makes `InOrder` hold; `Memory`
is `MemoryAgrees` without the count. A handler that stops after k statements is a step of its
own, so every conjunct is shown for every prefix of its writes. `ChangesReal` and `ChangesAll`
relate every row of a vantage to the newest one before it.

*Refinement.* For one scope, lemmas about `OutageRecord` say what feeding it one newer cycle
does to its runs: none, one more cycle, one that ends. `FollowInv` says that the rows are the
runs of what the scope was fed, and the machine's memory the run that is open. Where no
request is late, `Ahead` adds that whatever the collector still holds is stored or newer than
the record, so a scope is only ever fed its newest cycle, or, of a cycle it was fed before,
nothing: the step of the abstract specification, or a stutter.

*Session.* `Control` says that whoever is in a login holds the chain, and nobody else, which
gives `NobodyWaitsForEver`. `Sound` says that whoever is at work and undisturbed still has
the session or is about to be given the one another login of the same client brings: the
reason why two users of one client never cost each other their turn. `Executor` follows one
request (`Waiting`, `Acting`, `Over`) and says which prefix of its plan has gone out where it
stands. `Heard` says that a poll holds what the router showed it. `Lines` relates the
counters that were stored and those that are held to the trainings they were read of: each
reading is within `ReadTime` of its timestamp (`Reading`), and of two trainings the later is
so much later that no tolerance hides it (`Later`).

*Jobs.* `LogRotate`: the file and the generation before it end where the writer is
(`Aligned`), also between the stages of a rotation (`AtStage`). `Heartbeat`: what the record
says, and what a push says, was true so long ago (`RecordWasTrue`, `PushWasTrue`). `Speedtest`:
of the tests that were begun and not lost one is at work, or none, and the rest have their rows
in order. `LinkWatch`: the sampler remembers the last reading of the interface it watches
(`MemoryIsLast`), and each reading is placed in the batch of its own cycle (`Placed`).
`Capture`: whatever a command has printed so far was true of some state in `lived`, the set
of the states the host was in since the command began; one conjunct per command (`RouteHeard`
to `PingHeard`), since each parser reads another part of the host.

*Record.* `WorldInv` says that the tables are the rows of the recorded cycles, all of them and
no others: the samples, one row of `cycles` each, the events of the link (`SamplesKept`,
`CyclesKept`, `EventsKept`), and that an outage began with a recorded cycle of its kind while
every cycle without an anchor lies in one (`OutagesKept`). What a query finds is then
traced to the cycle it came of, branch by branch of the rule that speaks. The share of
coverage is arithmetic on a cardinality: the recorded timestamps since the first are in
one-to-one correspondence with the cycles that were not missed.

*Sums.* What the reads sum up needs more of the tables than `WorldInv` says:

    BooksInv == WorldInv /\ OutagesCounted /\ BytesCounted

`OutagesCounted`: of a scope's outages no two begin together and one at most is open, so that
a cycle grows one row, and the cycles of the gateway's rows are as many as the recorded
cycles in which it did not answer. `BytesCounted`: between two rows of one path, and between
the last of them and now, a counter gains at most the two units a cycle brings, and exactly
those while there is no reboot and no move. A sum over buckets is then the sum over what they
partition (`SumParts`), a sum over intervals is bounded because the intervals in use are
disjoint and none is longer than its rows are apart. For the percentiles, a rank from 1 to
the number of samples has a value, and a higher rank no lower one. `DataLemmas` has what this
needs of sums: a sum over a finite set is the community modules' fold, shown to take its
elements in any order by taking one out of the set at a time; what holds of the empty set and
of every set with an element more holds of all (`AllSubsets`), because the sizes of the sets
it fails for have a least one.

*Carrier.* `CarrierNext` appends one minute at a time, and the tables are functions of the
minutes; the invariant says what the minutes mean:

    CarrierInv == MinutesRun /\ UpSince /\ WanCounted /\ CarrierRows

`MinutesRun` gives each minute its shape, `UpSince` says that the line came up last where the
minute says it did, `WanCounted` that what crossed the WAN since any cycle came while the line
was up, `CarrierRows` that the rows are those of the minutes and no others. Two comings-up are
further apart than the tolerance by which resyncs are one (`ClusterTolerance`), so a dated one
is dated once. The gate of the cause is the hard part: between a cycle with the host at fault
and the coming up the host's link changed back; no event is on record, so the cycle of the
change was not watched; and one such cycle leaves too little of the window watched
(`GateAssumption`). For the history, restarts map one to one into comings-up, because the
uptime they are read of gives strictly later trainings, and the bytes of a role are bounded
because the intervals between its rows are disjoint.

*Screen.* What is green is read off the samples, and that the anchors were up is known from
the outages; what is drawn needs to know how the counters stand:

    ScreenInv == BooksInv /\ OutagesEnd
    PageInv == ScreenInv /\ StandsStill /\ BytesTell

`OutagesEnd`: an outage ended with a recorded cycle, and every recorded cycle in which the
gateway did not answer lies in one of the gateway's. With no row open, the newest recorded
cycle is therefore in none; a slot that counts as measured holds a sample with a median, which
only an answered cycle leaves; and where the window lost no second and no row is open, none of
its cycles was down. `StandsStill`: the line has one reading and the tests are finitely many.
`BytesTell`: while no host restarted, an interface has counted two units for each cycle of its
path, now and in every row.

What the page shows as current is older than that. `TrueTo(status, n)` says of an answer that
it is true of the first n cycles, whose newest recorded one it speaks of; `StatusIsTrue` that
the route's is, when it is given; `TrueStays` that it stays so while cycles go by; and
`PageTells` that the page holds such an answer, of as many cycles as it was told of
(`asOf`). That a reading which passes for current is less than three cycles old is the
arithmetic of a floored clock against a stamp that is not (`FreshIs`); that an answered page is
never older than a cycle follows from `PageDrawn`: it is drawn at every second cycle at least.

`ScreenIsTrue` has a lemma for each part. A bucket's row of a target is of as many samples as
the bucket has recorded cycles, because both are in one-to-one correspondence (`CellIs`); what
all anchors lost is bounded from below by what their counts cannot hide (`InAllParts`: of
parts of a whole, the sum of their sizes less one whole for each but one), which is what
`DownOfAll` computes. The slots of a window are at most `MaxRangeSlots` and one, fewer than
`densify` refuses, and each bucket with a recorded cycle has one row of the gateway. A volume
is a sum over rows; without a caveat each row after the first has the row before it within
reach and on its own path, so the sum telescopes per path into the counters at both ends
(`BytesTell`), and the cycles in between that nobody recorded were counted on the path of the
next one that was. A median lies between two of its values (`MedianBetween`), so the headline,
a median of medians of pairs of medians, lies between two round trips. A footnote of coverage
bounds the missing cycles by arithmetic on a rounded share (`HardlyMissing`).

**Model-checked only**, and why:

- `AlarmHeard`, `EveryCycleRecorded` and `AlarmFollows` are liveness under fairness, which is
  out of the prover's reach.
- `DownIsCalled` is an invariant since it names the time in which a person must be called
  (`LadderTime`). That no blocker outlasts the ladder depends on how the clock, the looks and
  the policy's windows line up, and its proof has not been attempted.

They are checked for every behaviour up to the bound.

What three of them leave out, because the code does: `AlarmHeard` speaks of alarms that had a
push URL. `DownIsCalled` is promised to a line that looks down in one and the same way for a
ladder's time, in a process that lives, with no action left pending. `EveryCycleRecorded`
holds also where handlers break between their writes, but not where a spool line was torn or
behind a batch the route refuses.

Proving changed the models where they could not be reasoned about or were wrong:

- the cooldown was promised also after an outage that outlasted the retention of the ledger,
  which the code has forgotten by then (`Seeing`);
- `ResyncTrue` was false beyond the bound of its run, for two trainings that are each read in
  the second they came up;
- `AlarmsKept` used to excuse every death and any full spool; it now names the ticks (`cut`,
  `refused`);
- `ClassifyHardwarePort`, `HomeLineVerdict` and `ResolveRange` were written as a `CASE` whose
  arms overlap, of which TLA+ may take either and TLC takes the first: they are chains of
  conditions now, as in the code;
- `CarrierClaimsTrue` was promised for cycles of any length, and the link gate keeps that
  promise only where `GateAssumption` holds;
- a percentile is found by its rank in a set and no longer by sorting a sequence;
- the search for a row of a page, and the operations of a request, are functions and
  quantifiers instead of filtered sequences;
- the page's medians are taken over the rows that have the value, and not over a sequence the
  missing ones are filtered from;
- `GreenIsWatched` and `PathIsNow` promised two cycles, because samples and reader stood on
  the grid of the page's clock and the page was always current; both are free now, and what
  holds is three cycles from the stamp to the draw (`Phase`, `ReadAfterS`, `page`);
- `LadderOnlyClimbs` did not look at evaluations whose write threw (`Seeing`), and
  `DownIsCalled` was checked of a line with one face only (`Steady`);
- `GreenIsWatched` excluded a cycle in which some anchors are silent by the kind of the cycle;
  it names the silence now, so that it holds whatever kinds of cycle there are;
- `ScreenIsTrue` was false beyond the bound of its run in five places. A footnote was said to
  hide one missing cycle, and hides one in a hundred and one more (`NothingBuried`). The
  cycles in which the internet is shown down include those in which each anchor was silent
  although the path was up (`FoldProven`). A cycle nobody recorded is counted on the path of
  the next one that was, and not on the home line (`VolumeWhole`). A window of any length
  overruns the limit of slots, so the windows are those the page asks for (`MaxRangeSlots`).
  And the anchors have to be finitely many (`ScreenAssumption`).

## Not modelled

Notes, log lines, sentences and formats everywhere, save where a conversion decides
something (a rank, a rounding, a partial output). The text formats of the host's tools:
the parsers are modelled by what they select from the fields printed. The cipher and the
token of the router's login; the redaction patterns. The Wi-Fi history, `resolveOnHomeLine`
on the server (the collector's own derivation is in `Capture`), listings and deletions by
hand, authentication. Rendering, charts and the browser's own state. Clocks never step
back in the models.

## What is left

- Hazards without a property, listed in `PROJECT.json`: a ledger that cannot be understood,
  a torn line in front of a spool, a clock that steps back. Each needs a state the models do
  not have: the text of a file, or a wall clock beside the steady one.
- Liveness is checked and not proved.
