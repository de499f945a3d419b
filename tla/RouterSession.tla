--------------------------- MODULE RouterSession ---------------------------
(***************************************************************************)
(* Everything that talks to the router: the read client and its single     *)
(* admin session (services/router/client.ts), the poller and its schedule  *)
(* (poll.ts, scheduler.ts), the executor (actions.ts) and the routes above *)
(* it (routes/router-actions.ts).  All of them share one client in one     *)
(* process; the router admits one session and gives it to whoever logged   *)
(* in last, a person in its own pages included.                            *)
(*                                                                         *)
(* The client serialises its operations: each is one step here, but for    *)
(* the login, which gives up the old session long before it has a new one. *)
(* Between two operations anything may happen.                             *)
(***************************************************************************)
EXTENDS RouterReading, FiniteSetsExt

CONSTANTS
  Keys,           \* the pages a poll reads, in their order: READS, or those of it an instance keeps
  Requests,       \* POSTs to the two action routes
  Kinds,          \* the actions they may ask for, a subset of {"reconnect", "reboot"}
  ConnTypes,      \* the kinds of connection the line may have
  HostVantages,   \* what the collector's newest cycle may say of its own link
  ReadTime,       \* the longest time from a poll's timestamp to the reading of the line
  PollMinInterval,\* POLL_MIN_INTERVAL_S
  StartTime,      \* bound: the clock when the model begins, with the line up since 0
  MaxTime,        \* bound: the clock
  MaxWork,       \* bound: polls and requests begun, together
  MaxFaults       \* bound: logins by a person, WAN drops, failed requests, restarts

Pollers == {"cron", "demand"}
Procs == Pollers \cup Requests

\* The words on the pages and in the answers, the rows of the WAN page, and what is made of one.
Words ==
  {"executed", "failed", "unknown", "refused", "not_executed", "restored", "disagreement", "spare", "main",
   "br0", "1", "3", "LAN", "Connecting", "Connected", "Disconnected", "status", "continuity"} \cup ConnTypes
WanRows == [name : Words, ifName : Words, connType : Words, stack : Words, connStatusV4 : Words,
            connStatusV6 : Words, uptimeV4 : {Null}, uptimeV6 : {Null}]
LiveWans == [name : Words, ifName : Words, connType : Words, stack : Words, connStatusV4 : Words,
             connStatusV6 : Words, uptimeV4 : {Null}, uptimeV6 : {Null}, selectedBy : Words]

READS == <<"fastLine", "lineStats", "adtWan", "ipIntf", "ipIntfStats", "ethIntf", "hosts", "hostEntry">>

\* The line's own pages come first, as in READS: they are read within ReadTime.
ASSUME RouterAssumption ==
  /\ Keys \in Seq(ToSet(READS)) /\ IsInjective(Keys) /\ Keys # <<>>
  /\ \A i \in DOMAIN Keys : Keys[i] = "lineStats" => i <= 2
  /\ Requests \cap Pollers = {} /\ Null \notin Procs
  /\ Kinds \subseteq {"reconnect", "reboot"}
  /\ {Tolerance, HostVantageAge, ReadTime, PollMinInterval, StartTime, MaxTime, MaxWork, MaxFaults}
       \subseteq Nat
  /\ ReadTime <= Tolerance /\ StartTime <= MaxTime

\* What is missing, and what was blanked, is no value; nor is a missing row a row.
ASSUME NullAssumption ==
  /\ Null # Redacted /\ \A v \in {Null, Redacted} : v \notin Nat /\ v \notin Words
  /\ Null \notin [ts : Nat, seconds : Nat]
  /\ Null \notin [showtimeStart : Nat, errors : {<<Null>>}, at : Nat]
  /\ Null \notin WanRows /\ Null \notin LiveWans

VARIABLES
  config,    \* [enabled, write]: LINEWATCH_ROUTER_POLL and LINEWATCH_ROUTER_WRITE
  clock,
  device,    \* the router: up, who holds its session, its WAN, when its line came up
  client,    \* the client: does it hold a session, whose login is under way
  pc,        \* where each poll and each request stands
  poll,      \* what each poll has read
  request,   \* what each request is about
  memory,    \* the running flag, lastDisagreementSignature
  db,        \* the newest line and WAN rows, the rows of the action routes
  work, faults,
  written,   \* history: what the newest poll stored, and out of what
  announced, \* history: the newest event about the two vantages since the process began
  verbs,     \* history: the operations the router performed for each request
  disturbed  \* history: the polls and requests during which something outside went wrong

vars == <<config, clock, device, client, pc, poll, request, memory, db, work, faults, written,
          announced, verbs, disturbed>>
outside == <<config, clock>>

-----------------------------------------------------------------------------
(* The pages of the router. *)

CollectorIp == "collector"

Instance(name, stack, v4, v6, type) ==
  [name |-> name, ifName |-> name, connType |-> type, stack |-> stack, connStatusV4 |-> v4,
   connStatusV6 |-> v6, uptimeV4 |-> Null, uptimeV6 |-> Null]

\* A line on DS-Lite: its v4 status never gets past `Connecting`.
AdtWan ==
  IF device.wan = "up"
  THEN <<Instance("spare", "1", "Disconnected", "Disconnected", "PPPoE"),
         Instance("main", "3", "Connecting", "Connected", device.connType)>>
  ELSE <<Instance("spare", "1", "Disconnected", "Disconnected", "PPPoE"),
         Instance("main", "3", "Disconnected", "Disconnected", device.connType)>>

Host(active) ==
  [ip |-> CollectorIp, interfaceType |-> "Ethernet", active |-> active, layer1 |-> 1, layer2 |-> Null]

\* `at`, the time the line came up, is history.
Pages(key) ==
  CASE key = "fastLine"    -> {<<[status |-> "Up", rates |-> 1, profiles |-> <<Null>>]>>}
    [] key = "lineStats"   -> {<<[showtimeStart |-> clock - device.lineStart, errors |-> <<Null>>,
                                  at |-> device.lineStart]>>}
    [] key = "adtWan"      -> {AdtWan}
    [] key = "ipIntf"      -> {<<[name |-> "br0", stack |-> 1, connType |-> "LAN"],
                                 [name |-> "main", stack |-> 4, connType |-> "PPPoE"],
                                 [name |-> "spare", stack |-> 5, connType |-> "PPPoE"]>>}
    [] key = "ipIntfStats" -> {<<[stack |-> 1, bytes |-> 1], [stack |-> 4, bytes |-> 1]>>}
    [] key = "ethIntf"     -> {<<[stack |-> 1, status |-> "up", maxBitRate |-> 1000, duplexMode |-> "full"]>>}
    [] key = "hosts"       -> {<<>>}
    [] key = "hostEntry"   -> {<<Host(1)>>, <<>>}

-----------------------------------------------------------------------------
(* Processes. *)

Active(p) == pc[p] \notin {"idle", "done", "thrown"}
Faulty == faults < MaxFaults /\ faults' = faults + 1

\* Something outside the process went wrong, for everyone who is at it.
Disturb == disturbed' = disturbed \cup {p \in Procs : Active(p)}

\* Mutant: operations do not wait for a login that is under way.
Free_Always == TRUE

\* `serialise`: no operation runs while a login is under way.
Free == client.chain = Null

NotAsked == [key \in ToSet(READS) |-> Null]
PollFrom(t) == [ts |-> t, next |-> 1, got |-> NotAsked, abandoned |-> FALSE]
NoPoll == PollFrom(0)
NoRequest == [kind |-> "reconnect", wan |-> Null, step |-> 1, outcome |-> Null]
Boot == [running |-> FALSE, signature |-> Null]

Init ==
  /\ config \in [enabled : BOOLEAN, write : BOOLEAN]
  /\ clock = StartTime
  /\ device \in [up : {TRUE}, slot : {Null}, wan : {"up"}, connType : ConnTypes, lineStart : {0}]
  /\ client = [held |-> FALSE, chain |-> Null]
  /\ pc = [p \in Procs |-> "idle"]
  /\ poll = [p \in Pollers |-> NoPoll] /\ request = [r \in Requests |-> NoRequest]
  /\ memory = Boot
  /\ db = [line |-> Null, wan |-> Null, rows |-> {}]
  /\ work = 0 /\ faults = 0
  /\ written = Null /\ announced = Null /\ verbs = [r \in Requests |-> <<>>] /\ disturbed = {}

-----------------------------------------------------------------------------
(* The session. *)

\* `startSession` drops what it holds before it asks for a new session.
BeginLogin(p) ==
  /\ pc[p] = "login" /\ Free
  /\ client' = [held |-> FALSE, chain |-> p]
  /\ pc' = [pc EXCEPT ![p] = "logging"]
  /\ UNCHANGED <<outside, device, poll, request, memory, db, work, faults, written, announced, verbs,
                 disturbed>>

\* The login evicts whoever held the slot. A poll takes its timestamp when it has its session.
LoginOk(p) ==
  /\ pc[p] = "logging" /\ device.up
  /\ device' = [device EXCEPT !.slot = "client"]
  /\ client' = [held |-> TRUE, chain |-> Null]
  /\ pc' = [pc EXCEPT ![p] = IF p \in Pollers THEN "reading" ELSE "snapshot"]
  /\ poll' = IF p \in Pollers THEN [poll EXCEPT ![p] = PollFrom(clock)] ELSE poll
  /\ UNCHANGED <<outside, request, memory, db, work, faults, written, announced, verbs, disturbed>>

\* Mutant: the chain stays broken after a rejection.
Rejected_Wedged(p) ==
  /\ client' = [held |-> FALSE, chain |-> p]
  /\ pc' = [pc EXCEPT ![p] = IF p \in Pollers THEN "idle" ELSE "thrown"]
  /\ memory' = IF p \in Pollers THEN [memory EXCEPT !.running = FALSE] ELSE memory

\* What a rejected login leaves: a poll that never happened, or a request that threw.
Rejected(p) ==
  /\ client' = [held |-> FALSE, chain |-> Null]
  /\ pc' = [pc EXCEPT ![p] = IF p \in Pollers THEN "idle" ELSE "thrown"]
  /\ memory' = IF p \in Pollers THEN [memory EXCEPT !.running = FALSE] ELSE memory

\* Six answers without parameters, a refused login, a shell without a token: the slot may be taken.
LoginFails(p) ==
  /\ pc[p] = "logging"
  /\ \/ ~device.up /\ UNCHANGED <<device, faults, disturbed>>
     \/ /\ device.up /\ Faulty /\ Disturb
        /\ device' \in {device, [device EXCEPT !.slot = "client"]}
  /\ Rejected(p)
  /\ UNCHANGED <<outside, poll, request, db, work, written, announced, verbs>>

\* The answers to one request over the held session. A refusal (406 four times, an error
\* code that is not cured by the other operation) leaves the session alone; when the
\* router still answers others, this session is what died.
SteadyAnswer ==
  IF ~client.held THEN "lost"
  ELSE IF ~device.up THEN "unreachable"
  ELSE IF device.slot # "client" THEN "lost" ELSE "ok"

Answered(a) ==
  \/ a = SteadyAnswer /\ UNCHANGED <<faults, disturbed>>
  \/ SteadyAnswer = "ok" /\ a \in {"refused", "lost", "unreachable"} /\ Faulty /\ Disturb

\* `invalidate` for a session that was lost; an unreachable router has said nothing about it.
Invalidate(a) == client' = [client EXCEPT !.held = @ /\ a # "lost"]

-----------------------------------------------------------------------------
(* The poller. *)

PollGuarded(p) == pc[p] = "idle" /\ config.enabled /\ work < MaxWork /\ ~memory.running

StartPoll(p) ==
  /\ PollGuarded(p)
  /\ memory' = [memory EXCEPT !.running = TRUE]
  /\ pc' = [pc EXCEPT ![p] = "login"] /\ work' = work + 1
  /\ disturbed' = disturbed \ {p}
  /\ UNCHANGED <<outside, device, client, poll, request, db, faults, written, announced, verbs>>

\* The timer after boot and the cron.
Cron == StartPoll("cron")

\* POST /api/router/poll: the budget is counted from the newest stored sample.
Demand ==
  /\ db.line # Null => clock - db.line.ts >= PollMinInterval
  /\ StartPoll("demand")

\* The next read is over with `got`; `stop` says that no other follows.
Taken(q, got, stop) ==
  [q EXCEPT !.next = @ + 1, !.got[Keys[q.next]] = got, !.abandoned = stop]
TakeIn(p, got, stop) ==
  /\ poll' = [poll EXCEPT ![p] = Taken(poll[p], got, stop)]
  /\ pc' = [pc EXCEPT ![p] = IF stop \/ poll[p].next = Len(Keys) THEN "storing" ELSE "reading"]

\* The eight reads, one at a time. One that is refused costs itself, one that ends the
\* session or the connection ends the reading.
PollRead(p) ==
  /\ pc[p] = "reading" /\ Free
  /\ \E a \in {"ok", "refused", "lost", "unreachable"} :
       /\ Answered(a) /\ Invalidate(a)
       /\ IF a = "ok" THEN \E page \in Pages(Keys[poll[p].next]) : TakeIn(p, page, FALSE)
          ELSE TakeIn(p, Null, a # "refused")
  /\ UNCHANGED <<outside, device, request, memory, db, work, written, announced, verbs>>

Rows(q, key) == IF q.got[key] = Null THEN <<>> ELSE q.got[key]
HeadOrNull(rows) == IF rows = <<>> THEN Null ELSE Head(rows)
AnsweredKeys(q) == {key \in ToSet(Keys) : q.got[key] # Null}

Line(q) == ParseLineSample(HeadOrNull(Rows(q, "fastLine")), HeadOrNull(Rows(q, "lineStats")))
HasLineReading(q) == Rows(q, "fastLine") # <<>> \/ Rows(q, "lineStats") # <<>>
Wan(q) == ParseLiveWan(Rows(q, "adtWan"), db.wan)
Interfaces(q) ==
  ParseIntfSamples(Rows(q, "ipIntf"), Rows(q, "ipIntfStats"), IF Wan(q) = Null THEN Null ELSE Wan(q).ifName)
Persisted(q) == {s \in Interfaces(q) : s.role \in {"wan", "lan"}}

Resync(q) ==
  DetectRestart(IF db.line = Null THEN Null ELSE [ts |-> db.line.ts, seconds |-> db.line.showtime],
                [ts |-> q.ts, seconds |-> Line(q).showtime])

Disagreements(q, vantage) ==
  LET host == Find(ParseHosts(Rows(q, "hostEntry")), LAMBDA h : h.ip = CollectorIp)
  IN CompareVantage(vantage, host, ResolveHostPort(host, ParseEthPorts(Rows(q, "ethIntf"))))

\* Mutant: an unread host list is compared like an empty one.
Comparable_Unasked(q, vantage) == vantage # Null

Comparable(q, vantage) == vantage # Null /\ q.got["hostEntry"] # Null

\* Mutant: every agreement is announced, also one nobody had doubted.
VantageEvent_Loud(changed, D, last) ==
  IF ~changed THEN Null ELSE IF D # {} THEN "disagreement" ELSE "restored"

VantageEvent(changed, D, last) ==
  IF ~changed THEN Null
  ELSE IF D # {} THEN "disagreement" ELSE IF last # Null THEN "restored" ELSE Null

LineRow(q) ==
  [ts |-> q.ts, showtime |-> Line(q).showtime,
   at |-> IF Rows(q, "lineStats") = <<>> THEN Null ELSE Head(Rows(q, "lineStats")).at]

\* What a poll has to store and to say, the collector's newest cycle saying `v`.
Outcome(q, v) ==
  LET vantage == FreshVantage(v, q.ts)
      comparable == Comparable(q, vantage)
      D == IF comparable THEN Disagreements(q, vantage) ELSE {}
      changed == comparable /\ D # memory.signature
  IN [wan |-> Wan(q), roles |-> {s.role : s \in Persisted(q)}, resync |-> Resync(q),
      row |-> LineRow(q), line |-> HasLineReading(q),
      partial |-> AnsweredKeys(q) # ToSet(Keys),
      said |-> VantageEvent(changed, D, memory.signature), doubts |-> D,
      signature |-> IF changed THEN D ELSE memory.signature]

\* One transaction with whatever was read; the signature is remembered after it.
Store(p) ==
  /\ pc[p] = "storing"
  /\ \E v \in HostVantages : \E out \in {Outcome(poll[p], v)} :
       /\ db' = [db EXCEPT !.line = IF out.line THEN out.row ELSE @,
                           !.wan = IF out.wan # Null THEN out.wan.name ELSE @]
       /\ memory' = [running |-> FALSE, signature |-> out.signature]
       /\ announced' = IF out.said = Null THEN announced ELSE out.doubts
       /\ written' = [out |-> out, answered |-> AnsweredKeys(poll[p]), abandoned |-> poll[p].abandoned,
                      disturbed |-> p \in disturbed, last |-> announced, before |-> db]
  /\ pc' = [pc EXCEPT ![p] = "idle"] /\ poll' = [poll EXCEPT ![p] = NoPoll]
  /\ disturbed' = disturbed \ {p}
  /\ UNCHANGED <<outside, device, client, request, work, faults, verbs>>

\* The transaction throws: nothing is stored, the flag is given back.
StoreFails(p) ==
  /\ pc[p] = "storing" /\ Faulty
  /\ memory' = [memory EXCEPT !.running = FALSE]
  /\ pc' = [pc EXCEPT ![p] = "idle"] /\ poll' = [poll EXCEPT ![p] = NoPoll]
  /\ UNCHANGED <<outside, device, client, request, db, work, written, announced, verbs, disturbed>>

-----------------------------------------------------------------------------
(* The action routes and the executor. *)

ReconnectPlan(connType) ==
  CASE connType \in {"PPPoE", "PPPoA", "IPoA", "StaticIP"} -> <<"ppp_disconnect", "ppp_connect">>
    [] connType = "DHCP" -> <<"dhcp_renew">>
    [] OTHER -> <<>>

Plan(r) == IF request[r].kind = "reboot" THEN <<"reboot">> ELSE ReconnectPlan(request[r].wan.connType)

Ends(r, outcome) ==
  /\ request' = [request EXCEPT ![r].outcome = outcome]
  /\ pc' = [pc EXCEPT ![r] = "recording"]

\* Without the write switch the route answers 403. The executor is the null one when the
\* poller never started, whatever the switch says.
Post(r) ==
  /\ pc[r] = "idle" /\ work < MaxWork /\ work' = work + 1
  /\ disturbed' = disturbed \ {r}
  /\ \E kind \in Kinds :
       LET asked == [NoRequest EXCEPT !.kind = kind]
       IN \/ /\ ~config.write
             /\ pc' = [pc EXCEPT ![r] = "done"] /\ UNCHANGED request
          \/ /\ config.write /\ ~config.enabled
             /\ request' = [request EXCEPT ![r] = [asked EXCEPT !.outcome = "not_executed"]]
             /\ pc' = [pc EXCEPT ![r] = "recording"]
          \/ /\ config.write /\ config.enabled
             /\ request' = [request EXCEPT ![r] = asked]
             /\ pc' = [pc EXCEPT ![r] = "login"]
  /\ UNCHANGED <<outside, device, client, poll, memory, db, faults, written, announced, verbs>>

\* Mutant: the executor acts on a connection carried over from the record.
Vouched_Remembered(rows) == ParseLiveWan(rows, db.wan)

\* The state before the action, from the router's own word alone.
Vouched(rows) == ParseLiveWan(rows, Null)

Snapshot(r) ==
  /\ pc[r] = "snapshot" /\ Free
  /\ \E a \in {"ok", "refused", "lost", "unreachable"} :
       /\ Answered(a) /\ Invalidate(a)
       /\ IF a # "ok" THEN pc' = [pc EXCEPT ![r] = "thrown"] /\ UNCHANGED request
          ELSE LET wan == Vouched(AdtWan)
                   refused == \/ wan = Null
                              \/ /\ request[r].kind = "reconnect"
                                 /\ wan.stack = Null \/ ReconnectPlan(wan.connType) = <<>>
               IN IF refused THEN Ends(r, "refused")
                  ELSE /\ request' = [request EXCEPT ![r].wan = wan]
                       /\ pc' = [pc EXCEPT ![r] = "acting"]
  /\ UNCHANGED <<outside, device, poll, memory, db, work, written, announced, verbs>>

\* What the router does when an operation reaches it.
Perform(r, intent) ==
  /\ verbs' = [verbs EXCEPT ![r] = Append(@, [intent |-> intent, selectedBy |-> request[r].wan.selectedBy])]
  /\ device' = CASE intent = "ppp_disconnect" -> [device EXCEPT !.wan = "down"]
                 [] intent = "reboot" -> [device EXCEPT !.up = FALSE, !.slot = Null]
                 [] OTHER -> [device EXCEPT !.wan = "up"]

\* Mutant: the second half of the pair goes out whatever became of the first.
AfterStep_Regardless(r, ok) ==
  IF request[r].step = Len(Plan(r)) THEN Ends(r, IF ok THEN "executed" ELSE "failed")
  ELSE request' = [request EXCEPT ![r].step = @ + 1] /\ UNCHANGED pc

\* A step that was refused ends the plan.
AfterStep(r, ok) ==
  IF ~ok THEN Ends(r, "failed")
  ELSE IF request[r].step = Len(Plan(r)) THEN Ends(r, "executed")
  ELSE request' = [request EXCEPT ![r].step = @ + 1] /\ UNCHANGED pc

\* Mutant: a reboot that took the answer with it is recorded without an outcome.
NoReply_Blank(r, a) ==
  IF request[r].kind = "reboot" /\ a = "unreachable" THEN Ends(r, Null)
  ELSE pc' = [pc EXCEPT ![r] = "thrown"] /\ UNCHANGED request

\* Silence after a reboot is what success looks like; any other silence throws.
NoReply(r, a) ==
  IF request[r].kind = "reboot" /\ a = "unreachable" THEN Ends(r, "unknown")
  ELSE pc' = [pc EXCEPT ![r] = "thrown"] /\ UNCHANGED request

\* `sendAction`: one operation and its reply.
Acknowledged(r, intent) ==
  /\ SteadyAnswer = "ok" /\ Perform(r, intent) /\ AfterStep(r, TRUE) /\ UNCHANGED client
  /\ UNCHANGED faults
  /\ IF intent = "reboot" THEN Disturb ELSE UNCHANGED disturbed

\* An error code means that nothing was done; a reply nobody can read says nothing at all.
Refused(r, intent) ==
  /\ SteadyAnswer = "ok" /\ Faulty /\ Disturb /\ AfterStep(r, FALSE) /\ UNCHANGED client
  /\ Perform(r, intent) \/ UNCHANGED <<device, verbs>>

\* The reply is lost, or the whole request; a reboot takes its own reply with it.
Silent(r, intent) ==
  \E a \in {"lost", "unreachable"} :
    /\ Invalidate(a) /\ NoReply(r, a)
    /\ \/ a = SteadyAnswer /\ UNCHANGED <<device, verbs, faults, disturbed>>
       \/ /\ SteadyAnswer = "ok" /\ Faulty /\ Disturb
          /\ Perform(r, intent) \/ UNCHANGED <<device, verbs>>
       \/ /\ SteadyAnswer = "ok" /\ intent = "reboot" /\ a = "unreachable"
          /\ Perform(r, intent) /\ UNCHANGED faults /\ Disturb

SendAction(r) ==
  /\ pc[r] = "acting" /\ Free
  /\ LET intent == Plan(r)[request[r].step]
     IN Acknowledged(r, intent) \/ Refused(r, intent) \/ Silent(r, intent)
  /\ UNCHANGED <<outside, poll, memory, db, work, written, announced>>

\* Mutant: only what was acknowledged counts as an intervention.
Touched_Acknowledged(outcome) == outcome = "executed"

Touched(outcome) == outcome \in {"executed", "failed", "unknown"}

RecordAndAnswer(r) ==
  /\ pc[r] = "recording"
  /\ db' = [db EXCEPT !.rows = @ \cup {[by |-> r, outcome |-> request[r].outcome,
                kind |-> IF Touched(request[r].outcome) THEN "intervention" ELSE "note"]}]
  /\ pc' = [pc EXCEPT ![r] = "done"]
  /\ UNCHANGED <<outside, device, client, poll, request, memory, work, faults, written, announced, verbs,
                 disturbed>>

-----------------------------------------------------------------------------
(* The world. *)

\* The line is read soon after its poll took its timestamp.
ReadInTime == \A p \in Pollers : pc[p] = "reading" /\ poll[p].next <= 2 => clock - poll[p].ts < ReadTime

Elapse ==
  /\ clock < MaxTime /\ ReadInTime /\ clock' = clock + 1
  /\ UNCHANGED <<config, device, client, pc, poll, request, memory, db, work, faults, written, announced,
                 verbs, disturbed>>

\* Two trainings of a line are further apart than a poll can tell.
LineResync ==
  /\ device.up /\ clock - device.lineStart > Tolerance + ReadTime
  /\ device' = [device EXCEPT !.lineStart = clock]
  /\ UNCHANGED <<outside, client, pc, poll, request, memory, db, work, faults, written, announced, verbs,
                 disturbed>>

\* The device comes back from a reboot: no session, the WAN dialled.
DeviceBoots ==
  /\ ~device.up /\ clock - device.lineStart > Tolerance + ReadTime
  /\ device' = [device EXCEPT !.up = TRUE, !.wan = "up", !.lineStart = clock]
  /\ UNCHANGED <<outside, client, pc, poll, request, memory, db, work, faults, written, announced, verbs,
                 disturbed>>

PersonLogsIn ==
  /\ device.up /\ device.slot # "human" /\ Faulty /\ Disturb
  /\ device' = [device EXCEPT !.slot = "human"]
  /\ UNCHANGED <<outside, client, pc, poll, request, memory, db, work, written, announced, verbs>>

WanDrops ==
  /\ device.up /\ device.wan = "up" /\ Faulty
  /\ device' = [device EXCEPT !.wan = "down"]
  /\ UNCHANGED <<outside, client, pc, poll, request, memory, db, work, written, announced, verbs, disturbed>>

\* The container is replaced: what was under way is gone, the router's slot is not.
Restart ==
  /\ Faulty
  /\ client' = [held |-> FALSE, chain |-> Null]
  /\ pc' = [p \in Procs |-> IF ~Active(p) THEN pc[p] ELSE IF p \in Pollers THEN "idle" ELSE "thrown"]
  /\ poll' = [p \in Pollers |-> NoPoll] /\ memory' = Boot /\ announced' = Null
  /\ Disturb
  /\ UNCHANGED <<outside, device, request, db, work, written, verbs>>

PollStep(p) == BeginLogin(p) \/ LoginOk(p) \/ LoginFails(p) \/ PollRead(p) \/ Store(p) \/ StoreFails(p)
RequestStep(r) ==
  BeginLogin(r) \/ LoginOk(r) \/ LoginFails(r) \/ Snapshot(r) \/ SendAction(r) \/ RecordAndAnswer(r)

World == Elapse \/ LineResync \/ DeviceBoots \/ PersonLogsIn \/ WanDrops \/ Restart
Next ==
  \/ Cron \/ Demand \/ World
  \/ \E p \in Pollers : PollStep(p)
  \/ \E r \in Requests : Post(r) \/ RequestStep(r)

Spec == Init /\ [][Next]_vars
-----------------------------------------------------------------------------
(* Properties. *)

OrNull(S) == S \cup {Null}

TypeOK ==
  /\ config \in [enabled : BOOLEAN, write : BOOLEAN] /\ clock \in StartTime..MaxTime
  /\ device \in [up : BOOLEAN, slot : {Null, "client", "human"}, wan : {"up", "down"},
                 connType : ConnTypes, lineStart : 0..MaxTime]
  /\ client \in [held : BOOLEAN, chain : OrNull(Procs)]
  /\ pc \in [Procs -> {"idle", "login", "logging", "reading", "storing", "snapshot", "acting",
                       "recording", "done", "thrown"}]
  /\ DOMAIN poll = Pollers /\ DOMAIN request = Requests
  /\ memory.running \in BOOLEAN /\ work \in 0..MaxWork /\ faults \in 0..MaxFaults
  /\ disturbed \subseteq Procs
  /\ \A r \in Requests : /\ pc[r] = "acting" => request[r].wan # Null
                         /\ pc[r] = "recording" => request[r].outcome # Null

\* One poll at a time, and the flag that keeps it so is up exactly while there is one:
\* also when the login failed, the transaction threw or the process was replaced
\* (scheduler.ts pollGuarded).
OnePollAtATime ==
  /\ \A p, q \in Pollers : Active(p) /\ Active(q) => p = q
  /\ memory.running <=> \E p \in Pollers : Active(p)

\* The chain of operations is held by nobody who is not in the middle of a login, so a
\* rejected operation never blocks the next one (client.ts serialise).
NobodyWedged == client.chain # Null => ~client.held /\ pc[client.chain] = "logging"

\* Neither a poll nor a login stands in the way of the next one for good.
NobodyWaitsForEver == OnePollAtATime /\ NobodyWedged

\* A poll stops half way only when something outside it happened meanwhile: the executor
\* logging in on the same client never costs the poll its session (client.ts serialise).
AbandonedForCause == written # Null /\ written.abandoned => written.disturbed

\* Nothing is stored, compared or announced that was not asked and answered in this poll
\* (poll.ts: an OID that did not answer produces no rows at all).
OnlyWhatAnswered ==
  written # Null =>
    LET A == written.answered
    IN /\ written.out.line => A \cap {"fastLine", "lineStats"} # {}
       /\ written.out.wan # Null => "adtWan" \in A
       /\ written.out.roles # {} => "ipIntf" \in A
       /\ written.out.said # Null => "hostEntry" \in A

\* A resync is recorded exactly when the line trained anew between two stored readings,
\* however long either reading took, save when the counter reads zero both times: then the
\* code takes it for one that does not run (derive.ts detectRestart).
ResyncTrue ==
  written # Null /\ written.before.line # Null =>
    LET before == written.before.line
        after == written.out.row
    IN before.at # Null /\ after.at # Null /\ ~(before.showtime = 0 /\ after.showtime = 0) =>
         (written.out.resync <=> after.at > before.at)

\* While a process lives the timeline and its memory agree: a doubt is announced once,
\* and settled only when one had been announced (poll.ts signatureChanged).
TimelineAgrees ==
  /\ memory.signature \notin {Null, {}} => announced = memory.signature
  /\ memory.signature = {} => announced \in {Null, {}}
  /\ written # Null /\ written.out.said = "restored" => written.last \notin {Null, {}}

\* Through an outage of the WAN its row and its counters go on, marked as carried over:
\* that is when they are needed (parse.ts parseLiveWan).
WanKeepsItsRole ==
  written # Null /\ {"adtWan", "ipIntf"} \subseteq written.answered /\ written.before.wan # Null =>
    written.out.wan # Null /\ "wan" \in written.out.roles

\* A poll tells of each part exactly what the router answered: nothing unasked, and nothing
\* withheld because the WAN is down.
TellsWhatAnswered == OnlyWhatAnswered /\ WanKeepsItsRole

\* The executor acts on no connection the router does not itself call live, whatever the
\* poller carried over (actions.ts reconnect).
ActsOnVouched == \A r \in Requests : \A i \in DOMAIN verbs[r] : verbs[r][i].selectedBy = "status"

Intents(r) == [i \in DOMAIN verbs[r] |-> verbs[r][i].intent]

\* Half of a pair is never fired out of turn: a connect follows its own acknowledged
\* disconnect, and a request nobody disturbed does not leave the WAN half re-dialled.
PairsInOrder ==
  \A r \in Requests :
    /\ Intents(r) \in {<<>>, <<"ppp_disconnect">>, <<"ppp_disconnect", "ppp_connect">>,
                      <<"dhcp_renew">>, <<"reboot">>}
    /\ Intents(r) = <<"ppp_disconnect">> /\ ~Active(r) => r \in disturbed

\* The verbs that go out are the ones of the plan, in its order, on a live connection.
VerbsInOrder == ActsOnVouched /\ PairsInOrder

\* What the record says of a request is what it did: a note sent nothing, an executed one
\* everything, and no verb hides behind a note (router-actions.ts recordAndAnswer).
RowsTellWhatWasSent ==
  \A row \in db.rows :
    /\ row.kind = "note" => Intents(row.by) = <<>>
    /\ row.outcome = "executed" => Intents(row.by) = Plan(row.by)

=============================================================================
