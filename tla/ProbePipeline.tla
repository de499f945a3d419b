---------------------------- MODULE ProbePipeline ----------------------------
(***************************************************************************)
(* The uptime record's path from the ping to the outage row: the native    *)
(* collector's cycle and its spool file (collector/probe.ts), the ingest   *)
(* route (src/routes/probes.ts), the vantage diff (cycle-vantage.ts) and   *)
(* the outage state machine (outage-detector.ts).  Two processes and the   *)
(* requests between them; either can die at any step, answers are lost,    *)
(* and the collector sends everything it has no answer for again.          *)
(*                                                                         *)
(* A batch is the timestamp of its cycle.  What the line really was in     *)
(* that cycle is `line`, chosen once, and so is which faults there may be. *)
(* The ingest handler is synchronous: nothing else runs between its        *)
(* statements, but each of them commits on its own, so a handler that is   *)
(* cut short leaves a prefix behind.  A batch the route will not have, for *)
(* its token or for its shape, it will not have the next time either.      *)
(***************************************************************************)
EXTENDS Naturals, Sequences, FiniteSets, FiniteSetsExt, SequencesExt

CONSTANTS
  Null,
  WanTargets,  \* the targets of scope `wan`
  Lines,       \* what a cycle may measure, a subset of Measurement
  SpoolMax,    \* config.spoolMaxLines
  MaxTime,     \* bound: the cycles that are measured; the last one is then measured again
  MaxFaults,   \* bound: deaths, lost answers and broken handlers
  Allowed,     \* the faults a behaviour may meet beside deaths and lost answers
  Torn         \* a spool line that was half written

Scopes == {"gateway", "wan"}
Faults == {"late", "break", "torn"}
Times == 1..MaxTime

\* `vantage` is the path the cycle went out over: a path, "unknown" for a vantage that
\* could not tell, "absent" for a batch with no vantage at all.  `taken` is whether the
\* ingest route passes the batch: a 401 or a 422 is the answer to every copy of it.
Measurement ==
  [silent : SUBSET ({"gateway"} \cup WanTargets), vantage : STRING, taken : BOOLEAN]

ASSUME PipelineAssumption ==
  /\ Lines \subseteq Measurement /\ SpoolMax \in Nat /\ MaxTime \in Nat \ {0} /\ MaxFaults \in Nat
  /\ Null \notin Nat \cup [startedAt : Nat, lastTs : Nat, cycles : Nat]
  /\ Torn \notin Nat /\ Torn # Null /\ Allowed \subseteq Faults

VARIABLES
  line,     \* what the line is at each cycle
  allowed,  \* which of the faults Allowed this behaviour may meet
  now,      \* the newest cycle measured
  spool,    \* the spool file: a sequence of lines
  col,      \* the collector process
  net,      \* batches sent and not yet handled
  srv,      \* the server process: [up, open], with the detector's open map
  db,       \* the server's tables
  faults,   \* how many faults there have been
  gaveUp,   \* history: cycles the collector will not send again
  belated,  \* history: cycles stored after a newer one
  applied   \* history: the cycles each scope of the detector was fed

vars == <<line, allowed, now, spool, col, net, srv, db, faults, gaveUp, belated, applied>>

NoneOpen == [s \in Scopes |-> Null]
DeadCol == [up |-> FALSE, pc |-> "idle", current |-> Null, todo |-> <<>>, count |-> 0]

Init ==
  /\ line \in [Times -> Lines] /\ allowed \in SUBSET Allowed /\ now = 0
  /\ spool = <<>> /\ col = [DeadCol EXCEPT !.up = TRUE] /\ net = {}
  /\ srv = [up |-> TRUE, open |-> NoneOpen]
  /\ db = [samples |-> {}, vantages |-> {}, changes |-> {}, outages |-> {}]
  /\ faults = 0 /\ gaveUp = {} /\ belated = {} /\ applied = [s \in Scopes |-> {}]

Faulty == faults < MaxFaults /\ faults' = faults + 1

-----------------------------------------------------------------------------
(* The outage state machine: on S, the open map and the outage rows.  A row *)
(* is known by its scope and its start, as the code knows it by its id.     *)

Down(scope, t) ==
  IF scope = "gateway" THEN "gateway" \in line[t].silent
  ELSE WanTargets # {} /\ WanTargets \subseteq line[t].silent

Row(scope, o, end) ==
  [scope |-> scope, startedAt |-> o.startedAt, endedAt |-> end, cycles |-> o.cycles]
Others(S, scope, o) ==
  {r \in S.outages : ~(r.scope = scope /\ r.startedAt = o.startedAt)}

Opened(S, scope, t) ==
  LET o == [startedAt |-> t, lastTs |-> t, cycles |-> 1]
  IN [S EXCEPT !.open[scope] = o, !.outages = @ \cup {Row(scope, o, Null)}]

Extended(S, scope, t) ==
  LET o == [S.open[scope] EXCEPT !.lastTs = t, !.cycles = @ + 1]
  IN [S EXCEPT !.open[scope] = o, !.outages = Others(S, scope, o) \cup {Row(scope, o, Null)}]

Closed(S, scope, t) ==
  LET o == S.open[scope]
  IN [S EXCEPT !.open[scope] = Null, !.outages = Others(S, scope, o) \cup {Row(scope, o, t)}]

EvaluateScope(S, scope, t) ==
  LET o == S.open[scope]
  IN IF o # Null /\ t <= o.lastTs THEN S
     ELSE IF Down(scope, t) THEN IF o # Null THEN Extended(S, scope, t) ELSE Opened(S, scope, t)
     ELSE IF o # Null THEN Closed(S, scope, t) ELSE S

\* Mutant: the watermark is read off a column that is null while the row is open.
Loaded_Ended(outages) ==
  [s \in Scopes |->
    LET ongoing == {r \in outages : r.scope = s /\ r.endedAt = Null}
    IN IF ongoing = {} THEN Null
       ELSE LET r == CHOOSE r \in ongoing : TRUE
            IN [startedAt |-> r.startedAt, lastTs |-> r.endedAt, cycles |-> r.cycles]]

\* `load`, at boot: the rows still open, with their start for a watermark.
Loaded(outages) ==
  [s \in Scopes |->
    LET ongoing == {r \in outages : r.scope = s /\ r.endedAt = Null}
    IN IF ongoing = {} THEN Null
       ELSE LET r == CHOOSE r \in ongoing : TRUE
            IN [startedAt |-> r.startedAt, lastTs |-> r.startedAt, cycles |-> r.cycles]]

-----------------------------------------------------------------------------
(* The ingest handler, as the five writes it makes in this order.           *)

Known(path) == path \notin {"unknown", "absent"}

\* Mutant: the predecessor is read after the row has been inserted.
ChangeAt_After(rows, t) ==
  LET before == {u \in rows \cup {t} : u <= t}
      p == line[Max(before)].vantage
      q == line[t].vantage
  IN IF p # q THEN {[ts |-> t, before |-> p, after |-> q]} ELSE {}

\* `diffVantage` against the newest row before t.
ChangeAt(rows, t) ==
  LET before == {u \in rows : u < t}
      p == line[Max(before)].vantage
      q == line[t].vantage
  IN IF before # {} /\ Known(p) /\ Known(q) /\ p # q
     THEN {[ts |-> t, before |-> p, after |-> q]} ELSE {}

Writes == 5

\* The tables and the open map after the first k writes of a batch that is new.
Written(t, k) ==
  LET vantage == line[t].vantage # "absent"
      S == [open |-> srv.open, outages |-> db.outages]
      G == IF k >= 4 THEN EvaluateScope(S, "gateway", t) ELSE S
      W == IF k >= 5 THEN EvaluateScope(G, "wan", t) ELSE G
  IN [ open |-> W.open,
       db |-> [ samples |-> IF k >= 1 THEN db.samples \cup {t} ELSE db.samples,
                vantages |-> IF k >= 2 /\ vantage THEN db.vantages \cup {t} ELSE db.vantages,
                changes |-> IF k >= 3 /\ vantage THEN db.changes \cup ChangeAt(db.vantages, t)
                            ELSE db.changes,
                outages |-> W.outages ] ]

Put(t, k) ==
  /\ db' = Written(t, k).db
  /\ belated' = IF k >= 1 /\ \E u \in db.samples : u > t THEN belated \cup {t} ELSE belated
  /\ applied' = [applied EXCEPT !["gateway"] = IF k >= 4 THEN @ \cup {t} ELSE @,
                                !["wan"] = IF k >= 5 THEN @ \cup {t} ELSE @]

\* Mutant: nothing recognises a batch that has already been stored.
Store_Again(t) == Put(t, Writes) /\ srv' = [srv EXCEPT !.open = Written(t, Writes).open]

\* A batch whose timestamp has a sample is skipped whole.
Store(t) ==
  IF t \in db.samples THEN UNCHANGED <<db, srv, belated, applied>>
  ELSE Put(t, Writes) /\ srv' = [srv EXCEPT !.open = Written(t, Writes).open]

-----------------------------------------------------------------------------
(* The collector. *)

Sending == IF col.todo = <<>> THEN col.current ELSE Head(col.todo)
Waiting(t) == col.up /\ col.pc = "waiting" /\ Sending = t

DropCurrent == IF col.current = Null THEN gaveUp ELSE gaveUp \cup {col.current}

\* Mutant: a new cycle is posted without a look at the spool.
Backlog_Ignored == <<>>

\* What `processCycle` finds to replay.
Backlog == spool

\* `runCycle`, then `processCycle` reads the spool.  A line that does not parse throws
\* out of the main loop.
Measure ==
  /\ col.up /\ col.pc = "idle"
  /\ now' = IF now < MaxTime THEN now + 1 ELSE now
  /\ IF Torn \in ToSet(spool)
     THEN col' = DeadCol /\ gaveUp' = gaveUp \cup {now'}
     ELSE /\ col' = [col EXCEPT !.pc = "sending", !.current = now', !.todo = Backlog]
          /\ UNCHANGED gaveUp
  /\ UNCHANGED <<line, allowed, spool, net, srv, db, faults, belated, applied>>

\* `postBatch`: first the oldest of the backlog, the new cycle last.
Send ==
  /\ col.up /\ col.pc = "sending"
  /\ col' = [col EXCEPT !.pc = "waiting"]
  /\ net' = net \cup {Sending}
  /\ UNCHANGED <<line, allowed, now, spool, srv, db, faults, gaveUp, belated, applied>>

\* The batch on its way was accepted: the next of the backlog, or the spool is
\* truncated and the new cycle goes, or the cycle is done.
Accepted ==
  IF col.todo = <<>>
  THEN col' = [col EXCEPT !.pc = "idle", !.current = Null] /\ UNCHANGED spool
  ELSE LET drained == Tail(col.todo) = <<>>
       IN /\ col' = [col EXCEPT !.pc = "sending", !.todo = Tail(@),
                       !.count = IF drained THEN 0 ELSE @]
          /\ spool' = IF drained THEN <<>> ELSE spool

\* Mutant: the batch that failed is taken off the backlog.
Remainder_Skips == IF col.todo = <<>> THEN spool ELSE Tail(col.todo)

\* The file once a failed replay has been written back: the batch that failed and all
\* behind it.
Remainder == IF col.todo = <<>> THEN spool ELSE col.todo

\* The batch on its way was not accepted: write back what is left of the backlog, and
\* spool the new cycle behind it unless the spool is full.  The append can be torn by
\* whatever ends the process in the middle of it.
Failed(torn) ==
  LET count == IF col.todo = <<>> THEN col.count ELSE Len(col.todo)
      full == count >= SpoolMax
  IN /\ torn => ~full
     /\ spool' = IF full THEN Remainder ELSE Append(Remainder, IF torn THEN Torn ELSE col.current)
     /\ col' = IF torn THEN DeadCol
               ELSE [col EXCEPT !.pc = "idle", !.current = Null, !.todo = <<>>,
                       !.count = IF full THEN count ELSE count + 1]
     /\ gaveUp' = IF full \/ torn THEN DropCurrent ELSE gaveUp

\* Ten seconds without an answer, or no connection.  The request may be lost, or still
\* be on its way to a server that will handle it.
NoAnswer(arrived) ==
  LET pending == Sending \in net /\ srv.up
  IN /\ col.up /\ col.pc = "waiting"
     /\ IF pending THEN Faulty ELSE UNCHANGED faults
     /\ arrived => pending /\ "late" \in allowed
     /\ net' = IF arrived THEN net ELSE net \ {Sending}
     /\ Failed(FALSE)
     /\ UNCHANGED <<line, allowed, now, srv, db, belated, applied>>

\* The same, and the append is cut short.
TornAppend ==
  /\ "torn" \in allowed /\ Faulty
  /\ col.up /\ col.pc = "waiting"
  /\ net' = net \ {Sending}
  /\ Failed(TRUE)
  /\ UNCHANGED <<line, allowed, now, srv, db, belated, applied>>

CollectorDies(arrived) ==
  /\ col.up /\ Faulty
  /\ arrived => "late" \in allowed
  /\ net' = IF arrived THEN net ELSE {}
  /\ col' = DeadCol /\ gaveUp' = DropCurrent
  /\ UNCHANGED <<line, allowed, now, spool, srv, db, belated, applied>>

\* launchd starts it again, and it counts the lines of the file.
CollectorStarts ==
  /\ ~col.up
  /\ col' = [DeadCol EXCEPT !.up = TRUE, !.count = Len(spool)]
  /\ UNCHANGED <<line, allowed, now, spool, net, srv, db, faults, gaveUp, belated, applied>>

-----------------------------------------------------------------------------
(* The server. *)

\* The whole handler.  The answer may find nobody waiting for it.
Handle(t) ==
  /\ srv.up /\ t \in net /\ line[t].taken
  /\ net' = net \ {t}
  /\ Store(t)
  /\ IF Waiting(t) THEN Accepted ELSE UNCHANGED <<col, spool>>
  /\ UNCHANGED <<line, allowed, now, faults, gaveUp>>

\* The route turns the batch away before the handler has written anything.  To the
\* collector that is a failed post like any other.
Refuse(t) ==
  /\ srv.up /\ t \in net /\ ~line[t].taken
  /\ net' = net \ {t}
  /\ IF Waiting(t) THEN Failed(FALSE) ELSE UNCHANGED <<col, spool, gaveUp>>
  /\ UNCHANGED <<line, allowed, now, srv, db, faults, belated, applied>>

\* The whole handler, and its answer is lost.
HandleUnheard(t) ==
  /\ srv.up /\ t \in net /\ line[t].taken /\ Faulty
  /\ net' = net \ {t}
  /\ Store(t)
  /\ UNCHANGED <<line, allowed, now, col, spool, gaveUp>>

\* A statement of the handler throws after k of them have been written: a 500.
HandleThrows(t, k) ==
  /\ "break" \in allowed
  /\ srv.up /\ t \in net /\ line[t].taken /\ Faulty
  /\ net' = net \ {t}
  /\ t \notin db.samples /\ Put(t, k)
  /\ srv' = [srv EXCEPT !.open = Written(t, k).open]
  /\ IF Waiting(t) THEN Failed(FALSE) ELSE UNCHANGED <<col, spool, gaveUp>>
  /\ UNCHANGED <<line, allowed, now>>

ServerDies ==
  /\ srv.up /\ Faulty
  /\ srv' = [up |-> FALSE, open |-> NoneOpen] /\ net' = {}
  /\ UNCHANGED <<line, allowed, now, spool, col, db, gaveUp, belated, applied>>

\* The process dies inside the handler, after k writes.
HandleDies(t, k) ==
  /\ "break" \in allowed
  /\ srv.up /\ t \in net /\ line[t].taken /\ Faulty
  /\ t \notin db.samples /\ Put(t, k)
  /\ srv' = [up |-> FALSE, open |-> NoneOpen] /\ net' = {}
  /\ UNCHANGED <<line, allowed, now, spool, col, gaveUp>>

ServerStarts ==
  /\ ~srv.up
  /\ srv' = [up |-> TRUE, open |-> Loaded(db.outages)]
  /\ UNCHANGED <<line, allowed, now, spool, col, net, db, faults, gaveUp, belated, applied>>

CollectorStep == Measure \/ Send \/ \E arrived \in BOOLEAN : NoAnswer(arrived)
Serve == \E t \in net : Handle(t) \/ Refuse(t)

Next ==
  \/ CollectorStep \/ Serve
  \/ TornAppend \/ CollectorStarts \/ ServerDies \/ ServerStarts
  \/ \E arrived \in BOOLEAN : CollectorDies(arrived)
  \/ \E t \in net : HandleUnheard(t)
  \/ \E t \in net, k \in 0..(Writes - 1) : HandleThrows(t, k)
  \/ \E t \in net, k \in 1..(Writes - 1) : HandleDies(t, k)

Spec == Init /\ [][Next]_vars

\* The collector's loop goes on, every call it makes is bounded by a timeout, both
\* processes are restarted when they end, and a server that is up handles what reaches
\* it.  Faults are finitely many by their bound.
Fairness ==
  /\ WF_vars(CollectorStep) /\ WF_vars(CollectorStarts)
  /\ WF_vars(Serve) /\ WF_vars(ServerStarts)
FairSpec == Spec /\ Fairness

-----------------------------------------------------------------------------
(* Properties. *)

OpenOutage == [startedAt : Times, lastTs : Times, cycles : Nat]
OutageRow == [scope : Scopes, startedAt : Times, endedAt : Times \cup {Null}, cycles : Nat]
Change == [ts : Times, before : STRING, after : STRING]

\* Every variable keeps its shape.
TypeOK ==
  /\ line \in [Times -> Lines] /\ allowed \subseteq Allowed /\ now \in 0..MaxTime
  /\ spool \in Seq(Times \cup {Torn})
  /\ col \in [up : BOOLEAN, pc : {"idle", "sending", "waiting"}, current : Times \cup {Null},
              todo : Seq(Times), count : Nat]
  /\ net \subseteq Times
  /\ srv \in [up : BOOLEAN, open : [Scopes -> OpenOutage \cup {Null}]]
  /\ db \in [samples : SUBSET Times, vantages : SUBSET Times, changes : SUBSET Change,
             outages : SUBSET OutageRow]
  /\ faults \in 0..MaxFaults /\ gaveUp \subseteq Times /\ belated \subseteq Times
  /\ applied \in [Scopes -> SUBSET Times]

\* No cycle falls between the spool, the wire and the record: each one measured is
\* stored, or in the file, or in hand, or was knowingly let go of.
NothingLost ==
  \A t \in 1..now : t \in db.samples \cup ToSet(spool) \cup gaveUp \/ col.current = t

\* The record grows in the order of the cycles: one stored after a newer one is one the
\* collector had let go of.
InOrder == belated \subseteq gaveUp

\* One outage at a time and scope, and the machine's memory is the table's open row.
MemoryAgrees ==
  \A s \in Scopes :
    LET ongoing == {r \in db.outages : r.scope = s /\ r.endedAt = Null}
    IN /\ Cardinality(ongoing) <= 1
       /\ srv.up => {[startedAt |-> r.startedAt, cycles |-> r.cycles] : r \in ongoing} =
                    {[startedAt |-> o.startedAt, cycles |-> o.cycles] : o \in {srv.open[s]} \ {Null}}

\* Every cycle has one place, the record is in their order but for those let go of, and the
\* machine remembers of an outage what the table says (probe.ts, outage-detector.ts load).
RecordSound == NothingLost /\ InOrder /\ MemoryAgrees

\* While the cycles come in their order and no handler breaks, the timeline has a link change
\* exactly where two consecutive stored vantages differ.
ChangesTrue ==
  belated = {} /\ "break" \notin allowed => \A t \in db.vantages :
    LET before == {u \in db.vantages : u < t}
        p == line[Max(before)].vantage
    IN (\E c \in db.changes : c.ts = t) <=>
         before # {} /\ Known(p) /\ Known(line[t].vantage) /\ p # line[t].vantage

\* The rows of a scope, and the cycles that scope of the machine was fed, as OutageRecord
\* knows them.
RowsOf(s) ==
  {[startedAt |-> r.startedAt, endedAt |-> r.endedAt, cycles |-> r.cycles] :
     r \in {q \in db.outages : q.scope = s}}
Fed(s) == {[ts |-> t, down |-> Down(s, t)] : t \in applied[s]}

\* Where a request may outlive its sender, a cycle may be overtaken and is refused.
Prompt(S) == IF "late" \in allowed THEN {} ELSE S

\* Per scope the table is the record OutageRecord describes of the cycles that scope of the
\* machine was fed, through restarts, replays, lost answers and handlers cut short, as long
\* as no request outlives its sender (outage-detector.ts evaluateScope, load).
Gateway == INSTANCE OutageRecord
             WITH history <- Prompt(Fed("gateway")), outages <- Prompt(RowsOf("gateway"))
Wan == INSTANCE OutageRecord WITH history <- Prompt(Fed("wan")), outages <- Prompt(RowsOf("wan"))
EachScopeRecord == Gateway!Spec /\ Wan!Spec

\* Whatever fails, save half a line in the spool, a cycle in hand reaches the record in the
\* end or was let go of, unless it or a cycle before it is one the route never takes: that
\* batch stays at the head of the spool and nothing behind it is replayed (probe.ts main,
\* processCycle, replaySpool).
Unobstructed(t) == "torn" \notin allowed /\ \A u \in 1..t : line[u].taken
EveryCycleRecorded ==
  \A t \in Times : (col.current = t /\ Unobstructed(t)) ~> (t \in db.samples \cup gaveUp)
=============================================================================
