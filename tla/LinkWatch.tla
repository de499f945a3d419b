----------------------------- MODULE LinkWatch -----------------------------
(***************************************************************************)
(* The link sampler beside the probe cycle: collector/link-sampler.ts as   *)
(* collector/probe.ts drives it.  Once a second it asks for the physical   *)
(* state of one interface; the cycle drains what it saw and makes it       *)
(* follow the default route.  A read takes time: it may land after the     *)
(* drain, or after its sampler has been replaced.                          *)
(***************************************************************************)
EXTENDS Absent, Integers, Sequences, FiniteSets, SequencesExt

CONSTANTS
  Ifaces, Fallback,  \* the interfaces, and the one watched before a route is known
  MaxBuffered,       \* MAX_BUFFERED_TRANSITIONS
  CycleS,            \* probeCycleSeconds
  SpawnTimeoutS,
  MaxTime            \* bound: the clock

ASSUME LinkAssumption ==
  /\ Fallback \in Ifaces /\ Null \notin Ifaces \cup {"active", "inactive"}
  /\ {MaxBuffered, CycleS, SpawnTimeoutS, MaxTime} \subseteq Nat \ {0}

VARIABLES
  now,
  links,     \* the physical state of each interface
  route,     \* the interface of the default route, or Null
  sampler,   \* the sampler at work
  batches,   \* what the cycles reported of the link
  readings   \* history: the reads that landed and said something

linkVars == <<now, links, route, sampler, batches, readings>>

Fresh(iface, watch) ==
  [iface |-> iface, last |-> Null, seen |-> <<>>, ticks |-> 0, flying |-> Null, watch |-> watch]

LinkInit ==
  /\ now = 0 /\ links = [i \in Ifaces |-> "active"] /\ route = Fallback
  /\ sampler = Fresh(Fallback, 1) /\ batches = <<>> /\ readings = <<>>

-----------------------------------------------------------------------------

\* A second of the timer. A tick whose predecessor still waits is a missed sample.
Second ==
  /\ now < MaxTime
  /\ sampler.flying # Null => now < sampler.flying + SpawnTimeoutS
  /\ now' = now + 1
  /\ sampler' = IF sampler.flying = Null THEN [sampler EXCEPT !.flying = now + 1] ELSE sampler
  /\ UNCHANGED <<links, route, batches, readings>>

\* Mutant: a read that failed is a state like any other.
Sampled_Unknown(s, status) ==
  LET changed == s.last \notin {Null, status}
  IN [s EXCEPT !.flying = Null, !.ticks = @ + 1, !.last = status,
        !.seen = IF changed THEN Append(@, [ts |-> now, state |-> status]) ELSE @]

\* What a tick makes of its read. The first state is a baseline and no transition; a read
\* that failed is neither; at the limit the earliest transitions are kept.
Sampled(s, status) ==
  LET landed == [s EXCEPT !.flying = Null]
      changed == s.last \notin {Null, status} /\ Len(s.seen) < MaxBuffered
  IN IF status = "unknown" THEN landed
     ELSE [landed EXCEPT !.ticks = @ + 1, !.last = status,
             !.seen = IF changed THEN Append(@, [ts |-> now, state |-> status]) ELSE @]

Land ==
  /\ sampler.flying # Null
  /\ \E status \in {links[sampler.iface], "unknown"} :
       /\ sampler' = Sampled(sampler, status)
       /\ readings' =
            IF status = "unknown" THEN readings
            ELSE Append(readings, [iface |-> sampler.iface, watch |-> sampler.watch, ts |-> now,
                                   status |-> status, cycle |-> Len(batches) + 1])
  /\ UNCHANGED <<now, links, route, batches>>

Drained(s) == [s EXCEPT !.seen = <<>>, !.ticks = 0]

\* A route elsewhere starts a new sampler; a read of the old one lands nowhere.
Retarget(s, path) ==
  IF path \in {Null, s.iface} THEN s ELSE Fresh(path, s.watch + 1)

Min2(a, b) == IF a < b THEN a ELSE b

\* The end of a cycle: the pings and the vantage are in, the sampler is drained and then
\* follows the route the vantage saw. A capture that throws names no route.
Cycle(path) ==
  /\ path \in {route, Null}
  /\ IF batches = <<>> THEN now > 0 ELSE now > Last(batches).ts
  /\ batches' = Append(batches, [ts |-> now, path |-> path, iface |-> sampler.iface,
                                 watched |-> Min2(sampler.ticks, CycleS),
                                 events |-> sampler.seen])
  /\ sampler' = Retarget(Drained(sampler), path)
  /\ UNCHANGED <<now, links, route, readings>>

Flip(i) ==
  /\ links' = [links EXCEPT ![i] = IF @ = "active" THEN "inactive" ELSE "active"]
  /\ UNCHANGED <<now, route, sampler, batches, readings>>

Reroute(i) == route' = i /\ UNCHANGED <<now, links, sampler, batches, readings>>

LinkNext ==
  \/ Second \/ Land \/ \E path \in Ifaces \cup {Null} : Cycle(path)
  \/ \E i \in Ifaces : Flip(i) \/ Reroute(i)
  \/ Reroute(Null)

LinkSpec == LinkInit /\ [][LinkNext]_linkVars

-----------------------------------------------------------------------------
(* Properties. *)

\* The steps at which two reads of one watch, one after the other, disagree.
Changes ==
  {k \in 2..Len(readings) : readings[k].watch = readings[k - 1].watch
                            /\ readings[k].status # readings[k - 1].status}
Event(k) == [ts |-> readings[k].ts, state |-> readings[k].status]
Reported == UNION {ToSet(batches[b].events) : b \in 1..Len(batches)}

\* A transition is two reads of one interface, without a gap in the watching, that
\* disagree: never a failed read, a first read or a change of interface (tick, stop).
TransitionsReal == \A e \in Reported \cup ToSet(sampler.seen) : \E k \in Changes : Event(k) = e

\* A change the sampler saw is in the batch of its cycle, or waits for it, whatever was
\* followed in between; only a buffer that is full drops one (drain, retargetLinkSampler).
ChangesReported ==
  \A k \in Changes :
    LET c == readings[k].cycle
        kept == IF c <= Len(batches) THEN batches[c].events ELSE sampler.seen
    IN Event(k) \in ToSet(kept) \/ Len(kept) = MaxBuffered

\* The link's events are its transitions, no more and no fewer.
LinkReportTrue == TransitionsReal /\ ChangesReported

\* Claimed of the events: each one is of the interface its batch names, to which the API
\* attributes it. False of the cycle in which the route moves, whose transitions are those
\* of the interface before.
EventsOfPath ==
  \A b \in 1..Len(batches) :
    batches[b].path # Null =>
      \A e \in ToSet(batches[b].events) :
        \E k \in Changes : Event(k) = e /\ readings[k].iface = batches[b].path
=============================================================================
