---------------------------- MODULE OutageRecord ----------------------------
(***************************************************************************)
(* What the `outage` table promises of one scope (docs/DESIGN.md           *)
(* "outage"; src/services/outage-detector.ts): after every cycle it has    *)
(* been fed, its rows are the unbroken runs of cycles in which the scope   *)
(* was down.  Nothing here knows of memory, restarts, replays or requests. *)
(***************************************************************************)
EXTENDS Naturals, FiniteSets, FiniteSetsExt

CONSTANTS
  Times,   \* the cycle timestamps there are
  Null

VARIABLES
  history,   \* the cycles fed so far, as [ts, down]
  outages    \* the rows

vars == <<history, outages>>

\* The cycle that ends a run begun at t: the first one after it that was not down.
Recoveries(H, t) == {c.ts : c \in {d \in H : ~d.down /\ d.ts > t}}
EndOf(H, t) == IF Recoveries(H, t) = {} THEN Null ELSE Min(Recoveries(H, t))

\* The cycles of the run begun at t.
RunFrom(H, t) ==
  {c \in H : c.down /\ t <= c.ts /\ \A r \in Recoveries(H, t) : c.ts < r}

\* A run begins at a down cycle that no earlier run reaches.
Starts(H) ==
  {c.ts : c \in {d \in H : d.down /\ \A p \in H : p.down /\ p.ts < d.ts => d \notin RunFrom(H, p.ts)}}

Runs(H) ==
  {[startedAt |-> t, endedAt |-> EndOf(H, t), cycles |-> Cardinality(RunFrom(H, t))] : t \in Starts(H)}

Init == history = {} /\ outages = {}

\* A cycle newer than all before it.
Feed(t, down) ==
  /\ \A c \in history : c.ts < t
  /\ history' = history \cup {[ts |-> t, down |-> down]}
  /\ outages' = Runs(history')

Next == \E t \in Times, down \in BOOLEAN : Feed(t, down)

Spec == Init /\ [][Next]_vars
=============================================================================
