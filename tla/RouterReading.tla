--------------------------- MODULE RouterReading ---------------------------
(***************************************************************************)
(* What the poller makes of the router's pages: the parsers of             *)
(* services/router/parse.ts and the comparisons of derive.ts.  Operators   *)
(* only; RouterSession runs them on the pages of one poll.                 *)
(*                                                                         *)
(* A page is a sequence of rows, a row a record of the fields the code     *)
(* reads.  A field is a value, Null when the row does not have it (or has  *)
(* it empty), or Redacted when the client blanked it: the parsers see the  *)
(* last two alike.                                                         *)
(***************************************************************************)
EXTENDS Integers, Sequences, FiniteSets, SequencesExt

CONSTANTS
  Null,
  Redacted,        \* what redactRow leaves of a value it blanked
  Tolerance,       \* RESTART_TOLERANCE_S, in ticks of the clock
  HostVantageAge   \* HOST_VANTAGE_MAX_AGE_MS

Str(v) == IF v = Redacted THEN Null ELSE v

\* Array.find: the first row that fits, Null when none does.
Find(rows, Fits(_)) ==
  LET fitting == {i \in DOMAIN rows : Fits(rows[i])}
  IN IF fitting = {} THEN Null ELSE rows[CHOOSE i \in fitting : \A j \in fitting : i <= j]

FirstOf(vs) == Find(vs, LAMBDA v : Str(v) # Null)

-----------------------------------------------------------------------------
(* The line: two half-populated families, either of which may be missing.   *)

ParseLineSample(fastLine, lineStats) ==
  [carrier  |-> IF fastLine = Null THEN Null ELSE "gfast",
   status   |-> IF fastLine = Null THEN Null ELSE Str(fastLine.status),
   rates    |-> IF fastLine = Null THEN Null ELSE Str(fastLine.rates),
   profile  |-> IF fastLine = Null THEN Null ELSE FirstOf(fastLine.profiles),
   showtime |-> IF lineStats = Null THEN Null ELSE Str(lineStats.showtimeStart),
   errors   |-> IF lineStats = Null THEN Null ELSE FirstOf(lineStats.errors)]

-----------------------------------------------------------------------------
(* The WAN connection: whatever instance the router calls live, or else the *)
(* one that was live at the poll before.                                     *)

Candidate(row) == Str(row.connStatusV4) # "Disconnected" \/ Str(row.connStatusV6) = "Connected"
ByStatus(rows) ==
  LET connected == Find(rows, LAMBDA r : Str(r.connStatusV4) = "Connected")
  IN IF connected # Null THEN connected ELSE Find(rows, Candidate)
ByContinuity(rows, previousName) ==
  IF previousName = Null THEN Null ELSE Find(rows, LAMBDA r : Str(r.name) = previousName)

Described(row, selectedBy) ==
  [name |-> Str(row.name), ifName |-> Str(row.ifName), connType |-> Str(row.connType),
   stack |-> Str(row.stack), connStatusV4 |-> Str(row.connStatusV4),
   connStatusV6 |-> Str(row.connStatusV6), uptimeV4 |-> Str(row.uptimeV4),
   uptimeV6 |-> Str(row.uptimeV6), selectedBy |-> selectedBy]

ParseLiveWan(rows, previousName) ==
  IF ByStatus(rows) # Null THEN Described(ByStatus(rows), "status")
  ELSE IF ByContinuity(rows, previousName) # Null
       THEN Described(ByContinuity(rows, previousName), "continuity")
       ELSE Null

-----------------------------------------------------------------------------
(* Interfaces, ports and hosts.                                              *)

\* The statistics carry no name: the stack is the join, and the last row of a stack counts.
StatsOf(stats, stack) ==
  IF stack = Null THEN Null
  ELSE LET same == {i \in DOMAIN stats : Str(stats[i].stack) = stack}
       IN IF same = {} THEN Null ELSE stats[CHOOSE i \in same : \A j \in same : j <= i]

Role(row, wanIfName) ==
  IF wanIfName # Null /\ Str(row.name) = wanIfName THEN "wan"
  ELSE IF Str(row.connType) = "LAN" THEN "lan" ELSE "other"

ParseIntfSamples(intf, stats, wanIfName) ==
  LET Sample(row) ==
        LET s == StatsOf(stats, Str(row.stack))
        IN [name |-> Str(row.name), role |-> Role(row, wanIfName),
            bytes |-> IF s = Null THEN Null ELSE Str(s.bytes)]
  IN {Sample(intf[i]) : i \in {i \in DOMAIN intf : Str(intf[i].name) # Null}}

ParseEthPorts(rows) ==
  [i \in DOMAIN rows |->
    [stack |-> Str(rows[i].stack), status |-> Str(rows[i].status),
     maxBitRate |-> Str(rows[i].maxBitRate), duplexMode |-> Str(rows[i].duplexMode)]]

ParseHosts(rows) ==
  [i \in DOMAIN rows |->
    [ip |-> Str(rows[i].ip), interfaceType |-> Str(rows[i].interfaceType),
     active |-> Str(rows[i].active), port |-> FirstOf(<<rows[i].layer1, rows[i].layer2>>)]]

ResolveHostPort(host, ports) ==
  IF host = Null \/ host.port = Null THEN Null
  ELSE Find(ports, LAMBDA p : p.stack = host.port)

-----------------------------------------------------------------------------
(* The two views of one link, the host's and the router's.                   *)

ClassifyInterfaceType(interfaceType) ==
  CASE interfaceType = Null -> Null
    [] interfaceType = "Ethernet" -> "ethernet"
    [] interfaceType \in {"Wi-Fi", "802.11"} -> "wifi"
    [] OTHER -> "other"

HostAbsent(host, seen) == host.pathClass = "ethernet" /\ (seen = Null \/ seen.active # 1)
ClassDiffers(host, seen) ==
  LET class == IF seen = Null THEN Null ELSE ClassifyInterfaceType(seen.interfaceType)
  IN host.pathClass # Null /\ class # Null /\ host.pathClass # class
PortDown(host, port) == port.status # Null /\ port.status # "up" /\ host.linkMbit # Null
SpeedDiffers(host, port) ==
  host.linkMbit # Null /\ port.maxBitRate # Null /\ host.linkMbit # port.maxBitRate
DuplexDiffers(host, port) ==
  host.linkDuplex # Null /\ port.duplexMode # Null /\ host.linkDuplex # port.duplexMode

\* The contradictions about the cable itself: a port that is down says nothing of its speed.
PortDisagreements(host, port) ==
  IF PortDown(host, port) THEN {"port_status"}
  ELSE {f \in {"link_speed"} : SpeedDiffers(host, port)}
         \cup {f \in {"link_duplex"} : DuplexDiffers(host, port)}

\* `seen` is the router's entry for the collector's host, `port` the port it hangs on.
CompareVantage(host, seen, port) ==
  IF host.onHomeLine = 0 THEN {}
  ELSE {f \in {"host_presence"} : HostAbsent(host, seen)}
         \cup {f \in {"path_class"} : ClassDiffers(host, seen)}
         \cup (IF port = Null THEN {} ELSE PortDisagreements(host, port))

\* A newest cycle older than this means the collector is not running.
FreshVantage(host, ts) == IF host # Null /\ host.ts >= ts - HostVantageAge THEN host ELSE Null

-----------------------------------------------------------------------------
(* A counter of seconds since something started: a new start is a later      *)
(* back-solved one, whatever the counter itself did.                         *)

\* Mutant: no allowance for the time between the poll's timestamp and its reads.
DetectRestart_Exact(previous, current) ==
  /\ previous # Null /\ previous.seconds # Null /\ current.seconds # Null
  /\ ~(previous.seconds = 0 /\ current.seconds = 0)
  /\ current.ts - current.seconds > previous.ts - previous.seconds

DetectRestart(previous, current) ==
  /\ previous # Null /\ previous.seconds # Null /\ current.seconds # Null
  /\ ~(previous.seconds = 0 /\ current.seconds = 0)
  /\ current.ts - current.seconds > previous.ts - previous.seconds + Tolerance

=============================================================================
