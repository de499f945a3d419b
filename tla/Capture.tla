------------------------------ MODULE Capture ------------------------------
(***************************************************************************)
(* What a cycle learns of its path: collector/vantage.ts and wifi.ts, as   *)
(* collector/probe.ts runs them beside the pings.  The default route is    *)
(* asked for first, four commands about its interface then answer in any   *)
(* order; in the other capture a profiler and a ping about the Wi-Fi do.   *)
(* Each is killed when it takes too long, and what it printed until then   *)
(* is its answer.  Meanwhile the machine goes on: adapters are plugged,    *)
(* the route moves.  The captures share nothing but the machine: a         *)
(* behaviour follows one of them.                                          *)
(***************************************************************************)
EXTENDS Absent, Integers, Sequences, FiniteSets, SequencesExt, FiniteSetsExt

CONSTANTS
  Radio, Socket,  \* the built-in Wi-Fi adapter; the device name adapters share as they are plugged
  Expected,       \* the address of the gateway target
  Stranger,       \* any other gateway
  Silence,        \* what a command leaves that printed nothing
  MaxMoves        \* bound: how often the machine changes

ASSUME CaptureAssumption == Cardinality({Radio, Socket, Expected, Stranger, Silence, Null}) = 6
\* The absent value is none of the words and no report.
ASSUME AbsentIsNoWord == Null \notin {"ethernet", "cellular", "wifi", "other", "off", "Connected", "NotConnected"}
ASSUME AbsentIsNoReport == Null \notin [loss : 0..100, rtt : {Null, 10}]

VARIABLES
  capture,   \* which of the two it is; `unset`: the vantage where no gateway target is configured
  host,      \* the machine: its route, its service entries, its adapters
  taking,    \* what the commands have answered, Null while they have not
  taken,     \* the vantage, or the Wi-Fi sample, when the cycle has it
  lived      \* history: the states of the machine while the capture ran

captureVars == <<capture, host, taking, taken, lived>>

(* A hardware port, by the words of its name that tell. *)
Ports == {{"ethernet"}, {"tether"}, {"ethernet", "tether"}, {}}
Commands == {"link", "counters", "services", "lease"}
AirDrop == "awdl0"

Entry(port, device) == [port |-> port, device |-> device]
Wired == Entry({"ethernet"}, Socket)
Others == <<Entry({}, Null), Entry({"wireless"}, Radio)>>
Leftovers == {<<>>, <<Wired>>}

Speeds == {100, 1000}
Statuses == {"Connected", "NotConnected"}

CaptureInit ==
  /\ capture \in {"vantage", "unset", "wifi"}
  /\ \E port \in Ports, stale \in Leftovers :
       /\ capture = "wifi" => port = {"ethernet"} /\ stale = <<>>
       /\ host = [route |-> [iface |-> Socket, gateway |-> Expected], port |-> port, fast |-> 1000,
                  services |-> stale \o <<Entry(port, Socket)>> \o Others, status |-> "Connected", moves |-> 0]
  /\ taking = [c \in Commands \cup {"route", "airport", "ping"} |-> Null]
  /\ taken = Null /\ lived = {}

-----------------------------------------------------------------------------
(* The parsers. An answer is what the command had printed when it ended or was killed. *)

\* Cellular is asked for first, Ethernet last.
ClassifyHardwarePort(port) ==
  IF "tether" \in port THEN "cellular" ELSE IF "wireless" \in port THEN "wifi"
  ELSE IF "ethernet" \in port THEN "ethernet" ELSE "other"

\* Services without a device can carry nothing.
ParseServiceOrder(list) == {s \in ToSet(list) : s.device # Null}

\* Mutant: the first service that has the device says what it is.
ClassifyPath_First(iface, list) ==
  LET named == SelectSeq(list, LAMBDA s : s.device = iface)
  IN IF list = <<>> THEN Null ELSE IF named = <<>> THEN "other" ELSE ClassifyHardwarePort(named[1].port)

\* A device that several services claim is what disqualifies it most; an unusable list tells
\* nothing, a good one without the device tells `other`.
ClassifyPath(iface, list) ==
  LET services == ParseServiceOrder(list)
      classes == {ClassifyHardwarePort(s.port) : s \in {x \in services : x.device = iface}}
  IN IF services = {} THEN Null
     ELSE IF classes = {} THEN "other"
     ELSE CHOOSE c \in classes : c = "cellular" \/ ("cellular" \notin classes
            /\ (c = "wifi" \/ ("wifi" \notin classes /\ (c = "other" \/ classes = {c}))))

ExpectedGateway == IF capture = "unset" THEN Null ELSE Expected

\* Only the absence of evidence is Null, evidence against the home line is 0.
DeriveOnHomeLine(class, gateway) ==
  LET ruledOut == class # Null /\ class # "ethernet"
      compared == class = "ethernet" /\ ExpectedGateway # Null /\ gateway # Null
  IN IF ruledOut \/ (compared /\ gateway # ExpectedGateway) THEN 0
     ELSE IF compared THEN 1 ELSE Null

\* The connected interface, or one that has a status: never one without.
ParseAirportInfo(blocks) ==
  LET connected == {i \in DOMAIN blocks : blocks[i].status = "Connected"}
      some == {i \in DOMAIN blocks : blocks[i].status # Null}
  IN IF connected # {} THEN blocks[Min(connected)] ELSE IF some # {} THEN blocks[Min(some)]
     ELSE [iface |-> Null, status |-> Null, radio |-> Null]

\* Without its summary a ping says nothing; without its percentage the loss is that of the
\* counts. A reply that came late is counted and has no time.
ParsePingOutput(print) ==
  IF print = Silence THEN Null
  ELSE [loss |-> IF print.percent # Null THEN print.percent
                 ELSE (100 * Max({0, print.sent - print.received})) \div print.sent,
        rtt |-> IF print.timed = 0 THEN Null ELSE 10]

-----------------------------------------------------------------------------
(* What the commands print while the machine is as `h` says. *)

\* The whole of it, or as much as was out when the command was killed.
Printed(list) == {SubSeq(list, 1, n) : n \in 0..Len(list)}

RoutePrints(h) == {[gateway |-> Null, iface |-> Null], [gateway |-> h.route.gateway, iface |-> Null], h.route}

\* The negotiated line stands before the list of what the adapter supports.
Speed(h, iface) == IF iface = Radio THEN Null ELSE h.fast
Ceiling(iface) == IF iface = Radio THEN Null ELSE 1000
PrintsOf(h, command, iface) ==
  CASE command = "link" ->
         {[mbit |-> Null, max |-> Null], [mbit |-> Speed(h, iface), max |-> Speed(h, iface)],
          [mbit |-> Speed(h, iface), max |-> Ceiling(iface)]}
    [] command \in {"counters", "lease"} -> {Silence, iface}
    [] command = "services" -> Printed(h.services)

\* The Wi-Fi's own block, that of AirDrop which has a network and no status, a second adapter.
RadioOf(h, i) == IF i = Radio /\ h.status # "Connected" THEN "off" ELSE i
AirportPrints(h) ==
  LET own == [iface |-> Radio, status |-> h.status, radio |-> RadioOf(h, Radio)]
      drop == [iface |-> AirDrop, status |-> Null, radio |-> AirDrop]
      other == [iface |-> Socket, status |-> "Connected", radio |-> Socket]
      cut == [own EXCEPT !.radio = Null]
  IN {<<>>, <<[cut EXCEPT !.status = Null]>>, <<cut>>, <<own>>, <<own, drop>>, <<drop, own>>, <<own, drop, other>>}

PingPrints ==
  {Silence} \cup {[sent |-> 2, received |-> r, timed |-> t, percent |-> IF r > 2 THEN Null ELSE 100 - 50 * r] :
             r \in 0..3, t \in {0, 1}}

-----------------------------------------------------------------------------

Prints(command) ==
  CASE command = "route" -> RoutePrints(host)
    [] command = "airport" -> AirportPrints(host)
    [] command = "ping" -> PingPrints
    [] OTHER -> PrintsOf(host, command, taking.route.iface)

\* What a capture runs; without an interface the commands about it are not run.
Asked ==
  IF capture = "wifi" THEN {"airport", "ping"}
  ELSE IF taking.route = Null THEN {"route"}
  ELSE IF taking.route.iface = Null THEN {} ELSE Commands
Awaited == {c \in Asked : taking[c] = Null}

Answers(command) ==
  /\ taken = Null /\ command \in Awaited
  /\ \E print \in Prints(command) : taking' = [taking EXCEPT ![command] = print]
  /\ lived' = lived \cup {host} /\ UNCHANGED <<capture, host, taken>>

NoPath(gateway) ==
  [pathIf |-> Null, class |-> Null, gateway |-> gateway, mbit |-> Null, max |-> Null,
   counters |-> Null, bound |-> Null, home |-> Null]

Blank(print) == IF print = Silence THEN Null ELSE print

\* `captureVantage`: every field is that of the interface the route named.
CaptureVantage ==
  LET route == taking.route
      class == ClassifyPath(route.iface, taking.services)
  IN IF route.iface = Null THEN NoPath(route.gateway)
     ELSE [pathIf |-> route.iface, class |-> class, gateway |-> route.gateway,
           mbit |-> taking.link.mbit, max |-> taking.link.max, counters |-> Blank(taking.counters),
           bound |-> Blank(taking.lease), home |-> DeriveOnHomeLine(class, route.gateway)]

\* `captureWifi`: the radio only if it is the interface the ping was bound to, nothing at
\* all if neither command said anything.
CaptureWifi ==
  LET found == ParseAirportInfo(taking.airport) reach == ParsePingOutput(taking.ping) own == found.iface = Radio
  IN IF taking.airport = <<>> /\ reach = Null THEN Null
     ELSE [status |-> IF own THEN found.status ELSE Null, radio |-> IF own THEN found.radio ELSE Null,
           loss |-> IF reach = Null THEN Null ELSE reach.loss]

\* The cycle goes on when everything has answered.
Deliver ==
  /\ taken = Null /\ Awaited = {} /\ lived # {}
  /\ taken' = <<IF capture = "wifi" THEN CaptureWifi ELSE CaptureVantage>>
  /\ UNCHANGED <<capture, host, taking, lived>>

OneMoveOn(h) == [h EXCEPT !.moves = @ + 1]

\* An adapter takes over the device name, before or behind the entries there are; the entry
\* of the one before may keep it too, or is left without a device.
Unplugged(s) == IF s.device = Socket THEN Entry(s.port, Null) ELSE s
Plug(port) ==
  \E stays \in BOOLEAN, first \in BOOLEAN :
    LET list == host.services
        kept == IF stays THEN list ELSE [i \in 1..Len(list) |-> Unplugged(list[i])]
        entry == <<Entry(port, Socket)>>
    IN host' = OneMoveOn([host EXCEPT !.port = port, !.services = IF first THEN entry \o kept ELSE kept \o entry])

Routes == [iface : {Socket, Radio}, gateway : {Expected, Stranger, Null}] \cup {[iface |-> Null, gateway |-> Null]}

Renegotiate == \E fast \in Speeds \ {host.fast} : host' = OneMoveOn([host EXCEPT !.fast = fast])
Reroutes == \E route \in Routes \ {host.route} : host' = OneMoveOn([host EXCEPT !.route = route])
Roam == \E status \in Statuses \ {host.status} : host' = OneMoveOn([host EXCEPT !.status = status])

\* The machine changes in what this capture can tell.
HostMoves ==
  /\ taken = Null /\ host.moves < MaxMoves /\ UNCHANGED <<capture, taking, taken>>
  /\ IF capture = "wifi" THEN Roam
     ELSE Reroutes \/ Renegotiate \/ \E port \in Ports \ {host.port} : Plug(port)
  /\ lived' = IF lived = {} THEN {} ELSE lived \cup {host'}

CaptureNext == Deliver \/ HostMoves \/ \E c \in DOMAIN taking : Answers(c)

-----------------------------------------------------------------------------
(* Properties *)

\* What was really so at some time of the capture.
ReallyWired == \E h \in lived : h.port = {"ethernet"}
ListCut == taking.services \notin {h.services : h \in lived}

\* The home line is claimed only of a route that led to its gateway, over an adapter that was
\* Ethernet during the capture, whatever entries were left of other adapters; it is denied only
\* of a route that did not, or that an entry names otherwise. The figures are those of the
\* interface of the row, and a row without one has none (captureVantage, classifyPath,
\* deriveOnHomeLine). Without a gateway target nothing is claimed. A service list cut short
\* can mislead it both ways.
VantageIsTrue(v) ==
  /\ v.home = 1 =>
       /\ capture # "unset"
       /\ \E h \in lived : h.route = [iface |-> v.pathIf, gateway |-> Expected]
       /\ v.pathIf = Socket /\ (ReallyWired \/ ListCut)
  /\ v.home = 0 =>
       \/ /\ capture # "unset"
          /\ \E h \in lived : h.route.iface = v.pathIf /\ h.route.gateway \notin {Null, Expected}
       \/ v.pathIf = Radio \/ ListCut
       \/ \E h \in lived : \E s \in ToSet(h.services) : s.device = Socket /\ s.port # {"ethernet"}
  /\ v.mbit # Null => v.pathIf = Socket /\ \E h \in lived : h.fast = v.mbit
  /\ v.mbit # Null => v.max # Null /\ v.mbit <= v.max
  /\ \A figure \in {v.counters, v.bound} \ {Null} : figure = v.pathIf
  /\ v.pathIf = Null => {v.class, v.mbit, v.max, v.counters, v.bound, v.home} = {Null}

\* The radio is that of the adapter the ping was bound to, never AirDrop's or another one's,
\* and there is a loss only when the ping came to its summary: that of the echoes (captureWifi).
WifiIsTrue(w) ==
  /\ w.radio # Null => w.radio \in {"off", Radio} /\ w.status \in {h.status : h \in lived}
  /\ w.loss # Null => taking.ping # Silence /\ 50 * Max({0, 2 - taking.ping.received}) = w.loss
  /\ taking.ping # Silence => w.loss # Null

CaptureIsTrue ==
  taken \notin {Null, <<Null>>} => IF capture = "wifi" THEN WifiIsTrue(taken[1]) ELSE VantageIsTrue(taken[1])
=============================================================================
