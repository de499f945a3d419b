--------------------------- MODULE MCProbePipeline ---------------------------
(***************************************************************************)
(* Three sets of cycles for ProbePipeline: those that differ in what was   *)
(* silent, for a line whose handlers and spool writes may be cut short;    *)
(* those that differ in the path they went out over, for requests that may *)
(* outlive their sender; and those of which the server takes only some,    *)
(* for handlers that may be cut short over a spool that is kept whole.     *)
(***************************************************************************)
EXTENDS ProbePipeline

MCWanTargets == {"cloudflare", "quad9"}
Cycle(silent, vantage) == [silent |-> silent, vantage |-> vantage, taken |-> TRUE]

\* The line works; one anchor is silent; every anchor is; and the gateway with them.
OutageLines ==
  { Cycle({}, "absent"), Cycle({"quad9"}, "absent"), Cycle(MCWanTargets, "absent"),
    Cycle(MCWanTargets \cup {"gateway"}, "absent") }
\* The path is one of two, not recognised, or not captured at all.
PathLines == {Cycle({}, v) : v \in {"en0", "en1", "unknown", "absent"}}

\* The line is up, or out; or the route refuses the batch.
Refused == [silent |-> {}, vantage |-> "absent", taken |-> FALSE]
TakenLines == {Cycle({}, "absent"), Cycle(MCWanTargets, "absent"), Refused}

MCLines == OutageLines \cup PathLines \cup TakenLines

\* The two paths are interchangeable: the first that is named is en0.
Named == \A t \in Times : line[t].vantage = "en1" => \E u \in 1..(t - 1) : line[u].vantage = "en0"
LotsInit ==
  /\ Init
  /\ \/ allowed = {"break", "torn"} /\ line \in [Times -> OutageLines]
     \/ allowed = {"late"} /\ line \in [Times -> PathLines] /\ Named
     \/ allowed = {"break"} /\ line \in [Times -> TakenLines]
LotsSpec == LotsInit /\ [][Next]_vars /\ Fairness
=============================================================================
