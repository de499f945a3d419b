------------------------- MODULE MCRouterSession -------------------------
(* Instances of RouterSession for TLC. *)
EXTENDS RouterSession

\* The collector's newest cycle: none, one on the home line, one from before the window.
Vantage(ts, onHomeLine) ==
  [ts |-> ts, pathClass |-> "ethernet", linkMbit |-> 1000, linkDuplex |-> "full",
   onHomeLine |-> onHomeLine]
MCKeys == <<"lineStats", "adtWan", "ipIntf", "hostEntry">>
MCVantages == {Null, Vantage(StartTime, 1)}
=============================================================================
