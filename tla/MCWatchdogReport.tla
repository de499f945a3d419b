-------------------------- MODULE MCWatchdogReport --------------------------
(* Instances of WatchdogReport for TLC, on the evidence of MCWatchdog. *)
EXTENDS MCWatchdog, WatchdogReport

\* A short ladder whose lead is as long as the notification interval, as in the defaults.
ReportPolicy ==
  [MCPolicy EXCEPT !.observeS = 0, !.rebootAtS = 1, !.announceLeadS = 2, !.rebootSettleS = 1,
     !.exhaustAtS = 4]
LongDown == [AllDown EXCEPT !.record.wanOutage = [age |-> 0, cycles |-> 2]]
ReportEvidence == {LongDown}
\* And one that is sure of what it sees at the first look.
HastyPolicy == [ReportPolicy EXCEPT !.confirmTicks = 1]

\* The line is down; a hole in the record of the link blocks the rungs as well; and IPv6 alone
\* answers, which is another class.
Gap == [LongDown EXCEPT !.record.linkGap = TRUE]
GapV6 == [Gap EXCEPT !.self.v6 = "up"]
LookEvidence == {LongDown, Gap, GapV6}
=============================================================================
