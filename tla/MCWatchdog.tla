----------------------------- MODULE MCWatchdog -----------------------------
(* Instances of Watchdog for TLC: a policy with the code's order of delays in
   a few coarse units, and the evidence that makes its windows meet. *)
EXTENDS Watchdog

\* The order of the defaults is kept: observe < reboot due < deferred reboot <
\* exhausted < spacing of reconnects <= spacing of reboots < day < retention, the
\* cooldown and the clean window well below the spacing, lead and settle within them.
MCPolicy ==
  [ confirmTicks |-> 2, observeS |-> 1, reconnectSettleS |-> 1, rebootAtS |-> 2,
    rebootAtSv4Only |-> 4, rebootSettleS |-> 2, exhaustAtS |-> 5, announceLeadS |-> 1,
    resyncGraceS |-> 1, staleSampleS |-> 1, reconnectMinIntervalS |-> 6,
    reconnectMaxPer24h |-> 2, rebootMinIntervalS |-> 6, rebootMaxPer24h |-> 1,
    postActionCooldownS |-> 3, escalationQuietS |-> 5, v6BaselineMaxAgeS |-> 6,
    recoverAfterS |-> 1, latchAfterActions |-> 2, latchClearAfterCleanS |-> 3,
    humanQuietS |-> 3, minProcessAgeS |-> 1,
    armed |-> TRUE, rebootEnabled |-> TRUE, rebootOnV4Only |-> FALSE,
    minCycles |-> 2, freshPollS |-> 1, dayS |-> 8, retentionS |-> 16 ]

Record(wan, outage) ==
  [ sampleAge |-> 0, wan |-> wan, gatewayDown |-> FALSE, onHomeLine |-> "yes",
    gatewayAddr |-> "gw", linkGap |-> FALSE, speedtestRunning |-> FALSE,
    wanOutage |-> outage, gatewayOutage |-> Null ]
Self(wan, v6) ==
  [ wan |-> wan, gatewayDown |-> FALSE, onHomeLine |-> "yes", ethernet |-> TRUE,
    gatewayAddr |-> "gw", v6 |-> v6 ]
Line(up) == [ stale |-> FALSE, line |-> up, showtimeS |-> 1, pollAge |-> 0 ]
Seen(record, self) ==
  [ record |-> record, self |-> self, carrier |-> Line("up"), writeEnabled |-> TRUE,
    canRecord |-> TRUE ]

AllUp == Seen(Record("up", Null), Self("up", "unprobed"))
AllDown == Seen(Record("down", [age |-> 1, cycles |-> 2]), Self("down", "unprobed"))
CoreEvidence == {AllUp, AllDown}

\* The sources disagree; IPv6 alone answers; the gateway is dead; the mini is on
\* another network; nothing can be read; the router is out of showtime.
Flap == Seen(Record("down", [age |-> 0, cycles |-> 2]), Self("some", "down"))
OnlyV6 == Seen(Record("down", [age |-> 1, cycles |-> 2]), Self("down", "up"))
NoGateway == [AllDown EXCEPT !.record.gatewayDown = TRUE,
                             !.record.gatewayOutage = [age |-> 1]]
Away == [AllUp EXCEPT !.self.onHomeLine = "no"]
Dark == [AllDown EXCEPT !.record.sampleAge = 2, !.self = Null, !.carrier = Null]
NoShowtime == [AllDown EXCEPT !.carrier = Line("down")]
OldRow == [AllDown EXCEPT !.record.wanOutage = [age |-> 2, cycles |-> 2]]
WideEvidence == {AllUp, AllDown, Flap, OnlyV6, NoGateway, Away, Dark, NoShowtime, OldRow}

\* The same order with a ledger that forgets within the run.
ForgetfulPolicy ==
  [MCPolicy EXCEPT !.rebootAtSv4Only = 2, !.exhaustAtS = 3, !.reconnectMinIntervalS = 3,
     !.rebootMinIntervalS = 3, !.postActionCooldownS = 2, !.dayS = 3, !.retentionS = 4]
=============================================================================
