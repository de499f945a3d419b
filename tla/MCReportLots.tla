---------------------------- MODULE MCReportLots ----------------------------
(***************************************************************************)
(* Two instances of WatchdogReport over the same variables, one behaviour  *)
(* of either.  `lot` says which: "looks", over evidence that blocks the    *)
(* rungs now and then and changes its class; or "faults", a line that      *)
(* stays down while posts and pushes fail, the push URL goes missing and   *)
(* the process dies.                                                       *)
(***************************************************************************)
EXTENDS MCWatchdogReport

VARIABLE lot

Faults == INSTANCE WatchdogReport WITH
            Policy <- HastyPolicy, Evidence <- ReportEvidence, MaxTime <- 5, MaxCrashes <- 1, MaxFails <- 1,
            Allowed <- {}

lotVars == <<allVars, lot>>
Either(faults, looks) ==
  \/ lot = "faults" /\ faults /\ UNCHANGED lot
  \/ lot = "looks" /\ looks /\ UNCHANGED lot

\* The fairness is ReportSpec's, of either.
LotInit == lot \in {"faults", "looks"} /\ ReportInit
LotSpec ==
  /\ LotInit /\ [][Either(Faults!ReportNext, ReportNext)]_lotVars
  /\ WF_lotVars(Either(Faults!ReportedEvaluation, ReportedEvaluation))
  /\ WF_lotVars(Either(Faults!ReportedPerforming, ReportedPerforming))
  /\ WF_lotVars(Either(Faults!Reporting, Reporting))
  /\ WF_lotVars(Either(Faults!ReportedElapse, ReportedElapse))
  /\ WF_lotVars(Either(Restart, Restart) /\ UNCHANGED reportVars)
=============================================================================
