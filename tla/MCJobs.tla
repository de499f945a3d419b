------------------------------- MODULE MCJobs -------------------------------
(***************************************************************************)
(* The jobs that run beside the record, one behaviour each: the variable   *)
(* job says which of them this behaviour is about, the others stand still. *)
(***************************************************************************)
EXTENDS LinkWatch, LogRotate, Heartbeat, Speedtest, ScreenWorld, Capture

CONSTANTS J, en0, en8, w1, w2

VARIABLE job

MCIfaces == {en0, en8}
MCWan == {w1, w2}

vars == <<job, linkVars, logVars, heartVars, speedVars, worldVars, page, carrierVars, captureVars>>

Init ==
  /\ job \in J
  /\ LinkInit /\ LogInit /\ HeartInit /\ SpeedInit /\ ScreenInit /\ CarrierInit /\ CaptureInit
  /\ job # "capture" => capture = "wifi"
  /\ job # "log" => ~piped

LinkStep ==
  job = "link" /\ LinkNext /\ UNCHANGED <<job, logVars, heartVars, speedVars, worldVars, page, carrierVars, captureVars>>
LogStep ==
  job = "log" /\ LogNext /\ UNCHANGED <<job, linkVars, heartVars, speedVars, worldVars, page, carrierVars, captureVars>>
HeartDoes(step) ==
  job = "heart" /\ step /\ UNCHANGED <<job, linkVars, logVars, speedVars, worldVars, page, carrierVars, captureVars>>
HeartStep == HeartDoes(HeartNext)
SpeedStep ==
  job = "speed" /\ SpeedNext /\ UNCHANGED <<job, linkVars, logVars, heartVars, worldVars, page, carrierVars, captureVars>>
RecordStep ==
  job = "record" /\ ScreenNext /\ UNCHANGED <<job, linkVars, logVars, heartVars, speedVars, carrierVars, captureVars>>
CarrierStep ==
  job = "carrier" /\ CarrierNext /\ UNCHANGED <<job, linkVars, logVars, heartVars, speedVars, worldVars, page, captureVars>>

CaptureStep ==
  job = "capture" /\ CaptureNext
    /\ UNCHANGED <<job, linkVars, logVars, heartVars, speedVars, worldVars, page, carrierVars>>

Next == LinkStep \/ LogStep \/ HeartStep \/ SpeedStep \/ RecordStep \/ CarrierStep \/ CaptureStep
Spec == Init /\ [][Next]_vars

\* launchd starts what is due, a push ends or times out, time passes, a collector that
\* lives has its cycles and reads its path now and then. Nothing has to break or be mended.
LiveSpec ==
  /\ Spec
  /\ WF_vars(HeartDoes(Run)) /\ WF_vars(HeartDoes(PushLands \/ PushFails))
  /\ WF_vars(HeartDoes(Pass)) /\ SF_vars(HeartDoes(Ingest(TRUE)))
=============================================================================
