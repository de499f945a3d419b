-------------------------- MODULE MCWatchdogStatus --------------------------
(* The instance of MCWatchdogReport with a status process beside it. *)
EXTENDS MCWatchdogReport, WatchdogStatus
=============================================================================
