--------------------------- MODULE WatchdogStatus ---------------------------
(***************************************************************************)
(* `make watchdog-status` beside the watchdog: the same program started    *)
(* once.  It reads, decides and prints, leaves the ledger alone and        *)
(* performs nothing; but it drains the event spool, which is the spool of  *)
(* the process it asks about.                                              *)
(***************************************************************************)
EXTENDS WatchdogReport

VARIABLE status  \* what the status process has read of the spool and not posted, or Null

StatusVars == <<allVars, status>>
Beside == UNCHANGED <<vars, rep, notes, heard, noted, alarms, cut, refused, steady>>

\* `drainEvents` in the second process: one read, then a post for each line.
StatusReads ==
  /\ status = Null /\ events # <<>>
  /\ status' = events
  /\ Beside /\ UNCHANGED <<events, recorded, fails>>

StatusPosts(ok, arrived) ==
  /\ status # Null /\ Send(ok, arrived)
  /\ recorded' = IF arrived THEN recorded \cup {Head(status)} ELSE recorded
  /\ LET over == ~ok \/ Len(status) = 1
     IN /\ status' = IF over THEN Null ELSE Tail(status)
        /\ events' = IF ~ok THEN Remainder(status) ELSE IF over THEN <<>> ELSE events
  /\ Beside

StatusInit == ReportInit /\ status = Null
StatusNext ==
  \/ ReportNext /\ UNCHANGED status
  \/ StatusReads
  \/ \E ok, arrived \in BOOLEAN : StatusPosts(ok, arrived)
StatusSpec == StatusInit /\ [][StatusNext]_StatusVars
=============================================================================
