--------------------------- MODULE MCWatchdogLots ---------------------------
(***************************************************************************)
(* Pairs of instances of Watchdog over the same variables, one behaviour   *)
(* of either.  `lot` says which.  Without deaths: "long", long enough for  *)
(* the spacing and the daily budget to meet, over the plain evidence, or   *)
(* "wide", over all the evidence and with people who step in.              *)
(***************************************************************************)
EXTENDS MCWatchdog

VARIABLE lot

Wide == INSTANCE Watchdog WITH
          Evidence <- WideEvidence, MaxTime <- 4, Allowed <- {"intervene", "disarm", "slow_tick"}

LotInit == lot \in {"long", "wide"} /\ Init
LotNext ==
  \/ lot = "long" /\ Next /\ UNCHANGED lot
  \/ lot = "wide" /\ Wide!Next /\ UNCHANGED lot
LotSpec == LotInit /\ [][LotNext]_<<vars, lot>>

(* With deaths: "faults", the ledger cannot be written or the events read, or
   "people", somebody acts or disarms while the loop dies and comes back. *)
People == INSTANCE Watchdog WITH MaxTime <- 5, Allowed <- {"intervene", "disarm"}

DeathInit == lot \in {"faults", "people"} /\ Init
DeathNext ==
  \/ lot = "faults" /\ Next /\ UNCHANGED lot
  \/ lot = "people" /\ People!Next /\ UNCHANGED lot
DeathSpec == DeathInit /\ [][DeathNext]_<<vars, lot>>
=============================================================================
