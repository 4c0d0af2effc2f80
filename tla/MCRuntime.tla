----------------------------- MODULE MCRuntime -----------------------------
(* An instance of Runtime for TLC. *)
EXTENDS Runtime, TLC

CONSTANTS forecast, heartbeat, robot, backfill

\* The forecast is the slowest of the loops.
Intervals == (forecast :> 2) @@ (heartbeat :> 1)
=============================================================================
