--------------------------- MODULE DaemonGuardMC ---------------------------
(* DaemonGuard for TLC: two pids, a launcher that starts and restarts and  *)
(* one that stops.                                                         *)
EXTENDS DaemonGuard, TLC

CONSTANTS asker, stopper

MCCalls == asker :> {"start", "restart"} @@ stopper :> {"stop"}

=============================================================================
