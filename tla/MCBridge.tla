------------------------------- MODULE MCBridge -------------------------------
(* TLC values for BridgeSession's constants. *)
EXTENDS BridgeSafety

CONSTANTS robotctl

\* The sessions and robotctl write the config file.
SessionAndRobotctl == {1, robotctl}
SessionsAndRobotctl == {1, 2, robotctl}
=============================================================================
