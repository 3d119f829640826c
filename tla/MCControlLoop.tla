----------------------------- MODULE MCControlLoop -----------------------------
(* TLC values for ControlLoop's function-valued constants. *)
EXTENDS ControlSafety

\* Every mode has every network.
AllNetworks ==
    [m \in Modes |-> {"walk", "sitstand", "ground_pick", "kick", "roulade"}]
=============================================================================
