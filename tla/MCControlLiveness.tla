-------------------------- MODULE MCControlLiveness --------------------------
(* TLC values for ControlLoop's function-valued constants. *)
EXTENDS ControlLiveness

\* Every mode has every network.
AllNetworks ==
    [m \in Modes |-> {"walk", "sitstand", "ground_pick", "kick", "roulade"}]
=============================================================================
