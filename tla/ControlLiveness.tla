---------------------------- MODULE ControlLiveness ----------------------------
(***************************************************************************)
(* What robotd's control loop ends up doing, with the thread scheduled and *)
(* the clients free to do anything.                                        *)
(***************************************************************************)
EXTENDS ControlLoop

\* A ramp, a fall or the pose after it is over.
PhaseEnds ==
    \/ Home /\ AtHome
    \/ Fall /\ limpFall = "limp" /\ limpFall' = "posing"
    \/ Fall /\ limpFall = "posing" /\ limpFall' = "idle"

\* The thread is scheduled, a deadline passes in the end, and a bus that drops
\* transactions does not drop every one.
Fairness ==
    /\ WF_vars(Tick)
    /\ SF_vars(Read /\ sample' = "fresh" /\ warm')
    /\ SF_vars(BringUp /\ bringup' # bringup)
    /\ SF_vars(PhaseEnds)
    /\ SF_vars(TakeEnd /\ SitEnds)

LoopFairSpec == Spec /\ Fairness

-----------------------------------------------------------------------------
\* A shutdown that was asked for powers the machine off, whatever clients do in
\* between and however the bus behaves, unless robotd stops first (main.rs: "the
\* request must never be silently lost").
ShutdownEnds == shutdown ~> off \/ pc = "down"

\* A mode switch whose ramp has begun is completed, unless the robot is let go.
SwitchCompletes ==
    switching # None /\ bringup = "homing"
      ~> switching = None \/ bringup = "limp" \/ pc = "down"

\* A robot that stays enabled, with networks that load, and that is not being
\* shut down, let go or switched, is driven again and again: from limp, out of
\* every ramp and every fall.
LeftToDrive ==
    /\ enabled /\ ctl # None /\ modeSwitch = None /\ power # "relax"
    /\ ~off /\ ~sitDown /\ ~shutdown

EnabledIsDriven == <>[]LeftToDrive => []<>(wasDriving \/ off)
=============================================================================
