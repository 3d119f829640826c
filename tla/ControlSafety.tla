----------------------------- MODULE ControlSafety -----------------------------
(***************************************************************************)
(* What robotd's control loop promises, over three histories:              *)
(*                                                                         *)
(*   wanted   a client has asked this process for a powered robot, and has *)
(*            not been given a limp one since                              *)
(*   unlifted a mode switch lifted a limp robot, joints without torque     *)
(*   halfCut  a relax failed after it had cut the torque of some joints of *)
(*            a robot that was up                                          *)
(***************************************************************************)
EXTENDS ControlLoop

VARIABLES wanted, unlifted, halfCut

histories == <<wanted, unlifted, halfCut>>
allVars == <<vars, histories>>

\* A call asks for power: enable, a toggle that turns on, init.
Wants ==
    \/ SetEnabled(TRUE)
    \/ "turningOn" \in halfway /\ ToggleStores("turningOn")
    \/ RequestInit

\* The loop lets the robot go for a relax that nobody has taken back.  Left out
\* is the relax that came between the tick's snapshot and the taking of the
\* power request of a robot that was enabled: see the README.
LetGo ==
    /\ pc = "power" /\ pc' = "skills" /\ TakeRelax /\ torque' = "off"
    /\ ~enabled /\ ~snap

\* A mode switch ramps a limp robot.
LiftsLimp ==
    /\ pc = "mode" /\ pc' = "shutdown"
    /\ bringup = "limp" /\ bringup' = "homing"

\* A relax that fails midway: the robot still counts as up.
RelaxFailsMidway ==
    /\ pc = "power" /\ pc' = "skills" /\ power = "relax"
    /\ torque = "on"

LoopSafetyInit == Init /\ wanted = FALSE /\ unlifted = FALSE /\ halfCut = FALSE

LoopSafetyNext ==
    /\ Next
    /\ wanted' = CASE Call /\ Wants -> TRUE
                   [] LetGo -> FALSE
                   [] pc' = "down" -> FALSE
                   [] OTHER -> wanted
    /\ IF torque' = "on" \/ bringup' = "limp" \/ off'
         THEN unlifted' = FALSE /\ halfCut' = FALSE
         ELSE /\ unlifted' = (unlifted \/ LiftsLimp)
              /\ halfCut' = (halfCut \/ RelaxFailsMidway)

LoopSafetySpec == LoopSafetyInit /\ [][LoopSafetyNext]_allVars

-----------------------------------------------------------------------------
(* Safety.                                                                 *)

\* Joints that had no torque get it.
Rises(was, is) == (was # "on" /\ is = "on") \/ (was = "off" /\ is # "off")

\* "Nothing here runs because a process started" (main.rs Bringup), and a relax
\* is not undone by what was asked before it: torque comes on, at all joints or
\* at some, only for a client that asked this process for it and was not
\* followed by a relax.
TorqueOnlyWhenWanted == [][Rises(torque, torque') => wanted]_allVars

\* A robot that is ramping or ready has every joint powered (main.rs Bringup:
\* "torque is on and the joints are ramping to the home pose"; "at the home pose
\* with torque on"), unless it is on its way down.  The code has two ways around
\* it, and no third: a mode switch lifts a limp robot, its joints without torque,
\* and a relax that fails midway has cut some joints and leaves the robot up.
PoweredWhenUp == bringup # "limp" /\ ~off => torque = "on" \/ unlifted \/ halfCut

\* The networks in charge are those of the mode robotd publishes, through every
\* switch and restart (main.rs: "published together with the mode").
PublishedIsLoaded == ctl # None => ctl.mode = mode

\* Between ticks, updaterd's question whether robotd may be restarted is
\* answered for the robot as it is: never yes to one that is ramping home or
\* catching a fall, unless it is down already (main.rs safe_to_restart).
RestartSparesTravel ==
    pc = "read" /\ SafeToRestart /\ ~fallen
      => bringup # "homing" /\ limpFall = "idle"
=============================================================================
