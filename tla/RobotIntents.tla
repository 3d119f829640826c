----------------------------- MODULE RobotIntents -----------------------------
(***************************************************************************)
(* What clients have asked of robotd, as the control loop finds it         *)
(* (robotd/src/intents.rs), and the IPC calls that write it (dispatch and  *)
(* apply_intent in robotd/src/main.rs).                                    *)
(*                                                                         *)
(* Every field is an atomic of its own and no two are written together: a  *)
(* call that writes two fields, or reads one and writes it back, is two    *)
(* steps, and the loop or another client may come in between.  `halfway`   *)
(* holds the calls that are between their two steps.                       *)
(*                                                                         *)
(* Only the discrete intents are here.  The twist, head, pose and mouth    *)
(* slots are levels a reader may miss; the loop's use of them is a choice. *)
(***************************************************************************)
EXTENDS FiniteSets, Naturals

CONSTANTS
    None,        \* no mode, no controller
    Modes,       \* the drive modes, walk and roller in the source
    Skills,      \* the scripted skills this robot's clients ask for
    Configured,  \* Configured[m]: the networks the params name for a mode
    Calls,       \* the calls clients make
    MaxPending   \* bound: requests waiting for the loop at one time

ASSUME IntentsAssumption ==
    /\ None \notin Modes
    /\ Skills \subseteq {"ground_pick", "kick", "sit_toggle", "roulade"}
    /\ Configured \in [Modes -> SUBSET {"walk", "sitstand", "ground_pick",
                                        "kick", "roulade"}]
    /\ Calls \subseteq {"enable", "disable", "toggle", "init", "relax", "do",
                        "mode", "shutdown"}
    /\ MaxPending \in Nat

VARIABLES
    enabled,     \* the policy should drive
    power,       \* the pending robot.init or robot.relax, last one wins
    skills,      \* the pending skill requests, a mask
    modeSwitch,  \* the pending drive mode, last one wins
    shutdown,    \* sit down and power off was asked for
    halfway,     \* calls between their two steps
    mode         \* the drive mode robotd publishes, with its networks

intentVars == <<enabled, power, skills, modeSwitch, shutdown, halfway>>

Halves == {"relaxing", "turningOn", "turningOff"}

IntentsTypeOK ==
    /\ enabled \in BOOLEAN
    /\ power \in {"none", "init", "relax"}
    /\ skills \subseteq Skills
    /\ modeSwitch \in Modes \union {None}
    /\ shutdown \in BOOLEAN
    /\ halfway \subseteq Halves
    /\ mode \in Modes

IntentsInit ==
    /\ enabled = FALSE
    /\ power = "none"
    /\ skills = {}
    /\ modeSwitch = None
    /\ shutdown = FALSE
    /\ halfway = {}

\* The requests waiting to be taken, and those about to.
Pending ==
    Cardinality(skills) + Cardinality(halfway)
      + Cardinality({power} \ {"none"}) + Cardinality({modeSwitch} \ {None})
      + Cardinality({shutdown} \ {FALSE})

\* The network a skill runs on: sit and stand share one.
NetworkOf(skill) == IF skill = "sit_toggle" THEN "sitstand" ELSE skill

-----------------------------------------------------------------------------
(* The calls.                                                              *)

\* robot.enable without toggle.
SetEnabled(on) ==
    /\ (IF on THEN "enable" ELSE "disable") \in Calls
    /\ enabled' = on
    /\ UNCHANGED <<power, skills, modeSwitch, shutdown, halfway>>

\* robot.enable with toggle reads the flag ...
Toggle ==
    /\ "toggle" \in Calls
    /\ halfway' = halfway \union {IF enabled THEN "turningOff" ELSE "turningOn"}
    /\ UNCHANGED <<enabled, power, skills, modeSwitch, shutdown>>

\* ... and stores the other value.
ToggleStores(half) ==
    /\ half \in halfway \intersect {"turningOn", "turningOff"}
    /\ enabled' = (half = "turningOn")
    /\ halfway' = halfway \ {half}
    /\ UNCHANGED <<power, skills, modeSwitch, shutdown>>

RequestInit ==
    /\ "init" \in Calls
    /\ power' = "init"
    /\ UNCHANGED <<enabled, skills, modeSwitch, shutdown, halfway>>

\* robot.relax clears the flag ...
Relax ==
    /\ "relax" \in Calls
    /\ enabled' = FALSE
    /\ halfway' = halfway \union {"relaxing"}
    /\ UNCHANGED <<power, skills, modeSwitch, shutdown>>

\* ... and then asks the loop to cut the torque.
RelaxAsks ==
    /\ "relaxing" \in halfway
    /\ power' = "relax"
    /\ halfway' = halfway \ {"relaxing"}
    /\ UNCHANGED <<enabled, skills, modeSwitch, shutdown>>

\* robot.do, refused when the published mode has no network for it.  As a
\* notification it is queued whatever the networks, and the controller refuses.
RequestSkill(skill, notified) ==
    /\ "do" \in Calls
    /\ notified \/ NetworkOf(skill) \in Configured[mode]
    /\ skills' = skills \union {skill}
    /\ UNCHANGED <<enabled, power, modeSwitch, shutdown, halfway>>

\* robot.setMode, refused on a robot with no walking network.
RequestMode(m) ==
    /\ "mode" \in Calls
    /\ "walk" \in Configured[mode]
    /\ modeSwitch' = m
    /\ UNCHANGED <<enabled, power, skills, shutdown, halfway>>

RequestShutdown ==
    /\ "shutdown" \in Calls
    /\ shutdown' = TRUE
    /\ UNCHANGED <<enabled, power, skills, modeSwitch, halfway>>

Client ==
    /\ \/ \E on \in BOOLEAN : SetEnabled(on)
       \/ Toggle
       \/ \E half \in halfway : ToggleStores(half)
       \/ RequestInit
       \/ Relax
       \/ RelaxAsks
       \/ \E skill \in Skills, notified \in BOOLEAN : RequestSkill(skill, notified)
       \/ \E m \in Modes : RequestMode(m)
       \/ RequestShutdown
    /\ Pending' <= MaxPending
=============================================================================
