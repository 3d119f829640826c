------------------------------ MODULE ControlLoop ------------------------------
(***************************************************************************)
(* robotd's control loop (control_loop in robotd/src/main.rs): the one     *)
(* thread that touches the motor bus, fifty times a second.                *)
(*                                                                         *)
(* A tick reads the bus and takes a snapshot of the intents, then takes    *)
(* the pending requests one by one, and then decides who commands the      *)
(* joints: a limp-fall in progress, the policy, the ramp to the home pose, *)
(* or nobody (the pose is held).  Clients write the intents at any time,   *)
(* so each place where the tick reads one is a step.  What is left of the  *)
(* tick after the last of them is split by decision.                       *)
(*                                                                         *)
(* Deadlines (the ramp, the sit before power off, the phases of a fall)    *)
(* are not measured: whether one has passed is the choice of the step that *)
(* looks at it, except in the tick that set it, where it never has.        *)
(***************************************************************************)
EXTENDS PolicyController

CONSTANTS
    BootMode,     \* the drive mode the params file names
    Loads,        \* the modes whose networks load
    CoastTicks,   \* failed reads in a row the last sample stands in for
    LimpFall,     \* the limp-fall mode is configured
    FoundSitting, \* what the look at the pose at startup may find
    MayFailBus,   \* reads and torque writes of the motor bus may fail
    MayFall,      \* the robot may tip over
    MayRunFlat,   \* the battery may run empty
    MayStop       \* the process may be stopped or die, and is started again

ASSUME LoopAssumption ==
    /\ BootMode \in Modes
    /\ Loads \subseteq Modes
    /\ CoastTicks \in Nat
    /\ FoundSitting \in (SUBSET BOOLEAN) \ {{}}
    /\ {LimpFall, MayFailBus, MayFall, MayRunFlat, MayStop} \subseteq BOOLEAN

VARIABLES
    pc,          \* the next thing the tick does
    snap,        \* `enabled` as the tick's snapshot found it
    sample,      \* what the tick has to step from
    coast,       \* failed reads in a row
    warm,        \* the orientation filter has converged
    fallen,      \* the published fall verdict
    torque,      \* which of the joints are powered: all, some or none
    bringup,     \* how far the robot is towards being drivable
    newRamp,     \* the ramp began in this tick
    switching,   \* the mode to end up in once home
    ctl,         \* the controller, or None
    seatedBoot,  \* powered on sitting, and not brought up since
    sitDown,     \* the sit before power off has begun
    off,         \* power off was asked of the machine
    limpFall,    \* where the limp-fall sequence is
    wasDriving,  \* the policy drove the last tick
    owner,       \* who commanded the joints in the last tick
    moving       \* published: the joints are travelling

sensing == <<sample, coast, warm, fallen>>
power_ == <<torque, bringup, newRamp, seatedBoot>>
ending == <<sitDown, off>>
output == <<wasDriving, owner, moving>>
loopVars == <<pc, snap, sensing, power_, switching, ctl, ending, limpFall,
              output>>
vars == <<intentVars, mode, loopVars>>

Pcs == {"read", "power", "skills", "mode", "shutdown", "fall", "bringup",
        "home", "drive", "down"}
Owners == {"limp_fall", "limp_pose", "policy", "homing", "held"}
Torques == {"off", "partly", "on"}

TypeOK ==
    /\ IntentsTypeOK
    /\ pc \in Pcs
    /\ {snap, warm, fallen, newRamp, seatedBoot, sitDown, off,
        wasDriving, moving} \subseteq BOOLEAN
    /\ torque \in Torques
    /\ sample \in {"fresh", "coasted", "none"}
    /\ coast \in 0 .. CoastTicks
    /\ bringup \in {"limp", "homing", "ready"}
    /\ switching \in Modes \union {None}
    /\ ctl \in Controllers \union {None}
    /\ limpFall \in {"idle", "limp", "posing"}
    /\ owner \in Owners

\* build_controller.
Built(m) == IF m \in Loads THEN FreshController(m) ELSE None

\* The pose found at startup is adopted and nothing is moved: torque may be on,
\* or on at some joints, since before a restart.  No sample has been kept, so none can stand in.
Init ==
    /\ IntentsInit
    /\ mode = BootMode
    /\ pc = "read"
    /\ snap = FALSE
    /\ sample = "none"
    /\ coast = CoastTicks
    /\ warm = FALSE
    /\ fallen = FALSE
    /\ torque \in Torques
    /\ bringup = "limp"
    /\ newRamp = FALSE
    /\ switching = None
    /\ ctl = Built(mode)
    /\ seatedBoot \in FoundSitting
    /\ sitDown = FALSE
    /\ off = FALSE
    /\ limpFall = "idle"
    /\ wasDriving = FALSE
    /\ owner = "held"
    /\ moving = FALSE

Sampled == sample # "none"
HasSitStand == ctl # None /\ Has(ctl, "sitstand")

-----------------------------------------------------------------------------
(* The top of the tick: read, observe, snapshot.                           *)

\* Safety::observe keeps its verdict until the filter has converged.
Observe ==
    /\ warm' \in {TRUE, warm}
    /\ fallen' \in IF warm' /\ MayFall THEN BOOLEAN ELSE {fallen}

\* Mutant: the failed reads are counted without an end.
ReadBusUncapped ==
    \/ sample' = "fresh" /\ coast' = 0 /\ Observe
    \/ /\ MayFailBus
       /\ sample' = (IF coast < CoastTicks THEN "coasted" ELSE "none")
       /\ coast' = coast + 1
       /\ UNCHANGED <<warm, fallen>>

ReadBus ==
    \/ /\ sample' = "fresh"
       /\ coast' = 0
       /\ Observe
    \/ /\ MayFailBus
       /\ IF coast < CoastTicks
            THEN sample' = "coasted" /\ coast' = coast + 1
            ELSE sample' = "none" /\ coast' = coast
       /\ UNCHANGED <<warm, fallen>>

Read ==
    /\ pc = "read"
    /\ ReadBus
    /\ snap' = enabled
    /\ newRamp' = FALSE
    /\ pc' = "power"
    /\ UNCHANGED <<intentVars, mode, torque, bringup, seatedBoot, switching,
                   ctl, ending, limpFall, output>>

-----------------------------------------------------------------------------
(* The requests, each taken once.                                          *)

\* What a torque write that fails leaves.  It is one transaction per joint, and
\* the first that fails ends it: the joints before it are switched, those after
\* it are not, and its own may be with only the answer lost.
CutShort(to) ==
    IF MayFailBus
      THEN {torque, to} \union (IF torque = to THEN {} ELSE {"partly"})
      ELSE {}

RampHome == bringup' = "homing" /\ newRamp' = TRUE

\* Torque on, and then up: through the sitstand network if the robot was found
\* sitting, or down the ramp.
StandUp ==
    /\ torque' = "on"
    /\ IF seatedBoot /\ HasSitStand
         THEN /\ bringup' = "ready"
              /\ seatedBoot' = FALSE
              /\ ctl' = BootRisen(ctl)
              /\ UNCHANGED newRamp
         ELSE RampHome /\ UNCHANGED <<seatedBoot, ctl>>

\* The loop's own idea of the robot stays, whatever the joints do.
StateKept == UNCHANGED <<bringup, newRamp, seatedBoot, ctl, wasDriving>>

NoPower == UNCHANGED torque /\ StateKept

TakeInit ==
    /\ power = "init"
    /\ CASE bringup = "limp" /\ Sampled ->
              \/ StandUp /\ UNCHANGED wasDriving
              \/ torque' \in CutShort("on") /\ StateKept
         [] bringup = "ready" /\ Sampled ->
              RampHome /\ UNCHANGED <<torque, seatedBoot, ctl, wasDriving>>
         [] OTHER -> NoPower

\* A relax that fails leaves the loop as it was, and some joints limp.
TakeRelax ==
    /\ power = "relax"
    /\ \/ /\ torque' = "off"
          /\ bringup' = "limp"
          /\ wasDriving' = FALSE
          /\ UNCHANGED <<newRamp, seatedBoot, ctl>>
       \/ torque' \in CutShort("off") /\ StateKept

TakePower ==
    /\ pc = "power"
    /\ TakeInit \/ TakeRelax \/ (power = "none" /\ NoPower)
    /\ power' = "none"
    /\ pc' = "skills"
    /\ UNCHANGED <<enabled, skills, modeSwitch, shutdown, halfway, mode, snap,
                   sensing, switching, ending, limpFall, owner, moving>>

\* Requests that find no policy driving are dropped.
TakeSkills ==
    /\ pc = "skills"
    /\ skills' = {}
    /\ ctl' = IF ctl # None /\ snap /\ bringup = "ready" /\ ~sitDown
                THEN Asked(ctl, skills) ELSE ctl
    /\ pc' = "mode"
    /\ UNCHANGED <<enabled, power, modeSwitch, shutdown, halfway, mode, snap,
                   sensing, power_, switching, ending, limpFall, output>>

\* Another mode than the running one, and no switch in flight: go home first.
\* Without a sample there is nothing to ramp from, and no ramp begins.
TakeMode ==
    /\ pc = "mode"
    /\ modeSwitch' = None
    /\ IF modeSwitch \in Modes \ {mode} /\ switching = None
         THEN /\ switching' = modeSwitch
              /\ IF Sampled THEN RampHome ELSE UNCHANGED <<bringup, newRamp>>
         ELSE UNCHANGED <<switching, bringup, newRamp>>
    /\ pc' = "shutdown"
    /\ UNCHANGED <<enabled, power, skills, shutdown, halfway, mode, snap,
                   sensing, torque, seatedBoot, ctl, ending, limpFall, output>>

-----------------------------------------------------------------------------
(* Sit, then power off.                                                    *)

CanSit == snap /\ bringup = "ready" /\ ~fallen /\ HasSitStand

\* Cutting the torque is tried once; the machine goes down either way.
PowerOff ==
    /\ torque' \in {"off"} \union CutShort("off")
    /\ enabled' = FALSE
    /\ off' = TRUE

BeginSit ==
    /\ ctl' = ShutdownSat(ctl)
    /\ sitDown' = TRUE
    /\ UNCHANGED <<enabled, torque, bringup, off>>

EndAtOnce == PowerOff /\ UNCHANGED <<ctl, sitDown, bringup>>

\* Mutant: a robot that cannot sit loses the request.
TakeShutdownOrLose ==
    /\ ~off /\ ~sitDown
    /\ shutdown' = FALSE
    /\ IF shutdown /\ CanSit
         THEN BeginSit
         ELSE UNCHANGED <<enabled, torque, bringup, ctl, ending>>

TakeShutdown ==
    \E empty \in {FALSE, MayRunFlat} :
        /\ ~off /\ ~sitDown
        /\ shutdown' = FALSE
        /\ IF ~shutdown /\ ~empty
             THEN UNCHANGED <<enabled, torque, bringup, ctl, ending>>
             ELSE IF CanSit THEN BeginSit ELSE EndAtOnce

SitEnds == sitDown /\ ~off /\ PowerOff /\ bringup' = "limp"

TakeEnd ==
    /\ pc = "shutdown"
    /\ \/ TakeShutdown
       \/ SitEnds /\ UNCHANGED <<shutdown, ctl, sitDown>>
       \/ /\ sitDown \/ off
          /\ UNCHANGED <<shutdown, enabled, torque, bringup, ctl, ending>>
    /\ pc' = "fall"
    /\ UNCHANGED <<power, skills, modeSwitch, halfway, mode, snap, sensing,
                   newRamp, seatedBoot, switching, limpFall, output>>

-----------------------------------------------------------------------------
(* Who commands the joints.                                                *)

\* Something else has taken the robot from the limp-fall sequence.
Taken == ~(snap /\ bringup = "ready" /\ ~sitDown /\ ~off)

MayCatch ==
    /\ wasDriving /\ ~fallen /\ ~sitDown /\ ~off
    /\ ctl # None /\ ~Busy(ctl) /\ ctl.sit # "sitting"
    /\ sample = "fresh" /\ warm

Fall ==
    /\ pc = "fall"
    /\ CASE ~LimpFall -> UNCHANGED limpFall
         [] LimpFall /\ limpFall # "idle" /\ Taken -> limpFall' = "idle"
         [] LimpFall /\ limpFall = "idle" ->
              limpFall' \in {"idle"} \union
                            (IF MayCatch /\ MayFall THEN {"limp"} ELSE {})
         [] LimpFall /\ limpFall = "limp" /\ ~Taken ->
              limpFall' \in {"limp", "posing"}
         [] LimpFall /\ limpFall = "posing" /\ ~Taken ->
              limpFall' \in {"posing", "idle"}
    /\ pc' = "bringup"
    /\ UNCHANGED <<intentVars, mode, snap, sensing, power_, switching, ctl,
                   ending, output>>

\* Mutant: the robot is brought up because the process started.
BringUpUnasked ==
    /\ pc = "bringup"
    /\ IF bringup = "limp" /\ ctl # None /\ Sampled
         THEN StandUp ELSE UNCHANGED <<power_, ctl>>
    /\ pc' = "home"
    /\ UNCHANGED <<intentVars, mode, snap, sensing, switching, ending, limpFall,
                   output>>

\* Mutant: a robot on its way up is brought up again.
BringUpAgain ==
    /\ pc = "bringup"
    /\ IF bringup # "ready" /\ snap /\ ctl # None /\ Sampled
         THEN StandUp ELSE UNCHANGED <<power_, ctl>>
    /\ pc' = "home"
    /\ UNCHANGED <<intentVars, mode, snap, sensing, switching, ending, limpFall,
                   output>>

\* Mutant: a torque write that failed is taken for one that worked.
BringUpAnyway ==
    /\ pc = "bringup"
    /\ IF bringup = "limp" /\ snap /\ ctl # None /\ Sampled
         THEN \/ StandUp
              \/ torque' \in CutShort("on") /\ RampHome
                   /\ UNCHANGED <<seatedBoot, ctl>>
         ELSE UNCHANGED <<power_, ctl>>
    /\ pc' = "home"
    /\ UNCHANGED <<intentVars, mode, snap, sensing, switching, ending, limpFall,
                   output>>

\* Asked to drive, and no torque asked for yet.  A write that fails is tried
\* again by the next tick, over whatever joints it has powered.
BringUp ==
    /\ pc = "bringup"
    /\ IF bringup = "limp" /\ snap /\ ctl # None /\ Sampled
         THEN \/ StandUp
              \/ /\ torque' \in CutShort("on")
                 /\ UNCHANGED <<bringup, newRamp, seatedBoot, ctl>>
         ELSE UNCHANGED <<power_, ctl>>
    /\ pc' = "home"
    /\ UNCHANGED <<intentVars, mode, snap, sensing, switching, ending, limpFall,
                   output>>

\* Mutant: the new mode is published over the old networks.
AtHomePublishes ==
    /\ bringup = "homing" /\ ~newRamp
    /\ bringup' = "ready"
    /\ switching' = None
    /\ mode' = IF switching = None THEN mode ELSE switching
    /\ UNCHANGED ctl

\* Mutant: the switch is not taken off the list.
AtHomeSwitchStays ==
    /\ bringup = "homing" /\ ~newRamp
    /\ bringup' = "ready"
    /\ UNCHANGED switching
    /\ IF switching = None
         THEN UNCHANGED <<mode, ctl>>
         ELSE mode' = switching /\ ctl' = Built(switching)

\* The ramp is over: a switch in flight loads its networks here.
AtHome ==
    /\ bringup = "homing" /\ ~newRamp
    /\ bringup' = "ready"
    /\ switching' = None
    /\ IF switching = None
         THEN UNCHANGED <<mode, ctl>>
         ELSE mode' = switching /\ ctl' = Built(switching)

Home ==
    /\ pc = "home"
    /\ AtHome \/ UNCHANGED <<bringup, switching, mode, ctl>>
    /\ pc' = "drive"
    /\ UNCHANGED <<intentVars, snap, sensing, torque, newRamp, seatedBoot,
                   ending, limpFall, output>>

Driving ==
    /\ snap /\ bringup = "ready" /\ ctl # None
    /\ limpFall = "idle" /\ Sampled /\ warm /\ ~off

\* The policy steps, or its inference fails and the pose is held.
StepPolicy ==
    \E over \in SUBSET (ctl.moves \union {"rise"}) :
        \/ \E released, walking \in BOOLEAN :
              /\ ctl' = Stepped(ctl, over, released)
              /\ owner' = "policy"
              /\ moving' = (Busy(ctl') \/ walking)
        \/ /\ ctl' = Expired(ctl, over)
           /\ owner' = "held"
           /\ moving' = FALSE

\* Mutant: only walking counts as travelling.
TravelsWalking(o) == o = "policy"

\* The joints travel for every owner but the held pose.
Travels(o) == o # "held"

Drive ==
    /\ pc = "drive"
    /\ wasDriving' = Driving
    /\ IF Driving
         THEN StepPolicy
         ELSE /\ owner' = CASE limpFall = "limp" -> "limp_fall"
                            [] limpFall = "posing" -> "limp_pose"
                            [] limpFall = "idle" /\ bringup = "homing" ->
                                 "homing"
                            [] OTHER -> "held"
              /\ moving' = Travels(owner')
              /\ UNCHANGED ctl
    /\ pc' = "read"
    /\ UNCHANGED <<intentVars, mode, snap, sensing, power_, switching, ending,
                   limpFall>>

Tick ==
    \/ Read \/ TakePower \/ TakeSkills \/ TakeMode \/ TakeEnd
    \/ Fall \/ BringUp \/ Home \/ Drive

\* The calls leave the loop alone.
Call == pc # "down" /\ Client /\ UNCHANGED <<mode, loopVars>>

\* The process ends, and with it all but the torque of the joints.
Stop ==
    /\ MayStop /\ pc # "down"
    /\ enabled' = FALSE /\ power' = "none" /\ skills' = {}
    /\ modeSwitch' = None /\ shutdown' = FALSE /\ halfway' = {}
    /\ mode' = BootMode /\ ctl' = Built(BootMode) /\ switching' = None
    /\ pc' = "down" /\ snap' = FALSE
    /\ sample' = "none" /\ coast' = CoastTicks
    /\ warm' = FALSE /\ fallen' = FALSE
    /\ bringup' = "limp" /\ newRamp' = FALSE /\ seatedBoot' = FALSE
    /\ sitDown' = FALSE /\ off' = FALSE /\ limpFall' = "idle"
    /\ wasDriving' = FALSE /\ owner' = "held" /\ moving' = FALSE
    /\ UNCHANGED torque

\* systemd starts it again, and it looks how it finds the robot.
Start ==
    /\ pc = "down"
    /\ pc' = "read"
    /\ seatedBoot' \in FoundSitting
    /\ UNCHANGED <<intentVars, mode, snap, sensing, torque, bringup, newRamp,
                   switching, ctl, ending, limpFall, output>>

Next == Tick \/ Call \/ Stop \/ Start

Spec == Init /\ [][Next]_vars

\* robotd's own answer to the updater's question before it restarts anything.
SafeToRestart == ~moving \/ fallen
=============================================================================
