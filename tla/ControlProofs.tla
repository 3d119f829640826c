----------------------------- MODULE ControlProofs -----------------------------
(***************************************************************************)
(* What holds of robotd's control loop for any modes, networks and calls,  *)
(* with a bus that fails, a robot that falls and restarts at any step.     *)
(***************************************************************************)
EXTENDS ControlSafety, TLAPS

-----------------------------------------------------------------------------
(* The controller's operators keep its type and its mode.                  *)

\* e is a controller of the same mode as c.
SameMode(c, e) == e \in Controllers /\ e.mode = c.mode

\* A request or a step never changes what networks are in charge.
LEMMA OperatorsKeepMode ==
  ASSUME NEW c \in Controllers, NEW over \in SUBSET (Moves \union {"rise"}),
         NEW released \in BOOLEAN
  PROVE  /\ SameMode(c, c)
         /\ SameMode(c, GroundPicked(c))
         /\ SameMode(c, Kicked(c))
         /\ SameMode(c, SitToggled(c))
         /\ SameMode(c, Rolled(c))
         /\ SameMode(c, ShutdownSat(c))
         /\ SameMode(c, BootRisen(c))
         /\ SameMode(c, Expired(c, over))
         /\ SameMode(c, Stepped(c, over, released))
<1>1. SameMode(c, c) /\ SameMode(c, GroundPicked(c)) /\ SameMode(c, Kicked(c))
  BY DEF SameMode, Controllers, Moves, GroundPicked, Kicked
<1>2. SameMode(c, SitToggled(c)) /\ SameMode(c, ShutdownSat(c))
        /\ SameMode(c, BootRisen(c))
  BY DEF SameMode, Controllers, SitToggled, ShutdownSat, BootRisen
<1>3. SameMode(c, Rolled(c))
  BY DEF SameMode, Controllers, Moves, Rolled
<1>4. SameMode(c, Expired(c, over))
  BY DEF SameMode, Controllers, Moves, Expired
<1>5. SameMode(c, Stepped(c, over, released))
  BY <1>4 DEF SameMode, Controllers, Moves, Stepped
<1> QED BY <1>1, <1>2, <1>3, <1>4, <1>5

\* Skill requests leave the networks alone, in whatever combination they come.
LEMMA AskedKeepsMode ==
  ASSUME NEW c \in Controllers, NEW asked
  PROVE  SameMode(c, Asked(c, asked))
<1> DEFINE picked == IF "ground_pick" \in asked THEN GroundPicked(c) ELSE c
           kicked == IF "kick" \in asked THEN Kicked(picked) ELSE picked
           sat == IF "sit_toggle" \in asked THEN SitToggled(kicked) ELSE kicked
<1>1. SameMode(c, picked)
  BY OperatorsKeepMode, {} \in SUBSET (Moves \union {"rise"}), TRUE \in BOOLEAN
<1>2. SameMode(c, kicked)
  <2>1. picked \in Controllers BY <1>1 DEF SameMode
  <2>2. SameMode(picked, kicked)
    BY <2>1, OperatorsKeepMode, {} \in SUBSET (Moves \union {"rise"}), TRUE \in BOOLEAN
  <2> QED BY <1>1, <2>2 DEF SameMode
<1>3. SameMode(c, sat)
  <2>1. kicked \in Controllers BY <1>2 DEF SameMode
  <2>2. SameMode(kicked, sat)
    BY <2>1, OperatorsKeepMode, {} \in SUBSET (Moves \union {"rise"}), TRUE \in BOOLEAN
  <2> QED BY <1>2, <2>2 DEF SameMode
<1>4. sat \in Controllers BY <1>3 DEF SameMode
<1>5. SameMode(sat, IF "roulade" \in asked THEN Rolled(sat) ELSE sat)
  <2> HIDE DEF sat
  <2> QED BY <1>4, OperatorsKeepMode, {} \in SUBSET (Moves \union {"rise"}), TRUE \in BOOLEAN
<1> QED BY <1>3, <1>5 DEF SameMode, Asked

\* A mode whose networks load gets a controller of that mode.
LEMMA BuiltOfMode ==
  ASSUME NEW m \in Modes
  PROVE  /\ Built(m) \in Controllers \union {None}
         /\ Built(m) # None => Built(m).mode = m
BY DEF Built, FreshController, Controllers, Moves

-----------------------------------------------------------------------------
(* The inductive invariant.                                                *)

\* The networks in charge are those of the published mode.
ModeInv == TypeOK /\ PublishedIsLoaded

LEMMA ModeInvInit == Init => ModeInv
<1> SUFFICES ASSUME Init PROVE ModeInv OBVIOUS
<1>1. mode \in Modes BY LoopAssumption DEF Init
<1>2. ctl \in Controllers \union {None} /\ (ctl # None => ctl.mode = mode)
  BY <1>1, BuiltOfMode DEF Init
<1>3. IntentsTypeOK
  BY <1>1 DEF Init, IntentsInit, IntentsTypeOK, Halves
<1>4. coast \in 0 .. CoastTicks /\ torque \in Torques
  BY LoopAssumption DEF Init
<1>5. seatedBoot \in BOOLEAN
  <2>1. FoundSitting \subseteq BOOLEAN BY LoopAssumption
  <2>2. seatedBoot \in FoundSitting BY Zenon DEF Init
  <2> QED BY <2>1, <2>2
<1>6. TypeOK
  BY <1>2, <1>3, <1>4, <1>5 DEF Init, TypeOK, Pcs, Owners
<1> QED BY <1>2, <1>6 DEF ModeInv, PublishedIsLoaded

\* A call of a client changes intents, and each keeps its type.
LEMMA ClientKeepsType == IntentsTypeOK /\ Client /\ mode' = mode => IntentsTypeOK'
<1> SUFFICES ASSUME IntentsTypeOK, Client, mode' = mode PROVE IntentsTypeOK'
  OBVIOUS
<1> USE DEF IntentsTypeOK, Halves
<1>1. ASSUME NEW on \in BOOLEAN, SetEnabled(on) PROVE IntentsTypeOK'
  BY <1>1 DEF SetEnabled
<1>2. CASE Toggle BY <1>2 DEF Toggle
<1>3. ASSUME NEW half \in halfway, ToggleStores(half) PROVE IntentsTypeOK'
  BY <1>3 DEF ToggleStores
<1>4. CASE RequestInit BY <1>4 DEF RequestInit
<1>5. CASE Relax BY <1>5 DEF Relax
<1>6. CASE RelaxAsks BY <1>6 DEF RelaxAsks
<1>7. ASSUME NEW skill \in Skills, NEW notified \in BOOLEAN,
             RequestSkill(skill, notified)
      PROVE  IntentsTypeOK'
  BY <1>7 DEF RequestSkill
<1>8. ASSUME NEW m \in Modes, RequestMode(m) PROVE IntentsTypeOK'
  BY <1>8 DEF RequestMode
<1>9. CASE RequestShutdown BY <1>9 DEF RequestShutdown
<1> QED
  BY <1>1, <1>2, <1>3, <1>4, <1>5, <1>6, <1>7, <1>8, <1>9 DEF Client

\* Standing up powers the joints and keeps the networks.
LEMMA StandUpKeeps ==
  ModeInv /\ StandUp
    => /\ torque' = "on"
       /\ bringup' \in {"ready", "homing"}
       /\ newRamp' \in BOOLEAN
       /\ seatedBoot' \in BOOLEAN
       /\ ctl = None => ctl' = ctl
       /\ ctl # None => SameMode(ctl, ctl')
<1> SUFFICES ASSUME ModeInv, StandUp PROVE
       /\ torque' = "on"
       /\ bringup' \in {"ready", "homing"}
       /\ newRamp' \in BOOLEAN
       /\ seatedBoot' \in BOOLEAN
       /\ ctl = None => ctl' = ctl
       /\ ctl # None => SameMode(ctl, ctl')
  OBVIOUS
<1>1. ctl # None => SameMode(ctl, ctl) /\ SameMode(ctl, BootRisen(ctl))
  BY OperatorsKeepMode, {} \in SUBSET (Moves \union {"rise"}), TRUE \in BOOLEAN
  DEF ModeInv, TypeOK
<1>2. CASE seatedBoot /\ HasSitStand
  BY <1>1, <1>2 DEF StandUp, HasSitStand, ModeInv, TypeOK
<1>3. CASE ~(seatedBoot /\ HasSitStand)
  BY <1>1, <1>3 DEF StandUp, RampHome, ModeInv, TypeOK
<1> QED BY <1>2, <1>3

\* Every step of the tick keeps the type and the agreement with the published
\* mode.
LEMMA ReadKeeps == ModeInv /\ Read => ModeInv'
<1> SUFFICES ASSUME ModeInv, Read PROVE ModeInv' OBVIOUS
<1>1. sample' \in {"fresh", "coasted", "none"} /\ coast' \in 0 .. CoastTicks
  BY LoopAssumption DEF Read, ReadBus, ModeInv, TypeOK
<1>2. warm' \in BOOLEAN /\ fallen' \in BOOLEAN
  <2>1. warm \in BOOLEAN /\ fallen \in BOOLEAN BY DEF ModeInv, TypeOK
  <2>2. CASE Observe
    <3>1. warm' \in BOOLEAN BY <2>1, <2>2, Zenon DEF Observe
    <3>2. fallen' \in BOOLEAN
      <4>1. CASE warm' /\ MayFall BY <2>2, <4>1 DEF Observe
      <4>2. CASE ~(warm' /\ MayFall) BY <2>1, <2>2, <4>2 DEF Observe
      <4> QED BY <4>1, <4>2
    <3> QED BY <3>1, <3>2
  <2>3. CASE UNCHANGED <<warm, fallen>> BY <2>1, <2>3
  <2> QED BY <2>2, <2>3 DEF Read, ReadBus
<1>3. snap' \in BOOLEAN /\ newRamp' \in BOOLEAN
  BY DEF Read, ModeInv, TypeOK, IntentsTypeOK
<1> QED
  BY <1>1, <1>2, <1>3
  DEF Read, ModeInv, TypeOK, IntentsTypeOK, PublishedIsLoaded, intentVars,
      ending, output, Pcs

\* A torque write that is cut short leaves the joints off, on or some of each.
LEMMA CutShortType ==
  ASSUME torque \in Torques, NEW to \in {"off", "on"}
  PROVE  CutShort(to) \subseteq Torques
BY DEF CutShort, Torques

LEMMA TakePowerKeeps == ModeInv /\ TakePower => ModeInv'
<1> SUFFICES ASSUME ModeInv, TakePower PROVE ModeInv' OBVIOUS
<1>1. /\ {newRamp', seatedBoot', wasDriving'} \subseteq BOOLEAN
      /\ torque' \in Torques
      /\ bringup' \in {"limp", "homing", "ready"}
      /\ ctl' = ctl \/ (ctl # None /\ SameMode(ctl, ctl'))
  <2>1. CASE StateKept /\ torque' \in Torques
    BY <2>1 DEF StateKept, ModeInv, TypeOK
  <2>2. CASE StandUp /\ UNCHANGED wasDriving
    BY <2>2, StandUpKeeps DEF ModeInv, TypeOK, Torques
  <2>3. CASE RampHome /\ UNCHANGED <<torque, seatedBoot, ctl, wasDriving>>
    BY <2>3 DEF RampHome, ModeInv, TypeOK
  <2>4. CutShort("off") \subseteq Torques /\ CutShort("on") \subseteq Torques
    BY CutShortType DEF ModeInv, TypeOK
  <2>5. CASE NoPower BY <2>1, <2>5 DEF NoPower, ModeInv, TypeOK
  <2>6. CASE TakeRelax
    BY <2>1, <2>4, <2>6 DEF TakeRelax, ModeInv, TypeOK, Torques
  <2>7. CASE TakeInit BY <2>1, <2>2, <2>3, <2>4, <2>5, <2>7 DEF TakeInit
  <2> QED BY <2>5, <2>6, <2>7 DEF TakePower
<1> QED
  BY <1>1
  DEF TakePower, ModeInv, TypeOK, IntentsTypeOK, PublishedIsLoaded, SameMode,
      sensing, ending, Pcs

LEMMA TakeSkillsKeeps == ModeInv /\ TakeSkills => ModeInv'
<1> SUFFICES ASSUME ModeInv, TakeSkills PROVE ModeInv' OBVIOUS
<1>1. ctl' = ctl \/ (ctl # None /\ SameMode(ctl, ctl'))
  BY AskedKeepsMode DEF TakeSkills, ModeInv, TypeOK
<1> QED
  BY <1>1
  DEF TakeSkills, ModeInv, TypeOK, IntentsTypeOK, PublishedIsLoaded, SameMode,
      sensing, power_, ending, output, Pcs

LEMMA TakeModeKeeps == ModeInv /\ TakeMode => ModeInv'
<1> SUFFICES ASSUME ModeInv, TakeMode PROVE ModeInv' OBVIOUS
<1>1. /\ switching' \in Modes \union {None}
      /\ bringup' \in {"limp", "homing", "ready"}
      /\ newRamp' \in BOOLEAN
  BY DEF TakeMode, RampHome, ModeInv, TypeOK
<1> QED
  BY <1>1
  DEF TakeMode, ModeInv, TypeOK, IntentsTypeOK, PublishedIsLoaded, sensing,
      ending, output, Pcs

LEMMA TakeEndKeeps == ModeInv /\ TakeEnd => ModeInv'
<1> SUFFICES ASSUME ModeInv, TakeEnd PROVE ModeInv' OBVIOUS
<1>1. PowerOff => /\ torque' \in Torques /\ enabled' \in BOOLEAN
                  /\ off' \in BOOLEAN
  BY CutShortType DEF PowerOff, ModeInv, TypeOK, Torques
<1>2. /\ {enabled', off', sitDown', shutdown'} \subseteq BOOLEAN
      /\ torque' \in Torques
      /\ bringup' \in {"limp", "homing", "ready"}
      /\ ctl' = ctl \/ (ctl # None /\ SameMode(ctl, ctl'))
  <2>1. CASE TakeShutdown
    <3>1. CASE UNCHANGED <<enabled, torque, bringup, ctl, ending>>
      BY <2>1, <3>1 DEF TakeShutdown, ending, ModeInv, TypeOK, IntentsTypeOK
    <3>2. CASE CanSit /\ BeginSit
      BY <2>1, <3>2, OperatorsKeepMode, {} \in SUBSET (Moves \union {"rise"}),
         TRUE \in BOOLEAN
      DEF TakeShutdown, CanSit, HasSitStand, BeginSit, ModeInv, TypeOK,
          IntentsTypeOK
    <3>3. CASE EndAtOnce
      BY <1>1, <2>1, <3>3 DEF TakeShutdown, EndAtOnce, ModeInv, TypeOK
    <3> QED BY <2>1, <3>1, <3>2, <3>3 DEF TakeShutdown
  <2>2. CASE SitEnds /\ UNCHANGED <<shutdown, ctl, sitDown>>
    BY <1>1, <2>2 DEF SitEnds, ModeInv, TypeOK, IntentsTypeOK
  <2>3. CASE UNCHANGED <<shutdown, enabled, torque, bringup, ctl, ending>>
    BY <2>3 DEF ending, ModeInv, TypeOK, IntentsTypeOK
  <2> QED BY <2>1, <2>2, <2>3 DEF TakeEnd
<1> QED
  BY <1>2
  DEF TakeEnd, ModeInv, TypeOK, IntentsTypeOK, PublishedIsLoaded, SameMode,
      sensing, output, Pcs

LEMMA FallKeeps == ModeInv /\ Fall => ModeInv'
<1> SUFFICES ASSUME ModeInv, Fall PROVE ModeInv' OBVIOUS
<1>1. limpFall' \in {"idle", "limp", "posing"} BY DEF Fall, ModeInv, TypeOK
<1> QED
  BY <1>1
  DEF Fall, ModeInv, TypeOK, IntentsTypeOK, PublishedIsLoaded, intentVars,
      sensing, power_, ending, output, Pcs

LEMMA BringUpKeeps == ModeInv /\ BringUp => ModeInv'
<1> SUFFICES ASSUME ModeInv, BringUp PROVE ModeInv' OBVIOUS
<1>1. /\ {newRamp', seatedBoot'} \subseteq BOOLEAN
      /\ torque' \in Torques
      /\ bringup' \in {"limp", "homing", "ready"}
      /\ ctl' = ctl \/ (ctl # None /\ SameMode(ctl, ctl'))
  <2>1. CASE StandUp BY <2>1, StandUpKeeps DEF Torques
  <2>2. CASE UNCHANGED <<power_, ctl>> BY <2>2 DEF power_, ModeInv, TypeOK
  <2>3. CASE /\ torque' \in CutShort("on")
             /\ UNCHANGED <<bringup, newRamp, seatedBoot, ctl>>
    BY <2>3, CutShortType DEF ModeInv, TypeOK
  <2> QED BY <2>1, <2>2, <2>3 DEF BringUp
<1> QED
  BY <1>1
  DEF BringUp, ModeInv, TypeOK, IntentsTypeOK, PublishedIsLoaded, SameMode,
      intentVars, sensing, ending, output, Pcs

LEMMA HomeKeeps == ModeInv /\ Home => ModeInv'
<1> SUFFICES ASSUME ModeInv, Home PROVE ModeInv' OBVIOUS
<1>1. /\ bringup' \in {"limp", "homing", "ready"}
      /\ switching' \in Modes \union {None}
      /\ mode' \in Modes
      /\ ctl' \in Controllers \union {None}
      /\ ctl' # None => ctl'.mode = mode'
  <2>1. CASE AtHome /\ switching = None
    BY <2>1 DEF AtHome, ModeInv, TypeOK, IntentsTypeOK, PublishedIsLoaded
  <2>2. CASE AtHome /\ switching # None
    BY <2>2, BuiltOfMode DEF AtHome, ModeInv, TypeOK
  <2>3. CASE UNCHANGED <<bringup, switching, mode, ctl>>
    BY <2>3 DEF ModeInv, TypeOK, IntentsTypeOK, PublishedIsLoaded
  <2> QED BY <2>1, <2>2, <2>3 DEF Home
<1> QED
  BY <1>1
  DEF Home, ModeInv, TypeOK, IntentsTypeOK, PublishedIsLoaded, intentVars,
      sensing, ending, output, Pcs

LEMMA DriveKeeps == ModeInv /\ Drive => ModeInv'
<1> SUFFICES ASSUME ModeInv, Drive PROVE ModeInv' OBVIOUS
<1>1. /\ wasDriving' \in BOOLEAN
      /\ moving' \in BOOLEAN
      /\ owner' \in Owners
      /\ ctl' = ctl \/ (ctl # None /\ SameMode(ctl, ctl'))
  <2>1. wasDriving' \in BOOLEAN BY DEF Drive, Driving
  <2>2. CASE Driving
    <3>1. ctl # None /\ ctl \in Controllers BY <2>2 DEF Driving, ModeInv, TypeOK
    <3>2. PICK over \in SUBSET (ctl.moves \union {"rise"}) :
            \/ \E released, walking \in BOOLEAN :
                  /\ ctl' = Stepped(ctl, over, released)
                  /\ owner' = "policy"
                  /\ moving' = (Busy(ctl') \/ walking)
            \/ /\ ctl' = Expired(ctl, over)
               /\ owner' = "held"
               /\ moving' = FALSE
      BY <2>2 DEF Drive, StepPolicy
    <3>3. over \in SUBSET (Moves \union {"rise"})
      BY <3>1, <3>2 DEF Controllers
    <3>4. SameMode(ctl, ctl')
      <4>1. ASSUME NEW released \in BOOLEAN, ctl' = Stepped(ctl, over, released)
            PROVE  SameMode(ctl, ctl')
        BY <3>1, <3>3, <4>1, OperatorsKeepMode
      <4>2. CASE ctl' = Expired(ctl, over)
        BY <3>1, <3>3, <4>2, OperatorsKeepMode, TRUE \in BOOLEAN
      <4> QED BY <3>2, <4>1, <4>2
    <3>5. owner' \in Owners BY <3>2 DEF Owners
    <3>6. moving' \in BOOLEAN
      <4>1. ASSUME NEW walking \in BOOLEAN, moving' = (Busy(ctl') \/ walking)
            PROVE  moving' \in BOOLEAN
        BY <4>1, Zenon
      <4> QED BY <3>2, <4>1
    <3> QED BY <2>1, <3>1, <3>4, <3>5, <3>6
  <2>3. CASE ~Driving
    BY <2>1, <2>3 DEF Drive, Travels, Owners
  <2> QED BY <2>2, <2>3
<1> QED
  BY <1>1
  DEF Drive, ModeInv, TypeOK, IntentsTypeOK, PublishedIsLoaded, SameMode,
      intentVars, sensing, power_, ending, Pcs

LEMMA StopKeeps == ModeInv /\ Stop => ModeInv'
<1> SUFFICES ASSUME ModeInv, Stop PROVE ModeInv' OBVIOUS
<1>1. mode' \in Modes BY LoopAssumption DEF Stop
<1>2. /\ ctl' \in Controllers \union {None}
      /\ ctl' # None => ctl'.mode = mode'
  BY LoopAssumption, BuiltOfMode DEF Stop
<1>3. coast' \in 0 .. CoastTicks BY LoopAssumption DEF Stop
<1>4. IntentsTypeOK' BY <1>1 DEF Stop, IntentsTypeOK, Halves
<1> QED
  BY <1>2, <1>3, <1>4
  DEF Stop, ModeInv, TypeOK, PublishedIsLoaded, Pcs, Owners

LEMMA StartKeeps == ModeInv /\ Start => ModeInv'
<1> SUFFICES ASSUME ModeInv, Start PROVE ModeInv' OBVIOUS
<1>1. seatedBoot' \in BOOLEAN
  <2>1. FoundSitting \subseteq BOOLEAN BY LoopAssumption
  <2>2. seatedBoot' \in FoundSitting BY Zenon DEF Start
  <2> QED BY <2>1, <2>2
<1> QED
  BY <1>1
  DEF Start, ModeInv, TypeOK, IntentsTypeOK, PublishedIsLoaded, intentVars,
      sensing, ending, output, Pcs

\* The whole step relation, clients and restarts included.
LEMMA ModeInvStep == ModeInv /\ [Next]_vars => ModeInv'
<1> SUFFICES ASSUME ModeInv, [Next]_vars PROVE ModeInv' OBVIOUS
<1>1. CASE Tick
  BY <1>1, ReadKeeps, TakePowerKeeps, TakeSkillsKeeps, TakeModeKeeps,
     TakeEndKeeps, FallKeeps, BringUpKeeps, HomeKeeps, DriveKeeps
  DEF Tick
<1>2. CASE Call
  <2>1. IntentsTypeOK' BY <1>2, ClientKeepsType DEF Call, ModeInv, TypeOK
  <2> QED
    BY <1>2, <2>1
    DEF Call, loopVars, sensing, power_, ending, output, ModeInv, TypeOK,
        PublishedIsLoaded
<1>3. CASE Stop BY <1>3, StopKeeps
<1>4. CASE Start BY <1>4, StartKeeps
<1>5. CASE UNCHANGED vars
  BY <1>5
  DEF vars, loopVars, ModeInv, TypeOK, IntentsTypeOK, PublishedIsLoaded,
      intentVars, sensing, power_, ending, output
<1> QED BY <1>1, <1>2, <1>3, <1>4, <1>5 DEF Next

LEMMA ModeInvHolds == Spec => []ModeInv
BY ModeInvInit, ModeInvStep, PTL DEF Spec

\* Every variable of the loop and every intent keeps its type.
THEOREM LoopTypeCorrect == Spec => []TypeOK
<1>1. ModeInv => TypeOK BY DEF ModeInv
<1> QED BY <1>1, ModeInvHolds, PTL

\* The networks in charge are those of the mode robotd publishes, through every
\* switch, whether its networks load or not, and every restart.
THEOREM LoadedAsPublished == Spec => []PublishedIsLoaded
<1>1. ModeInv => PublishedIsLoaded BY DEF ModeInv
<1> QED BY <1>1, ModeInvHolds, PTL

-----------------------------------------------------------------------------
(* Torque.                                                                 *)

\* A write that is cut short on the way down powers no joint.
LEMMA CutShortOff ==
  ASSUME torque \in Torques, torque' \in {"off"} \union CutShort("off")
  PROVE  ~Rises(torque, torque')
BY DEF CutShort, Torques, Rises

\* A step powers joints only in one of the two places that stand the robot up.
LEMMA TorqueComesOn ==
  ASSUME ModeInv, Next, Rises(torque, torque')
  PROVE  \/ pc = "power" /\ pc' = "skills" /\ power = "init"
         \/ pc = "bringup" /\ pc' = "home" /\ snap
<1>0. torque' # torque BY DEF Rises
<1>1. CASE Read BY <1>0, <1>1 DEF Read
<1>2. CASE TakePower
  <2>1. ~TakeRelax
    BY CutShortOff DEF TakeRelax, ModeInv, TypeOK
  <2>2. ~NoPower BY <1>0 DEF NoPower
  <2> QED BY <1>2, <2>1, <2>2 DEF TakePower, TakeInit
<1>3. CASE TakeSkills BY <1>0, <1>3 DEF TakeSkills, power_
<1>4. CASE TakeMode BY <1>0, <1>4 DEF TakeMode
<1>5. CASE TakeEnd
  <2>1. ~PowerOff BY CutShortOff DEF PowerOff, ModeInv, TypeOK
  <2> QED
    BY <1>0, <1>5, <2>1 DEF TakeEnd, TakeShutdown, SitEnds, BeginSit, EndAtOnce
<1>6. CASE Fall BY <1>0, <1>6 DEF Fall, power_
<1>7. CASE BringUp BY <1>0, <1>7 DEF BringUp, power_
<1>8. CASE Home BY <1>0, <1>8 DEF Home
<1>9. CASE Drive BY <1>0, <1>9 DEF Drive, power_
<1>10. CASE Call BY <1>0, <1>10 DEF Call, loopVars, power_
<1>11. CASE Stop BY <1>0, <1>11 DEF Stop
<1>12. CASE Start BY <1>0, <1>12 DEF Start
<1> QED
  BY <1>1, <1>2, <1>3, <1>4, <1>5, <1>6, <1>7, <1>8, <1>9, <1>10, <1>11, <1>12
  DEF Next, Tick

\* Whatever could turn the torque on was asked for: the flag, the snapshot of it
\* the tick goes by, and a pending init.
AskedInv ==
    /\ enabled => wanted
    /\ power = "init" => wanted
    /\ pc \notin {"read", "down"} /\ snap => wanted

\* A call that turns the flag on, or leaves an init pending, is a wish.
LEMMA CallsAreWishes ==
  ASSUME IntentsTypeOK, Client
  PROVE  (enabled' /\ ~enabled) \/ (power' = "init" /\ power # "init") => Wants
<1> USE DEF IntentsTypeOK, Halves
<1>1. ASSUME NEW on \in BOOLEAN, SetEnabled(on)
      PROVE  (enabled' /\ ~enabled) \/ (power' = "init" /\ power # "init") => Wants
  <2>1. CASE on = TRUE BY <1>1, <2>1 DEF Wants
  <2>2. CASE on = FALSE BY <1>1, <2>2 DEF SetEnabled
  <2> QED BY <2>1, <2>2
<1>2. CASE Toggle BY <1>2 DEF Toggle
<1>3. ASSUME NEW half \in halfway, ToggleStores(half)
      PROVE  (enabled' /\ ~enabled) \/ (power' = "init" /\ power # "init") => Wants
  <2>1. CASE half = "turningOn" BY <1>3, <2>1 DEF Wants
  <2>2. CASE half # "turningOn" BY <1>3, <2>2 DEF ToggleStores
  <2> QED BY <2>1, <2>2
<1>4. CASE RequestInit BY <1>4 DEF Wants
<1>5. CASE Relax BY <1>5 DEF Relax
<1>6. CASE RelaxAsks BY <1>6 DEF RelaxAsks
<1>7. ASSUME NEW skill \in Skills, NEW notified \in BOOLEAN,
             RequestSkill(skill, notified)
      PROVE  UNCHANGED <<enabled, power>>
  BY <1>7 DEF RequestSkill
<1>8. ASSUME NEW m \in Modes, RequestMode(m) PROVE UNCHANGED <<enabled, power>>
  BY <1>8 DEF RequestMode
<1>9. CASE RequestShutdown BY <1>9 DEF RequestShutdown
<1> QED
  BY <1>1, <1>2, <1>3, <1>4, <1>5, <1>6, <1>7, <1>8, <1>9 DEF Client

\* The tick turns neither on, and takes the snapshot from the flag.
LEMMA TickAsksNothing ==
  ASSUME Tick
  PROVE  /\ pc # "down" /\ pc' # pc /\ pc' # "down"
         /\ enabled' => enabled
         /\ power' = "init" => power = "init"
         /\ pc' # "read" /\ snap' => (pc = "read" /\ enabled)
                                       \/ (pc \notin {"read", "down"} /\ snap)
<1>1. CASE Read BY <1>1 DEF Read, intentVars
<1>2. CASE TakePower BY <1>2 DEF TakePower
<1>3. CASE TakeSkills BY <1>3 DEF TakeSkills
<1>4. CASE TakeMode BY <1>4 DEF TakeMode
<1>5. CASE TakeEnd
  <2>1. pc = "shutdown" /\ pc' = "fall" /\ snap' = snap /\ power' = power
    BY <1>5 DEF TakeEnd
  <2>2. enabled' = enabled \/ enabled' = FALSE
    <3>1. PowerOff => enabled' = FALSE BY DEF PowerOff
    <3> QED
      BY <1>5, <3>1 DEF TakeEnd, TakeShutdown, SitEnds, BeginSit, EndAtOnce
  <2>3. enabled' => enabled BY <2>2, Zenon
  <2> QED BY <2>1, <2>3
<1>6. CASE Fall BY <1>6 DEF Fall, intentVars
<1>7. CASE BringUp BY <1>7 DEF BringUp, intentVars
<1>8. CASE Home BY <1>8 DEF Home, intentVars
<1>9. CASE Drive BY <1>9 DEF Drive, intentVars
<1> QED
  BY <1>1, <1>2, <1>3, <1>4, <1>5, <1>6, <1>7, <1>8, <1>9 DEF Tick

LEMMA AskedInvStep ==
  ModeInv /\ AskedInv /\ [LoopSafetyNext]_allVars => AskedInv'
<1> SUFFICES ASSUME ModeInv, AskedInv, [LoopSafetyNext]_allVars
             PROVE  AskedInv'
  OBVIOUS
<1>1. CASE LoopSafetyNext /\ Call
  <2>1. pc' = pc /\ snap' = snap /\ pc # "down" /\ Client
    BY <1>1 DEF Call, loopVars
  <2>2. ~LetGo BY <2>1 DEF LetGo
  <2>3. CASE Wants
    <3>1. wanted' = TRUE BY <1>1, <2>1, <2>2, <2>3 DEF LoopSafetyNext
    <3> QED BY <3>1 DEF AskedInv
  <2>4. CASE ~Wants
    <3>1. wanted' = wanted BY <1>1, <2>1, <2>2, <2>4 DEF LoopSafetyNext
    <3>2. (enabled' => enabled) /\ (power' = "init" => power = "init")
      BY <2>1, <2>4, CallsAreWishes DEF ModeInv, TypeOK
    <3> QED BY <2>1, <3>1, <3>2 DEF AskedInv
  <2> QED BY <2>3, <2>4
<1>2. CASE LoopSafetyNext /\ Tick
  <2>1. ~Call BY <1>2, TickAsksNothing DEF Call, loopVars
  <2>2. CASE LetGo
    <3>1. pc = "power" /\ pc' = "skills" /\ ~enabled /\ ~snap /\ power = "relax"
      BY <2>2 DEF LetGo, TakeRelax
    <3>2. ~enabled' /\ power' # "init" /\ ~snap'
      BY <1>2, <3>1, TickAsksNothing
    <3> QED BY <3>2 DEF AskedInv
  <2>3. CASE ~LetGo
    <3>1. wanted' = wanted
      BY <1>2, <2>1, <2>3, TickAsksNothing DEF LoopSafetyNext
    <3> QED BY <1>2, <3>1, TickAsksNothing DEF AskedInv
  <2> QED BY <2>2, <2>3
<1>3. CASE LoopSafetyNext /\ Stop
  <2>1. ~enabled' /\ power' = "none" /\ pc' = "down" BY <1>3 DEF Stop
  <2> QED BY <2>1 DEF AskedInv
<1>4. CASE LoopSafetyNext /\ Start
  <2>1. pc = "down" /\ pc' = "read" /\ ~Call /\ ~LetGo
    BY <1>4 DEF Start, LetGo, Call
  <2>2. wanted' = wanted BY <1>4, <2>1 DEF LoopSafetyNext
  <2> QED BY <1>4, <2>1, <2>2 DEF Start, intentVars, AskedInv
<1>5. CASE UNCHANGED allVars
  BY <1>5 DEF allVars, histories, vars, loopVars, intentVars, AskedInv
<1> QED BY <1>1, <1>2, <1>3, <1>4, <1>5 DEF LoopSafetyNext, Next

\* Both invariants hold of the loop with its histories.
LEMMA AskedInvHolds == LoopSafetySpec => [](ModeInv /\ AskedInv)
<1>1. LoopSafetyInit => ModeInv /\ AskedInv
  BY ModeInvInit DEF LoopSafetyInit, Init, IntentsInit, AskedInv
<1>2. [LoopSafetyNext]_allVars => [Next]_vars
  BY DEF LoopSafetyNext, allVars
<1> QED
  BY <1>1, <1>2, AskedInvStep, ModeInvStep, PTL DEF LoopSafetySpec

\* No torque because a process started, and none for a wish that was taken
\* back: every step that powers a joint follows a client's wish that no relax has
\* answered since.
THEOREM TorqueIsWanted == LoopSafetySpec => TorqueOnlyWhenWanted
<1>1. ModeInv /\ AskedInv /\ [LoopSafetyNext]_allVars
        => [Rises(torque, torque') => wanted]_allVars
  <2> SUFFICES ASSUME ModeInv, AskedInv, LoopSafetyNext, Rises(torque, torque')
               PROVE  wanted
    OBVIOUS
  <2>1. Next BY DEF LoopSafetyNext
  <2> QED BY <2>1, TorqueComesOn DEF AskedInv
<1> QED
  BY <1>1, AskedInvHolds, PTL DEF LoopSafetySpec, TorqueOnlyWhenWanted

-----------------------------------------------------------------------------
(* Up means powered.                                                       *)

\* A step leaves the robot up with a joint unpowered only if it was so before, or
\* if it is a mode switch of a limp robot or a relax that fails midway.
LEMMA UnpoweredComesUp ==
  ASSUME ModeInv, Next, torque' # "on", bringup' # "limp", ~off'
  PROVE  LiftsLimp \/ RelaxFailsMidway
           \/ (torque # "on" /\ bringup # "limp" /\ ~off)
<1>1. CASE Read BY <1>1 DEF Read, ending
<1>2. CASE TakePower
  <2>1. off' = off /\ pc = "power" /\ pc' = "skills"
    BY <1>2 DEF TakePower, ending
  <2>2. CASE NoPower BY <2>1, <2>2 DEF NoPower, StateKept
  <2>3. ~StandUp BY DEF StandUp
  <2>4. CASE TakeInit
    BY <2>1, <2>2, <2>3, <2>4 DEF TakeInit, RampHome, StateKept
  <2>5. CASE TakeRelax
    BY <2>1, <2>5 DEF TakeRelax, StateKept, RelaxFailsMidway
  <2> QED BY <1>2, <2>2, <2>4, <2>5 DEF TakePower
<1>3. CASE TakeSkills BY <1>3 DEF TakeSkills, power_, ending
<1>4. CASE TakeMode
  <2>1. torque' = torque /\ off' = off /\ pc = "mode" /\ pc' = "shutdown"
    BY <1>4 DEF TakeMode, ending
  <2>2. bringup' = bringup \/ bringup' = "homing" BY <1>4 DEF TakeMode, RampHome
  <2> QED BY <2>1, <2>2 DEF LiftsLimp
<1>5. CASE TakeEnd
  <2>1. ~PowerOff BY DEF PowerOff
  <2> QED
    BY <1>5, <2>1
    DEF TakeEnd, TakeShutdown, SitEnds, BeginSit, EndAtOnce, ending
<1>6. CASE Fall BY <1>6 DEF Fall, power_, ending
<1>7. CASE BringUp
  <2>1. ~StandUp BY DEF StandUp
  <2> QED BY <1>7, <2>1 DEF BringUp, power_, ending
<1>8. CASE Home BY <1>8 DEF Home, AtHome, ending
<1>9. CASE Drive BY <1>9 DEF Drive, power_, ending
<1>10. CASE Call BY <1>10 DEF Call, loopVars, power_, ending
<1>11. CASE Stop BY <1>11 DEF Stop
<1>12. CASE Start BY <1>12 DEF Start, ending
<1> QED
  BY <1>1, <1>2, <1>3, <1>4, <1>5, <1>6, <1>7, <1>8, <1>9, <1>10, <1>11, <1>12
  DEF Next, Tick

\* A robot that is ramping or ready has every joint powered, unless it is on its
\* way down, a mode switch lifted it limp, or a relax failed after it had cut
\* some of the joints: the two ways around it that the code has are the only two.
THEOREM UpIsPowered == LoopSafetySpec => []PoweredWhenUp
<1>1. LoopSafetyInit => PoweredWhenUp
  BY DEF LoopSafetyInit, Init, PoweredWhenUp
<1>2. ModeInv /\ PoweredWhenUp /\ [LoopSafetyNext]_allVars => PoweredWhenUp'
  <2> SUFFICES ASSUME ModeInv, PoweredWhenUp, [LoopSafetyNext]_allVars,
                      bringup' # "limp", ~off', torque' # "on"
               PROVE  unlifted' \/ halfCut'
    BY DEF PoweredWhenUp
  <2>1. CASE LoopSafetyNext
    <3>1. /\ Next
          /\ unlifted' = (unlifted \/ LiftsLimp)
          /\ halfCut' = (halfCut \/ RelaxFailsMidway)
      BY <2>1, Zenon DEF LoopSafetyNext
    <3>2. LiftsLimp \/ RelaxFailsMidway \/ unlifted \/ halfCut
      BY <3>1, UnpoweredComesUp DEF PoweredWhenUp
    <3> QED BY <3>1, <3>2, Zenon
  <2>2. CASE UNCHANGED allVars
    BY <2>2
    DEF allVars, histories, vars, loopVars, power_, ending, PoweredWhenUp
  <2> QED BY <2>1, <2>2
<1> QED BY <1>1, <1>2, AskedInvHolds, PTL DEF LoopSafetySpec

-----------------------------------------------------------------------------
(* The answer to the updater.                                              *)

\* What is published at the end of a tick holds until the next begins.
TravelInv ==
    pc \in {"read", "down"} /\ ~moving => bringup # "homing" /\ limpFall = "idle"

LEMMA TravelInvStep == ModeInv /\ TravelInv /\ [Next]_vars => TravelInv'
<1> SUFFICES ASSUME ModeInv, TravelInv, [Next]_vars,
                    pc' \in {"read", "down"}, ~moving'
             PROVE  bringup' # "homing" /\ limpFall' = "idle"
  BY DEF TravelInv
<1>1. CASE Drive
  <2>1. CASE Driving BY <1>1, <2>1 DEF Drive, Driving, power_
  <2>2. CASE ~Driving
    <3>1. owner' = "held" BY <1>1, <2>2 DEF Drive, Travels
    <3>2. CASE limpFall = "idle"
      BY <1>1, <2>2, <3>1, <3>2 DEF Drive, power_
    <3>3. CASE limpFall # "idle"
      BY <1>1, <2>2, <3>1, <3>3 DEF Drive, ModeInv, TypeOK
    <3> QED BY <3>2, <3>3
  <2> QED BY <2>1, <2>2
<1>2. CASE Start BY <1>2 DEF Start, output, TravelInv
<1>12. CASE Stop BY <1>12 DEF Stop
<1>3. CASE Call \/ UNCHANGED vars
  BY <1>3 DEF Call, vars, loopVars, power_, output, TravelInv
<1>4. Read => pc' = "power" BY DEF Read
<1>5. TakePower => pc' = "skills" BY DEF TakePower
<1>6. TakeSkills => pc' = "mode" BY DEF TakeSkills
<1>7. TakeMode => pc' = "shutdown" BY DEF TakeMode
<1>8. TakeEnd => pc' = "fall" BY DEF TakeEnd
<1>9. Fall => pc' = "bringup" BY DEF Fall
<1>10. BringUp => pc' = "home" BY DEF BringUp
<1>11. Home => pc' = "drive" BY DEF Home
<1> QED
  BY <1>1, <1>2, <1>3, <1>4, <1>5, <1>6, <1>7, <1>8, <1>9, <1>10, <1>11, <1>12
  DEF Next, Tick

\* Between ticks robotd never tells updaterd that it may be restarted while it
\* ramps home or catches a fall, unless the robot is down already.
THEOREM RestartIsSafe == Spec => []RestartSparesTravel
<1>1. Init => TravelInv BY DEF Init, TravelInv
<1>2. TravelInv => RestartSparesTravel
  BY DEF TravelInv, RestartSparesTravel, SafeToRestart
<1> QED BY <1>1, <1>2, TravelInvStep, ModeInvHolds, PTL DEF Spec
=============================================================================
