----------------------------- MODULE RescueProofs -----------------------------
(***************************************************************************)
(* Theorems about the board: types across updaterd and the rescue scripts, *)
(* that the boot check reboots a board once on its own, and that what a    *)
(* rescue chose stands.  They hold for any components, releases and ways   *)
(* to run the scripts, with power lost at every step of them.              *)
(***************************************************************************)
EXTENDS BootRecovery, UpdateEngineProofs

-----------------------------------------------------------------------------
(* What has to hold for the properties to be inductive.                    *)

\* The types, with what a running rescue aims at.
BoardInv ==
    /\ TypeInv
    /\ rescue \in Rescues
    /\ checked \in BOOLEAN
    /\ stands \in BOOLEAN
    /\ rescue.at # "off" => rescue.to = goldenLink[Rescued] /\ rescue.to # None

\* A boot check acts on a board without a breadcrumb, and its reboot leaves one.
GuardInv ==
    /\ attempts \in {0, 1}
    /\ attempts # 0 => crumb.there
    /\ rescue.at # "off" => attempts = 0
    /\ rescue.at \in {"swap", "sync", "reboot"} =>
         crumb = Crumb(Rescued, rescue.to)

\* Startup recovery uses the last steps of a request, clients all of them.
KindNamed ==
    /\ pc \in RequestPcs => req.kind # "idle"
    /\ req.kind = "boot" => pc \in {"revert", "disarm", "failed"}

LinksNamed == \A c \in Components : goldenLink[c] \in {None, Golden[c]}

\* The rescued component is on golden, recovery has nothing to do for it, and
\* the trial the rescue superseded is cleared before the breadcrumb is.
Standing ==
    /\ rescue.at = "off"
    /\ current[Rescued] = goldenLink[Rescued]
    /\ goldenLink[Rescued] # None
    /\ req.kind \in {"idle", "boot"}
    /\ req.kind = "boot" => req.comp # Rescued
    /\ Rescued \notin todo
    /\ \/ pending[Rescued] = NoTrial
       \/ /\ crumb.there
          /\ crumb.comp = Rescued
          /\ pc \in {"down", "rescue", "rescueClear"}

StandInv == KindNamed /\ LinksNamed /\ (stands => Standing)

-----------------------------------------------------------------------------
(* Types.                                                                  *)

\* What the board does beside updaterd: the steps of the scripts, and power.
BoardStep ==
    \/ RescueStep \/ BootCheckStep \/ PowerLoss
    \/ \E by \in HandRuns : RescueByHand(by)

LEMMA CrumbTypes ==
    ASSUME BoardInv
    PROVE  /\ Crumb(Rescued, rescue.to) \in Crumbs
           /\ TornCrumbs \union {NoCrumb} \subseteq Crumbs
           /\ rescue.to \in VersionOrNone /\ rescue.from \in VersionOrNone
<1>1. /\ rescue.to \in VersionOrNone /\ rescue.from \in VersionOrNone
      /\ crumb \in Crumbs
      /\ Rescued \in Components
  BY RescueAssumption DEF BoardInv, Rescues, TypeInv, TypeOK, JournalTypeOK
<1> QED
  BY <1>1 DEF TornCrumbs, Crumb, NoCrumb, Crumbs, VersionOrNone

\* The scripts and power change the breadcrumb, the link and, when the board goes
\* down, where updaterd is.
LEMMA BoardStepFrame ==
    ASSUME BoardInv, BoardStep
    PROVE  /\ UNCHANGED <<dirs, goldenLink, log, pending, pins>>
           /\ crumb' \in Crumbs
           /\ current' \in [Components -> VersionOrNone]
           /\ \/ UNCHANGED procVars
              \/ pc' = "down" /\ req' = NoReq /\ doomed' = {} /\ todo' = {}
<1>1. /\ crumb \in Crumbs
      /\ current \in [Components -> VersionOrNone]
  BY DEF BoardInv, TypeInv, TypeOK, StoreTypeOK, JournalTypeOK
<1>2. CASE WriteCrumb \/ RescueSwap
  BY <1>1, <1>2, CrumbTypes DEF WriteCrumb, RescueSwap, storeVars, journalVars, procVars
<1>3. CASE RescueSync \/ RescueReboots \/ RescueLeavesRunning \/ BootCheckStep
           \/ \E by \in HandRuns : RescueByHand(by)
  BY <1>1, <1>3
    DEF RescueSync, RescueReboots, RescueLeavesRunning, BootCheckStep,
        BootCheckFails, BootCheckPasses, RescueByHand, vars, storeVars, journalVars,
        procVars
<1>4. CASE PowerLoss
  BY <1>1, <1>4, CrumbTypes DEF PowerLoss
<1>5. CASE RescueFails
  BY <1>1, <1>5, CrumbTypes DEF RescueFails, storeVars
<1> QED
  BY <1>2, <1>3, <1>4, <1>5 DEF BoardStep, RescueStep

\* So the engine's types hold across the scripts.
LEMMA BoardKeepsTypes ==
    ASSUME BoardInv, BoardStep
    PROVE  TypeInv'
<1>1. /\ TypeInv
      /\ UNCHANGED <<dirs, goldenLink, log, pending, pins>>
      /\ crumb' \in Crumbs
      /\ current' \in [Components -> VersionOrNone]
      /\ \/ UNCHANGED procVars
         \/ pc' = "down" /\ req' = NoReq /\ doomed' = {} /\ todo' = {}
  BY BoardStepFrame DEF BoardInv
<1>2. StoreTypeOK' /\ JournalTypeOK'
  BY <1>1 DEF TypeInv, TypeOK, StoreTypeOK, JournalTypeOK
<1>3. NoReq \in Reqs
  BY DEF NoReq, Reqs, Kinds, VersionOrNone
<1>4. EngineTypeOK' /\ RequestNamed' /\ NothingAsked'
  BY <1>1, <1>3
    DEF procVars, TypeInv, TypeOK, EngineTypeOK, RequestNamed, NothingAsked, Pcs,
        RequestPcs
<1> QED
  BY <1>2, <1>4 DEF TypeInv, TypeOK

\* A rescue that starts aims at what the golden link names.
LEMMA RescueAims ==
    ASSUME BoardInv, NEW by \in {"timer", "plain", "force"}, RescueBegins(by)
    PROVE  /\ rescue' \in Rescues
           /\ rescue'.at = "crumb"
           /\ rescue'.by = by
           /\ rescue'.to = goldenLink[Rescued] /\ rescue'.to # None
<1>1. /\ goldenLink[Rescued] \in VersionOrNone /\ current[Rescued] \in VersionOrNone
      /\ goldenLink[Rescued] # None
  BY RescueAssumption DEF BoardInv, TypeInv, TypeOK, StoreTypeOK, RescueBegins, WouldSwap
<1> QED
  BY <1>1 DEF RescueBegins, Rescues

\* What a step of the board does to the rescue.
LEMMA RescueAfter ==
    ASSUME BoardInv, BoardStep
    PROVE  \/ rescue' = NoRescue \/ UNCHANGED rescue
           \/ rescue.at # "off" /\ \E w \in {"swap", "sync", "reboot"} :
                rescue' = [rescue EXCEPT !.at = w]
           \/ \E by \in {"timer", "plain", "force"} : RescueBegins(by)
BY RescueAssumption
  DEF BoardStep, RescueStep, BootCheckStep, WriteCrumb, RescueSwap, RescueFails,
      RescueSync, RescueReboots, RescueLeavesRunning, BootCheckFails, BootCheckPasses,
      RescueByHand, PowerLoss

LEMMA BoardKeepsInv ==
    ASSUME BoardInv, [BoardNext]_boardVars
    PROVE  BoardInv'
<1>1. /\ rescue \in Rescues
      /\ checked \in BOOLEAN
      /\ stands \in BOOLEAN
      /\ rescue.at # "off" => rescue.to = goldenLink[Rescued] /\ rescue.to # None
      /\ TypeInv
  BY DEF BoardInv
<1>2. CASE EngineStep
  <2>1. TypeInv'
    BY <1>1, <1>2, NextKeepsTypes DEF EngineStep, Next
  <2>2. rescue' = rescue /\ checked' \in BOOLEAN /\ stands' \in BOOLEAN
    BY <1>1, <1>2 DEF EngineStep
  <2>3. rescue.at # "off" => UNCHANGED goldenLink
    BY <1>2
      DEF EngineStep, MoveStep, StageEnds, Stage, ClearRelease, PublishRelease,
          PublishFails, Arm, ArmFails, Swap, SwapFails, Act, ActFails, GatePasses,
          GateFails, Commit, CommitFails, PruneOne, PruneFails, RecordApplied,
          StuckLive, SwapBack, SwapBackFails, Disarm, DisarmFails, RecordRolledBack,
          storeVars
  <2> QED
    BY <1>1, <2>1, <2>2, <2>3 DEF BoardInv
<1>3. CASE BoardStep
  <2>1. TypeInv' /\ UNCHANGED goldenLink
    BY <1>3, BoardKeepsTypes, BoardStepFrame
  <2>2. checked' \in BOOLEAN /\ stands' \in BOOLEAN
    BY <1>1, <1>3
      DEF BoardStep, RescueStep, BootCheckStep, WriteCrumb, RescueSwap, RescueFails,
          RescueSync, RescueReboots, RescueLeavesRunning, BootCheckFails,
          BootCheckPasses, RescueByHand, PowerLoss
  <2>3. /\ rescue' \in Rescues
        /\ rescue'.at # "off" => rescue'.to = goldenLink[Rescued] /\ rescue'.to # None
    <3>1. CASE rescue' = NoRescue \/ UNCHANGED rescue
      BY <1>1, <3>1 DEF NoRescue, Rescues, VersionOrNone
    <3>2. ASSUME rescue.at # "off", NEW w \in {"swap", "sync", "reboot"},
                 rescue' = [rescue EXCEPT !.at = w]
          PROVE  /\ rescue' \in Rescues
                 /\ rescue'.to = goldenLink[Rescued] /\ rescue'.to # None
      BY <1>1, <3>2 DEF Rescues
    <3> QED
      BY <1>3, <3>1, <3>2, RescueAfter, RescueAims
  <2> QED
    BY <2>1, <2>2, <2>3 DEF BoardInv
<1>4. CASE UNCHANGED boardVars
  BY <1>1, <1>4
    DEF boardVars, vars, rescueVars, storeVars, journalVars, procVars, BoardInv, TypeInv,
        TypeOK, StoreTypeOK, JournalTypeOK, EngineTypeOK, RequestNamed, NothingAsked
<1> QED
  BY <1>2, <1>3, <1>4 DEF BoardNext, BoardStep

-----------------------------------------------------------------------------
(* The loop guard.                                                         *)

\* A running request leaves the breadcrumb and the golden link alone.
LEMMA MoveLeavesRescue ==
    ASSUME MoveStep
    PROVE  UNCHANGED <<goldenLink, crumb>>
BY DEF MoveStep, StageEnds, Stage, ClearRelease, PublishRelease,
       PublishFails, Arm, ArmFails, Swap, SwapFails, Act, ActFails, GatePasses,
       GateFails, Commit, CommitFails, PruneOne, PruneFails, RecordApplied,
       StuckLive, SwapBack, SwapBackFails, Disarm, DisarmFails, RecordRolledBack,
       storeVars, journalVars

LEMMA BoardKeepsGuard ==
    ASSUME BoardInv, GuardInv, [BoardNext]_boardVars
    PROVE  GuardInv'
<1> USE DEF GuardInv
<1>1. CASE EngineStep
  <2>1. rescue' = rescue /\ attempts' = IF crumb.there /\ ~crumb'.there THEN 0 ELSE attempts
    BY <1>1 DEF EngineStep
  <2>2. rescue.at # "off" => crumb' = crumb
    BY <1>1, MoveLeavesRescue DEF EngineStep
  <2> QED
    BY <2>1, <2>2
<1>2. CASE WriteCrumb
  BY <1>2 DEF WriteCrumb, Crumb, BoardInv, Rescues
<1>3. CASE RescueSwap
  BY <1>3 DEF RescueSwap, journalVars, BoardInv, Rescues
<1>4. CASE RescueFails \/ RescueLeavesRunning
  BY <1>4 DEF RescueFails, RescueLeavesRunning, NoRescue, vars, journalVars
<1>5. CASE RescueSync
  BY <1>5 DEF RescueSync, vars, journalVars, BoardInv, Rescues
<1>6. CASE RescueReboots
  BY <1>6 DEF RescueReboots, NoRescue, journalVars, Crumb
\* Only a board with no breadcrumb, which has not been rebooted since.
<1>7. CASE BootCheckStep
  BY <1>7, RescueAims
    DEF BootCheckStep, BootCheckFails, BootCheckPasses, RescueBegins, WouldSwap, vars,
        journalVars
<1>8. ASSUME NEW by \in HandRuns, RescueByHand(by)
      PROVE  GuardInv'
  BY <1>8, RescueAims, RescueAssumption
    DEF RescueByHand, RescueBegins, WouldSwap, vars, journalVars
<1>9. CASE PowerLoss
  BY <1>9 DEF PowerLoss, NoRescue
<1>10. CASE UNCHANGED boardVars
  BY <1>10 DEF boardVars, vars, journalVars, rescueVars
<1> QED
  BY <1>1, <1>2, <1>3, <1>4, <1>5, <1>6, <1>7, <1>8, <1>9, <1>10
    DEF BoardNext, RescueStep

-----------------------------------------------------------------------------
(* What a rescue chose stands.                                             *)

\* A step of a request is taken while it runs.
LEMMA MoveIsRunning == MoveStep => pc \in RequestPcs
BY DEF RequestPcs, MoveStep, StageEnds, Stage, ClearRelease, PublishRelease, PublishFails,
       Arm, ArmFails, Swap, SwapFails, Act, ActFails, GatePasses, GateFails, Commit,
       CommitFails, PruneOne, PruneFails, RecordApplied, StuckLive, SwapBack,
       SwapBackFails, Disarm, DisarmFails, RecordRolledBack

\* What a request is does not change while it runs.
LEMMA MoveKeepsKind ==
    ASSUME TypeInv, KindNamed, MoveStep
    PROVE  KindNamed'
<1>1. CASE req' = NoReq /\ pc' \notin RequestPcs
  BY <1>1 DEF KindNamed, NoReq
<1>2. CASE /\ req'.kind = req.kind
           /\ pc' \in {"revert", "disarm", "failed"} \/ req.kind # "boot"
  BY <1>2, MoveIsRunning DEF KindNamed
<1>3. CASE \/ StageEnds \/ PublishFails \/ ArmFails \/ SwapFails \/ ActFails \/ CommitFails
           \/ RecordApplied \/ StuckLive \/ SwapBackFails \/ DisarmFails
           \/ RecordRolledBack
  <2>1. Return \/ Fail
    BY <1>3
      DEF StageEnds, PublishFails, ArmFails, SwapFails, ActFails, CommitFails,
          RecordApplied, StuckLive, SwapBackFails, DisarmFails, RecordRolledBack
  <2> QED
    BY <1>1, <2>1 DEF Return, Fail, RequestPcs
<1>4. CASE \/ Stage \/ ClearRelease \/ PublishRelease \/ Arm \/ Swap \/ Act \/ GatePasses
           \/ GateFails \/ Commit \/ PruneOne \/ PruneFails
  <2>1. req'.kind = req.kind /\ pc \notin {"revert", "disarm", "failed"}
    BY <1>4
      DEF Stage, ClearRelease, PublishRelease, Arm, Swap, Act, GatePasses, GateFails,
          Commit, PruneOne, PruneFails, Goto, TypeInv, TypeOK, EngineTypeOK, Reqs
  <2> QED
    BY <1>2, <2>1 DEF KindNamed
<1>5. CASE SwapBack \/ Disarm
  BY <1>2, <1>5 DEF SwapBack, Disarm, Goto
<1> QED
  BY <1>3, <1>4, <1>5 DEF MoveStep

LEMMA NextKeepsKind ==
    ASSUME TypeInv, KindNamed, [Next]_vars
    PROVE  KindNamed'
<1>1. CASE MoveStep
  BY <1>1, MoveKeepsKind
<1>2. CASE ClientStep
  BY <1>2
    DEF ClientStep, ApplyRefused, ApplyAccepted, Select, Rollback, ResetToGolden,
        SetPin, Begin, procVars, KindNamed
<1>3. CASE StartupStep
  <2>1. \/ pc' = "revert" /\ req'.kind = "boot"
        \/ pc' \notin RequestPcs /\ req' \in {req, NoReq} /\ pc \notin RequestPcs
    BY <1>3
      DEF StartupStep, Start, RecordRescue, ClearRescuedTrial, RemoveCrumb,
          PublishGolden, CountBoot, CountBootFails, CommitTrial, CommitTrialFails,
          RevertTrial, Serve, Goto, Fail, RequestPcs
  <2> QED
    BY <2>1 DEF KindNamed, NoReq, RequestPcs
<1>4. CASE Die
  BY <1>4 DEF Die, KindNamed, NoReq, RequestPcs
<1>5. CASE UNCHANGED vars
  BY <1>5 DEF vars, procVars, KindNamed
<1> QED
  BY <1>1, <1>2, <1>3, <1>4, <1>5 DEF Next

\* Only startup publishes a golden link, and only golden.
LEMMA NextKeepsLinks ==
    ASSUME TypeInv, LinksNamed, [Next]_vars
    PROVE  /\ LinksNamed'
           /\ \A c \in Components : goldenLink[c] # None => goldenLink'[c] = goldenLink[c]
<1>1. CASE PublishGolden
  BY <1>1 DEF PublishGolden, RefreshGoldenLinks, LinksNamed
<1>2. CASE UNCHANGED goldenLink
  BY <1>2 DEF LinksNamed
<1>3. PublishGolden \/ UNCHANGED goldenLink
  <2>1. CASE MoveStep
    BY <2>1, MoveLeavesRescue
  <2>2. CASE ClientStep \/ Die \/ UNCHANGED vars
    BY <2>2
      DEF ClientStep, ApplyRefused, ApplyAccepted, Select, Rollback, ResetToGolden,
          SetPin, Begin, Die, vars, storeVars
  <2>3. CASE StartupStep
    BY <2>3
      DEF StartupStep, Start, RecordRescue, ClearRescuedTrial, RemoveCrumb,
          CountBoot, CountBootFails, CommitTrial, CommitTrialFails,
          RevertTrial, Serve, storeVars
  <2> QED
    BY <2>1, <2>2, <2>3 DEF Next
<1> QED
  BY <1>1, <1>2, <1>3

\* A revert that startup recovery makes meanwhile is of another component.
LEMMA MoveKeepsStanding ==
    ASSUME BoardInv, KindNamed, Standing, MoveStep, rescue' = rescue
    PROVE  Standing' /\ UNCHANGED <<crumb, goldenLink>>
<1>1. pc \in RequestPcs /\ UNCHANGED <<goldenLink, crumb>>
  BY MoveIsRunning, MoveLeavesRescue
<1>2. pc \in {"revert", "disarm", "failed"} /\ req.comp # Rescued
  BY <1>1 DEF KindNamed, Standing
<1>3. StuckLive \/ SwapBack \/ SwapBackFails \/ Disarm \/ DisarmFails \/ RecordRolledBack
  BY <1>2
    DEF MoveStep, StageEnds, Stage, ClearRelease, PublishRelease, PublishFails, Arm,
        ArmFails, Swap, SwapFails, Act, ActFails, GatePasses, GateFails, Commit,
        CommitFails, PruneOne, PruneFails, RecordApplied
<1>4. /\ Rescued \in Components
      /\ current \in [Components -> VersionOrNone]
      /\ pending \in [Components -> Trials]
  BY RescueAssumption DEF BoardInv, TypeInv, TypeOK, StoreTypeOK, JournalTypeOK
<1>5. current'[Rescued] = current[Rescued]
  BY <1>2, <1>3, <1>4
    DEF StuckLive, SwapBack, SwapBackFails, Disarm, DisarmFails, RecordRolledBack,
        SwapTo, storeVars
<1>6. pending'[Rescued] = pending[Rescued]
  <2>1. pending' \in {pending, Confirmed(req.comp)}
    BY <1>3
      DEF StuckLive, SwapBack, SwapBackFails, Disarm, DisarmFails, RecordRolledBack,
          FailedWrite, journalVars
  <2> QED
    BY <1>2, <1>4, <2>1 DEF Confirmed
<1>7. req' \in {req, NoReq} /\ todo' \subseteq todo
  BY <1>3
    DEF StuckLive, SwapBack, SwapBackFails, Disarm, DisarmFails, RecordRolledBack,
        Return, Fail, Goto
<1>8. pending[Rescued] = NoTrial
  BY <1>2 DEF Standing
<1> QED
  BY <1>1, <1>5, <1>6, <1>7, <1>8 DEF Standing, NoReq

\* A start clears the superseded trial while the breadcrumb is still there, and
\* looks at the trials afterwards.
LEMMA StartupKeepsStanding ==
    ASSUME ~MayFailIO, BoardInv, LinksNamed, Standing, StartupStep, rescue' = rescue
    PROVE  Standing'
<1>1. /\ Rescued \in Components
      /\ current \in [Components -> VersionOrNone]
      /\ pending \in [Components -> Trials]
      /\ TypeInv
  BY RescueAssumption DEF BoardInv, TypeInv, TypeOK, StoreTypeOK, JournalTypeOK
<1>2. goldenLink'[Rescued] = goldenLink[Rescued]
  BY <1>1, NextKeepsLinks DEF Standing, Next
<1>3. UNCHANGED current
  BY DEF StartupStep, Start, RecordRescue, ClearRescuedTrial, RemoveCrumb,
         PublishGolden, CountBoot, CountBootFails, CommitTrial, CommitTrialFails,
         RevertTrial, Serve, storeVars
\* What is left to show.
<1>k. ASSUME req' \in {req, NoReq} \/ (req'.kind = "boot" /\ req'.comp # Rescued),
             Rescued \notin todo',
             \/ pending'[Rescued] = NoTrial
             \/ /\ pending'[Rescued] = pending[Rescued]
                /\ crumb' = crumb
                /\ pc' \in {"down", "rescue", "rescueClear"}
                /\ pending[Rescued] # NoTrial
      PROVE  Standing'
  BY <1>2, <1>3, <1>k DEF Standing, NoReq
<1>4. CASE Start \/ RecordRescue
  <2>1. /\ UNCHANGED <<pending, crumb, req, todo>>
        /\ \/ pc' \in {"rescue", "rescueClear"}
           \/ pc = "down" /\ ~crumb.there
    BY <1>4 DEF Start, RecordRescue, Goto, journalVars
  <2> QED
    BY <1>k, <2>1 DEF Standing
\* The write does not fail, so the trial is gone.
<1>5. CASE ClearRescuedTrial
  <2>1. /\ UNCHANGED <<crumb, req, todo>>
        /\ IF crumb.comp = None THEN UNCHANGED pending ELSE pending' = Confirmed(crumb.comp)
    BY <1>5 DEF ClearRescuedTrial, TryConfirm, FailedWrite, Goto
  <2>2. pending[Rescued] = NoTrial \/ crumb.comp = Rescued
    BY DEF Standing
  <2>3. Rescued # None
    BY <1>1, VersionsAssumption
  <2>4. pending'[Rescued] = NoTrial
    BY <1>1, <2>1, <2>2, <2>3 DEF Confirmed
  <2> QED
    BY <1>k, <2>1, <2>4 DEF Standing
<1>6. ASSUME pc \in {"rescueRemove", "links", "count", "trials"}
      PROVE  pending[Rescued] = NoTrial
  BY <1>6 DEF Standing
<1>7. CASE RemoveCrumb \/ PublishGolden \/ Serve
  <2>1. /\ UNCHANGED <<pending, req, todo>>
        /\ pc \in {"rescueRemove", "links", "trials"}
    BY <1>7 DEF RemoveCrumb, PublishGolden, Serve, Goto, journalVars
  <2> QED
    BY <1>6, <1>k, <2>1 DEF Standing
<1>8. CASE CountBoot \/ CountBootFails
  <2>1. /\ pc = "count" /\ pending' \in {pending, BootsRecorded} /\ req' \in {req, NoReq}
        /\ \A c \in todo' : Exhausted(pending'[c])
    BY <1>8 DEF CountBoot, CountBootFails, Fail, FailedWrite
  <2>2. pending'[Rescued] = NoTrial
    BY <1>1, <1>6, <2>1 DEF BootsRecorded
  <2>3. Rescued \notin todo'
    BY <2>1, <2>2 DEF Exhausted
  <2> QED
    BY <1>k, <2>1, <2>2, <2>3
<1>9. ASSUME NEW c \in Components, CommitTrial(c) \/ CommitTrialFails(c) \/ RevertTrial(c)
      PROVE  Standing'
  <2>1. /\ pc = "trials" /\ c \in todo /\ pending' \in {pending, Confirmed(c)}
        /\ todo' \subseteq todo
        /\ req' \in {req, NoReq} \/ (req'.kind = "boot" /\ req'.comp = c)
    BY <1>9
      DEF CommitTrial, CommitTrialFails, RevertTrial, Fail, FailedWrite, journalVars
  <2>2. c # Rescued /\ Rescued \notin todo'
    BY <2>1 DEF Standing
  <2>3. pending'[Rescued] = NoTrial
    BY <1>1, <1>6, <2>1 DEF Confirmed
  <2> QED
    BY <1>k, <2>1, <2>2, <2>3
<1> QED
  BY <1>4, <1>5, <1>7, <1>8, <1>9 DEF StartupStep

\* A client's request ends the standing; a refusal, a pin and a crash do not.
LEMMA OthersKeepStanding ==
    ASSUME Standing, ClientStep \/ Die, req'.kind \in {"idle", "boot"}, rescue' = rescue
    PROVE  Standing'
<1>1. CASE ClientStep
  <2>1. UNCHANGED <<storeVars, pending, crumb, procVars>>
    BY <1>1
      DEF ClientStep, ApplyRefused, ApplyAccepted, Select, Rollback, ResetToGolden,
          SetPin, Begin
  <2> QED
    BY <2>1 DEF Standing, storeVars, procVars
<1>2. CASE Die
  BY <1>2 DEF Die, Standing, storeVars, journalVars, NoReq
<1> QED
  BY <1>1, <1>2

LEMMA BoardKeepsStand ==
    ASSUME ~MayFailIO, BoardInv, GuardInv, StandInv, [BoardNext]_boardVars
    PROVE  StandInv'
<1>1. TypeInv /\ KindNamed /\ LinksNamed /\ (stands => Standing)
  BY DEF BoardInv, StandInv
<1>2. CASE EngineStep
  <2>1. Next
    BY <1>2 DEF EngineStep, Next
  <2>2. KindNamed' /\ LinksNamed'
    BY <1>1, <2>1, NextKeepsKind, NextKeepsLinks
  <2>3. stands' => Standing'
    <3> SUFFICES ASSUME stands' PROVE Standing'
      OBVIOUS
    <3>1. Standing /\ req'.kind \in {"idle", "boot"} /\ rescue' = rescue
      BY <1>1, <1>2 DEF EngineStep
    <3> QED
      BY <1>1, <2>1, <3>1, MoveKeepsStanding, StartupKeepsStanding, OthersKeepStanding
        DEF Next
  <2> QED
    BY <2>2, <2>3 DEF StandInv
<1>3. CASE BoardStep
  <2>1. /\ UNCHANGED <<goldenLink, pending>>
        /\ \/ UNCHANGED procVars
           \/ pc' = "down" /\ req' = NoReq /\ doomed' = {} /\ todo' = {}
    BY <1>3, BoardStepFrame
  <2>2. KindNamed' /\ LinksNamed'
    BY <1>1, <2>1 DEF KindNamed, LinksNamed, procVars, NoReq, RequestPcs
  \* The board comes back on what the rescue chose, with its breadcrumb.
  <2>3. CASE RescueReboots
    BY <2>1, <2>2, <2>3
      DEF RescueReboots, StandInv, Standing, BoardInv, GuardInv, Crumb, NoRescue, NoReq,
          storeVars, journalVars
  <2>4. CASE ~RescueReboots
    <3>1. stands' = stands
      BY <1>3, <2>4
        DEF BoardStep, RescueStep, BootCheckStep, WriteCrumb, RescueSwap, RescueFails,
            RescueSync, RescueLeavesRunning, BootCheckFails, BootCheckPasses,
            RescueByHand, PowerLoss
    \* Golden is live, so no rescue starts.
    <3>2. stands => /\ rescue' \in {rescue, NoRescue}
                    /\ UNCHANGED <<current, crumb>>
      BY <1>1, <1>3, <2>4
        DEF Standing, BoardStep, RescueStep, BootCheckStep, WriteCrumb, RescueSwap,
            RescueFails, RescueSync, RescueLeavesRunning, BootCheckFails,
            BootCheckPasses, RescueByHand, RescueBegins, WouldSwap, PowerLoss, vars,
            storeVars, journalVars
    <3> QED
      BY <1>1, <2>1, <2>2, <3>1, <3>2 DEF StandInv, Standing, procVars, NoRescue, NoReq
  <2> QED
    BY <2>3, <2>4
<1>4. CASE UNCHANGED boardVars
  BY <1>1, <1>4
    DEF boardVars, vars, rescueVars, storeVars, journalVars, procVars, StandInv,
        KindNamed, LinksNamed, Standing
<1> QED
  BY <1>2, <1>3, <1>4 DEF BoardNext, BoardStep

-----------------------------------------------------------------------------
(* Theorems.                                                               *)

THEOREM BoardInvHolds == BoardSpec => [](BoardInv /\ GuardInv)
<1>1. BoardInit => BoardInv /\ GuardInv
  <2> SUFFICES ASSUME BoardInit PROVE BoardInv /\ GuardInv
    OBVIOUS
  <2>1. TypeInv
    BY InitTypes DEF BoardInit
  <2>2. rescue \in Rescues /\ rescue.at = "off"
    BY DEF BoardInit, NoRescue, Rescues, VersionOrNone
  <2>3. checked = FALSE /\ stands = FALSE /\ attempts = 0
    BY DEF BoardInit
  <2> QED
    BY <2>1, <2>2, <2>3 DEF BoardInv, GuardInv
<1>2. BoardInv /\ GuardInv /\ [BoardNext]_boardVars => BoardInv' /\ GuardInv'
  BY BoardKeepsInv, BoardKeepsGuard
<1> QED
  BY <1>1, <1>2, PTL DEF BoardSpec

\* The types hold on the whole board: updaterd, the scripts that take no lock
\* against it, and power lost between any two steps of either.
THEOREM BoardTypesHold == BoardSpec => []BoardTypeOK
<1>1. BoardInv /\ GuardInv => BoardTypeOK
  BY DEF BoardInv, GuardInv, TypeInv, BoardTypeOK
<1> QED
  BY <1>1, BoardInvHolds, PTL

\* "Swap and reboot has to be something that cannot happen twice on its own"
\* (robot-rescue): with breadcrumbs torn by power losses, writes that fail and
\* rescues run by hand in between, the boot check reboots the board at most once
\* until updaterd has settled the breadcrumb or someone forces a rescue.
THEOREM RescueNeverLoops == BoardSpec => []RescueLoopGuard
<1>1. BoardInv /\ GuardInv => RescueLoopGuard
  BY DEF GuardInv, RescueLoopGuard
<1> QED
  BY <1>1, BoardInvHolds, PTL

\* While a rescue stands, golden is live and no revert is under way.
THEOREM StandInvHolds == ~MayFailIO => (BoardSpec => []StandInv)
<1> SUFFICES ASSUME ~MayFailIO PROVE BoardSpec => []StandInv
  OBVIOUS
<1>1. BoardInit => StandInv
  BY DEF BoardInit, Init, StoreInit, StandInv, KindNamed, LinksNamed, RequestPcs, NoReq
<1>2. BoardInv /\ GuardInv /\ StandInv /\ [BoardNext]_boardVars => StandInv'
  BY BoardKeepsStand
<1> QED
  BY <1>1, <1>2, BoardInvHolds, PTL DEF BoardSpec

\* Where durable writes succeed, startup recovery does not take back what a
\* rescue chose, however often the board dies while it settles the breadcrumb and
\* the superseded trial (engine.rs recover_on_start, record_rescue).
THEOREM RescueIsNotUndone == ~MayFailIO => (BoardSpec => RescueStands)
<1> SUFFICES ASSUME ~MayFailIO PROVE BoardSpec => RescueStands
  OBVIOUS
<1>1. StandInv =>
        (stands /\ req.kind = "boot" /\ req.comp = Rescued
           => current'[Rescued] = current[Rescued])
  BY DEF StandInv, Standing
<1> QED
  BY <1>1, StandInvHolds, PTL DEF RescueStands

=============================================================================
