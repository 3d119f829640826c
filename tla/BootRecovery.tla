----------------------------- MODULE BootRecovery -----------------------------
(***************************************************************************)
(* The net under updaterd: robot-boot-check, run once per boot by a timer, *)
(* and robot-rescue (runtime/scripts), which puts one component's tree     *)
(* back on golden without the update daemon.  They share `current`,        *)
(* `golden` and the breadcrumb with the engine and take no lock, so a      *)
(* rescue may come between any two steps of UpdateEngine.                  *)
(*                                                                         *)
(* A board loses power or reboots as a whole; updaterd also dies alone     *)
(* (Die).  One rescue runs at a time.  Its file operations take            *)
(* milliseconds: updaterd takes no step among them, but power may be lost  *)
(* between any two.  While the reboot it asked for stops the units, a      *)
(* request already running may go on; systemd starts nothing.              *)
(***************************************************************************)
EXTENDS UpdateSafety

CONSTANTS
    Rescued,      \* the component whose install_dir robot-rescue hardcodes
    HandRuns,     \* how operators run robot-rescue: "plain", "force"
    MayCutRescue, \* robot-rescue may be cut short: a step fails, power is lost
    MayOutrun     \* a request may go on while a rescue's reboot is under way

ASSUME RescueAssumption ==
    /\ Rescued \in Components
    /\ HandRuns \subseteq {"plain", "force"}
    /\ {MayCutRescue, MayOutrun} \subseteq BOOLEAN

VARIABLES
    rescue,   \* the running robot-rescue: its next step, its move, its caller
    checked,  \* robot-boot-check has run since the board booted
    attempts, \* history: reboots by boot checks since updaterd last cleared
              \* the breadcrumb or an operator forced a rescue
    stands    \* history: the board was rebooted onto what a rescue chose, and
              \* no client has asked for anything since

rescueVars == <<rescue, checked, attempts, stands>>
boardVars == <<vars, rescueVars>>

NoRescue == [at |-> "off", to |-> None, from |-> None, by |-> "timer"]
Rescues == [at: {"off", "crumb", "swap", "sync", "reboot"},
            to: VersionOrNone, from: VersionOrNone,
            by: {"timer", "plain", "force"}]

BoardTypeOK ==
    /\ TypeOK
    /\ rescue \in Rescues
    /\ checked \in BOOLEAN
    /\ attempts \in Nat
    /\ stands \in BOOLEAN

BoardInit ==
    /\ Init
    /\ rescue = NoRescue
    /\ checked = FALSE
    /\ attempts = 0
    /\ stands = FALSE

-----------------------------------------------------------------------------
(* robot-rescue.                                                           *)

\* Mutant: a rescue that does not look at the breadcrumb.
SwapsAgain(by) ==
    /\ goldenLink[Rescued] # None
    /\ IsDir(Rescued, goldenLink[Rescued])
    /\ current[Rescued] # goldenLink[Rescued]

\* It declines while a breadcrumb is on record, unless forced, without a golden
\* link to an installed release, and when golden is what is live.
WouldSwap(by) ==
    /\ crumb.there => by = "force"
    /\ goldenLink[Rescued] # None
    /\ IsDir(Rescued, goldenLink[Rescued])
    /\ current[Rescued] # goldenLink[Rescued]

RescueBegins(by) ==
    /\ rescue.at = "off"
    /\ WouldSwap(by)
    /\ rescue' = [at |-> "crumb", to |-> goldenLink[Rescued],
                  from |-> current[Rescued], by |-> by]

\* The breadcrumb comes before the swap.
WriteCrumb ==
    /\ rescue.at = "crumb"
    /\ crumb' = Crumb(Rescued, rescue.to)
    /\ rescue' = [rescue EXCEPT !.at = "swap"]
    /\ UNCHANGED <<storeVars, log, pending, pins, procVars, checked, attempts, stands>>

\* ln, then mv over the top of `current`: one rename.
RescueSwap ==
    /\ rescue.at = "swap"
    /\ current' = [current EXCEPT ![Rescued] = rescue.to]
    /\ rescue' = [rescue EXCEPT !.at = "sync"]
    /\ UNCHANGED <<dirs, goldenLink, journalVars, procVars, checked, attempts, stands>>

\* What a torn write of the breadcrumb leaves: the old file, a file cut short,
\* or all of it.
TornCrumbs ==
    {crumb, Crumb(None, None), Crumb(Rescued, None), Crumb(Rescued, rescue.to)}

\* set -e: a step that fails ends the script where it is.  The breadcrumb is
\* truncated and written in place, so a write that fails may leave it torn.
RescueFails ==
    /\ rescue.at \in {"crumb", "swap"}
    /\ MayCutRescue
    /\ crumb' \in IF rescue.at = "crumb" THEN TornCrumbs ELSE {crumb}
    /\ rescue' = NoRescue
    /\ UNCHANGED <<storeVars, log, pending, pins, procVars, checked, attempts,
                   stands>>

RescueSync ==
    /\ rescue.at = "sync"
    /\ rescue' = [rescue EXCEPT !.at = "reboot"]
    /\ UNCHANGED <<vars, checked, attempts, stands>>

\* The boot check's rescue reboots the board; a hand-run one may.
RescueReboots ==
    /\ rescue.at = "reboot"
    /\ attempts' = IF rescue.by = "timer" THEN attempts + 1 ELSE attempts
    /\ stands' = (current[Rescued] = rescue.to)
    /\ pc' = "down"
    /\ req' = NoReq
    /\ doomed' = {}
    /\ todo' = {}
    /\ rescue' = NoRescue
    /\ checked' = FALSE
    /\ UNCHANGED <<storeVars, journalVars>>

RescueLeavesRunning ==
    /\ rescue.at = "reboot"
    /\ rescue.by # "timer"
    /\ rescue' = NoRescue
    /\ UNCHANGED <<vars, checked, attempts, stands>>

-----------------------------------------------------------------------------
(* robot-boot-check.                                                       *)

\* Mutant: the check is made by updaterd.
UpdaterdChecks ==
    /\ pc # "down"
    /\ ~checked
    /\ rescue.at = "off"
    /\ checked' = TRUE
    /\ IF WouldSwap("timer") THEN RescueBegins("timer") ELSE UNCHANGED rescue
    /\ UNCHANGED <<vars, attempts, stands>>

\* Some member failed or kept restarting.  Any release may be live: what keeps
\* a daemon down need not be a release.  A rescue that declines is a check done.
BootCheckFails ==
    /\ ~checked
    /\ rescue.at = "off"
    /\ checked' = TRUE
    /\ IF WouldSwap("timer") THEN RescueBegins("timer") ELSE UNCHANGED rescue
    /\ UNCHANGED <<vars, attempts, stands>>

\* Every member came up, updaterd among them.
BootCheckPasses ==
    /\ ~checked
    /\ rescue.at = "off"
    /\ current[Rescued] # None
    /\ current[Rescued] \notin Dead[Rescued]
    /\ checked' = TRUE
    /\ UNCHANGED <<vars, rescue, attempts, stands>>

RescueByHand(by) ==
    /\ RescueBegins(by)
    /\ attempts' = IF by = "force" THEN 0 ELSE attempts
    /\ UNCHANGED <<vars, checked, stands>>

-----------------------------------------------------------------------------
(* The board.                                                              *)

\* Power is lost.  Nothing robot-rescue wrote is durable before its sync: the
\* breadcrumb may be torn or gone, and the rename undone.
PowerLoss ==
    /\ MayDie
    /\ rescue.at = "off" \/ MayCutRescue
    /\ crumb' \in IF rescue.at \in {"off", "reboot"} THEN {crumb}
                  ELSE IF rescue.at = "crumb" THEN TornCrumbs
                  ELSE TornCrumbs \union {NoCrumb}
    /\ \/ UNCHANGED current
       \/ /\ rescue.at = "sync"
          /\ current' = [current EXCEPT ![Rescued] = rescue.from]
    /\ pc' = "down"
    /\ req' = NoReq
    /\ doomed' = {}
    /\ todo' = {}
    /\ rescue' = NoRescue
    /\ checked' = FALSE
    /\ UNCHANGED <<dirs, goldenLink, log, pending, pins, attempts, stands>>

\* A step of updaterd, seen with the histories: removing the breadcrumb opens
\* the guard, and a request takes over from the rescue.
EngineStep ==
    /\ \/ rescue.at = "off" /\ Next
       \/ rescue.at = "reboot" /\ MayOutrun /\ MoveStep
    /\ attempts' = IF crumb.there /\ ~crumb'.there THEN 0 ELSE attempts
    /\ stands' = (stands /\ req'.kind \in {"idle", "boot"})
    /\ UNCHANGED <<rescue, checked>>

RescueStep ==
    \/ WriteCrumb \/ RescueSwap \/ RescueFails \/ RescueSync
    \/ RescueReboots \/ RescueLeavesRunning

BootCheckStep == BootCheckFails \/ BootCheckPasses

BoardNext ==
    \/ EngineStep
    \/ RescueStep
    \/ BootCheckStep
    \/ \E by \in HandRuns : RescueByHand(by)
    \/ PowerLoss

BoardSpec == BoardInit /\ [][BoardNext]_boardVars

\* The scripts run to their end and updaterd is scheduled.  The boot check is
\* strongly fair: its timer fires in every boot that lasts, and some do.
BoardFairSpec ==
    /\ BoardSpec
    /\ WF_boardVars(RescueStep)
    /\ SF_boardVars(BootCheckStep)
    /\ WF_boardVars(EngineStep /\ StartupStep)
    /\ WF_boardVars(EngineStep /\ MoveStep)

-----------------------------------------------------------------------------
(* Properties.                                                             *)

\* "Swap and reboot has to be something that cannot happen twice on its own"
\* (robot-rescue): whatever fails in between, the boot check reboots the board
\* once until updaterd has run and settled the breadcrumb, or someone forces it.
RescueLoopGuard == attempts <= 1

\* What a rescue chose stands: once it has rebooted the board, startup recovery
\* does not move `current` off it, however often updaterd dies while it settles
\* the breadcrumb and the trial the rescue superseded (engine.rs
\* recover_on_start, record_rescue).
RescueStands ==
    [][stands /\ req.kind = "boot" /\ req.comp = Rescued
         => current'[Rescued] = current[Rescued]]_boardVars

\* A rescue that is cut short; and what it may leave for good: a breadcrumb on
\* record, a release live whose updaterd never runs to settle it.
CutsRescue == RescueFails \/ (PowerLoss /\ rescue.at # "off")

BlockedRescue ==
    crumb.there /\ rescue.at = "off" /\ current[Rescued] \in Dead[Rescued]

\* A release whose updaterd cannot start does not stay live on a board that
\* has a golden release and is booted again and again: the boot check gets the
\* board off it although nothing in updaterd can run.  It needs rescues that
\* are not cut short every time, and none that left a crumb before its swap.
DeadReleaseIsLeft ==
    []<>~checked /\ <>[]~BlockedRescue /\ <>[][~CutsRescue]_boardVars
      => [](current[Rescued] \in Dead[Rescued] /\ goldenLink[Rescued] # None
              => <>(current[Rescued] \notin Dead[Rescued]))

=============================================================================
