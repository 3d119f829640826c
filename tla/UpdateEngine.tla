----------------------------- MODULE UpdateEngine -----------------------------
(***************************************************************************)
(* The update engine of updaterd (updater/src/engine.rs): install a        *)
(* release from a source, move between installed releases, gate every move *)
(* on the robot's health, take back what fails, and, on each start, settle *)
(* what the last process left unfinished.                                  *)
(*                                                                         *)
(* One step is one durable effect or one answer from outside (a download,  *)
(* a hook, systemd, the robot), and the process may die between any two.   *)
(* update.lock is held while a request is between Begin and its end; a     *)
(* second request gets Busy and changes nothing, so `pc` is the lock too.  *)
(***************************************************************************)
EXTENDS UpdateJournal

CONSTANTS
    Broken,      \* Broken[c]: releases on which the robot never gets healthy
    Dead,        \* Dead[c]: releases whose updaterd does not start
    Health,      \* Health[c]: the configured check, "none", "socket", "command"
    OnApply,     \* OnApply[c]: "none", or "restart" for restart and reload
    Requests,    \* the requests clients make of this board
    Targets,     \* the ways apply names its candidate
    PinVersions, \* the versions clients pin to
    MayDie,      \* the process may be killed, restarted or lose power
    MayFailIO,   \* durable writes and renames may fail
    RequestsDuringTrial \* clients also make requests while a trial is armed

ASSUME EngineConfigAssumption ==
    /\ Broken \in [Components -> SUBSET Versions]
    /\ Dead \in [Components -> SUBSET Versions]
    /\ Health \in [Components -> {"none", "socket", "command"}]
    /\ OnApply \in [Components -> {"none", "restart"}]
    /\ Requests \subseteq {"apply", "rollback", "golden", "select"}
    /\ Targets \subseteq {"latest", "staging", "exact"}
    /\ PinVersions \subseteq VersionOrNone
    /\ {MayDie, MayFailIO, RequestsDuringTrial} \subseteq BOOLEAN

VARIABLES
    pc,      \* where the one running request, or startup, is
    req,     \* what it is doing: its kind, component, and the move
    doomed,  \* releases prune has still to delete
    todo     \* components whose exhausted trial startup has still to settle

procVars == <<pc, req, doomed, todo>>
vars == <<storeVars, journalVars, procVars>>

\* A request moves `comp` from `from` to `to`.  "boot" is recover_on_start
\* reverting a trial: `to` is the version on trial, `from` what it returns to.
Kinds == {"idle", "apply", "rollback", "golden", "select", "boot"}
Reqs == [kind: Kinds, comp: Components \union {None},
         to: VersionOrNone, from: VersionOrNone]
NoReq == [kind |-> "idle", comp |-> None, to |-> None, from |-> None]

RequestPcs == {"stage", "publish", "publishing", "arm", "swap", "act", "gate",
               "commit", "prune", "revert", "disarm", "failed"}
StartupPcs == {"rescue", "rescueClear", "rescueRemove", "links", "count",
               "trials"}
Pcs == {"down", "idle"} \union RequestPcs \union StartupPcs

EngineTypeOK ==
    /\ pc \in Pcs
    /\ req \in Reqs
    /\ doomed \subseteq Versions
    /\ todo \subseteq Components

TypeOK == StoreTypeOK /\ JournalTypeOK /\ EngineTypeOK

Init ==
    /\ StoreInit
    /\ JournalInit
    /\ pc = "down"
    /\ req = NoReq
    /\ doomed = {}
    /\ todo = {}

-----------------------------------------------------------------------------
(* Helpers.                                                                *)

\* A robot started from what `v` holds can report healthy, or degraded for a
\* reason no release causes.  It need not: a good release may still be slow.
CanBeHealthy(c, v) ==
    v \in Versions /\ v \notin Broken[c] /\ dirs[c][v] = "whole"

\* record(): best effort, a failed append is only reported.
Record(c, v, o) ==
    \/ log' = Appended(Entry(c, v, o))
    \/ MayFailIO /\ log' = log

\* A durable write of `pending` that fails may or may not be visible: the
\* rename happens before the fsync of its directory.
FailedWrite(written) == MayFailIO /\ pending' \in {pending, written}

\* confirm() with its result thrown away.
TryConfirm(c) == pending' = Confirmed(c) \/ FailedWrite(Confirmed(c))

Return ==
    /\ pc' = IF req.kind = "boot" THEN "trials" ELSE "idle"
    /\ req' = NoReq
    /\ UNCHANGED <<doomed, todo>>

\* An error leaves the request.  apply records what it was answered; the other
\* moves return through `?` before they reach record(); an error inside startup
\* recovery ends recovery, and updaterd serves anyway.
Fail ==
    /\ pc' = "idle"
    /\ req' = NoReq
    /\ doomed' = {}
    /\ todo' = {}
    /\ IF req.kind = "apply"
         THEN Record(req.comp, None, "Aborted")
         ELSE UNCHANGED log

Goto(where) == pc' = where /\ UNCHANGED <<req, doomed, todo>>

\* Free to take a request: serving, and the lock is not held.
MayRequest(kind, c) ==
    /\ pc = "idle"
    /\ kind \in Requests
    /\ RequestsDuringTrial \/ ~OnTrial(c)

Begin(kind, c, v, at) ==
    /\ req' = [kind |-> kind, comp |-> c, to |-> v, from |-> current[c]]
    /\ pc' = at
    /\ UNCHANGED <<storeVars, journalVars, doomed, todo>>

-----------------------------------------------------------------------------
(* apply: from the request to a published release directory.               *)

\* The refusals that depend on what is installed: the pin, the downgrade guard
\* on whatever-is-latest, and a staging channel that is behind the board.
\* Exact covers a named version, a ref, a named candidate and a --from
\* directory, none of which is guarded.
Refused(c, target, v) ==
    \/ pins[c] \notin {None, v}
    \/ /\ current[c] # None
       /\ target \in {"latest", "staging"}
       /\ v < current[c]

\* The source's signed manifest names v: any version, since a mirror may be
\* stale.
ApplyRefused(c, target, v) ==
    /\ MayRequest("apply", c)
    /\ Refused(c, target, v)
    /\ Record(c, None, "Aborted")
    /\ UNCHANGED <<storeVars, pending, pins, crumb, procVars>>

\* Mutant: the AlreadyCurrent answer is missing.
AcceptsLive(c, target, v) ==
    /\ MayRequest("apply", c)
    /\ ~Refused(c, target, v)
    /\ Begin("apply", c, v, "stage")

\* v = current[c] is AlreadyCurrent, which moves nothing and logs nothing.
ApplyAccepted(c, target, v) ==
    /\ MayRequest("apply", c)
    /\ ~Refused(c, target, v)
    /\ v # current[c]
    /\ Begin("apply", c, v, "stage")

\* Preflight, fetch, signature, channel, compatibility, space, download, hash,
\* extraction, the orphan check and the pre-install hook: any may refuse, and
\* a dry run stops there without an entry.
StageEnds ==
    /\ pc = "stage"
    /\ \/ Fail
       \/ Return /\ UNCHANGED log
    /\ UNCHANGED <<storeVars, pending, pins, crumb>>

\* stage_and_swap reads `current` again: what it rolls back to is what is live
\* when staging starts.
Stage ==
    /\ pc = "stage"
    /\ req' = [req EXCEPT !.from = current[req.comp]]
    /\ pc' = "publish"
    /\ UNCHANGED <<storeVars, journalVars, doomed, todo>>

\* An earlier copy of the release is removed, then the new one is renamed in.
\* A removal that is cut short shows only when the process dies in it; one that
\* fails makes the rename fail.
ClearRelease ==
    /\ pc = "publish"
    /\ Removed(req.comp, req.to)
    /\ Goto("publishing")
    /\ UNCHANGED <<current, goldenLink, journalVars>>

\* Mutant: the link moves before the trial is durable.
PublishUnarmed ==
    /\ pc = "publishing"
    /\ dirs' = [dirs EXCEPT ![req.comp][req.to] = "whole"]
    /\ Goto("swap")
    /\ UNCHANGED <<current, goldenLink, journalVars>>

PublishRelease ==
    /\ pc = "publishing"
    /\ dirs' = [dirs EXCEPT ![req.comp][req.to] = "whole"]
    /\ Goto("arm")
    /\ UNCHANGED <<current, goldenLink, journalVars>>

PublishFails ==
    /\ pc = "publishing"
    /\ MayFailIO
    /\ Fail
    /\ UNCHANGED <<storeVars, pending, pins, crumb>>

-----------------------------------------------------------------------------
(* rollback, reset_to_golden and select: the move to an installed release. *)

\* Mutant: any other release that is not bad, newer ones included.
RollbackForward(c) == Installed(c) \ (KnownBad(c) \union {current[c]})

\* rollback_target(): the newest installed release older than the live one
\* that the log does not call bad.
RollbackTargets(c) ==
    {v \in Installed(c) \ KnownBad(c) : current[c] = None \/ v < current[c]}

Rollback(c) ==
    /\ MayRequest("rollback", c)
    /\ \E v \in RollbackTargets(c) :
         /\ \A w \in RollbackTargets(c) : w <= v
         /\ Begin("rollback", c, v, "arm")

ResetToGolden(c) ==
    /\ MayRequest("golden", c)
    /\ IsDir(c, Golden[c])
    /\ Begin("golden", c, Golden[c], "arm")

Select(c, v) ==
    /\ MayRequest("select", c)
    /\ IsDir(c, v)
    /\ v # current[c]
    /\ Begin("select", c, v, "arm")

-----------------------------------------------------------------------------
(* The move itself: arm, swap, apply, gate, commit.                        *)

\* The trial is written before the link moves.
Arm ==
    /\ pc = "arm"
    /\ pending' = Armed(req.comp, req.to, req.from)
    /\ Goto("swap")
    /\ UNCHANGED <<storeVars, log, pins, crumb>>

ArmFails ==
    /\ pc = "arm"
    /\ FailedWrite(Armed(req.comp, req.to, req.from))
    /\ Fail
    /\ UNCHANGED <<storeVars, pins, crumb>>

Swap ==
    /\ pc = "swap"
    /\ SwapTo(req.comp, req.to)
    /\ Goto(IF req.kind = "apply" THEN "gate" ELSE "act")
    /\ UNCHANGED <<dirs, goldenLink, journalVars>>

\* swap_to fails, before the rename or in the fsync after it.  apply returns
\* through `?`; transition_to disarms first.
SwapFails ==
    /\ pc = "swap"
    /\ MayFailIO
    /\ \/ UNCHANGED current
       \/ SwapTo(req.comp, req.to)
    /\ IF req.kind = "apply"
         THEN UNCHANGED pending
         ELSE TryConfirm(req.comp)
    /\ Fail
    /\ UNCHANGED <<dirs, goldenLink, pins, crumb>>

\* transition_to restarts the units as a step of its own; apply does so inside
\* post_swap, where a failure is a failed gate.
Act ==
    /\ pc = "act"
    /\ Goto("gate")
    /\ UNCHANGED <<storeVars, journalVars>>

\* A unit that will not restart ends transition_to: disarmed and returned.
ActFails ==
    /\ pc = "act"
    /\ OnApply[req.comp] # "none"
    /\ TryConfirm(req.comp)
    /\ Fail
    /\ UNCHANGED <<storeVars, pins, crumb>>

\* Only apply runs the candidate's updaterd through its self-test.
GatePasses ==
    /\ pc = "gate"
    /\ Health[req.comp] = "none" \/ CanBeHealthy(req.comp, req.to)
    /\ req.kind = "apply" /\ OnApply[req.comp] = "restart"
         => req.to \notin Dead[req.comp]
    /\ Goto("commit")
    /\ UNCHANGED <<storeVars, journalVars>>

\* Mutant: the trial is forgotten before the way back is taken.
GateForgets ==
    /\ pc = "gate"
    /\ req.kind = "apply" \/ Health[req.comp] # "none"
    /\ pending' = Confirmed(req.comp)
    /\ Goto("revert")
    /\ UNCHANGED <<storeVars, log, pins, crumb>>

\* Post-install hook, apply action, updaterd self-test or health: any release
\* can fail one of them, and a timeout is a failure.
GateFails ==
    /\ pc = "gate"
    /\ req.kind = "apply" \/ Health[req.comp] # "none"
    /\ Goto("revert")
    /\ UNCHANGED <<storeVars, journalVars>>

\* Mutant: pruning comes before the verdict.
CommitWithoutVerdict ==
    /\ pc = "commit"
    /\ pc' = "prune"
    /\ doomed' = IF req.kind = "apply" THEN Doomed(req.comp) ELSE {}
    /\ UNCHANGED <<storeVars, journalVars, req, todo>>

Commit ==
    /\ pc = "commit"
    /\ pending' = Confirmed(req.comp)
    /\ pc' = "prune"
    /\ doomed' = IF req.kind = "apply" THEN Doomed(req.comp) ELSE {}
    /\ UNCHANGED <<storeVars, log, pins, crumb, req, todo>>

CommitFails ==
    /\ pc = "commit"
    /\ FailedWrite(Confirmed(req.comp))
    /\ Fail
    /\ UNCHANGED <<storeVars, pins, crumb>>

\* Mutant: a removal that is tried again for ever.
PruneAgain ==
    /\ pc = "prune"
    /\ \E v \in doomed : Removed(req.comp, v)
    /\ UNCHANGED <<current, goldenLink, journalVars, procVars>>

\* prune() deletes the doomed newest first, one tree at a time; the first
\* step on a whole tree may leave it cut short.
PruneOne ==
    /\ pc = "prune"
    /\ \E v \in doomed :
         /\ \A w \in doomed : w <= v
         /\ Removed(req.comp, v)
         /\ doomed' = IF dirs'[req.comp][v] = "absent" THEN doomed \ {v} ELSE doomed
    /\ UNCHANGED <<current, goldenLink, journalVars, pc, req, todo>>

\* An error stops pruning and is only reported: the update has succeeded.
PruneFails ==
    /\ pc = "prune"
    /\ MayFailIO
    /\ doomed # {}
    /\ doomed' = {}
    /\ UNCHANGED <<storeVars, journalVars, pc, req, todo>>

RecordApplied ==
    /\ pc = "prune"
    /\ doomed = {}
    /\ Record(req.comp, req.to, "Success")
    /\ Return
    /\ UNCHANGED <<storeVars, pending, pins, crumb>>

-----------------------------------------------------------------------------
(* rollback_to: shared by requests and by startup recovery.                *)

\* Mutant: the trial that cannot be reverted stays armed.
StuckStaysArmed ==
    /\ pc = "revert"
    /\ req.from = None
    /\ Record(req.comp, IF req.kind = "boot" THEN None ELSE req.to, "Aborted")
    /\ Return
    /\ UNCHANGED <<storeVars, pending, pins, crumb>>

\* Nothing to go back to: the trial is cleared and the outcome is Stuck.
StuckLive ==
    /\ pc = "revert"
    /\ req.from = None
    /\ pending' = Confirmed(req.comp)
    /\ Record(req.comp, IF req.kind = "boot" THEN None ELSE req.to, "Aborted")
    /\ Return
    /\ UNCHANGED <<storeVars, pins, crumb>>

SwapBack ==
    /\ pc = "revert"
    /\ req.from # None
    /\ SwapTo(req.comp, req.from)
    /\ Goto("disarm")
    /\ UNCHANGED <<dirs, goldenLink, journalVars>>

\* RollbackFailed: the release to go back to is gone, or the link would not
\* move.
SwapBackFails ==
    /\ pc = "revert"
    /\ req.from # None
    /\ \/ ~IsDir(req.comp, req.from) /\ UNCHANGED current
       \/ MayFailIO /\ UNCHANGED current
       \/ MayFailIO /\ SwapTo(req.comp, req.from)
    /\ Fail
    /\ UNCHANGED <<dirs, goldenLink, pending, pins, crumb>>

Disarm ==
    /\ pc = "disarm"
    /\ pending' = Confirmed(req.comp)
    /\ Goto("failed")
    /\ UNCHANGED <<storeVars, log, pins, crumb>>

\* RollbackFailed: confirm() could not write, in either arm of rollback_to.
DisarmFails ==
    /\ pc = "disarm" \/ (pc = "revert" /\ req.from = None)
    /\ FailedWrite(Confirmed(req.comp))
    /\ Fail
    /\ UNCHANGED <<storeVars, pins, crumb>>

\* Mutant: every entry names the version reverted to.
RecordRevertedTo ==
    /\ pc = "failed"
    /\ Record(req.comp, req.from, "RolledBack")
    /\ Return
    /\ UNCHANGED <<storeVars, pending, pins, crumb>>

\* The units are restarted on the release that is back, whatever comes of it,
\* and the entry is written.  A request names the version that failed; startup
\* recovery writes its own entry and names the version it reverted to.
RecordRolledBack ==
    /\ pc = "failed"
    /\ Record(req.comp, IF req.kind = "boot" THEN req.from ELSE req.to, "RolledBack")
    /\ Return
    /\ UNCHANGED <<storeVars, pending, pins, crumb>>

-----------------------------------------------------------------------------
(* Startup: recover_on_start, before anything is served.                   *)

\* systemd starts the updaterd of the live release.  Staging leftovers are
\* deleted (they are "absent" here); a breadcrumb is settled before any trial is
\* looked at.
Start ==
    /\ pc = "down"
    /\ \A c \in Components : current[c] \notin Dead[c]
    /\ Goto(IF crumb.there THEN "rescue" ELSE "links")
    /\ UNCHANGED <<storeVars, journalVars>>

\* record_rescue(): the entry, the superseded trial, the breadcrumb, in that
\* order, each best effort.  A breadcrumb that names no component is only
\* removed.
RecordRescue ==
    /\ pc = "rescue"
    /\ IF crumb.comp = None
         THEN UNCHANGED log
         ELSE Record(crumb.comp, crumb.to, "RolledBack")
    /\ Goto("rescueClear")
    /\ UNCHANGED <<storeVars, pending, pins, crumb>>

\* Mutant: the superseded trial is left armed.
KeepRescuedTrial ==
    /\ pc = "rescueClear"
    /\ Goto("rescueRemove")
    /\ UNCHANGED <<storeVars, journalVars>>

ClearRescuedTrial ==
    /\ pc = "rescueClear"
    /\ IF crumb.comp = None THEN UNCHANGED pending ELSE TryConfirm(crumb.comp)
    /\ Goto("rescueRemove")
    /\ UNCHANGED <<storeVars, log, pins, crumb>>

RemoveCrumb ==
    /\ pc = "rescueRemove"
    /\ crumb' = NoCrumb \/ (MayFailIO /\ crumb' = crumb)
    /\ Goto("links")
    /\ UNCHANGED <<storeVars, log, pending, pins>>

\* refresh_golden_links(): failing to publish one is only reported.
PublishGolden ==
    /\ pc = "links"
    /\ RefreshGoldenLinks \/ (MayFailIO /\ UNCHANGED goldenLink)
    /\ Goto("count")
    /\ UNCHANGED <<dirs, current, journalVars>>

CountBoot ==
    /\ pc = "count"
    /\ pending' = BootsRecorded
    /\ todo' = {c \in Components : Exhausted(pending'[c])}
    /\ pc' = "trials"
    /\ UNCHANGED <<storeVars, log, pins, crumb, req, doomed>>

CountBootFails ==
    /\ pc = "count"
    /\ FailedWrite(BootsRecorded)
    /\ Fail
    /\ UNCHANGED <<storeVars, pins, crumb>>

\* The budget decides when to ask; the robot decides.  Healthy or degraded
\* commits whatever is live.
CommitTrial(c) ==
    /\ pc = "trials"
    /\ c \in todo
    /\ Health[c] = "socket"
    /\ CanBeHealthy(c, current[c])
    /\ pending' = Confirmed(c)
    /\ todo' = todo \ {c}
    /\ UNCHANGED <<storeVars, log, pins, crumb, pc, req, doomed>>

CommitTrialFails(c) ==
    /\ pc = "trials"
    /\ c \in todo
    /\ Health[c] = "socket"
    /\ CanBeHealthy(c, current[c])
    /\ FailedWrite(Confirmed(c))
    /\ Fail
    /\ UNCHANGED <<storeVars, pins, crumb>>

\* previous, unless it is gone or known bad; then golden, if installed.
BootTarget(c) ==
    LET prev == pending[c].previous IN
    IF IsDir(c, prev) /\ prev \notin KnownBad(c) THEN prev
    ELSE IF IsDir(c, Golden[c]) THEN Golden[c]
    ELSE None

\* Mutant: a settled trial is looked at again.
RevertAgain(c) ==
    /\ pc = "trials"
    /\ c \in todo
    /\ req' = [kind |-> "boot", comp |-> c,
               to |-> pending[c].version, from |-> BootTarget(c)]
    /\ pc' = "revert"
    /\ UNCHANGED <<storeVars, journalVars, doomed, todo>>

RevertTrial(c) ==
    /\ pc = "trials"
    /\ c \in todo
    /\ req' = [kind |-> "boot", comp |-> c,
               to |-> pending[c].version, from |-> BootTarget(c)]
    /\ pc' = "revert"
    /\ todo' = todo \ {c}
    /\ UNCHANGED <<storeVars, journalVars, doomed>>

Serve ==
    /\ pc = "trials"
    /\ todo = {}
    /\ Goto("idle")
    /\ UNCHANGED <<storeVars, journalVars>>

-----------------------------------------------------------------------------
(* pin, and the end of the process.                                        *)

\* Mutant: a pin taken while a request is running.
SetPinAnytime(c, v) ==
    /\ pc # "down"
    /\ pins' = [pins EXCEPT ![c] = v]
    /\ UNCHANGED <<storeVars, log, pending, crumb, procVars>>

\* pin() goes through the server's engine mutex, so never during a request.
SetPin(c, v) ==
    /\ pc = "idle"
    /\ pins' = [pins EXCEPT ![c] = v]
    /\ UNCHANGED <<storeVars, log, pending, crumb, procVars>>

\* kill -9, power loss, a hook that restarts updaterd, a deferred restart.
Die ==
    /\ MayDie
    /\ pc # "down"
    /\ pc' = "down"
    /\ req' = NoReq
    /\ doomed' = {}
    /\ todo' = {}
    /\ UNCHANGED <<storeVars, journalVars>>

-----------------------------------------------------------------------------

ClientStep ==
    \E c \in Components :
        \/ \E v \in Versions :
             \/ \E t \in Targets : ApplyRefused(c, t, v) \/ ApplyAccepted(c, t, v)
             \/ Select(c, v)
        \/ Rollback(c)
        \/ ResetToGolden(c)
        \/ \E v \in PinVersions : SetPin(c, v)

MoveStep ==
    \/ StageEnds \/ Stage \/ ClearRelease \/ PublishRelease \/ PublishFails
    \/ Arm \/ ArmFails \/ Swap \/ SwapFails \/ Act \/ ActFails
    \/ GatePasses \/ GateFails \/ Commit \/ CommitFails
    \/ PruneOne \/ PruneFails \/ RecordApplied
    \/ StuckLive \/ SwapBack \/ SwapBackFails \/ Disarm \/ DisarmFails
    \/ RecordRolledBack

StartupStep ==
    \/ Start
    \/ RecordRescue \/ ClearRescuedTrial \/ RemoveCrumb
    \/ PublishGolden \/ CountBoot \/ CountBootFails
    \/ \E c \in Components :
         CommitTrial(c) \/ CommitTrialFails(c) \/ RevertTrial(c)
    \/ Serve

Next == ClientStep \/ MoveStep \/ StartupStep \/ Die

Spec == Init /\ [][Next]_vars

\* Every external wait of a request is bounded by a timeout (download, hooks,
\* systemctl, self-test, health gate), and systemd starts updaterd at boot and
\* again after a failure.  Clients and the ways to die are not fair.
FairSpec == Spec /\ WF_vars(MoveStep) /\ WF_vars(StartupStep)

=============================================================================
