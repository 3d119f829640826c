----------------------------- MODULE UpdateSafety -----------------------------
(***************************************************************************)
(* What the update engine promises, over the states and steps of           *)
(* UpdateEngine.                                                           *)
(***************************************************************************)
EXTENDS UpdateEngine

-----------------------------------------------------------------------------
(* Invariants.                                                             *)

\* The release every unit execs through is there.  `current` never dangles: not
\* while an earlier copy of a release is being replaced, not after pruning, not
\* after a revert, whenever the process dies (store.rs link_to and prune,
\* engine.rs AlreadyCurrent check).
LiveInstalled ==
    \A c \in Components : current[c] # None => IsDir(c, current[c])

\* No half-written state is ever live: the live release is complete, although
\* removing a release is not atomic and the process may die half way.
LiveIsWhole ==
    \A c \in Components : current[c] # None => dirs[c][current[c]] = "whole"

\* The rescue always has something to aim at: the release the golden link names
\* is complete.  Pruning exempts it, and the link is only published for an
\* installed release.
GoldenSurvives ==
    \A c \in Components :
        goldenLink[c] # None => dirs[c][goldenLink[c]] = "whole"

\* A bad release is never live with no trial to revert it, "the one state
\* section 7 says cannot happen" (store.rs link_to): the record is durable
\* before the link moves and forgotten only after a verdict.
BadReleaseIsOnTrial ==
    \A c \in Components :
        current[c] \in Broken[c] => pending[c].version = current[c]

\* A trial always describes the move under way: what is live is the release on
\* trial, the one it came from, or golden, where startup escalated to.  No
\* failure, crash or later request leaves a trial that talks of other releases
\* (engine.rs arm and confirm on every path).
TrialBracketsLive ==
    \A c \in Components :
        OnTrial(c) =>
            current[c] \in {pending[c].version, pending[c].previous, Golden[c]}

\* While a release is on trial the one it would be reverted to is still
\* complete on disk: pruning waits for the verdict.
WayBackIntact ==
    \A c \in Components :
        OnTrial(c) /\ pending[c].previous # None =>
            dirs[c][pending[c].previous] = "whole"

\* Once startup recovery has looked at every trial, none is past its budget: a
\* release that was never confirmed across MaxBootAttempts starts has been
\* settled before anything is served, on a board with nothing to revert to as
\* well (engine.rs recover_on_start, rollback_to).
TrialWithinBudget ==
    pc = "trials" /\ todo = {} =>
        \A c \in Components : pending[c].boots < MaxBootAttempts

-----------------------------------------------------------------------------
(* Action properties.                                                      *)

\* Startup writes entries that name the version it returned to: the one golden
\* a rescue swapped to, and what an exhausted trial was reverted to (engine.rs
\* recover_on_start).
StartupVerdict(c) ==
    \/ pc = "rescue" /\ c = crumb.comp
    \/ req.kind = "boot" /\ c = req.comp

\* reset_to_golden does not ask whether golden is live already: when its gate
\* fails, what failed and what it reverts to are the same release.
ResetInPlace(c) == req.kind = "golden" /\ c = req.comp /\ req.to = req.from

\* The log turns the live release into a bad one in three places only.  Every
\* other entry, of whatever request, gate or failure, names a version that is no
\* longer live by the time it is written (engine.rs record, rollback_to).
VerdictSparesLive ==
    [][\A c \in Components :
         current[c] \in KnownBad(c)' \ KnownBad(c)
           => StartupVerdict(c) \/ ResetInPlace(c)]_vars

\* Rollback never walks forward: it swaps to an older release than the one that
\* was live, and not to one the log calls bad (engine.rs rollback_target).
RollbackGoesBack ==
    [][\A c \in Components :
         req.kind = "rollback" /\ pc = "swap" /\ current'[c] # current[c]
           => /\ current[c] # None => current'[c] < current[c]
              /\ current'[c] \notin KnownBad(c)]_vars

\* Trials are keyed by component: a request on one component, its verdict and
\* its revert, leave the live release and the trial of every other one alone
\* (journal.rs BootCounter).
ComponentsIsolated ==
    [][\A c \in Components :
         req.kind # "idle" /\ c # req.comp
           => /\ current'[c] = current[c]
              /\ pending'[c] = pending[c]
              /\ dirs'[c] = dirs[c]]_vars

\* Nothing moves a pinned component by apply to a version other than its pin,
\* however long the download took (engine.rs effective_pin, ipc.rs engine
\* mutex around pin).
PinHonoured ==
    [][\A c \in Components :
         req.kind = "apply" /\ pc = "swap" /\ current'[c] # current[c]
           => pins[c] \in {None, current'[c]}]_vars

-----------------------------------------------------------------------------
(* Refinement.                                                             *)

\* The trial on record, without the count of starts.
TrialOnRecord ==
    [c \in Components |->
        IF OnTrial(c)
          THEN {[version |-> pending[c].version, previous |-> pending[c].previous]}
          ELSE {}]

Promised == INSTANCE ReleaseTrial WITH live <- current, trial <- TrialOnRecord

\* A release goes live on trial: no request, revert, failure or crash moves
\* `current` without a durable trial that names the move (engine.rs, "armed
\* before the swap, so a crash in between is still recoverable").
ImplementsReleaseTrial == Promised!AbstractSpec

-----------------------------------------------------------------------------
(* Liveness.                                                               *)

\* A request ends: it is answered, or its process dies.  Nothing waits forever
\* on the lock.
RequestEnds == pc \in RequestPcs ~> pc \in {"idle", "down"}

\* updaterd serves again after any crash, whatever it crashed in the middle of,
\* as long as it is eventually left alone.
ServesAgain == <>[][~Die]_vars => (pc = "down" ~> pc = "idle")

\* A bad release does not stay: on a board that keeps being restarted, and
\* whose updaterd gets to serve each time, every bad release that went live is
\* left again, although the process may die at any step of every attempt.
BadReleaseIsLeft ==
    ([]<>(pc = "down") /\ []<>(pc = "idle"))
      => \A c \in Components :
           [](current[c] \in Broken[c] => <>(current[c] \notin Broken[c]))

=============================================================================
