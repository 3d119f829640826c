---------------------------- MODULE ReleaseStore ----------------------------
(***************************************************************************)
(* The on-disk release store of one or more components (updater/src/       *)
(* store.rs): versioned release directories, the `current` symlink every   *)
(* unit execs through, and the `golden` symlink the rescue reads.          *)
(*                                                                         *)
(* A symlink moves with one rename(2) and is atomic.  A directory tree is  *)
(* removed file by file and is not: a process that dies inside             *)
(* remove_dir_all leaves a directory that is_dir() still accepts.          *)
(***************************************************************************)
EXTENDS Naturals, FiniteSets

CONSTANTS
    Components,   \* the components of updater.toml: daemon, models, ...
    Versions,     \* release versions, ordered as semver orders them
    None,         \* Rust's None: no version, no component, no breadcrumb
    Golden,       \* Golden[c]: the configured golden release, or None
    Factory,      \* Factory[c]: the release a board leaves the bench with
    KeepPrevious  \* keep_previous: releases kept besides live and golden

ASSUME VersionsAssumption ==
    /\ Versions \subseteq Nat
    /\ None \notin Versions
    /\ None \notin Components

VersionOrNone == Versions \union {None}

ASSUME StoreConfigAssumption ==
    /\ Golden \in [Components -> VersionOrNone]
    /\ Factory \in [Components -> VersionOrNone]
    /\ KeepPrevious \in Nat

VARIABLES
    dirs,        \* dirs[c][v]: what is at releases/<v>
    current,     \* current[c]: the version `current` names, or None
    goldenLink   \* goldenLink[c]: the version `golden` names, or None

storeVars == <<dirs, current, goldenLink>>

\* A release directory: not there, cut short by an interrupted removal, or
\* complete.  Extraction happens in a staging directory that list() and
\* is_dir() never see, so a half-extracted release is "absent" here.
DirStates == {"absent", "partial", "whole"}

StoreTypeOK ==
    /\ dirs \in [Components -> [Versions -> DirStates]]
    /\ current \in [Components -> VersionOrNone]
    /\ goldenLink \in [Components -> VersionOrNone]

\* A board as it leaves the bench: the factory release installed and live, or
\* nothing at all.  The golden link waits for the first start of updaterd.
StoreInit ==
    /\ dirs = [c \in Components |->
                 [v \in Versions |->
                    IF v = Factory[c] THEN "whole" ELSE "absent"]]
    /\ current = Factory
    /\ goldenLink = [c \in Components |-> None]

-----------------------------------------------------------------------------

\* release_dir(v).is_dir(): the only question the code asks of a directory.
IsDir(c, v) == v \in Versions /\ dirs[c][v] # "absent"

\* list(): every version with a directory.
Installed(c) == {v \in Versions : dirs[c][v] # "absent"}

\* link_to(CURRENT_LINK, v): refuses a missing release, then renames.
SwapTo(c, v) ==
    /\ IsDir(c, v)
    /\ current' = [current EXCEPT ![c] = v]

\* remove_dir_all on releases/<v>, up to a point where the process may die:
\* the tree is cut short or gone.
Removed(c, v) ==
    \E s \in {"partial", "absent"} :
        dirs' = [dirs EXCEPT ![c][v] = IF @ = "absent" THEN "absent" ELSE s]

\* Mutants: pruning that forgets what is live, or forgets golden.
PruneForgetsLive(c) == Installed(c) \ {Golden[c]}
PruneForgetsGolden(c) == Installed(c) \ {current[c]}

\* prune(): neither live nor golden, and not among the KeepPrevious newest of
\* what remains.
PruneCandidates(c) == Installed(c) \ {current[c], Golden[c]}

Doomed(c) ==
    {v \in PruneCandidates(c) :
        Cardinality({w \in PruneCandidates(c) : w > v}) >= KeepPrevious}

\* mark_golden() for every component whose configured golden is installed.
RefreshGoldenLinks ==
    goldenLink' = [c \in Components |->
                     IF IsDir(c, Golden[c]) THEN Golden[c] ELSE goldenLink[c]]

=============================================================================
