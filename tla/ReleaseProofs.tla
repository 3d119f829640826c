----------------------------- MODULE ReleaseProofs -----------------------------
(***************************************************************************)
(* Theorems about what is on disk: golden stays complete, so does what is  *)
(* live and what a trial would go back to, and a bad release is never live *)
(* without a trial.  They hold for any components, versions and budgets,   *)
(* with crashes and failed writes at every step, but not for everything a  *)
(* client can ask: each states what it needs of the board, and the README  *)
(* says what goes wrong without it.                                        *)
(***************************************************************************)
EXTENDS TrialProofs

\* Golden is what the board left the bench with, if it has one, and apply takes
\* what its channel names as the latest, so that the downgrade guard applies.
Guarded ==
    /\ Targets \subseteq {"latest", "staging"}
    /\ \A c \in Components : Golden[c] \in {None, Factory[c]}

\* Besides, clients apply or reset to golden, and wait until a trial is settled.
ClientsWait ==
    /\ Guarded
    /\ ~RequestsDuringTrial
    /\ Requests \subseteq {"apply", "golden"}

\* Besides, whatever can be bad has a health check and a good golden release,
\* and a breadcrumb the first start finds can be removed.
Recoverable ==
    /\ ClientsWait
    /\ \A c \in Components : Broken[c] # {} =>
         /\ Golden[c] \notin Broken[c] \union {None}
         /\ Health[c] # "none"
    /\ ~MayFailIO \/ \A left \in LeftCrumbs : ~left.there

-----------------------------------------------------------------------------
(* What golden needs.                                                      *)

GoldenWhole ==
    \A c \in Components : Golden[c] # None => dirs[c][Golden[c]] = "whole"

GoldenLinkNamed == \A c \in Components : goldenLink[c] \in {None, Golden[c]}

\* Golden is the oldest release there is, and something is live beside it.
NothingOlder ==
    \A c \in Components : Golden[c] # None =>
        /\ current[c] # None
        /\ \A v \in Installed(c) : Golden[c] <= v

\* What apply publishes over is not golden.
StagingNewer ==
    pc \in {"stage", "publish", "publishing"} /\ Golden[req.comp] # None =>
        Golden[req.comp] < req.to

PruningSparesGolden == pc = "prune" => Golden[req.comp] \notin doomed

GoldenInv ==
    /\ GoldenWhole
    /\ GoldenLinkNamed
    /\ NothingOlder
    /\ StagingNewer
    /\ PruningSparesGolden

\* No directory changes, and the links move to what is installed or golden.
LEMMA DirsKeepGolden ==
    ASSUME GoldenInv, UNCHANGED dirs,
           \A c \in Components : current'[c] \in Versions \union {current[c]},
           \A c \in Components : goldenLink'[c] \in {goldenLink[c], Golden[c]},
           StagingNewer', PruningSparesGolden'
    PROVE  GoldenInv'
<1>1. NothingOlder'
  BY VersionsAssumption DEF GoldenInv, NothingOlder, Installed
<1> QED
  BY <1>1 DEF GoldenInv, GoldenWhole, GoldenLinkNamed

\* A release newer than golden, or any other than golden if that is the one to
\* go, is removed or published.
LEMMA TreeKeepsGolden ==
    ASSUME TypeInv, GoldenInv, NEW c \in Components, NEW v \in Versions,
           NEW s \in DirStates, v # Golden[c],
           s # "absent" => v \in Installed(c) \/ Golden[c] = None \/ Golden[c] < v,
           dirs' = [dirs EXCEPT ![c][v] = s],
           UNCHANGED <<current, goldenLink>>,
           StagingNewer', PruningSparesGolden'
    PROVE  GoldenInv'
<1>1. /\ dirs' \in [Components -> [Versions -> DirStates]]
      /\ dirs'[c][v] = s
      /\ \A x \in Components, w \in Versions :
           x # c \/ w # v => dirs'[x][w] = dirs[x][w]
  <2>1. dirs' = [dirs EXCEPT ![c] = [@ EXCEPT ![v] = s]]
    OBVIOUS
  <2> QED
    BY <2>1 DEF TypeInv, TypeOK, StoreTypeOK
<1>2. GoldenWhole'
  BY <1>1, StoreConfigAssumption DEF GoldenInv, GoldenWhole, VersionOrNone
<1>3. NothingOlder'
  <2> SUFFICES ASSUME NEW x \in Components, Golden[x] # None,
                      NEW w \in Versions, dirs'[x][w] # "absent"
               PROVE  Golden[x] <= w
    BY DEF GoldenInv, NothingOlder, Installed
  <2>1. CASE w \in Installed(x)
    BY <2>1 DEF GoldenInv, NothingOlder
  <2>2. CASE w \notin Installed(x)
    <3>1. x = c /\ w = v /\ s # "absent"
      BY <1>1, <2>2 DEF Installed
    <3>2. Golden[c] < v
      BY <2>2, <3>1
    <3> QED
      BY <3>1, <3>2, StoreConfigAssumption, VersionsAssumption DEF VersionOrNone
  <2> QED
    BY <2>1, <2>2
<1> QED
  BY <1>2, <1>3 DEF GoldenInv, GoldenLinkNamed

\* A removal is one of the updates above, or changes nothing.
LEMMA RemovalKeepsGolden ==
    ASSUME TypeInv, GoldenInv, NEW c \in Components, NEW v \in Versions,
           v # Golden[c], Removed(c, v), UNCHANGED <<current, goldenLink>>,
           StagingNewer', PruningSparesGolden'
    PROVE  GoldenInv'
<1>1. PICK s \in {"partial", "absent"} :
        dirs' = [dirs EXCEPT ![c][v] = IF @ = "absent" THEN "absent" ELSE s]
  BY DEF Removed
<1>2. PICK t \in DirStates :
        /\ dirs' = [dirs EXCEPT ![c][v] = t]
        /\ t # "absent" => v \in Installed(c)
  <2>1. CASE dirs[c][v] = "absent"
    BY <1>1, <2>1 DEF DirStates
  <2>2. CASE dirs[c][v] # "absent"
    BY <1>1, <2>2 DEF DirStates, Installed
  <2> QED
    BY <2>1, <2>2
<1> QED
  BY <1>2, TreeKeepsGolden

\* The steps of a running request.
LEMMA MoveKeepsGolden ==
    ASSUME Guarded, IInv, GoldenInv, MoveStep
    PROVE  GoldenInv'
<1>r. pc \in RequestPcs => req.comp \in Components
  BY DEF IInv, TypeInv, RequestNamed
<1>g. \A c \in Components : Golden[c] \in VersionOrNone
  BY StoreConfigAssumption
<1> USE DEF RequestPcs
\* A step that leaves the store alone and does not go on with a staging or a
\* pruning.
<1>k. ASSUME UNCHANGED storeVars,
             pc' \notin {"stage", "publish", "publishing", "prune"}
      PROVE  GoldenInv'
  BY <1>k, DirsKeepGolden DEF storeVars, StagingNewer, PruningSparesGolden
<1>s. ASSUME pc \in RequestPcs, NEW v, SwapTo(req.comp, v) \/ UNCHANGED current,
             UNCHANGED <<dirs, goldenLink>>,
             pc' \notin {"stage", "publish", "publishing", "prune"}
      PROVE  GoldenInv'
  <2>1. \A c \in Components : current'[c] \in Versions \union {current[c]}
    BY <1>s, <1>r DEF SwapTo, IsDir, IInv, TypeInv, TypeOK, StoreTypeOK
  <2> QED
    BY <1>s, <2>1, DirsKeepGolden DEF StagingNewer, PruningSparesGolden
<1>1. CASE StageEnds \/ PublishFails \/ ArmFails \/ ActFails \/ CommitFails \/ DisarmFails
  BY <1>1, <1>k
    DEF StageEnds, PublishFails, ArmFails, ActFails, CommitFails, DisarmFails, Fail, Return
<1>2. CASE Stage
  <2>1. /\ req'.to = req.to /\ req'.comp = req.comp
        /\ pc = "stage" /\ pc' = "publish"
    BY <1>2 DEF Stage, IInv, TypeInv, TypeOK, EngineTypeOK, Reqs
  <2>2. StagingNewer' /\ PruningSparesGolden'
    BY <2>1 DEF GoldenInv, StagingNewer, PruningSparesGolden
  <2> QED
    BY <1>2, <2>2, DirsKeepGolden DEF Stage, storeVars
<1>3. CASE ClearRelease
  <2>1. /\ pc = "publish" /\ pc' = "publishing" /\ UNCHANGED <<current, goldenLink, req>>
        /\ Removed(req.comp, req.to)
    BY <1>3 DEF ClearRelease, Goto
  <2>2. StagingNewer' /\ PruningSparesGolden'
    BY <2>1 DEF GoldenInv, StagingNewer, PruningSparesGolden
  <2>3. CASE req.to \in Versions
    <3>1. req.to # Golden[req.comp]
      <4>1. CASE Golden[req.comp] = None
        BY <2>3, <4>1, VersionsAssumption
      <4>2. CASE Golden[req.comp] # None
        <5>1. req.to \in Nat /\ Golden[req.comp] < req.to
          BY <2>1, <2>3, <4>2, VersionsAssumption DEF GoldenInv, StagingNewer
        <5> QED
          BY <5>1
      <4> QED
        BY <4>1, <4>2
    <3> QED
      BY <1>r, <2>1, <2>2, <2>3, <3>1, RemovalKeepsGolden DEF IInv
  <2>4. CASE req.to \notin Versions
    <3>1. dirs' = dirs
      BY <1>r, <2>1, <2>4 DEF Removed, IInv, TypeInv, TypeOK, StoreTypeOK
    <3> QED
      BY <2>1, <2>2, <3>1, DirsKeepGolden
  <2> QED
    BY <2>3, <2>4
<1>4. CASE PublishRelease
  <2>1. /\ pc = "publishing" /\ pc' = "arm" /\ UNCHANGED <<current, goldenLink, req>>
        /\ dirs' = [dirs EXCEPT ![req.comp][req.to] = "whole"]
    BY <1>4 DEF PublishRelease, Goto
  <2>2. StagingNewer' /\ PruningSparesGolden'
    BY <2>1 DEF StagingNewer, PruningSparesGolden
  <2>3. CASE req.to \in Versions
    <3>1. /\ req.to # Golden[req.comp]
          /\ Golden[req.comp] = None \/ Golden[req.comp] < req.to
      BY <1>g, <1>r, <2>1, <2>3, VersionsAssumption DEF GoldenInv, StagingNewer
    <3> QED
      BY <1>r, <2>1, <2>2, <2>3, <3>1, TreeKeepsGolden DEF IInv, DirStates
  <2>4. CASE req.to \notin Versions
    <3>1. dirs' = dirs
      BY <1>r, <2>1, <2>4 DEF IInv, TypeInv, TypeOK, StoreTypeOK
    <3> QED
      BY <2>1, <2>2, <3>1, DirsKeepGolden
  <2> QED
    BY <2>3, <2>4
<1>5. CASE \/ Arm \/ Act \/ GatePasses \/ GateFails \/ Disarm
           \/ RecordApplied \/ StuckLive \/ RecordRolledBack
  BY <1>5, <1>k
    DEF Arm, Act, GatePasses, GateFails, Disarm, RecordApplied, StuckLive,
        RecordRolledBack, Goto, Return
<1>6. CASE Swap \/ SwapBack
  BY <1>6, <1>s DEF Swap, SwapBack, Goto
<1>7. CASE SwapFails \/ SwapBackFails
  BY <1>7, <1>s DEF SwapFails, SwapBackFails, Fail
<1>8. CASE Commit
  <2>1. StagingNewer' /\ PruningSparesGolden'
    BY <1>8 DEF Commit, StagingNewer, PruningSparesGolden, Doomed, PruneCandidates
  <2> QED
    BY <1>8, <2>1, DirsKeepGolden DEF Commit, storeVars
<1>9. CASE PruneOne
  <2>1. PICK v \in doomed : Removed(req.comp, v) /\ doomed' \subseteq doomed
    BY <1>9 DEF PruneOne
  <2>2. /\ pc = "prune" /\ pc' = "prune" /\ UNCHANGED <<current, goldenLink, req>>
        /\ v \in Versions
    BY <1>9 DEF PruneOne, IInv, TypeInv, TypeOK, EngineTypeOK
  <2>3. StagingNewer' /\ PruningSparesGolden' /\ v # Golden[req.comp]
    BY <2>1, <2>2 DEF GoldenInv, StagingNewer, PruningSparesGolden
  <2> QED
    BY <1>r, <2>1, <2>2, <2>3, RemovalKeepsGolden DEF IInv
<1>10. CASE PruneFails
  <2>1. StagingNewer' /\ PruningSparesGolden'
    BY <1>10 DEF PruneFails, StagingNewer, PruningSparesGolden
  <2> QED
    BY <1>10, <2>1, DirsKeepGolden DEF PruneFails, storeVars
<1> QED
  BY <1>1, <1>2, <1>3, <1>4, <1>5, <1>6, <1>7, <1>8, <1>9, <1>10 DEF MoveStep

\* A guarded apply is for a release newer than the live one, which is not older
\* than golden.  Everything else leaves the directories alone.
LEMMA OthersKeepGolden ==
    ASSUME Guarded, IInv, GoldenInv,
           ClientStep \/ StartupStep \/ Die \/ UNCHANGED vars
    PROVE  GoldenInv'
<1>k. ASSUME UNCHANGED <<dirs, current>>,
             \A c \in Components : goldenLink'[c] \in {goldenLink[c], Golden[c]},
             pc' \notin {"stage", "publish", "publishing", "prune"}
      PROVE  GoldenInv'
  BY <1>k, DirsKeepGolden DEF StagingNewer, PruningSparesGolden
<1>1. CASE ClientStep
  <2>1. PICK c \in Components :
          \/ \E v \in Versions :
               \/ \E t \in Targets : ApplyRefused(c, t, v) \/ ApplyAccepted(c, t, v)
               \/ Select(c, v)
          \/ Rollback(c)
          \/ ResetToGolden(c)
          \/ \E v \in PinVersions : SetPin(c, v)
    BY <1>1 DEF ClientStep
  <2>2. ASSUME NEW v, NEW t, ApplyRefused(c, t, v) \/ SetPin(c, v) PROVE GoldenInv'
    BY <1>k, <2>2 DEF ApplyRefused, SetPin, MayRequest, storeVars, procVars
  <2>3. ASSUME NEW v \in Versions, NEW t \in Targets, ApplyAccepted(c, t, v)
        PROVE  GoldenInv'
    <3>1. /\ pc' = "stage" /\ req'.comp = c /\ req'.to = v /\ UNCHANGED storeVars
          /\ v # current[c] /\ ~Refused(c, t, v)
      BY <2>3 DEF ApplyAccepted, Begin
    <3>2. Golden[c] # None => Golden[c] < v
      <4>1. Golden[c] # None =>
              /\ current[c] \in Versions
              /\ Golden[c] <= current[c]
        BY DEF GoldenInv, NothingOlder, IInv, LiveInv, LiveInstalled, IsDir, Installed
      <4>2. current[c] # None => ~(v < current[c])
        BY <3>1 DEF Refused, Guarded
      <4>3. Golden[c] # None => Golden[c] \in Nat /\ current[c] \in Nat /\ v \in Nat
        BY <4>1, StoreConfigAssumption, VersionsAssumption DEF VersionOrNone
      <4>4. Golden[c] # None => current[c] # None
        BY <4>1, VersionsAssumption
      <4> QED
        BY <3>1, <4>1, <4>2, <4>3, <4>4
    <3>3. StagingNewer' /\ PruningSparesGolden'
      BY <3>1, <3>2 DEF StagingNewer, PruningSparesGolden
    <3> QED
      BY <3>1, <3>3, DirsKeepGolden DEF storeVars
  <2>4. ASSUME NEW v, Select(c, v) PROVE GoldenInv'
    BY <1>k, <2>4 DEF Select, Begin, storeVars
  <2>5. CASE Rollback(c) \/ ResetToGolden(c)
    BY <1>k, <2>5 DEF Rollback, ResetToGolden, Begin, storeVars
  <2> QED
    BY <2>1, <2>2, <2>3, <2>4, <2>5
<1>2. CASE StartupStep
  <2>1. CASE PublishGolden
    BY <1>k, <2>1 DEF PublishGolden, RefreshGoldenLinks, Goto
  <2>2. CASE ~PublishGolden
    BY <1>2, <1>k, <2>2
      DEF StartupStep, Start, RecordRescue, ClearRescuedTrial, RemoveCrumb,
          CountBoot, CountBootFails, CommitTrial, CommitTrialFails, RevertTrial,
          Serve, Goto, Fail, storeVars
  <2> QED
    BY <2>1, <2>2
<1>3. CASE Die
  BY <1>3, <1>k DEF Die, storeVars
<1>4. CASE UNCHANGED vars
  <2>1. StagingNewer' /\ PruningSparesGolden'
    BY <1>4 DEF vars, procVars, GoldenInv, StagingNewer, PruningSparesGolden
  <2> QED
    BY <1>4, <2>1, DirsKeepGolden DEF vars, storeVars
<1> QED
  BY <1>1, <1>2, <1>3, <1>4

\* A board as it leaves the bench.
LEMMA InitGolden ==
    ASSUME Guarded, Init
    PROVE  GoldenInv
<1>1. GoldenWhole /\ GoldenLinkNamed /\ StagingNewer /\ PruningSparesGolden
  BY StoreConfigAssumption
    DEF Guarded, Init, StoreInit, GoldenWhole, GoldenLinkNamed, StagingNewer,
        PruningSparesGolden, VersionOrNone
<1>2. NothingOlder
  BY StoreConfigAssumption, VersionsAssumption
    DEF Guarded, Init, StoreInit, NothingOlder, Installed, VersionOrNone
<1> QED
  BY <1>1, <1>2 DEF GoldenInv

\* Golden stays complete and the oldest release on disk.
THEOREM GoldenInvHolds == Guarded => (Spec => []GoldenInv)
<1> SUFFICES ASSUME Guarded PROVE Spec => []GoldenInv
  OBVIOUS
<1>1. Init => GoldenInv
  BY InitGolden
<1>2. IInv /\ GoldenInv /\ [Next]_vars => GoldenInv'
  BY MoveKeepsGolden, OthersKeepGolden DEF Next
<1> QED
  BY <1>1, <1>2, IInvHolds, PTL DEF Spec

\* The rescue always has something to aim at: what the golden link names is
\* complete on disk, whatever clients ask for, also on top of a trial, whatever
\* fails and whenever the process dies, as long as no apply is for an exact
\* version (store.rs prune and mark_golden, engine.rs downgrade guard).
THEOREM GoldenAlwaysSurvives == Guarded => (Spec => []GoldenSurvives)
<1> SUFFICES ASSUME Guarded PROVE Spec => []GoldenSurvives
  OBVIOUS
<1>1. GoldenInv => GoldenSurvives
  BY DEF GoldenInv, GoldenWhole, GoldenLinkNamed, GoldenSurvives
<1> QED
  BY <1>1, GoldenInvHolds, PTL

-----------------------------------------------------------------------------
(* Nothing that is live, or would be gone back to, is cut short.           *)

\* Directories are deleted only while no trial is on record.
NoTrialYet ==
    pc \in {"stage", "publish", "publishing", "arm", "prune"} => ~OnTrial(req.comp)

\* What is about to go live is complete.
CandidateWhole == pc \in {"arm", "swap"} => dirs[req.comp][req.to] = "whole"

WholeInv ==
    /\ LiveIsWhole
    /\ WayBackIntact
    /\ NoTrialYet
    /\ CandidateWhole

\* The hypotheses of the lemmas below.
SoundBoard == IInv /\ TrialInv /\ GoldenInv /\ WholeInv

\* What a revert goes back to is complete: a request's is its trial's, a
\* start's is the trial's or golden.
LEMMA WayBackIsWhole ==
    ASSUME SoundBoard, pc \in {"swap", "act", "gate", "revert"}, req.from # None
    PROVE  dirs[req.comp][req.from] = "whole"
<1>1. req.comp \in Components
  BY DEF SoundBoard, IInv, TypeInv, RequestNamed, RequestPcs
<1>2. CASE pc \in {"swap", "act", "gate"}
  BY <1>1, <1>2
    DEF SoundBoard, TrialInv, TrialOfMove, WholeInv, WayBackIntact, OnTrial, NoTrial
<1>3. CASE pc = "revert"
  BY <1>1, <1>3
    DEF SoundBoard, TrialInv, WayBackOnRecord, WholeInv, WayBackIntact, GoldenInv,
        GoldenWhole
<1> QED
  BY <1>2, <1>3

\* No directory changes, what goes live is complete, and a trial that goes on
\* record, if any, has a complete way back.
LEMMA DirsKeepWhole ==
    ASSUME WholeInv, UNCHANGED dirs,
           \A c \in Components :
             current'[c] = current[c] \/ dirs[c][current'[c]] = "whole",
           \A c \in Components :
             \/ pending'[c] = NoTrial
             \/ OnTrial(c) /\ pending'[c].previous = pending[c].previous
             \/ pending'[c].previous # None
                  => dirs[c][pending'[c].previous] = "whole",
           NoTrialYet', CandidateWhole'
    PROVE  WholeInv'
<1>1. LiveIsWhole'
  BY DEF WholeInv, LiveIsWhole
<1>2. WayBackIntact'
  BY DEF WholeInv, WayBackIntact, OnTrial
<1> QED
  BY <1>1, <1>2 DEF WholeInv

\* A tree that is not live, of a component that is not on trial, changes.
LEMMA TreeKeepsWhole ==
    ASSUME WholeInv, NEW c \in Components, NEW v \in Versions,
           ~OnTrial(c), v # current[c],
           \A x \in Components : \A w \in Versions :
             (x # c \/ w # v) => dirs'[x][w] = dirs[x][w],
           current \in [Components -> VersionOrNone],
           pending \in [Components -> Trials],
           UNCHANGED <<current, pending>>,
           NoTrialYet', CandidateWhole'
    PROVE  WholeInv'
<1>1. LiveIsWhole'
  BY DEF WholeInv, LiveIsWhole, VersionOrNone
<1>2. WayBackIntact'
  <2> SUFFICES ASSUME NEW x \in Components, OnTrial(x), pending[x].previous # None
               PROVE  dirs'[x][pending[x].previous] = "whole"
    BY DEF WayBackIntact, OnTrial
  <2>1. pending[x].previous \in Versions
    BY DEF Trials, VersionOrNone
  <2>2. x # c
    OBVIOUS
  <2> QED
    BY <2>1, <2>2 DEF WholeInv, WayBackIntact
<1> QED
  BY <1>1, <1>2 DEF WholeInv

\* The steps of a running request.
LEMMA MoveKeepsWhole ==
    ASSUME SoundBoard, MoveStep
    PROVE  WholeInv'
<1>i. IInv /\ TypeInv /\ TrialInv /\ GoldenInv /\ WholeInv
  BY DEF SoundBoard, IInv
<1>r. pc \in RequestPcs => req.comp \in Components
  BY <1>i DEF TypeInv, RequestNamed
<1>p. /\ dirs \in [Components -> [Versions -> DirStates]]
      /\ current \in [Components -> VersionOrNone]
      /\ pending \in [Components -> Trials]
  BY <1>i DEF TypeInv, TypeOK, StoreTypeOK, JournalTypeOK
<1> USE DEF RequestPcs
\* Neither the directories nor the steps that depend on them.
<1>k. ASSUME pc \in RequestPcs, UNCHANGED dirs,
             pc' \notin {"stage", "publish", "publishing", "arm", "prune", "swap"},
             \/ UNCHANGED current
             \/ \E v : SwapTo(req.comp, v) /\ dirs[req.comp][v] = "whole",
             pending' \in {pending, Confirmed(req.comp)}
      PROVE  WholeInv'
  <2>1. \A c \in Components :
          current'[c] = current[c] \/ dirs[c][current'[c]] = "whole"
    BY <1>k, <1>p, <1>r DEF SwapTo
  <2>2. \A c \in Components : pending'[c] \in {pending[c], NoTrial}
    BY <1>k, <1>p, <1>r, PendingValues
  <2>3. \A c \in Components :
          \/ pending'[c] = NoTrial
          \/ OnTrial(c) /\ pending'[c].previous = pending[c].previous
    BY <2>2 DEF OnTrial
  <2> QED
    BY <1>i, <1>k, <2>1, <2>3, DirsKeepWhole DEF NoTrialYet, CandidateWhole
<1>1. CASE StageEnds \/ PublishFails \/ Act \/ GatePasses \/ GateFails
  BY <1>1, <1>k
    DEF StageEnds, PublishFails, Act, GatePasses, GateFails, Fail, Return, Goto,
        storeVars, journalVars
<1>2. CASE Stage
  <2>1. /\ req'.comp = req.comp /\ pc = "stage" /\ pc' = "publish"
        /\ UNCHANGED <<dirs, current, pending>>
    BY <1>2, <1>i DEF Stage, TypeInv, TypeOK, EngineTypeOK, Reqs, storeVars, journalVars
  <2>2. NoTrialYet' /\ CandidateWhole'
    BY <1>i, <2>1 DEF WholeInv, NoTrialYet, CandidateWhole, OnTrial
  <2> QED
    BY <1>i, <2>1, <2>2 DEF WholeInv, LiveIsWhole, WayBackIntact, OnTrial
<1>3. CASE ClearRelease
  <2>1. /\ pc = "publish" /\ pc' = "publishing" /\ UNCHANGED <<current, pending, req>>
        /\ Removed(req.comp, req.to)
    BY <1>3 DEF ClearRelease, Goto, journalVars
  <2>2. req.to # current[req.comp] /\ ~OnTrial(req.comp)
    BY <1>i, <2>1 DEF IInv, LiveInv, StagingAside, WholeInv, NoTrialYet
  <2>3. NoTrialYet' /\ CandidateWhole'
    BY <2>1, <2>2 DEF NoTrialYet, CandidateWhole, OnTrial
  <2>4. \A x \in Components : \A w \in Versions :
          (x # req.comp \/ w # req.to) => dirs'[x][w] = dirs[x][w]
    BY <1>i, <1>r, <2>1, StoreTypes DEF TypeInv, TypeOK
  <2> QED
    BY <1>i, <1>p, <1>r, <2>1, <2>2, <2>3, <2>4, TreeKeepsWhole DEF TrialInv, ToIsRelease
<1>4. CASE PublishRelease
  <2>1. /\ pc = "publishing" /\ pc' = "arm" /\ UNCHANGED <<current, pending, req>>
        /\ dirs' = [dirs EXCEPT ![req.comp] = [@ EXCEPT ![req.to] = "whole"]]
    BY <1>4 DEF PublishRelease, Goto, journalVars
  <2>2. req.to # current[req.comp] /\ ~OnTrial(req.comp)
    BY <1>i, <2>1 DEF IInv, LiveInv, StagingAside, WholeInv, NoTrialYet
  <2>3. req.to \in Versions
    BY <1>i, <2>1 DEF TrialInv, ToIsRelease
  <2>4. /\ dirs'[req.comp][req.to] = "whole"
        /\ \A x \in Components : \A w \in Versions :
             (x # req.comp \/ w # req.to) => dirs'[x][w] = dirs[x][w]
    BY <1>p, <1>r, <2>1, <2>3
  <2>5. NoTrialYet' /\ CandidateWhole'
    BY <2>1, <2>2, <2>4 DEF NoTrialYet, CandidateWhole, OnTrial
  <2> QED
    BY <1>i, <1>p, <1>r, <2>1, <2>2, <2>3, <2>4, <2>5, TreeKeepsWhole
\* Arming, durable or not: the way back is what is live.
<1>a. ASSUME pc = "arm", UNCHANGED <<dirs, current>>,
             pending' \in {pending, Armed(req.comp, req.to, req.from)},
             NoTrialYet', CandidateWhole'
      PROVE  WholeInv'
  <2>1. req.from # None => dirs[req.comp][req.from] = "whole"
    BY <1>a, <1>i, <1>r DEF TrialInv, FromIsLive, WholeInv, LiveIsWhole
  <2>2. ASSUME NEW c \in Components
        PROVE  \/ pending'[c] = NoTrial
               \/ OnTrial(c) /\ pending'[c].previous = pending[c].previous
               \/ pending'[c].previous # None
                    => dirs[c][pending'[c].previous] = "whole"
    <3>1. CASE pending'[c] = pending[c]
      BY <3>1 DEF OnTrial
    <3>2. CASE pending'[c] # pending[c]
      <4>1. pending' = Armed(req.comp, req.to, req.from) /\ req.comp \in Components
        BY <1>a, <1>r, <3>2
      <4>2. c = req.comp
        BY <1>p, <3>2, <4>1 DEF Armed
      <4>3. pending'[c] = [version |-> req.to, previous |-> req.from, boots |-> 0]
        BY <1>p, <4>1, <4>2, PendingValues
      <4> QED
        BY <2>1, <4>2, <4>3
    <3> QED
      BY <3>1, <3>2
  <2> QED
    BY <1>a, <1>i, <2>2, DirsKeepWhole
<1>5. CASE Arm
  <2>1. /\ pc = "arm" /\ pc' = "swap" /\ UNCHANGED <<dirs, current, req>>
        /\ pending' = Armed(req.comp, req.to, req.from)
    BY <1>5 DEF Arm, Goto, storeVars
  <2>2. NoTrialYet' /\ CandidateWhole'
    BY <1>i, <2>1 DEF WholeInv, NoTrialYet, CandidateWhole
  <2> QED
    BY <1>a, <2>1, <2>2
<1>6. CASE ArmFails
  <2>1. /\ pc = "arm" /\ pc' = "idle" /\ UNCHANGED <<dirs, current>>
        /\ pending' \in {pending, Armed(req.comp, req.to, req.from)}
    BY <1>6 DEF ArmFails, Fail, FailedWrite, storeVars
  <2> QED
    BY <1>a, <2>1 DEF NoTrialYet, CandidateWhole
<1>7. CASE Swap
  <2>1. /\ pc = "swap" /\ SwapTo(req.comp, req.to) /\ pc' \in {"gate", "act"}
        /\ UNCHANGED <<dirs, pending>>
    BY <1>7 DEF Swap, Goto, journalVars
  <2>2. dirs[req.comp][req.to] = "whole"
    BY <1>i, <2>1 DEF WholeInv, CandidateWhole
  <2> QED
    BY <1>k, <2>1, <2>2
<1>8. CASE SwapFails
  <2>1. /\ pc = "swap"
        /\ SwapTo(req.comp, req.to) \/ UNCHANGED current
        /\ pc' = "idle" /\ UNCHANGED dirs /\ pending' \in {pending, Confirmed(req.comp)}
    BY <1>8 DEF SwapFails, Fail, TryConfirm, FailedWrite
  <2>2. dirs[req.comp][req.to] = "whole"
    BY <1>i, <2>1 DEF WholeInv, CandidateWhole
  <2> QED
    BY <1>k, <2>1, <2>2
<1>9. CASE ActFails \/ CommitFails \/ DisarmFails
  BY <1>9, <1>k
    DEF ActFails, CommitFails, DisarmFails, Fail, TryConfirm, FailedWrite, storeVars
<1>10. CASE Commit
  <2>1. /\ pc = "commit" /\ pc' = "prune" /\ UNCHANGED <<dirs, current, req>>
        /\ pending' = Confirmed(req.comp)
    BY <1>10 DEF Commit, storeVars
  <2>2. \A c \in Components : pending'[c] \in {pending[c], NoTrial}
    BY <1>p, <1>r, <2>1, PendingValues
  <2>3. pending'[req.comp] = NoTrial
    BY <1>p, <1>r, <2>1, PendingValues
  <2>4. NoTrialYet' /\ CandidateWhole'
    BY <2>1, <2>3 DEF NoTrialYet, CandidateWhole, OnTrial
  <2> QED
    BY <1>i, <2>1, <2>2, <2>4, DirsKeepWhole DEF OnTrial
<1>11. CASE PruneOne
  <2>1. PICK v \in doomed : Removed(req.comp, v)
    BY <1>11 DEF PruneOne
  <2>2. pc = "prune" /\ pc' = "prune" /\ UNCHANGED <<current, pending, req>>
    BY <1>11 DEF PruneOne, journalVars
  <2>3. v # current[req.comp] /\ ~OnTrial(req.comp)
    BY <1>i, <2>1, <2>2 DEF IInv, LiveInv, PruningAside, WholeInv, NoTrialYet
  <2>4. NoTrialYet' /\ CandidateWhole'
    BY <2>2, <2>3 DEF NoTrialYet, CandidateWhole, OnTrial
  <2>5. \A x \in Components : \A w \in Versions :
          (x # req.comp \/ w # v) => dirs'[x][w] = dirs[x][w]
    BY <1>i, <1>r, <2>1, <2>2, StoreTypes DEF TypeInv, TypeOK
  <2> QED
    BY <1>i, <1>p, <1>r, <2>2, <2>3, <2>4, <2>5, TreeKeepsWhole
       DEF TypeInv, TypeOK, EngineTypeOK
<1>12. CASE PruneFails
  <2>1. pc = "prune" /\ pc' = "prune" /\ UNCHANGED <<dirs, current, pending, req>>
    BY <1>12 DEF PruneFails, storeVars, journalVars
  <2>2. NoTrialYet' /\ CandidateWhole'
    BY <1>i, <2>1 DEF WholeInv, NoTrialYet, CandidateWhole, OnTrial
  <2> QED
    BY <1>i, <2>1, <2>2 DEF WholeInv, LiveIsWhole, WayBackIntact, OnTrial
<1>13. CASE RecordApplied \/ StuckLive \/ RecordRolledBack \/ Disarm
  BY <1>13, <1>k
    DEF RecordApplied, StuckLive, RecordRolledBack, Disarm, Return, Goto, storeVars
<1>14. CASE SwapBack \/ SwapBackFails
  <2>1. /\ pc = "revert" /\ req.from # None
        /\ SwapTo(req.comp, req.from) \/ UNCHANGED current
        /\ pc' \in {"disarm", "idle"} /\ UNCHANGED <<dirs, pending>>
    BY <1>14 DEF SwapBack, SwapBackFails, Goto, Fail, journalVars
  <2>2. dirs[req.comp][req.from] = "whole"
    BY <2>1, WayBackIsWhole
  <2> QED
    BY <1>k, <2>1, <2>2
<1> QED
  BY <1>1, <1>2, <1>3, <1>4, <1>5, <1>6, <1>7, <1>8, <1>9, <1>10, <1>11, <1>12,
     <1>13, <1>14 DEF MoveStep

\* A request begins when nothing is on trial; the rest leaves the disk alone.
LEMMA OthersKeepWhole ==
    ASSUME ClientsWait, SoundBoard,
           ClientStep \/ StartupStep \/ Die \/ UNCHANGED vars
    PROVE  WholeInv'
<1>i. IInv /\ TypeInv /\ TrialInv /\ GoldenInv /\ WholeInv
  BY DEF SoundBoard, IInv
<1>p. /\ pending \in [Components -> Trials]
      /\ crumb.comp \in Components \union {None}
  BY <1>i DEF TypeInv, TypeOK, JournalTypeOK, Crumbs
<1>k. ASSUME UNCHANGED <<dirs, current>>,
             \A c \in Components :
               \/ pending'[c] \in {pending[c], NoTrial}
               \/ pending' = BootsRecorded,
             NoTrialYet', CandidateWhole'
      PROVE  WholeInv'
  <2>1. ASSUME NEW c \in Components
        PROVE  \/ pending'[c] = NoTrial
               \/ OnTrial(c) /\ pending'[c].previous = pending[c].previous
    BY <1>k, <1>p, BootsValues DEF OnTrial
  <2> QED
    BY <1>i, <1>k, <2>1, DirsKeepWhole
<1>1. CASE ClientStep
  <2>1. PICK c \in Components :
          \/ \E v \in Versions :
               \/ \E t \in Targets : ApplyRefused(c, t, v) \/ ApplyAccepted(c, t, v)
               \/ Select(c, v)
          \/ Rollback(c)
          \/ ResetToGolden(c)
          \/ \E v \in PinVersions : SetPin(c, v)
    BY <1>1 DEF ClientStep
  <2>2. ASSUME NEW v, NEW t, ApplyRefused(c, t, v) \/ SetPin(c, v) PROVE WholeInv'
    BY <1>k, <2>2
      DEF ApplyRefused, SetPin, MayRequest, storeVars, procVars, NoTrialYet, CandidateWhole
  <2>3. ASSUME NEW v, NEW t, ApplyAccepted(c, t, v) PROVE WholeInv'
    <3>1. /\ pc' = "stage" /\ req'.comp = c /\ UNCHANGED <<dirs, current, pending>>
          /\ ~OnTrial(c)
      BY <2>3
        DEF ApplyAccepted, Begin, MayRequest, ClientsWait, storeVars, journalVars
    <3>2. NoTrialYet' /\ CandidateWhole'
      BY <3>1 DEF NoTrialYet, CandidateWhole, OnTrial
    <3> QED
      BY <1>k, <3>1, <3>2
  <2>4. ~Rollback(c) /\ \A v : ~Select(c, v)
    BY DEF Rollback, Select, MayRequest, ClientsWait
  <2>5. CASE ResetToGolden(c)
    <3>1. /\ pc' = "arm" /\ req'.comp = c /\ req'.to = Golden[c] /\ Golden[c] # None
          /\ UNCHANGED <<dirs, current, pending>> /\ ~OnTrial(c)
      BY <2>5, VersionsAssumption
        DEF ResetToGolden, IsDir, Begin, MayRequest, ClientsWait, storeVars, journalVars
    <3>2. NoTrialYet' /\ CandidateWhole'
      BY <1>i, <3>1 DEF NoTrialYet, CandidateWhole, OnTrial, GoldenInv, GoldenWhole
    <3> QED
      BY <1>k, <3>1, <3>2
  <2> QED
    BY <2>1, <2>2, <2>3, <2>4, <2>5
<1>2. CASE StartupStep
  <2>1. UNCHANGED <<dirs, current>>
    BY <1>2
      DEF StartupStep, Start, RecordRescue, ClearRescuedTrial, RemoveCrumb,
          PublishGolden, CountBoot, CountBootFails, CommitTrial, CommitTrialFails,
          RevertTrial, Serve, storeVars
  <2>2. pc' \notin {"stage", "publish", "publishing", "arm", "prune", "swap"}
    BY <1>2
      DEF StartupStep, Start, RecordRescue, ClearRescuedTrial, RemoveCrumb,
          PublishGolden, CountBoot, CountBootFails, CommitTrial, CommitTrialFails,
          RevertTrial, Serve, Goto, Fail
  <2>3. \/ pending' \in {pending, BootsRecorded}
        \/ \E c \in Components : pending' = Confirmed(c)
    BY <1>2, <1>p
      DEF StartupStep, Start, RecordRescue, ClearRescuedTrial, RemoveCrumb,
          PublishGolden, CountBoot, CountBootFails, CommitTrial, CommitTrialFails,
          RevertTrial, Serve, TryConfirm, FailedWrite, journalVars
  <2>4. \A c \in Components : pending'[c] \in {pending[c], NoTrial} \/ pending' = BootsRecorded
    BY <1>p, <2>3, PendingValues
  <2> QED
    BY <1>k, <2>1, <2>2, <2>4 DEF NoTrialYet, CandidateWhole
<1>3. CASE Die
  BY <1>3, <1>k DEF Die, storeVars, journalVars, NoTrialYet, CandidateWhole
<1>4. CASE UNCHANGED vars
  BY <1>4, <1>i
    DEF vars, storeVars, journalVars, procVars, WholeInv, LiveIsWhole, WayBackIntact,
        NoTrialYet, CandidateWhole, OnTrial
<1> QED
  BY <1>1, <1>2, <1>3, <1>4

\* Nothing that is needed is ever cut short, on a board whose clients wait.
THEOREM WholeInvHolds == ClientsWait => (Spec => []WholeInv)
<1> SUFFICES ASSUME ClientsWait PROVE Spec => []WholeInv
  OBVIOUS
<1>1. Init => WholeInv
  BY StoreConfigAssumption
    DEF Init, StoreInit, JournalInit, WholeInv, LiveIsWhole, WayBackIntact, NoTrialYet,
        CandidateWhole, OnTrial, VersionOrNone
<1>2. IInv /\ TrialInv /\ GoldenInv /\ WholeInv /\ [Next]_vars => WholeInv'
  BY MoveKeepsWhole, OthersKeepWhole DEF Next, SoundBoard
<1>3. Guarded
  BY DEF ClientsWait
<1> QED
  BY <1>1, <1>2, <1>3, IInvHolds, TrialInvHolds, GoldenInvHolds, PTL DEF Spec

\* No half-removed release is ever live, although removing one is not atomic and
\* the process may die half way through it (store.rs prune, engine.rs publish):
\* a tree is cut short only when it is neither live nor named by a trial.
THEOREM LiveStaysWhole == ClientsWait => (Spec => []LiveIsWhole)
<1> SUFFICES ASSUME ClientsWait PROVE Spec => []LiveIsWhole
  OBVIOUS
<1>1. WholeInv => LiveIsWhole
  BY DEF WholeInv
<1> QED
  BY <1>1, WholeInvHolds, PTL

\* While a release is on trial the one it would be reverted to stays complete
\* on disk, through crashes and starts: pruning waits for the verdict (engine.rs
\* commit before prune).
THEOREM WayBackStaysIntact == ClientsWait => (Spec => []WayBackIntact)
<1> SUFFICES ASSUME ClientsWait PROVE Spec => []WayBackIntact
  OBVIOUS
<1>1. WholeInv => WayBackIntact
  BY DEF WholeInv
<1> QED
  BY <1>1, WholeInvHolds, PTL

-----------------------------------------------------------------------------
(* What no bad release live without a trial needs.                         *)

PreviousGood == \A c \in Components : pending[c].previous \notin Broken[c]

\* What the gate judges is what is live, and what it passes is good.
CandidateLive == pc \in {"act", "gate", "commit"} => current[req.comp] = req.to
CandidateGood == pc = "commit" => req.to \notin Broken[req.comp]

\* A move that is not an apply goes to golden.
GoldenAsked ==
    /\ pc \in BeforeTheSwap /\ req.kind # "apply" => req.to = Golden[req.comp]
    /\ pc = "act" => req.to = Golden[req.comp]

\* Where a release can be bad there is something to revert to, and it is good.
WayBackNamed ==
    /\ pc \in {"swap", "act", "gate", "revert"} /\ Broken[req.comp] # {} =>
         req.from # None
    /\ pc = "disarm" => req.from \notin Broken[req.comp]

\* A breadcrumb is settled before there is a trial it could clear.
CrumbSettled ==
    /\ pc \in {"rescue", "rescueClear", "rescueRemove"} => crumb.there
    /\ crumb.there =>
         /\ ~MayFailIO
         /\ pc \in {"down", "rescue", "rescueClear", "rescueRemove"}
         /\ \A c \in Components : ~OnTrial(c)

BadInv ==
    /\ BadReleaseIsOnTrial
    /\ PreviousGood
    /\ CandidateLive
    /\ CandidateGood
    /\ GoldenAsked
    /\ WayBackNamed
    /\ CrumbSettled

GoodBoard == IInv /\ TrialInv /\ RevertDone /\ GoldenInv /\ WholeInv /\ BadInv

\* What a board has, in the words the proofs need.
LEMMA GoodFacts ==
    ASSUME Recoverable, GoodBoard
    PROVE  /\ TypeInv
           /\ current \in [Components -> VersionOrNone]
           /\ pending \in [Components -> Trials]
           /\ \A c \in Components :
                /\ None \notin Broken[c]
                /\ Golden[c] \notin Broken[c]
                /\ ~OnTrial(c) => current[c] \notin Broken[c]
                /\ CanBeHealthy(c, current[c]) => current[c] \notin Broken[c]
           /\ pc \in RequestPcs => req.comp \in Components /\ ~crumb.there
           /\ req.kind = "boot" => pc \in {"revert", "disarm", "failed"}
<1>1. TypeInv /\ BadReleaseIsOnTrial /\ CrumbSettled
  BY DEF GoodBoard, IInv, BadInv
<1>2. \A c \in Components : None \notin Broken[c] /\ Golden[c] \notin Broken[c]
  BY EngineConfigAssumption, VersionsAssumption DEF Recoverable
<1> QED
  BY <1>1, <1>2
    DEF TypeInv, TypeOK, StoreTypeOK, JournalTypeOK, RequestNamed, RequestPcs,
        BadReleaseIsOnTrial, OnTrial, NoTrial, CanBeHealthy, CrumbSettled, GoodBoard,
        TrialInv, BootSteps

\* A component keeps its live release and its trial, but for the count of
\* starts, or is left with a good release and a good way back.
LEMMA LinksKeepBad ==
    ASSUME BadInv,
           \A c \in Components :
             \/ /\ current'[c] = current[c]
                /\ pending'[c].version = pending[c].version
                /\ pending'[c].previous = pending[c].previous
             \/ /\ current'[c] \notin Broken[c] \/ current'[c] = pending'[c].version
                /\ pending'[c].previous \notin Broken[c],
           CandidateLive', CandidateGood', GoldenAsked', WayBackNamed', CrumbSettled'
    PROVE  BadInv'
<1>1. BadReleaseIsOnTrial'
  BY DEF BadInv, BadReleaseIsOnTrial
<1>2. PreviousGood'
  BY DEF BadInv, PreviousGood
<1> QED
  BY <1>1, <1>2 DEF BadInv

\* The steps of a running request.
LEMMA MoveKeepsBad ==
    ASSUME Recoverable, GoodBoard, MoveStep
    PROVE  BadInv'
<1>f. /\ TypeInv
      /\ current \in [Components -> VersionOrNone]
      /\ pending \in [Components -> Trials]
      /\ \A c \in Components :
           /\ None \notin Broken[c]
           /\ Golden[c] \notin Broken[c]
           /\ ~OnTrial(c) => current[c] \notin Broken[c]
      /\ pc \in RequestPcs => req.comp \in Components /\ ~crumb.there
      /\ req.kind = "boot" => pc \in {"revert", "disarm", "failed"}
  BY GoodFacts
<1>b. BadInv /\ TrialInv /\ GoldenInv /\ WholeInv /\ RevertDone
  BY DEF GoodBoard
<1> USE DEF RequestPcs
<1>c. pc \in RequestPcs /\ crumb' = crumb
        /\ pc' \notin {"rescue", "rescueClear", "rescueRemove"} => CrumbSettled'
  BY <1>f DEF CrumbSettled
\* Neither link nor trial.
<1>k. ASSUME pc \in RequestPcs, UNCHANGED <<current, pending, crumb>>,
             pc' \notin {"rescue", "rescueClear", "rescueRemove"},
             CandidateLive', CandidateGood', GoldenAsked', WayBackNamed'
      PROVE  BadInv'
  BY <1>b, <1>c, <1>k, LinksKeepBad
\* The request ends, or is past its last move, with a good release live where
\* it ran, or as it was.
<1>e. ASSUME pc \in RequestPcs,
             pc' \in {"idle", "trials", "failed", "prune", "gate", "revert", "disarm"},
             UNCHANGED crumb, CandidateLive', CandidateGood', GoldenAsked', WayBackNamed',
             current' = current \/ \E v : SwapTo(req.comp, v),
             pending' \in {pending, Confirmed(req.comp)},
             \/ UNCHANGED <<current, pending>>
             \/ current'[req.comp] \notin Broken[req.comp]
      PROVE  BadInv'
  <2>1. \A c \in Components : c # req.comp => current'[c] = current[c] /\ pending'[c] = pending[c]
    BY <1>e, <1>f, PendingValues DEF SwapTo
  <2>2. pending'[req.comp].previous \in {pending[req.comp].previous, None}
    BY <1>e, <1>f, PendingValues DEF NoTrial
  <2>3. pending'[req.comp].previous \notin Broken[req.comp]
    BY <1>b, <1>e, <1>f, <2>2 DEF BadInv, PreviousGood
  <2> QED
    BY <1>b, <1>c, <1>e, <2>1, <2>3, LinksKeepBad
<1>v. ASSUME pc' \in {"idle", "trials", "failed", "prune"}
      PROVE  CandidateLive' /\ CandidateGood' /\ GoldenAsked' /\ WayBackNamed'
  BY <1>v DEF CandidateLive, CandidateGood, GoldenAsked, WayBackNamed, BeforeTheSwap
<1>1. CASE StageEnds \/ PublishFails
  BY <1>1, <1>k, <1>v, <1>f
    DEF StageEnds, PublishFails, Fail, Return, storeVars
<1>2. CASE Stage
  <2>1. /\ pc = "stage" /\ pc' = "publish" /\ UNCHANGED <<current, pending, crumb>>
        /\ req'.kind = req.kind /\ req'.comp = req.comp /\ req'.to = req.to
    BY <1>2, <1>f DEF Stage, TypeInv, TypeOK, EngineTypeOK, Reqs, storeVars, journalVars
  <2>2. CandidateLive' /\ CandidateGood' /\ GoldenAsked' /\ WayBackNamed'
    BY <1>b, <2>1
      DEF BadInv, CandidateLive, CandidateGood, GoldenAsked, WayBackNamed, BeforeTheSwap
  <2> QED
    BY <1>k, <2>1, <2>2
<1>3. CASE ClearRelease \/ PublishRelease
  <2>1. /\ pc \in {"publish", "publishing"} /\ pc' \in {"publishing", "arm"}
        /\ UNCHANGED <<current, pending, crumb, req>>
    BY <1>3 DEF ClearRelease, PublishRelease, Goto, journalVars
  <2>2. CandidateLive' /\ CandidateGood' /\ GoldenAsked' /\ WayBackNamed'
    BY <1>b, <2>1
      DEF BadInv, CandidateLive, CandidateGood, GoldenAsked, WayBackNamed, BeforeTheSwap
  <2> QED
    BY <1>k, <2>1, <2>2
\* Arming, durable or not: what is live is not on trial, so it is good.
<1>a. ASSUME pc = "arm", UNCHANGED <<current, crumb>>,
             pc' \notin {"rescue", "rescueClear", "rescueRemove"},
             pending' \in {pending, Armed(req.comp, req.to, req.from)},
             CandidateLive', CandidateGood', GoldenAsked', WayBackNamed'
      PROVE  BadInv'
  <2>1. ~OnTrial(req.comp) /\ req.from = current[req.comp] /\ req.comp \in Components
    BY <1>a, <1>b, <1>f DEF WholeInv, NoTrialYet, TrialInv, FromIsLive
  <2>2. current[req.comp] \notin Broken[req.comp]
    BY <1>f, <2>1
  <2>3. \A c \in Components : c # req.comp => pending'[c] = pending[c]
    BY <1>a, <1>f DEF Armed
  <2>4. \/ pending'[req.comp] = pending[req.comp]
        \/ pending'[req.comp].previous = req.from
    BY <1>a, <1>f, <2>1 DEF Armed
  <2> QED
    BY <1>a, <1>b, <1>c, <2>1, <2>2, <2>3, <2>4, LinksKeepBad
<1>4. CASE Arm
  <2>1. /\ pc = "arm" /\ pc' = "swap" /\ UNCHANGED <<current, crumb, req>>
        /\ pending' = Armed(req.comp, req.to, req.from)
    BY <1>4 DEF Arm, Goto, storeVars
  <2>2. Broken[req.comp] # {} => req.from # None
    <3>1. Golden[req.comp] # None => current[req.comp] # None
      BY <1>b, <1>f, <2>1 DEF GoldenInv, NothingOlder
    <3> QED
      BY <1>b, <1>f, <2>1, <3>1 DEF Recoverable, TrialInv, FromIsLive
  <2>3. CandidateLive' /\ CandidateGood' /\ GoldenAsked' /\ WayBackNamed'
    BY <1>b, <2>1, <2>2
      DEF BadInv, CandidateLive, CandidateGood, GoldenAsked, WayBackNamed, BeforeTheSwap
  <2> QED
    BY <1>a, <2>1, <2>3
<1>5. CASE ArmFails
  BY <1>5, <1>a, <1>v DEF ArmFails, Fail, FailedWrite, storeVars
<1>6. CASE Swap
  <2>1. /\ pc = "swap" /\ SwapTo(req.comp, req.to) /\ req.comp \in Components
        /\ pc' = IF req.kind = "apply" THEN "gate" ELSE "act"
        /\ UNCHANGED <<pending, crumb, req>>
    BY <1>6, <1>f DEF Swap, Goto, journalVars
  <2>2. /\ current'[req.comp] = req.to
        /\ \A c \in Components : c # req.comp => current'[c] = current[c]
    BY <1>f, <2>1 DEF SwapTo
  <2>3. pending[req.comp].version = req.to
    BY <1>b, <2>1 DEF TrialInv, TrialOfMove
  <2>4. CandidateLive' /\ CandidateGood' /\ GoldenAsked' /\ WayBackNamed'
    BY <1>b, <2>1, <2>2
      DEF BadInv, CandidateLive, CandidateGood, GoldenAsked, WayBackNamed, BeforeTheSwap
  <2>5. pending[req.comp].previous \notin Broken[req.comp]
    BY <1>b, <2>1 DEF BadInv, PreviousGood
  <2> QED
    BY <1>b, <1>c, <2>1, <2>2, <2>3, <2>4, <2>5, LinksKeepBad
\* A move that is not an apply goes to golden, so it may end untried.
<1>7. CASE SwapFails
  <2>1. /\ pc = "swap" /\ pc' = "idle" /\ UNCHANGED crumb /\ req.comp \in Components
        /\ UNCHANGED current \/ SwapTo(req.comp, req.to)
        /\ pending' \in {pending, Confirmed(req.comp)}
        /\ req.kind = "apply" => UNCHANGED pending
    BY <1>7, <1>f DEF SwapFails, Fail, TryConfirm, FailedWrite
  <2>2. pending[req.comp].version = req.to
    BY <1>b, <2>1 DEF TrialInv, TrialOfMove
  <2>3. CASE req.kind = "apply" /\ ~UNCHANGED current
    <3>1. /\ SwapTo(req.comp, req.to) /\ UNCHANGED pending
          /\ current'[req.comp] = req.to
          /\ \A c \in Components : c # req.comp => current'[c] = current[c]
      BY <1>f, <2>1, <2>3 DEF SwapTo
    <3>2. pending[req.comp].previous \notin Broken[req.comp]
      BY <1>b, <2>1 DEF BadInv, PreviousGood
    <3> QED
      BY <1>b, <1>c, <1>v, <2>1, <2>2, <3>1, <3>2, LinksKeepBad
  <2>4. CASE req.kind = "apply" /\ UNCHANGED current
    BY <1>k, <1>v, <2>1, <2>4
  <2>5. CASE req.kind # "apply"
    <3>1. req.to \notin Broken[req.comp]
      BY <1>b, <1>f, <2>1, <2>5 DEF BadInv, GoldenAsked, BeforeTheSwap
    <3>2. current[req.comp] \notin Broken[req.comp]
      BY <1>b, <2>1, <2>2, <3>1 DEF BadInv, BadReleaseIsOnTrial
    <3>3. current'[req.comp] \notin Broken[req.comp]
      BY <1>f, <2>1, <3>1, <3>2 DEF SwapTo
    <3> QED
      BY <1>e, <1>v, <2>1, <3>3
  <2> QED
    BY <2>3, <2>4, <2>5
<1>8. CASE Act
  <2>1. /\ pc = "act" /\ pc' = "gate" /\ UNCHANGED <<current, pending, crumb, req>>
    BY <1>8 DEF Act, Goto, storeVars, journalVars
  <2>2. CandidateLive' /\ CandidateGood' /\ GoldenAsked' /\ WayBackNamed'
    BY <1>b, <2>1
      DEF BadInv, CandidateLive, CandidateGood, GoldenAsked, WayBackNamed, BeforeTheSwap
  <2> QED
    BY <1>k, <2>1, <2>2
<1>9. CASE ActFails
  <2>1. /\ pc = "act" /\ pc' = "idle" /\ UNCHANGED <<current, crumb>>
        /\ pending' \in {pending, Confirmed(req.comp)} /\ req.comp \in Components
    BY <1>9, <1>f DEF ActFails, Fail, TryConfirm, FailedWrite, storeVars
  <2>2. current[req.comp] \notin Broken[req.comp]
    BY <1>b, <1>f, <2>1 DEF BadInv, CandidateLive, GoldenAsked
  <2> QED
    BY <1>e, <1>v, <2>1, <2>2
<1>10. CASE GatePasses
  <2>1. /\ pc = "gate" /\ pc' = "commit" /\ UNCHANGED <<current, pending, crumb, req>>
        /\ req.comp \in Components
        /\ Health[req.comp] = "none" \/ CanBeHealthy(req.comp, req.to)
    BY <1>10, <1>f DEF GatePasses, Goto, storeVars, journalVars
  <2>2. req.to \notin Broken[req.comp]
    BY <2>1 DEF Recoverable, CanBeHealthy
  <2>3. CandidateLive' /\ CandidateGood' /\ GoldenAsked' /\ WayBackNamed'
    BY <1>b, <2>1, <2>2
      DEF BadInv, CandidateLive, CandidateGood, GoldenAsked, WayBackNamed, BeforeTheSwap
  <2> QED
    BY <1>k, <2>1, <2>3
<1>11. CASE GateFails
  <2>1. /\ pc = "gate" /\ pc' = "revert" /\ UNCHANGED <<current, pending, crumb, req>>
    BY <1>11 DEF GateFails, Goto, storeVars, journalVars
  <2>2. CandidateLive' /\ CandidateGood' /\ GoldenAsked' /\ WayBackNamed'
    BY <1>b, <2>1
      DEF BadInv, CandidateLive, CandidateGood, GoldenAsked, WayBackNamed, BeforeTheSwap
  <2> QED
    BY <1>k, <2>1, <2>2
<1>12. CASE Commit \/ CommitFails
  <2>1. /\ pc = "commit" /\ pc' \in {"prune", "idle"} /\ UNCHANGED <<current, crumb>>
        /\ pending' \in {pending, Confirmed(req.comp)}
    BY <1>12 DEF Commit, CommitFails, Fail, FailedWrite, storeVars
  <2>2. current[req.comp] \notin Broken[req.comp]
    BY <1>b, <2>1 DEF BadInv, CandidateLive, CandidateGood
  <2> QED
    BY <1>e, <1>v, <2>1, <2>2
<1>13. CASE PruneOne \/ PruneFails \/ RecordApplied \/ RecordRolledBack
  <2>1. /\ pc \in {"prune", "failed"} /\ pc' \in {"prune", "idle", "trials"}
        /\ UNCHANGED <<current, pending, crumb>>
    BY <1>13
      DEF PruneOne, PruneFails, RecordApplied, RecordRolledBack, Return, storeVars,
          journalVars
  <2> QED
    BY <1>k, <1>v, <2>1
\* Nothing to go back to: then nothing can be bad.
<1>14. CASE StuckLive \/ (DisarmFails /\ pc = "revert")
  <2>1. /\ pc = "revert" /\ req.from = None /\ pc' \in {"idle", "trials"}
        /\ UNCHANGED <<current, crumb>>
        /\ pending' \in {pending, Confirmed(req.comp)}
    BY <1>14 DEF StuckLive, DisarmFails, Return, Fail, FailedWrite, storeVars
  <2>2. Broken[req.comp] = {}
    BY <1>b, <2>1 DEF BadInv, WayBackNamed
  <2> QED
    BY <1>e, <1>v, <2>1, <2>2
<1>15. CASE SwapBack \/ SwapBackFails
  <2>1. /\ pc = "revert" /\ req.from # None /\ UNCHANGED <<pending, crumb>>
        /\ req.comp \in Components
        /\ UNCHANGED current \/ SwapTo(req.comp, req.from)
        /\ \/ pc' = "idle"
           \/ pc' = "disarm" /\ UNCHANGED req /\ SwapTo(req.comp, req.from)
    BY <1>15, <1>f DEF SwapBack, SwapBackFails, Goto, Fail, journalVars
  <2>2. req.from \notin Broken[req.comp]
    BY <1>b, <1>f, <2>1 DEF TrialInv, WayBackOnRecord, BadInv, PreviousGood
  <2>3. CandidateLive' /\ CandidateGood' /\ GoldenAsked' /\ WayBackNamed'
    BY <2>1, <2>2
      DEF CandidateLive, CandidateGood, GoldenAsked, WayBackNamed, BeforeTheSwap
  <2>4. CASE UNCHANGED current
    BY <1>k, <2>1, <2>3, <2>4
  <2>5. CASE SwapTo(req.comp, req.from)
    <3>1. current'[req.comp] \notin Broken[req.comp]
      BY <1>f, <2>1, <2>2, <2>5 DEF SwapTo
    <3> QED
      BY <1>e, <2>1, <2>3, <2>5, <3>1
  <2> QED
    BY <2>1, <2>4, <2>5
<1>16. CASE Disarm \/ (DisarmFails /\ pc = "disarm")
  <2>1. /\ pc = "disarm" /\ pc' \in {"failed", "idle"} /\ UNCHANGED <<current, crumb>>
        /\ pending' \in {pending, Confirmed(req.comp)}
    BY <1>16 DEF Disarm, DisarmFails, Goto, Fail, FailedWrite, storeVars
  <2>2. current[req.comp] \notin Broken[req.comp]
    BY <1>b, <2>1 DEF RevertDone, BadInv, WayBackNamed
  <2> QED
    BY <1>e, <1>v, <2>1, <2>2
<1>17. DisarmFails => pc \in {"revert", "disarm"}
  BY DEF DisarmFails
<1> QED
  BY <1>1, <1>2, <1>3, <1>4, <1>5, <1>6, <1>7, <1>8, <1>9, <1>10, <1>11, <1>12,
     <1>13, <1>14, <1>15, <1>16, <1>17 DEF MoveStep

\* A start counts, settles the breadcrumb while there is no trial, and commits
\* only what is healthy.
LEMMA StartupKeepsBad ==
    ASSUME Recoverable, GoodBoard, StartupStep
    PROVE  BadInv'
<1>f. /\ TypeInv
      /\ current \in [Components -> VersionOrNone]
      /\ pending \in [Components -> Trials]
      /\ \A c \in Components :
           /\ None \notin Broken[c]
           /\ CanBeHealthy(c, current[c]) => current[c] \notin Broken[c]
  BY GoodFacts
<1>b. BadInv /\ GoldenInv /\ CrumbSettled /\ PreviousGood /\ BadReleaseIsOnTrial
  BY DEF GoodBoard, BadInv
<1>r. pc \notin RequestPcs => req = NoReq
  BY <1>f DEF TypeInv, NothingAsked
<1> USE DEF RequestPcs
<1>v. ASSUME pc' \in {"rescue", "rescueClear", "rescueRemove", "links", "count",
                      "trials", "idle"}
      PROVE  CandidateLive' /\ CandidateGood' /\ GoldenAsked' /\ WayBackNamed'
  BY <1>v DEF CandidateLive, CandidateGood, GoldenAsked, WayBackNamed, BeforeTheSwap
<1>k. ASSUME UNCHANGED current,
             \/ UNCHANGED pending
             \/ pending' = BootsRecorded
             \/ \E c \in Components :
                  pending' = Confirmed(c) /\ CanBeHealthy(c, current[c]),
             CandidateLive', CandidateGood', GoldenAsked', WayBackNamed', CrumbSettled'
      PROVE  BadInv'
  <2>1. ASSUME NEW x \in Components
        PROVE  \/ /\ pending'[x].version = pending[x].version
                  /\ pending'[x].previous = pending[x].previous
               \/ /\ current'[x] \notin Broken[x]
                  /\ pending'[x].previous \notin Broken[x]
    <3>1. CASE UNCHANGED pending \/ pending' = BootsRecorded
      BY <1>f, <3>1, BootsValues
    <3>2. CASE \E c \in Components :
                 pending' = Confirmed(c) /\ CanBeHealthy(c, current[c])
      <4>1. PICK c \in Components :
              pending' = Confirmed(c) /\ CanBeHealthy(c, current[c])
        BY <3>2
      <4>2. CASE x = c
        BY <1>f, <1>k, <4>1, <4>2, PendingValues DEF NoTrial
      <4>3. CASE x # c
        BY <1>f, <4>1, <4>3 DEF Confirmed
      <4> QED
        BY <4>2, <4>3
    <3> QED
      BY <1>k, <3>1, <3>2
  <2> QED
    BY <1>b, <1>k, <2>1, LinksKeepBad
<1>1. CASE Start \/ RecordRescue
  <2>1. /\ pc' \in {"rescue", "links", "rescueClear"}
        /\ UNCHANGED <<current, pending, crumb>>
        /\ pc' \in {"rescue", "rescueClear"} <=> crumb.there
    BY <1>1, <1>b
      DEF Start, RecordRescue, Goto, storeVars, journalVars, CrumbSettled
  <2>2. CrumbSettled'
    BY <1>b, <2>1 DEF CrumbSettled, OnTrial
  <2> QED
    BY <1>k, <1>v, <2>1, <2>2
\* The trial it clears is not there.
<1>2. CASE ClearRescuedTrial
  <2>1. /\ pc = "rescueClear" /\ pc' = "rescueRemove" /\ UNCHANGED <<current, crumb>>
        /\ \/ UNCHANGED pending
           \/ crumb.comp # None /\ pending' = Confirmed(crumb.comp)
    BY <1>2 DEF ClearRescuedTrial, Goto, TryConfirm, FailedWrite, storeVars
  <2>2. \A c \in Components : pending[c] = NoTrial
    BY <1>b, <2>1 DEF CrumbSettled, OnTrial
  <2>3. UNCHANGED pending
    BY <1>f, <2>1, <2>2 DEF Confirmed
  <2>4. CrumbSettled'
    BY <1>b, <2>1, <2>3 DEF CrumbSettled, OnTrial
  <2> QED
    BY <1>k, <1>v, <2>1, <2>3, <2>4
<1>3. CASE RemoveCrumb
  <2>1. /\ pc = "rescueRemove" /\ pc' = "links" /\ UNCHANGED <<current, pending>>
        /\ crumb' = NoCrumb \/ (MayFailIO /\ crumb' = crumb)
    BY <1>3 DEF RemoveCrumb, Goto, storeVars
  <2>2. CrumbSettled'
    BY <1>b, <2>1 DEF CrumbSettled, NoCrumb
  <2> QED
    BY <1>k, <1>v, <2>1, <2>2
<1>4. ASSUME pc \in {"links", "count", "trials"}, UNCHANGED <<current, crumb>>,
             pc' \in {"count", "trials", "idle", "revert"},
             \/ UNCHANGED pending
             \/ pending' = BootsRecorded
             \/ \E c \in Components :
                  pending' = Confirmed(c) /\ CanBeHealthy(c, current[c]),
             CandidateLive', CandidateGood', GoldenAsked', WayBackNamed'
      PROVE  BadInv'
  <2>1. CrumbSettled'
    BY <1>b, <1>4 DEF CrumbSettled
  <2> QED
    BY <1>k, <1>4, <2>1
<1>5. CASE PublishGolden \/ CountBoot \/ CountBootFails \/ Serve
  <2>1. /\ pc \in {"links", "count", "trials"} /\ pc' \in {"count", "trials", "idle"}
        /\ UNCHANGED <<current, crumb>> /\ pending' \in {pending, BootsRecorded}
    BY <1>5
      DEF PublishGolden, CountBoot, CountBootFails, Serve, Goto, Fail, FailedWrite,
          storeVars, journalVars
  <2> QED
    BY <1>4, <1>v, <2>1
<1>6. ASSUME NEW c \in Components, CommitTrial(c) \/ CommitTrialFails(c)
      PROVE  BadInv'
  <2>1. /\ pc = "trials" /\ pc' \in {"trials", "idle"} /\ UNCHANGED <<current, crumb>>
        /\ pending' \in {pending, Confirmed(c)} /\ CanBeHealthy(c, current[c])
    BY <1>6 DEF CommitTrial, CommitTrialFails, Fail, FailedWrite, storeVars
  <2> QED
    BY <1>4, <1>v, <2>1
<1>7. ASSUME NEW c \in Components, RevertTrial(c)
      PROVE  BadInv'
  <2>1. /\ pc = "trials" /\ pc' = "revert" /\ UNCHANGED <<current, crumb, pending>>
        /\ req'.comp = c /\ req'.from = BootTarget(c)
    BY <1>7 DEF RevertTrial, storeVars, journalVars
  <2>2. Broken[c] # {} => BootTarget(c) # None
    <3>1. Broken[c] # {} => Golden[c] # None /\ dirs[c][Golden[c]] = "whole"
      BY <1>b DEF Recoverable, GoldenInv, GoldenWhole
    <3>2. Broken[c] # {} => IsDir(c, Golden[c])
      BY <3>1, StoreConfigAssumption DEF IsDir, VersionOrNone
    <3>3. Golden[c] # None => BootTarget(c) # None \/ ~IsDir(c, Golden[c])
      BY VersionsAssumption DEF BootTarget, IsDir
    <3> QED
      BY <3>1, <3>2, <3>3
  <2>3. CandidateLive' /\ CandidateGood' /\ GoldenAsked' /\ WayBackNamed'
    BY <2>1, <2>2
      DEF CandidateLive, CandidateGood, GoldenAsked, WayBackNamed, BeforeTheSwap
  <2> QED
    BY <1>4, <2>1, <2>3
<1> QED
  BY <1>1, <1>2, <1>3, <1>5, <1>6, <1>7 DEF StartupStep

\* A request begins with its lock, and the end of the process forgets it.
LEMMA OthersKeepBad ==
    ASSUME Recoverable, GoodBoard, ClientStep \/ Die \/ UNCHANGED vars
    PROVE  BadInv'
<1>b. BadInv /\ CrumbSettled
  BY DEF GoodBoard, BadInv
<1>k. ASSUME UNCHANGED <<current, pending, crumb>>,
             pc' \notin {"rescue", "rescueClear", "rescueRemove"},
             pc' = "down" \/ pc = "idle",
             CandidateLive', CandidateGood', GoldenAsked', WayBackNamed'
      PROVE  BadInv'
  <2>1. CrumbSettled'
    BY <1>b, <1>k DEF CrumbSettled, OnTrial
  <2> QED
    BY <1>b, <1>k, <2>1, LinksKeepBad
<1>v. ASSUME pc' \in {"idle", "down"}
      PROVE  CandidateLive' /\ CandidateGood' /\ GoldenAsked' /\ WayBackNamed'
  BY <1>v DEF CandidateLive, CandidateGood, GoldenAsked, WayBackNamed, BeforeTheSwap
<1>1. CASE ClientStep
  <2>1. PICK c \in Components :
          \/ \E v \in Versions :
               \/ \E t \in Targets : ApplyRefused(c, t, v) \/ ApplyAccepted(c, t, v)
               \/ Select(c, v)
          \/ Rollback(c)
          \/ ResetToGolden(c)
          \/ \E v \in PinVersions : SetPin(c, v)
    BY <1>1 DEF ClientStep
  <2>2. ASSUME NEW v, NEW t, ApplyRefused(c, t, v) \/ SetPin(c, v) PROVE BadInv'
    BY <1>k, <1>v, <2>2 DEF ApplyRefused, SetPin, MayRequest, storeVars, procVars
  <2>3. ASSUME NEW v, NEW t, ApplyAccepted(c, t, v) \/ ResetToGolden(c) PROVE BadInv'
    <3>1. /\ pc = "idle" /\ pc' \in {"stage", "arm"} /\ UNCHANGED <<current, pending, crumb>>
          /\ req'.comp = c
          /\ req'.kind = "apply" \/ req'.to = Golden[c]
      BY <2>3
        DEF ApplyAccepted, ResetToGolden, Begin, MayRequest, storeVars, journalVars
    <3>2. CandidateLive' /\ CandidateGood' /\ GoldenAsked' /\ WayBackNamed'
      BY <3>1 DEF CandidateLive, CandidateGood, GoldenAsked, WayBackNamed
    <3> QED
      BY <1>k, <3>1, <3>2
  <2>4. ~Rollback(c) /\ \A v : ~Select(c, v)
    BY DEF Rollback, Select, MayRequest, ClientsWait, Recoverable
  <2> QED
    BY <2>1, <2>2, <2>3, <2>4
<1>2. CASE Die
  BY <1>2, <1>k, <1>v DEF Die, storeVars, journalVars
<1>3. CASE UNCHANGED vars
  BY <1>3, <1>b
    DEF vars, storeVars, journalVars, procVars, BadInv, BadReleaseIsOnTrial, PreviousGood,
        CandidateLive, CandidateGood, GoldenAsked, WayBackNamed, CrumbSettled, OnTrial
<1> QED
  BY <1>1, <1>2, <1>3

\* A board as it leaves the bench runs its golden release, where one can be bad.
LEMMA InitBad ==
    ASSUME Recoverable, Init
    PROVE  BadInv
<1>1. \A c \in Components : current[c] \notin Broken[c] /\ pending[c] = NoTrial
  BY StoreConfigAssumption
    DEF Recoverable, ClientsWait, Guarded, Init, StoreInit, JournalInit
<1>2. BadReleaseIsOnTrial /\ PreviousGood
  BY <1>1, EngineConfigAssumption, VersionsAssumption
    DEF BadReleaseIsOnTrial, PreviousGood, NoTrial
<1>3. CandidateLive /\ CandidateGood /\ GoldenAsked /\ WayBackNamed /\ CrumbSettled
  BY <1>1
    DEF Init, JournalInit, Recoverable, CandidateLive, CandidateGood, GoldenAsked,
        WayBackNamed, CrumbSettled, OnTrial, BeforeTheSwap
<1> QED
  BY <1>2, <1>3 DEF BadInv

\* A bad release is never live with no trial on record to revert it, "the one
\* state section 7 says cannot happen" (store.rs link_to): with any components,
\* releases and budgets, through crashes and failed writes at every step of every
\* request, revert and start.
THEOREM BadReleaseStaysOnTrial == Recoverable => (Spec => []BadReleaseIsOnTrial)
<1> SUFFICES ASSUME Recoverable PROVE Spec => []BadReleaseIsOnTrial
  OBVIOUS
<1>1. Init => BadInv
  BY InitBad
<1>2. IInv /\ TrialInv /\ RevertDone /\ GoldenInv /\ WholeInv /\ BadInv /\ [Next]_vars
        => BadInv'
  BY MoveKeepsBad, StartupKeepsBad, OthersKeepBad DEF Next, GoodBoard
<1>3. Guarded /\ ClientsWait
  BY DEF Recoverable, ClientsWait
<1>4. BadInv => BadReleaseIsOnTrial
  BY DEF BadInv
<1> QED
  BY <1>1, <1>2, <1>3, <1>4, IInvHolds, TrialInvHolds, RevertDoneHolds, GoldenInvHolds,
     WholeInvHolds, PTL DEF Spec

=============================================================================
