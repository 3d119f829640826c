-------------------------- MODULE UpdateEngineProofs --------------------------
(***************************************************************************)
(* Theorems about UpdateEngine, for any components, versions, budgets and  *)
(* sets of broken releases, with crashes and failed writes.                *)
(*                                                                         *)
(* TypeInv asks nothing of what is on disk, so that it also holds on a     *)
(* board whose link others move.  LiveInstalled is not inductive: a step   *)
(* that deletes a directory keeps it only because what is being deleted is *)
(* not live.  That is known when the request starts (AlreadyCurrent) or    *)
(* prune computes its list, and has to be carried through the steps in     *)
(* between.  RequestInv does the same for what a request decides when it   *)
(* begins and relies on many steps later: the pin of an apply, the target  *)
(* of a rollback.  It is the lock that keeps pins, log and link as they    *)
(* were.                                                                   *)
(***************************************************************************)
EXTENDS UpdateSafety, TLAPS

\* A running request is about a configured component.
RequestNamed == pc \in RequestPcs => req.comp \in Components

\* Nothing is left of a request that has ended.
NothingAsked == pc \notin RequestPcs => req = NoReq

\* What an apply publishes over is not what is live.
StagingAside ==
    pc \in {"stage", "publish", "publishing"} => req.to # current[req.comp]

\* What prune has still to delete is not what is live.
PruningAside == pc = "prune" => current[req.comp] \notin doomed

\* The types, with what they take to be inductive.
TypeInv == TypeOK /\ RequestNamed /\ NothingAsked

\* Nothing that is live is being deleted.
LiveInv == StagingAside /\ PruningAside /\ LiveInstalled

IInv == TypeInv /\ LiveInv

\* The steps of a request before its link has moved.
BeforeTheSwap == {"stage", "publish", "publishing", "arm", "swap"}

\* Only apply stages a release.
OnlyApplyStages == pc \in {"stage", "publish", "publishing"} => req.kind = "apply"

\* What apply was allowed to install is still what the pin allows.
PinStillAllows ==
    req.kind = "apply" /\ pc \in BeforeTheSwap =>
        pins[req.comp] \in {None, req.to}

\* What rollback chose is still a release to roll back to.
TargetStillGood ==
    req.kind = "rollback" /\ pc \in BeforeTheSwap =>
        req.to \in RollbackTargets(req.comp)

RequestInv == OnlyApplyStages /\ PinStillAllows /\ TargetStillGood

\* When a verdict is recorded, what is live is what the revert went back to.
RevertDone == pc \in {"disarm", "failed"} => current[req.comp] = req.from

\* Only a reset to golden, or startup, moves a component to what it came from.
OnlyGoldenStays ==
    pc \in RequestPcs /\ req.to = req.from => req.kind \in {"golden", "boot"}

-----------------------------------------------------------------------------
(* What the helpers return.                                                *)

\* Every entry the engine writes keeps the log a sequence of entries, trimmed
\* or not.
LEMMA RecordType ==
    ASSUME NEW c \in Components, NEW v \in VersionOrNone, NEW o \in Outcomes,
           log \in Seq(Entries), Record(c, v, o)
    PROVE  log' \in Seq(Entries)
<1>1. Entry(c, v, o) \in Entries
  BY DEF Entry, Entries
<1>2. CASE log' = log
  BY <1>2
<1>3. CASE log' = Appended(Entry(c, v, o))
  <2>1. CASE Len(log) < LogCapacity
    BY <1>1, <1>3, <2>1 DEF Appended
  <2>2. CASE ~(Len(log) < LogCapacity)
    <3>1. log # <<>>
      BY <2>2, JournalAssumption
    <3>2. Tail(log) \in Seq(Entries)
      BY <3>1
    <3> QED
      BY <1>1, <1>3, <2>2, <3>2 DEF Appended
  <2> QED
    BY <2>1, <2>2
<1> QED
  BY <1>2, <1>3 DEF Record

\* An entry makes no release bad but the one it names, and that only if it says
\* it was rolled back.  Trimming the log may forget that a release is bad and
\* makes none so: what goes is the oldest entry.
LEMMA KnownBadAfter ==
    ASSUME log \in Seq(Entries),
           NEW c0 \in Components, NEW v0 \in VersionOrNone, NEW o \in Outcomes,
           Record(c0, v0, o),
           NEW c, NEW v \in KnownBad(c)', v \notin KnownBad(c)
    PROVE  o = "RolledBack" /\ c = c0 /\ v = v0
<1> DEFINE e == Entry(c0, v0, o)
           old == IF Len(log) < LogCapacity THEN log ELSE Tail(log)
<1>1. log' = Append(old, e) /\ e \in Entries
  <2>1. log' # log
    BY DEF KnownBad
  <2> QED
    BY <2>1 DEF Record, Appended, Entry, Entries
<1>2. /\ old \in Seq(Entries)
      /\ \/ old = log
         \/ /\ Len(old) = Len(log) - 1
            /\ \A k \in 1..Len(old) : old[k] = log[k + 1]
  <2>1. ~(Len(log) < LogCapacity) => log # <<>>
    BY JournalAssumption
  <2> QED
    BY <2>1
<1> HIDE DEF old, e
<1>3. PICK i \in 1..Len(log') :
        /\ log'[i] = Entry(c, v, "RolledBack")
        /\ \A j \in (i + 1)..Len(log') : ~(log'[j].comp = c /\ log'[j].to = v)
  BY DEF KnownBad
<1>4. /\ Len(log') = Len(old) + 1 /\ Len(old) \in Nat
      /\ log'[Len(old) + 1] = e
      /\ \A k \in 1..Len(old) : log'[k] = old[k]
  BY <1>1, <1>2
<1>5. CASE i = Len(old) + 1
  BY <1>3, <1>4, <1>5 DEF e, Entry
<1>6. CASE i # Len(old) + 1
  <2>1. /\ i \in 1..Len(old)
        /\ old[i] = Entry(c, v, "RolledBack")
        /\ \A j \in (i + 1)..Len(old) : ~(old[j].comp = c /\ old[j].to = v)
    BY <1>3, <1>4, <1>6
  <2>2. v \in Versions
    BY DEF KnownBad
  <2>3. CASE old = log
    BY <2>1, <2>2, <2>3 DEF KnownBad
  <2>4. CASE /\ Len(old) = Len(log) - 1
             /\ \A k \in 1..Len(old) : old[k] = log[k + 1]
    <3>1. Len(log) \in Nat
      OBVIOUS
    <3>2. i + 1 \in 1..Len(log) /\ log[i + 1] = Entry(c, v, "RolledBack")
      BY <1>4, <2>1, <2>4, <3>1
    <3>3. ASSUME NEW j \in (i + 2)..Len(log)
          PROVE  ~(log[j].comp = c /\ log[j].to = v)
      <4>1. j - 1 \in (i + 1)..Len(old) /\ old[j - 1] = log[j]
        BY <1>4, <2>1, <2>4, <3>1, <3>3
      <4> QED
        BY <2>1, <4>1
    <3> QED
      BY <2>2, <3>2, <3>3 DEF KnownBad
  <2> QED
    BY <1>2, <2>3, <2>4
<1> QED
  BY <1>5, <1>6

\* The three writes of the boot counter keep it a function to trials.
LEMMA PendingTypes ==
    ASSUME pending \in [Components -> Trials]
    PROVE  /\ \A c \in Components, v, p \in VersionOrNone :
                Armed(c, v, p) \in [Components -> Trials]
           /\ \A c \in Components : Confirmed(c) \in [Components -> Trials]
           /\ BootsRecorded \in [Components -> Trials]
<1>1. NoTrial \in Trials
  BY JournalAssumption DEF NoTrial, Trials, VersionOrNone
<1>2. ASSUME NEW v \in VersionOrNone, NEW p \in VersionOrNone
      PROVE  [version |-> v, previous |-> p, boots |-> 0] \in Trials
  BY JournalAssumption DEF Trials
<1>3. \A c \in Components, v, p \in VersionOrNone :
        Armed(c, v, p) \in [Components -> Trials]
  BY <1>2 DEF Armed
<1>4. \A c \in Components : Confirmed(c) \in [Components -> Trials]
  BY <1>1 DEF Confirmed
<1>5. ASSUME NEW c \in Components, pending[c].boots # MaxBootAttempts
      PROVE  [pending[c] EXCEPT !.boots = @ + 1] \in Trials
  BY <1>5, JournalAssumption DEF Trials
<1>6. BootsRecorded \in [Components -> Trials]
  BY <1>5 DEF BootsRecorded
<1> QED
  BY <1>3, <1>4, <1>6

\* The request is over.
Ended == pc' \notin RequestPcs /\ req' = NoReq

\* Both ways a request ends, and a failed write, keep the types.  Ending leaves
\* the request states.
LEMMA EndTypes ==
    ASSUME TypeOK
    PROVE  /\ Return => EngineTypeOK' /\ Ended
           /\ Fail /\ (req.kind = "apply" => req.comp \in Components)
                => EngineTypeOK' /\ log' \in Seq(Entries) /\ Ended
<1> USE DEF TypeOK, EngineTypeOK
<1>1. NoReq \in Reqs
  BY DEF NoReq, Reqs, Kinds, VersionOrNone
<1>2. Return => EngineTypeOK' /\ Ended
  BY <1>1 DEF Return, Pcs, RequestPcs, StartupPcs, Ended
<1>3. ASSUME Fail, req.kind = "apply" => req.comp \in Components
      PROVE  EngineTypeOK' /\ log' \in Seq(Entries) /\ Ended
  <2>1. EngineTypeOK' /\ Ended
    BY <1>1, <1>3 DEF Fail, Pcs, RequestPcs, StartupPcs, Ended
  <2>2. CASE req.kind = "apply"
    <3>1. Record(req.comp, None, "Aborted")
      BY <1>3, <2>2 DEF Fail
    <3> QED
      BY <1>3, <2>1, <2>2, <3>1, RecordType
        DEF JournalTypeOK, VersionOrNone, Outcomes
  <2>3. CASE req.kind # "apply"
    BY <1>3, <2>1, <2>3 DEF Fail, JournalTypeOK
  <2> QED
    BY <2>1, <2>2, <2>3
<1> QED
  BY <1>2, <1>3

\* What the removals and renames of the store keep.
LEMMA StoreTypes ==
    ASSUME StoreTypeOK
    PROVE  /\ \A c \in Components : \A v : Removed(c, v) =>
                /\ dirs' \in [Components -> [Versions -> DirStates]]
                /\ \A x \in Components : \A w \in Versions :
                     (x # c \/ w # v) => dirs'[x][w] = dirs[x][w]
           /\ \A c \in Components : \A v : SwapTo(c, v) =>
                /\ current' \in [Components -> VersionOrNone]
                /\ current'[c] = v
                /\ \A x \in Components : x # c => current'[x] = current[x]
           /\ RefreshGoldenLinks => goldenLink' \in [Components -> VersionOrNone]
<1> USE DEF StoreTypeOK
<1>1. ASSUME NEW c \in Components, NEW v, Removed(c, v)
      PROVE  /\ dirs' \in [Components -> [Versions -> DirStates]]
             /\ \A x \in Components : \A w \in Versions :
                  (x # c \/ w # v) => dirs'[x][w] = dirs[x][w]
  <2>1. PICK s \in {"partial", "absent"} :
          dirs' = [dirs EXCEPT ![c][v] = IF @ = "absent" THEN "absent" ELSE s]
    BY <1>1 DEF Removed
  <2>2. PICK t \in DirStates : dirs' = [dirs EXCEPT ![c] = [@ EXCEPT ![v] = t]]
    BY <2>1 DEF DirStates
  <2>3. [dirs[c] EXCEPT ![v] = t] \in [Versions -> DirStates]
    BY <2>2
  <2> QED
    BY <2>2, <2>3
<1>2. ASSUME NEW c \in Components, NEW v, SwapTo(c, v)
      PROVE  /\ current' \in [Components -> VersionOrNone]
             /\ current'[c] = v
             /\ \A x \in Components : x # c => current'[x] = current[x]
  BY <1>2 DEF SwapTo, IsDir, VersionOrNone
<1>3. RefreshGoldenLinks => goldenLink' \in [Components -> VersionOrNone]
  BY StoreConfigAssumption DEF RefreshGoldenLinks
<1> QED
  BY <1>1, <1>2, <1>3

-----------------------------------------------------------------------------
(* TypeInv is inductive.                                                   *)

\* A board as it leaves the bench.
LEMMA InitTypes == Init => TypeInv
<1> SUFFICES ASSUME Init PROVE TypeInv
  OBVIOUS
<1>1. StoreTypeOK
  BY StoreConfigAssumption
    DEF Init, StoreInit, StoreTypeOK, DirStates, VersionOrNone
<1>2. JournalTypeOK
  BY LeftCrumbsAssumption, JournalAssumption
    DEF Init, JournalInit, JournalTypeOK, NoTrial, Trials, NoCrumb, Crumbs,
        VersionOrNone
<1>3. EngineTypeOK
  BY DEF Init, EngineTypeOK, NoReq, Reqs, Kinds, VersionOrNone, Pcs
<1>4. RequestNamed /\ NothingAsked
  BY DEF Init, RequestNamed, NothingAsked, RequestPcs
<1> QED
  BY <1>1, <1>2, <1>3, <1>4 DEF TypeInv, TypeOK

\* A request that begins is about a component and a version.
LEMMA BeginKeepsTypes ==
    ASSUME TypeInv, NEW k \in Kinds, NEW c \in Components, NEW v \in Versions,
           NEW at \in {"stage", "arm"}, Begin(k, c, v, at)
    PROVE  TypeInv'
<1> USE DEF TypeInv, TypeOK
<1>1. req' \in Reqs /\ req'.comp = c
  BY DEF Begin, Reqs, StoreTypeOK, VersionOrNone
<1>2. UNCHANGED <<storeVars, journalVars, doomed, todo>> /\ pc' = at
  BY DEF Begin
<1>3. TypeOK'
  BY <1>1, <1>2
    DEF storeVars, journalVars, StoreTypeOK, JournalTypeOK, EngineTypeOK,
        Pcs, RequestPcs
<1>4. RequestNamed' /\ NothingAsked'
  BY <1>1, <1>2 DEF RequestNamed, NothingAsked, RequestPcs
<1> QED
  BY <1>3, <1>4

\* A refusal is an entry in the log.
LEMMA EntryKeepsTypes ==
    ASSUME TypeInv, NEW c \in Components, Record(c, None, "Aborted"),
           UNCHANGED <<storeVars, pending, pins, crumb, procVars>>
    PROVE  TypeInv'
<1>1. log' \in Seq(Entries)
  BY RecordType DEF TypeInv, TypeOK, JournalTypeOK, VersionOrNone, Outcomes
<1> QED
  BY <1>1
    DEF storeVars, procVars, TypeInv, TypeOK, StoreTypeOK, JournalTypeOK,
        EngineTypeOK, RequestNamed, NothingAsked

\* A client's request starts from what is installed.
LEMMA ClientKeepsTypes ==
    ASSUME TypeInv, ClientStep
    PROVE  TypeInv'
<1>1. PICK c \in Components :
        \/ \E v \in Versions :
             \/ \E t \in Targets : ApplyRefused(c, t, v) \/ ApplyAccepted(c, t, v)
             \/ Select(c, v)
        \/ Rollback(c)
        \/ ResetToGolden(c)
        \/ \E v \in PinVersions : SetPin(c, v)
  BY DEF ClientStep
<1>2. ASSUME NEW t \in Targets, NEW v \in Versions, ApplyRefused(c, t, v)
      PROVE  TypeInv'
  BY <1>2, EntryKeepsTypes DEF ApplyRefused
<1>3. ASSUME NEW t \in Targets, NEW v \in Versions, ApplyAccepted(c, t, v)
      PROVE  TypeInv'
  BY <1>3, BeginKeepsTypes DEF ApplyAccepted, Kinds
<1>4. ASSUME NEW v \in Versions, Select(c, v)
      PROVE  TypeInv'
  BY <1>4, BeginKeepsTypes DEF Select, Kinds
<1>5. ASSUME Rollback(c)
      PROVE  TypeInv'
  BY <1>5, BeginKeepsTypes DEF Rollback, RollbackTargets, Installed, Kinds
<1>6. ASSUME ResetToGolden(c)
      PROVE  TypeInv'
  BY <1>6, BeginKeepsTypes DEF ResetToGolden, IsDir, Kinds
<1>7. ASSUME NEW v \in PinVersions, SetPin(c, v)
      PROVE  TypeInv'
  <2>1. pins' \in [Components -> VersionOrNone]
    BY <1>7, EngineConfigAssumption DEF SetPin, TypeInv, TypeOK, JournalTypeOK
  <2> QED
    BY <1>7, <2>1
      DEF SetPin, storeVars, procVars, TypeInv, TypeOK, StoreTypeOK,
          JournalTypeOK, EngineTypeOK, RequestNamed, NothingAsked
<1> QED
  BY <1>1, <1>2, <1>3, <1>4, <1>5, <1>6, <1>7

\* A step from one state of a request, or of startup, to another that changes
\* nothing but the disk, and keeps that well-formed.
LEMMA GotoKeepsTypes ==
    ASSUME TypeInv, NEW where \in Pcs, Goto(where),
           (pc \in RequestPcs) <=> (where \in RequestPcs),
           StoreTypeOK', JournalTypeOK'
    PROVE  TypeInv'
BY DEF TypeInv, TypeOK, EngineTypeOK, Goto, RequestNamed, NothingAsked

\* A step that leaves the request states.
LEMMA EndKeepsTypes ==
    ASSUME StoreTypeOK', JournalTypeOK', EngineTypeOK', Ended
    PROVE  TypeInv'
BY DEF TypeInv, TypeOK, RequestNamed, NothingAsked, RequestPcs, Ended

\* Nothing in the store moves.
LEMMA StoreKept ==
    ASSUME StoreTypeOK, UNCHANGED storeVars
    PROVE  StoreTypeOK'
BY DEF StoreTypeOK, storeVars

\* The journal's types, when nothing but the trials moves.
LEMMA TrialKept ==
    ASSUME JournalTypeOK, UNCHANGED <<pins, crumb>>, log' \in Seq(Entries),
           NEW c \in Components, NEW v \in VersionOrNone, NEW p \in VersionOrNone,
           pending' \in {pending, Armed(c, v, p), Confirmed(c), BootsRecorded}
    PROVE  JournalTypeOK'
<1>1. pending \in [Components -> Trials]
  BY DEF JournalTypeOK
<1>2. /\ Armed(c, v, p) \in [Components -> Trials]
      /\ Confirmed(c) \in [Components -> Trials]
      /\ BootsRecorded \in [Components -> Trials]
  BY <1>1, PendingTypes
<1>3. pending' \in [Components -> Trials]
  BY <1>1, <1>2
<1> QED
  BY <1>3 DEF JournalTypeOK

\* The steps of a running request.
LEMMA MoveKeepsTypes ==
    ASSUME TypeInv, MoveStep
    PROVE  TypeInv'
<1> DEFINE c == req.comp
<1> USE DEF Pcs, RequestPcs, StartupPcs
<1>t. StoreTypeOK /\ JournalTypeOK /\ EngineTypeOK
  BY DEF TypeInv, TypeOK
<1>r. pc \in RequestPcs =>
        /\ c \in Components
        /\ req.to \in VersionOrNone /\ req.from \in VersionOrNone
  BY DEF TypeInv, TypeOK, EngineTypeOK, Reqs, RequestNamed
<1>j. ASSUME UNCHANGED <<log, pins, crumb>>, pc \in RequestPcs,
             \/ UNCHANGED pending
             \/ pending' = Confirmed(c)
             \/ pending' = Armed(c, req.to, req.from)
      PROVE  JournalTypeOK'
  <2>1. pending' \in {pending, Armed(c, req.to, req.from), Confirmed(c), BootsRecorded}
    BY <1>j
  <2> HIDE DEF c
  <2> QED
    BY <1>j, <1>r, <1>t, <2>1, TrialKept DEF JournalTypeOK
\* An error.
<1>f. ASSUME Fail, pc \in RequestPcs, StoreTypeOK', UNCHANGED <<pins, crumb>>,
             \/ UNCHANGED pending
             \/ pending' = Confirmed(c)
             \/ FailedWrite(Confirmed(c))
             \/ FailedWrite(Armed(c, req.to, req.from))
      PROVE  TypeInv'
  <2>1. EngineTypeOK' /\ log' \in Seq(Entries) /\ Ended
    BY <1>f, <1>r, EndTypes DEF TypeInv
  <2>2. pending' \in {pending, Armed(c, req.to, req.from), Confirmed(c), BootsRecorded}
    BY <1>f DEF FailedWrite
  <2>3. JournalTypeOK'
    <3> HIDE DEF c
    <3> QED
      BY <1>f, <1>r, <1>t, <2>1, <2>2, TrialKept
  <2> QED
    BY <1>f, <2>1, <2>3, EndKeepsTypes
\* A step on the way.
<1>g. ASSUME NEW where \in RequestPcs, Goto(where), pc \in RequestPcs,
             StoreTypeOK', UNCHANGED <<log, pins, crumb>>,
             \/ UNCHANGED pending
             \/ pending' = Confirmed(c)
             \/ pending' = Armed(c, req.to, req.from)
      PROVE  TypeInv'
  BY <1>g, <1>j, GotoKeepsTypes
\* The end, with its entry.
<1>e. ASSUME Return, NEW v \in VersionOrNone, NEW o \in Outcomes,
             pc \in RequestPcs, Record(c, v, o) \/ UNCHANGED log,
             UNCHANGED <<storeVars, pins, crumb>>,
             \/ UNCHANGED pending
             \/ pending' = Confirmed(c)
      PROVE  TypeInv'
  <2>1. log' \in Seq(Entries)
    BY <1>e, <1>r, <1>t, RecordType DEF JournalTypeOK
  <2>2. pending' \in {pending, Armed(c, None, None), Confirmed(c), BootsRecorded}
    BY <1>e
  <2>3. JournalTypeOK'
    <3>1. None \in VersionOrNone
      BY DEF VersionOrNone
    <3> HIDE DEF c
    <3> QED
      BY <1>e, <1>r, <1>t, <2>1, <2>2, <3>1, TrialKept
  <2>4. EngineTypeOK' /\ Ended
    BY <1>e, EndTypes DEF TypeInv
  <2> QED
    BY <1>e, <1>t, <2>3, <2>4, StoreKept, EndKeepsTypes
\* `current` moves.
<1>s. ASSUME pc \in RequestPcs, NEW v, SwapTo(c, v) \/ UNCHANGED current,
             UNCHANGED <<dirs, goldenLink>>
      PROVE  StoreTypeOK'
  BY <1>r, <1>s, <1>t, StoreTypes DEF StoreTypeOK
<1>1. ASSUME StageEnds PROVE TypeInv'
  <2>1. CASE Fail
    BY <1>1, <1>f, <1>t, <2>1, StoreKept DEF StageEnds
  <2>2. CASE Return /\ UNCHANGED log
    BY <1>1, <1>e, <2>2 DEF StageEnds, VersionOrNone, Outcomes
  <2> QED
    BY <1>1, <2>1, <2>2 DEF StageEnds
<1>2. ASSUME Stage PROVE TypeInv'
  <2>1. /\ req' \in Reqs /\ req'.comp = c
        /\ UNCHANGED <<storeVars, journalVars, doomed, todo>>
        /\ pc = "stage" /\ pc' = "publish"
    BY <1>2, <1>r, <1>t DEF Stage, EngineTypeOK, StoreTypeOK, Reqs
  <2>2. EngineTypeOK' /\ JournalTypeOK'
    BY <1>t, <2>1 DEF EngineTypeOK, JournalTypeOK, journalVars
  <2> QED
    BY <1>r, <1>t, <2>1, <2>2, StoreKept DEF TypeInv, TypeOK, RequestNamed, NothingAsked
<1>3. ASSUME ClearRelease PROVE TypeInv'
  <2>1. StoreTypeOK'
    BY <1>3, <1>r, <1>t, StoreTypes DEF ClearRelease, StoreTypeOK
  <2> QED
    BY <1>3, <1>g, <2>1 DEF ClearRelease, journalVars
<1>4. ASSUME PublishRelease PROVE TypeInv'
  <2>1. dirs' = [dirs EXCEPT ![c] = [@ EXCEPT ![req.to] = "whole"]]
    BY <1>4 DEF PublishRelease
  <2>2. dirs' \in [Components -> [Versions -> DirStates]]
    BY <1>t, <2>1 DEF StoreTypeOK, DirStates
  <2>3. StoreTypeOK'
    BY <1>4, <1>t, <2>2 DEF PublishRelease, StoreTypeOK
  <2> QED
    BY <1>4, <1>g, <2>3 DEF PublishRelease, journalVars
<1>5. ASSUME PublishFails PROVE TypeInv'
  BY <1>5, <1>f, <1>t, StoreKept DEF PublishFails
<1>6. ASSUME Arm PROVE TypeInv'
  BY <1>6, <1>g, <1>t, StoreKept DEF Arm
<1>7. ASSUME ArmFails PROVE TypeInv'
  BY <1>7, <1>f, <1>t, StoreKept DEF ArmFails
<1>8. ASSUME Swap PROVE TypeInv'
  BY <1>8, <1>g, <1>s DEF Swap, journalVars
<1>9. ASSUME SwapFails PROVE TypeInv'
  <2>1. StoreTypeOK'
    BY <1>9, <1>s DEF SwapFails
  <2> QED
    BY <1>9, <1>f, <2>1 DEF SwapFails, TryConfirm
<1>10. ASSUME Act PROVE TypeInv'
  BY <1>10, <1>g, <1>t, StoreKept DEF Act, journalVars
<1>11. ASSUME ActFails PROVE TypeInv'
  BY <1>11, <1>f, <1>t, StoreKept DEF ActFails, TryConfirm
<1>12. ASSUME GatePasses PROVE TypeInv'
  BY <1>12, <1>g, <1>t, StoreKept DEF GatePasses, journalVars
<1>13. ASSUME GateFails PROVE TypeInv'
  BY <1>13, <1>g, <1>t, StoreKept DEF GateFails, journalVars
<1>14. ASSUME Commit PROVE TypeInv'
  <2>1. /\ pc = "commit" /\ pc' = "prune" /\ pending' = Confirmed(c)
        /\ UNCHANGED <<storeVars, log, pins, crumb, req, todo>>
        /\ doomed' \subseteq Versions
    BY <1>14 DEF Commit, Doomed, PruneCandidates, Installed
  <2>2. JournalTypeOK' /\ EngineTypeOK'
    BY <1>j, <1>t, <2>1 DEF EngineTypeOK
  <2> QED
    BY <1>r, <1>t, <2>1, <2>2, StoreKept DEF TypeInv, TypeOK, RequestNamed, NothingAsked
<1>15. ASSUME CommitFails PROVE TypeInv'
  BY <1>15, <1>f, <1>t, StoreKept DEF CommitFails
<1>16. ASSUME PruneOne PROVE TypeInv'
  <2>1. PICK v \in doomed : Removed(c, v) /\ doomed' \subseteq doomed
    BY <1>16 DEF PruneOne
  <2>2. /\ UNCHANGED <<current, goldenLink, journalVars, pc, req, todo>>
        /\ pc = "prune"
    BY <1>16 DEF PruneOne
  <2>3. StoreTypeOK'
    BY <1>r, <1>t, <2>1, <2>2, StoreTypes DEF StoreTypeOK
  <2>4. EngineTypeOK' /\ JournalTypeOK'
    BY <1>t, <2>1, <2>2 DEF EngineTypeOK, JournalTypeOK, journalVars
  <2> QED
    BY <2>2, <2>3, <2>4 DEF TypeInv, TypeOK, RequestNamed, NothingAsked
<1>17. ASSUME PruneFails PROVE TypeInv'
  BY <1>17
    DEF PruneFails, storeVars, journalVars, TypeInv, TypeOK, StoreTypeOK,
        JournalTypeOK, EngineTypeOK, RequestNamed, NothingAsked
<1>18. ASSUME RecordApplied PROVE TypeInv'
  BY <1>18, <1>r, <1>e DEF RecordApplied, Outcomes
<1>19. ASSUME StuckLive PROVE TypeInv'
  <2>1. (IF req.kind = "boot" THEN None ELSE req.to) \in VersionOrNone
    BY <1>19, <1>r DEF StuckLive, VersionOrNone
  <2> QED
    BY <1>19, <2>1, <1>e DEF StuckLive, Outcomes
<1>20. ASSUME SwapBack PROVE TypeInv'
  BY <1>20, <1>g, <1>s DEF SwapBack, journalVars
<1>21. ASSUME SwapBackFails PROVE TypeInv'
  <2>1. StoreTypeOK'
    BY <1>21, <1>s DEF SwapBackFails
  <2> QED
    BY <1>21, <1>f, <2>1 DEF SwapBackFails
<1>22. ASSUME Disarm PROVE TypeInv'
  BY <1>22, <1>g, <1>t, StoreKept DEF Disarm
<1>23. ASSUME DisarmFails PROVE TypeInv'
  BY <1>23, <1>f, <1>t, StoreKept DEF DisarmFails
<1>24. ASSUME RecordRolledBack PROVE TypeInv'
  <2>1. (IF req.kind = "boot" THEN req.from ELSE req.to) \in VersionOrNone
    BY <1>24, <1>r DEF RecordRolledBack
  <2> QED
    BY <1>24, <2>1, <1>e DEF RecordRolledBack, Outcomes
<1> HIDE DEF c
<1> QED
  BY <1>1, <1>2, <1>3, <1>4, <1>5, <1>6, <1>7, <1>8, <1>9, <1>10, <1>11, <1>12,
     <1>13, <1>14, <1>15, <1>16, <1>17, <1>18, <1>19, <1>20, <1>21, <1>22, <1>23,
     <1>24 DEF MoveStep

\* What startup settles.
LEMMA StartupKeepsTypes ==
    ASSUME TypeInv, StartupStep
    PROVE  TypeInv'
<1> USE DEF Pcs, RequestPcs, StartupPcs
<1>t. StoreTypeOK /\ JournalTypeOK /\ EngineTypeOK
  BY DEF TypeInv, TypeOK
<1>g. ASSUME NEW where \in Pcs \ RequestPcs, Goto(where), pc \notin RequestPcs,
             StoreTypeOK', JournalTypeOK'
      PROVE  TypeInv'
  BY <1>g, GotoKeepsTypes
<1>c. /\ crumb.comp \in Components \union {None}
      /\ crumb.to \in VersionOrNone
  BY <1>t DEF JournalTypeOK, Crumbs
<1>n. None \in VersionOrNone
  BY DEF VersionOrNone
<1>f. ASSUME Fail, pc \notin RequestPcs, UNCHANGED <<storeVars, pins, crumb>>,
             pending' \in [Components -> Trials]
      PROVE  TypeInv'
  <2>1. req.kind # "apply"
    BY <1>f DEF TypeInv, NothingAsked, NoReq
  <2>2. EngineTypeOK' /\ Ended /\ log' \in Seq(Entries)
    BY <1>f, <2>1, EndTypes DEF TypeInv
  <2> QED
    BY <1>f, <1>t, <2>2, StoreKept, EndKeepsTypes DEF JournalTypeOK
<1>p. /\ pending \in [Components -> Trials]
      /\ BootsRecorded \in [Components -> Trials]
      /\ \A c \in Components : Confirmed(c) \in [Components -> Trials]
  BY <1>t, PendingTypes DEF JournalTypeOK
<1>1. ASSUME Start PROVE TypeInv'
  BY <1>1, <1>g, <1>t, StoreKept DEF Start, JournalTypeOK, journalVars
<1>2. ASSUME RecordRescue PROVE TypeInv'
  <2>1. log' \in Seq(Entries)
    <3>1. CASE crumb.comp = None
      BY <1>2, <1>t, <3>1 DEF RecordRescue, JournalTypeOK
    <3>2. CASE crumb.comp # None
      BY <1>2, <1>c, <1>t, <3>2, RecordType
        DEF RecordRescue, JournalTypeOK, Outcomes
    <3> QED
      BY <3>1, <3>2
  <2>2. JournalTypeOK'
    BY <1>2, <1>t, <2>1 DEF RecordRescue, JournalTypeOK
  <2> QED
    BY <1>2, <1>g, <1>t, <2>2, StoreKept DEF RecordRescue
<1>3. ASSUME ClearRescuedTrial PROVE TypeInv'
  <2>1. pending' \in [Components -> Trials]
    BY <1>3, <1>c, <1>p DEF ClearRescuedTrial, TryConfirm, FailedWrite
  <2>2. JournalTypeOK'
    BY <1>3, <1>t, <2>1 DEF ClearRescuedTrial, JournalTypeOK
  <2> QED
    BY <1>3, <1>g, <1>t, <2>2, StoreKept DEF ClearRescuedTrial
<1>4. ASSUME RemoveCrumb PROVE TypeInv'
  <2>1. NoCrumb \in Crumbs
    BY DEF NoCrumb, Crumbs, VersionOrNone
  <2>2. JournalTypeOK'
    BY <1>4, <1>t, <2>1 DEF RemoveCrumb, JournalTypeOK
  <2> QED
    BY <1>4, <1>g, <1>t, <2>2, StoreKept DEF RemoveCrumb
<1>5. ASSUME PublishGolden PROVE TypeInv'
  <2>1. StoreTypeOK'
    BY <1>5, <1>t, StoreTypes DEF PublishGolden, StoreTypeOK
  <2>2. JournalTypeOK'
    BY <1>5, <1>t DEF PublishGolden, JournalTypeOK, journalVars
  <2> QED
    BY <1>5, <1>g, <2>1, <2>2 DEF PublishGolden
<1>6. ASSUME CountBoot PROVE TypeInv'
  <2>1. JournalTypeOK' /\ EngineTypeOK'
    BY <1>6, <1>p, <1>t DEF CountBoot, JournalTypeOK, EngineTypeOK
  <2> QED
    BY <1>6, <1>t, <2>1, StoreKept
      DEF CountBoot, TypeInv, TypeOK, RequestNamed, NothingAsked
<1>7. ASSUME CountBootFails PROVE TypeInv'
  BY <1>7, <1>f, <1>p DEF CountBootFails, FailedWrite
<1>8. ASSUME NEW c \in Components, CommitTrial(c) PROVE TypeInv'
  <2>1. JournalTypeOK' /\ EngineTypeOK'
    BY <1>8, <1>p, <1>t DEF CommitTrial, JournalTypeOK, EngineTypeOK
  <2> QED
    BY <1>8, <1>t, <2>1, StoreKept
      DEF CommitTrial, TypeInv, TypeOK, RequestNamed, NothingAsked
<1>9. ASSUME NEW c \in Components, CommitTrialFails(c) PROVE TypeInv'
  BY <1>9, <1>f, <1>p DEF CommitTrialFails, FailedWrite
<1>10. ASSUME NEW c \in Components, RevertTrial(c) PROVE TypeInv'
  <2>1. /\ pc' = "revert" /\ todo' = todo \ {c}
        /\ UNCHANGED <<storeVars, journalVars, doomed>>
        /\ req' = [kind |-> "boot", comp |-> c,
                   to |-> pending[c].version, from |-> BootTarget(c)]
    BY <1>10 DEF RevertTrial
  <2>2. BootTarget(c) \in VersionOrNone
    BY <1>n, StoreConfigAssumption DEF BootTarget, IsDir, VersionOrNone
  <2>3. pending[c].version \in VersionOrNone
    BY <1>t DEF JournalTypeOK, Trials
  <2>4. req' \in Reqs
    BY <2>1, <2>2, <2>3 DEF Reqs, Kinds
  <2>5. EngineTypeOK' /\ JournalTypeOK'
    BY <1>t, <2>1, <2>4 DEF EngineTypeOK, JournalTypeOK, journalVars
  <2> QED
    BY <1>t, <2>1, <2>5, StoreKept DEF TypeInv, TypeOK, RequestNamed, NothingAsked
<1>11. ASSUME Serve PROVE TypeInv'
  BY <1>11, <1>g, <1>t, StoreKept DEF Serve, JournalTypeOK, journalVars
<1> QED
  BY <1>1, <1>2, <1>3, <1>4, <1>5, <1>6, <1>7, <1>8, <1>9, <1>10, <1>11
    DEF StartupStep

\* Every step of the engine keeps its types; the disk need not be in any
\* particular order for that.
LEMMA NextKeepsTypes == TypeInv /\ [Next]_vars => TypeInv'
<1>1. TypeInv /\ Die => TypeInv'
  <2>1. NoReq \in Reqs
    BY DEF NoReq, Reqs, Kinds, VersionOrNone
  <2> QED
    BY <2>1
      DEF Die, storeVars, journalVars, TypeInv, TypeOK, StoreTypeOK, JournalTypeOK,
          EngineTypeOK, RequestNamed, NothingAsked, Pcs, RequestPcs
<1>2. TypeInv /\ UNCHANGED vars => TypeInv'
  BY DEF vars, storeVars, journalVars, procVars, TypeInv, TypeOK, StoreTypeOK,
         JournalTypeOK, EngineTypeOK, RequestNamed, NothingAsked
<1> QED
  BY <1>1, <1>2, ClientKeepsTypes, MoveKeepsTypes, StartupKeepsTypes DEF Next

-----------------------------------------------------------------------------
(* LiveInv is preserved: what is deleted is not live, and `current` only   *)
(* moves to what is there.                                                 *)

\* The store does not move, and what is staged or pruned is as before.
LEMMA IdleKeepsLive ==
    ASSUME LiveInv, UNCHANGED <<dirs, current>>,
           pc' \in {"stage", "publish", "publishing"}
             => req'.to # current[req'.comp],
           pc' = "prune" => current[req'.comp] \notin doomed'
    PROVE  LiveInv'
BY DEF LiveInv, StagingAside, PruningAside, LiveInstalled, IsDir

\* `current` moves, and only to a release that is there.
LEMMA SwapKeepsLive ==
    ASSUME TypeInv, LiveInv, NEW c \in Components, NEW v,
           SwapTo(c, v) \/ UNCHANGED current, UNCHANGED dirs,
           pc' \notin {"stage", "publish", "publishing", "prune"}
    PROVE  LiveInv'
<1>1. ASSUME NEW x \in Components, current'[x] # None
      PROVE  IsDir(x, current[x])'
  <2>1. CASE UNCHANGED current
    BY <1>1, <2>1 DEF LiveInv, LiveInstalled, IsDir
  <2>2. CASE SwapTo(c, v)
    BY <1>1, <2>2 DEF SwapTo, IsDir, LiveInv, LiveInstalled, TypeInv, TypeOK, StoreTypeOK
  <2> QED
    BY <2>1, <2>2
<1> QED
  BY <1>1 DEF LiveInv, StagingAside, PruningAside, LiveInstalled

\* A directory that is not live goes, in part or whole.
LEMMA RemovalKeepsLive ==
    ASSUME TypeInv, LiveInv, NEW c \in Components, NEW v, v # current[c],
           Removed(c, v), UNCHANGED current
    PROVE  LiveInstalled'
<1> SUFFICES ASSUME NEW x \in Components, current'[x] # None
             PROVE  IsDir(x, current[x])'
  BY DEF LiveInstalled
<1>1. current[x] \in Versions /\ dirs[x][current[x]] # "absent"
  BY DEF LiveInv, LiveInstalled, IsDir
<1>2. x # c \/ current[x] # v
  OBVIOUS
<1> QED
  BY <1>1, <1>2, StoreTypes DEF TypeInv, TypeOK, IsDir

\* The steps of a running request, one by one.
LEMMA MoveKeepsLive ==
    ASSUME TypeInv, LiveInv, MoveStep
    PROVE  LiveInv'
<1>r. pc \in RequestPcs => req.comp \in Components
  BY DEF TypeInv, RequestNamed
<1> USE DEF RequestPcs
<1>1. CASE StageEnds \/ PublishFails \/ ArmFails \/ ActFails \/ CommitFails \/ DisarmFails
  BY <1>1, IdleKeepsLive
    DEF StageEnds, PublishFails, ArmFails, ActFails, CommitFails, DisarmFails, Fail,
        Return, storeVars
<1>2. CASE Stage
  <2>1. req'.to = req.to /\ req'.comp = req.comp /\ pc = "stage" /\ pc' = "publish"
    BY <1>2 DEF Stage, TypeInv, TypeOK, EngineTypeOK, Reqs
  <2> QED
    BY <1>2, <2>1, IdleKeepsLive DEF Stage, storeVars, LiveInv, StagingAside
<1>3. CASE ClearRelease
  <2>1. /\ pc = "publish" /\ pc' = "publishing" /\ UNCHANGED <<current, req>>
        /\ Removed(req.comp, req.to)
    BY <1>3 DEF ClearRelease, Goto
  <2>2. req.to # current[req.comp]
    BY <2>1 DEF LiveInv, StagingAside
  <2>3. LiveInstalled'
    BY <1>r, <2>1, <2>2, RemovalKeepsLive
  <2> QED
    BY <2>1, <2>2, <2>3 DEF LiveInv, StagingAside, PruningAside
<1>4. CASE PublishRelease
  <2>1. dirs' = [dirs EXCEPT ![req.comp] = [@ EXCEPT ![req.to] = "whole"]]
    BY <1>4 DEF PublishRelease
  <2>2. \A x \in Components, v \in Versions :
          dirs[x][v] # "absent" => dirs'[x][v] # "absent"
    BY <2>1 DEF TypeInv, TypeOK, StoreTypeOK
  <2> QED
    BY <1>4, <2>2
      DEF PublishRelease, Goto, LiveInv, StagingAside, PruningAside, LiveInstalled, IsDir
<1>5. CASE Arm \/ Act \/ GatePasses \/ GateFails \/ Disarm
  BY <1>5, IdleKeepsLive DEF Arm, Act, GatePasses, GateFails, Disarm, Goto, storeVars
<1>6. CASE Swap \/ SwapBack
  BY <1>6, <1>r, SwapKeepsLive DEF Swap, SwapBack, Goto
<1>7. CASE SwapFails \/ SwapBackFails
  BY <1>7, <1>r, SwapKeepsLive DEF SwapFails, SwapBackFails, Fail
<1>8. CASE Commit
  BY <1>8, IdleKeepsLive DEF Commit, Doomed, PruneCandidates, storeVars
<1>9. CASE PruneOne
  <2>1. PICK v \in doomed : Removed(req.comp, v) /\ doomed' \subseteq doomed
    BY <1>9 DEF PruneOne
  <2>2. pc = "prune" /\ pc' = "prune" /\ UNCHANGED <<current, req>>
    BY <1>9 DEF PruneOne
  <2>3. current[req.comp] \notin doomed
    BY <2>2 DEF LiveInv, PruningAside
  <2>4. LiveInstalled'
    BY <1>r, <2>1, <2>2, <2>3, RemovalKeepsLive
  <2> QED
    BY <2>1, <2>2, <2>3, <2>4 DEF LiveInv, StagingAside, PruningAside
<1>10. CASE PruneFails
  BY <1>10, IdleKeepsLive DEF PruneFails, storeVars
<1>11. CASE RecordApplied \/ StuckLive \/ RecordRolledBack
  BY <1>11, IdleKeepsLive DEF RecordApplied, StuckLive, RecordRolledBack, Return, storeVars
<1> QED
  BY <1>1, <1>2, <1>3, <1>4, <1>5, <1>6, <1>7, <1>8, <1>9, <1>10, <1>11 DEF MoveStep

\* A request that begins moves nothing yet, and apply does not begin on what is
\* live.
LEMMA BeginKeepsLive ==
    ASSUME LiveInv, NEW k, NEW c, NEW v, NEW at \in {"stage", "arm"},
           Begin(k, c, v, at), at = "stage" => v # current[c]
    PROVE  LiveInv'
BY IdleKeepsLive DEF Begin, storeVars

\* Nothing the engine does besides a request deletes a directory or moves the
\* link.
LEMMA OthersKeepLive ==
    ASSUME TypeInv, LiveInv, ClientStep \/ StartupStep \/ Die \/ UNCHANGED vars
    PROVE  LiveInv'
<1>1. CASE ClientStep
  <2>1. PICK c \in Components :
          \/ \E v \in Versions :
               \/ \E t \in Targets : ApplyRefused(c, t, v) \/ ApplyAccepted(c, t, v)
               \/ Select(c, v)
          \/ Rollback(c)
          \/ ResetToGolden(c)
          \/ \E v \in PinVersions : SetPin(c, v)
    BY <1>1 DEF ClientStep
  <2>2. ASSUME NEW v, NEW t, ApplyRefused(c, t, v) \/ SetPin(c, v) PROVE LiveInv'
    BY <2>2, IdleKeepsLive DEF ApplyRefused, SetPin, MayRequest, storeVars, procVars
  <2>3. ASSUME NEW v, NEW t, ApplyAccepted(c, t, v) PROVE LiveInv'
    BY <2>3, BeginKeepsLive DEF ApplyAccepted
  <2>4. ASSUME NEW v, Select(c, v) PROVE LiveInv'
    BY <2>4, BeginKeepsLive DEF Select
  <2>5. CASE Rollback(c) \/ ResetToGolden(c)
    BY <2>5, BeginKeepsLive DEF Rollback, ResetToGolden
  <2> QED
    BY <2>1, <2>2, <2>3, <2>4, <2>5
<1>2. CASE StartupStep
  BY <1>2, IdleKeepsLive
    DEF StartupStep, Start, RecordRescue, ClearRescuedTrial, RemoveCrumb,
        PublishGolden, CountBoot, CountBootFails, CommitTrial, CommitTrialFails,
        RevertTrial, Serve, Goto, Fail, storeVars
<1>3. CASE Die
  BY <1>3, IdleKeepsLive DEF Die, storeVars
<1>4. CASE UNCHANGED vars
  BY <1>4
    DEF vars, storeVars, procVars, LiveInv, StagingAside, PruningAside, LiveInstalled, IsDir
<1> QED
  BY <1>1, <1>2, <1>3, <1>4

\* Every step of the engine keeps IInv.
LEMMA NextKeepsIInv == IInv /\ [Next]_vars => IInv'
BY NextKeepsTypes, MoveKeepsLive, OthersKeepLive DEF Next, IInv

\* A board as it leaves the bench.
LEMMA InitIInv == Init => IInv
<1>1. Init => LiveInstalled
  BY StoreConfigAssumption DEF Init, StoreInit, LiveInstalled, IsDir, VersionOrNone
<1> QED
  BY <1>1, InitTypes DEF Init, IInv, LiveInv, StagingAside, PruningAside

-----------------------------------------------------------------------------
(* RequestInv is preserved.                                                *)

\* Past the swap, or at rest, there is nothing to keep.
LEMMA SwappedKeepsRequestInv ==
    ASSUME pc' \notin BeforeTheSwap
    PROVE  RequestInv'
BY DEF RequestInv, OnlyApplyStages, PinStillAllows, TargetStillGood, BeforeTheSwap

\* A step on the way to the swap of an apply.
LEMMA ApplyKeepsRequestInv ==
    ASSUME RequestInv, pc \in BeforeTheSwap, req.kind = "apply",
           req'.kind = "apply", req'.comp = req.comp, req'.to = req.to,
           UNCHANGED pins
    PROVE  RequestInv'
BY DEF RequestInv, OnlyApplyStages, PinStillAllows, TargetStillGood

\* The steps of a running request.
LEMMA MoveKeepsRequestInv ==
    ASSUME IInv, RequestInv, MoveStep
    PROVE  RequestInv'
<1>1. ASSUME Stage PROVE RequestInv'
  <2>1. req.kind = "apply" /\ pc = "stage"
    BY <1>1 DEF RequestInv, OnlyApplyStages, Stage
  <2>2. req'.kind = req.kind /\ req'.comp = req.comp /\ req'.to = req.to
    BY <1>1 DEF Stage, IInv, TypeInv, TypeOK, EngineTypeOK, Reqs
  <2> QED
    BY <1>1, <2>1, <2>2, ApplyKeepsRequestInv DEF Stage, journalVars, BeforeTheSwap
<1>2. ASSUME ClearRelease \/ PublishRelease PROVE RequestInv'
  <2>1. req.kind = "apply" /\ pc \in BeforeTheSwap
    BY <1>2
      DEF RequestInv, OnlyApplyStages, ClearRelease, PublishRelease, BeforeTheSwap
  <2> QED
    BY <1>2, <2>1, ApplyKeepsRequestInv
      DEF ClearRelease, PublishRelease, Goto, journalVars
<1>3. ASSUME Arm PROVE RequestInv'
  <2>1. /\ pc = "arm" /\ pc' = "swap" /\ req' = req
        /\ UNCHANGED <<dirs, current, log, pins>>
    BY <1>3 DEF Arm, Goto, storeVars
  <2>2. RollbackTargets(req.comp)' = RollbackTargets(req.comp)
    BY <2>1 DEF RollbackTargets, Installed, KnownBad
  <2> QED
    BY <2>1, <2>2
      DEF RequestInv, OnlyApplyStages, PinStillAllows, TargetStillGood, BeforeTheSwap
<1>4. ASSUME pc' \notin BeforeTheSwap PROVE RequestInv'
  BY <1>4, SwappedKeepsRequestInv
<1>5. CASE StageEnds \/ PublishFails \/ ArmFails \/ Swap \/ SwapFails \/ Act \/ ActFails
  BY <1>4, <1>5
    DEF StageEnds, PublishFails, ArmFails, Swap, SwapFails, Act, ActFails, Fail, Return,
        Goto, BeforeTheSwap
<1>6. CASE \/ GatePasses \/ GateFails \/ Commit \/ CommitFails
           \/ PruneOne \/ PruneFails \/ RecordApplied
  BY <1>4, <1>6
    DEF GatePasses, GateFails, Commit, CommitFails, PruneOne, PruneFails,
        RecordApplied, Fail, Return, Goto, BeforeTheSwap
<1>7. CASE \/ StuckLive \/ SwapBack \/ SwapBackFails \/ Disarm \/ DisarmFails
           \/ RecordRolledBack
  BY <1>4, <1>7
    DEF StuckLive, SwapBack, SwapBackFails, Disarm, DisarmFails, RecordRolledBack,
        Fail, Return, Goto, BeforeTheSwap
<1> QED
  BY <1>1, <1>2, <1>3, <1>5, <1>6, <1>7 DEF MoveStep

\* A request begins with what it decided.
LEMMA ClientKeepsRequestInv ==
    ASSUME IInv, ClientStep
    PROVE  RequestInv'
<1> USE DEF RequestInv, OnlyApplyStages, PinStillAllows, TargetStillGood, BeforeTheSwap
<1>1. PICK c \in Components :
        \/ \E v \in Versions :
             \/ \E t \in Targets : ApplyRefused(c, t, v) \/ ApplyAccepted(c, t, v)
             \/ Select(c, v)
        \/ Rollback(c)
        \/ ResetToGolden(c)
        \/ \E v \in PinVersions : SetPin(c, v)
  BY DEF ClientStep
<1>2. ASSUME NEW v, NEW t, ApplyRefused(c, t, v) PROVE RequestInv'
  BY <1>2 DEF ApplyRefused, MayRequest, procVars
<1>3. ASSUME NEW v, NEW t, ApplyAccepted(c, t, v) PROVE RequestInv'
  BY <1>3 DEF ApplyAccepted, Refused, Begin, journalVars
<1>4. ASSUME NEW v, Select(c, v) PROVE RequestInv'
  BY <1>4 DEF Select, Begin
<1>5. ASSUME Rollback(c) PROVE RequestInv'
  <2>1. PICK v \in RollbackTargets(c) : Begin("rollback", c, v, "arm")
    BY <1>5 DEF Rollback
  <2>2. RollbackTargets(c)' = RollbackTargets(c)
    BY <2>1 DEF Begin, storeVars, journalVars, RollbackTargets, Installed, KnownBad
  <2> QED
    BY <2>1, <2>2 DEF Begin
<1>6. ASSUME ResetToGolden(c) PROVE RequestInv'
  BY <1>6 DEF ResetToGolden, Begin
<1>7. ASSUME NEW v, SetPin(c, v) PROVE RequestInv'
  BY <1>7 DEF SetPin, procVars
<1> QED
  BY <1>1, <1>2, <1>3, <1>4, <1>5, <1>6, <1>7

\* Startup recovery and death are not on the way to a swap.
LEMMA OthersKeepRequestInv ==
    ASSUME RequestInv, StartupStep \/ Die \/ UNCHANGED vars
    PROVE  RequestInv'
<1>1. CASE StartupStep
  <2>1. pc' \notin BeforeTheSwap
    BY <1>1
      DEF StartupStep, Start, RecordRescue, ClearRescuedTrial, RemoveCrumb,
          PublishGolden, CountBoot, CountBootFails, CommitTrial, CommitTrialFails,
          RevertTrial, Serve, Goto, Fail, BeforeTheSwap
  <2> QED
    BY <2>1, SwappedKeepsRequestInv
<1>2. CASE Die
  BY <1>2, SwappedKeepsRequestInv DEF Die, BeforeTheSwap
<1>3. CASE UNCHANGED vars
  <2>1. RollbackTargets(req.comp)' = RollbackTargets(req.comp)
    BY <1>3
      DEF vars, storeVars, journalVars, procVars, RollbackTargets, Installed, KnownBad
  <2> QED
    BY <1>3, <2>1
      DEF vars, journalVars, procVars, RequestInv, OnlyApplyStages, PinStillAllows,
          TargetStillGood
<1> QED
  BY <1>1, <1>2, <1>3

-----------------------------------------------------------------------------
(* Verdicts, and other components.                                         *)

\* A revert is done by the step before its record is written, and the lock
\* keeps it.
LEMMA NextKeepsRevertDone ==
    ASSUME TypeInv, RevertDone, [Next]_vars
    PROVE  RevertDone'
<1> USE DEF RevertDone
<1>1. CASE SwapBack
  BY <1>1 DEF SwapBack, SwapTo, Goto, RequestPcs, TypeInv, TypeOK, StoreTypeOK, RequestNamed
<1>2. CASE Disarm
  BY <1>2 DEF Disarm, Goto, storeVars
<1>3. CASE UNCHANGED vars
  BY <1>3 DEF vars, storeVars, procVars
<1>4. CASE MoveStep /\ ~SwapBack /\ ~Disarm
  <2>1. pc' \notin {"disarm", "failed"}
    BY <1>4
      DEF MoveStep, StageEnds, Stage, ClearRelease, PublishRelease, PublishFails,
          Arm, ArmFails, Swap, SwapFails, Act, ActFails, GatePasses, GateFails,
          Commit, CommitFails, PruneOne, PruneFails, RecordApplied, StuckLive,
          SwapBackFails, DisarmFails, RecordRolledBack, Goto, Return, Fail
  <2> QED
    BY <2>1
<1>5. CASE ClientStep \/ StartupStep \/ Die
  <2>1. pc' \notin {"disarm", "failed"}
    BY <1>5
      DEF ClientStep, ApplyRefused, ApplyAccepted, Select, Rollback, ResetToGolden,
          SetPin, Begin, MayRequest, StartupStep, Start, RecordRescue,
          ClearRescuedTrial, RemoveCrumb, PublishGolden, CountBoot, CountBootFails,
          CommitTrial, CommitTrialFails, RevertTrial, Serve, Goto, Fail, Die, procVars
  <2> QED
    BY <2>1
<1> QED
  BY <1>1, <1>2, <1>3, <1>4, <1>5 DEF Next

\* apply and select refuse what is live, rollback goes to an older release, and
\* staging reads `current` again while the lock is held.
LEMMA NextKeepsOnlyGoldenStays ==
    ASSUME IInv, OnlyGoldenStays, [Next]_vars
    PROVE  OnlyGoldenStays'
<1> USE DEF OnlyGoldenStays
<1>1. CASE ClientStep
  <2>1. PICK c \in Components :
          \/ \E v \in Versions :
               \/ \E t \in Targets : ApplyRefused(c, t, v) \/ ApplyAccepted(c, t, v)
               \/ Select(c, v)
          \/ Rollback(c)
          \/ ResetToGolden(c)
          \/ \E v \in PinVersions : SetPin(c, v)
    BY <1>1 DEF ClientStep
  <2>2. ASSUME NEW v, NEW t, ApplyRefused(c, t, v) PROVE OnlyGoldenStays'
    BY <2>2 DEF ApplyRefused, MayRequest, procVars
  <2>3. ASSUME NEW v, NEW t, ApplyAccepted(c, t, v) PROVE OnlyGoldenStays'
    BY <2>3 DEF ApplyAccepted, Begin
  <2>4. ASSUME NEW v, Select(c, v) PROVE OnlyGoldenStays'
    BY <2>4 DEF Select, Begin
  <2>5. ASSUME Rollback(c) PROVE OnlyGoldenStays'
    <3>1. PICK v \in RollbackTargets(c) : Begin("rollback", c, v, "arm")
      BY <2>5 DEF Rollback
    <3>2. v # current[c]
      BY VersionsAssumption DEF RollbackTargets, Installed
    <3> QED
      BY <3>1, <3>2 DEF Begin
  <2>6. ASSUME ResetToGolden(c) PROVE OnlyGoldenStays'
    BY <2>6 DEF ResetToGolden, Begin
  <2>7. ASSUME NEW v, SetPin(c, v) PROVE OnlyGoldenStays'
    BY <2>7 DEF SetPin, procVars
  <2> QED
    BY <2>1, <2>2, <2>3, <2>4, <2>5, <2>6, <2>7
<1>2. CASE Stage
  BY <1>2
    DEF Stage, IInv, TypeInv, TypeOK, EngineTypeOK, Reqs, LiveInv, StagingAside
<1>3. CASE MoveStep /\ ~Stage
  <2>1. (req' = req /\ pc \in RequestPcs) \/ pc' \notin RequestPcs
    BY <1>3
      DEF MoveStep, StageEnds, ClearRelease, PublishRelease, PublishFails,
          Arm, ArmFails, Swap, SwapFails, Act, ActFails, GatePasses, GateFails,
          Commit, CommitFails, PruneOne, PruneFails, RecordApplied, StuckLive,
          SwapBack, SwapBackFails, Disarm, DisarmFails, RecordRolledBack, Goto,
          Return, Fail, RequestPcs
  <2> QED
    BY <2>1
<1>4. CASE StartupStep \/ Die
  <2>1. pc' \notin RequestPcs \/ req'.kind = "boot"
    BY <1>4
      DEF StartupStep, Start, RecordRescue, ClearRescuedTrial, RemoveCrumb,
          PublishGolden, CountBoot, CountBootFails, CommitTrial, CommitTrialFails,
          RevertTrial, Serve, Goto, Fail, Die, RequestPcs
  <2> QED
    BY <2>1
<1>5. CASE UNCHANGED vars
  BY <1>5 DEF vars, procVars
<1> QED
  BY <1>1, <1>2, <1>3, <1>4, <1>5 DEF Next

\* While a request runs, nothing but the request takes a step, or its process
\* dies.
LEMMA LockHeld ==
    ASSUME TypeInv, [Next]_vars, req # NoReq
    PROVE  MoveStep \/ Die \/ UNCHANGED vars
<1>1. pc \in RequestPcs
  BY DEF TypeInv, NothingAsked
<1>2. ~ClientStep
  BY <1>1
    DEF ClientStep, ApplyRefused, ApplyAccepted, Select, Rollback, ResetToGolden,
        SetPin, MayRequest, RequestPcs
<1>3. ~StartupStep
  BY <1>1
    DEF StartupStep, Start, RecordRescue, ClearRescuedTrial, RemoveCrumb,
        PublishGolden, CountBoot, CountBootFails, CommitTrial, CommitTrialFails,
        RevertTrial, Serve, RequestPcs
<1> QED
  BY <1>2, <1>3 DEF Next

\* The steps of a request write the log for its own component; the verdict that
\* names a release bad is the last of them, and names the one that failed unless
\* it is startup's.
LEMMA VerdictNames ==
    ASSUME TypeInv, MoveStep,
           NEW c, NEW v \in KnownBad(c)', v \notin KnownBad(c)
    PROVE  pc = "failed" /\ c = req.comp /\ (req.kind # "boot" => v = req.to)
<1>1. log' # log
  BY DEF KnownBad
<1>2. /\ log \in Seq(Entries)
      /\ pc \in RequestPcs => req.comp \in Components
      /\ req.to \in VersionOrNone /\ req.from \in VersionOrNone
      /\ None \in VersionOrNone
  BY DEF TypeInv, TypeOK, JournalTypeOK, EngineTypeOK, Reqs, RequestNamed, VersionOrNone
<1>3. ASSUME pc \in RequestPcs, Fail PROVE FALSE
  <2>1. Record(req.comp, None, "Aborted")
    BY <1>1, <1>3 DEF Fail
  <2> QED
    BY <1>2, <1>3, <2>1, KnownBadAfter DEF Outcomes
<1>4. ASSUME pc \in RequestPcs, NEW o \in Outcomes \ {"RolledBack"},
             NEW named \in VersionOrNone, Record(req.comp, named, o)
      PROVE  FALSE
  BY <1>2, <1>4, KnownBadAfter
<1>5. CASE StageEnds \/ PublishFails \/ ArmFails \/ SwapFails \/ ActFails
  BY <1>1, <1>3, <1>5
    DEF StageEnds, PublishFails, ArmFails, SwapFails, ActFails, RequestPcs
<1>6. CASE CommitFails \/ SwapBackFails \/ DisarmFails
  BY <1>3, <1>6 DEF CommitFails, SwapBackFails, DisarmFails, RequestPcs
<1>7. CASE RecordApplied \/ StuckLive
  BY <1>2, <1>4, <1>7 DEF RecordApplied, StuckLive, RequestPcs, Outcomes
<1>8. CASE RecordRolledBack
  <2>1. pc = "failed"
    BY <1>8 DEF RecordRolledBack
  <2>2. PICK named \in VersionOrNone :
          /\ Record(req.comp, named, "RolledBack")
          /\ req.kind # "boot" => named = req.to
    BY <1>2, <1>8 DEF RecordRolledBack
  <2> QED
    BY <1>2, <2>1, <2>2, KnownBadAfter DEF RequestPcs, Outcomes
<1>9. CASE \/ Stage \/ ClearRelease \/ PublishRelease \/ Arm \/ Swap \/ Act
           \/ GatePasses \/ GateFails \/ Commit \/ PruneOne \/ PruneFails
           \/ SwapBack \/ Disarm
  BY <1>1, <1>9
    DEF Stage, ClearRelease, PublishRelease, Arm, Swap, Act, GatePasses, GateFails,
        Commit, PruneOne, PruneFails, SwapBack, Disarm, journalVars
<1> QED
  BY <1>5, <1>6, <1>7, <1>8, <1>9 DEF MoveStep

\* Outside a request, settling the breadcrumb of a rescue is the only step that
\* makes a release bad, and one of the component it names.
LEMMA IdleVerdicts ==
    ASSUME TypeInv, [Next]_vars, pc \notin RequestPcs,
           NEW c, NEW v \in KnownBad(c)', v \notin KnownBad(c)
    PROVE  pc = "rescue" /\ c = crumb.comp
<1>1. log' # log
  BY DEF KnownBad
<1>2. log \in Seq(Entries) /\ None \in VersionOrNone /\ req = NoReq
  BY DEF TypeInv, TypeOK, JournalTypeOK, NothingAsked, VersionOrNone
<1>3. ~(Die \/ UNCHANGED vars)
  BY <1>1 DEF Die, vars, journalVars
<1>4. ~MoveStep
  BY DEF MoveStep, StageEnds, Stage, ClearRelease, PublishRelease, PublishFails,
         Arm, ArmFails, Swap, SwapFails, Act, ActFails, GatePasses, GateFails,
         Commit, CommitFails, PruneOne, PruneFails, RecordApplied, StuckLive,
         SwapBack, SwapBackFails, Disarm, DisarmFails, RecordRolledBack, RequestPcs
<1>5. CASE ClientStep
  <2>1. PICK k \in Components : Record(k, None, "Aborted")
    BY <1>1, <1>5
      DEF ClientStep, ApplyRefused, ApplyAccepted, Select, Rollback, ResetToGolden,
          SetPin, Begin, journalVars
  <2> QED
    BY <1>2, <2>1, KnownBadAfter DEF Outcomes
<1>6. CASE StartupStep
  <2>1. ~Fail
    BY <1>1, <1>2 DEF Fail, NoReq
  <2>2. RecordRescue
    BY <1>1, <1>6, <2>1
      DEF StartupStep, Start, ClearRescuedTrial, RemoveCrumb, PublishGolden,
          CountBoot, CountBootFails, CommitTrial, CommitTrialFails, RevertTrial,
          Serve, journalVars
  <2>3. Record(crumb.comp, crumb.to, "RolledBack") /\ crumb.comp # None
    BY <1>1, <2>2 DEF RecordRescue
  <2>4. crumb.comp \in Components /\ crumb.to \in VersionOrNone
    BY <2>3 DEF TypeInv, TypeOK, JournalTypeOK, Crumbs
  <2> QED
    BY <1>2, <2>2, <2>3, <2>4, KnownBadAfter DEF RecordRescue, Outcomes
<1> QED
  BY <1>3, <1>4, <1>5, <1>6 DEF Next

\* Every write of a request is to its own component.
LEMMA MoveIsLocal ==
    ASSUME TypeInv, MoveStep, NEW c \in Components, c # req.comp
    PROVE  /\ current'[c] = current[c]
           /\ pending'[c] = pending[c]
           /\ dirs'[c] = dirs[c]
<1>1. /\ dirs \in [Components -> [Versions -> DirStates]]
      /\ current \in [Components -> VersionOrNone]
      /\ pending \in [Components -> Trials]
  BY DEF TypeInv, TypeOK, StoreTypeOK, JournalTypeOK
<1>2. /\ \A v : SwapTo(req.comp, v) => current'[c] = current[c]
      /\ \A v : Removed(req.comp, v) => dirs'[c] = dirs[c]
      /\ Confirmed(req.comp)[c] = pending[c]
      /\ \A v, p : Armed(req.comp, v, p)[c] = pending[c]
  BY <1>1 DEF SwapTo, Removed, Confirmed, Armed
<1>3. CASE \/ StageEnds \/ Stage \/ PublishFails \/ Act \/ GatePasses \/ GateFails
           \/ PruneFails \/ RecordApplied \/ RecordRolledBack
  BY <1>3
    DEF StageEnds, Stage, PublishFails, Act, GatePasses, GateFails, PruneFails,
        RecordApplied, RecordRolledBack, storeVars, journalVars
<1>4. CASE ClearRelease \/ PruneOne
  BY <1>2, <1>4 DEF ClearRelease, PruneOne, journalVars
<1>5. CASE PublishRelease
  BY <1>1, <1>5 DEF PublishRelease, journalVars
<1>6. CASE \/ Arm \/ ArmFails \/ ActFails \/ Commit \/ CommitFails \/ StuckLive
           \/ Disarm \/ DisarmFails
  BY <1>2, <1>6
    DEF Arm, ArmFails, ActFails, Commit, CommitFails, StuckLive, Disarm, DisarmFails,
        TryConfirm, FailedWrite, storeVars
<1>7. CASE Swap \/ SwapBack
  BY <1>2, <1>7 DEF Swap, SwapBack, journalVars
<1>8. CASE SwapFails \/ SwapBackFails
  BY <1>2, <1>8 DEF SwapFails, SwapBackFails, TryConfirm, FailedWrite
<1> QED
  BY <1>3, <1>4, <1>5, <1>6, <1>7, <1>8 DEF MoveStep

-----------------------------------------------------------------------------
(* Theorems.                                                               *)

\* The inductive invariant holds in every behaviour of the engine.
THEOREM IInvHolds == Spec => []IInv
<1>1. Init => IInv
  BY InitIInv
<1>2. IInv /\ [Next]_vars => IInv'
  BY NextKeepsIInv
<1> QED
  BY <1>1, <1>2, PTL DEF Spec

\* Everything the engine keeps on disk and in memory has its type in every
\* reachable state, failed writes and crashes included.
THEOREM TypeCorrect == Spec => []TypeOK
<1>1. IInv => TypeOK
  BY DEF IInv, TypeInv
<1> QED
  BY <1>1, IInvHolds, PTL

\* `current` never dangles: whatever is requested, fails, or dies, the release
\* every unit execs through is installed (store.rs link_to and prune, engine.rs
\* AlreadyCurrent).
THEOREM LiveAlwaysInstalled == Spec => []LiveInstalled
<1>1. IInv => LiveInstalled
  BY DEF IInv, LiveInv
<1> QED
  BY <1>1, IInvHolds, PTL

\* What a request decided holds until its link has moved.
THEOREM RequestInvHolds == Spec => []RequestInv
<1>1. Init => RequestInv
  BY DEF Init, RequestInv, OnlyApplyStages, PinStillAllows, TargetStillGood,
         BeforeTheSwap
<1>2. IInv /\ RequestInv /\ [Next]_vars => RequestInv'
  BY ClientKeepsRequestInv, MoveKeepsRequestInv, OthersKeepRequestInv DEF Next
<1> QED
  BY <1>1, <1>2, IInvHolds, PTL DEF Spec

\* `current` moves by its link alone, to the release the request is about.
LEMMA SwapGoesToTarget ==
    ASSUME IInv, [Next]_vars, pc = "swap", NEW c \in Components,
           current'[c] # current[c]
    PROVE  c = req.comp /\ current'[c] = req.to
<1>1. CASE SwapTo(req.comp, req.to)
  BY <1>1 DEF SwapTo, IInv, TypeInv, TypeOK, StoreTypeOK
<1>2. CASE UNCHANGED current
  BY <1>2
<1>3. UNCHANGED current \/ SwapTo(req.comp, req.to)
  <2>1. CASE ClientStep \/ UNCHANGED vars \/ Die
    BY <2>1
      DEF ClientStep, ApplyRefused, ApplyAccepted, Select, Rollback, ResetToGolden,
          SetPin, Begin, MayRequest, Die, vars, storeVars
  <2>2. CASE MoveStep
    BY <2>2
      DEF MoveStep, StageEnds, Stage, ClearRelease, PublishRelease, PublishFails,
          Arm, ArmFails, Swap, SwapFails, Act, ActFails, GatePasses, GateFails,
          Commit, CommitFails, PruneOne, PruneFails, RecordApplied, StuckLive,
          SwapBack, SwapBackFails, Disarm, DisarmFails, RecordRolledBack, storeVars
  <2>3. CASE StartupStep
    BY <2>3
      DEF StartupStep, Start, RecordRescue, ClearRescuedTrial, RemoveCrumb,
          PublishGolden, CountBoot, CountBootFails, CommitTrial, CommitTrialFails,
          RevertTrial, Serve, storeVars
  <2> QED
    BY <2>1, <2>2, <2>3 DEF Next
<1> QED
  BY <1>1, <1>2, <1>3

\* Nothing moves a pinned component by apply off its pin, however long the
\* download took and whoever set the pin (engine.rs effective_pin).
THEOREM PinsAreHonoured == Spec => PinHonoured
<1>1. IInv /\ RequestInv /\ [Next]_vars =>
        (\A c \in Components :
           req.kind = "apply" /\ pc = "swap" /\ current'[c] # current[c]
             => pins[c] \in {None, current'[c]})
  BY SwapGoesToTarget DEF RequestInv, PinStillAllows, BeforeTheSwap
<1> QED
  BY <1>1, IInvHolds, RequestInvHolds, PTL DEF Spec, PinHonoured

\* Rollback only walks back: to an older release than the one that was live,
\* and not to one the log calls bad (engine.rs rollback_target).
THEOREM RollbackOnlyGoesBack == Spec => RollbackGoesBack
<1>1. IInv /\ RequestInv /\ [Next]_vars =>
        (\A c \in Components :
           req.kind = "rollback" /\ pc = "swap" /\ current'[c] # current[c]
             => /\ current[c] # None => current'[c] < current[c]
                /\ current'[c] \notin KnownBad(c))
  BY SwapGoesToTarget DEF RequestInv, TargetStillGood, BeforeTheSwap, RollbackTargets
<1> QED
  BY <1>1, IInvHolds, RequestInvHolds, PTL DEF Spec, RollbackGoesBack

\* When a verdict is recorded the link has gone back (engine.rs rollback_to).
THEOREM RevertDoneHolds == Spec => []RevertDone
<1>1. Init => RevertDone
  BY DEF Init, RevertDone
<1>2. IInv /\ RevertDone /\ [Next]_vars => RevertDone'
  BY NextKeepsRevertDone DEF IInv
<1> QED
  BY <1>1, <1>2, IInvHolds, PTL DEF Spec

\* Only a reset to golden, or startup, moves a component to what it came from.
THEOREM OnlyGoldenStaysHolds == Spec => []OnlyGoldenStays
<1>1. Init => OnlyGoldenStays
  BY DEF Init, OnlyGoldenStays, RequestPcs
<1>2. IInv /\ OnlyGoldenStays /\ [Next]_vars => OnlyGoldenStays'
  BY NextKeepsOnlyGoldenStays
<1> QED
  BY <1>1, <1>2, IInvHolds, PTL DEF Spec

\* The log calls the live release bad in three places only: startup settling a
\* rescue, startup reverting a trial, and a reset of a golden that is live
\* already.  Any other entry names a release that failed, and the link has gone
\* back by then (engine.rs record, rollback_to), on a log that is full as well.
THEOREM VerdictsSpareLive == Spec => VerdictSparesLive
<1>1. IInv /\ RevertDone /\ OnlyGoldenStays /\ [Next]_vars =>
        (\A c \in Components :
           current[c] \in KnownBad(c)' \ KnownBad(c)
             => StartupVerdict(c) \/ ResetInPlace(c))
  <2> SUFFICES ASSUME IInv, RevertDone, OnlyGoldenStays, [Next]_vars,
                      NEW c \in Components,
                      current[c] \in KnownBad(c)', current[c] \notin KnownBad(c)
               PROVE  StartupVerdict(c) \/ ResetInPlace(c)
    OBVIOUS
  <2>1. CASE pc \notin RequestPcs
    BY <2>1, IdleVerdicts DEF IInv, StartupVerdict
  <2>2. CASE pc \in RequestPcs
    <3>1. req.comp \in Components
      BY <2>2 DEF IInv, TypeInv, RequestNamed
    <3>2. req # NoReq
      BY <3>1, VersionsAssumption DEF NoReq
    <3>3. ~(Die \/ UNCHANGED vars)
      BY DEF Die, vars, journalVars, KnownBad
    <3>4. MoveStep
      BY <3>2, <3>3, LockHeld DEF IInv
    <3>5. c = req.comp
      BY <3>4, VerdictNames DEF IInv
    <3>6. CASE req.kind = "boot"
      BY <3>5, <3>6 DEF StartupVerdict
    <3>7. CASE req.kind # "boot"
      <4>1. pc = "failed" /\ current[c] = req.to
        BY <3>4, <3>7, VerdictNames DEF IInv
      <4>2. req.to = req.from
        BY <3>5, <4>1 DEF RevertDone
      <4> QED
        BY <2>2, <3>5, <3>7, <4>2 DEF OnlyGoldenStays, ResetInPlace
    <3> QED
      BY <3>6, <3>7
  <2> QED
    BY <2>1, <2>2
<1> QED
  BY <1>1, IInvHolds, RevertDoneHolds, OnlyGoldenStaysHolds, PTL
    DEF Spec, VerdictSparesLive

\* A request on one component leaves the live release, the trial and the
\* directories of every other one alone, failed writes and startup's own reverts
\* included (journal.rs BootCounter).
THEOREM RequestsAreIsolated == Spec => ComponentsIsolated
<1>1. IInv /\ [Next]_vars =>
        (\A c \in Components :
           req.kind # "idle" /\ c # req.comp
             => /\ current'[c] = current[c]
                /\ pending'[c] = pending[c]
                /\ dirs'[c] = dirs[c])
  <2> SUFFICES ASSUME IInv, [Next]_vars, NEW c \in Components,
                      req.kind # "idle", c # req.comp
               PROVE  /\ current'[c] = current[c]
                      /\ pending'[c] = pending[c]
                      /\ dirs'[c] = dirs[c]
    OBVIOUS
  <2>1. CASE MoveStep
    BY <2>1, MoveIsLocal DEF IInv
  <2>2. CASE Die \/ UNCHANGED vars
    BY <2>2 DEF Die, vars, storeVars, journalVars
  <2> QED
    BY <2>1, <2>2, LockHeld DEF IInv, NoReq
<1> QED
  BY <1>1, IInvHolds, PTL DEF Spec, ComponentsIsolated

=============================================================================
