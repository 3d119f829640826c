---------------------------- MODULE SchedulerProofs ----------------------------
(***************************************************************************)
(* Theorems about the unattended side of updaterd: its types, that a       *)
(* release that was judged is not known bad when its apply starts, that a  *)
(* pin binds the scheduler as it binds a client, and that the scheduler    *)
(* does to the engine nothing a client could not do.  They hold for any    *)
(* components, versions, policies and sources.                             *)
(***************************************************************************)
EXTENDS UpdateScheduler, UpdateEngineProofs

-----------------------------------------------------------------------------
(* What has to hold for the types and for the guard to be inductive.       *)

\* A pass that has got to a component names it.
PassNamed ==
    sched.at \in {"checking", "judge", "apply", "applying"} =>
        sched.comp \in Components

\* What was judged stays judged until it is applied.
JudgedGood == sched.at = "apply" => sched.cand \notin KnownBad(sched.comp)

PassInv ==
    /\ sched \in Scheds
    /\ left \subseteq Components
    /\ latest \in [Components -> Versions]
    /\ failed \in [Components -> SUBSET Versions]
    /\ PassNamed

\* The scheduler's invariant, over the engine's.
SchedInv == IInv /\ RequestInv /\ PassInv /\ JudgedGood

-----------------------------------------------------------------------------
(* The engine under the scheduler.                                         *)

\* What an unattended apply does to the engine: it begins, is refused, or finds
\* the mutex taken.
UnattendedActs(c, v) ==
    \/ /\ pc = "idle"
       /\ ~Refused(c, "latest", v)
       /\ v # current[c]
       /\ Begin("apply", c, v, "stage")
    \/ /\ pc = "idle"
       /\ Refused(c, "latest", v)
       /\ Record(c, None, "Aborted")
       /\ UNCHANGED <<storeVars, pending, pins, crumb, procVars>>

\* Every step of updaterd is one of the engine, an unattended apply, or none
\* that the engine sees.
LEMMA StepOfEngine ==
    ASSUME PassInv, [SchedNext]_allVars
    PROVE  \/ [Next]_vars
           \/ \E c \in Components, v \in Versions : UnattendedActs(c, v)
<1>1. CASE EngineStep
  BY <1>1 DEF EngineStep
<1>2. CASE ApplyUnattended
  <2>1. /\ sched.comp \in Components
        /\ latest[sched.comp] \in Versions
    BY <1>2 DEF ApplyUnattended, PassInv, PassNamed
  <2>2. UnattendedActs(sched.comp, latest[sched.comp]) \/ UNCHANGED vars
    BY <1>2 DEF ApplyUnattended, UnattendedActs, EngineFree
  <2> QED
    BY <2>1, <2>2
<1>3. CASE SchedStep /\ ~ApplyUnattended
  BY <1>3
    DEF SchedStep, Wake, PassEnds, CheckAnswers, Judge, ApplyEnds, CheckBegins
<1>4. CASE \E c \in Components, v \in Versions : Publish(c, v)
  BY <1>4 DEF Publish
<1>5. CASE UNCHANGED allVars
  BY <1>5 DEF allVars
<1> QED
  BY <1>1, <1>2, <1>3, <1>4, <1>5 DEF SchedNext

\* An unattended apply keeps what the engine's invariants say.
LEMMA UnattendedKeepsEngine ==
    ASSUME IInv, RequestInv, NEW c \in Components, NEW v \in Versions,
           UnattendedActs(c, v)
    PROVE  IInv' /\ RequestInv'
<1>1. CASE /\ ~Refused(c, "latest", v)
           /\ v # current[c]
           /\ Begin("apply", c, v, "stage")
  <2>1. IInv'
    BY <1>1, BeginKeepsTypes, BeginKeepsLive DEF IInv, Kinds
  <2>2. RequestInv'
    BY <1>1
      DEF Refused, Begin, journalVars, RequestInv, OnlyApplyStages, PinStillAllows,
          TargetStillGood, BeforeTheSwap
  <2> QED
    BY <2>1, <2>2
<1>2. CASE /\ pc = "idle"
           /\ Record(c, None, "Aborted")
           /\ UNCHANGED <<storeVars, pending, pins, crumb, procVars>>
  <2>1. TypeInv'
    BY <1>2, EntryKeepsTypes DEF IInv
  <2>2. pc' = "idle" /\ UNCHANGED <<dirs, current>>
    BY <1>2 DEF storeVars, procVars
  <2>3. LiveInv'
    BY <2>2, IdleKeepsLive DEF IInv
  <2>4. RequestInv'
    BY <2>2, SwappedKeepsRequestInv DEF BeforeTheSwap
  <2> QED
    BY <2>1, <2>3, <2>4 DEF IInv
<1> QED
  BY <1>1, <1>2 DEF UnattendedActs

LEMMA SchedKeepsEngine ==
    ASSUME IInv, RequestInv, PassInv, [SchedNext]_allVars
    PROVE  IInv' /\ RequestInv'
<1>1. CASE [Next]_vars
  BY <1>1, NextKeepsIInv, ClientKeepsRequestInv, MoveKeepsRequestInv, OthersKeepRequestInv
    DEF Next
<1>2. CASE \E c \in Components, v \in Versions : UnattendedActs(c, v)
  BY <1>2, UnattendedKeepsEngine
<1> QED
  BY <1>1, <1>2, StepOfEngine

\* Where clients may ask for the latest release at any time, one could have.
LEMMA UnattendedIsRequest ==
    ASSUME "apply" \in Requests, "latest" \in Targets, RequestsDuringTrial,
           NEW c \in Components, NEW v \in Versions, UnattendedActs(c, v)
    PROVE  Next
<1>1. ApplyRefused(c, "latest", v) \/ ApplyAccepted(c, "latest", v)
  BY DEF UnattendedActs, ApplyRefused, ApplyAccepted, MayRequest
<1> QED
  BY <1>1 DEF Next, ClientStep

-----------------------------------------------------------------------------
(* The pass.                                                               *)

LEMMA SchedKeepsPass ==
    ASSUME IInv, PassInv, [SchedNext]_allVars
    PROVE  PassInv'
<1>1. /\ Asleep \in Scheds
      /\ \A w \in {"next", "checking", "judge", "apply", "applying"} :
           \A c \in Components \union {None} : \A v \in VersionOrNone :
             Pass(w, c, v) \in Scheds
  BY DEF Asleep, Pass, Scheds, VersionOrNone
<1>2. /\ sched \in Scheds
      /\ left \subseteq Components
      /\ latest \in [Components -> Versions]
      /\ failed \in [Components -> SUBSET Versions]
      /\ PassNamed
  BY DEF PassInv
<1>3. CASE EngineStep
  <2>1. sched' \in {sched, Asleep} /\ left' \subseteq Components
    BY <1>2, <1>3 DEF EngineStep
  <2>2. req.to \in VersionOrNone
    BY DEF IInv, TypeInv, TypeOK, EngineTypeOK, Reqs
  <2>3. failed' \in [Components -> SUBSET Versions]
    BY <1>2, <1>3, <2>2 DEF EngineStep, VersionOrNone
  <2>4. UNCHANGED latest
    BY <1>3 DEF EngineStep
  <2> QED
    BY <1>1, <1>2, <2>1, <2>3, <2>4 DEF PassInv, PassNamed, Asleep
<1>4. CASE Wake \/ PassEnds
  <2>1. [Asleep EXCEPT !.at = "next"] = Pass("next", None, None)
    BY DEF Asleep, Pass
  <2> QED
    BY <1>1, <1>2, <1>4, <2>1 DEF Wake, PassEnds, PassInv, PassNamed, Asleep, Pass, VersionOrNone
<1>5. CASE \E c \in Components : CheckBegins(c)
  BY <1>1, <1>2, <1>5 DEF CheckBegins, PassInv, PassNamed, Pass, VersionOrNone
<1>6. CASE CheckAnswers
  <2>1. sched.comp \in Components
    BY <1>2, <1>6 DEF CheckAnswers, PassNamed
  <2>2. latest[sched.comp] \in VersionOrNone
    BY <1>2, <2>1 DEF VersionOrNone
  <2> QED
    BY <1>1, <1>2, <1>6, <2>1, <2>2 DEF CheckAnswers, PassInv, PassNamed, Pass, VersionOrNone
<1>7. CASE Judge
  <2>1. sched.comp \in Components
    BY <1>2, <1>7 DEF Judge, PassNamed
  <2>2. [sched EXCEPT !.at = "apply"] = Pass("apply", sched.comp, sched.cand)
    BY <1>2 DEF Scheds, Pass
  <2>3. sched.cand \in VersionOrNone
    BY <1>2 DEF Scheds
  <2> QED
    BY <1>1, <1>2, <1>7, <2>1, <2>2, <2>3 DEF Judge, PassInv, PassNamed, Pass, VersionOrNone
<1>8. CASE ApplyUnattended
  <2>1. sched.comp \in Components
    BY <1>2, <1>8 DEF ApplyUnattended, PassNamed
  <2>2. latest[sched.comp] \in VersionOrNone
    BY <1>2, <2>1 DEF VersionOrNone
  <2>3. /\ sched' \in {Pass("applying", sched.comp, latest[sched.comp]),
                       Pass("next", None, None)}
        /\ UNCHANGED <<left, latest, failed>>
    BY <1>8 DEF ApplyUnattended
  <2> QED
    BY <1>1, <1>2, <2>1, <2>2, <2>3 DEF PassInv, PassNamed, Pass, VersionOrNone
<1>9. CASE ApplyEnds
  BY <1>1, <1>2, <1>9 DEF ApplyEnds, PassInv, PassNamed, Pass, VersionOrNone
<1>10. CASE \E c \in Components, v \in Versions : Publish(c, v)
  BY <1>2, <1>10 DEF Publish, PassInv, PassNamed
<1>11. CASE UNCHANGED allVars
  BY <1>2, <1>11 DEF allVars, schedVars, PassInv, PassNamed
<1> QED
  BY <1>3, <1>4, <1>5, <1>6, <1>7, <1>8, <1>9, <1>10, <1>11 DEF SchedNext, SchedStep

\* No client's entry makes a release known bad: only a refusal is recorded
\* before a request has the lock.
LEMMA ClientsCallNothingBad ==
    ASSUME TypeInv, ClientStep, NEW c, NEW v \in KnownBad(c)'
    PROVE  v \in KnownBad(c)
<1>1. PICK x \in Components :
        \/ \E w \in Versions :
             \/ \E t \in Targets : ApplyRefused(x, t, w) \/ ApplyAccepted(x, t, w)
             \/ Select(x, w)
        \/ Rollback(x)
        \/ ResetToGolden(x)
        \/ \E w \in PinVersions : SetPin(x, w)
  BY DEF ClientStep
<1>2. CASE Record(x, None, "Aborted")
  <2>1. log \in Seq(Entries) /\ None \in VersionOrNone /\ "Aborted" \in Outcomes
    BY DEF TypeInv, TypeOK, JournalTypeOK, VersionOrNone, Outcomes
  <2> QED
    BY <1>2, <2>1, KnownBadAfter
<1>3. CASE UNCHANGED log
  BY <1>3 DEF KnownBad
<1> QED
  BY <1>1, <1>2, <1>3
    DEF ApplyRefused, ApplyAccepted, Select, Rollback, ResetToGolden, SetPin, Begin,
        journalVars

\* Between the guard and the apply the mutex is free: only clients, a crash and
\* the source act, and none of them changes the verdict.
LEMMA SchedKeepsJudged ==
    ASSUME IInv, PassInv, JudgedGood, [SchedNext]_allVars
    PROVE  JudgedGood'
<1>1. CASE EngineStep
  <2>1. CASE pc' = "down"
    BY <1>1, <2>1 DEF EngineStep, JudgedGood, Asleep
  <2>2. CASE pc' # "down"
    <3> SUFFICES ASSUME sched.at = "apply", UNCHANGED sched
                 PROVE  sched.cand \notin KnownBad(sched.comp)'
      BY <1>1, <2>2 DEF EngineStep, JudgedGood
    <3>1. ClientStep
      BY <1>1, <2>2 DEF EngineStep, Die
    <3> QED
      BY <3>1, ClientsCallNothingBad DEF JudgedGood, IInv
  <2> QED
    BY <2>1, <2>2
<1>2. CASE Judge
  BY <1>2 DEF Judge, JudgedGood, Pass, PassInv, Scheds, vars, journalVars, KnownBad
<1>3. CASE \/ Wake \/ PassEnds \/ CheckAnswers \/ ApplyUnattended \/ ApplyEnds
           \/ \E c \in Components : CheckBegins(c)
  BY <1>3
    DEF Wake, PassEnds, CheckAnswers, ApplyUnattended, ApplyEnds, CheckBegins, Pass,
        Asleep, JudgedGood
<1>4. CASE (\E c \in Components, v \in Versions : Publish(c, v)) \/ UNCHANGED allVars
  BY <1>4
    DEF Publish, allVars, schedVars, vars, journalVars, JudgedGood, KnownBad
<1> QED
  BY <1>1, <1>2, <1>3, <1>4 DEF SchedNext, SchedStep

-----------------------------------------------------------------------------
(* Theorems.                                                               *)

THEOREM SchedInvHolds == SchedSpec => []SchedInv
<1>1. SchedInit => SchedInv
  <2> SUFFICES ASSUME SchedInit PROVE SchedInv
    OBVIOUS
  <2>1. IInv
    BY InitIInv DEF SchedInit
  <2>2. RequestInv
    BY DEF SchedInit, Init, RequestInv, OnlyApplyStages, PinStillAllows, TargetStillGood,
           BeforeTheSwap
  <2>3. PassInv /\ JudgedGood
    BY SchedulerAssumption
      DEF SchedInit, PassInv, PassNamed, JudgedGood, Asleep, Scheds, VersionOrNone
  <2> QED
    BY <2>1, <2>2, <2>3 DEF SchedInv
<1>2. SchedInv /\ [SchedNext]_allVars => SchedInv'
  BY SchedKeepsEngine, SchedKeepsPass, SchedKeepsJudged DEF SchedInv
<1> QED
  BY <1>1, <1>2, PTL DEF SchedSpec

\* Types of the engine and of the pass hold beside each other, whatever the
\* source advertises and whenever the process dies.
THEOREM SchedTypesHold == SchedSpec => []SchedTypeOK
<1>1. SchedInv => SchedTypeOK
  BY DEF SchedInv, PassInv, IInv, TypeInv, SchedTypeOK
<1> QED
  BY <1>1, SchedInvHolds, PTL

\* "Never reapply a release this robot already rolled back from" (ipc.rs
\* check_all), as far as the guard reaches: the candidate that was judged is not
\* known bad when the apply starts on it, although the mutex was free in between.
THEOREM UnattendedNeverKnownBad == SchedSpec => UnattendedSparesKnownBad
<1>1. SchedInv =>
        (UnattendedBegins /\ sched'.cand = sched.cand
           => sched'.cand \notin KnownBad(sched.comp))
  BY DEF SchedInv, JudgedGood, UnattendedBegins
<1> QED
  BY <1>1, SchedInvHolds, PTL DEF UnattendedSparesKnownBad

\* A pin binds the timer as it binds a client: no apply, asked for or unattended,
\* moves a pinned component off its pin (engine.rs effective_pin, ipc.rs
\* check_all).
THEOREM PinsBindTheScheduler == SchedSpec => PinHonoured
<1>1. SchedInv /\ [SchedNext]_allVars =>
        [\A c \in Components :
           req.kind = "apply" /\ pc = "swap" /\ current'[c] # current[c]
             => pins[c] \in {None, current'[c]}]_vars
  <2> SUFFICES ASSUME SchedInv, [SchedNext]_allVars, NEW c \in Components,
                      req.kind = "apply", pc = "swap", current'[c] # current[c]
               PROVE  pins[c] \in {None, current'[c]}
    OBVIOUS
  <2>1. [Next]_vars
    BY StepOfEngine DEF SchedInv, UnattendedActs
  <2> QED
    BY <2>1, SwapGoesToTarget DEF SchedInv, RequestInv, PinStillAllows, BeforeTheSwap
<1> QED
  BY <1>1, SchedInvHolds, PTL DEF SchedSpec, PinHonoured

\* The scheduler does to the engine nothing that a client could not: with it,
\* updaterd still behaves as UpdateEngine specifies, so what is proved of that
\* holds for a board that updates itself (ipc.rs apply_unattended).
THEOREM SchedulerIsAClient ==
    ASSUME "apply" \in Requests, "latest" \in Targets, RequestsDuringTrial
    PROVE  SchedSpec => Spec
<1>1. SchedInit => Init
  BY DEF SchedInit
<1>2. SchedInv /\ [SchedNext]_allVars => [Next]_vars
  BY StepOfEngine, UnattendedIsRequest DEF SchedInv
<1> QED
  BY <1>1, <1>2, SchedInvHolds, PTL DEF SchedSpec, Spec

=============================================================================
