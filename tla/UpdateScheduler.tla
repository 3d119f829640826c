---------------------------- MODULE UpdateScheduler ----------------------------
(***************************************************************************)
(* The unattended side of updaterd (updater/src/ipc.rs check_all): a timer *)
(* asks every component's source for its latest release and applies what   *)
(* the auto_apply policy allows, beside the clients the socket serves.     *)
(*                                                                         *)
(* Scheduler and clients share the engine through one mutex, which the     *)
(* scheduler takes with try_lock three times per component: to check, to   *)
(* read known_bad, to apply.  It awaits nothing between them, so a client  *)
(* may get in first but is not done before the scheduler has found out.    *)
(* The mutex is free when UpdateEngine is idle and no check is running.    *)
(***************************************************************************)
EXTENDS UpdateSafety

CONSTANTS
    Floor,       \* Floor[c][v]: min_supported in the manifest of v, or None
    Policy,      \* auto_apply: "off", "mandatory" or "all"
    Published,   \* Published[c]: what the source names first
    SourceMoves  \* what the source names as latest may change, either way

ASSUME SchedulerAssumption ==
    /\ Floor \in [Components -> [Versions -> VersionOrNone]]
    /\ Policy \in {"off", "mandatory", "all"}
    /\ Published \in [Components -> Versions]
    /\ SourceMoves \in BOOLEAN

VARIABLES
    sched,   \* where the pass is: its step, its component and its candidate
    left,    \* components this pass has still to look at
    latest,  \* latest[c]: the release the source of c advertises
    failed   \* history: failed[c], releases c was reverted from, its revert
             \* complete, and has not succeeded on since

schedVars == <<sched, left, latest, failed>>
allVars == <<vars, schedVars>>

Asleep == [at |-> "sleep", comp |-> None, cand |-> None]
Pass(where, c, v) == [at |-> where, comp |-> c, cand |-> v]
Scheds == [at: {"sleep", "next", "checking", "judge", "apply", "applying"},
           comp: Components \union {None}, cand: VersionOrNone]

SchedTypeOK ==
    /\ TypeOK
    /\ sched \in Scheds
    /\ left \subseteq Components
    /\ latest \in [Components -> Versions]
    /\ failed \in [Components -> SUBSET Versions]

SchedInit ==
    /\ Init
    /\ sched = Asleep
    /\ left = {}
    /\ latest = Published
    /\ failed = [c \in Components |-> {}]

-----------------------------------------------------------------------------
(* The pass.                                                               *)

\* try_lock on the engine succeeds.
EngineFree == pc = "idle" /\ sched.at # "checking"

\* is_mandatory_for(): a board with nothing installed escapes nothing.
IsMandatory(c, v) ==
    /\ current[c] # None
    /\ Floor[c][v] # None
    /\ current[c] < Floor[c][v]

Permitted(mandatory) ==
    \/ Policy = "all"
    \/ Policy = "mandatory" /\ mandatory

\* check() answers Available, and the policy covers it.
Wanted(c, v) ==
    /\ ~Refused(c, "latest", v)
    /\ v # current[c]
    /\ Permitted(IsMandatory(c, v))

\* The timer fires.  When the mutex is taken the pass is over at once.
Wake ==
    /\ sched.at = "sleep"
    /\ EngineFree
    /\ sched' = [Asleep EXCEPT !.at = "next"]
    /\ left' = Components
    /\ UNCHANGED <<vars, latest, failed>>

\* check() holds the mutex while the source answers.
CheckBegins(c) ==
    /\ sched.at = "next"
    /\ EngineFree
    /\ c \in left
    /\ sched' = Pass("checking", c, None)
    /\ left' = left \ {c}
    /\ UNCHANGED <<vars, latest, failed>>

\* Everything looked at, or the mutex taken: sleep until the next interval.
PassEnds ==
    /\ \/ sched.at = "next" /\ left = {}
       \/ sched.at \in {"next", "judge"} /\ ~EngineFree
    /\ sched' = Asleep
    /\ left' = {}
    /\ UNCHANGED <<vars, latest, failed>>

\* The source may fail to answer, which is routine.
CheckAnswers ==
    /\ sched.at = "checking"
    /\ \/ /\ Wanted(sched.comp, latest[sched.comp])
          /\ sched' = Pass("judge", sched.comp, latest[sched.comp])
       \/ sched' = Pass("next", None, None)
    /\ UNCHANGED <<vars, left, latest, failed>>

\* Mutant: the guard is gone.
JudgeSkipped ==
    /\ sched.at = "judge"
    /\ EngineFree
    /\ sched' = [sched EXCEPT !.at = "apply"]
    /\ UNCHANGED <<vars, left, latest, failed>>

\* The guard: never the candidate whose latest entry is a rollback.
Judge ==
    /\ sched.at = "judge"
    /\ EngineFree
    /\ sched' = IF sched.cand \in KnownBad(sched.comp)
                  THEN Pass("next", None, None)
                  ELSE [sched EXCEPT !.at = "apply"]
    /\ UNCHANGED <<vars, left, latest, failed>>

\* apply_unattended(): applies whatever is latest now, which apply looks up
\* again.  Busy when someone else came in first.
ApplyUnattended ==
    /\ sched.at = "apply"
    /\ LET c == sched.comp
           v == latest[c]
       IN  \/ /\ EngineFree
              /\ ~Refused(c, "latest", v)
              /\ v # current[c]
              /\ Begin("apply", c, v, "stage")
              /\ sched' = Pass("applying", c, v)
           \/ /\ EngineFree
              /\ Refused(c, "latest", v)
              /\ Record(c, None, "Aborted")
              /\ sched' = Pass("next", None, None)
              /\ UNCHANGED <<storeVars, pending, pins, crumb, procVars>>
           \/ /\ ~EngineFree \/ v = current[c]
              /\ sched' = Pass("next", None, None)
              /\ UNCHANGED vars
    /\ UNCHANGED <<left, latest, failed>>

ApplyEnds ==
    /\ sched.at = "applying"
    /\ pc = "idle"
    /\ sched' = Pass("next", None, None)
    /\ UNCHANGED <<vars, left, latest, failed>>

-----------------------------------------------------------------------------
(* The rest of updaterd, and the source.                                   *)

\* A step of the engine.  A client finds the mutex taken during a check.  The
\* source answers apply after the mutex is taken; here, just before.  The
\* scheduler's task is one of the process: it dies with it and is spawned anew,
\* asleep, when updaterd serves again.
EngineStep ==
    /\ Next
    /\ sched.at = "checking" => ~ClientStep
    /\ sched.at \in {"judge", "apply"} => ClientStep \/ Die
    /\ IF pc' = "down"
         THEN sched' = Asleep /\ left' = {}
         ELSE UNCHANGED <<sched, left>>
    /\ failed' = [c \in Components |->
         IF c = req.comp /\ RecordRolledBack THEN failed[c] \union ({req.to} \ {None})
         ELSE IF c = req.comp /\ RecordApplied THEN failed[c] \ {req.to}
         ELSE failed[c]]
    /\ UNCHANGED latest

Publish(c, v) ==
    /\ SourceMoves
    /\ latest' = [latest EXCEPT ![c] = v]
    /\ UNCHANGED <<vars, sched, left, failed>>

SchedStep ==
    \/ Wake \/ PassEnds \/ CheckAnswers \/ Judge \/ ApplyUnattended \/ ApplyEnds
    \/ \E c \in Components : CheckBegins(c)

SchedNext ==
    \/ EngineStep
    \/ SchedStep
    \/ \E c \in Components, v \in Versions : Publish(c, v)

SchedSpec == SchedInit /\ [][SchedNext]_allVars

\* The timer fires, every answer comes or times out, and the engine's own waits
\* are bounded.  Wake is strongly fair: a pass that finds the mutex taken is
\* tried again an interval later, and clients are not always there.
SchedFairSpec ==
    /\ SchedSpec
    /\ SF_allVars(Wake)
    /\ WF_allVars(SchedStep)
    /\ WF_allVars(EngineStep /\ MoveStep)
    /\ WF_allVars(EngineStep /\ StartupStep)

-----------------------------------------------------------------------------
(* Properties.                                                             *)

UnattendedBegins == sched.at = "apply" /\ sched'.at = "applying"

\* "Never reapply a release this robot already rolled back from" (ipc.rs
\* check_all), read as the code implements it: a candidate that was judged is
\* not known bad when the apply starts on it, although the mutex was let go in
\* between and clients, pins, crashes and the source did what they liked.
UnattendedSparesKnownBad ==
    [][UnattendedBegins /\ sched'.cand = sched.cand
         => sched'.cand \notin KnownBad(sched.comp)]_allVars

\* The same promise, read as a robot's owner reads it: a release this robot
\* completed a revert from, after the gate or at boot, is not applied again
\* unattended (updater-design.md section 8.1.1).
UnattendedSparesFailed ==
    [][UnattendedBegins => sched'.cand \notin failed[sched.comp]]_allVars

\* What is wanted is in the end answered for, and downloaded, if asked for again
\* and again.
SourceAnswers(c) ==
    /\ []<>(sched.at = "checking" /\ sched.comp = c /\ Wanted(c, latest[c]))
         => []<>(sched.at = "judge" /\ sched.comp = c)
    /\ []<>(pc = "stage" /\ req.comp = c) => []<>(pc = "publish" /\ req.comp = c)

Settled(c) ==
    \/ ~Wanted(c, latest[c])
    \/ latest[c] \in KnownBad(c)

\* No more crashes, no clients, and a source that does not change its mind.
LeftAlone ==
    /\ <>[][~Die]_allVars
    /\ <>[][EngineStep => ~ClientStep]_allVars
    /\ <>[][UNCHANGED latest]_allVars

\* Unattended updating settles: on a robot that is left alone, with downloads that
\* succeed now and then, every component is in the end on what its source
\* advertises, or has recorded that release as bad, or has a reason not to want
\* it.  A withdrawn release is left without a client
\* (ipc.rs spawn_periodic_checks, "what makes min_supported actually work").
UnattendedSettles ==
    (LeftAlone /\ \A c \in Components : SourceAnswers(c))
      => \A c \in Components : <>[]Settled(c)

=============================================================================
