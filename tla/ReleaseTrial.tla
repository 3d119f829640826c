----------------------------- MODULE ReleaseTrial -----------------------------
(***************************************************************************)
(* What the update engine promises about the release a component runs,     *)
(* without saying how: a release goes live on trial.  Whoever asks, a      *)
(* client, the scheduler or startup recovery, and whatever fails, the live *)
(* release only ever moves among the one on trial, the one it came from    *)
(* and golden, and the trial is on record before the first move.           *)
(*                                                                         *)
(* UpdateEngine implements this module: `live` is the release the current  *)
(* link names, `trial` what the boot counter has on disk (UpdateSafety).   *)
(***************************************************************************)
CONSTANTS Components, Versions, Golden, Factory

VARIABLES
    live,   \* live[c]: the release c runs, or None
    trial   \* trial[c]: the move c has to answer for, {} when there is none

abstractVars == <<live, trial>>

Bracket(c) == {Golden[c]} \union UNION {{m.version, m.previous} : m \in trial[c]}

AbstractInit ==
    /\ live = Factory
    /\ trial = [c \in Components |-> {}]

\* A move is put on record, with the release to come back to.  An earlier move
\* that was never settled is forgotten.
Try(c) ==
    /\ \E v \in Versions :
         trial' = [trial EXCEPT ![c] = {[version |-> v, previous |-> live[c]]}]
    /\ live' = live

\* A trial moves the live release, is settled, or both.
Settle(c) ==
    /\ trial[c] # {}
    /\ \E v \in Bracket(c) : live' = [live EXCEPT ![c] = v]
    /\ trial' \in {trial, [trial EXCEPT ![c] = {}]}

AbstractNext == \E c \in Components : Try(c) \/ Settle(c)

AbstractSpec == AbstractInit /\ [][AbstractNext]_abstractVars

=============================================================================
