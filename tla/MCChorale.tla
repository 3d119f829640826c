------------------------------- MODULE MCChorale -------------------------------
(* TLC values for Chorale's constants. *)
EXTENDS Chorale

CONSTANTS wistful, strut

\* The lowest id has the highest voice, so that its coming moves another to
\* the middle line.  Duck 3 is an older build that has one piece less.
Voices == [d \in Ducks |-> CASE d = 1 -> 3 [] d = 2 -> 1 [] d = 3 -> 2]
OldThird == [d \in Ducks |-> IF d = 3 THEN {wistful} ELSE Pieces]
=============================================================================
