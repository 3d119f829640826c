-------------------------- MODULE MCUpdateScheduler --------------------------
(* TLC values for the function-valued constants of UpdateScheduler. *)
EXTENDS UpdateScheduler

CONSTANTS d, m   \* the components: the daemon, a model library

\* 1 is the factory and golden release; 2 and 3 are published later, and 1 is
\* below the floor of both.
OneGolden == [c \in Components |-> 1]
OneFactory == [c \in Components |-> 1]
SecondBroken == [c \in Components |-> {2}]
NoneDead == [c \in Components |-> {}]
AllSocket == [c \in Components |-> "socket"]
AllRestart == [c \in Components |-> "restart"]
FloorTwo == [c \in Components |-> [v \in Versions |-> IF v = 1 THEN None ELSE 2]]
TwoPublished == [c \in Components |-> 2]
NoneLeft == {NoCrumb}
=============================================================================
