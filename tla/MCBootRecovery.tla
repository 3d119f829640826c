--------------------------- MODULE MCBootRecovery ---------------------------
(* TLC values for the function-valued constants of BootRecovery. *)
EXTENDS BootRecovery

CONSTANT d   \* the daemon component

\* 1 is the factory and golden release; what is wrong with 2 and 3 varies.
OneGolden == [c \in Components |-> 1]
OneFactory == [c \in Components |-> 1]
ThirdBroken == [c \in Components |-> {3}]
NoneDead == [c \in Components |-> {}]
ThirdDead == [c \in Components |-> {3}]
AllSocket == [c \in Components |-> "socket"]
AllRestart == [c \in Components |-> "restart"]
NoneLeft == {NoCrumb}
=============================================================================
