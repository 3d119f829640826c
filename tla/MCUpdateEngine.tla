--------------------------- MODULE MCUpdateEngine ---------------------------
(* TLC values for UpdateEngine's function-valued constants. *)
EXTENDS UpdateSafety

CONSTANTS d, m   \* the components: the daemon, a model library

\* One component; 1 is the factory and golden release, 2 is good, 3 never
\* gets healthy.
OneGolden == [c \in Components |-> 1]
OneFactory == [c \in Components |-> 1]
ThirdBroken == [c \in Components |-> {3}]
DaemonBroken == [c \in Components |-> IF c = d THEN {2} ELSE {}]
NoneDead == [c \in Components |-> {}]
DaemonSocket == [c \in Components |-> IF c = d THEN "socket" ELSE "none"]
DaemonRestart == [c \in Components |-> IF c = d THEN "restart" ELSE "none"]
\* The daemon with its factory release, the library not yet installed.
DaemonOnly == [c \in Components |-> IF c = d THEN 1 ELSE None]
AllSocket == [c \in Components |-> "socket"]
AllRestart == [c \in Components |-> "restart"]
NoneLeft == {NoCrumb}
RescuedOnce == {NoCrumb, Crumb(d, 1)}
=============================================================================
