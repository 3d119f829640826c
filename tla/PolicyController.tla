--------------------------- MODULE PolicyController ---------------------------
(***************************************************************************)
(* The scripted skills of one drive mode (robotd/src/control.rs): which    *)
(* moves are running, where the robot is between sitting and standing, and *)
(* what each request and each control step does to that.                   *)
(*                                                                         *)
(* The windows count down in step(), which runs only on a tick the policy  *)
(* drives: between two drives they stand still.  Their lengths are left    *)
(* out; which of them have run out by a step is the step's choice.         *)
(***************************************************************************)
EXTENDS RobotIntents

Moves == {"ground_pick", "kick", "roulade"}

Controllers == [mode: Modes, moves: SUBSET Moves,
                sit: {"up", "sitting", "rising"}, held: BOOLEAN]

\* Controller::new, with the networks of a mode.
FreshController(m) ==
    [mode |-> m, moves |-> {}, sit |-> "up", held |-> FALSE]

Has(c, network) == network \in Configured[c.mode]

\* A scripted move is running.  Sitting is parked, not busy.
Busy(c) == c.moves # {} \/ c.sit = "rising"

-----------------------------------------------------------------------------
(* The requests, in the order one tick applies them.                       *)

GroundPicked(c) ==
    IF Has(c, "ground_pick")
      THEN [c EXCEPT !.moves = @ \union {"ground_pick"}] ELSE c

Kicked(c) ==
    IF Has(c, "kick") /\ c.moves = {} THEN [c EXCEPT !.moves = {"kick"}] ELSE c

SitToggled(c) ==
    CASE c.sit = "up" /\ Has(c, "sitstand") -> [c EXCEPT !.sit = "sitting"]
      [] c.sit = "sitting" -> [c EXCEPT !.sit = "rising"]
      [] OTHER -> c

\* A request while a roll runs keeps the chain alive; one that finds a ground
\* pick running is refused.  A roll may take over from a kick.
Rolled(c) ==
    CASE "roulade" \in c.moves -> [c EXCEPT !.held = TRUE]
      [] /\ "roulade" \notin c.moves
         /\ Has(c, "roulade")
         /\ "ground_pick" \notin c.moves ->
           [c EXCEPT !.moves = @ \union {"roulade"}, !.held = FALSE]
      [] OTHER -> c

Asked(c, asked) ==
    LET picked == IF "ground_pick" \in asked THEN GroundPicked(c) ELSE c
        kicked == IF "kick" \in asked THEN Kicked(picked) ELSE picked
        sat == IF "sit_toggle" \in asked THEN SitToggled(kicked) ELSE kicked
    IN IF "roulade" \in asked THEN Rolled(sat) ELSE sat

\* begin_shutdown_sit and begin_boot_rise put the sitstand network in charge.
ShutdownSat(c) == [c EXCEPT !.sit = "sitting"]
BootRisen(c) == [c EXCEPT !.sit = "rising"]

-----------------------------------------------------------------------------
(* One control step.                                                       *)

\* The windows in `over` have run out when the step begins.  A roll whose
\* button is still held starts again.
Expired(c, over) ==
    [c EXCEPT
       !.moves = {move \in c.moves : \/ move \notin over \ {"ground_pick"}
                                     \/ move = "roulade" /\ c.held},
       !.sit = IF @ = "rising" /\ "rise" \in over THEN "up" ELSE @]

\* Afterwards the ground pick may reach its last phase, and a button not
\* pressed for a while no longer counts as held.
Stepped(c, over, released) ==
    LET run == Expired(c, over)
    IN [run EXCEPT
          !.moves = IF "ground_pick" \in over THEN @ \ {"ground_pick"} ELSE @,
          !.held = @ /\ ~released]
=============================================================================
