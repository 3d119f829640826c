----------------------------- MODULE RequestLedger -----------------------------
(***************************************************************************)
(* What the Bluetooth bridge promises about a request, without sessions,   *)
(* connections or queues: it is open until it is answered or lost, an      *)
(* answer is heard by the central that asked, and once.  A request that is *)
(* lost never comes back, and no number is given out twice.                *)
(*                                                                         *)
(* BridgeSession implements this module: a request is open while it is a   *)
(* line or with a service, and answered while its answer is on its way     *)
(* (BridgeSafety).                                                         *)
(***************************************************************************)
EXTENDS Naturals

CONSTANT Centrals

VARIABLES
    open,     \* open[c]: the requests of c that are to be dealt with
    answers,  \* answers[c]: those whose answers are on their way to c
    wanted,   \* wanted[c]: those c wants an answer to
    last      \* the last number given to a request

ledger == <<open, answers, wanted, last>>

Books == [Centrals -> SUBSET (1..last)]

LedgerInit ==
    /\ open = [c \in Centrals |-> {}]
    /\ answers = [c \in Centrals |-> {}]
    /\ wanted = [c \in Centrals |-> {}]
    /\ last = 0

Ask(c) ==
    /\ last' \in Nat /\ last' > last
    /\ open' = [open EXCEPT ![c] = @ \union (last + 1)..last']
    /\ wanted' = [wanted EXCEPT ![c] = @ \union (last + 1)..last']
    /\ UNCHANGED answers

\* Whatever is on its way may be lost, with a service, with a session, or for
\* want of room.
Fewer(left, had) == left \in Books /\ \A c \in Centrals : left[c] \subseteq had[c]

Lose ==
    /\ Fewer(open', open) /\ Fewer(answers', answers)
    /\ UNCHANGED <<wanted, last>>

Answer(c) ==
    /\ \E n \in open[c] :
         /\ Fewer(open', [open EXCEPT ![c] = @ \ {n}])
         /\ Fewer(answers', [answers EXCEPT ![c] = @ \union {n}])
    /\ UNCHANGED <<wanted, last>>

Hear(c) ==
    /\ \E n \in answers[c] :
         /\ answers' = [answers EXCEPT ![c] = @ \ {n}]
         /\ wanted' = [wanted EXCEPT ![c] = @ \ {n}]
    /\ UNCHANGED <<open, last>>

LedgerNext == Lose \/ \E c \in Centrals : Ask(c) \/ Answer(c) \/ Hear(c)

LedgerSpec == LedgerInit /\ [][LedgerNext]_ledger
=============================================================================
