----------------------------- MODULE BridgeSafety -----------------------------
(***************************************************************************)
(* What the Bluetooth bridge promises, over two histories:                 *)
(*                                                                         *)
(*   wrong  the wrong PINs a session has judged                            *)
(*   held   the PINs the config file has held since the session took up    *)
(*          the authentication at hand                                     *)
(***************************************************************************)
EXTENDS BridgeSession

VARIABLES wrong, held

allVars == <<vars, wrong, held>>

Judges(s) == asked[s] \in Pins /\ asked'[s] = NoPin /\ state'[s] # "over"

BridgeInit ==
    /\ Init
    /\ wrong = [s \in Sessions |-> 0]
    /\ held = [s \in Sessions |-> {}]

BridgeNext ==
    /\ Next
    /\ wrong' = [s \in Sessions |->
         IF Judges(s) /\ Request(s).call.pin # asked[s]
           THEN wrong[s] + 1 ELSE wrong[s]]
    /\ held' = [s \in Sessions |->
         IF state'[s] = "pin"
           THEN (IF state[s] = "pin" THEN held[s] ELSE {file.pin})
                  \cup {file'.pin}
           ELSE {}]

BridgeSpec == BridgeInit /\ [][BridgeNext]_allVars

-----------------------------------------------------------------------------
(* Safety.                                                                 *)

\* "Three, then the session ends" (session.rs PIN_ATTEMPTS), also when the
\* guesses come in one chunk: no session judges more wrong PINs than that.
GuessesRationed == \A s \in Sessions : wrong[s] <= PinAttempts

\* The PIN is "fetched from configd per attempt rather than cached" (session.rs
\* authenticate): who is admitted named a PIN the file held while btd asked.
AdmittedByStoredPin ==
    [][\A s \in Sessions :
         ~authenticated[s] /\ authenticated'[s]
           => Request(s).call.pin \in held[s]]_allVars

\* "Nothing from a previous central can leak into this one" (bluez.rs), and no
\* request is answered twice: the answers on their way to a central are to
\* different requests of its own that it still waits for.
InFlight(s) == outbound[s] \o replies[s]

AnsweredOnce ==
    \A s \in Sessions : \A i \in DOMAIN InFlight(s) :
      LET a == InFlight(s)[i] IN
      a.says # "progress" =>
        /\ \E r \in waiting[s] : r.id = a.id
        /\ \A j \in DOMAIN InFlight(s) :
             InFlight(s)[j].says # "progress" /\ InFlight(s)[j].id = a.id => i = j

\* The task of an old subscription may end late, but it takes nothing from the
\* session that replaced it (bluez.rs: "a blind take() would kill" it).
NewestHoldsSlot ==
    \A s \in Sessions :
      /\ state[s] \in {"serving", "pin"}
      /\ \A t \in Sessions : t > s => state[t] = "none"
      => slot = s

\* The requests that what is in a queue is about; progress is about none.
Ids(q) == {q[i].id : i \in DOMAIN q} \ {0}

\* The requests of a session that are to be dealt with, those whose answers are
\* on their way to its central, and those it wants an answer to.
ChunkIds(s) == UNION {Ids(inbound[s][i]) : i \in DOMAIN inbound[s]}
PoolIds(s) == UNION {Ids(queue[s][k]) \cup Ids(orphan[s][k]) : k \in Keys}
OpenIds(s) == ChunkIds(s) \cup Ids(lines[s]) \cup PoolIds(s)

SaidIds(s) == Ids(outbound[s]) \cup Ids(replies[s])

WantedIds(s) == {r.id : r \in waiting[s]}

Kept == INSTANCE RequestLedger
    WITH Centrals <- Sessions,
         open <- [s \in Sessions |-> OpenIds(s)],
         answers <- [s \in Sessions |-> SaidIds(s)],
         wanted <- [s \in Sessions |-> WantedIds(s)],
         last <- written

\* A request is answered or lost, once and for good, and never for another
\* central: what was given up is not sent again, and a late reader delivers
\* nothing twice (upstream.rs Pool.send: "Drop the connection so the next call
\* reconnects").
ImplementsLedger == Kept!LedgerSpec

-----------------------------------------------------------------------------
(* Liveness.  No fairness for a service that works on an operation, and     *)
(* none for the centrals' writing.  The session's select! picks a ready     *)
(* branch at random, so neither branch starves the other.                   *)

Prompt(q) == q # <<>> /\ Head(q).call.method # "apply"

ServePrompt(s) ==
    \E k \in Keys :
      \/ Prompt(queue[s][k]) /\ Serve(s, k)
      \/ Prompt(orphan[s][k]) /\ ServeOrphan(s, k)

Fairness ==
    /\ \A s \in Sessions :
         /\ WF_vars(Hear(s)) /\ WF_vars(TaskOver(s))
         /\ WF_vars(TakeChunk(s)) /\ WF_vars(PassOn(s))
         /\ WF_vars(Dispatch(s)) /\ WF_vars(Authenticate(s))
         /\ WF_vars(ServePrompt(s)) /\ WF_vars(Renaming(s)) /\ WF_vars(Renamed(s))
    /\ WF_vars(PinChanged)
    /\ \A w \in Writers : SF_vars(WriteConfig(w))

BridgeFairSpec == BridgeSpec /\ Fairness

\* A request is lost when the service that had it died, or its answer found the
\* session's queue full: it is nowhere any more.
Upstream(s) ==
    UNION {Range(queue[s][k]) \cup Range(orphan[s][k]) : k \in Keys}

Lost(s, r) ==
    /\ r \notin UNION {Range(c) : c \in Range(inbound[s])}
    /\ r \notin Range(lines[s]) \cup Upstream(s)
    /\ r.id \notin {a.id : a \in Range(outbound[s] \o replies[s])}

\* "What keeps a minutes-long update from silencing everything else the client
\* asks" (upstream.rs Pool): whatever operation or subscription the session has
\* running, a query is answered, unless the session ends or the request is lost.
QueryAnswered ==
    \A s \in Sessions, i \in 1..MaxRequests :
      LET Open == \E r \in waiting[s] :
                    /\ r.id = i
                    /\ r.call.method \notin {"apply", "subscribe"}
                    /\ ~Lost(s, r)
      IN  Open ~> ~Open \/ state[s] \in {"closed", "over"}

-----------------------------------------------------------------------------
(* What the code's comments say, and TLC refutes.                          *)

\* "flock serialises writers" (store.rs): the PIN robotctl was told is stored
\* is the one in the file.
ConfirmedPinHolds == confirmed # NoPin => file.pin = confirmed
=============================================================================
