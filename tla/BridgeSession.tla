----------------------------- MODULE BridgeSession -----------------------------
(***************************************************************************)
(* btd, the Bluetooth bridge: the session of one central (session.rs), its *)
(* connections to updaterd and configd (upstream.rs), the route of a call  *)
(* (route.rs, Call::destination of the protocol crate) and the             *)
(* subscription that owns a session (bluez.rs), over configd's store.      *)
(*                                                                         *)
(* A session is a task that waits for a chunk of bytes from the radio or   *)
(* for a line from a service.  It deals with the lines of a chunk one by   *)
(* one, and for each may have to wait: for configd's answer with the PIN,  *)
(* for a connection.  Every connection has a reader of its own, which puts *)
(* what the service writes into the session's queue, or drops it when the  *)
(* queue is full.  The services serve a connection one request at a time.  *)
(*                                                                         *)
(* Sessions are numbered in the order of their subscriptions; the task of  *)
(* an old one may still be running when the next one starts.  A request is *)
(* a record of its number and its call; a reply carries the number.        *)
(***************************************************************************)
EXTENDS ConfigStore, Sequences, Functions

CONSTANTS
    MaxSessions,  \* bound: subscriptions
    MaxRequests,  \* bound: requests the centrals write
    MaxBatch,     \* bound: lines in a chunk
    MaxDeaths,    \* bound: deaths of a service
    MaxChanges,   \* bound: PIN changes made with robotctl
    PinAttempts,  \* wrong PINs a session may offer
    Methods,      \* what the centrals call
    Guesses,      \* the PINs they try
    Room,         \* replies a queue holds, and lines a service's socket does
    Robotctl,     \* the writer that is not a session
    NoPin, Waiting, Failed   \* no PIN asked for, asked for, not answered

AllMethods ==
    {"hello", "authenticate", "status", "apply", "subscribe", "setName",
     "setPairingPin"}

ASSUME BridgeAssumption ==
    /\ {MaxSessions, MaxRequests, MaxDeaths, MaxChanges} \subseteq Nat
    /\ {MaxBatch, PinAttempts, Room} \subseteq Nat \ {0}
    /\ Methods \subseteq AllMethods
    /\ Guesses \subseteq Pins
    /\ Robotctl \notin Nat
    /\ Writers = (1..MaxSessions) \cup {Robotctl}
    /\ {NoPin, Waiting, Failed} \cap Pins = {}
    /\ NoPin # Waiting /\ NoPin # Failed /\ Waiting # Failed

Sessions == 1..MaxSessions
Services == {"updaterd", "configd"}
Lanes == {"prompt", "operation", "stream"}
Keys ==
    {<<"updaterd", l>> : l \in Lanes} \cup {<<"configd", "prompt">>}

Calls ==
    [method : Methods \ {"authenticate"}, pin : {NoPin}]
      \cup [method : Methods \cap {"authenticate"}, pin : Guesses]
Requests == [id : 1..MaxRequests, call : Calls]
Replies == [id : 0..MaxRequests,
            says : {"served", "denied", "refused", "wrong", "right",
                    "unavailable", "progress"}]

VARIABLES
    state,       \* "none", "serving", "pin", "closed" or "over", per session
    subscribed,  \* its central is still there
    slot,        \* the session whose queue gets what is written, or 0
    inbound,     \* chunks the session has not taken
    lines,       \* the lines of the chunk at hand, not yet dealt with
    authenticated, attemptsLeft,
    asked,       \* the PIN exchange of the line at hand
    outbound,    \* lines on their way to the central
    replies,     \* lines from the services
    conn,        \* the connection of a key: "none", "live" or "broken"
    queue,       \* requests in it that the service has not answered
    orphan,      \* those of the connections the session has given up
    waiting,     \* requests the central wants an answer to
    written, deaths, changes,   \* counters for the bounds
    up,          \* the service runs
    confirmed    \* the PIN robotctl was last told is stored, or NoPin

radio == <<subscribed, slot, inbound>>
pinGate == <<authenticated, attemptsLeft, asked>>
pool == <<conn, queue, orphan>>
outside == <<up, deaths>>
ctl == <<confirmed, changes>>
vars == <<state, radio, lines, pinGate, outbound, replies, pool, waiting,
          written, outside, ctl, storeVars>>

TypeOK ==
    /\ StoreTypeOK
    /\ state \in [Sessions -> {"none", "serving", "pin", "closed", "over"}]
    /\ subscribed \in [Sessions -> BOOLEAN]
    /\ slot \in Sessions \cup {0}
    /\ \A s \in Sessions :
         /\ inbound[s] \in Seq(Seq(Requests)) /\ lines[s] \in Seq(Requests)
         /\ outbound[s] \in Seq(Replies) /\ replies[s] \in Seq(Replies)
         /\ Len(replies[s]) <= Room
         /\ asked[s] # NoPin <=> state[s] = "pin"
         /\ \A k \in Keys : queue[s][k] \in Seq(Requests)
    /\ authenticated \in [Sessions -> BOOLEAN]
    /\ attemptsLeft \in [Sessions -> 0..PinAttempts]
    /\ asked \in [Sessions -> Pins \cup {NoPin, Waiting, Failed}]
    /\ conn \in [Sessions -> [Keys -> {"none", "live", "broken"}]]
    /\ waiting \in [Sessions -> SUBSET Requests]
    /\ up \in [Services -> BOOLEAN]
    /\ confirmed \in Pins \cup {NoPin}

Init ==
    /\ StoreInit
    /\ state = [s \in Sessions |-> "none"]
    /\ subscribed = [s \in Sessions |-> FALSE]
    /\ slot = 0
    /\ inbound = [s \in Sessions |-> <<>>]
    /\ lines = [s \in Sessions |-> <<>>]
    /\ authenticated = [s \in Sessions |-> FALSE]
    /\ attemptsLeft = [s \in Sessions |-> PinAttempts]
    /\ asked = [s \in Sessions |-> NoPin]
    /\ outbound = [s \in Sessions |-> <<>>]
    /\ replies = [s \in Sessions |-> <<>>]
    /\ conn = [s \in Sessions |-> [k \in Keys |-> "none"]]
    /\ queue = [s \in Sessions |-> [k \in Keys |-> <<>>]]
    /\ orphan = [s \in Sessions |-> [k \in Keys |-> <<>>]]
    /\ waiting = [s \in Sessions |-> {}]
    /\ written = 0 /\ deaths = 0 /\ changes = 0
    /\ up = [u \in Services |-> TRUE]
    /\ confirmed = NoPin

-----------------------------------------------------------------------------
(* The radio.  A subscription starts a task that owns a fresh session, and *)
(* the session's queue takes the one slot that writes go to.               *)

\* Mutant: the pool and its queue belong to the adapter, not to the session.
SubscribePooled ==
    /\ \E s \in Sessions :
         /\ state[s] = "none" /\ \A t \in 1..(s - 1) : state[t] # "none"
         /\ state' = [state EXCEPT ![s] = "serving"]
         /\ subscribed' = [subscribed EXCEPT ![s] = TRUE]
         /\ slot' = s
         /\ replies' = [replies EXCEPT ![s] =
                          IF s > 1 THEN replies[s - 1] ELSE <<>>]
    /\ UNCHANGED <<inbound, lines, pinGate, outbound, pool, waiting, written,
                   outside, ctl, storeVars>>

Subscribe ==
    /\ \E s \in Sessions :
         /\ state[s] = "none" /\ \A t \in 1..(s - 1) : state[t] # "none"
         /\ state' = [state EXCEPT ![s] = "serving"]
         /\ subscribed' = [subscribed EXCEPT ![s] = TRUE]
         /\ slot' = s
    /\ UNCHANGED <<inbound, lines, pinGate, outbound, replies, pool, waiting,
                   written, outside, ctl, storeVars>>

\* A chunk of whole lines; it is refused when the session is gone.
Write ==
    /\ slot # 0 /\ state[slot] \in {"serving", "pin"}
    /\ \E n \in 1..MaxBatch :
         /\ written + n <= MaxRequests
         /\ \E call \in [1..n -> Calls] :
              LET chunk == [i \in 1..n |-> [id |-> written + i,
                                            call |-> call[i]]]
              IN  /\ inbound' = [inbound EXCEPT ![slot] = Append(@, chunk)]
                  /\ waiting' = [waiting EXCEPT ![slot] = @ \cup Range(chunk)]
         /\ written' = written + n
    /\ UNCHANGED <<state, subscribed, slot, lines, pinGate, outbound, replies,
                   pool, outside, ctl, storeVars>>

\* The central reads a line that was notified to it.
Hear(s) ==
    /\ subscribed[s] /\ outbound[s] # <<>>
    /\ waiting' = [waiting EXCEPT ![s] =
                     {r \in @ : r.id # Head(outbound[s]).id}]
    /\ outbound' = [outbound EXCEPT ![s] = Tail(@)]
    /\ UNCHANGED <<state, radio, lines, pinGate, replies, pool, written,
                   outside, ctl, storeVars>>

Unsubscribe(s) ==
    /\ subscribed[s]
    /\ subscribed' = [subscribed EXCEPT ![s] = FALSE]
    /\ UNCHANGED <<state, slot, inbound, lines, pinGate, outbound, replies,
                   pool, waiting, written, outside, ctl, storeVars>>

\* A session that ends takes its queues and its halves of the connections with
\* it.  What it sent is still read and served.
Leaves(s) ==
    /\ inbound' = [inbound EXCEPT ![s] = <<>>]
    /\ lines' = [lines EXCEPT ![s] = <<>>]
    /\ replies' = [replies EXCEPT ![s] = <<>>]
    /\ conn' = [conn EXCEPT ![s] = [k \in Keys |-> "none"]]

\* Mutant: a blind take() of the slot.
TaskTakesSlot(s) ==
    /\ \/ state[s] \in {"serving", "pin", "closed"} /\ ~subscribed[s]
       \/ state[s] = "closed" /\ outbound[s] = <<>>
    /\ state' = [state EXCEPT ![s] = "over"]
    /\ subscribed' = [subscribed EXCEPT ![s] = FALSE]
    /\ slot' = 0
    /\ outbound' = [outbound EXCEPT ![s] = <<>>]
    /\ asked' = [asked EXCEPT ![s] = NoPin]
    /\ Leaves(s)
    /\ UNCHANGED <<authenticated, attemptsLeft, queue, orphan, waiting, written,
                   outside, ctl, storeVars>>

\* The slot is cleared only by the task whose session holds it.
TaskOver(s) ==
    /\ \/ state[s] \in {"serving", "pin", "closed"} /\ ~subscribed[s]
       \/ state[s] = "closed" /\ outbound[s] = <<>>
    /\ state' = [state EXCEPT ![s] = "over"]
    /\ subscribed' = [subscribed EXCEPT ![s] = FALSE]
    /\ slot' = IF slot = s THEN 0 ELSE slot
    /\ outbound' = [outbound EXCEPT ![s] = <<>>]
    /\ asked' = [asked EXCEPT ![s] = NoPin]
    /\ Leaves(s)
    /\ UNCHANGED <<authenticated, attemptsLeft, queue, orphan, waiting, written,
                   outside, ctl, storeVars>>

-----------------------------------------------------------------------------
(* The session: run, dispatch and authenticate.                            *)

\* Mutant: one connection for every call to a service.
KeyOfService(call) ==
    IF call.method = "setName" THEN <<"configd", "prompt">>
                               ELSE <<"updaterd", "prompt">>

\* route_for: the connection that carries a call btd does not answer itself.
KeyOf(call) ==
    CASE call.method = "setName"   -> <<"configd", "prompt">>
      [] call.method = "apply"     -> <<"updaterd", "operation">>
      [] call.method = "subscribe" -> <<"updaterd", "stream">>
      [] OTHER                     -> <<"updaterd", "prompt">>

\* send_line waits for room, and nothing else happens in the session until then.
Say(s, id, what) ==
    /\ Len(outbound[s]) < Room
    /\ outbound' = [outbound EXCEPT ![s] = Append(@, [id |-> id, says |-> what])]

AtLine(s) == state[s] = "serving" /\ lines[s] # <<>>
Request(s) == Head(lines[s])
LineDone(s) == lines' = [lines EXCEPT ![s] = Tail(@)]
AfterBatch(s) == state[s] = "serving" /\ lines[s] = <<>>

TakeChunk(s) ==
    /\ AfterBatch(s) /\ inbound[s] # <<>>
    /\ lines' = [lines EXCEPT ![s] = Head(inbound[s])]
    /\ inbound' = [inbound EXCEPT ![s] = Tail(@)]
    /\ UNCHANGED <<state, subscribed, slot, pinGate, outbound, replies, pool,
                   waiting, written, outside, ctl, storeVars>>

PassOn(s) ==
    /\ AfterBatch(s) /\ replies[s] # <<>>
    /\ Say(s, Head(replies[s]).id, Head(replies[s]).says)
    /\ replies' = [replies EXCEPT ![s] = Tail(@)]
    /\ UNCHANGED <<state, radio, lines, pinGate, pool, waiting, written,
                   outside, ctl, storeVars>>

\* The PIN gate, and the calls that are not for the radio.
Unproven(s) ==
    ~authenticated[s] /\ Request(s).call.method \notin {"authenticate", "hello"}

Deny(s) ==
    /\ AtLine(s)
    /\ \/ Unproven(s) /\ Say(s, Request(s).id, "denied")
       \/ /\ ~Unproven(s) /\ Request(s).call.method = "setPairingPin"
          /\ Say(s, Request(s).id, "refused")
    /\ LineDone(s)
    /\ UNCHANGED <<state, radio, pinGate, replies, pool, waiting, written,
                   outside, ctl, storeVars>>

\* pairing::pin: a connection of its own, and one answer within three seconds.
AskPin(s) ==
    /\ AtLine(s) /\ Request(s).call.method = "authenticate"
    /\ state' = [state EXCEPT ![s] = "pin"]
    /\ asked' = [asked EXCEPT ![s] = IF up["configd"] THEN Waiting ELSE Failed]
    /\ UNCHANGED <<radio, lines, authenticated, attemptsLeft, outbound,
                   replies, pool, waiting, written, outside, ctl, storeVars>>

\* Mutant: configd answers from the config it is about to write.
PinFromEdit(s) ==
    /\ asked[s] = Waiting
    /\ asked' = [asked EXCEPT ![s] = edited[Robotctl].pin]
    /\ UNCHANGED <<state, radio, lines, authenticated, attemptsLeft, outbound,
                   replies, pool, waiting, written, outside, ctl, storeVars>>

PinAnswered(s) ==
    /\ asked[s] = Waiting
    /\ \/ asked' = [asked EXCEPT ![s] = file.pin]
       \/ asked' = [asked EXCEPT ![s] = Failed]
    /\ UNCHANGED <<state, radio, lines, authenticated, attemptsLeft, outbound,
                   replies, pool, waiting, written, outside, ctl, storeVars>>

PinUnknown(s) ==
    /\ asked[s] = Failed
    /\ Say(s, Request(s).id, "unavailable")
    /\ LineDone(s)
    /\ state' = [state EXCEPT ![s] = "serving"]
    /\ asked' = [asked EXCEPT ![s] = NoPin]
    /\ UNCHANGED <<radio, authenticated, attemptsLeft, replies, pool, waiting,
                   written, outside, ctl, storeVars>>

Admit(s) ==
    /\ asked[s] \in Pins /\ Request(s).call.pin = asked[s]
    /\ Say(s, Request(s).id, "right")
    /\ LineDone(s)
    /\ authenticated' = [authenticated EXCEPT ![s] = TRUE]
    /\ state' = [state EXCEPT ![s] = "serving"]
    /\ asked' = [asked EXCEPT ![s] = NoPin]
    /\ UNCHANGED <<radio, attemptsLeft, replies, pool, waiting, written,
                   outside, ctl, storeVars>>

\* Mutant: the session is closed only when the chunk has been dealt with.
WrongPinRunsOn(s) ==
    /\ asked[s] \in Pins /\ Request(s).call.pin # asked[s]
    /\ Say(s, Request(s).id, "wrong")
    /\ attemptsLeft' = [attemptsLeft EXCEPT ![s] = IF @ = 0 THEN 0 ELSE @ - 1]
    /\ asked' = [asked EXCEPT ![s] = NoPin]
    /\ IF attemptsLeft'[s] = 0 /\ Len(lines[s]) = 1
         THEN state' = [state EXCEPT ![s] = "closed"] /\ Leaves(s)
         ELSE /\ state' = [state EXCEPT ![s] = "serving"]
              /\ LineDone(s)
              /\ UNCHANGED <<inbound, replies, conn>>
    /\ UNCHANGED <<subscribed, slot, authenticated, queue, orphan, waiting,
                   written, outside, ctl, storeVars>>

\* The last wrong PIN ends the session at once, with the rest of its batch.
WrongPin(s) ==
    /\ asked[s] \in Pins /\ Request(s).call.pin # asked[s]
    /\ Say(s, Request(s).id, "wrong")
    /\ attemptsLeft' = [attemptsLeft EXCEPT ![s] = IF @ = 0 THEN 0 ELSE @ - 1]
    /\ asked' = [asked EXCEPT ![s] = NoPin]
    /\ IF attemptsLeft'[s] = 0
         THEN state' = [state EXCEPT ![s] = "closed"] /\ Leaves(s)
         ELSE /\ state' = [state EXCEPT ![s] = "serving"]
              /\ LineDone(s)
              /\ UNCHANGED <<inbound, replies, conn>>
    /\ UNCHANGED <<subscribed, slot, authenticated, queue, orphan, waiting,
                   written, outside, ctl, storeVars>>

-----------------------------------------------------------------------------
(* Pool.send.  The model lets only updaterd fall behind its socket.        *)

ToSend(s) ==
    /\ AtLine(s) /\ ~Unproven(s)
    /\ Request(s).call.method \notin {"authenticate", "setPairingPin"}

Full(s, k) == k[1] = "updaterd" /\ Len(queue[s][k]) >= Room

\* The connection is opened on demand, and the write finds room.
Sent(s) ==
    LET k == KeyOf(Request(s).call) IN
    /\ ToSend(s)
    /\ \/ conn[s][k] = "none" /\ up[k[1]]
       \/ conn[s][k] = "live" /\ ~Full(s, k)
    /\ conn' = [conn EXCEPT ![s][k] = "live"]
    /\ queue' = [queue EXCEPT ![s][k] = Append(@, Request(s))]
    /\ LineDone(s)
    /\ UNCHANGED <<state, radio, pinGate, outbound, replies, orphan, waiting,
                   written, outside, ctl, storeVars>>

\* Mutant: what the connection given up has not answered goes to the next one.
NotSentResends(s) ==
    LET k == KeyOf(Request(s).call) IN
    /\ ToSend(s)
    /\ \/ conn[s][k] = "none" /\ ~up[k[1]]
       \/ conn[s][k] = "broken"
       \/ conn[s][k] = "live" /\ Full(s, k)
    /\ Say(s, Request(s).id, "unavailable")
    /\ conn' = [conn EXCEPT ![s][k] = "none"]
    /\ orphan' = [orphan EXCEPT ![s][k] = @ \o queue[s][k]]
    /\ LineDone(s)
    /\ UNCHANGED <<state, radio, pinGate, replies, queue, waiting, written,
                   outside, ctl, storeVars>>

\* No connection, a broken one, or a write that times out: btd answers, and the
\* next call connects again.  Only the write half is given up: what the service
\* has already read, it serves, and the reader forwards the answer.
NotSent(s) ==
    LET k == KeyOf(Request(s).call) IN
    /\ ToSend(s)
    /\ \/ conn[s][k] = "none" /\ ~up[k[1]]
       \/ conn[s][k] = "broken"
       \/ conn[s][k] = "live" /\ Full(s, k)
    /\ Say(s, Request(s).id, "unavailable")
    /\ conn' = [conn EXCEPT ![s][k] = "none"]
    /\ orphan' = [orphan EXCEPT ![s][k] = @ \o queue[s][k]]
    /\ queue' = [queue EXCEPT ![s][k] = <<>>]
    /\ LineDone(s)
    /\ UNCHANGED <<state, radio, pinGate, replies, waiting, written, outside,
                   ctl, storeVars>>

-----------------------------------------------------------------------------
(* The services, and the readers of their connections.                     *)

\* Mutant: the readers queue without a limit.
DeliverUncapped(s, id, what) ==
    replies' =
      IF state[s] \in {"serving", "pin"}
        THEN [replies EXCEPT ![s] = Append(@, [id |-> id, says |-> what])]
        ELSE replies

\* try_send: a line the queue has no room for is dropped.
Deliver(s, id, what) ==
    replies' =
      IF state[s] \in {"serving", "pin"} /\ Len(replies[s]) < Room
        THEN [replies EXCEPT ![s] = Append(@, [id |-> id, says |-> what])]
        ELSE replies

Serve(s, k) ==
    /\ up[k[1]] /\ queue[s][k] # <<>>
    /\ Head(queue[s][k]).call.method \notin {"subscribe", "setName"}
    /\ Deliver(s, Head(queue[s][k]).id, "served")
    /\ queue' = [queue EXCEPT ![s][k] = Tail(@)]
    /\ UNCHANGED <<state, radio, lines, pinGate, outbound, conn, orphan,
                   waiting, written, outside, ctl, storeVars>>

ServeOrphan(s, k) ==
    /\ up[k[1]] /\ orphan[s][k] # <<>>
    /\ Head(orphan[s][k]).call.method \notin {"subscribe", "setName"}
    /\ Deliver(s, Head(orphan[s][k]).id, "served")
    /\ orphan' = [orphan EXCEPT ![s][k] = Tail(@)]
    /\ UNCHANGED <<state, radio, lines, pinGate, outbound, conn, queue,
                   waiting, written, outside, ctl, storeVars>>

\* A subscription keeps its connection and writes progress.
Progress(s) ==
    /\ \E q \in {queue[s][<<"updaterd", "stream">>],
                 orphan[s][<<"updaterd", "stream">>]} :
         q # <<>> /\ Head(q).call.method = "subscribe"
    /\ Deliver(s, 0, "progress")
    /\ UNCHANGED <<state, radio, lines, pinGate, outbound, pool, waiting,
                   written, outside, ctl, storeVars>>

ConfigKey == <<"configd", "prompt">>

\* configd renames the robot for a session, and is asked by robotctl to change
\* the PIN.
Renaming(s) ==
    /\ queue[s][ConfigKey] # <<>>
    /\ \E n \in Names : SetName(s, n)
    /\ UNCHANGED <<state, radio, lines, pinGate, outbound, replies, pool,
                   waiting, written, outside, ctl>>

Renamed(s) ==
    /\ WriteDone(s)
    /\ Deliver(s, Head(queue[s][ConfigKey]).id, "served")
    /\ queue' = [queue EXCEPT ![s][ConfigKey] = Tail(@)]
    /\ UNCHANGED <<state, radio, lines, pinGate, outbound, conn, orphan,
                   waiting, written, outside, ctl>>

ChangePin ==
    /\ changes < MaxChanges /\ up["configd"]
    /\ \E p \in Pins : SetPairingPin(Robotctl, p)
    /\ changes' = changes + 1
    /\ confirmed' = NoPin
    /\ UNCHANGED <<state, radio, lines, pinGate, outbound, replies, pool,
                   waiting, written, outside>>

PinChanged ==
    /\ WriteDone(Robotctl)
    /\ confirmed' = edited[Robotctl].pin
    /\ UNCHANGED <<state, radio, lines, pinGate, outbound, replies, pool,
                   waiting, written, outside, changes>>

WriteConfig(w) ==
    /\ TakeLock(w) \/ Rename(w)
    /\ UNCHANGED <<state, radio, lines, pinGate, outbound, replies, pool,
                   waiting, written, outside, ctl>>

\* A service dies (an update restarts it, say) with its connections.
Die(u) ==
    /\ up[u] /\ deaths < MaxDeaths
    /\ up' = [up EXCEPT ![u] = FALSE]
    /\ deaths' = deaths + 1
    /\ conn' = [s \in Sessions |-> [k \in Keys |->
         IF k[1] = u /\ conn[s][k] = "live" THEN "broken" ELSE conn[s][k]]]
    /\ queue' = [s \in Sessions |-> [k \in Keys |->
         IF k[1] = u THEN <<>> ELSE queue[s][k]]]
    /\ orphan' = [s \in Sessions |-> [k \in Keys |->
         IF k[1] = u THEN <<>> ELSE orphan[s][k]]]
    /\ IF u = "configd"
         THEN /\ asked' = [s \in Sessions |->
                             IF asked[s] = Waiting THEN Failed ELSE asked[s]]
              /\ StoreDies
         ELSE UNCHANGED <<asked, storeVars>>
    /\ UNCHANGED <<state, radio, lines, authenticated, attemptsLeft, outbound,
                   replies, waiting, written, ctl>>

Rise(u) ==
    /\ ~up[u]
    /\ up' = [up EXCEPT ![u] = TRUE]
    /\ UNCHANGED <<state, radio, lines, pinGate, outbound, replies, pool,
                   waiting, written, deaths, ctl, storeVars>>

-----------------------------------------------------------------------------
Dispatch(s) == Deny(s) \/ AskPin(s) \/ Sent(s) \/ NotSent(s)
Authenticate(s) == PinAnswered(s) \/ PinUnknown(s) \/ Admit(s) \/ WrongPin(s)
Session(s) == TakeChunk(s) \/ PassOn(s) \/ Dispatch(s) \/ Authenticate(s)

Next ==
    \/ Subscribe \/ Write
    \/ \E s \in Sessions : Hear(s) \/ Unsubscribe(s) \/ TaskOver(s)
    \/ \E s \in Sessions : Session(s)
    \/ \E s \in Sessions, k \in Keys : Serve(s, k) \/ ServeOrphan(s, k)
    \/ \E s \in Sessions : Progress(s) \/ Renaming(s) \/ Renamed(s)
    \/ ChangePin \/ PinChanged
    \/ \E w \in Writers : WriteConfig(w)
    \/ \E u \in Services : Die(u) \/ Rise(u)

Spec == Init /\ [][Next]_vars
=============================================================================
