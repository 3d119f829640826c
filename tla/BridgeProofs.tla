------------------------------ MODULE BridgeProofs ------------------------------
(***************************************************************************)
(* What holds of the Bluetooth bridge for any number of sessions, requests *)
(* and PINs, with configd and updaterd dying at any step: the PIN gate     *)
(* rations its guesses and admits by what is stored, the newest session    *)
(* keeps the slot, a request is answered once, and the bridge implements   *)
(* the ledger of requests.                                                 *)
(***************************************************************************)
EXTENDS BridgeSafety, TLAPS

\* What the step of a session does to the histories.
Histories ==
    /\ wrong' = [s \in Sessions |->
         IF Judges(s) /\ Request(s).call.pin # asked[s]
           THEN wrong[s] + 1 ELSE wrong[s]]
    /\ held' = [s \in Sessions |->
         IF state'[s] = "pin"
           THEN (IF state[s] = "pin" THEN held[s] ELSE {file.pin})
                  \cup {file'.pin}
           ELSE {}]

States == {"none", "serving", "pin", "closed", "over"}

GateTypeOK ==
    /\ state \in [Sessions -> States]
    /\ asked \in [Sessions -> Pins \cup {NoPin, Waiting, Failed}]
    /\ attemptsLeft \in [Sessions -> 0..PinAttempts]
    /\ wrong \in [Sessions -> Nat]
    /\ slot \in Sessions \cup {0}

\* A session that can still judge a PIN has attempts left, and every wrong one
\* was counted; a PIN that configd answered was in the file while btd asked.
GateInv ==
    \A s \in Sessions :
      /\ asked[s] # NoPin <=> state[s] = "pin"
      /\ wrong[s] + attemptsLeft[s] = PinAttempts
      /\ state[s] \in {"none", "serving", "pin"} => attemptsLeft[s] > 0
      /\ asked[s] \in Pins => asked[s] \in held[s]

\* Sessions begin in their order.
InOrder ==
    \A s, t \in Sessions : t < s /\ state[s] # "none" => state[t] # "none"

IInv == StoreTypeOK /\ GateTypeOK /\ GateInv /\ InOrder /\ NewestHoldsSlot

-----------------------------------------------------------------------------
(* The config store.                                                       *)

LEMMA StoreInitType == StoreInit => StoreTypeOK
BY StoreAssumption DEF StoreInit, StoreTypeOK, Unprovisioned, Configs

LEMMA EditType ==
  ASSUME StoreTypeOK, NEW w \in Writers, NEW c \in Configs, Edit(w, c)
  PROVE  StoreTypeOK'
BY DEF StoreTypeOK, Edit

\* Whatever configd does, the file holds a config of six-digit PINs.
LEMMA StoreKeepsType ==
  ASSUME StoreTypeOK, NEW w \in Writers,
         \/ \E n \in Names : SetName(w, n)
         \/ \E p \in Pins : SetPairingPin(w, p)
         \/ TakeLock(w) \/ Rename(w) \/ WriteDone(w)
         \/ StoreDies
         \/ UNCHANGED storeVars
  PROVE  StoreTypeOK'
<1>1. CASE \E n \in Names : SetName(w, n)
  <2>1. PICK n \in Names : SetName(w, n) BY <1>1
  <2>2. [file EXCEPT !.name = n] \in Configs BY DEF StoreTypeOK, Configs
  <2> QED BY <2>1, <2>2, EditType DEF SetName
<1>2. CASE \E p \in Pins : SetPairingPin(w, p)
  <2>1. PICK p \in Pins : SetPairingPin(w, p) BY <1>2
  <2>2. [file EXCEPT !.pin = p] \in Configs BY DEF StoreTypeOK, Configs
  <2> QED BY <2>1, <2>2, EditType DEF SetPairingPin
<1>3. CASE TakeLock(w) BY <1>3 DEF StoreTypeOK, TakeLock
<1>4. CASE Rename(w) BY <1>4 DEF StoreTypeOK, Rename
<1>5. CASE WriteDone(w) BY <1>5 DEF StoreTypeOK, WriteDone
<1>6. CASE StoreDies BY <1>6 DEF StoreTypeOK, StoreDies
<1>7. CASE UNCHANGED storeVars BY <1>7 DEF StoreTypeOK, storeVars
<1> QED BY <1>1, <1>2, <1>3, <1>4, <1>5, <1>6, <1>7

\* A step of the bridge keeps the store's type.
LEMMA StoreStep ==
  ASSUME StoreTypeOK, [Next]_vars
  PROVE  StoreTypeOK'
<1> USE DEF vars
<1>0. Robotctl \in Writers /\ Sessions \subseteq Writers
  BY BridgeAssumption DEF Sessions
<1>1. CASE UNCHANGED storeVars BY <1>0, <1>1, StoreKeepsType
<1>2. CASE ChangePin BY <1>0, <1>2, StoreKeepsType DEF ChangePin
<1>3. CASE PinChanged BY <1>0, <1>3, StoreKeepsType DEF PinChanged
<1>4. ASSUME NEW w \in Writers, WriteConfig(w) PROVE StoreTypeOK'
  BY <1>4, StoreKeepsType DEF WriteConfig
<1>5. ASSUME NEW s \in Sessions, Renaming(s) \/ Renamed(s) PROVE StoreTypeOK'
  BY <1>0, <1>5, StoreKeepsType DEF Renaming, Renamed
<1>6. ASSUME NEW u \in Services, Die(u) PROVE StoreTypeOK'
  BY <1>0, <1>6, StoreKeepsType DEF Die, storeVars
<1>7. ASSUME NEW s \in Sessions, Session(s) PROVE UNCHANGED storeVars
  BY <1>7 DEF Session, TakeChunk, PassOn, Dispatch, Deny, AskPin, Sent, NotSent,
              Authenticate, PinAnswered, PinUnknown, Admit, WrongPin
<1>8. Subscribe \/ Write => UNCHANGED storeVars BY DEF Subscribe, Write
<1>9. ASSUME NEW s \in Sessions, Hear(s) \/ Unsubscribe(s) \/ TaskOver(s)
      PROVE  UNCHANGED storeVars
  BY <1>9 DEF Hear, Unsubscribe, TaskOver
<1>10. ASSUME NEW s \in Sessions, NEW k \in Keys,
              Serve(s, k) \/ ServeOrphan(s, k) \/ Progress(s)
       PROVE  UNCHANGED storeVars
  BY <1>10 DEF Serve, ServeOrphan, Progress
<1>11. ASSUME NEW s \in Sessions, Progress(s) PROVE UNCHANGED storeVars
  BY <1>11 DEF Progress
<1>12. ASSUME NEW u \in Services, Rise(u) PROVE UNCHANGED storeVars
  BY <1>12 DEF Rise
<1> QED BY <1>1, <1>2, <1>3, <1>4, <1>5, <1>6, <1>7, <1>8, <1>9, <1>10, <1>11,
           <1>12 DEF Next

-----------------------------------------------------------------------------
(* The PIN gate and the slot.                                              *)

gate == <<state, asked, attemptsLeft, slot>>

\* A step that leaves the gate alone judges nothing.
LEMMA GateAtRest ==
  ASSUME IInv, StoreTypeOK', Histories, UNCHANGED gate
  PROVE  IInv'
<1>1. NoPin \notin Pins BY BridgeAssumption
<1>2. ASSUME NEW s \in Sessions PROVE ~Judges(s)
  BY <1>1 DEF IInv, GateInv, gate, Judges
<1>3. wrong' = wrong BY <1>2 DEF IInv, GateTypeOK, Histories
<1>4. ASSUME NEW s \in Sessions, asked[s] \in Pins PROVE asked[s] \in held'[s]
  BY <1>1, <1>4 DEF IInv, GateInv, Histories, gate
<1>5. GateTypeOK' BY <1>3 DEF IInv, GateTypeOK, gate
<1>6. GateInv' BY <1>3, <1>4 DEF IInv, GateInv, gate
<1>7. InOrder' /\ NewestHoldsSlot' BY DEF IInv, InOrder, NewestHoldsSlot, gate
<1> QED BY <1>5, <1>6, <1>7 DEF IInv

\* A step in which session s moves between states it may move between, without
\* a PIN being judged.
LEMMA GateMoves ==
  ASSUME IInv, StoreTypeOK', Histories, NEW s \in Sessions,
         NEW to \in {"serving", "pin", "over"},
         NEW pin \in Pins \cup {NoPin, Waiting, Failed},
         state' = [state EXCEPT ![s] = to],
         asked' = [asked EXCEPT ![s] = pin],
         attemptsLeft' = attemptsLeft,
         pin # NoPin <=> to = "pin",
         pin \in Pins => pin = file'.pin,
         ~Judges(s) \/ Request(s).call.pin = asked[s],
         to # "over" => state[s] \in {"serving", "pin"} /\ slot' = slot,
         to = "over" => state[s] # "none"
                          /\ slot' = (IF slot = s THEN 0 ELSE slot)
  PROVE  IInv'
<1>1. NoPin \notin Pins BY BridgeAssumption
<1>2. ASSUME NEW t \in Sessions, t # s PROVE ~Judges(t)
  BY <1>1, <1>2 DEF IInv, GateTypeOK, Judges
<1>3. wrong' = wrong BY <1>2 DEF IInv, GateTypeOK, Histories
<1>4. GateTypeOK' BY <1>3 DEF IInv, GateTypeOK, States
<1>5. GateInv'
  <2>1. ASSUME NEW t \in Sessions, asked'[t] \in Pins PROVE asked'[t] \in held'[t]
    <3>1. CASE t = s
      BY <1>1, <2>1, <3>1 DEF IInv, GateTypeOK, Histories
    <3>2. CASE t # s
      BY <1>1, <2>1, <3>2 DEF IInv, GateTypeOK, GateInv, Histories
    <3> QED BY <3>1, <3>2
  <2>2. ASSUME NEW t \in Sessions
        PROVE  /\ asked'[t] # NoPin <=> state'[t] = "pin"
               /\ wrong'[t] + attemptsLeft'[t] = PinAttempts
               /\ state'[t] \in {"none", "serving", "pin"} => attemptsLeft'[t] > 0
    BY <1>3 DEF IInv, GateTypeOK, GateInv
  <2> QED BY <2>1, <2>2 DEF GateInv
<1>6. InOrder' BY DEF IInv, GateTypeOK, InOrder
<1>7. NewestHoldsSlot' BY DEF IInv, GateTypeOK, NewestHoldsSlot, InOrder, Sessions
<1> QED BY <1>4, <1>5, <1>6, <1>7 DEF IInv

\* A wrong PIN costs an attempt, and the last one ends the session.
LEMMA WrongPinStep ==
  ASSUME IInv, StoreTypeOK', Histories, NEW s \in Sessions, WrongPin(s)
  PROVE  IInv'
<1>1. NoPin \notin Pins BY BridgeAssumption
<1>2. state[s] = "pin" /\ attemptsLeft[s] > 0
  BY <1>1 DEF WrongPin, IInv, GateInv
<1>3. attemptsLeft' = [attemptsLeft EXCEPT ![s] = @ - 1]
  <2>1. attemptsLeft[s] # 0 BY <1>2
  <2>2. attemptsLeft' = [attemptsLeft EXCEPT ![s] = IF @ = 0 THEN 0 ELSE @ - 1]
    BY DEF WrongPin
  <2> QED BY <2>1, <2>2
<1>4. asked' = [asked EXCEPT ![s] = NoPin] /\ slot' = slot
  BY DEF WrongPin
<1>5. state' = [state EXCEPT ![s] =
                  IF attemptsLeft[s] = 1 THEN "closed" ELSE "serving"]
  BY <1>2, <1>3 DEF WrongPin, IInv, GateTypeOK
<1>6. Judges(s) /\ Request(s).call.pin # asked[s]
  BY <1>4, <1>5 DEF WrongPin, Judges, IInv, GateTypeOK
<1>7. ASSUME NEW t \in Sessions, t # s PROVE ~Judges(t)
  BY <1>1, <1>4, <1>7 DEF IInv, GateTypeOK, Judges
<1>8. wrong' = [wrong EXCEPT ![s] = @ + 1]
  BY <1>6, <1>7 DEF IInv, GateTypeOK, Histories
<1>9. GateTypeOK'
  <2>1. attemptsLeft[s] - 1 \in 0..PinAttempts
    BY <1>2, BridgeAssumption DEF IInv, GateTypeOK
  <2>2. attemptsLeft' \in [Sessions -> 0..PinAttempts]
    BY <1>3, <2>1 DEF IInv, GateTypeOK
  <2>3. state' \in [Sessions -> States]
    BY <1>5 DEF IInv, GateTypeOK, States
  <2>4. wrong' \in [Sessions -> Nat]
    BY <1>8 DEF IInv, GateTypeOK
  <2>5. asked' \in [Sessions -> Pins \cup {NoPin, Waiting, Failed}]
    BY <1>4 DEF IInv, GateTypeOK
  <2> QED BY <1>4, <2>2, <2>3, <2>4, <2>5 DEF IInv, GateTypeOK
<1>10. GateInv'
  <2>1. ASSUME NEW t \in Sessions, asked'[t] \in Pins PROVE asked'[t] \in held'[t]
    BY <1>1, <1>4, <1>5, <2>1 DEF IInv, GateTypeOK, GateInv, Histories
  <2>2. ASSUME NEW t \in Sessions
        PROVE  /\ asked'[t] # NoPin <=> state'[t] = "pin"
               /\ wrong'[t] + attemptsLeft'[t] = PinAttempts
               /\ state'[t] \in {"none", "serving", "pin"} => attemptsLeft'[t] > 0
    BY <1>2, <1>3, <1>4, <1>5, <1>8, BridgeAssumption DEF IInv, GateTypeOK, GateInv
  <2> QED BY <2>1, <2>2 DEF GateInv
<1>11. InOrder' BY <1>2, <1>5 DEF IInv, GateTypeOK, InOrder
<1>12. NewestHoldsSlot'
  BY <1>2, <1>4, <1>5 DEF IInv, GateTypeOK, NewestHoldsSlot
<1> QED BY <1>9, <1>10, <1>11, <1>12 DEF IInv

\* A subscription takes the slot with the next session.
LEMMA SubscribeStep ==
  ASSUME IInv, StoreTypeOK', Histories, Subscribe
  PROVE  IInv'
<1>1. NoPin \notin Pins BY BridgeAssumption
<1>2. PICK s \in Sessions :
        /\ state[s] = "none" /\ \A t \in 1..(s - 1) : state[t] # "none"
        /\ state' = [state EXCEPT ![s] = "serving"]
        /\ slot' = s
  BY DEF Subscribe
<1>3. asked' = asked /\ attemptsLeft' = attemptsLeft
  BY DEF Subscribe, pinGate
<1>4. ASSUME NEW t \in Sessions PROVE ~Judges(t)
  BY <1>1, <1>3 DEF IInv, GateInv, Judges
<1>5. wrong' = wrong BY <1>4 DEF IInv, GateTypeOK, Histories
<1>6. GateTypeOK' BY <1>2, <1>3, <1>5 DEF IInv, GateTypeOK, States
<1>7. GateInv'
  <2>1. ASSUME NEW t \in Sessions, asked'[t] \in Pins PROVE asked'[t] \in held'[t]
    BY <1>1, <1>2, <1>3, <2>1 DEF IInv, GateTypeOK, GateInv, Histories
  <2>2. ASSUME NEW t \in Sessions
        PROVE  /\ asked'[t] # NoPin <=> state'[t] = "pin"
               /\ wrong'[t] + attemptsLeft'[t] = PinAttempts
               /\ state'[t] \in {"none", "serving", "pin"} => attemptsLeft'[t] > 0
    BY <1>2, <1>3, <1>5 DEF IInv, GateTypeOK, GateInv
  <2> QED BY <2>1, <2>2 DEF GateInv
<1>8. \A t \in Sessions : t > s => state[t] = "none"
  BY <1>2 DEF IInv, InOrder
<1>9. InOrder' BY <1>2 DEF IInv, GateTypeOK, InOrder, Sessions
<1>10. NewestHoldsSlot'
  BY <1>2, <1>8 DEF IInv, GateTypeOK, NewestHoldsSlot, Sessions
<1> QED BY <1>6, <1>7, <1>9, <1>10 DEF IInv

\* configd's death fails the PIN exchanges that wait for it.
LEMMA DieStep ==
  ASSUME IInv, StoreTypeOK', Histories, NEW u \in Services, Die(u)
  PROVE  IInv'
<1>1. /\ NoPin \notin Pins /\ Failed \notin Pins /\ Waiting \notin Pins
      /\ NoPin # Failed /\ NoPin # Waiting
  BY BridgeAssumption
<1>2. state' = state /\ slot' = slot /\ attemptsLeft' = attemptsLeft
  BY DEF Die, radio
<1>3. asked' = asked \/ asked' = [s \in Sessions |->
                         IF asked[s] = Waiting THEN Failed ELSE asked[s]]
  BY DEF Die
<1>4. ASSUME NEW s \in Sessions
      PROVE  /\ asked'[s] # NoPin <=> asked[s] # NoPin
             /\ asked'[s] \in Pins => asked'[s] = asked[s]
             /\ asked'[s] \in Pins \cup {NoPin, Waiting, Failed}
  BY <1>1, <1>3 DEF IInv, GateTypeOK
<1>5. ASSUME NEW s \in Sessions PROVE ~Judges(s)
  BY <1>1, <1>4 DEF IInv, GateInv, Judges
<1>6. wrong' = wrong BY <1>5 DEF IInv, GateTypeOK, Histories
<1>7. GateTypeOK' BY <1>2, <1>3, <1>4, <1>6 DEF IInv, GateTypeOK
<1>8. GateInv'
  <2>1. ASSUME NEW t \in Sessions, asked'[t] \in Pins PROVE asked'[t] \in held'[t]
    BY <1>1, <1>2, <1>4, <2>1 DEF IInv, GateInv, Histories
  <2> QED BY <1>2, <1>4, <1>6, <2>1 DEF IInv, GateInv
<1>9. InOrder' /\ NewestHoldsSlot'
  BY <1>2 DEF IInv, InOrder, NewestHoldsSlot
<1> QED BY <1>7, <1>8, <1>9 DEF IInv

-----------------------------------------------------------------------------
(* The theorems.                                                           *)

LEMMA InitIInv == BridgeInit => IInv
<1> SUFFICES ASSUME BridgeInit PROVE IInv OBVIOUS
<1>1. StoreTypeOK BY StoreInitType DEF BridgeInit, Init
<1>2. GateTypeOK /\ GateInv
  BY BridgeAssumption DEF BridgeInit, Init, GateTypeOK, GateInv, States
<1>3. InOrder /\ NewestHoldsSlot
  BY DEF BridgeInit, Init, InOrder, NewestHoldsSlot
<1> QED BY <1>1, <1>2, <1>3 DEF IInv

\* A session's task ends: the slot is free only if it was this session's.
LEMMA TaskOverStep ==
  ASSUME IInv, StoreTypeOK', Histories, NEW s \in Sessions, TaskOver(s)
  PROVE  IInv'
<1>1. state[s] # "none" /\ state'[s] = "over"
  BY DEF TaskOver, IInv, GateTypeOK
<1>2. /\ state' = [state EXCEPT ![s] = "over"]
      /\ asked' = [asked EXCEPT ![s] = NoPin]
      /\ attemptsLeft' = attemptsLeft
      /\ slot' = (IF slot = s THEN 0 ELSE slot)
  BY DEF TaskOver
<1>3. ~Judges(s) BY <1>1 DEF Judges
<1>4. NoPin \notin Pins BY BridgeAssumption
<1> QED BY <1>1, <1>2, <1>3, <1>4, GateMoves

\* The steps of an exchange with configd about the PIN.
LEMMA ExchangeStep ==
  ASSUME IInv, StoreTypeOK', Histories, NEW s \in Sessions,
         AskPin(s) \/ PinAnswered(s) \/ PinUnknown(s) \/ Admit(s)
  PROVE  IInv'
<1>1. /\ NoPin \notin Pins /\ Failed \notin Pins /\ Waiting \notin Pins
      /\ NoPin # Failed /\ NoPin # Waiting
  BY BridgeAssumption
<1>2. CASE AskPin(s)
  <2>1. PICK p \in {Waiting, Failed} :
          /\ asked' = [asked EXCEPT ![s] = p]
          /\ state' = [state EXCEPT ![s] = "pin"]
          /\ attemptsLeft' = attemptsLeft /\ slot' = slot /\ state[s] = "serving"
    BY <1>2 DEF AskPin, AtLine, radio
  <2>2. ~Judges(s) BY <1>1, <2>1 DEF IInv, GateInv, Judges
  <2> QED BY <1>1, <2>1, <2>2, GateMoves
<1>3. CASE PinAnswered(s)
  <2>1. state[s] = "pin" BY <1>1, <1>3 DEF PinAnswered, IInv, GateInv
  <2>2. PICK p \in {file.pin, Failed} :
          /\ asked' = [asked EXCEPT ![s] = p]
          /\ state' = state /\ attemptsLeft' = attemptsLeft /\ slot' = slot
          /\ file' = file
    BY <1>3 DEF PinAnswered, radio, storeVars
  <2>3. state' = [state EXCEPT ![s] = "pin"]
    BY <2>1, <2>2 DEF IInv, GateTypeOK
  <2>4. file.pin \in Pins BY DEF IInv, StoreTypeOK, Configs
  <2>5. ~Judges(s) BY <1>1, <1>3 DEF PinAnswered, Judges
  <2> QED BY <1>1, <2>1, <2>2, <2>3, <2>4, <2>5, GateMoves
<1>4. CASE PinUnknown(s) \/ Admit(s)
  <2>1. state[s] = "pin" BY <1>1, <1>4 DEF PinUnknown, Admit, IInv, GateInv
  <2>2. /\ asked' = [asked EXCEPT ![s] = NoPin]
        /\ state' = [state EXCEPT ![s] = "serving"]
        /\ attemptsLeft' = attemptsLeft /\ slot' = slot
    BY <1>4 DEF PinUnknown, Admit, radio
  <2>3. ~Judges(s) \/ Request(s).call.pin = asked[s]
    BY <1>1, <1>4 DEF PinUnknown, Admit, Judges
  <2> QED BY <1>1, <2>1, <2>2, <2>3, GateMoves
<1> QED BY <1>2, <1>3, <1>4

LEMMA NextIInv == IInv /\ [BridgeNext]_allVars => IInv'
<1> SUFFICES ASSUME IInv, [BridgeNext]_allVars PROVE IInv' OBVIOUS
<1>1. CASE UNCHANGED allVars
  <2>1. /\ UNCHANGED gate /\ UNCHANGED storeVars
        /\ wrong' = wrong /\ held' = held
    BY <1>1 DEF allVars, vars, gate, radio, pinGate
  <2> QED BY <2>1 DEF IInv, StoreTypeOK, GateTypeOK, GateInv, InOrder,
                      NewestHoldsSlot, gate, storeVars
<1>2. CASE BridgeNext
  <2>1. Next /\ Histories BY <1>2 DEF BridgeNext, Histories
  <2>2. StoreTypeOK' BY <2>1, StoreStep DEF IInv
  <2>3. UNCHANGED gate => IInv' BY <2>1, <2>2, GateAtRest
  <2>4. CASE Subscribe BY <2>1, <2>2, <2>4, SubscribeStep
  <2>5. CASE Write \/ ChangePin \/ PinChanged
    BY <2>3, <2>5 DEF Write, ChangePin, PinChanged, gate, radio, pinGate
  <2>6. ASSUME NEW s \in Sessions, Hear(s) \/ Unsubscribe(s) PROVE IInv'
    BY <2>3, <2>6 DEF Hear, Unsubscribe, gate, radio, pinGate
  <2>7. ASSUME NEW s \in Sessions, TaskOver(s) PROVE IInv'
    BY <2>1, <2>2, <2>7, TaskOverStep
  <2>8. ASSUME NEW s \in Sessions, Session(s) PROVE IInv'
    <3>1. CASE AskPin(s) \/ PinAnswered(s) \/ PinUnknown(s) \/ Admit(s)
      BY <2>1, <2>2, <3>1, ExchangeStep
    <3>2. CASE WrongPin(s) BY <2>1, <2>2, <3>2, WrongPinStep
    <3>3. CASE TakeChunk(s) \/ PassOn(s) \/ Deny(s) \/ Sent(s) \/ NotSent(s)
      BY <2>3, <3>3 DEF TakeChunk, PassOn, Deny, Sent, NotSent, gate, radio,
                        pinGate
    <3> QED BY <2>8, <3>1, <3>2, <3>3 DEF Session, Dispatch, Authenticate
  <2>9. ASSUME NEW s \in Sessions, NEW k \in Keys, Serve(s, k) \/ ServeOrphan(s, k)
        PROVE  IInv'
    BY <2>3, <2>9 DEF Serve, ServeOrphan, gate, radio, pinGate
  <2>10. ASSUME NEW s \in Sessions, Progress(s) \/ Renaming(s) \/ Renamed(s)
         PROVE  IInv'
    BY <2>3, <2>10 DEF Progress, Renaming, Renamed, gate, radio, pinGate
  <2>11. ASSUME NEW w \in Writers, WriteConfig(w) PROVE IInv'
    BY <2>3, <2>11 DEF WriteConfig, gate, radio, pinGate
  <2>12. ASSUME NEW u \in Services, Die(u) PROVE IInv'
    BY <2>1, <2>2, <2>12, DieStep
  <2>13. ASSUME NEW u \in Services, Rise(u) PROVE IInv'
    BY <2>3, <2>13 DEF Rise, gate, radio, pinGate
  <2> QED BY <2>1, <2>4, <2>5, <2>6, <2>7, <2>8, <2>9, <2>10, <2>11, <2>12,
             <2>13 DEF Next
<1> QED BY <1>1, <1>2

LEMMA GateInvariant == BridgeSpec => []IInv
BY InitIInv, NextIInv, PTL DEF BridgeSpec

\* No session judges more wrong PINs than it grants, however they are batched
\* and whatever dies meanwhile (session.rs PIN_ATTEMPTS).
THEOREM RationsGuesses == BridgeSpec => []GuessesRationed
<1>1. IInv => GuessesRationed
  BY BridgeAssumption DEF IInv, GateTypeOK, GateInv, GuessesRationed
<1> QED BY <1>1, GateInvariant, PTL

\* A late end of an old subscription never takes the slot from the newest
\* session (bluez.rs, the same_channel check).
THEOREM NewestKeepsSlot == BridgeSpec => []NewestHoldsSlot
<1>1. IInv => NewestHoldsSlot BY DEF IInv
<1> QED BY <1>1, GateInvariant, PTL

\* Who is admitted named a PIN that the config file held while btd asked for it,
\* however robotctl, renames and restarts of configd come in between.
THEOREM AdmitsByStoredPin == BridgeSpec => AdmittedByStoredPin
<1>1. ASSUME IInv, [BridgeNext]_allVars
      PROVE  [\A s \in Sessions : ~authenticated[s] /\ authenticated'[s]
                => Request(s).call.pin \in held[s]]_allVars
  <2>1. CASE UNCHANGED allVars BY <2>1
  <2>2. CASE BridgeNext
    <3>1. SUFFICES ASSUME NEW s \in Sessions, ~authenticated[s], authenticated'[s]
                   PROVE  Request(s).call.pin \in held[s]
      OBVIOUS
    <3>2. authenticated' # authenticated BY <3>1
    <3>3. PICK t \in Sessions : Admit(t)
      <4>1. Next BY <2>2 DEF BridgeNext
      <4>2. ASSUME NEW u \in Sessions, Session(u) PROVE Admit(u)
        BY <3>2, <4>2 DEF Session, TakeChunk, PassOn, Dispatch, Deny, AskPin,
             Sent, NotSent, Authenticate, PinAnswered, PinUnknown, WrongPin,
             pinGate
      <4> QED BY <3>2, <4>1, <4>2 DEF Next, Subscribe, Write, Hear, Unsubscribe,
             TaskOver, Serve, ServeOrphan, Progress, Renaming, Renamed,
             ChangePin, PinChanged, WriteConfig, Die, Rise, pinGate
    <3>4. authenticated' = [authenticated EXCEPT ![t] = TRUE]
      BY <3>3 DEF Admit
    <3>5. s = t BY <3>1, <3>4
    <3>6. asked[s] \in Pins /\ Request(s).call.pin = asked[s]
      BY <3>3, <3>5 DEF Admit
    <3> QED BY <1>1, <3>6 DEF IInv, GateInv
  <2> QED BY <1>1, <2>1, <2>2
<1> QED BY <1>1, GateInvariant, PTL DEF BridgeSpec, AdmittedByStoredPin

-----------------------------------------------------------------------------
(* What is on the wire.                                                    *)

\* The queues between a central and the services, and who writes to them.
WireTypeOK ==
    /\ subscribed \in [Sessions -> BOOLEAN]
    /\ authenticated \in [Sessions -> BOOLEAN]
    /\ inbound \in [Sessions -> Seq(Seq(Requests))]
    /\ lines \in [Sessions -> Seq(Requests)]
    /\ outbound \in [Sessions -> Seq(Replies)]
    /\ replies \in [Sessions -> Seq(Replies)]
    /\ \A s \in Sessions : Len(replies[s]) <= Room
    /\ conn \in [Sessions -> [Keys -> {"none", "live", "broken"}]]
    /\ queue \in [Sessions -> [Keys -> Seq(Requests)]]
    /\ orphan \in [Sessions -> [Keys -> Seq(Requests)]]
    /\ waiting \in [Sessions -> SUBSET Requests]
    /\ written \in 0..MaxRequests
    /\ up \in [Services -> BOOLEAN]
    /\ confirmed \in Pins \cup {NoPin}

\* A PIN is asked for on behalf of a line.
LineAtHand == \A s \in Sessions : state[s] = "pin" => lines[s] # <<>>

\* A session's change of the config is about a request that configd still has;
\* renames go to configd and nothing else does.
RenameAtHand ==
    \A s \in Sessions :
      /\ stage[s] # "idle" => queue[s][ConfigKey] # <<>>
      /\ \A i \in DOMAIN queue[s][ConfigKey] :
           queue[s][ConfigKey][i].call.method = "setName"
      /\ queue[s][ConfigKey] # <<>> => up["configd"]
      /\ conn[s][ConfigKey] = "live" => up["configd"]
      /\ conn[s][ConfigKey] = "broken" => queue[s][ConfigKey] = <<>>

WireInv == WireTypeOK /\ LineAtHand /\ RenameAtHand

wire == <<state, subscribed, inbound, lines, authenticated, outbound, replies, pool,
          waiting, written, up, confirmed>>

\* One entry of a table of the pool is put in place of another.
LEMMA PoolEntry ==
  ASSUME NEW S, NEW f \in [Sessions -> [Keys -> S]], NEW s \in Sessions,
         NEW k \in Keys, NEW v \in S, NEW g, g = [f EXCEPT ![s][k] = v]
  PROVE  /\ g \in [Sessions -> [Keys -> S]]
         /\ g[s][k] = v
         /\ \A t \in Sessions, l \in Keys : t # s \/ l # k => g[t][l] = f[t][l]
         /\ \A t \in Sessions : t # s => g[t] = f[t]
<1>1. g = [f EXCEPT ![s] = [@ EXCEPT ![k] = v]]
  OBVIOUS
<1> QED
  BY <1>1

\* A queue one shorter or one longer is a queue.
LEMMA QueueTypes ==
  ASSUME NEW S, NEW q \in Seq(S)
  PROVE  /\ q # <<>> => /\ Tail(q) \in Seq(S) /\ Head(q) \in S
                        /\ Len(Tail(q)) = Len(q) - 1 /\ Len(q) \in Nat
         /\ \A x \in S : /\ Append(q, x) \in Seq(S)
                         /\ Len(Append(q, x)) = Len(q) + 1
                         /\ Append(q, x) # <<>>
         /\ <<>> \in Seq(S)
<1>1. q # <<>> => /\ Tail(q) \in Seq(S) /\ Head(q) \in S
                  /\ Len(Tail(q)) = Len(q) - 1 /\ Len(q) \in Nat
  OBVIOUS
<1>2. \A x \in S : /\ Append(q, x) \in Seq(S)
                   /\ Len(Append(q, x)) = Len(q) + 1
  OBVIOUS
<1>3. \A x \in S : Append(q, x) # <<>>
  <2>1. Len(<<>>) = 0 /\ Len(q) \in Nat
    OBVIOUS
  <2> QED BY <1>2, <2>1
<1> QED
  BY <1>1, <1>2, <1>3

\* What is in the rest of a queue was in it, one place later.
LEMMA TailAt ==
  ASSUME NEW S, NEW q \in Seq(S), q # <<>>, NEW i \in DOMAIN Tail(q)
  PROVE  /\ i \in Nat /\ i >= 1 /\ i + 1 \in DOMAIN q /\ Tail(q)[i] = q[i + 1]
         /\ 1 \in DOMAIN q /\ Head(q) = q[1]
OBVIOUS

\* What is in a queue that has grown was in it, or is the new one.
LEMMA AppendAt ==
  ASSUME NEW S, NEW q \in Seq(S), NEW x \in S, NEW i \in DOMAIN Append(q, x)
  PROVE  \/ Append(q, x)[i] = x /\ i = Len(q) + 1
         \/ i \in DOMAIN q /\ Append(q, x)[i] = q[i] /\ i # Len(q) + 1
OBVIOUS

\* Every call has a connection, and only renames have configd's.
LEMMA KeyTypes ==
  ASSUME NEW call \in Calls
  PROVE  /\ KeyOf(call) \in Keys
         /\ KeyOf(call) = ConfigKey => call.method = "setName"
         /\ KeyOf(call)[1] \in Services
         /\ ConfigKey \in Keys /\ ConfigKey[1] = "configd"
<1>1. CASE call.method = "setName"
  BY <1>1 DEF KeyOf, Keys, Services, ConfigKey
<1>2. CASE call.method = "apply"
  BY <1>2 DEF KeyOf, Keys, Services, ConfigKey, Lanes
<1>3. CASE call.method = "subscribe"
  BY <1>3 DEF KeyOf, Keys, Services, ConfigKey, Lanes
<1>4. CASE call.method \notin {"setName", "apply", "subscribe"}
  BY <1>4 DEF KeyOf, Keys, Services, ConfigKey, Lanes
<1> QED
  BY <1>1, <1>2, <1>3, <1>4

\* What a request is answered with is a reply.
LEMMA ReplyTypes ==
  /\ \A r \in Requests :
       /\ r.id \in 1..MaxRequests /\ r.call \in Calls
       /\ \A what \in {"served", "denied", "refused", "wrong", "right", "unavailable"} :
            [id |-> r.id, says |-> what] \in Replies
  /\ [id |-> 0, says |-> "progress"] \in Replies
BY BridgeAssumption DEF Requests, Replies

\* What a central writes at once.
Chunk(n, call) == [i \in 1..n |-> [id |-> written + i, call |-> call[i]]]

Wrote(n, call) ==
    /\ written + n <= MaxRequests
    /\ inbound' = [inbound EXCEPT ![slot] = Append(@, Chunk(n, call))]
    /\ waiting' = [waiting EXCEPT ![slot] = @ \cup Range(Chunk(n, call))]
    /\ written' = written + n

\* The radio: who is subscribed, what it writes and hears.
LEMMA RadioKeepsWire ==
  ASSUME IInv, WireInv,
         \/ Subscribe \/ Write
         \/ \E s \in Sessions : Hear(s) \/ Unsubscribe(s) \/ TaskOver(s)
  PROVE  WireInv'
<1> USE DEF WireInv
<1>1. CASE Subscribe
  <2>1. WireTypeOK'
    BY <1>1 DEF Subscribe, WireTypeOK, pinGate, pool, outside, ctl
  <2>2. LineAtHand'
    BY <1>1 DEF Subscribe, LineAtHand, IInv, GateTypeOK
  <2>3. RenameAtHand'
    BY <1>1 DEF Subscribe, RenameAtHand, pool, outside, storeVars
  <2> QED BY <2>1, <2>2, <2>3
<1>2. CASE Write
  <2>0. PICK n \in 1..MaxBatch : \E call \in [1..n -> Calls] : Wrote(n, call)
    BY <1>2 DEF Write, Wrote, Chunk
  <2>1. PICK call \in [1..n -> Calls] : Wrote(n, call)
    BY <2>0
  <2> DEFINE chunk == Chunk(n, call)
  <2>2. /\ slot \in Sessions
        /\ UNCHANGED <<state, subscribed, lines, authenticated, outbound, replies, pool,
                       up, confirmed, storeVars>>
    BY <1>2 DEF Write, IInv, GateTypeOK, pinGate, outside, ctl
  <2>3. written \in Nat /\ n \in Nat /\ MaxRequests \in Nat /\ MaxBatch \in Nat
    BY BridgeAssumption DEF WireTypeOK
  <2>4. ASSUME NEW i \in 1..n PROVE chunk[i] \in Requests
    BY <2>1, <2>3 DEF Requests, Wrote, Chunk
  <2>5. chunk \in Seq(Requests) /\ Range(chunk) \subseteq Requests
    BY <2>3, <2>4 DEF Range, Chunk
  <2> HIDE DEF chunk
  <2>6. /\ inbound' = [inbound EXCEPT ![slot] = Append(@, chunk)]
        /\ waiting' = [waiting EXCEPT ![slot] = @ \cup Range(chunk)]
        /\ written' \in 0..MaxRequests
    BY <2>1, <2>3 DEF Wrote, chunk
  <2>7. inbound' \in [Sessions -> Seq(Seq(Requests))]
    BY <2>2, <2>5, <2>6 DEF WireTypeOK
  <2>8. waiting' \in [Sessions -> SUBSET Requests]
    BY <2>5, <2>6 DEF WireTypeOK
  <2>9. WireTypeOK'
    BY <2>2, <2>6, <2>7, <2>8 DEF WireTypeOK, pool
  <2> QED BY <2>2, <2>9 DEF LineAtHand, RenameAtHand, pool, storeVars
<1>3. ASSUME NEW s \in Sessions, Hear(s) PROVE WireInv'
  <2>1. /\ UNCHANGED <<state, subscribed, inbound, lines, authenticated, replies, pool,
                       written, up, confirmed, storeVars>>
        /\ outbound' = [outbound EXCEPT ![s] = Tail(@)] /\ outbound[s] # <<>>
        /\ waiting' = [waiting EXCEPT ![s] = {r \in @ : r.id # Head(outbound[s]).id}]
    BY <1>3 DEF Hear, radio, pinGate, outside, ctl
  <2>2. outbound' \in [Sessions -> Seq(Replies)]
    BY <2>1 DEF WireTypeOK
  <2>3. waiting' \in [Sessions -> SUBSET Requests]
    BY <2>1 DEF WireTypeOK
  <2>4. WireTypeOK'
    BY <2>1, <2>2, <2>3 DEF WireTypeOK, pool
  <2> QED BY <2>1, <2>4 DEF LineAtHand, RenameAtHand, pool, storeVars
<1>4. ASSUME NEW s \in Sessions, Unsubscribe(s) PROVE WireInv'
  BY <1>4 DEF Unsubscribe, WireTypeOK, LineAtHand, RenameAtHand, pool, storeVars,
              pinGate, outside, ctl
<1>5. ASSUME NEW s \in Sessions, TaskOver(s) PROVE WireInv'
  <2>1. WireTypeOK'
    BY <1>5, BridgeAssumption DEF TaskOver, Leaves, WireTypeOK, outside, ctl
  <2>2. LineAtHand'
    BY <1>5 DEF TaskOver, Leaves, LineAtHand, IInv, GateTypeOK, WireTypeOK
  <2>3. RenameAtHand'
    BY <1>5 DEF TaskOver, Leaves, RenameAtHand, WireTypeOK, outside, storeVars, ConfigKey,
                Keys
  <2> QED BY <2>1, <2>2, <2>3
<1> QED BY <1>1, <1>2, <1>3, <1>4, <1>5

\* Only one line of the session changes, and with it the state of the session.
LEMMA LineKeepsWire ==
  ASSUME IInv, WireInv, NEW s \in Sessions, NEW to \in {"serving", "pin", "closed"},
         state' = [state EXCEPT ![s] = to],
         inbound' \in [Sessions -> Seq(Seq(Requests))],
         lines' \in [Sessions -> Seq(Requests)],
         \A t \in Sessions : t # s => lines'[t] = lines[t],
         to = "pin" => lines'[s] # <<>>,
         outbound' \in [Sessions -> Seq(Replies)],
         authenticated' \in [Sessions -> BOOLEAN],
         UNCHANGED <<subscribed, replies, pool, waiting, written, up, confirmed, storeVars>>
  PROVE  WireInv'
<1>1. WireTypeOK'
  BY DEF WireInv, WireTypeOK, pool
<1>2. LineAtHand'
  BY DEF WireInv, LineAtHand, IInv, GateTypeOK
<1>3. RenameAtHand'
  BY DEF WireInv, RenameAtHand, pool, storeVars
<1> QED BY <1>1, <1>2, <1>3 DEF WireInv

\* What a session says is a reply to the line at hand.
LEMMA SaidTypes ==
  ASSUME WireInv, NEW s \in Sessions, lines[s] # <<>>,
         NEW what \in {"denied", "refused", "wrong", "right", "unavailable"},
         Say(s, Request(s).id, what)
  PROVE  outbound' \in [Sessions -> Seq(Replies)]
<1>1. Request(s) \in Requests
  BY QueueTypes DEF WireInv, WireTypeOK, Request
<1>2. [id |-> Request(s).id, says |-> what] \in Replies
  BY <1>1, ReplyTypes
<1> QED
  BY <1>2, QueueTypes DEF Say, WireInv, WireTypeOK

\* The line at hand is dealt with.
LEMMA DoneTypes ==
  ASSUME WireInv, NEW s \in Sessions, lines[s] # <<>>, LineDone(s)
  PROVE  /\ lines' \in [Sessions -> Seq(Requests)]
         /\ \A t \in Sessions : t # s => lines'[t] = lines[t]
         /\ lines'[s] = Tail(lines[s])
BY QueueTypes DEF LineDone, WireInv, WireTypeOK

\* A session deals with a line itself, or talks with configd about it.
LEMMA OwnLineKeepsWire ==
  ASSUME IInv, WireInv, NEW s \in Sessions,
         \/ TakeChunk(s) \/ Deny(s) \/ AskPin(s) \/ PinAnswered(s) \/ PinUnknown(s)
         \/ Admit(s)
  PROVE  WireInv'
<1>0. /\ state \in [Sessions -> States] /\ WireTypeOK
      /\ asked[s] # NoPin => state[s] = "pin" /\ lines[s] # <<>>
      /\ NoPin \notin Pins /\ NoPin # Waiting /\ NoPin # Failed
  BY BridgeAssumption DEF IInv, GateTypeOK, GateInv, WireInv, LineAtHand
<1>1. CASE TakeChunk(s)
  <2>1. /\ state[s] = "serving" /\ inbound[s] # <<>>
        /\ lines' = [lines EXCEPT ![s] = Head(inbound[s])]
        /\ inbound' = [inbound EXCEPT ![s] = Tail(@)]
        /\ UNCHANGED <<state, subscribed, authenticated, outbound, replies, pool, waiting,
                       written, up, confirmed, storeVars>>
    BY <1>1 DEF TakeChunk, AfterBatch, pinGate, outside, ctl
  <2>2. Head(inbound[s]) \in Seq(Requests) /\ Tail(inbound[s]) \in Seq(Seq(Requests))
    BY <1>0, <2>1 DEF WireTypeOK
  <2>3. /\ lines' \in [Sessions -> Seq(Requests)]
        /\ inbound' \in [Sessions -> Seq(Seq(Requests))]
        /\ \A t \in Sessions : t # s => lines'[t] = lines[t]
        /\ state' = [state EXCEPT ![s] = "serving"]
    BY <1>0, <2>1, <2>2 DEF WireTypeOK
  <2> QED BY <1>0, <2>1, <2>3, LineKeepsWire DEF WireTypeOK
<1>2. CASE Deny(s)
  <2>1. /\ state[s] = "serving" /\ lines[s] # <<>> /\ LineDone(s)
        /\ \E what \in {"denied", "refused"} : Say(s, Request(s).id, what)
        /\ UNCHANGED <<state, subscribed, inbound, authenticated, replies, pool, waiting,
                       written, up, confirmed, storeVars>>
    BY <1>2 DEF Deny, AtLine, radio, pinGate, outside, ctl
  <2>2. /\ outbound' \in [Sessions -> Seq(Replies)]
        /\ state' = [state EXCEPT ![s] = "serving"]
    BY <1>0, <2>1, SaidTypes
  <2> QED BY <1>0, <2>1, <2>2, DoneTypes, LineKeepsWire DEF WireTypeOK
<1>3. CASE AskPin(s)
  <2>1. /\ lines[s] # <<>> /\ state' = [state EXCEPT ![s] = "pin"]
        /\ UNCHANGED <<subscribed, inbound, lines, authenticated, outbound, replies, pool,
                       waiting, written, up, confirmed, storeVars>>
    BY <1>3 DEF AskPin, AtLine, radio, outside, ctl
  <2> QED BY <1>0, <2>1, LineKeepsWire DEF WireTypeOK
<1>4. CASE PinAnswered(s)
  <2>1. UNCHANGED wire /\ UNCHANGED storeVars
    BY <1>4 DEF PinAnswered, wire, radio, outside, ctl
  <2> QED BY <2>1 DEF WireInv, WireTypeOK, LineAtHand, RenameAtHand, wire, storeVars, pool
<1>5. CASE PinUnknown(s) \/ Admit(s)
  <2>1. /\ lines[s] # <<>> /\ LineDone(s)
        /\ state' = [state EXCEPT ![s] = "serving"]
        /\ \E what \in {"right", "unavailable"} : Say(s, Request(s).id, what)
        /\ UNCHANGED <<subscribed, inbound, replies, pool, waiting, written, up, confirmed,
                       storeVars>>
    BY <1>0, <1>5 DEF PinUnknown, Admit, radio, outside, ctl
  <2>2. /\ outbound' \in [Sessions -> Seq(Replies)]
        /\ authenticated' \in [Sessions -> BOOLEAN]
    BY <1>0, <1>5, <2>1, SaidTypes DEF PinUnknown, Admit, WireTypeOK
  <2> QED BY <1>0, <2>1, <2>2, DoneTypes, LineKeepsWire DEF WireTypeOK
<1> QED BY <1>1, <1>2, <1>3, <1>4, <1>5

\* The last wrong PIN takes the session's queues along.
LEMMA WrongPinKeepsWire ==
  ASSUME IInv, WireInv, NEW s \in Sessions, WrongPin(s)
  PROVE  WireInv'
<1>0. /\ state \in [Sessions -> States] /\ WireTypeOK
      /\ state[s] = "pin" /\ lines[s] # <<>>
  BY BridgeAssumption DEF IInv, GateTypeOK, GateInv, WireInv, LineAtHand, WrongPin
<1>1. /\ Say(s, Request(s).id, "wrong")
      /\ UNCHANGED <<subscribed, authenticated, queue, orphan, waiting, written, up,
                     confirmed, storeVars>>
  BY DEF WrongPin, outside, ctl
<1>2. outbound' \in [Sessions -> Seq(Replies)]
  BY <1>0, <1>1, SaidTypes
<1>3. CASE attemptsLeft'[s] = 0
  <2>1. state' = [state EXCEPT ![s] = "closed"] /\ Leaves(s)
    BY <1>3 DEF WrongPin
  <2>2. WireTypeOK'
    BY <1>0, <1>1, <1>2, <2>1, BridgeAssumption DEF Leaves, WireTypeOK
  <2>3. LineAtHand'
    BY <1>0, <2>1 DEF Leaves, WireInv, LineAtHand, WireTypeOK
  <2>4. RenameAtHand'
    BY <1>0, <1>1, <2>1
      DEF Leaves, WireInv, RenameAtHand, WireTypeOK, storeVars, ConfigKey, Keys
  <2> QED BY <2>2, <2>3, <2>4 DEF WireInv
<1>4. CASE attemptsLeft'[s] # 0
  <2>1. /\ state' = [state EXCEPT ![s] = "serving"]
        /\ LineDone(s)
        /\ UNCHANGED <<inbound, replies, conn>>
    BY <1>4 DEF WrongPin
  <2> QED BY <1>0, <1>1, <1>2, <2>1, DoneTypes, LineKeepsWire DEF WireTypeOK, pool
<1> QED BY <1>3, <1>4

\* A reply from a service is passed on.
LEMMA PassOnKeepsWire ==
  ASSUME IInv, WireInv, NEW s \in Sessions, PassOn(s)
  PROVE  WireInv'
<1>1. /\ replies[s] # <<>>
      /\ Say(s, Head(replies[s]).id, Head(replies[s]).says)
      /\ replies' = [replies EXCEPT ![s] = Tail(@)]
      /\ UNCHANGED <<state, subscribed, inbound, lines, authenticated, pool, waiting,
                     written, up, confirmed, storeVars>>
  BY DEF PassOn, radio, pinGate, outside, ctl
<1>2. /\ Head(replies[s]) \in Replies /\ Tail(replies[s]) \in Seq(Replies)
      /\ Len(Tail(replies[s])) <= Room
  BY <1>1, QueueTypes, BridgeAssumption DEF WireInv, WireTypeOK
<1>3. [id |-> Head(replies[s]).id, says |-> Head(replies[s]).says] \in Replies
  BY <1>2 DEF Replies
<1>4. outbound' \in [Sessions -> Seq(Replies)]
  BY <1>1, <1>3, QueueTypes DEF Say, WireInv, WireTypeOK
<1>5. /\ replies' \in [Sessions -> Seq(Replies)]
      /\ \A t \in Sessions : Len(replies'[t]) <= Room
  BY <1>1, <1>2 DEF WireInv, WireTypeOK
<1>6. WireTypeOK'
  BY <1>1, <1>4, <1>5 DEF WireInv, WireTypeOK, pool
<1> QED
  BY <1>1, <1>6 DEF WireInv, LineAtHand, RenameAtHand, pool, storeVars

\* A line goes to the service it is for, or btd answers that it cannot.
LEMMA SendKeepsWire ==
  ASSUME IInv, WireInv, NEW s \in Sessions, Sent(s) \/ NotSent(s)
  PROVE  WireInv'
<1> DEFINE r == Request(s)
           k == KeyOf(r.call)
<1>0. WireTypeOK /\ LineAtHand /\ RenameAtHand /\ state \in [Sessions -> States]
  BY DEF WireInv, IInv, GateTypeOK
<1>1. /\ state[s] = "serving" /\ lines[s] # <<>> /\ LineDone(s)
      /\ UNCHANGED <<state, subscribed, inbound, authenticated, replies, waiting,
                     written, up, confirmed, storeVars>>
  BY DEF Sent, NotSent, ToSend, AtLine, radio, pinGate, outside, ctl
<1>2. r \in Requests
  BY <1>0, <1>1, QueueTypes DEF WireTypeOK, Request
<1>3. /\ k \in Keys /\ k[1] \in Services /\ ConfigKey \in Keys
      /\ k = ConfigKey => r.call.method = "setName" /\ k[1] = "configd"
  BY <1>2, ReplyTypes, KeyTypes
<1>4. /\ lines' \in [Sessions -> Seq(Requests)]
      /\ \A t \in Sessions : t # s => lines'[t] = lines[t]
  BY <1>1, DoneTypes
<1>5. LineAtHand'
  BY <1>0, <1>1, <1>4 DEF LineAtHand
<1>6. CASE Sent(s)
  <2>1. /\ \/ conn[s][k] = "none" /\ up[k[1]]
           \/ conn[s][k] = "live" /\ ~Full(s, k)
        /\ conn' = [conn EXCEPT ![s][k] = "live"]
        /\ queue' = [queue EXCEPT ![s][k] = Append(queue[s][k], r)]
        /\ UNCHANGED <<outbound, orphan>>
    BY <1>6 DEF Sent
  <2> HIDE DEF k, r
  <2>2. Append(queue[s][k], r) \in Seq(Requests) /\ Append(queue[s][k], r) # <<>>
    <3>1. queue[s][k] \in Seq(Requests)
      BY <1>0, <1>3 DEF WireTypeOK
    <3> QED BY <1>2, <3>1, QueueTypes
  <2>3. /\ conn' \in [Sessions -> [Keys -> {"none", "live", "broken"}]]
        /\ conn'[s][k] = "live"
        /\ \A t \in Sessions, l \in Keys : t # s \/ l # k => conn'[t][l] = conn[t][l]
    BY <1>0, <1>3, <2>1, PoolEntry DEF WireTypeOK
  <2>4. /\ queue' \in [Sessions -> [Keys -> Seq(Requests)]]
        /\ queue'[s][k] = Append(queue[s][k], r)
        /\ \A t \in Sessions, l \in Keys : t # s \/ l # k => queue'[t][l] = queue[t][l]
    BY <1>0, <1>3, <2>1, <2>2, PoolEntry DEF WireTypeOK
  <2>5. WireTypeOK'
    BY <1>0, <1>1, <1>4, <2>1, <2>3, <2>4 DEF WireTypeOK
  <2>6. RenameAtHand'
    <3>1. CASE k # ConfigKey
      <4>1. \A t \in Sessions : /\ queue'[t][ConfigKey] = queue[t][ConfigKey]
                                /\ conn'[t][ConfigKey] = conn[t][ConfigKey]
        BY <1>3, <2>3, <2>4, <3>1
      <4> QED BY <1>0, <1>1, <4>1 DEF RenameAtHand, storeVars
    <3>2. CASE k = ConfigKey
      <4>1. up["configd"]
        BY <1>0, <1>3, <2>1, <3>2 DEF RenameAtHand
      <4>2. \A i \in DOMAIN queue'[s][ConfigKey] :
              queue'[s][ConfigKey][i].call.method = "setName"
        <5>1. queue[s][ConfigKey] \in Seq(Requests)
          BY <1>0, <1>3 DEF WireTypeOK
        <5>2. ASSUME NEW i \in DOMAIN queue'[s][ConfigKey]
              PROVE  \/ queue'[s][ConfigKey][i] = r
                     \/ /\ i \in DOMAIN queue[s][ConfigKey]
                        /\ queue'[s][ConfigKey][i] = queue[s][ConfigKey][i]
          <6>1. queue'[s][ConfigKey] = Append(queue[s][ConfigKey], r)
            BY <2>4, <3>2
          <6> QED BY <1>2, <5>1, <6>1, AppendAt
        <5> QED BY <1>0, <1>3, <3>2, <5>2 DEF RenameAtHand
      <4>3. \A t \in Sessions : t # s =>
              /\ queue'[t][ConfigKey] = queue[t][ConfigKey]
              /\ conn'[t][ConfigKey] = conn[t][ConfigKey]
        BY <1>3, <2>3, <2>4
      <4>4. /\ conn'[s][ConfigKey] = "live" /\ queue'[s][ConfigKey] # <<>>
        BY <2>2, <2>3, <2>4, <3>2
      <4> QED BY <1>0, <1>1, <4>1, <4>2, <4>3, <4>4 DEF RenameAtHand, storeVars
    <3> QED BY <3>1, <3>2
  <2> QED BY <1>5, <2>5, <2>6 DEF WireInv
<1>7. CASE NotSent(s)
  <2>1. /\ \/ conn[s][k] = "none" /\ ~up[k[1]]
           \/ conn[s][k] = "broken"
           \/ conn[s][k] = "live" /\ Full(s, k)
        /\ Say(s, Request(s).id, "unavailable")
        /\ conn' = [conn EXCEPT ![s][k] = "none"]
        /\ orphan' = [orphan EXCEPT ![s][k] = orphan[s][k] \o queue[s][k]]
        /\ queue' = [queue EXCEPT ![s][k] = <<>>]
    BY <1>7 DEF NotSent
  <2>2. outbound' \in [Sessions -> Seq(Replies)]
    BY <1>1, <2>1, SaidTypes
  <2> HIDE DEF k, r
  <2>3. orphan[s][k] \o queue[s][k] \in Seq(Requests) /\ <<>> \in Seq(Requests)
    BY <1>0, <1>3 DEF WireTypeOK
  <2>4. /\ conn' \in [Sessions -> [Keys -> {"none", "live", "broken"}]]
        /\ conn'[s][k] = "none"
        /\ \A t \in Sessions, l \in Keys : t # s \/ l # k => conn'[t][l] = conn[t][l]
    BY <1>0, <1>3, <2>1, PoolEntry DEF WireTypeOK
  <2>5. /\ queue' \in [Sessions -> [Keys -> Seq(Requests)]]
        /\ queue'[s][k] = <<>>
        /\ \A t \in Sessions, l \in Keys : t # s \/ l # k => queue'[t][l] = queue[t][l]
    BY <1>0, <1>3, <2>1, <2>3, PoolEntry DEF WireTypeOK
  <2>6. orphan' \in [Sessions -> [Keys -> Seq(Requests)]]
    BY <1>0, <1>3, <2>1, <2>3, PoolEntry DEF WireTypeOK
  <2>7. WireTypeOK'
    BY <1>0, <1>1, <1>4, <2>2, <2>4, <2>5, <2>6 DEF WireTypeOK
  <2>8. k = ConfigKey => queue[s][ConfigKey] = <<>>
    BY <1>0, <1>3, <2>1 DEF RenameAtHand, Full
  <2>9. RenameAtHand'
    <3>1. \A t \in Sessions :
            /\ queue'[t][ConfigKey] = queue[t][ConfigKey]
            /\ conn'[t][ConfigKey] \in {"none", conn[t][ConfigKey]}
      BY <1>3, <2>4, <2>5, <2>8
    <3> QED BY <1>0, <1>1, <3>1 DEF RenameAtHand, storeVars
  <2> QED BY <1>5, <2>7, <2>9 DEF WireInv
<1> QED BY <1>6, <1>7

\* A reader puts in the session's queue what fits.
LEMMA DeliveredTypes ==
  ASSUME WireInv, NEW s \in Sessions, NEW id, NEW what,
         [id |-> id, says |-> what] \in Replies, Deliver(s, id, what)
  PROVE  /\ replies' \in [Sessions -> Seq(Replies)]
         /\ \A t \in Sessions : Len(replies'[t]) <= Room
<1> DEFINE q == Append(replies[s], [id |-> id, says |-> what])
<1>1. /\ replies[s] \in Seq(Replies) /\ Room \in Nat /\ Len(replies[s]) \in Nat
      /\ q \in Seq(Replies) /\ Len(q) = Len(replies[s]) + 1
  BY QueueTypes, BridgeAssumption DEF WireInv, WireTypeOK
<1>2. \/ replies' = replies
      \/ replies' = [replies EXCEPT ![s] = q] /\ Len(replies[s]) < Room
  BY DEF Deliver
<1> HIDE DEF q
<1>3. replies \in [Sessions -> Seq(Replies)] /\ \A t \in Sessions : Len(replies[t]) <= Room
  BY DEF WireInv, WireTypeOK
<1>4. CASE replies' = replies
  BY <1>3, <1>4
<1>5. CASE replies' = [replies EXCEPT ![s] = q] /\ Len(replies[s]) < Room
  BY <1>1, <1>3, <1>5
<1> QED
  BY <1>2, <1>4, <1>5

\* A service answers the oldest request of a connection.
LEMMA ServeKeepsWire ==
  ASSUME IInv, WireInv, NEW s \in Sessions, NEW k \in Keys,
         Serve(s, k) \/ ServeOrphan(s, k)
  PROVE  WireInv'
<1>0. WireTypeOK /\ LineAtHand /\ RenameAtHand
  BY DEF WireInv
<1>1. UNCHANGED <<state, subscribed, inbound, lines, authenticated, outbound, conn,
                  waiting, written, up, confirmed, storeVars>>
  BY DEF Serve, ServeOrphan, radio, pinGate, outside, ctl
<1>2. ConfigKey \in Keys
  BY DEF ConfigKey, Keys
<1>3. CASE Serve(s, k)
  <2>1. /\ queue[s][k] # <<>> /\ Head(queue[s][k]).call.method # "setName"
        /\ Deliver(s, Head(queue[s][k]).id, "served")
        /\ queue' = [queue EXCEPT ![s][k] = Tail(queue[s][k])]
        /\ orphan' = orphan
    BY <1>3 DEF Serve
  <2>2. /\ Head(queue[s][k]) \in Requests /\ Tail(queue[s][k]) \in Seq(Requests)
        /\ queue[s][k] \in Seq(Requests)
    BY <1>0, <2>1, QueueTypes DEF WireTypeOK
  <2>3. [id |-> Head(queue[s][k]).id, says |-> "served"] \in Replies
    BY <2>2, ReplyTypes
  <2>4. /\ replies' \in [Sessions -> Seq(Replies)]
        /\ \A t \in Sessions : Len(replies'[t]) <= Room
    BY <2>1, <2>3, DeliveredTypes
  <2>5. /\ queue' \in [Sessions -> [Keys -> Seq(Requests)]]
        /\ \A t \in Sessions, l \in Keys : t # s \/ l # k => queue'[t][l] = queue[t][l]
    BY <1>0, <2>1, <2>2, PoolEntry DEF WireTypeOK
  <2>6. k # ConfigKey
    <3>1. k = ConfigKey => queue[s][k][1].call.method = "setName"
      BY <1>0, <2>1, <2>2 DEF RenameAtHand
    <3> QED BY <2>1, <2>2, <3>1
  <2>7. \A t \in Sessions : queue'[t][ConfigKey] = queue[t][ConfigKey]
    BY <1>2, <2>5, <2>6
  <2>8. WireTypeOK'
    BY <1>0, <1>1, <2>1, <2>4, <2>5 DEF WireTypeOK
  <2> QED BY <1>0, <1>1, <2>7, <2>8 DEF WireInv, LineAtHand, RenameAtHand, storeVars
<1>4. CASE ServeOrphan(s, k)
  <2>1. /\ orphan[s][k] # <<>>
        /\ Deliver(s, Head(orphan[s][k]).id, "served")
        /\ orphan' = [orphan EXCEPT ![s][k] = Tail(orphan[s][k])]
        /\ queue' = queue
    BY <1>4 DEF ServeOrphan
  <2>2. Head(orphan[s][k]) \in Requests /\ Tail(orphan[s][k]) \in Seq(Requests)
    BY <1>0, <2>1, QueueTypes DEF WireTypeOK
  <2>3. [id |-> Head(orphan[s][k]).id, says |-> "served"] \in Replies
    BY <2>2, ReplyTypes
  <2>4. /\ replies' \in [Sessions -> Seq(Replies)]
        /\ \A t \in Sessions : Len(replies'[t]) <= Room
    BY <2>1, <2>3, DeliveredTypes
  <2>5. orphan' \in [Sessions -> [Keys -> Seq(Requests)]]
    BY <1>0, <2>1, <2>2, PoolEntry DEF WireTypeOK
  <2>6. WireTypeOK'
    BY <1>0, <1>1, <2>1, <2>4, <2>5 DEF WireTypeOK
  <2> QED BY <1>0, <1>1, <2>1, <2>6 DEF WireInv, LineAtHand, RenameAtHand, storeVars
<1> QED BY <1>3, <1>4

\* A subscription writes progress.
LEMMA ProgressKeepsWire ==
  ASSUME IInv, WireInv, NEW s \in Sessions, Progress(s)
  PROVE  WireInv'
<1>1. /\ Deliver(s, 0, "progress")
      /\ UNCHANGED <<state, subscribed, inbound, lines, authenticated, outbound, pool,
                     waiting, written, up, confirmed, storeVars>>
  BY DEF Progress, radio, pinGate, outside, ctl
<1>2. /\ replies' \in [Sessions -> Seq(Replies)]
      /\ \A t \in Sessions : Len(replies'[t]) <= Room
  BY <1>1, ReplyTypes, DeliveredTypes
<1>3. WireTypeOK'
  BY <1>1, <1>2 DEF WireInv, WireTypeOK, pool
<1> QED
  BY <1>1, <1>3 DEF WireInv, LineAtHand, RenameAtHand, pool, storeVars

\* configd's handlers: a rename is answered when its write is done.
LEMMA ConfigKeepsWire ==
  ASSUME IInv, WireInv,
         \/ \E s \in Sessions : Renaming(s) \/ Renamed(s)
         \/ ChangePin \/ PinChanged
         \/ \E w \in Writers : WriteConfig(w)
  PROVE  WireInv'
<1>0. /\ WireTypeOK /\ LineAtHand /\ RenameAtHand /\ StoreTypeOK
      /\ Sessions \subseteq Writers /\ Robotctl \in Writers /\ Robotctl \notin Sessions
      /\ ConfigKey \in Keys
  BY BridgeAssumption DEF WireInv, IInv, Sessions, ConfigKey, Keys
<1>1. ASSUME NEW s \in Sessions, Renaming(s) PROVE WireInv'
  <2>1. /\ queue[s][ConfigKey] # <<>>
        /\ UNCHANGED wire
        /\ \A w \in Writers : w # s => stage'[w] = stage[w]
    BY <1>0, <1>1 DEF Renaming, SetName, Edit, wire, radio, pinGate, outside, ctl, StoreTypeOK
  <2> QED BY <1>0, <2>1 DEF WireInv, WireTypeOK, LineAtHand, RenameAtHand, wire, pool
<1>2. ASSUME NEW s \in Sessions, Renamed(s) PROVE WireInv'
  <2>1. /\ stage[s] = "renamed"
        /\ stage' = [stage EXCEPT ![s] = "idle"]
        /\ Deliver(s, Head(queue[s][ConfigKey]).id, "served")
        /\ queue' = [queue EXCEPT ![s][ConfigKey] = Tail(queue[s][ConfigKey])]
        /\ UNCHANGED <<state, subscribed, inbound, lines, authenticated, outbound, conn,
                       orphan, waiting, written, up, confirmed>>
    BY <1>2 DEF Renamed, WriteDone, radio, pinGate, outside, ctl
  <2>2. queue[s][ConfigKey] # <<>> /\ queue[s][ConfigKey] \in Seq(Requests)
    BY <1>0, <2>1 DEF RenameAtHand, WireTypeOK
  <2>3. /\ Head(queue[s][ConfigKey]) \in Requests
        /\ Tail(queue[s][ConfigKey]) \in Seq(Requests)
    BY <2>2, QueueTypes
  <2>4. [id |-> Head(queue[s][ConfigKey]).id, says |-> "served"] \in Replies
    BY <2>3, ReplyTypes
  <2>5. /\ replies' \in [Sessions -> Seq(Replies)]
        /\ \A t \in Sessions : Len(replies'[t]) <= Room
    BY <2>1, <2>4, DeliveredTypes
  <2>6. /\ queue' \in [Sessions -> [Keys -> Seq(Requests)]]
        /\ queue'[s][ConfigKey] = Tail(queue[s][ConfigKey])
        /\ \A t \in Sessions : t # s => queue'[t] = queue[t]
    BY <1>0, <2>1, <2>3, PoolEntry DEF WireTypeOK
  <2>7. WireTypeOK'
    BY <1>0, <2>1, <2>5, <2>6 DEF WireTypeOK
  <2>8. RenameAtHand'
    <3>1. \A i \in DOMAIN queue'[s][ConfigKey] :
            queue'[s][ConfigKey][i].call.method = "setName"
      <4>1. ASSUME NEW i \in DOMAIN queue'[s][ConfigKey]
            PROVE  \E j \in DOMAIN queue[s][ConfigKey] :
                     queue'[s][ConfigKey][i] = queue[s][ConfigKey][j]
        BY <2>2, <2>6, TailAt
      <4> QED BY <1>0, <4>1 DEF RenameAtHand
    <3>2. /\ stage'[s] = "idle"
          /\ \A t \in Sessions : t # s => stage'[t] = stage[t]
      BY <1>0, <2>1 DEF StoreTypeOK
    <3>3. conn[s][ConfigKey] # "broken" /\ up["configd"]
      BY <1>0, <2>2 DEF RenameAtHand
    <3> QED BY <1>0, <2>1, <2>6, <3>1, <3>2, <3>3 DEF RenameAtHand
  <2> QED BY <1>0, <2>1, <2>7, <2>8 DEF WireInv, LineAtHand
<1>3. CASE ChangePin \/ PinChanged
  <2>1. /\ UNCHANGED <<state, subscribed, inbound, lines, authenticated, outbound, replies,
                       pool, waiting, written, up>>
        /\ \A s \in Sessions : stage'[s] = stage[s]
    BY <1>0, <1>3
      DEF ChangePin, PinChanged, SetPairingPin, Edit, WriteDone, radio, pinGate, outside,
          StoreTypeOK
  <2>2. confirmed' \in Pins \cup {NoPin}
    BY <1>0, <1>3 DEF ChangePin, PinChanged, StoreTypeOK, Configs
  <2> QED BY <1>0, <2>1, <2>2 DEF WireInv, WireTypeOK, LineAtHand, RenameAtHand, pool
<1>4. ASSUME NEW w \in Writers, WriteConfig(w) PROVE WireInv'
  <2>1. /\ UNCHANGED wire
        /\ \A v \in Writers : stage[v] = "idle" => stage'[v] = "idle"
    BY <1>0, <1>4
      DEF WriteConfig, TakeLock, Rename, wire, radio, pinGate, outside, ctl, StoreTypeOK
  <2> QED BY <1>0, <2>1 DEF WireInv, WireTypeOK, LineAtHand, RenameAtHand, wire, pool
<1> QED BY <1>1, <1>2, <1>3, <1>4

\* A service that dies loses what it had, and configd its writes.
LEMMA ProcessKeepsWire ==
  ASSUME IInv, WireInv, NEW u \in Services, Die(u) \/ Rise(u)
  PROVE  WireInv'
<1>0. /\ WireTypeOK /\ LineAtHand /\ RenameAtHand
      /\ ConfigKey \in Keys /\ ConfigKey[1] = "configd"
      /\ Sessions \subseteq Writers
  BY BridgeAssumption DEF WireInv, ConfigKey, Keys, Sessions
<1>1. CASE Die(u)
  <2>1. /\ up' = [up EXCEPT ![u] = FALSE]
        /\ conn' = [s \in Sessions |-> [k \in Keys |->
             IF k[1] = u /\ conn[s][k] = "live" THEN "broken" ELSE conn[s][k]]]
        /\ queue' = [s \in Sessions |-> [k \in Keys |->
             IF k[1] = u THEN <<>> ELSE queue[s][k]]]
        /\ orphan' = [s \in Sessions |-> [k \in Keys |->
             IF k[1] = u THEN <<>> ELSE orphan[s][k]]]
        /\ UNCHANGED <<state, subscribed, inbound, lines, authenticated, outbound, replies,
                       waiting, written, confirmed>>
    BY <1>1 DEF Die, radio, ctl
  <2>2. /\ up' \in [Services -> BOOLEAN]
        /\ conn' \in [Sessions -> [Keys -> {"none", "live", "broken"}]]
    BY <1>0, <2>1 DEF WireTypeOK
  <2>3. \A s \in Sessions, k \in Keys :
          (IF k[1] = u THEN <<>> ELSE queue[s][k]) \in Seq(Requests)
    BY <1>0 DEF WireTypeOK
  <2>4. \A s \in Sessions, k \in Keys :
          (IF k[1] = u THEN <<>> ELSE orphan[s][k]) \in Seq(Requests)
    BY <1>0 DEF WireTypeOK
  <2>5. /\ queue' \in [Sessions -> [Keys -> Seq(Requests)]]
        /\ orphan' \in [Sessions -> [Keys -> Seq(Requests)]]
    BY <2>1, <2>3, <2>4
  <2>6. WireTypeOK'
    BY <1>0, <2>1, <2>2, <2>5 DEF WireTypeOK
  <2>7. RenameAtHand'
    <3>1. CASE u = "configd"
      <4>1. \A s \in Sessions : stage'[s] = "idle"
        BY <1>0, <1>1, <3>1 DEF Die, StoreDies
      <4>2. \A s \in Sessions :
              queue'[s][ConfigKey] = <<>> /\ conn'[s][ConfigKey] # "live"
        BY <1>0, <2>1, <3>1
      <4> QED BY <4>1, <4>2 DEF RenameAtHand
    <3>2. CASE u # "configd"
      <4>1. UNCHANGED storeVars
        BY <1>1, <3>2 DEF Die
      <4>2. \A s \in Sessions :
              /\ queue'[s][ConfigKey] = queue[s][ConfigKey]
              /\ conn'[s][ConfigKey] = conn[s][ConfigKey]
        BY <1>0, <2>1, <3>2
      <4>3. up'["configd"] = up["configd"]
        BY <1>0, <2>1, <3>2 DEF WireTypeOK, Services
      <4> QED BY <1>0, <4>1, <4>2, <4>3 DEF RenameAtHand, storeVars
    <3> QED BY <3>1, <3>2
  <2> QED BY <1>0, <2>1, <2>6, <2>7 DEF WireInv, LineAtHand
<1>2. CASE Rise(u)
  <2>1. /\ up' = [up EXCEPT ![u] = TRUE]
        /\ UNCHANGED <<state, subscribed, inbound, lines, authenticated, outbound, replies,
                       pool, waiting, written, confirmed, storeVars>>
    BY <1>2 DEF Rise, radio, pinGate, ctl
  <2>2. /\ up' \in [Services -> BOOLEAN]
        /\ up["configd"] => up'["configd"]
    BY <1>0, <2>1 DEF WireTypeOK
  <2> QED BY <1>0, <2>1, <2>2
       DEF WireInv, WireTypeOK, LineAtHand, RenameAtHand, pool, storeVars
<1> QED BY <1>1, <1>2

LEMMA NextKeepsWire == IInv /\ WireInv /\ [BridgeNext]_allVars => WireInv'
<1> SUFFICES ASSUME IInv, WireInv, [BridgeNext]_allVars PROVE WireInv' OBVIOUS
<1>1. CASE UNCHANGED allVars
  BY <1>1 DEF allVars, vars, radio, pinGate, pool, outside, ctl, storeVars, WireInv,
              WireTypeOK, LineAtHand, RenameAtHand
<1>2. ASSUME NEW s \in Sessions, Session(s) PROVE WireInv'
  BY <1>2, OwnLineKeepsWire, WrongPinKeepsWire, PassOnKeepsWire, SendKeepsWire
    DEF Session, Dispatch, Authenticate
<1>3. CASE BridgeNext
  BY <1>2, <1>3, RadioKeepsWire, ServeKeepsWire, ProgressKeepsWire, ConfigKeepsWire,
     ProcessKeepsWire
    DEF BridgeNext, Next
<1> QED BY <1>1, <1>3

LEMMA InitWire == BridgeInit => WireInv
<1> SUFFICES ASSUME BridgeInit PROVE WireInv OBVIOUS
<1>1. Init /\ StoreInit /\ Sessions \subseteq Writers /\ ConfigKey \in Keys
  BY BridgeAssumption DEF BridgeInit, Init, Sessions, ConfigKey, Keys
<1>2. MaxRequests \in Nat /\ Room \in Nat
  BY BridgeAssumption
<1>3. WireTypeOK
  BY <1>1, <1>2 DEF Init, WireTypeOK
<1>4. LineAtHand /\ RenameAtHand
  BY <1>1 DEF Init, StoreInit, LineAtHand, RenameAtHand
<1> QED BY <1>3, <1>4 DEF WireInv

LEMMA WireInvHolds == BridgeSpec => []WireInv
BY InitWire, NextKeepsWire, GateInvariant, PTL DEF BridgeSpec

\* Every variable of btd, of the services' side and of configd's store keeps its
\* type: queues stay within their room, and a session waits for a PIN exactly
\* when it asked for one (session.rs, upstream.rs Pool, store.rs).
THEOREM BridgeTypeCorrect == BridgeSpec => []TypeOK
<1>1. IInv /\ WireInv => TypeOK
  BY DEF IInv, GateTypeOK, GateInv, States, WireInv, WireTypeOK, TypeOK
<1> QED BY <1>1, GateInvariant, WireInvHolds, PTL

-----------------------------------------------------------------------------
(* Answers go to who asked, once.                                          *)

Distinct(q) == \A i, j \in DOMAIN q : q[i].id = q[j].id /\ q[i].id # 0 => i = j

\* The places a request of session s, or its answer, can be in.
PlaceKinds == {"inbound", "lines", "outbound", "replies", "queue", "orphan"}
OpenKinds == {"inbound", "lines", "queue", "orphan"}
SaidKinds == {"outbound", "replies"}

IdsAt(s, w, k) ==
    CASE w = "inbound"  -> UNION {Ids(inbound[s][i]) : i \in DOMAIN inbound[s]}
      [] w = "lines"    -> Ids(lines[s])
      [] w = "outbound" -> Ids(outbound[s])
      [] w = "replies"  -> Ids(replies[s])
      [] w = "queue"    -> Ids(queue[s][k])
      [] w = "orphan"   -> Ids(orphan[s][k])

SamePlace(v, k, w, l) == v = w /\ (v \in {"queue", "orphan"} => k = l)

\* No request is in two places, or twice in one.
Apart(s) ==
    \A v, w \in PlaceKinds, k, l \in Keys :
        ~SamePlace(v, k, w, l) => IdsAt(s, v, k) \cap IdsAt(s, w, l) = {}

ChunksDistinct(s) ==
    \A i, j \in DOMAIN inbound[s] :
      /\ Distinct(inbound[s][i])
      /\ i # j => Ids(inbound[s][i]) \cap Ids(inbound[s][j]) = {}

EachDistinct(s) ==
    /\ ChunksDistinct(s)
    /\ Distinct(lines[s]) /\ Distinct(outbound[s]) /\ Distinct(replies[s])
    /\ \A k \in Keys : Distinct(queue[s][k]) /\ Distinct(orphan[s][k])

\* What is anywhere on its way is still waited for.
Awaited(s) ==
    \A w \in PlaceKinds, k \in Keys : \A n \in IdsAt(s, w, k) :
      \E r \in waiting[s] : r.id = n

\* Numbers are given out in order, and an answer carries one.
Counted(s) == \A r \in waiting[s] : r.id <= written

Named(q) == \A i \in DOMAIN q : q[i].says # "progress" => q[i].id # 0

OnceAt(s) ==
    /\ Apart(s) /\ EachDistinct(s) /\ Awaited(s) /\ Counted(s)
    /\ Named(outbound[s]) /\ Named(replies[s])

OnceInv == \A s \in Sessions : OnceAt(s)

\* What a session has on its way.
around(s) ==
    <<inbound[s], lines[s], outbound[s], replies[s], queue[s], orphan[s], waiting[s]>>

\* A session that is left alone by a step has what it had.
LEMMA LeftAlone ==
  ASSUME NEW s \in Sessions, OnceAt(s), WireInv, WireInv', UNCHANGED around(s),
         written <= written'
  PROVE  OnceAt(s)'
<1>1. /\ inbound'[s] = inbound[s] /\ lines'[s] = lines[s] /\ outbound'[s] = outbound[s]
      /\ replies'[s] = replies[s] /\ queue'[s] = queue[s] /\ orphan'[s] = orphan[s]
      /\ waiting'[s] = waiting[s]
  BY DEF around
<1>2. \A w \in PlaceKinds, k \in Keys : IdsAt(s, w, k)' = IdsAt(s, w, k)
  BY <1>1 DEF IdsAt, PlaceKinds
<1>3. Apart(s)' /\ Awaited(s)'
  BY <1>1, <1>2 DEF OnceAt, Apart, Awaited
<1>4. EachDistinct(s)'
  BY <1>1 DEF OnceAt, EachDistinct, ChunksDistinct
<1>5. Counted(s)'
  <2>1. written \in Nat /\ written' \in Nat
    BY DEF WireInv, WireTypeOK
  <2>2. \A r \in waiting[s] : r.id \in Nat
    BY DEF WireInv, WireTypeOK, Requests
  <2> QED BY <1>1, <2>1, <2>2 DEF OnceAt, Counted
<1> QED BY <1>1, <1>3, <1>4, <1>5 DEF OnceAt

\* Requests of session s disappear.
LEMMA FewerApart ==
  ASSUME NEW s \in Sessions, Apart(s), Awaited(s), waiting'[s] = waiting[s],
         \A w \in PlaceKinds, k \in Keys : IdsAt(s, w, k)' \subseteq IdsAt(s, w, k)
  PROVE  Apart(s)' /\ Awaited(s)'
BY DEF Apart, Awaited

\* Requests X of session s go from place v, k to place w, l, if anywhere.
Moves(s, X, v, k, w, l) ==
    \A u \in PlaceKinds, m \in Keys :
      IdsAt(s, u, m)' \subseteq
        IF SamePlace(u, m, w, l) THEN IdsAt(s, u, m) \cup X
        ELSE IF SamePlace(u, m, v, k) THEN IdsAt(s, u, m) \ X
        ELSE IdsAt(s, u, m)

\* Requests that move from one place to another are still in one place.
LEMMA MovedApart ==
  ASSUME NEW s \in Sessions, Apart(s), Awaited(s), waiting'[s] = waiting[s],
         NEW X, NEW v \in PlaceKinds, NEW k \in Keys,
         NEW w \in PlaceKinds, NEW l \in Keys, ~SamePlace(v, k, w, l),
         X \subseteq IdsAt(s, v, k), Moves(s, X, v, k, w, l)
  PROVE  Apart(s)' /\ Awaited(s)'
<1> USE DEF Moves
<1>1. Awaited(s)'
  BY DEF Awaited, SamePlace
<1>2. Apart(s)'
  <2> SUFFICES ASSUME NEW a \in PlaceKinds, NEW b \in PlaceKinds, NEW m \in Keys,
                      NEW n \in Keys, ~SamePlace(a, m, b, n), NEW x,
                      x \in IdsAt(s, a, m)', x \in IdsAt(s, b, n)'
               PROVE  FALSE
    BY DEF Apart
  <2>1. x \in X \/ x \in IdsAt(s, a, m)
    OBVIOUS
  <2>2. CASE x \in X
    <3>1. x \in IdsAt(s, v, k)
      BY <2>2
    <3>2. \A u \in PlaceKinds, o \in Keys :
            x \in IdsAt(s, u, o) => SamePlace(u, o, v, k)
      BY <3>1 DEF Apart
    <3>3. \A u \in PlaceKinds, o \in Keys :
            x \in IdsAt(s, u, o)' => SamePlace(u, o, w, l)
      BY <2>2, <3>2
    <3> QED BY <3>3 DEF SamePlace
  <2>3. CASE x \notin X
    <3>1. x \in IdsAt(s, a, m) /\ x \in IdsAt(s, b, n)
      BY <2>3
    <3> QED BY <3>1 DEF Apart
  <2> QED BY <2>2, <2>3
<1> QED BY <1>1, <1>2

\* The oldest of a queue leaves it.
LEMMA TailIds ==
  ASSUME NEW S, NEW q \in Seq(S), q # <<>>, Distinct(q)
  PROVE  /\ Distinct(Tail(q))
         /\ Ids(Tail(q)) \subseteq Ids(q) \ {Head(q).id}
         /\ Ids(q) \subseteq Ids(Tail(q)) \cup {Head(q).id}
         /\ Head(q).id # 0 => Head(q).id \in Ids(q)
<1>1. \A i \in DOMAIN Tail(q) :
        /\ i \in Nat /\ i >= 1 /\ i + 1 \in DOMAIN q /\ Tail(q)[i] = q[i + 1]
  BY TailAt
<1>2. 1 \in DOMAIN q /\ Head(q) = q[1]
  OBVIOUS
<1>3. Distinct(Tail(q))
  <2> SUFFICES ASSUME NEW i \in DOMAIN Tail(q), NEW j \in DOMAIN Tail(q),
                      Tail(q)[i].id = Tail(q)[j].id, Tail(q)[i].id # 0
               PROVE  i = j
    BY DEF Distinct
  <2>1. i + 1 = j + 1
    BY <1>1 DEF Distinct
  <2> QED BY <1>1, <2>1
<1>4. ASSUME NEW i \in DOMAIN Tail(q), Tail(q)[i].id # 0
      PROVE  Tail(q)[i].id \in Ids(q) \ {Head(q).id}
  <2>1. i + 1 # 1
    BY <1>1
  <2>2. q[i + 1].id # q[1].id
    BY <1>1, <1>2, <1>4, <2>1 DEF Distinct
  <2> QED BY <1>1, <1>2, <1>4, <2>2 DEF Ids
<1>5. Ids(Tail(q)) \subseteq Ids(q) \ {Head(q).id}
  BY <1>4 DEF Ids
<1>6. Ids(q) \subseteq Ids(Tail(q)) \cup {Head(q).id}
  <2>1. \A j \in DOMAIN q : j # 1 =>
          j - 1 \in DOMAIN Tail(q) /\ Tail(q)[j - 1] = q[j]
    OBVIOUS
  <2> SUFFICES ASSUME NEW j \in DOMAIN q, q[j].id # 0, j # 1
               PROVE  q[j].id \in Ids(Tail(q))
    BY <1>2 DEF Ids
  <2> QED BY <2>1 DEF Ids
<1> QED BY <1>2, <1>3, <1>5, <1>6 DEF Ids

\* A new one comes last.
LEMMA AppendIds ==
  ASSUME NEW S, NEW q \in Seq(S), NEW x \in S, Distinct(q), x.id \notin Ids(q)
  PROVE  /\ Distinct(Append(q, x))
         /\ Ids(Append(q, x)) \subseteq Ids(q) \cup ({x.id} \ {0})
<1> DEFINE p == Append(q, x)
<1>1. \A i \in DOMAIN p : \/ p[i] = x /\ i = Len(q) + 1
                          \/ i \in DOMAIN q /\ p[i] = q[i] /\ i # Len(q) + 1
  BY AppendAt
<1> HIDE DEF p
<1>2. Distinct(p)
  BY <1>1 DEF Distinct, Ids
<1>3. Ids(p) \subseteq Ids(q) \cup ({x.id} \ {0})
  BY <1>1 DEF Ids
<1> QED BY <1>2, <1>3 DEF p

\* One queue after another.
LEMMA ConcatIds ==
  ASSUME NEW S, NEW p \in Seq(S), NEW q \in Seq(S), Distinct(p), Distinct(q),
         Ids(p) \cap Ids(q) = {}
  PROVE  /\ Distinct(p \o q)
         /\ Ids(p \o q) \subseteq Ids(p) \cup Ids(q)
<1> DEFINE c == p \o q
<1>1. /\ DOMAIN c = 1..(Len(p) + Len(q)) /\ Len(p) \in Nat /\ Len(q) \in Nat
      /\ \A i \in DOMAIN c : c[i] = IF i <= Len(p) THEN p[i] ELSE q[i - Len(p)]
  OBVIOUS
<1>2. DOMAIN p = 1..Len(p) /\ DOMAIN q = 1..Len(q)
  OBVIOUS
<1> HIDE DEF c
<1>3. ASSUME NEW i \in DOMAIN c
      PROVE  \/ i <= Len(p) /\ i \in DOMAIN p /\ c[i] = p[i]
             \/ i > Len(p) /\ i - Len(p) \in DOMAIN q /\ c[i] = q[i - Len(p)]
  BY <1>1, <1>2
<1>4. Distinct(c)
  <2> SUFFICES ASSUME NEW i \in DOMAIN c, NEW j \in DOMAIN c,
                      c[i].id = c[j].id, c[i].id # 0
               PROVE  i = j
    BY DEF Distinct
  <2>1. i \in Nat /\ j \in Nat
    BY <1>1
  <2>2. CASE i <= Len(p) /\ j <= Len(p)
    BY <1>1, <1>3, <2>1, <2>2 DEF Distinct
  <2>3. CASE i > Len(p) /\ j > Len(p)
    <3>1. i - Len(p) = j - Len(p)
      BY <1>1, <1>3, <2>1, <2>3 DEF Distinct
    <3> QED BY <1>1, <2>1, <3>1
  <2>4. ASSUME NEW a \in DOMAIN c, NEW b \in DOMAIN c, a <= Len(p), b > Len(p),
               c[a].id = c[b].id, c[a].id # 0
        PROVE  FALSE
    <3>1. c[a].id \in Ids(p) /\ c[b].id \in Ids(q)
      BY <1>1, <1>3, <2>4 DEF Ids
    <3> QED BY <2>4, <3>1
  <2> QED BY <1>1, <2>1, <2>2, <2>3, <2>4
<1>5. Ids(c) \subseteq Ids(p) \cup Ids(q)
  BY <1>3 DEF Ids
<1> QED BY <1>4, <1>5 DEF c

-----------------------------------------------------------------------------
(* The ledger of requests.                                                 *)

\* A step of the bridge is one that the ledger knows.
Onward == Kept!LedgerNext \/ UNCHANGED Kept!ledger

\* Where a request is tells whether it is open or answered.
LEMMA Whereabouts ==
  ASSUME NEW s \in Sessions
  PROVE  /\ \A x : x \in OpenIds(s) <=> \E w \in OpenKinds, k \in Keys : x \in IdsAt(s, w, k)
         /\ \A x : x \in SaidIds(s) <=> \E w \in SaidKinds, k \in Keys : x \in IdsAt(s, w, k)
<1>1. ConfigKey \in Keys
  BY DEF ConfigKey, Keys
<1>2. /\ \A k \in Keys : IdsAt(s, "queue", k) = Ids(queue[s][k])
      /\ \A k \in Keys : IdsAt(s, "orphan", k) = Ids(orphan[s][k])
      /\ \A k \in Keys : IdsAt(s, "lines", k) = Ids(lines[s])
      /\ \A k \in Keys : IdsAt(s, "outbound", k) = Ids(outbound[s])
      /\ \A k \in Keys : IdsAt(s, "replies", k) = Ids(replies[s])
  BY DEF IdsAt
<1>3. \A x : (\E w \in OpenKinds, k \in Keys : x \in IdsAt(s, w, k)) <=>
        \E k \in Keys : \/ x \in IdsAt(s, "inbound", k) \/ x \in IdsAt(s, "lines", k)
                       \/ x \in IdsAt(s, "queue", k) \/ x \in IdsAt(s, "orphan", k)
  BY DEF OpenKinds
<1>4. \A x : (\E w \in SaidKinds, k \in Keys : x \in IdsAt(s, w, k)) <=>
        \E k \in Keys : x \in IdsAt(s, "outbound", k) \/ x \in IdsAt(s, "replies", k)
  BY DEF SaidKinds
<1>0. \A k \in Keys : \A x : x \in IdsAt(s, "inbound", k) <=>
        \E i \in DOMAIN inbound[s] : x \in Ids(inbound[s][i])
  BY DEF IdsAt
<1>5. \A x : x \in OpenIds(s) <=>
        \/ \E i \in DOMAIN inbound[s] : x \in Ids(inbound[s][i])
        \/ x \in Ids(lines[s])
        \/ \E k \in Keys : x \in Ids(queue[s][k]) \/ x \in Ids(orphan[s][k])
  <2>1. \A x : x \in ChunkIds(s) <=>
          \E i \in DOMAIN inbound[s] : x \in Ids(inbound[s][i])
    BY DEF ChunkIds
  <2>2. \A x : x \in PoolIds(s) <=>
          \E k \in Keys : x \in Ids(queue[s][k]) \/ x \in Ids(orphan[s][k])
    BY DEF PoolIds
  <2> QED BY <2>1, <2>2 DEF OpenIds
<1>6. \A x : x \in SaidIds(s) <=> x \in Ids(outbound[s]) \/ x \in Ids(replies[s])
  BY DEF SaidIds
<1>7. \A x : x \in OpenIds(s) <=>
        \E k \in Keys : \/ x \in IdsAt(s, "inbound", k) \/ x \in IdsAt(s, "lines", k)
                       \/ x \in IdsAt(s, "queue", k) \/ x \in IdsAt(s, "orphan", k)
  BY <1>0, <1>1, <1>2, <1>5
<1>8. \A x : x \in SaidIds(s) <=>
        \E k \in Keys : x \in IdsAt(s, "outbound", k) \/ x \in IdsAt(s, "replies", k)
  BY <1>1, <1>2, <1>6
<1> QED BY <1>3, <1>4, <1>7, <1>8

\* The same of the state after a step.
LEMMA WhereaboutsAfter ==
  ASSUME NEW s \in Sessions
  PROVE  /\ \A x : x \in OpenIds(s)' <=> \E w \in OpenKinds, k \in Keys : x \in IdsAt(s, w, k)'
         /\ \A x : x \in SaidIds(s)' <=> \E w \in SaidKinds, k \in Keys : x \in IdsAt(s, w, k)'
<1>1. ConfigKey \in Keys
  BY DEF ConfigKey, Keys
<1>2. /\ \A k \in Keys : IdsAt(s, "queue", k)' = Ids(queue'[s][k])
      /\ \A k \in Keys : IdsAt(s, "orphan", k)' = Ids(orphan'[s][k])
      /\ \A k \in Keys : IdsAt(s, "lines", k)' = Ids(lines'[s])
      /\ \A k \in Keys : IdsAt(s, "outbound", k)' = Ids(outbound'[s])
      /\ \A k \in Keys : IdsAt(s, "replies", k)' = Ids(replies'[s])
  BY DEF IdsAt
<1>3. \A x : (\E w \in OpenKinds, k \in Keys : x \in IdsAt(s, w, k)') <=>
        \E k \in Keys : \/ x \in IdsAt(s, "inbound", k)' \/ x \in IdsAt(s, "lines", k)'
                       \/ x \in IdsAt(s, "queue", k)' \/ x \in IdsAt(s, "orphan", k)'
  BY DEF OpenKinds
<1>4. \A x : (\E w \in SaidKinds, k \in Keys : x \in IdsAt(s, w, k)') <=>
        \E k \in Keys : x \in IdsAt(s, "outbound", k)' \/ x \in IdsAt(s, "replies", k)'
  BY DEF SaidKinds
<1>0. \A k \in Keys : \A x : x \in IdsAt(s, "inbound", k)' <=>
        \E i \in DOMAIN inbound'[s] : x \in Ids(inbound'[s][i])
  BY DEF IdsAt
<1>5. \A x : x \in OpenIds(s)' <=>
        \/ \E i \in DOMAIN inbound'[s] : x \in Ids(inbound'[s][i])
        \/ x \in Ids(lines'[s])
        \/ \E k \in Keys : x \in Ids(queue'[s][k]) \/ x \in Ids(orphan'[s][k])
  <2>1. \A x : x \in ChunkIds(s)' <=>
          \E i \in DOMAIN inbound'[s] : x \in Ids(inbound'[s][i])
    BY DEF ChunkIds
  <2>2. \A x : x \in PoolIds(s)' <=>
          \E k \in Keys : x \in Ids(queue'[s][k]) \/ x \in Ids(orphan'[s][k])
    BY DEF PoolIds
  <2> QED BY <2>1, <2>2 DEF OpenIds
<1>6. \A x : x \in SaidIds(s)' <=> x \in Ids(outbound'[s]) \/ x \in Ids(replies'[s])
  BY DEF SaidIds
<1>7. \A x : x \in OpenIds(s)' <=>
        \E k \in Keys : \/ x \in IdsAt(s, "inbound", k)' \/ x \in IdsAt(s, "lines", k)'
                       \/ x \in IdsAt(s, "queue", k)' \/ x \in IdsAt(s, "orphan", k)'
  BY <1>0, <1>1, <1>2, <1>5
<1>8. \A x : x \in SaidIds(s)' <=>
        \E k \in Keys : x \in IdsAt(s, "outbound", k)' \/ x \in IdsAt(s, "replies", k)'
  BY <1>1, <1>2, <1>6
<1> QED BY <1>3, <1>4, <1>7, <1>8

\* Only requests that were written are in the ledger.
LEMMA InBooks ==
  ASSUME WireInv, OnceInv, NEW s \in Sessions
  PROVE  OpenIds(s) \subseteq 1..written /\ SaidIds(s) \subseteq 1..written
<1>1. \A w \in PlaceKinds, k \in Keys : IdsAt(s, w, k) \subseteq 1..written
  <2> SUFFICES ASSUME NEW w \in PlaceKinds, NEW k \in Keys, NEW x \in IdsAt(s, w, k)
               PROVE  x \in 1..written
    OBVIOUS
  <2>1. OnceAt(s) /\ written \in Nat /\ waiting[s] \subseteq Requests
    BY DEF OnceInv, WireInv, WireTypeOK
  <2>2. PICK r \in waiting[s] : r.id = x
    BY <2>1 DEF OnceAt, Awaited
  <2>3. r.id <= written /\ r.id \in 1..MaxRequests /\ MaxRequests \in Nat
    BY <2>1, BridgeAssumption DEF OnceAt, Counted, Requests
  <2> QED BY <2>1, <2>2, <2>3
<1> QED BY <1>1, Whereabouts DEF PlaceKinds, OpenKinds, SaidKinds

LEMMA StaysPut ==
  ASSUME NEW t \in Sessions, UNCHANGED around(t)
  PROVE  OpenIds(t)' = OpenIds(t) /\ SaidIds(t)' = SaidIds(t) /\ WantedIds(t)' = WantedIds(t)
<1>1. /\ inbound'[t] = inbound[t] /\ lines'[t] = lines[t] /\ outbound'[t] = outbound[t]
      /\ replies'[t] = replies[t] /\ queue'[t] = queue[t] /\ orphan'[t] = orphan[t]
      /\ waiting'[t] = waiting[t]
  BY DEF around
<1>2. ChunkIds(t)' = ChunkIds(t) /\ PoolIds(t)' = PoolIds(t)
  BY <1>1 DEF ChunkIds, PoolIds
<1> QED BY <1>1, <1>2 DEF OpenIds, SaidIds, WantedIds

\* Losing requests is a step of the ledger.
LEMMA LoseOnward ==
  ASSUME WireInv, OnceInv, UNCHANGED <<waiting, written>>,
         \A t \in Sessions : /\ OpenIds(t)' \subseteq OpenIds(t)
                             /\ SaidIds(t)' \subseteq SaidIds(t)
  PROVE  Onward
<1>1. \A t \in Sessions : OpenIds(t)' \subseteq 1..written /\ SaidIds(t)' \subseteq 1..written
  BY InBooks
<1>2. \A t \in Sessions : WantedIds(t)' = WantedIds(t)
  BY DEF WantedIds
<1>3. /\ Kept!Fewer([t \in Sessions |-> OpenIds(t)'], [t \in Sessions |-> OpenIds(t)])
      /\ Kept!Fewer([t \in Sessions |-> SaidIds(t)'], [t \in Sessions |-> SaidIds(t)])
  BY <1>1 DEF Kept!Fewer, Kept!Books
<1>4. Kept!Lose
  BY <1>2, <1>3 DEF Kept!Lose
<1> QED BY <1>4 DEF Onward, Kept!LedgerNext

\* Answering one is, whatever is lost with it.
LEMMA AnswerOnward ==
  ASSUME WireInv, OnceInv, UNCHANGED <<waiting, written>>, NEW s \in Sessions,
         NEW n \in OpenIds(s), OpenIds(s)' \subseteq OpenIds(s) \ {n},
         SaidIds(s)' \subseteq SaidIds(s) \cup {n},
         \A t \in Sessions : t # s => UNCHANGED around(t)
  PROVE  Onward
<1>1. \A t \in Sessions : t # s =>
        OpenIds(t)' \subseteq OpenIds(t) /\ SaidIds(t)' \subseteq SaidIds(t)
  BY StaysPut
<1>2. \A t \in Sessions : OpenIds(t)' \subseteq 1..written /\ SaidIds(t)' \subseteq 1..written
  <2>1. n \in 1..written
    BY InBooks
  <2> QED BY <1>1, <2>1, InBooks
<1>3. \A t \in Sessions : WantedIds(t)' = WantedIds(t)
  BY DEF WantedIds
<1> DEFINE open == [t \in Sessions |-> OpenIds(t)]
           said == [t \in Sessions |-> SaidIds(t)]
<1>4. Kept!Fewer([t \in Sessions |-> OpenIds(t)'], [open EXCEPT ![s] = @ \ {n}])
  <2>1. \A t \in Sessions : OpenIds(t)' \subseteq [open EXCEPT ![s] = @ \ {n}][t]
    BY <1>1
  <2> QED BY <1>2, <2>1 DEF Kept!Fewer, Kept!Books
<1>5. Kept!Fewer([t \in Sessions |-> SaidIds(t)'], [said EXCEPT ![s] = @ \cup {n}])
  <2>1. \A t \in Sessions : SaidIds(t)' \subseteq [said EXCEPT ![s] = @ \cup {n}][t]
    BY <1>1
  <2> QED BY <1>2, <2>1 DEF Kept!Fewer, Kept!Books
<1>6. Kept!Answer(s)
  BY <1>3, <1>4, <1>5 DEF Kept!Answer
<1> QED BY <1>6 DEF Onward, Kept!LedgerNext

\* So is moving requests within a session, if only one at a time is answered.
LEMMA MovesOnward ==
  ASSUME WireInv, OnceInv, UNCHANGED <<waiting, written>>, NEW s \in Sessions, NEW X,
         NEW v \in PlaceKinds, NEW k \in Keys, NEW w \in PlaceKinds, NEW l \in Keys,
         X \subseteq IdsAt(s, v, k), Moves(s, X, v, k, w, l), ~SamePlace(v, k, w, l),
         \/ v \in OpenKinds /\ w \in OpenKinds
         \/ v \in SaidKinds /\ w \in SaidKinds
         \/ v \in OpenKinds /\ w \in SaidKinds /\ \E n : X = {n},
         \A t \in Sessions : t # s => UNCHANGED around(t)
  PROVE  Onward
<1>0. /\ \A u \in OpenKinds : u \notin SaidKinds
      /\ \A u \in OpenKinds \cup SaidKinds : u \in PlaceKinds
      /\ Apart(s)
  BY DEF OpenKinds, SaidKinds, PlaceKinds, OnceInv, OnceAt
<1>1. \A t \in Sessions : t # s =>
        OpenIds(t)' \subseteq OpenIds(t) /\ SaidIds(t)' \subseteq SaidIds(t)
  BY StaysPut
<1>2. CASE (v \in OpenKinds /\ w \in OpenKinds) \/ (v \in SaidKinds /\ w \in SaidKinds)
  <2>1. \A u \in PlaceKinds, m \in Keys :
          /\ w = u => IdsAt(s, u, m)' \subseteq IdsAt(s, u, m) \cup IdsAt(s, v, k)
          /\ w # u => IdsAt(s, u, m)' \subseteq IdsAt(s, u, m)
    BY DEF Moves, SamePlace
  <2>2. OpenIds(s)' \subseteq OpenIds(s)
    <3> SUFFICES ASSUME NEW x \in OpenIds(s)' PROVE x \in OpenIds(s)
      OBVIOUS
    <3>1. PICK u \in OpenKinds, m \in Keys : x \in IdsAt(s, u, m)'
      BY WhereaboutsAfter
    <3>2. \E y \in OpenKinds, o \in Keys : x \in IdsAt(s, y, o)
      BY <1>0, <1>2, <2>1, <3>1
    <3> QED BY <3>2, Whereabouts
  <2>3. SaidIds(s)' \subseteq SaidIds(s)
    <3> SUFFICES ASSUME NEW x \in SaidIds(s)' PROVE x \in SaidIds(s)
      OBVIOUS
    <3>1. PICK u \in SaidKinds, m \in Keys : x \in IdsAt(s, u, m)'
      BY WhereaboutsAfter
    <3>2. \E y \in SaidKinds, o \in Keys : x \in IdsAt(s, y, o)
      BY <1>0, <1>2, <2>1, <3>1
    <3> QED BY <3>2, Whereabouts
  <2> QED BY <1>1, <2>2, <2>3, LoseOnward
<1>3. CASE v \in OpenKinds /\ w \in SaidKinds
  <2>1. PICK n : X = {n}
    BY <1>0, <1>3
  <2>2. n \in OpenIds(s)
    BY <1>3, <2>1, Whereabouts
  <2>3. \A u \in OpenKinds, m \in Keys : IdsAt(s, u, m)' \subseteq IdsAt(s, u, m) \ {n}
    <3>1. \A u \in PlaceKinds, m \in Keys : ~SamePlace(v, k, u, m) => n \notin IdsAt(s, u, m)
      BY <1>0, <2>1 DEF Apart
    <3> QED BY <1>0, <1>3, <2>1, <3>1 DEF Moves, SamePlace
  <2>4. OpenIds(s)' \subseteq OpenIds(s) \ {n}
    BY <2>3, Whereabouts, WhereaboutsAfter
  <2>5. \A u \in SaidKinds, m \in Keys : IdsAt(s, u, m)' \subseteq IdsAt(s, u, m) \cup {n}
    BY <1>0, <1>3, <2>1 DEF Moves
  <2>6. SaidIds(s)' \subseteq SaidIds(s) \cup {n}
    BY <2>5, Whereabouts, WhereaboutsAfter
  <2> QED BY <2>2, <2>4, <2>6, AnswerOnward
<1> QED BY <1>2, <1>3

LEMMA FewerOnward ==
  ASSUME WireInv, OnceInv, UNCHANGED <<waiting, written>>,
         \A t \in Sessions, w \in PlaceKinds, k \in Keys :
           IdsAt(t, w, k)' \subseteq IdsAt(t, w, k)
  PROVE  Onward
<1>1. \A t \in Sessions : /\ OpenIds(t)' \subseteq OpenIds(t)
                          /\ SaidIds(t)' \subseteq SaidIds(t)
  BY Whereabouts, WhereaboutsAfter DEF PlaceKinds, OpenKinds, SaidKinds
<1> QED BY <1>1, LoseOnward

\* A request is in one place only.
LEMMA Elsewhere ==
  ASSUME NEW s \in Sessions, Apart(s), NEW k \in Keys
  PROVE  /\ Ids(lines[s]) \cap Ids(outbound[s]) = {}
         /\ Ids(replies[s]) \cap Ids(outbound[s]) = {}
         /\ Ids(lines[s]) \cap Ids(queue[s][k]) = {}
         /\ Ids(queue[s][k]) \cap Ids(orphan[s][k]) = {}
         /\ Ids(queue[s][k]) \cap Ids(replies[s]) = {}
         /\ Ids(orphan[s][k]) \cap Ids(replies[s]) = {}
<1>1. ASSUME NEW v \in PlaceKinds, NEW w \in PlaceKinds, v # w
      PROVE  IdsAt(s, v, k) \cap IdsAt(s, w, k) = {}
  BY <1>1 DEF Apart, SamePlace
<1>2. /\ IdsAt(s, "lines", k) = Ids(lines[s])
      /\ IdsAt(s, "outbound", k) = Ids(outbound[s])
      /\ IdsAt(s, "replies", k) = Ids(replies[s])
      /\ IdsAt(s, "queue", k) = Ids(queue[s][k])
      /\ IdsAt(s, "orphan", k) = Ids(orphan[s][k])
  BY DEF IdsAt
<1> QED
  BY <1>1, <1>2 DEF PlaceKinds

\* What a session says once is heard once.
LEMMA SaysOnce ==
  ASSUME WireInv, NEW s \in Sessions, OnceAt(s), NEW n, NEW what,
         [id |-> n, says |-> what] \in Replies, Say(s, n, what),
         n \notin Ids(outbound[s]), what # "progress" => n # 0
  PROVE  /\ Distinct(outbound'[s]) /\ Named(outbound'[s])
         /\ Ids(outbound'[s]) \subseteq Ids(outbound[s]) \cup ({n} \ {0})
         /\ \A t \in Sessions : t # s => outbound'[t] = outbound[t]
<1> DEFINE r == [id |-> n, says |-> what]
           q == outbound[s]
<1>1. /\ q \in Seq(Replies) /\ outbound'[s] = Append(q, r)
      /\ \A t \in Sessions : t # s => outbound'[t] = outbound[t]
  BY DEF Say, WireInv, WireTypeOK
<1>2. Distinct(q) /\ Named(q)
  BY DEF OnceAt, EachDistinct
<1>3. r.id = n /\ r.says = what /\ r \in Replies
  OBVIOUS
<1> HIDE DEF r, q
<1>4. Named(outbound'[s])
  <2>1. \A i \in DOMAIN outbound'[s] :
          outbound'[s][i] = r \/ (i \in DOMAIN q /\ outbound'[s][i] = q[i])
    BY <1>1, <1>3, AppendAt
  <2> QED BY <1>2, <1>3, <2>1 DEF Named
<1>5. /\ Distinct(outbound'[s])
      /\ Ids(outbound'[s]) \subseteq Ids(q) \cup ({n} \ {0})
  <2>1. n \notin Ids(q)
    BY DEF q
  <2> QED BY <1>1, <1>2, <1>3, <2>1, AppendIds
<1> QED BY <1>1, <1>4, <1>5 DEF q

\* What a reader delivers is delivered once, or dropped.
LEMMA DeliversOnce ==
  ASSUME WireInv, NEW s \in Sessions, OnceAt(s), NEW n, NEW what,
         [id |-> n, says |-> what] \in Replies, Deliver(s, n, what),
         n \notin Ids(replies[s]), what # "progress" => n # 0
  PROVE  /\ Distinct(replies'[s]) /\ Named(replies'[s])
         /\ Ids(replies'[s]) \subseteq Ids(replies[s]) \cup ({n} \ {0})
         /\ \A t \in Sessions : t # s => replies'[t] = replies[t]
<1> DEFINE r == [id |-> n, says |-> what]
           q == replies[s]
<1>0. q \in Seq(Replies) /\ replies \in [Sessions -> Seq(Replies)]
  BY DEF WireInv, WireTypeOK
<1>1. /\ replies'[s] \in {q, Append(q, r)}
      /\ \A t \in Sessions : t # s => replies'[t] = replies[t]
  BY <1>0 DEF Deliver
<1>2. Distinct(q) /\ Named(q)
  BY DEF OnceAt, EachDistinct
<1>3. r.id = n /\ r.says = what /\ r \in Replies
  OBVIOUS
<1>4. n \notin Ids(q)
  OBVIOUS
<1> HIDE DEF r, q
<1>5. CASE replies'[s] = q
  BY <1>1, <1>2, <1>5 DEF q
<1>6. CASE replies'[s] = Append(q, r)
  <2>1. Named(replies'[s])
    <3>1. \A i \in DOMAIN replies'[s] :
            replies'[s][i] = r \/ (i \in DOMAIN q /\ replies'[s][i] = q[i])
      BY <1>0, <1>3, <1>6, AppendAt
    <3> QED BY <1>2, <1>3, <3>1 DEF Named
  <2>2. /\ Distinct(replies'[s])
        /\ Ids(replies'[s]) \subseteq Ids(q) \cup ({n} \ {0})
    BY <1>0, <1>2, <1>3, <1>4, <1>6, AppendIds
  <2> QED BY <1>1, <2>1, <2>2 DEF q
<1> QED BY <1>1, <1>5, <1>6

\* A step about one session leaves the others alone.
LEMMA OneAlone ==
  ASSUME OnceInv, WireInv, WireInv', written <= written', NEW s \in Sessions,
         OnceAt(s)', \A t \in Sessions : t # s => UNCHANGED around(t)
  PROVE  OnceInv'
BY LeftAlone DEF OnceInv

\* A central writes requests that have new numbers.
LEMMA WriteOnce ==
  ASSUME IInv, WireInv, WireInv', OnceInv, Write
  PROVE  OnceInv' /\ Onward
<1>0. PICK n \in 1..MaxBatch : \E call \in [1..n -> Calls] : Wrote(n, call)
  BY DEF Write, Wrote, Chunk
<1>1. PICK call \in [1..n -> Calls] : Wrote(n, call)
  BY <1>0
<1>a. slot \in Sessions
  BY DEF Write, IInv, GateTypeOK
<1>b. PICK s \in Sessions : s = slot
  BY <1>a
<1>c. PICK chunk : chunk = Chunk(n, call)
  OBVIOUS
<1>2. /\ OnceAt(s) /\ WireTypeOK /\ WireTypeOK'
      /\ UNCHANGED <<lines, outbound, replies, pool>>
  BY DEF Write, OnceInv, WireInv
<1>3. /\ written \in Nat /\ n \in Nat /\ written' = written + n
      /\ inbound' = [inbound EXCEPT ![s] = Append(@, chunk)]
      /\ waiting' = [waiting EXCEPT ![s] = @ \cup Range(chunk)]
  BY <1>1, <1>2, <1>b, <1>c, BridgeAssumption DEF Wrote, WireTypeOK
<1>4. /\ DOMAIN chunk = 1..n
      /\ \A i \in 1..n : chunk[i].id = written + i /\ chunk[i] \in Requests
      /\ chunk \in Seq(Requests)
  <2>1. \A i \in 1..n : chunk[i] \in Requests
    BY <1>1, <1>3, <1>c, BridgeAssumption DEF Requests, Wrote, Chunk
  <2> QED BY <1>3, <1>c, <2>1 DEF Chunk
<1>5. /\ Distinct(chunk) /\ \A x \in Ids(chunk) : x > written
      /\ \A x \in Ids(chunk) : \E r \in Range(chunk) : r.id = x
      /\ \A r \in Range(chunk) : r.id <= written + n
  <2>1. Distinct(chunk)
    BY <1>3, <1>4 DEF Distinct
  <2> QED BY <1>3, <1>4, <2>1 DEF Ids, Range
<1>6. \A w \in PlaceKinds, k \in Keys : \A x \in IdsAt(s, w, k) : x <= written
  BY <1>2 DEF OnceAt, Awaited, Counted
<1>7. inbound[s] \in Seq(Seq(Requests)) /\ inbound'[s] = Append(inbound[s], chunk)
  BY <1>2, <1>3 DEF WireTypeOK
<1>8. \A i \in DOMAIN inbound'[s] :
        \/ inbound'[s][i] = chunk /\ i = Len(inbound[s]) + 1
        \/ i \in DOMAIN inbound[s] /\ inbound'[s][i] = inbound[s][i]
             /\ i # Len(inbound[s]) + 1
  BY <1>4, <1>7, AppendAt
<1>9. waiting'[s] = waiting[s] \cup Range(chunk)
  BY <1>2, <1>3 DEF WireTypeOK
<1>10. \A w \in PlaceKinds, k \in Keys :
         IdsAt(s, w, k)' \subseteq
           IF w = "inbound" THEN IdsAt(s, w, k) \cup Ids(chunk) ELSE IdsAt(s, w, k)
  <2> SUFFICES ASSUME NEW w \in PlaceKinds, NEW k \in Keys
               PROVE  IdsAt(s, w, k)' \subseteq
                        IF w = "inbound" THEN IdsAt(s, w, k) \cup Ids(chunk)
                                         ELSE IdsAt(s, w, k)
    OBVIOUS
  <2>1. CASE w = "inbound"
    BY <1>8, <2>1 DEF IdsAt
  <2>2. CASE w # "inbound"
    BY <1>2, <2>2 DEF IdsAt, PlaceKinds, pool
  <2> QED BY <2>1, <2>2
<1>11. Apart(s)'
  <2>1. ASSUME NEW x, x \in Ids(chunk), NEW w \in PlaceKinds, NEW k \in Keys
        PROVE  x \notin IdsAt(s, w, k)
    <3>1. x \in Nat /\ x > written
      BY <1>3, <1>4, <1>5, <2>1 DEF Ids
    <3>2. x \in IdsAt(s, w, k) => x <= written
      BY <1>6
    <3> QED BY <1>3, <3>1, <3>2
  <2> QED BY <1>2, <1>10, <2>1 DEF OnceAt, Apart, SamePlace
<1>12. Awaited(s)'
  BY <1>2, <1>5, <1>9, <1>10 DEF OnceAt, Awaited
<1>13. Counted(s)'
  <2>1. \A r \in waiting[s] : r.id \in Nat /\ r.id <= written
    BY <1>2 DEF OnceAt, Counted, WireTypeOK, Requests
  <2> QED BY <1>3, <1>5, <1>9, <2>1 DEF Counted
<1>14. EachDistinct(s)'
  <2>1. \A i \in DOMAIN inbound[s] : \A x \in Ids(inbound[s][i]) : x <= written
    <3>1. ConfigKey \in Keys /\ "inbound" \in PlaceKinds
      BY DEF ConfigKey, Keys, PlaceKinds
    <3>2. \A x \in IdsAt(s, "inbound", ConfigKey) : x <= written
      BY <1>6, <3>1
    <3> QED BY <3>2 DEF IdsAt
  <2>2. \A i \in DOMAIN inbound[s] : Ids(inbound[s][i]) \cap Ids(chunk) = {}
    <3> SUFFICES ASSUME NEW i \in DOMAIN inbound[s], NEW x, x \in Ids(inbound[s][i]),
                        x \in Ids(chunk)
                 PROVE  FALSE
      OBVIOUS
    <3>1. x \in Nat /\ x > written
      BY <1>4, <1>3, <1>5 DEF Ids
    <3>2. x <= written
      BY <2>1
    <3> QED BY <1>3, <3>1, <3>2
  <2>3. ChunksDistinct(s)'
    BY <1>2, <1>5, <1>8, <2>2 DEF OnceAt, EachDistinct, ChunksDistinct
  <2> QED BY <1>2, <2>3 DEF OnceAt, EachDistinct, pool
<1>15. OnceAt(s)'
  BY <1>2, <1>11, <1>12, <1>13, <1>14 DEF OnceAt
<1>16. \A t \in Sessions : t # s => UNCHANGED around(t)
  BY <1>2, <1>3 DEF around, pool, WireTypeOK
<1>17. OnceInv'
  BY <1>2, <1>3, <1>15, <1>16, OneAlone
<1>18. PICK fresh : fresh = (written + 1)..written'
  OBVIOUS
<1>19. Ids(chunk) = fresh /\ {r.id : r \in Range(chunk)} = fresh
  <2>1. \A x : x \in fresh <=> \E i \in 1..n : x = written + i
    <3> SUFFICES ASSUME NEW x \in fresh PROVE \E i \in 1..n : x = written + i
      BY <1>3, <1>18
    <3>1. x - written \in 1..n /\ x = written + (x - written)
      BY <1>3, <1>18
    <3> QED BY <3>1
  <2>2. 0 \notin fresh
    BY <1>3, <1>18
  <2>3. Ids(chunk) = fresh
    BY <1>4, <2>1, <2>2 DEF Ids
  <2> QED BY <1>4, <2>1, <2>3 DEF Range
<1>20. ChunkIds(s)' = ChunkIds(s) \cup fresh
  <2>1. Len(inbound[s]) + 1 \in DOMAIN inbound'[s]
        /\ inbound'[s][Len(inbound[s]) + 1] = chunk
        /\ \A i \in DOMAIN inbound[s] :
             i \in DOMAIN inbound'[s] /\ inbound'[s][i] = inbound[s][i]
    BY <1>4, <1>7
  <2> QED BY <1>8, <1>19, <2>1 DEF ChunkIds
<1>21. /\ OpenIds(s)' = OpenIds(s) \cup fresh
       /\ WantedIds(s)' = WantedIds(s) \cup fresh
       /\ SaidIds(s)' = SaidIds(s)
  <2>1. PoolIds(s)' = PoolIds(s) /\ Ids(lines'[s]) = Ids(lines[s])
    BY <1>2 DEF PoolIds, pool
  <2>2. OpenIds(s)' = OpenIds(s) \cup fresh
    BY <1>20, <2>1 DEF OpenIds
  <2> QED BY <1>2, <1>9, <1>19, <2>2 DEF SaidIds, WantedIds
<1>22. Kept!Ask(s)
  <2>1. \A t \in Sessions : t # s =>
          OpenIds(t)' = OpenIds(t) /\ SaidIds(t)' = SaidIds(t) /\ WantedIds(t)' = WantedIds(t)
    BY <1>16, StaysPut
  <2>2. written' \in Nat /\ written' > written
    BY <1>3
  <2> QED BY <1>18, <1>21, <2>1, <2>2 DEF Kept!Ask
<1> QED BY <1>17, <1>22 DEF Onward, Kept!LedgerNext

\* The central hears an answer and waits for it no more.
LEMMA HearOnce ==
  ASSUME WireInv, WireInv', OnceInv, NEW s \in Sessions, Hear(s)
  PROVE  OnceInv' /\ Onward
<1>0. PICK h : h = Head(outbound[s]).id
  OBVIOUS
<1>1. /\ outbound[s] # <<>> /\ OnceAt(s) /\ WireTypeOK
      /\ outbound' = [outbound EXCEPT ![s] = Tail(@)]
      /\ waiting' = [waiting EXCEPT ![s] = {r \in @ : r.id # h}]
      /\ UNCHANGED <<inbound, lines, replies, pool, written>>
  BY <1>0 DEF Hear, radio, OnceInv, WireInv
<1>2. /\ outbound'[s] = Tail(outbound[s]) /\ outbound[s] \in Seq(Replies)
      /\ waiting'[s] = {r \in waiting[s] : r.id # h}
      /\ \A t \in Sessions : t # s => outbound'[t] = outbound[t] /\ waiting'[t] = waiting[t]
  BY <1>1 DEF WireTypeOK
<1>3. Distinct(outbound[s]) /\ Named(outbound[s])
  BY <1>1 DEF OnceAt, EachDistinct
<1>4. /\ Distinct(outbound'[s]) /\ Ids(outbound'[s]) \subseteq Ids(outbound[s]) \ {h}
      /\ h # 0 => h \in Ids(outbound[s])
  BY <1>0, <1>1, <1>2, <1>3, TailIds
<1>5. Named(outbound'[s])
  <2>1. \A i \in DOMAIN Tail(outbound[s]) :
          i + 1 \in DOMAIN outbound[s] /\ Tail(outbound[s])[i] = outbound[s][i + 1]
    BY <1>1, <1>2, TailAt
  <2> QED BY <1>2, <1>3, <2>1 DEF Named
<1>6. \A w \in PlaceKinds, k \in Keys :
        /\ IdsAt(s, w, k)' \subseteq IdsAt(s, w, k)
        /\ w = "outbound" => h \notin IdsAt(s, w, k)'
        /\ w = "outbound" /\ h # 0 => h \in IdsAt(s, w, k)
        /\ 0 \notin IdsAt(s, w, k)
  <2>1. \A k \in Keys :
          IdsAt(s, "outbound", k)' \subseteq IdsAt(s, "outbound", k) \ {h}
    BY <1>4 DEF IdsAt
  <2>2. \A w \in PlaceKinds, k \in Keys :
          w # "outbound" => IdsAt(s, w, k)' = IdsAt(s, w, k)
    BY <1>1 DEF IdsAt, PlaceKinds, pool
  <2>3. \A k \in Keys : h # 0 => h \in IdsAt(s, "outbound", k)
    BY <1>4 DEF IdsAt
  <2>4. \A w \in PlaceKinds, k \in Keys : 0 \notin IdsAt(s, w, k)
    BY DEF IdsAt, PlaceKinds, Ids
  <2> QED BY <2>1, <2>2, <2>3, <2>4
<1>7. \A w \in PlaceKinds, k \in Keys : h \notin IdsAt(s, w, k)'
  BY <1>1, <1>6 DEF OnceAt, Apart, SamePlace, PlaceKinds
<1>8. Awaited(s)' /\ Apart(s)' /\ Counted(s)'
  BY <1>1, <1>2, <1>6, <1>7 DEF OnceAt, Awaited, Apart, Counted
<1>9. EachDistinct(s)'
  BY <1>1, <1>4 DEF OnceAt, EachDistinct, ChunksDistinct, pool
<1>10. OnceAt(s)'
  BY <1>1, <1>5, <1>8, <1>9 DEF OnceAt
<1>11. written <= written'
  BY <1>1 DEF WireTypeOK
<1>12. \A t \in Sessions : t # s => UNCHANGED around(t)
  BY <1>1, <1>2 DEF around, pool
<1>13. OnceInv'
  BY <1>1, <1>10, <1>11, <1>12, OneAlone
<1>14. OpenIds(s)' = OpenIds(s)
  BY <1>1 DEF OpenIds, ChunkIds, PoolIds, pool
<1>15. SaidIds(s)' = SaidIds(s) \ {h} /\ (h # 0 => h \in SaidIds(s))
  <2>1. Ids(outbound'[s]) = Ids(outbound[s]) \ {h}
    <3>1. Ids(outbound[s]) \subseteq Ids(outbound'[s]) \cup {h}
      BY <1>0, <1>1, <1>2, <1>3, TailIds
    <3> QED BY <1>4, <3>1
  <2>2. h \notin Ids(replies[s])
    <3>1. 0 \notin Ids(replies[s]) /\ ConfigKey \in Keys
      BY DEF Ids, ConfigKey, Keys
    <3>2. Ids(replies[s]) \cap Ids(outbound[s]) = {}
      BY <1>1, <3>1, Elsewhere DEF OnceAt
    <3> QED BY <1>4, <3>1, <3>2
  <2>3. replies'[s] = replies[s]
    BY <1>1
  <2> QED BY <1>4, <2>1, <2>2, <2>3 DEF SaidIds
<1>16. WantedIds(s)' = WantedIds(s) \ {h}
  BY <1>2 DEF WantedIds
<1>17. \A t \in Sessions : t # s =>
         OpenIds(t)' = OpenIds(t) /\ SaidIds(t)' = SaidIds(t) /\ WantedIds(t)' = WantedIds(t)
  BY <1>12, StaysPut
<1>18. CASE h # 0
  <2>1. Kept!Hear(s)
    BY <1>1, <1>14, <1>15, <1>16, <1>17, <1>18 DEF Kept!Hear
  <2> QED BY <1>13, <2>1 DEF Onward, Kept!LedgerNext
<1>19. CASE h = 0
  <2>1. WantedIds(s)' = WantedIds(s) /\ SaidIds(s)' = SaidIds(s)
    <3>1. h \notin WantedIds(s) /\ h \notin SaidIds(s)
      BY <1>1, <1>19, BridgeAssumption DEF WantedIds, SaidIds, Ids, WireTypeOK, Requests
    <3> QED BY <1>15, <1>16, <3>1
  <2>2. UNCHANGED Kept!ledger
    BY <1>1, <1>14, <1>17, <2>1 DEF Kept!ledger
  <2> QED BY <1>13, <2>2 DEF Onward
<1> QED BY <1>18, <1>19

\* Nothing moves.
LEMMA QuietOnce ==
  ASSUME OnceInv, WireInv, WireInv',
         UNCHANGED <<inbound, lines, outbound, replies, pool, waiting, written>>
  PROVE  OnceInv' /\ Onward
<1>1. written <= written'
  BY DEF WireInv, WireTypeOK
<1>2. \A t \in Sessions : UNCHANGED around(t)
  BY DEF around, pool
<1>3. OnceInv'
  BY <1>1, <1>2, LeftAlone DEF OnceInv
<1>4. UNCHANGED Kept!ledger
  BY <1>2, StaysPut DEF Kept!ledger
<1> QED BY <1>3, <1>4 DEF Onward

\* Some queues are lost.
LEMMA FewerOnce ==
  ASSUME OnceInv, WireInv, WireInv', UNCHANGED <<waiting, written>>,
         \A t \in Sessions :
           /\ inbound'[t] \in {inbound[t], <<>>} /\ lines'[t] \in {lines[t], <<>>}
           /\ outbound'[t] \in {outbound[t], <<>>} /\ replies'[t] \in {replies[t], <<>>}
           /\ \A k \in Keys : /\ queue'[t][k] \in {queue[t][k], <<>>}
                              /\ orphan'[t][k] \in {orphan[t][k], <<>>}
  PROVE  OnceInv' /\ Onward
<1>0. /\ DOMAIN <<>> = {} /\ Ids(<<>>) = {} /\ Distinct(<<>>) /\ Named(<<>>)
  BY DEF Ids, Distinct, Named
<1>1. \A s \in Sessions, w \in PlaceKinds, k \in Keys :
        IdsAt(s, w, k)' \subseteq IdsAt(s, w, k)
  <2> SUFFICES ASSUME NEW s \in Sessions, NEW w \in PlaceKinds, NEW k \in Keys
               PROVE  IdsAt(s, w, k)' \subseteq IdsAt(s, w, k)
    OBVIOUS
  <2>1. CASE w = "inbound"
    BY <1>0, <2>1 DEF IdsAt
  <2>2. CASE w # "inbound"
    BY <1>0, <2>2 DEF IdsAt, PlaceKinds
  <2> QED BY <2>1, <2>2
<1>2. ASSUME NEW s \in Sessions PROVE OnceAt(s)'
  <2>0. OnceAt(s)
    BY DEF OnceInv
  <2>4. Apart(s)' /\ Awaited(s)'
    BY <2>0, <1>1, FewerApart DEF OnceAt
  <2>5. EachDistinct(s)'
    <3>1. ChunksDistinct(s)'
      BY <2>0, <1>0 DEF OnceAt, EachDistinct, ChunksDistinct
    <3> QED BY <2>0, <1>0, <3>1 DEF OnceAt, EachDistinct
  <2>6. Counted(s)'
    BY <2>0 DEF OnceAt, Counted
  <2> QED BY <1>0, <2>0, <2>4, <2>5, <2>6 DEF OnceAt
<1> QED BY <1>1, <1>2, FewerOnward DEF OnceInv

\* The answer to the line at hand takes its place.
LEMMA LineSaidOnce ==
  ASSUME OnceInv, WireInv, WireInv', NEW s \in Sessions, lines[s] # <<>>,
         NEW what \in {"denied", "refused", "wrong", "right", "unavailable"},
         Say(s, Request(s).id, what),
         lines'[s] \in {Tail(lines[s]), <<>>}, inbound'[s] \in {inbound[s], <<>>},
         replies'[s] \in {replies[s], <<>>}, UNCHANGED <<queue, orphan, waiting, written>>,
         \A t \in Sessions : t # s => /\ lines'[t] = lines[t] /\ inbound'[t] = inbound[t]
                                      /\ replies'[t] = replies[t]
  PROVE  OnceInv' /\ Onward
<1>0. PICK h : h = Request(s).id
  OBVIOUS
<1>1. OnceAt(s) /\ WireTypeOK
  BY DEF OnceInv, WireInv
<1>2. /\ lines[s] \in Seq(Requests) /\ Request(s) \in Requests /\ h \in 1..MaxRequests
      /\ [id |-> h, says |-> what] \in Replies
  BY <1>0, <1>1, QueueTypes, ReplyTypes DEF WireTypeOK, Request
<1>3. h # 0 /\ ConfigKey \in Keys
  BY <1>2, BridgeAssumption DEF ConfigKey, Keys
<1>4. /\ DOMAIN <<>> = {} /\ Ids(<<>>) = {} /\ Distinct(<<>>) /\ Named(<<>>)
  BY DEF Ids, Distinct, Named
<1>5. /\ h \in Ids(lines[s]) /\ Distinct(lines'[s])
      /\ Ids(lines'[s]) \subseteq Ids(lines[s]) \ {h}
  <2>1. Distinct(lines[s]) /\ Head(lines[s]).id = h
    BY <1>0, <1>1 DEF OnceAt, EachDistinct, Request
  <2>2. /\ Distinct(Tail(lines[s])) /\ h \in Ids(lines[s])
        /\ Ids(Tail(lines[s])) \subseteq Ids(lines[s]) \ {h}
    BY <1>2, <1>3, <2>1, TailIds
  <2> QED BY <1>4, <2>2
<1>6. h \notin Ids(outbound[s])
  BY <1>1, <1>3, <1>5, Elsewhere DEF OnceAt
<1>7. /\ Distinct(outbound'[s]) /\ Named(outbound'[s])
      /\ Ids(outbound'[s]) \subseteq Ids(outbound[s]) \cup {h}
      /\ \A t \in Sessions : t # s => outbound'[t] = outbound[t]
  BY <1>0, <1>1, <1>2, <1>3, <1>6, SaysOnce
<1>8. Moves(s, {h}, "lines", ConfigKey, "outbound", ConfigKey)
  <2> SUFFICES ASSUME NEW u \in PlaceKinds, NEW m \in Keys
               PROVE  /\ u = "outbound" => IdsAt(s, u, m)' \subseteq IdsAt(s, u, m) \cup {h}
                      /\ u = "lines" => IdsAt(s, u, m)' \subseteq IdsAt(s, u, m) \ {h}
                      /\ u \notin {"outbound", "lines"} =>
                           IdsAt(s, u, m)' \subseteq IdsAt(s, u, m)
    BY DEF Moves, SamePlace
  <2>1. CASE u = "inbound"
    BY <1>4, <2>1 DEF IdsAt
  <2>2. CASE u # "inbound"
    BY <1>4, <1>5, <1>7, <2>2 DEF IdsAt, PlaceKinds
  <2> QED BY <2>1, <2>2
<1>9. Apart(s)' /\ Awaited(s)'
  <2>1. /\ {h} \subseteq IdsAt(s, "lines", ConfigKey)
        /\ ~SamePlace("lines", ConfigKey, "outbound", ConfigKey)
        /\ "lines" \in PlaceKinds /\ "outbound" \in PlaceKinds
    BY <1>5 DEF IdsAt, SamePlace, PlaceKinds
  <2>2. Apart(s) /\ Awaited(s) /\ waiting'[s] = waiting[s]
    BY <1>1 DEF OnceAt
  <2> QED BY <1>3, <1>8, <2>1, <2>2, MovedApart
<1>10. EachDistinct(s)'
  <2>1. ChunksDistinct(s)'
    BY <1>1, <1>4 DEF OnceAt, EachDistinct, ChunksDistinct
  <2> QED BY <1>1, <1>4, <1>5, <1>7, <2>1 DEF OnceAt, EachDistinct
<1>11. OnceAt(s)'
  BY <1>1, <1>4, <1>7, <1>9, <1>10 DEF OnceAt, Counted
<1>12. written <= written'
  BY <1>1 DEF WireTypeOK
<1>13. \A t \in Sessions : t # s => UNCHANGED around(t)
  BY <1>7 DEF around
<1>14. Onward
  <2>1. /\ {h} \subseteq IdsAt(s, "lines", ConfigKey)
        /\ ~SamePlace("lines", ConfigKey, "outbound", ConfigKey)
        /\ "lines" \in OpenKinds /\ "outbound" \in SaidKinds
        /\ "lines" \in PlaceKinds /\ "outbound" \in PlaceKinds
        /\ \E n : {h} = {n}
    BY <1>5 DEF IdsAt, SamePlace, OpenKinds, SaidKinds, PlaceKinds
  <2> QED BY <1>3, <1>8, <1>13, <2>1, MovesOnward
<1> QED BY <1>11, <1>12, <1>13, <1>14, OneAlone

\* A session takes the lines of a chunk when it has dealt with those it had.
LEMMA TakeOnce ==
  ASSUME OnceInv, WireInv, WireInv', NEW s \in Sessions, TakeChunk(s)
  PROVE  OnceInv' /\ Onward
<1>0. PICK X : X = Ids(Head(inbound[s]))
  OBVIOUS
<1>1. /\ OnceAt(s) /\ WireTypeOK /\ inbound[s] # <<>> /\ lines[s] = <<>>
      /\ lines' = [lines EXCEPT ![s] = Head(inbound[s])]
      /\ inbound' = [inbound EXCEPT ![s] = Tail(@)]
      /\ UNCHANGED <<outbound, replies, queue, orphan, waiting, written>>
  BY DEF OnceInv, WireInv, TakeChunk, AfterBatch, pool
<1>2. /\ inbound[s] \in Seq(Seq(Requests)) /\ ConfigKey \in Keys
      /\ lines'[s] = Head(inbound[s]) /\ inbound'[s] = Tail(inbound[s])
      /\ \A t \in Sessions : t # s => lines'[t] = lines[t] /\ inbound'[t] = inbound[t]
  BY <1>1 DEF WireTypeOK, ConfigKey, Keys
<1>3. /\ 1 \in DOMAIN inbound[s] /\ Head(inbound[s]) = inbound[s][1]
      /\ \A i \in DOMAIN Tail(inbound[s]) :
           /\ i \in Nat /\ i >= 1 /\ i + 1 \in DOMAIN inbound[s]
           /\ Tail(inbound[s])[i] = inbound[s][i + 1]
  <2>1. 1 \in DOMAIN inbound[s] /\ Head(inbound[s]) = inbound[s][1]
    BY <1>1, <1>2
  <2> QED BY <1>1, <1>2, <2>1, TailAt
<1>4. ChunksDistinct(s)
  BY <1>1 DEF OnceAt, EachDistinct
<1>5. /\ ChunksDistinct(s)' /\ Distinct(lines'[s])
      /\ \A i \in DOMAIN inbound'[s] :
           /\ Ids(inbound'[s][i]) \cap X = {}
           /\ \E j \in DOMAIN inbound[s] : inbound'[s][i] = inbound[s][j]
  <2>1. \A i \in DOMAIN Tail(inbound[s]) : i + 1 # 1
    BY <1>3
  <2>2. \A i \in DOMAIN Tail(inbound[s]) : Ids(Tail(inbound[s])[i]) \cap X = {}
    BY <1>0, <1>3, <1>4, <2>1 DEF ChunksDistinct
  <2>3. \A i, j \in DOMAIN Tail(inbound[s]) : i # j => i + 1 # j + 1
    BY <1>3
  <2>4. ChunksDistinct(s)'
    <3> SUFFICES ASSUME NEW i \in DOMAIN Tail(inbound[s]),
                        NEW j \in DOMAIN Tail(inbound[s])
                 PROVE  /\ Distinct(Tail(inbound[s])[i])
                        /\ i # j => Ids(Tail(inbound[s])[i])
                                      \cap Ids(Tail(inbound[s])[j]) = {}
      BY <1>2 DEF ChunksDistinct
    <3>1. /\ i + 1 \in DOMAIN inbound[s] /\ Tail(inbound[s])[i] = inbound[s][i + 1]
          /\ j + 1 \in DOMAIN inbound[s] /\ Tail(inbound[s])[j] = inbound[s][j + 1]
          /\ i # j => i + 1 # j + 1
      BY <1>3, <2>3
    <3> QED BY <1>4, <3>1 DEF ChunksDistinct
  <2>5. Distinct(lines'[s])
    BY <1>2, <1>3, <1>4 DEF ChunksDistinct
  <2>6. \A i \in DOMAIN Tail(inbound[s]) :
          \E j \in DOMAIN inbound[s] : Tail(inbound[s])[i] = inbound[s][j]
    BY <1>3
  <2> QED BY <1>2, <2>2, <2>4, <2>5, <2>6
<1>6. Moves(s, X, "inbound", ConfigKey, "lines", ConfigKey)
  <2> SUFFICES ASSUME NEW u \in PlaceKinds, NEW m \in Keys
               PROVE  /\ u = "lines" => IdsAt(s, u, m)' \subseteq IdsAt(s, u, m) \cup X
                      /\ u = "inbound" => IdsAt(s, u, m)' \subseteq IdsAt(s, u, m) \ X
                      /\ u \notin {"inbound", "lines"} =>
                           IdsAt(s, u, m)' \subseteq IdsAt(s, u, m)
    BY DEF Moves, SamePlace
  <2>1. CASE u = "inbound"
    BY <1>5, <2>1 DEF IdsAt
  <2>2. CASE u = "lines"
    BY <1>0, <1>2, <2>2 DEF IdsAt
  <2>3. CASE u \notin {"inbound", "lines"}
    BY <1>1, <2>3 DEF IdsAt, PlaceKinds
  <2> QED BY <2>1, <2>2, <2>3
<1>7. Apart(s)' /\ Awaited(s)'
  <2>1. /\ X \subseteq IdsAt(s, "inbound", ConfigKey)
        /\ ~SamePlace("inbound", ConfigKey, "lines", ConfigKey)
        /\ "inbound" \in PlaceKinds /\ "lines" \in PlaceKinds
    BY <1>0, <1>3 DEF IdsAt, SamePlace, PlaceKinds
  <2>2. Apart(s) /\ Awaited(s) /\ waiting'[s] = waiting[s]
    BY <1>1 DEF OnceAt
  <2> QED BY <1>2, <1>6, <2>1, <2>2, MovedApart
<1>8. OnceAt(s)'
  BY <1>1, <1>5, <1>7 DEF OnceAt, EachDistinct, Counted
<1>9. written <= written'
  BY <1>1 DEF WireTypeOK
<1>10. \A t \in Sessions : t # s => UNCHANGED around(t)
  BY <1>1, <1>2 DEF around
<1>11. Onward
  <2>1. /\ X \subseteq IdsAt(s, "inbound", ConfigKey)
        /\ ~SamePlace("inbound", ConfigKey, "lines", ConfigKey)
        /\ "inbound" \in OpenKinds /\ "lines" \in OpenKinds
        /\ "inbound" \in PlaceKinds /\ "lines" \in PlaceKinds
    BY <1>0, <1>3 DEF IdsAt, SamePlace, OpenKinds, PlaceKinds
  <2> QED BY <1>1, <1>2, <1>6, <1>10, <2>1, MovesOnward
<1> QED BY <1>8, <1>9, <1>10, <1>11, OneAlone

\* A session passes on what a service wrote.
LEMMA PassOnce ==
  ASSUME OnceInv, WireInv, WireInv', NEW s \in Sessions, PassOn(s)
  PROVE  OnceInv' /\ Onward
<1>0. PICK a : a = Head(replies[s])
  OBVIOUS
<1>1. /\ OnceAt(s) /\ WireTypeOK /\ replies[s] # <<>>
      /\ Say(s, a.id, a.says)
      /\ replies' = [replies EXCEPT ![s] = Tail(@)]
      /\ UNCHANGED <<inbound, lines, queue, orphan, waiting, written>>
  BY <1>0 DEF OnceInv, WireInv, PassOn, AfterBatch, pool, radio
<1>2. /\ replies[s] \in Seq(Replies) /\ a \in Replies /\ ConfigKey \in Keys
      /\ replies'[s] = Tail(replies[s])
      /\ \A t \in Sessions : t # s => replies'[t] = replies[t]
  BY <1>0, <1>1, QueueTypes DEF WireTypeOK, ConfigKey, Keys
<1>3. /\ [id |-> a.id, says |-> a.says] \in Replies
      /\ a.says # "progress" => a.id # 0
  <2>1. [id |-> a.id, says |-> a.says] \in Replies
    BY <1>2 DEF Replies
  <2>2. 1 \in DOMAIN replies[s] /\ a = replies[s][1]
    BY <1>0, <1>1, <1>2
  <2> QED BY <1>1, <2>1, <2>2 DEF OnceAt, Named
<1>4. /\ Distinct(replies'[s])
      /\ Ids(replies'[s]) \subseteq Ids(replies[s]) \ {a.id}
      /\ a.id # 0 => a.id \in Ids(replies[s])
  <2>1. Distinct(replies[s])
    BY <1>1 DEF OnceAt, EachDistinct
  <2> QED BY <1>0, <1>1, <1>2, <2>1, TailIds
<1>5. Named(replies'[s])
  <2>1. \A i \in DOMAIN Tail(replies[s]) :
          i + 1 \in DOMAIN replies[s] /\ Tail(replies[s])[i] = replies[s][i + 1]
    BY <1>1, <1>2, TailAt
  <2> QED BY <1>1, <1>2, <2>1 DEF OnceAt, Named
<1>6. a.id \notin Ids(outbound[s])
  <2>1. 0 \notin Ids(outbound[s])
    BY DEF Ids
  <2> QED BY <1>1, <1>2, <1>4, <2>1, Elsewhere DEF OnceAt
<1>7. /\ Distinct(outbound'[s]) /\ Named(outbound'[s])
      /\ Ids(outbound'[s]) \subseteq Ids(outbound[s]) \cup ({a.id} \ {0})
      /\ \A t \in Sessions : t # s => outbound'[t] = outbound[t]
  <2>1. PICK n, what : n = a.id /\ what = a.says
    OBVIOUS
  <2>2. /\ OnceAt(s) /\ [id |-> n, says |-> what] \in Replies /\ Say(s, n, what)
        /\ n \notin Ids(outbound[s])
        /\ what # "progress" => n # 0
    BY <1>1, <1>3, <1>6, <2>1
  <2>3. /\ Distinct(outbound'[s]) /\ Named(outbound'[s])
        /\ Ids(outbound'[s]) \subseteq Ids(outbound[s]) \cup ({n} \ {0})
        /\ \A t \in Sessions : t # s => outbound'[t] = outbound[t]
    BY <2>2, SaysOnce
  <2> QED BY <2>1, <2>3
<1>8. PICK X : X = {a.id} \ {0}
  OBVIOUS
<1>9. Moves(s, X, "replies", ConfigKey, "outbound", ConfigKey)
  <2> SUFFICES ASSUME NEW u \in PlaceKinds, NEW m \in Keys
               PROVE  /\ u = "outbound" => IdsAt(s, u, m)' \subseteq IdsAt(s, u, m) \cup X
                      /\ u = "replies" => IdsAt(s, u, m)' \subseteq IdsAt(s, u, m) \ X
                      /\ u \notin {"outbound", "replies"} =>
                           IdsAt(s, u, m)' \subseteq IdsAt(s, u, m)
    BY DEF Moves, SamePlace
  <2> QED BY <1>1, <1>4, <1>7, <1>8 DEF IdsAt, PlaceKinds
<1>10. Apart(s)' /\ Awaited(s)'
  <2>1. /\ X \subseteq IdsAt(s, "replies", ConfigKey)
        /\ ~SamePlace("replies", ConfigKey, "outbound", ConfigKey)
        /\ "replies" \in PlaceKinds /\ "outbound" \in PlaceKinds
    BY <1>4, <1>8 DEF IdsAt, SamePlace, PlaceKinds
  <2>2. Apart(s) /\ Awaited(s) /\ waiting'[s] = waiting[s]
    BY <1>1 DEF OnceAt
  <2> QED BY <1>2, <1>9, <2>1, <2>2, MovedApart
<1>11. OnceAt(s)'
  BY <1>1, <1>4, <1>5, <1>7, <1>10 DEF OnceAt, EachDistinct, ChunksDistinct, Counted
<1>12. written <= written'
  BY <1>1 DEF WireTypeOK
<1>13. \A t \in Sessions : t # s => UNCHANGED around(t)
  BY <1>1, <1>2, <1>7 DEF around
<1>14. Onward
  <2>1. /\ X \subseteq IdsAt(s, "replies", ConfigKey)
        /\ ~SamePlace("replies", ConfigKey, "outbound", ConfigKey)
        /\ "replies" \in SaidKinds /\ "outbound" \in SaidKinds
        /\ "replies" \in PlaceKinds /\ "outbound" \in PlaceKinds
    BY <1>4, <1>8 DEF IdsAt, SamePlace, SaidKinds, PlaceKinds
  <2> QED BY <1>1, <1>2, <1>9, <1>13, <2>1, MovesOnward
<1> QED BY <1>11, <1>12, <1>13, <1>14, OneAlone

\* The line at hand becomes a request that a service has.
LEMMA SentOnce ==
  ASSUME OnceInv, WireInv, WireInv', NEW s \in Sessions, Sent(s)
  PROVE  OnceInv' /\ Onward
<1>0. PICK r : r = Request(s)
  OBVIOUS
<1>1. PICK k : k = KeyOf(r.call)
  OBVIOUS
<1>2. /\ OnceAt(s) /\ WireTypeOK /\ lines[s] # <<>>
      /\ lines' = [lines EXCEPT ![s] = Tail(@)]
      /\ queue' = [queue EXCEPT ![s][k] = Append(queue[s][k], r)]
      /\ UNCHANGED <<inbound, outbound, replies, orphan, waiting, written>>
  BY <1>0, <1>1 DEF OnceInv, WireInv, Sent, ToSend, AtLine, LineDone, radio
<1>3. /\ lines[s] \in Seq(Requests) /\ r = Head(lines[s]) /\ r \in Requests
      /\ lines'[s] = Tail(lines[s])
      /\ \A t \in Sessions : t # s => lines'[t] = lines[t]
  BY <1>0, <1>2, QueueTypes DEF WireTypeOK, Request
<1>4. k \in Keys /\ r.id # 0 /\ ConfigKey \in Keys
  <2>1. r.id \in 1..MaxRequests /\ r.call \in Calls
    BY <1>3, ReplyTypes
  <2>2. r.id # 0
    BY <2>1, BridgeAssumption
  <2> QED BY <1>1, <2>1, <2>2, KeyTypes
<1>5. /\ queue[s][k] \in Seq(Requests)
      /\ queue'[s][k] = Append(queue[s][k], r)
      /\ \A t \in Sessions, l \in Keys : t # s \/ l # k => queue'[t][l] = queue[t][l]
      /\ \A t \in Sessions : t # s => queue'[t] = queue[t]
  <2>1. queue[s][k] \in Seq(Requests) /\ queue \in [Sessions -> [Keys -> Seq(Requests)]]
    BY <1>2, <1>4 DEF WireTypeOK
  <2>2. Append(queue[s][k], r) \in Seq(Requests)
    BY <1>3, <2>1, QueueTypes
  <2> QED BY <1>2, <1>4, <2>1, <2>2, PoolEntry
<1>6. /\ Distinct(lines'[s]) /\ r.id \in Ids(lines[s])
      /\ Ids(lines'[s]) \subseteq Ids(lines[s]) \ {r.id}
  <2>1. Distinct(lines[s])
    BY <1>2 DEF OnceAt, EachDistinct
  <2> QED BY <1>2, <1>3, <1>4, <2>1, TailIds
<1>7. r.id \notin Ids(queue[s][k])
  BY <1>2, <1>4, <1>6, Elsewhere DEF OnceAt
<1>8. /\ Distinct(queue'[s][k])
      /\ Ids(queue'[s][k]) \subseteq Ids(queue[s][k]) \cup {r.id}
  <2>1. Distinct(queue[s][k])
    BY <1>2, <1>4 DEF OnceAt, EachDistinct
  <2> QED BY <1>3, <1>5, <1>7, <2>1, AppendIds
<1>9. PICK X : X = {r.id}
  OBVIOUS
<1>10. Moves(s, X, "lines", ConfigKey, "queue", k)
  <2> SUFFICES ASSUME NEW u \in PlaceKinds, NEW m \in Keys
               PROVE  /\ u = "queue" /\ m = k =>
                           IdsAt(s, u, m)' \subseteq IdsAt(s, u, m) \cup X
                      /\ u = "lines" => IdsAt(s, u, m)' \subseteq IdsAt(s, u, m) \ X
                      /\ u # "lines" /\ ~(u = "queue" /\ m = k) =>
                           IdsAt(s, u, m)' \subseteq IdsAt(s, u, m)
    BY DEF Moves, SamePlace
  <2>1. CASE u = "queue"
    BY <1>5, <1>8, <1>9, <2>1 DEF IdsAt
  <2>2. CASE u # "queue"
    BY <1>2, <1>6, <1>9, <2>2 DEF IdsAt, PlaceKinds
  <2> QED BY <2>1, <2>2
<1>11. Apart(s)' /\ Awaited(s)'
  <2>1. /\ X \subseteq IdsAt(s, "lines", ConfigKey)
        /\ ~SamePlace("lines", ConfigKey, "queue", k)
        /\ "lines" \in PlaceKinds /\ "queue" \in PlaceKinds
    BY <1>6, <1>9 DEF IdsAt, SamePlace, PlaceKinds
  <2>2. Apart(s) /\ Awaited(s) /\ waiting'[s] = waiting[s]
    BY <1>2 DEF OnceAt
  <2> QED BY <1>4, <1>10, <2>1, <2>2, MovedApart
<1>12. EachDistinct(s)'
  <2>1. \A l \in Keys : Distinct(queue'[s][l])
    BY <1>2, <1>5, <1>8 DEF OnceAt, EachDistinct
  <2> QED BY <1>2, <1>6, <2>1 DEF OnceAt, EachDistinct, ChunksDistinct
<1>13. OnceAt(s)'
  BY <1>2, <1>11, <1>12 DEF OnceAt, Counted
<1>14. written <= written'
  BY <1>2 DEF WireTypeOK
<1>15. \A t \in Sessions : t # s => UNCHANGED around(t)
  BY <1>2, <1>3, <1>5 DEF around
<1>16. Onward
  <2>1. /\ X \subseteq IdsAt(s, "lines", ConfigKey)
        /\ ~SamePlace("lines", ConfigKey, "queue", k)
        /\ "lines" \in OpenKinds /\ "queue" \in OpenKinds
        /\ "lines" \in PlaceKinds /\ "queue" \in PlaceKinds
    BY <1>6, <1>9 DEF IdsAt, SamePlace, OpenKinds, PlaceKinds
  <2> QED BY <1>2, <1>4, <1>10, <1>15, <2>1, MovesOnward
<1> QED BY <1>13, <1>14, <1>15, <1>16, OneAlone

\* btd answers for the service, and what the connection carried is an orphan.
LEMMA NotSentOnce ==
  ASSUME OnceInv, WireInv, WireInv', NEW s \in Sessions, NotSent(s)
  PROVE  OnceInv' /\ Onward
<1>0. PICK r : r = Request(s)
  OBVIOUS
<1>1. PICK k : k = KeyOf(r.call)
  OBVIOUS
<1>2. /\ OnceAt(s) /\ WireTypeOK /\ lines[s] # <<>>
      /\ Say(s, r.id, "unavailable")
      /\ lines' = [lines EXCEPT ![s] = Tail(@)]
      /\ orphan' = [orphan EXCEPT ![s][k] = orphan[s][k] \o queue[s][k]]
      /\ queue' = [queue EXCEPT ![s][k] = <<>>]
      /\ UNCHANGED <<inbound, replies, waiting, written>>
  BY <1>0, <1>1 DEF OnceInv, WireInv, NotSent, ToSend, AtLine, LineDone, radio
<1>3. /\ lines[s] \in Seq(Requests) /\ r = Head(lines[s]) /\ r \in Requests
      /\ lines'[s] = Tail(lines[s])
      /\ \A t \in Sessions : t # s => lines'[t] = lines[t]
  BY <1>0, <1>2, QueueTypes DEF WireTypeOK, Request
<1>4. /\ k \in Keys /\ r.id # 0
      /\ [id |-> r.id, says |-> "unavailable"] \in Replies
  <2>1. /\ r.id \in 1..MaxRequests /\ r.call \in Calls
        /\ [id |-> r.id, says |-> "unavailable"] \in Replies
    BY <1>3, ReplyTypes
  <2>2. r.id # 0
    BY <2>1, BridgeAssumption
  <2> QED BY <1>1, <2>1, <2>2, KeyTypes
<1>5. /\ queue[s][k] \in Seq(Requests) /\ orphan[s][k] \in Seq(Requests)
      /\ queue \in [Sessions -> [Keys -> Seq(Requests)]]
      /\ orphan \in [Sessions -> [Keys -> Seq(Requests)]]
  BY <1>2, <1>4 DEF WireTypeOK
<1>6. /\ queue'[s][k] = <<>>
      /\ \A t \in Sessions, l \in Keys : t # s \/ l # k => queue'[t][l] = queue[t][l]
      /\ \A t \in Sessions : t # s => queue'[t] = queue[t]
  <2>1. <<>> \in Seq(Requests)
    OBVIOUS
  <2> QED BY <1>2, <1>4, <1>5, <2>1, PoolEntry
<1>7. /\ orphan'[s][k] = orphan[s][k] \o queue[s][k]
      /\ \A t \in Sessions, l \in Keys : t # s \/ l # k => orphan'[t][l] = orphan[t][l]
      /\ \A t \in Sessions : t # s => orphan'[t] = orphan[t]
  <2>1. PICK v : v = orphan[s][k] \o queue[s][k]
    OBVIOUS
  <2>2. v \in Seq(Requests)
    BY <1>5, <2>1
  <2>3. orphan' = [orphan EXCEPT ![s][k] = v]
    BY <1>2, <2>1
  <2>4. /\ orphan'[s][k] = v
        /\ \A t \in Sessions, l \in Keys : t # s \/ l # k => orphan'[t][l] = orphan[t][l]
        /\ \A t \in Sessions : t # s => orphan'[t] = orphan[t]
    BY <1>4, <1>5, <2>2, <2>3, PoolEntry
  <2> QED BY <2>1, <2>4
<1>8. /\ Distinct(lines'[s]) /\ r.id \in Ids(lines[s])
      /\ Ids(lines'[s]) \subseteq Ids(lines[s]) \ {r.id}
  <2>1. Distinct(lines[s])
    BY <1>2 DEF OnceAt, EachDistinct
  <2> QED BY <1>2, <1>3, <1>4, <2>1, TailIds
<1>9. /\ Distinct(outbound'[s]) /\ Named(outbound'[s])
      /\ Ids(outbound'[s]) \subseteq Ids(outbound[s]) \cup {r.id}
      /\ \A t \in Sessions : t # s => outbound'[t] = outbound[t]
  <2>1. r.id \notin Ids(outbound[s])
    BY <1>2, <1>4, <1>8, Elsewhere DEF OnceAt
  <2> QED BY <1>2, <1>4, <2>1, SaysOnce
<1>10. /\ Distinct(orphan'[s][k])
       /\ Ids(orphan'[s][k]) \subseteq Ids(orphan[s][k]) \cup Ids(queue[s][k])
  <2>1. /\ Distinct(orphan[s][k]) /\ Distinct(queue[s][k])
        /\ Ids(orphan[s][k]) \cap Ids(queue[s][k]) = {}
    <3>1. Distinct(orphan[s][k]) /\ Distinct(queue[s][k]) /\ Apart(s)
      BY <1>2, <1>4 DEF OnceAt, EachDistinct
    <3>2. Ids(queue[s][k]) \cap Ids(orphan[s][k]) = {}
      BY <1>4, <3>1, Elsewhere
    <3> QED BY <3>1, <3>2
  <2> QED BY <1>5, <1>7, <2>1, ConcatIds
<1>11. Ids(queue'[s][k]) = {} /\ Distinct(queue'[s][k])
  BY <1>6 DEF Ids, Distinct
\* Where what is now at u, m was before.
<1>12. ASSUME NEW u \in PlaceKinds, NEW m \in Keys, NEW x \in IdsAt(s, u, m)'
       PROVE  \/ x \in IdsAt(s, u, m) /\ ~(u = "queue" /\ m = k)
                   /\ ~(u = "lines" /\ x = r.id)
              \/ u = "outbound" /\ x = r.id /\ x \in IdsAt(s, "lines", k)
              \/ u = "orphan" /\ m = k /\ x \in IdsAt(s, "queue", k)
  <2>1. CASE u = "queue"
    BY <1>4, <1>6, <1>11, <1>12, <2>1 DEF IdsAt
  <2>2. CASE u = "orphan"
    BY <1>4, <1>7, <1>10, <1>12, <2>2 DEF IdsAt
  <2>3. CASE u \in {"inbound", "replies"}
    BY <1>2, <1>12, <2>3 DEF IdsAt
  <2>4. CASE u \in {"lines", "outbound"}
    BY <1>8, <1>9, <1>12, <2>4 DEF IdsAt
  <2> QED BY <2>1, <2>2, <2>3, <2>4 DEF PlaceKinds
<1>13. Apart(s)'
  <2> SUFFICES ASSUME NEW a \in PlaceKinds, NEW b \in PlaceKinds, NEW m \in Keys,
                      NEW n \in Keys, ~SamePlace(a, m, b, n), NEW x,
                      x \in IdsAt(s, a, m)', x \in IdsAt(s, b, n)'
               PROVE  FALSE
    BY DEF Apart
  <2>1. \A v, w \in PlaceKinds, o, p \in Keys :
          x \in IdsAt(s, v, o) /\ x \in IdsAt(s, w, p) => SamePlace(v, o, w, p)
    BY <1>2 DEF OnceAt, Apart
  <2>2. "lines" \in PlaceKinds /\ "queue" \in PlaceKinds
    BY DEF PlaceKinds
  <2>3. \/ x \in IdsAt(s, a, m) /\ ~(a = "queue" /\ m = k) /\ ~(a = "lines" /\ x = r.id)
        \/ a = "outbound" /\ x = r.id /\ x \in IdsAt(s, "lines", k)
        \/ a = "orphan" /\ m = k /\ x \in IdsAt(s, "queue", k)
    BY <1>12
  <2>4. \/ x \in IdsAt(s, b, n) /\ ~(b = "queue" /\ n = k) /\ ~(b = "lines" /\ x = r.id)
        \/ b = "outbound" /\ x = r.id /\ x \in IdsAt(s, "lines", k)
        \/ b = "orphan" /\ n = k /\ x \in IdsAt(s, "queue", k)
    BY <1>12
  <2> QED BY <1>4, <2>1, <2>2, <2>3, <2>4 DEF SamePlace
<1>14. Awaited(s)'
  <2>1. \A u \in PlaceKinds, m \in Keys : \A x \in IdsAt(s, u, m)' :
          \E v \in PlaceKinds, l \in Keys : x \in IdsAt(s, v, l)
    BY <1>4, <1>12 DEF PlaceKinds
  <2> QED BY <1>2, <2>1 DEF OnceAt, Awaited
<1>15. EachDistinct(s)'
  <2>1. \A l \in Keys : Distinct(queue'[s][l]) /\ Distinct(orphan'[s][l])
    BY <1>2, <1>6, <1>7, <1>10, <1>11 DEF OnceAt, EachDistinct
  <2> QED BY <1>2, <1>8, <1>9, <2>1 DEF OnceAt, EachDistinct, ChunksDistinct
<1>16. OnceAt(s)'
  BY <1>2, <1>9, <1>13, <1>14, <1>15 DEF OnceAt, Counted
<1>17. written <= written'
  BY <1>2 DEF WireTypeOK
<1>18. \A t \in Sessions : t # s => UNCHANGED around(t)
  BY <1>2, <1>3, <1>6, <1>7, <1>9 DEF around
<1>19. Onward
  <2>1. r.id \in OpenIds(s)
    BY <1>8 DEF OpenIds
  <2>2. "lines" \in PlaceKinds /\ \A o \in Keys : r.id \in IdsAt(s, "lines", o)
    BY <1>8 DEF IdsAt, PlaceKinds
  <2>3. \A u \in PlaceKinds, m \in Keys : r.id \in IdsAt(s, u, m) => u = "lines"
    BY <1>2, <2>2 DEF OnceAt, Apart, SamePlace
  <2>4. OpenIds(s)' \subseteq OpenIds(s) \ {r.id}
    <3> SUFFICES ASSUME NEW x \in OpenIds(s)' PROVE x \in OpenIds(s) /\ x # r.id
      OBVIOUS
    <3>1. PICK u \in OpenKinds, m \in Keys : x \in IdsAt(s, u, m)'
      BY WhereaboutsAfter
    <3>2. \/ x \in IdsAt(s, u, m) /\ ~(u = "lines" /\ x = r.id)
          \/ x \in IdsAt(s, "queue", k)
      BY <1>12, <3>1 DEF OpenKinds, PlaceKinds
    <3>3. "queue" \in OpenKinds /\ "queue" \in PlaceKinds /\ u \in PlaceKinds
      BY DEF OpenKinds, PlaceKinds
    <3> QED BY <1>4, <2>3, <3>2, <3>3, Whereabouts
  <2>5. SaidIds(s)' \subseteq SaidIds(s) \cup {r.id}
    BY <1>2, <1>9 DEF SaidIds
  <2> QED BY <1>2, <1>18, <2>1, <2>4, <2>5, AnswerOnward
<1> QED BY <1>16, <1>17, <1>18, <1>19, OneAlone

\* A service answers the oldest request it has on a connection, which may be one
\* that the session has given up.
LEMMA ServedOnce ==
  ASSUME OnceInv, WireInv, WireInv', NEW s \in Sessions, NEW k \in Keys,
         NEW which \in {"queue", "orphan"}, NEW q,
         which = "queue" => /\ q = queue[s][k] /\ UNCHANGED orphan
                            /\ queue' = [queue EXCEPT ![s][k] = Tail(q)],
         which = "orphan" => /\ q = orphan[s][k] /\ UNCHANGED queue
                             /\ orphan' = [orphan EXCEPT ![s][k] = Tail(q)],
         q # <<>>, Deliver(s, Head(q).id, "served"),
         UNCHANGED <<inbound, lines, outbound, waiting, written>>
  PROVE  OnceInv' /\ Onward
<1>0. PICK n : n = Head(q).id
  OBVIOUS
<1>1. /\ OnceAt(s) /\ WireTypeOK /\ q \in Seq(Requests)
      /\ queue \in [Sessions -> [Keys -> Seq(Requests)]]
      /\ orphan \in [Sessions -> [Keys -> Seq(Requests)]]
  BY DEF OnceInv, WireInv, WireTypeOK
<1>2. /\ Head(q) \in Requests /\ Tail(q) \in Seq(Requests)
      /\ n # 0 /\ [id |-> n, says |-> "served"] \in Replies
  <2>1. Head(q) \in Requests /\ Tail(q) \in Seq(Requests)
    BY <1>1, QueueTypes
  <2>2. n \in 1..MaxRequests /\ [id |-> n, says |-> "served"] \in Replies
    BY <1>0, <2>1, ReplyTypes
  <2> QED BY <2>1, <2>2, BridgeAssumption
<1>3. /\ Distinct(q) /\ IdsAt(s, which, k) = Ids(q)
      /\ Ids(q) \cap Ids(replies[s]) = {}
  <2>1. CASE which = "queue"
    BY <1>1, <2>1, Elsewhere DEF OnceAt, EachDistinct, IdsAt
  <2>2. CASE which = "orphan"
    BY <1>1, <2>2, Elsewhere DEF OnceAt, EachDistinct, IdsAt
  <2> QED BY <2>1, <2>2
<1>4. /\ Distinct(Tail(q)) /\ n \in Ids(q) /\ Ids(Tail(q)) \subseteq Ids(q) \ {n}
  BY <1>0, <1>1, <1>2, <1>3, TailIds
<1>5. /\ Distinct(replies'[s]) /\ Named(replies'[s])
      /\ Ids(replies'[s]) \subseteq Ids(replies[s]) \cup {n}
      /\ \A t \in Sessions : t # s => replies'[t] = replies[t]
  <2>1. n \notin Ids(replies[s]) /\ Deliver(s, n, "served")
    BY <1>0, <1>3, <1>4
  <2> QED BY <1>1, <1>2, <2>1, DeliversOnce
<1>6. /\ \A t \in Sessions : t # s => queue'[t] = queue[t] /\ orphan'[t] = orphan[t]
      /\ \A l \in Keys : /\ \/ queue'[s][l] = queue[s][l]
                            \/ l = k /\ which = "queue" /\ queue'[s][l] = Tail(q)
                         /\ \/ orphan'[s][l] = orphan[s][l]
                            \/ l = k /\ which = "orphan" /\ orphan'[s][l] = Tail(q)
      /\ which = "queue" => queue'[s][k] = Tail(q)
      /\ which = "orphan" => orphan'[s][k] = Tail(q)
  <2>1. CASE which = "queue"
    <3>1. queue' = [queue EXCEPT ![s][k] = Tail(q)] /\ orphan' = orphan
      BY <2>1
    <3>2. /\ queue'[s][k] = Tail(q)
          /\ \A t \in Sessions, l \in Keys : t # s \/ l # k => queue'[t][l] = queue[t][l]
          /\ \A t \in Sessions : t # s => queue'[t] = queue[t]
      BY <1>1, <1>2, <3>1, PoolEntry
    <3> QED BY <2>1, <3>1, <3>2
  <2>2. CASE which = "orphan"
    <3>1. orphan' = [orphan EXCEPT ![s][k] = Tail(q)] /\ queue' = queue
      BY <2>2
    <3>2. /\ orphan'[s][k] = Tail(q)
          /\ \A t \in Sessions, l \in Keys : t # s \/ l # k => orphan'[t][l] = orphan[t][l]
          /\ \A t \in Sessions : t # s => orphan'[t] = orphan[t]
      BY <1>1, <1>2, <3>1, PoolEntry
    <3> QED BY <2>2, <3>1, <3>2
  <2> QED BY <2>1, <2>2
<1>7. PICK X : X = {n}
  OBVIOUS
<1>8. Moves(s, X, which, k, "replies", k)
  <2> SUFFICES ASSUME NEW u \in PlaceKinds, NEW m \in Keys
               PROVE  /\ u = "replies" => IdsAt(s, u, m)' \subseteq IdsAt(s, u, m) \cup X
                      /\ u = which /\ m = k =>
                           IdsAt(s, u, m)' \subseteq IdsAt(s, u, m) \ X
                      /\ u # "replies" /\ ~(u = which /\ m = k) =>
                           IdsAt(s, u, m)' \subseteq IdsAt(s, u, m)
    BY DEF Moves, SamePlace
  <2>1. CASE u = "queue"
    BY <1>3, <1>4, <1>6, <1>7, <2>1 DEF IdsAt
  <2>2. CASE u = "orphan"
    BY <1>3, <1>4, <1>6, <1>7, <2>2 DEF IdsAt
  <2>3. CASE u = "replies"
    BY <1>5, <1>7, <2>3 DEF IdsAt
  <2>4. CASE u \in {"inbound", "lines", "outbound"}
    BY <2>4 DEF IdsAt
  <2> QED BY <2>1, <2>2, <2>3, <2>4 DEF PlaceKinds
<1>9. Apart(s)' /\ Awaited(s)'
  <2>1. /\ X \subseteq IdsAt(s, which, k) /\ ~SamePlace(which, k, "replies", k)
        /\ which \in PlaceKinds /\ "replies" \in PlaceKinds
    BY <1>3, <1>4, <1>7 DEF SamePlace, PlaceKinds
  <2>2. Apart(s) /\ Awaited(s) /\ waiting'[s] = waiting[s]
    BY <1>1 DEF OnceAt
  <2> QED BY <1>8, <2>1, <2>2, MovedApart
<1>10. EachDistinct(s)'
  <2>1. \A l \in Keys : Distinct(queue'[s][l]) /\ Distinct(orphan'[s][l])
    BY <1>1, <1>4, <1>6 DEF OnceAt, EachDistinct
  <2> QED BY <1>1, <1>5, <2>1 DEF OnceAt, EachDistinct, ChunksDistinct
<1>11. OnceAt(s)'
  BY <1>1, <1>5, <1>9, <1>10 DEF OnceAt, Counted
<1>12. written <= written'
  BY <1>1 DEF WireTypeOK
<1>13. \A t \in Sessions : t # s => UNCHANGED around(t)
  BY <1>5, <1>6 DEF around
<1>14. Onward
  <2>1. /\ X \subseteq IdsAt(s, which, k) /\ ~SamePlace(which, k, "replies", k)
        /\ which \in OpenKinds /\ "replies" \in SaidKinds
        /\ which \in PlaceKinds /\ "replies" \in PlaceKinds
        /\ \E x : X = {x}
    BY <1>3, <1>4, <1>7 DEF SamePlace, OpenKinds, SaidKinds, PlaceKinds
  <2> QED BY <1>8, <1>13, <2>1, MovesOnward
<1> QED BY <1>11, <1>12, <1>13, <1>14, OneAlone

\* Progress is about no request.
LEMMA ProgressOnce ==
  ASSUME OnceInv, WireInv, WireInv', NEW s \in Sessions, Progress(s)
  PROVE  OnceInv' /\ Onward
<1>1. /\ OnceAt(s) /\ WireTypeOK /\ Deliver(s, 0, "progress")
      /\ UNCHANGED <<inbound, lines, outbound, queue, orphan, waiting, written>>
  BY DEF OnceInv, WireInv, Progress, radio, pool
<1>2. /\ Distinct(replies'[s]) /\ Named(replies'[s])
      /\ Ids(replies'[s]) \subseteq Ids(replies[s])
      /\ \A t \in Sessions : t # s => replies'[t] = replies[t]
  <2>1. 0 \notin Ids(replies[s])
    BY DEF Ids
  <2>2. /\ Distinct(replies'[s]) /\ Named(replies'[s])
        /\ Ids(replies'[s]) \subseteq Ids(replies[s]) \cup ({0} \ {0})
        /\ \A t \in Sessions : t # s => replies'[t] = replies[t]
    BY <1>1, <2>1, ReplyTypes, DeliversOnce
  <2> QED BY <2>2
<1>3. \A w \in PlaceKinds, k \in Keys : IdsAt(s, w, k)' \subseteq IdsAt(s, w, k)
  BY <1>1, <1>2 DEF IdsAt, PlaceKinds
<1>4. Apart(s)' /\ Awaited(s)'
  BY <1>1, <1>3, FewerApart DEF OnceAt
<1>5. OnceAt(s)'
  BY <1>1, <1>2, <1>4 DEF OnceAt, EachDistinct, ChunksDistinct, Counted
<1>6. written <= written'
  BY <1>1 DEF WireTypeOK
<1>7. \A t \in Sessions : t # s => UNCHANGED around(t)
  BY <1>1, <1>2 DEF around
<1>8. Onward
  <2>1. \A t \in Sessions : t # s => OpenIds(t)' = OpenIds(t) /\ SaidIds(t)' = SaidIds(t)
    BY <1>7, StaysPut
  <2>2. OpenIds(s)' \subseteq OpenIds(s) /\ SaidIds(s)' \subseteq SaidIds(s)
    BY <1>3, Whereabouts, WhereaboutsAfter DEF OpenKinds, SaidKinds, PlaceKinds
  <2> QED BY <1>1, <2>1, <2>2, LoseOnward
<1> QED BY <1>5, <1>6, <1>7, <1>8, OneAlone

\* A service that dies, and a session that ends, only take requests away.
LEMMA GoneOnce ==
  ASSUME OnceInv, WireInv, WireInv',
         \/ \E s \in Sessions : TaskOver(s)
         \/ \E u \in Services : Die(u)
  PROVE  OnceInv' /\ Onward
<1>0. WireTypeOK
  BY DEF WireInv
<1>1. ASSUME NEW s \in Sessions, TaskOver(s) PROVE OnceInv' /\ Onward
  <2>1. /\ inbound' = [inbound EXCEPT ![s] = <<>>] /\ lines' = [lines EXCEPT ![s] = <<>>]
        /\ replies' = [replies EXCEPT ![s] = <<>>]
        /\ outbound' = [outbound EXCEPT ![s] = <<>>]
        /\ UNCHANGED <<queue, orphan, waiting, written>>
    BY <1>1 DEF TaskOver, Leaves
  <2>2. \A t \in Sessions :
          /\ inbound'[t] \in {inbound[t], <<>>} /\ lines'[t] \in {lines[t], <<>>}
          /\ outbound'[t] \in {outbound[t], <<>>} /\ replies'[t] \in {replies[t], <<>>}
    BY <1>0, <2>1 DEF WireTypeOK
  <2> QED BY <2>1, <2>2, FewerOnce
<1>2. ASSUME NEW u \in Services, Die(u) PROVE OnceInv' /\ Onward
  <2>1. /\ queue' = [s \in Sessions |-> [k \in Keys |->
             IF k[1] = u THEN <<>> ELSE queue[s][k]]]
        /\ orphan' = [s \in Sessions |-> [k \in Keys |->
             IF k[1] = u THEN <<>> ELSE orphan[s][k]]]
        /\ UNCHANGED <<inbound, lines, outbound, replies, waiting, written>>
    BY <1>2 DEF Die, radio
  <2>2. \A t \in Sessions, k \in Keys : /\ queue'[t][k] \in {queue[t][k], <<>>}
                                        /\ orphan'[t][k] \in {orphan[t][k], <<>>}
    BY <2>1
  <2> QED BY <2>1, <2>2, FewerOnce
<1> QED BY <1>1, <1>2

\* What a session does with its line, other than giving it to a service.
LEMMA OwnLineOnce ==
  ASSUME IInv, OnceInv, WireInv, WireInv', NEW s \in Sessions,
         \/ Deny(s) \/ AskPin(s) \/ PinAnswered(s) \/ PinUnknown(s) \/ Admit(s)
         \/ WrongPin(s)
  PROVE  OnceInv' /\ Onward
<1>0. /\ WireTypeOK /\ NoPin \notin Pins /\ NoPin # Waiting /\ NoPin # Failed
      /\ asked[s] # NoPin => lines[s] # <<>>
  BY BridgeAssumption DEF IInv, GateInv, WireInv, LineAtHand
<1>1. CASE AskPin(s) \/ PinAnswered(s)
  <2>1. UNCHANGED <<inbound, lines, outbound, replies, pool, waiting, written>>
    BY <1>1 DEF AskPin, PinAnswered, radio
  <2> QED BY <2>1, QuietOnce
<1>2. CASE Deny(s) \/ PinUnknown(s) \/ Admit(s)
  <2>1. /\ lines[s] # <<>> /\ LineDone(s)
        /\ \E what \in {"denied", "refused", "right", "unavailable"} :
             Say(s, Request(s).id, what)
        /\ UNCHANGED <<inbound, replies, queue, orphan, waiting, written>>
    BY <1>0, <1>2 DEF Deny, PinUnknown, Admit, AtLine, radio, pool
  <2>2. /\ lines'[s] = Tail(lines[s])
        /\ \A t \in Sessions : t # s => lines'[t] = lines[t]
    BY <1>0, <2>1 DEF LineDone, WireTypeOK
  <2>3. PICK what \in {"denied", "refused", "right", "unavailable"} :
          Say(s, Request(s).id, what)
    BY <2>1
  <2> QED BY <2>1, <2>2, <2>3, LineSaidOnce
<1>3. CASE WrongPin(s)
  <2>1. /\ lines[s] # <<>> /\ Say(s, Request(s).id, "wrong")
        /\ UNCHANGED <<queue, orphan, waiting, written>>
        /\ \/ Leaves(s)
           \/ LineDone(s) /\ UNCHANGED <<inbound, replies>>
    BY <1>0, <1>3 DEF WrongPin
  <2>2. /\ lines'[s] \in {Tail(lines[s]), <<>>} /\ inbound'[s] \in {inbound[s], <<>>}
        /\ replies'[s] \in {replies[s], <<>>}
        /\ \A t \in Sessions : t # s => /\ lines'[t] = lines[t]
                                        /\ inbound'[t] = inbound[t]
                                        /\ replies'[t] = replies[t]
    BY <1>0, <2>1 DEF LineDone, Leaves, WireTypeOK
  <2> QED BY <2>1, <2>2, LineSaidOnce
<1> QED BY <1>1, <1>2, <1>3

\* The services answer.
LEMMA ServiceOnce ==
  ASSUME OnceInv, WireInv, WireInv', NEW s \in Sessions,
         \/ \E k \in Keys : Serve(s, k) \/ ServeOrphan(s, k)
         \/ Renamed(s)
  PROVE  OnceInv' /\ Onward
<1>1. ASSUME NEW k \in Keys, Serve(s, k) PROVE OnceInv' /\ Onward
  <2>1. PICK q : q = queue[s][k]
    OBVIOUS
  <2>2. /\ q # <<>> /\ Deliver(s, Head(q).id, "served") /\ q = queue[s][k]
        /\ UNCHANGED orphan /\ queue' = [queue EXCEPT ![s][k] = Tail(q)]
        /\ UNCHANGED <<inbound, lines, outbound, waiting, written>>
    BY <1>1, <2>1 DEF Serve, radio
  <2> QED BY <2>2, ServedOnce
<1>2. ASSUME NEW k \in Keys, ServeOrphan(s, k) PROVE OnceInv' /\ Onward
  <2>1. PICK q : q = orphan[s][k]
    OBVIOUS
  <2>2. /\ q # <<>> /\ Deliver(s, Head(q).id, "served") /\ q = orphan[s][k]
        /\ UNCHANGED queue /\ orphan' = [orphan EXCEPT ![s][k] = Tail(q)]
        /\ UNCHANGED <<inbound, lines, outbound, waiting, written>>
    BY <1>2, <2>1 DEF ServeOrphan, radio
  <2> QED BY <2>2, ServedOnce
<1>3. CASE Renamed(s)
  <2>1. PICK q : q = queue[s][ConfigKey]
    OBVIOUS
  <2>2. /\ stage[s] = "renamed" /\ Deliver(s, Head(q).id, "served")
        /\ UNCHANGED orphan /\ queue' = [queue EXCEPT ![s][ConfigKey] = Tail(q)]
        /\ UNCHANGED <<inbound, lines, outbound, waiting, written>>
    BY <1>3, <2>1 DEF Renamed, WriteDone, radio
  <2>3. q # <<>> /\ ConfigKey \in Keys
    BY <2>1, <2>2 DEF WireInv, RenameAtHand, ConfigKey, Keys
  <2> QED BY <2>1, <2>2, <2>3, ServedOnce
<1> QED BY <1>1, <1>2, <1>3

LEMMA NextKeepsOnce ==
  IInv /\ WireInv /\ WireInv' /\ OnceInv /\ [BridgeNext]_allVars =>
    OnceInv' /\ Onward
<1> SUFFICES ASSUME IInv, WireInv, WireInv', OnceInv, [BridgeNext]_allVars PROVE OnceInv' /\ Onward
  OBVIOUS
<1> DEFINE quiet ==
      UNCHANGED <<inbound, lines, outbound, replies, pool, waiting, written>>
<1>1. quiet => OnceInv' /\ Onward
  BY QuietOnce
<1>2. CASE UNCHANGED allVars
  BY <1>1, <1>2 DEF allVars, vars, radio
<1>3. ASSUME NEW s \in Sessions, Session(s) PROVE OnceInv' /\ Onward
  BY <1>3, TakeOnce, PassOnce, OwnLineOnce, SentOnce, NotSentOnce
    DEF Session, Dispatch, Authenticate
<1>4. CASE Subscribe \/ \E s \in Sessions : Unsubscribe(s)
  BY <1>1, <1>4 DEF Subscribe, Unsubscribe
<1>5. CASE \/ ChangePin \/ PinChanged
           \/ \E s \in Sessions : Renaming(s)
           \/ \E w \in Writers : WriteConfig(w)
           \/ \E u \in Services : Rise(u)
  BY <1>1, <1>5 DEF ChangePin, PinChanged, Renaming, WriteConfig, Rise, radio
<1>6. CASE BridgeNext
  BY <1>3, <1>4, <1>5, <1>6, WriteOnce, HearOnce, GoneOnce, ServiceOnce, ProgressOnce
    DEF BridgeNext, Next
<1> QED BY <1>2, <1>6

LEMMA InitOnce == BridgeInit => OnceInv
<1> SUFFICES ASSUME BridgeInit, NEW s \in Sessions PROVE OnceAt(s)
  BY DEF OnceInv
<1>1. /\ inbound[s] = <<>> /\ lines[s] = <<>> /\ outbound[s] = <<>> /\ replies[s] = <<>>
      /\ waiting[s] = {}
      /\ \A k \in Keys : queue[s][k] = <<>> /\ orphan[s][k] = <<>>
  BY DEF BridgeInit, Init
<1>2. DOMAIN <<>> = {} /\ Ids(<<>>) = {} /\ Distinct(<<>>) /\ Named(<<>>)
  BY DEF Ids, Distinct, Named
<1>3. \A w \in PlaceKinds, k \in Keys : IdsAt(s, w, k) = {}
  <2> SUFFICES ASSUME NEW w \in PlaceKinds, NEW k \in Keys PROVE IdsAt(s, w, k) = {}
    OBVIOUS
  <2>1. CASE w = "inbound"
    BY <1>1, <1>2, <2>1 DEF IdsAt
  <2>2. CASE w # "inbound"
    BY <1>1, <1>2, <2>2 DEF IdsAt, PlaceKinds
  <2> QED BY <2>1, <2>2
<1>4. Apart(s) /\ Awaited(s) /\ Counted(s)
  BY <1>1, <1>3 DEF Apart, Awaited, Counted
<1>5. EachDistinct(s)
  BY <1>1, <1>2 DEF EachDistinct, ChunksDistinct
<1> QED BY <1>1, <1>2, <1>4, <1>5 DEF OnceAt

LEMMA OnceInvHolds == BridgeSpec => []OnceInv
<1>1. WireInv /\ WireInv' /\ IInv /\ OnceInv /\ [BridgeNext]_allVars => OnceInv'
  BY NextKeepsOnce
<1> QED BY <1>1, InitOnce, GateInvariant, WireInvHolds, PTL DEF BridgeSpec

\* The answers on their way to a central are to different requests of its own
\* that it still waits for: no request is answered twice, whatever the session
\* gave up, whatever died and whatever the queues dropped (session.rs dispatch,
\* upstream.rs Pool.send and the readers).
THEOREM AnswersGoOnce == BridgeSpec => []AnsweredOnce
<1>1. WireInv /\ OnceInv => AnsweredOnce
  <2> SUFFICES ASSUME WireInv, OnceInv, NEW s \in Sessions,
                      NEW i \in DOMAIN InFlight(s), InFlight(s)[i].says # "progress"
               PROVE  /\ \E r \in waiting[s] : r.id = InFlight(s)[i].id
                      /\ \A j \in DOMAIN InFlight(s) :
                           /\ InFlight(s)[j].says # "progress"
                           /\ InFlight(s)[j].id = InFlight(s)[i].id
                           => i = j
    BY DEF AnsweredOnce
  <2>1. PICK o, p : o = outbound[s] /\ p = replies[s]
    OBVIOUS
  <2>2. /\ o \in Seq(Replies) /\ p \in Seq(Replies) /\ OnceAt(s)
        /\ InFlight(s) = o \o p
    BY <2>1 DEF WireInv, WireTypeOK, OnceInv, InFlight
  <2>3. /\ Named(o) /\ Named(p) /\ Distinct(o) /\ Distinct(p)
        /\ Ids(o) \cap Ids(p) = {}
    <3>1. /\ Named(o) /\ Named(p) /\ Distinct(o) /\ Distinct(p) /\ Apart(s)
          /\ ConfigKey \in Keys
      BY <2>1, <2>2 DEF OnceAt, EachDistinct, ConfigKey, Keys
    <3>2. Ids(p) \cap Ids(o) = {}
      BY <2>1, <3>1, Elsewhere
    <3> QED BY <3>1, <3>2
  <2>4. \A k \in DOMAIN (o \o p) :
          \/ k \in DOMAIN o /\ (o \o p)[k] = o[k]
          \/ \E l \in DOMAIN p : (o \o p)[k] = p[l]
    BY <2>2
  <2>5. \A k \in DOMAIN InFlight(s) : InFlight(s)[k].says # "progress" =>
          InFlight(s)[k].id # 0 /\ InFlight(s)[k].id \in Ids(o) \cup Ids(p)
    BY <2>2, <2>3, <2>4 DEF Named, Ids
  <2>6. Distinct(InFlight(s))
    BY <2>2, <2>3, ConcatIds
  <2>7. \A n \in Ids(o) \cup Ids(p) : \E r \in waiting[s] : r.id = n
    <3>1. "outbound" \in PlaceKinds /\ "replies" \in PlaceKinds /\ ConfigKey \in Keys
      BY DEF PlaceKinds, ConfigKey, Keys
    <3>2. /\ Ids(o) = IdsAt(s, "outbound", ConfigKey)
          /\ Ids(p) = IdsAt(s, "replies", ConfigKey)
      BY <2>1 DEF IdsAt
    <3> QED BY <2>2, <3>1, <3>2 DEF OnceAt, Awaited
  <2> QED BY <2>5, <2>6, <2>7 DEF Distinct
<1> QED BY <1>1, WireInvHolds, OnceInvHolds, PTL

\* The bridge implements the ledger: whatever a session, a service or a reader
\* does, a request is answered to who asked, or lost, once and for good
\* (session.rs dispatch, upstream.rs Pool.send and the readers).
THEOREM BridgeImplementsLedger == BridgeSpec => ImplementsLedger
<1>1. BridgeInit => Kept!LedgerInit
  <2> SUFFICES ASSUME BridgeInit PROVE Kept!LedgerInit
    OBVIOUS
  <2>1. \A s \in Sessions :
          /\ inbound[s] = <<>> /\ lines[s] = <<>> /\ outbound[s] = <<>>
          /\ replies[s] = <<>> /\ waiting[s] = {}
          /\ \A k \in Keys : queue[s][k] = <<>> /\ orphan[s][k] = <<>>
    BY DEF BridgeInit, Init
  <2>2. DOMAIN <<>> = {} /\ Ids(<<>>) = {}
    BY DEF Ids
  <2>3. \A s \in Sessions : ChunkIds(s) = {} /\ PoolIds(s) = {}
    BY <2>1, <2>2 DEF ChunkIds, PoolIds
  <2>4. \A s \in Sessions : OpenIds(s) = {} /\ SaidIds(s) = {} /\ WantedIds(s) = {}
    BY <2>1, <2>2, <2>3 DEF OpenIds, SaidIds, WantedIds
  <2>5. written = 0
    BY DEF BridgeInit, Init
  <2> QED BY <2>4, <2>5 DEF Kept!LedgerInit
<1>2. WireInv /\ WireInv' /\ IInv /\ OnceInv /\ [BridgeNext]_allVars
        => [Kept!LedgerNext]_(Kept!ledger)
  BY NextKeepsOnce DEF Onward
<1> QED
  BY <1>1, <1>2, GateInvariant, WireInvHolds, OnceInvHolds, PTL
    DEF BridgeSpec, ImplementsLedger, Kept!LedgerSpec
=============================================================================
