------------------------------ MODULE ConfigStore ------------------------------
(***************************************************************************)
(* configd's config store (configd/src/store.rs): one file with the        *)
(* robot's name and its pairing PIN.  A change reads the whole file, and   *)
(* only then takes the lock, writes what it read with its one field        *)
(* changed to a temporary file, renames that over the old one and fsyncs   *)
(* the directory.  The lock goes when write() returns.                     *)
(*                                                                         *)
(* A writer is a connection to configd: each is served by a task of its    *)
(* own, so two changes run side by side (configd/src/main.rs, serve).      *)
(***************************************************************************)
EXTENDS Naturals

CONSTANTS
    Writers,      \* the connections that change the file
    NoWriter,     \* nobody holds the lock
    Names,        \* names the robot is given
    FallbackName, \* the one it has before that
    Pins,         \* PINs of six digits, the factory one among them
    FactoryPin

ASSUME StoreAssumption == FactoryPin \in Pins /\ NoWriter \notin Writers

VARIABLES
    file,    \* the config file
    flock,   \* who holds the lock file
    stage,   \* how far a writer's change has come
    edited   \* the config it is going to write

storeVars == <<file, flock, stage, edited>>

Configs == [name : Names \cup {FallbackName}, pin : Pins]

StoreTypeOK ==
    /\ file \in Configs
    /\ flock \in Writers \cup {NoWriter}
    /\ stage \in [Writers -> {"idle", "edited", "locked", "renamed"}]
    /\ edited \in [Writers -> Configs]

Unprovisioned == [name |-> FallbackName, pin |-> FactoryPin]

StoreInit ==
    /\ file = Unprovisioned
    /\ flock = NoWriter
    /\ stage = [w \in Writers |-> "idle"]
    /\ edited = [w \in Writers |-> Unprovisioned]

(* set_name and set_pairing_pin: the file is read here, before the lock.   *)
Edit(w, config) ==
    /\ stage[w] = "idle"
    /\ stage' = [stage EXCEPT ![w] = "edited"]
    /\ edited' = [edited EXCEPT ![w] = config]
    /\ UNCHANGED <<file, flock>>

SetName(w, n) == Edit(w, [file EXCEPT !.name = n])
SetPairingPin(w, p) == Edit(w, [file EXCEPT !.pin = p])

\* write(): flock, temporary file, rename, fsync of the directory.
TakeLock(w) ==
    /\ stage[w] = "edited" /\ flock = NoWriter
    /\ flock' = w
    /\ stage' = [stage EXCEPT ![w] = "locked"]
    /\ UNCHANGED <<file, edited>>

Rename(w) ==
    /\ stage[w] = "locked"
    /\ file' = edited[w]
    /\ stage' = [stage EXCEPT ![w] = "renamed"]
    /\ UNCHANGED <<flock, edited>>

WriteDone(w) ==
    /\ stage[w] = "renamed"
    /\ flock' = NoWriter
    /\ stage' = [stage EXCEPT ![w] = "idle"]
    /\ UNCHANGED <<file, edited>>

\* configd dies: its tasks are gone, and the kernel drops the lock.
StoreDies ==
    /\ flock' = NoWriter
    /\ stage' = [w \in Writers |-> "idle"]
    /\ UNCHANGED <<file, edited>>
=============================================================================
