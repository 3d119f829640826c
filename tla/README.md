# TLA+ models of the duck's runtime

TLA+ specifications of the program in `src/runtime`, model-checked with TLC and
proved with TLAPS. The program is a set of Rust daemons on one small robot
(updaterd, robotd, btd, configd, padd, mediad) and a few shell scripts. The
project models four parts of it: the updater with the rescue net under it, which
can turn a robot into a brick; robotd's control loop, which can drop one; the
Bluetooth bridge with configd's store behind it, which decides who may command
one; and the chorale, in which several robots agree without an election. Paths
below are relative to `src/runtime` unless they start with `src/`.

Contents

1. The system: components, state, interactions, hard behaviours
2. The modules, and how they correspond to the code
3. The runs
4. Fairness
5. The proofs
6. What the models abstract
7. Where the code and its documentation disagree
8. What is not modelled, and the plan

## 1. The system

### Components

| component | state it keeps | operations | what makes it correct |
|---|---|---|---|
| **update engine** `updater/src/engine.rs` | `update.lock`, the running request | apply, rollback, reset-to-golden, select, pin, startup recovery, settling the rescue's breadcrumb | a bad release is never live without a trial to revert it; what is live is complete; a failed request's verdict names the release that failed; a request ends; startup converges |
| **release store** `updater/src/store.rs` | `releases/<version>/`, symlinks `current`, `golden` | link_to (swap, mark golden), list, prune | `current` never dangles; live, golden and the way back are never pruned |
| **update journal** `updater/src/journal.rs` | `update-log.jsonl`, `pending.json`, `pins.json`, `rescued` | append and trim, known_bad, arm, confirm, record_boot, pin | a trial is durable before the link moves; trials of two components do not disturb each other |
| **server and scheduler** `updater/src/ipc.rs` | the engine mutex, the pass under way | requests of clients; a periodic check of all components and an unattended apply | no unattended apply of a release that failed here; unattended updating settles |
| **board recovery** `scripts/robot-boot-check`, `scripts/robot-rescue` | the breadcrumb, the two links | check after boot, swap to golden, reboot | not twice on its own; what the rescue chose stands; a release whose updaterd is dead is left |
| **control loop** `robotd/src/{main,intents,control}.rs`, `duck-control` | lock-free intent slots; bring-up, limp-fall and shutdown phases; skill windows; the loaded networks | a 50 Hz tick against clients that set intents at any time | torque only for who asked; a relax is not undone; a shutdown ends; an enabled robot is driven; the updater never restarts a robot in travel |
| **chorale** `robotd/src/chorale.rs`, `sounds/src/chorale` | what each duck does, the beacons it heard, roster and beat | join, hear, conduct, follow, seat, end | one conductor; every singer a line of its own; the ensemble goes on |
| **btd** `btd/src` | one session per central, a pool of connections per service and lane, the queue of replies | subscribe, hello, authenticate, forward, reply, notify | nothing before authentication; guesses are rationed; every query answered once, to who asked |
| **configd** `configd/src` | the config file, its lock | set name and PIN, Wi-Fi, pair pads | no lost update |
| **padd**, **mediad**, **tof** | subscriptions with bounded queues; sessions; the last frame | tap, stream, poll | a stalled reader blocks nobody; stale sticks do not drive |
| **libraries, clients, tools** kinematics, odometry, audio, duck-detect, robotctl, duckctl, xtask, simulation | none, or real-valued | | numerics; out of reach of a model checker |

`PROJECT.json` lists every component with its status.

### Interactions

Clients (robotctl, the phone through btd, the web console through mediad) send
requests over Unix sockets. updaterd serves many connections but has one engine
behind a mutex, and one `update.lock` file across processes; whoever comes
second is told Busy. updaterd asks systemd to restart the other daemons, and asks
robotd whether it is healthy and whether it may be restarted now. The scheduler
is a task of updaterd and takes the mutex with `try_lock`. robot-boot-check runs
once per boot from a timer and calls robot-rescue, which takes no lock and shares
`current`, `golden`, the temporary link and the breadcrumb with updaterd.

robotd has one thread on the motor bus. Everybody else (its IPC handlers, and
through them padd, btd, mediad) writes atomics that the thread reads, several
times a tick. btd asks configd for the PIN at every attempt, over a connection of
its own, and forwards what else a central asks to the service the call belongs
to. Ducks that sing hear each other's beacons and nothing else.

### Hard behaviours

The process or the board can die between any two durable effects, and any write
can fail; a directory tree is not removed atomically. A request on a component
can come while an earlier trial of it is still armed. A verdict is read much
later, by another task, after a restart. The rescue interleaves with anything
the engine does. The scheduler decides in three separate critical sections. The
boot counter has an off-by-one to get wrong.

A tick of the control loop reads the intents at its start and takes requests at
five later points, while clients write one field at a time. Limp-fall, the ramp,
a mode switch, a scripted skill and the sit before power off each own the robot
for a while and can be entered while another runs; each waits for a deadline, a
sample or the bus, which may fail.

A Bluetooth session ends in a task that may linger after the next session has
begun; its readers outlive it. Answers share one bounded queue that drops. A
service may hold a connection for minutes or for ever. Two writers of the config
file each read it before either has the lock.

Two ducks may both find themselves the lowest; a conductor may leave and come
back between two beacons; a follower whose leader is silent must find a way out.

`PROJECT.json` lists each hazard at its line with the properties that watch it.

## 2. The modules

| module | what it is |
|---|---|
| `ReleaseStore` | the store: directories that are absent, partial or whole, the two links, prune |
| `UpdateJournal` | the log, trials, pins and breadcrumb |
| `UpdateEngine` | the engine: one action per durable effect or outside answer, crashes, startup recovery |
| `UpdateSafety` | the properties of the engine, and the refinement mapping to `ReleaseTrial` |
| `ReleaseTrial` | abstract specification: a release goes live on trial |
| `BootRecovery` | the engine composed with robot-boot-check, robot-rescue and the board's power |
| `UpdateScheduler` | the engine composed with the scheduler and the release source |
| `RobotIntents` | what clients ask of robotd, one step per store |
| `PolicyController` | the skill windows of the loaded networks, as operators |
| `ControlLoop` | the tick composed with the intents, the bus, falls and restarts |
| `ControlSafety`, `ControlLiveness` | its properties, over three histories and under fairness |
| `ConfigStore` | the config file: read, lock, rename, with several writers |
| `BridgeSession` | btd's sessions, PIN gate, pool and readers, composed with `ConfigStore` |
| `BridgeSafety` | its properties, over two histories, and the refinement mapping to `RequestLedger` |
| `RequestLedger` | abstract specification: a request is open until it is answered or lost, and heard once |
| `Chorale` | any number of ducks over a radio, and their properties |
| `MC…` | values for TLC |
| `UpdateEngineProofs`, `TrialProofs`, `ReleaseProofs`, `SchedulerProofs`, `RescueProofs`, `ControlProofs`, `BridgeProofs`, `ChoraleProofs` | theorems |

Each composing module EXTENDS the one below it and conjoins its own steps, so
there is one definition of each part: what the scheduler or the rescue runs
beside is the same `Next` the engine is checked and proved with.

### The updater

| variable | in the code |
|---|---|
| `dirs[c][v]` | `releases/<v>`: absent, cut short by an interrupted `remove_dir_all`, or whole. `is_dir()` accepts the last two |
| `current[c]`, `goldenLink[c]` | the symlinks; one rename each, atomic |
| `log` | `update-log.jsonl`, the newest `LogCapacity` entries: component, version named, outcome |
| `pending[c]` | the trial of `c` in `pending.json`: version, previous, boots |
| `pins[c]` | `pins.json` |
| `crumb` | the breadcrumb `rescued`, possibly cut short |
| `pc`, `req` | where the one running request is, and its move: kind, component, from, to. `pc = "idle"` is the mutex and `update.lock` being free; `"down"` is no process |
| `doomed`, `todo` | the rest of prune's list; the exhausted trials startup has still to settle |
| `rescue`, `checked` | the running robot-rescue; whether this boot has been checked |
| `sched`, `left`, `latest` | the scheduler's step; components left in its pass; what the source advertises |
| `attempts`, `stands`, `failed` | history variables, read by properties only |

apply is `ApplyRefused` / `ApplyAccepted`, `Stage`, `ClearRelease`,
`PublishRelease`, `Arm`, `Swap`, `GatePasses`, `Commit`, `PruneOne`…,
`RecordApplied` (`apply_inner` 644–800, `stage_and_swap` 813–1100, `record`
1507). rollback, reset-to-golden and select enter at `Arm` and have `Act`, the
restart of the units, between `Swap` and the gate (`transition_to` 1376–1490).
A failed gate goes through `SwapBack`, `Disarm`, `RecordRolledBack`
(`rollback_to` 1193–1262), or `StuckLive` when there is nothing to go back to.
Every durable step has a failing twin (`ArmFails`,
`SwapFails`, `CommitFails`, …), written after the `?` or the ignored result at
that point: an error in apply is recorded as Aborted, an error in the other
moves is only returned. A failed durable write may or may not be visible,
because the rename comes before the fsync of its directory.

Startup is `Start`, then for a breadcrumb `RecordRescue`, `ClearRescuedTrial`,
`RemoveCrumb`, then `PublishGolden`, `CountBoot` and one of `CommitTrial` /
`RevertTrial` per exhausted trial, then `Serve` (`recover_on_start` 1648–1860,
`record_rescue` 1882–1980, `main.rs` 571–640).
`Die` is possible everywhere.

The rescue is `WriteCrumb`, `RescueSwap`, `RescueSync`, `RescueReboots`, cut
short by `RescueFails` or `PowerLoss`, either of which may leave the breadcrumb
torn. The scheduler is `Wake`, `CheckBegins`,
`CheckAnswers`, `Judge`, `ApplyUnattended`, `ApplyEnds`.

### The control loop

`RobotIntents` has one variable per atomic of `SharedIntents` that asks for
something: `enabled`, `power`, `skills`, `modeSwitch`, `shutdown`. A call that
writes two of them, or reads one and writes it back (relax, toggle), is two
steps; `halfway` holds the calls in between. `mode` is the published drive mode.

`ControlLoop` cuts a tick of `control_loop` where it looks at an intent: `Read`
(bus, filter and the snapshot `snap`), `TakePower`, `TakeSkills`, `TakeMode`,
`TakeEnd` (the shutdown and its sit), `Fall`, `BringUp`, `Home`, `Drive`. `pc`
says which is next; clients come in between any two. `bringup` is limp, homing
or ready; `limpFall` idle, limp or posing; `ctl` is the controller with its skill
windows, or `None` when the networks did not load; `switching` the mode in
flight; `sample`, `coast`, `warm`, `fallen` what the tick knows of the robot;
`owner`, `moving` what it did with it and published. `torque` says whether all,
some or none of the joints are powered, which the loop never asks: `set_torque`
writes them one by one and returns at the first error (`duck-control/src/bus.rs`
195–202), and what such a write leaves is `CutShort`. `Stop` and `Start` are the
end of the process and the next one: its memory is forgotten and the joints keep
the torque they have.

### The bridge

A session is a task: `TakeChunk`, then for each line of the chunk `Deny`,
`AskPin` … `Admit` / `WrongPin`, `Sent` or `NotSent`, and `PassOn` for a line
from a service (`session.rs` 79–300). `conn`, `queue`, `orphan` are the pool,
keyed by service and lane (`KeyOf`, from `Call::destination`): a connection that
broke is given up with the requests the service has already read. `Deliver` is
the reader of a connection, which drops when the session's queue is full.
`Subscribe`, `Unsubscribe`, `TaskOver`, `slot` are the notify subscription that
owns a session (`bluez.rs` 400–500), and a task that ends late. `Die` and `Rise`
are a service's process. `Renaming` / `Renamed` and `ChangePin` / `PinChanged`
are configd's handlers, around `Edit`, `TakeLock`, `Rename`, `WriteDone` of
`ConfigStore`.

### The chorale

`duck[d]` is the state of one duck (off, listening, conducting, following, with
piece, beat, roster, leader and the beats it observed), `peers[d]` the piece in
the last beacon it heard of each other one, `listened` how long it has listened,
`unheard` the beacons that changed and were not heard yet. `Hear` is `heard`
with the follower's lock; `Tick` one of `Join`, `Conduct`, `SeatNew`,
`PerformanceEnds`, `FollowerEnds`; `UnitPasses` is time, in which a conductor's
beat may turn once. The radio (`btd/src/chorale.rs`) is an assumption: with
`Prompt` what is on the air is heard within a unit.

### Properties worth knowing

Updater

- `BadReleaseIsOnTrial`: a release on which the robot cannot get healthy is
  never live with nothing to revert it, for clients that wait for a trial to be
  settled.
- `TrialBracketsLive`: what is live is the release on trial, the one it came
  from, or golden.
- `LiveInstalled`, `LiveIsWhole`, `GoldenSurvives`, `WayBackIntact`: nothing
  that is live or can become live by recovery is missing or cut short.
- `TrialWithinBudget`: recovery settles every trial that has used its starts,
  one with nothing to go back to included.
- `VerdictSparesLive`: the log calls the live release bad in three places only:
  startup settling a rescue, startup reverting an exhausted trial, and a reset to
  golden of a component that is on golden already and fails its gate (section 7).
  Any other entry names a release that is no longer live when it is written.
- `ComponentsIsolated`, `RollbackGoesBack`, `PinHonoured`: what a request
  decided, and for whom, is what its link move does many steps later.
- `ImplementsReleaseTrial`: the engine is a refinement of `ReleaseTrial`.
- `RequestEnds`, `ServesAgain`, `BadReleaseIsLeft`: it converges.
- `RescueLoopGuard`, `RescueStands`, `DeadReleaseIsLeft`: the net under the
  engine acts, once, and is not undone.
- `UnattendedSparesKnownBad`, `UnattendedSettles`: the scheduler.

Control loop

- `TorqueOnlyWhenWanted`: joints are powered only for a client that asked this
  process and was not followed by a relax the loop carried out.
- `PoweredWhenUp`: a robot that ramps or is ready has torque at every joint,
  unless it is being powered off. The code has two ways around it, which the
  histories `unlifted` and `halfCut` excuse: a mode switch lifts a limp robot,
  and a relax that fails midway leaves the robot up with some joints cut
  (section 7). The property says that there is no third.
- `PublishedIsLoaded`: the published mode is that of the networks in charge.
- `RestartSparesTravel`: updaterd is never told to restart a robot in a ramp or
  a fall that is not down yet.
- `ShutdownEnds`, `SwitchCompletes`, `EnabledIsDriven`: every phase that owns
  the robot lets go of it.

Bridge

- `GuessesRationed`: the ration of PINs holds across chunks of several guesses.
- `AdmittedByStoredPin`: who is admitted named a PIN that was in the file while
  btd was asking.
- `AnsweredOnce`: an answer goes to the session that asked, once, whatever old
  tasks and readers are still running.
- `ImplementsLedger`: the bridge is a refinement of `RequestLedger`. What was
  answered or given up is never dealt with again, and no request is answered for
  another central.
- `NewestHoldsSlot`: a late task never unplugs the newer session.
- `QueryAnswered`: no operation or subscription silences a query.

Chorale

- `OneConductor`, `OwnLine`, `EnsembleSings`.

## 3. The runs

States are distinct states found. All runs but the two expected violations pass.
Deadlock is checked except in the bridge runs, whose centrals write a bounded
number of requests and may then be done.

| run | states | question and bounds |
|---|---|---|
| `update_crash` | 665,734 | Updates from a mirror and the staging channel, death and failed writes everywhere. Four releases so that live, the way back, golden and one to prune are four different directories; `KeepPrevious = 0` makes pruning as greedy as it can be; clients wait while a trial is armed |
| `engine_all` | 1,045,120 | Every request and target, on top of armed trials too. Three releases: golden, a good one, a bad one. Also the refinement |
| `engine_live` | 37,605 | A gated daemon and an ungated library whose first install has nothing to revert to: two components are enough for one to disturb the other. Requests end; updaterd serves again; a bad release is left. Starts with or without a breadcrumb |
| `rescue` | 42,967 | Boot checks and hand-run rescues, plain and forced, between any two steps of the engine, cut short anywhere; a release whose updaterd does not start |
| `sched` | 37,662 | The scheduler against applying, rolling back and pinning clients, a source that changes its mind, and a withdrawn factory release |
| `loop` | 2,431,991 | Clients that toggle, init, relax, switch modes and ask for a sit between any two reads of a tick; a battery that runs empty at any tick, which ends in the same sit and power-off as a shutdown; a failing bus whose torque writes stop at any joint, falls, restarts. Two modes, one of which has networks that fail to load; the robot found sitting; one request waiting at a time |
| `loop_live` | 213,127 | The same loop under fairness: enabling, mode switches between two modes that load, a shutdown, falls, restarts, a failing bus of which one bad read is coasted over |
| `bridge` | 1,271,334 | Two sessions, the second while the task of the first may linger; three requests, authenticating, updating or renaming, in chunks of up to three; a PIN changed with robotctl; queues with room for one |
| `bridge_live` | 84,610 | One session with every method, an update that may never end, a subscription that never answers, a service that dies once; also the refinement. That an answer goes to no other central takes two sessions: that is `AnsweredOnce` in `bridge`, and for the ledger the theorem |
| `chorale` | 169,455 | Three ducks, two pieces, duck 3 an older build without one of them, duck 2 told to stop and start again at any time |
| `f_unattended_loop`, `f_lost_pin` | | two of the disagreements of section 7 |

Bounds of the updater, all named constants: `Components`, `Versions`,
`KeepPrevious`, `LogCapacity` (200 in the code; 1 to 3 here, which makes eviction
happen early and often), `MaxBootAttempts` (2 here: one start within the budget,
one that exhausts it). `boots` stops at `MaxBootAttempts`, the only value it is
compared with. `Broken` and `Dead` fix which releases are bad and in which way; a
good release may fail any gate as well. `MayDie`, `MayFailIO`,
`RequestsDuringTrial`, `MayCutRescue` and `MayOutrun` turn a kind of trouble
off where a run asks about another one. There is no symmetry: versions are
ordered, and one component has a role. Versions are few because the code compares
them only for order and equality. A chain of moves longer than the number of
releases repeats a state: what remains of the past is the trial, the log and the
directories, and each of these is exhausted in the runs.

Of the loop: `MaxPending` caps the requests waiting for a tick (a slot holds one
value, so a second request of a kind overwrites the first; the races are between
a waiting request and the tick, and between the two halves of a call).
`CoastTicks` is the coasting of a failing bus. In `loop` a toggle stands for
enabling and disabling, and a robot found sitting has every phase of one found
standing and the rise besides.

Of the bridge: `MaxSessions`, `MaxRequests`, `MaxBatch`, `MaxDeaths`,
`MaxChanges`. Two sessions are what it takes for an old one to disturb a new one,
and three lines in a chunk are one more than the two attempts. `PinAttempts` is
2 (3 in the code): one wrong PIN that does not end the session, one that does.
`Room` stands for the session's queue (512) and for what a service's socket
holds, and is small so that both are full.

Of the chorale: `LockAt` 2 and `BackFrom` 2 (4 in the code), `BackTo` 8 (128),
`LastBeat` 1, `Settle` 2 units, `MaxRoster` 3. Three ducks are a conductor, one
who could have been, and one whom the other two differ about. The runs are with a
prompt radio. Without it (`Prompt = FALSE`), or with `Settle = 0`, TLC finds two
conductors in a few steps: both are needed.

Each property is also checked against a mutant of a definition that breaks it
(`PROJECT.json`, "mutants"): the trial written after the link moves, a prune
that forgets golden, a boot budget that is off by one, an entry that names the
release reverted to, a bring-up that takes a failed torque write for done, a mode published before
its networks are in, a task that empties the slot unasked, a wrong PIN that does
not stop its chunk, a duck that conducts without having listened.

## 4. Fairness

**Engine.** `FairSpec` asks for weak fairness of `MoveStep` and of
`StartupStep`. Every external wait of a request is bounded by a timeout
(download, hook, systemctl, self-test, gate), and a timeout is an answer in the
model; systemd starts updaterd at boot and after a failure. Nothing is assumed of
clients, of deaths, or of how a gate answers. `BootRecovery` adds weak fairness
of the rescue's steps, which run to their end unless power is lost, and strong
fairness of the boot check: its timer fires in every boot that lasts.
`UpdateScheduler` adds weak fairness of the pass and strong fairness of `Wake`,
since a pass that finds the mutex taken is tried again an interval later. The
liveness properties state what else they need as antecedents, never as fairness:
`ServesAgain` that the board is eventually left alone, `BadReleaseIsLeft` that it
is restarted again and again and gets to serve, `UnattendedSettles` that a source
asked again and again answers.

**Control loop.** Weak fairness of `Tick`: the thread is scheduled. Strong
fairness of a fresh read with a converged filter and of a bring-up that succeeds:
a bus that is tried fifty times a second is not dead at every try. Strong
fairness of the end of a ramp, a fall and a sit: each is a deadline, which has
passed at some tick. Nothing is assumed of clients; a robot that falls again and
again, or is disabled, is allowed to.

**Bridge.** Weak fairness of every branch of a session (its `select!` picks a
ready one at random, so none starves another), of the end of its task, of the
central reading, of a service answering what is not an operation, and of
configd's handlers; strong fairness of `WriteConfig`, because the lock is taken
by others in between. None for an operation, which may hold its connection for
ever, for the service coming back, or for the centrals' writing.

**Chorale.** Weak fairness of hearing what is on the air, of a due tick, of a
follower's count running out, of a unit passing and of a unit in which some
conductor's beat turns.

## 5. The proofs

The theorems hold for every value of the constants that meets the assumptions
of the modules. For the updater: versions are natural numbers (any
order-embedding of the releases that exist), `None` is not one of them,
`LogCapacity` and `MaxBootAttempts` are at least 1, the configuration has the
right types. The trouble switches may have any value, and nothing is assumed of
`Broken` or `Dead`, except where a theorem says so below. For the others: any
modes, skills and networks; any number of sessions, requests and attempts; any
number of ducks, pieces, beats and seats.

| theorem | says | under |
|---|---|---|
| `UpdateEngineProofs!TypeCorrect`, `LiveAlwaysInstalled` | `TypeOK`; `current` never dangles | |
| `UpdateEngineProofs!PinsAreHonoured`, `RollbackOnlyGoesBack` | what a request decided holds when its link moves | |
| `UpdateEngineProofs!VerdictsSpareLive`, `RequestsAreIsolated` | the log calls what is live bad in three places only; a request touches one component | |
| `TrialProofs!TrialsBracketLive`, `TrialsWithinBudget` | a trial describes what is live; none is past its budget once recovery is done | |
| `TrialProofs!EngineImplementsReleaseTrial` | the engine implements `ReleaseTrial` | |
| `ReleaseProofs!GoldenAlwaysSurvives` | what the rescue aims at is complete | `Guarded` |
| `ReleaseProofs!LiveStaysWhole`, `WayBackStaysIntact` | so is what is live, and what a trial goes back to | `ClientsWait` |
| `ReleaseProofs!BadReleaseStaysOnTrial` | a bad release is never live without a trial | `Recoverable` |
| `SchedulerProofs!SchedTypesHold`, `UnattendedNeverKnownBad`, `PinsBindTheScheduler` | types; the guard of the unattended apply; pins bind it too | |
| `SchedulerProofs!SchedulerIsAClient` | with the scheduler, the engine still behaves as `UpdateEngine` specifies | clients may apply the latest release at any time |
| `RescueProofs!BoardTypesHold`, `RescueNeverLoops` | types; the boot check reboots a board once on its own | |
| `RescueProofs!RescueIsNotUndone` | what a rescue chose stands | writes do not fail |
| `ControlProofs!LoopTypeCorrect`, `LoadedAsPublished` | `TypeOK`; the networks in charge are those of the published mode | |
| `ControlProofs!TorqueIsWanted`, `UpIsPowered`, `RestartIsSafe` | `TorqueOnlyWhenWanted`, `PoweredWhenUp` with its two exceptions, `RestartSparesTravel` | |
| `BridgeProofs!RationsGuesses`, `AdmitsByStoredPin`, `NewestKeepsSlot` | the PIN gate and the slot | |
| `BridgeProofs!BridgeTypeCorrect`, `AnswersGoOnce` | `TypeOK`; an answer goes once, to who asked | |
| `BridgeProofs!BridgeImplementsLedger` | the bridge implements `RequestLedger` | |
| `ChoraleProofs!ChoraleTypeCorrect`, `EachItsOwnLine` | types; nobody sings another's line | |
| `ChoraleProofs!ConductsAlone` | no two ducks ever conduct at once | `FairFlock` |

**`TypeInv`, `LiveInv`** (`UpdateEngineProofs`; together `IInv`). The types are
inductive with two facts about the running request, `RequestNamed` and
`NothingAsked`. `LiveInstalled` is not inductive. Two steps delete directories, `ClearRelease` and `PruneOne`;
they keep it because what they delete is not live, and that is known only from
an earlier step: apply answers AlreadyCurrent for the live release, and prune
leaves it out of its list. `StagingAside` and `PruningAside` carry both facts
through the steps in between. The proof has one step per action.

**`RequestInv`, `RevertDone`** (`UpdateEngineProofs`). Pin and target are read
when the request begins and used many steps later. The lock keeps pins, log and
link as they were; the directory of a rollback target cannot go, since only apply
deletes. `RevertDone` says that a request which disarms or records a failure is
back where it came from, and `OnlyGoldenStays` that only a reset to golden, or
startup, can go back to the very release that failed: apply and select refuse
what is live, rollback goes to an older one, and the lock keeps that true from
the request to the verdict. With both, an entry of any other request that makes a
version known bad is about one that is not live; and outside a request only
settling a breadcrumb writes such an entry (`IdleVerdicts`).
`RequestsAreIsolated` needs only the types: while there is a
request nothing but its own steps and a death can happen (`LockHeld`), and each of
those has its frame.

**`TrialInv`** (`TrialProofs`). A request arms its trial, moves the link and
confirms in separate steps, and in between the bracket holds because of what
the request remembers: `FromIsLive` before the arming, `TrialOfMove` until the
gate has answered, `WayBackOnRecord` while reverting. `TrialWithinBudget`
speaks of the end of recovery only; `BudgetKept` says for every moment of it
that an exhausted trial is still in `todo` or in hand.

**Refinement** (`TrialProofs`). Under `live <- current` and `trial` the
trial on record without its count of starts, initial states map to initial
states. Arming is `Try`: `FromIsLive` makes it name the live release as the way
back. Every move of the link and every confirmation is `Settle`: `TrialOfMove`
and `WayBackOnRecord` show a trial is on record and the target within its
bracket. Everything else is a stutter.

**`GoldenInv`, `WholeInv`, `BadInv`** (`ReleaseProofs`). These properties are
about what is on disk, and a client can defeat each of them (section 7), so each
theorem names the boards it is about; `update_crash` checks one of them.

- `Guarded`: golden is the factory release, if there is one, and apply takes what
  a channel names, which the downgrade guard compares with what is live. Then
  `GoldenInv` holds: golden is the oldest release there is, whatever is staged is
  newer, and prune has it in no list. Without it, reinstalling golden removes it
  first.
- `ClientsWait`: besides, clients apply or reset to golden and wait until a trial
  is settled. `WholeInv` then says that the live release and the way back are
  complete, and that staging and pruning keep away from both. With rollback and
  select, a directory cut short by a killed prune may be made live; with a second
  update over an armed trial, pruning may take the way back of the first.
- `Recoverable`: besides, what can be bad has a health check and a good golden
  release, and a breadcrumb found at the first start can be removed. `BadInv`
  adds to the property what each phase knows: a way back is never bad
  (`PreviousGood`), while a move is under way its target is on trial
  (`CandidateLive`, `GoldenAsked`), a candidate that passed its gate is good
  (`CandidateGood`), and recovery knows whose trial it clears (`WayBackNamed`,
  `CrumbSettled`). A daemon with no health check commits whatever it is given.

**`SchedInv`** (`SchedulerProofs`) adds to the engine's invariants that a pass
which has got to a component names it, and `JudgedGood`: a candidate that was
judged is still not known bad when it is applied. That one is true although
clients begin requests in between, because the log changes only while the mutex
is held, and the scheduler's `try_lock` fails then. `SchedulerIsAClient` maps an
unattended apply to a request a client could have made; the theorems about
`UpdateEngine` with no further hypothesis hold for a self-updating board by it.

**`BoardInv`, `GuardInv`, `StandInv`** (`RescueProofs`). `GuardInv` counts: a
boot check acts only on a board without a breadcrumb, and the first thing it
writes is one. `StandInv` says why a rescue stands: the component is on golden,
startup has no trial of it to settle, and until the superseded trial is cleared
the breadcrumb is there and startup has not passed it. It is proved for a board
whose writes do not fail, and does not hold without that: clearing the
trial is best-effort (`engine.rs`, `record_rescue`), so a failed write leaves the
trial while the breadcrumb is removed, and the next start reverts the rescue.

**`ModeInv`, `AskedInv`, `TravelInv`** (`ControlProofs`). `ModeInv` is
the type invariant together with `PublishedIsLoaded`. Torque comes on, at one
joint or at all of them, from three places, the flag, the tick's snapshot of it,
and a pending init: `AskedInv` says each of them was asked for. `UnpoweredComesUp`
goes through all steps for `UpIsPowered`: the only ones that begin a state of a
robot that is up with a joint unpowered are a mode switch of a limp robot and a
relax that fails midway.
What the updater is told was published at the end of a tick and holds until the
next one begins, which is `TravelInv`.

**`IInv`** (`BridgeProofs`). `GateInv` ties the wrong PINs judged to the attempts
left, says that a session which can still judge has one, and that a PIN configd
answered was in the file while btd waited. `InOrder` makes the newest session
the last to have subscribed, which is what `TaskOver` compares against.

**`WireInv`** (`BridgeProofs`) is what is left of `TypeOK`, the queues between a
central and the services, and two facts it needs: a session that waits for a PIN
has the line it is about (`LineAtHand`), and a writer of the config that serves a
session has that session's rename at the head of configd's queue
(`RenameAtHand`), which a death of configd takes away together.

**`OnceInv`** (`BridgeProofs`) is what `AnsweredOnce` takes. A request, or
its answer, can be in a chunk not yet taken, among the lines at hand, with a
service on a connection or on one given up, in the session's queue or on the
radio. `Apart` says that no two of these places have the same request,
`EachDistinct` that none has it twice, `Awaited` that the central still waits for
whatever is in one of them, and `Counted` that the next number is fresh. Every
step either writes fresh numbers, moves requests from one place to another or
loses some; `MovedApart`, `FewerApart` and `LeftAlone` settle these once, and the
lemma of an action says which it is. The one step that moves two things at a time
is `NotSent`: btd answers the line, and what the broken connection carried may
still be answered by the service. `Named` keeps progress, which carries no
number, out of it.

**`BridgeImplementsLedger`** is proved step by step under `OnceInv`. The ledger's
`open` is what is in a chunk, at hand, on a connection or on one given up; its
`answers` what is in the session's queue or on the radio; its `wanted` what the
central waits for; its `last` the number of requests written. `Whereabouts` says
that these follow from the places of `OnceInv`, and each action lemma proves,
beside `OnceInv'`, that its step is the ledger's `Ask`, `Answer`, `Hear` or
`Lose`, or leaves the books alone (`Onward`). A step that moves a request on
without answering it is a stutter or a loss (`MovesOnward`, `FewerOnward`). The
premise that makes an `Answer` sound is again `Apart`: only because a request is
in one place is the one answered no longer open.

**`ChoraleInv`** (`ChoraleProofs`). Under `FairFlock` (prompt radio, some
settling, and what a duck can sing every duck of a lower id can) one conductor
follows from what listeners know: `Noticed`, what was heard and has not changed
is on the air; `Met`, two that have listened for a whole unit have heard each
other; `Beaten`, whoever conducts beside one that has listened for a unit began
in this unit and is of lower id. Two that would begin in the same unit have met,
and the higher of them hears the lower. Most steps are `Quiet`, which a lemma
settles once.

**`ScoreInv`** (`ChoraleProofs`) proves `OwnLine` for any radio, also one that is
late. The line of a duck is its seat in the roster it carries. `Copied` says that
a follower has its conductor's piece and roster as soon as it has heard what is on
the air; `Led` and `Announced`, that it knows whom it follows once it has heard a
beat and that a conductor has a piece. Two ducks with equal rosters then sit in
different seats, and the seats of a roster of up to four have different lines (`LinesDiffer`).

**Model-checked only.** The liveness properties (`RequestEnds`, `ServesAgain`,
`BadReleaseIsLeft`, `DeadReleaseIsLeft`, `UnattendedSettles`, `ShutdownEnds`,
`SwitchCompletes`, `EnabledIsDriven`, `QueryAnswered`, `EnsembleSings`): liveness
and what rests on fairness are out of the prover's reach. Every
invariant and every other action property of the passing runs, and each of the
two refinements, is the statement of a theorem.

## 6. What the models abstract

Updater

- Preflight, fetching, signatures, hashes, space, extraction, hooks and health
  are one answer each, which may be a refusal. What a refusal leaves behind is
  modelled, why it came is not.
- Extraction happens in a staging directory that neither `list()` nor
  `is_dir()` sees, so a half-extracted release is "absent".
- A tree cut short by `remove_dir_all` matters when the process dies in it; the
  next step of the same request sees the removal finished or its error.
- A pin in the configuration file and a runtime pin are one pin.
- `recover_on_start` goes through trials in name order; the model in any order.
- The mutex of the server and `update.lock` are one lock; one process has the
  engine. Busy answers change nothing and are left out.
- The scheduler awaits nothing between its three `try_lock`s, so the engine
  takes no step of its own there, but a client may get in.
- The source answers an apply just before the mutex is taken, where the code
  asks just after; nothing reads the difference.
- The rescue's file operations are not interleaved with steps of updaterd;
  rescues run one at a time. Its `ln` and `mv` are one step, so the shared
  temporary link is not a race in the model.
- A board starts with its factory release or nothing, and, in `engine_live`,
  optionally a breadcrumb of a rescue that has just rebooted it.
- `update_crash`, `engine_live` and `rescue` let clients wait until a trial is
  settled; `engine_all` and the scheduler runs do not.

Control loop

- Deadlines are not measured. Whether a ramp, a sit, a window or a phase of a
  fall is over is the choice of the step that looks, except in the tick that set
  the deadline, where it never is.
- Twist, head, pose and mouth are levels a reader may miss; whether the robot
  moves because of them is a choice. The left and right kick are one skill.
- The orientation filter is cold or converged, and only gets warmer while
  samples come.
- The joints are powered, unpowered or some of each; which of them, and how many,
  is left out, as is what the policy makes of joints that do not follow. A torque
  write that fails may also have reached every joint, its last answer lost.
- `LetGo`, the history behind `TorqueOnlyWhenWanted`, leaves out the relax that
  comes between the snapshot of a tick and its taking of the power request
  (section 7).
- A stopped process is reset at its stop, so that two processes that differ in
  memory nobody has any more are one state.

Bridge

- Framing: a chunk is whole lines, a notification leaves whole. A line cut in two
  by a write timeout is not modelled. The limit on what a central may pile up is
  not reached.
- Only updaterd falls behind its socket; configd's requests are short.
- The connections of one key that a session has given up are served as one.
- robotctl changes PINs and nothing else, and the newest central is the one that
  writes.
- Reading the PIN is one step of configd; power cuts between rename and fsync are
  not modelled, nor is a torn file.
- The lane of slow queries is left out: it holds no connection of the others.

Chorale

- Whether a follower has locked is a count of beats, and the fit of the phase is
  left out; so a follower's end may come early, at any time after it has heard
  its leader silent.
- The roster of a follower is that of the first beat it hears.
- The idle heartbeat, the score, the beak and the head are left out; which of
  the known pieces is picked is a choice.

## 7. Where the code and its documentation disagree

Two are runs whose counterexample TLC finds (`PROJECT.json`, "findings"):

- **`f_unattended_loop`** The entry of a revert at boot names the release
  reverted to (`updater/src/engine.rs:1824`), so the scheduler does not know that
  the other one failed and applies it again, although "otherwise a bad one loops
  forever".
- **`f_lost_pin`** `set_name` and `set_pairing_pin` read the config before
  `write()` takes the lock (`configd/src/store.rs:103`), so a rename undoes a PIN
  change that was confirmed, although "`flock` serialises writers".

Others were met while modelling. The models contain the behaviour unless said
otherwise; no property is stated that it violates.

Updater

- After select, rollback or reset-to-golden, a unit that will not restart ends
  the move with the new release live, disarmed and ungated (`engine.rs:1445`),
  although "any failure at or after the swap rolls back".
- An update on top of an armed trial replaces the trial (`engine.rs:1018`). When
  it fails, the first release is live again, bad, and on no trial.
- Pruning counts a release that failed as the one to keep (`store.rs:220`) and
  deletes the release the board came from, so that rollback has no target.
- A swap that fails in apply returns with the trial armed, while the other
  moves disarm.
- A breadcrumb whose swap never happened (power lost after it was written)
  makes startup forget the trial of the release that is still live.
- The entry of a rescue names golden, the version the board moved to, as
  RolledBack (`engine.rs:1948`), so golden counts as known bad.
- `reset_to_golden` does not ask whether golden is live already, where apply and
  select do (`engine.rs:1291–1305`). When it is, and the gate fails, the trial is
  of golden against golden, the revert goes to where it came from, and the entry
  calls the live golden release bad. `VerdictSparesLive` excepts it.
- A breadcrumb that cannot be removed is settled again at the next start and
  clears a later trial. (`RemoveCrumb` has the failing case; the rescue run is
  checked without failing writes.)
- A breadcrumb is truncated and written in place (`scripts/robot-rescue:168`). A
  torn one, of a failed write or a power cut, together with an updaterd that does not start, or a request
  that outruns the reboot, leaves a crumb that blocks the next rescue
  (`BlockedRescue`).
- Reinstalling golden removes it before the new copy is in place; a board that
  dies there has no golden until the next install.
- A release directory that a killed prune has cut short is accepted as a target
  of rollback, golden and select.
- The log is bounded and shared, so enough aborted runs evict the entry that
  says a release is bad.
- The unattended apply asks the source for the latest again; what it applies
  need not be what was judged. `UnattendedSparesKnownBad` is about the case
  where it is.

Control loop (`robotd/src/main.rs` unless named)

- The tick that completes the sit and powers off set the robot limp, but its
  snapshot still says enabled: later in the same tick it switches the torque on
  again (1611–1623 and 1795–1829; "sit complete: cutting torque and powering
  off").
- A relax whose two stores both land between a tick's snapshot and its taking of
  the power request is undone in the same tick (1385–1387).
- A mode switch lifts a limp robot without torque (1536–1537; "Torque stays on
  throughout"). `PoweredWhenUp` excuses it.
- A relax whose torque write fails midway has cut the joints before the one that
  failed, and leaves the robot homing or ready, enabled or not as its clients
  ask ("cannot cut torque; the robot is still powered", 1430–1441, against
  "at the home pose with torque on", 971). Nothing restores the joints: init
  ramps it home again without a torque write (1420–1425), an enable finds it up
  and drives it, and only another relax that succeeds, or a new process, makes
  it limp. `PoweredWhenUp` excuses it, and `EnabledIsDriven` counts it as driven.
- An init, or an enable, whose torque write fails midway powers the joints before
  the one that failed and leaves the robot limp (1393–1413, 1801–1828); the next
  tick of an enabled robot tries again, an init is not tried again.
- Disable, init, relax or a mode switch during the sit before power off stand
  the robot up again; it is still powered off.
- A skill asked for in a fall or with a cold filter is replayed when it is over.
- A mode switch that finds no sample stays in flight.
- `moving` follows the smoothed twist with `> 0.0` (1976): it may stay true long
  after the sticks are back.
- `safe_to_restart` says yes in a fall once the verdict is in (624–627), before
  the robot is down.
- Two toggles at a time may count as one (`intents.rs`); the windows of a skill
  survive a disable; the piece to sing is read before its flag is
  (`intents.rs:413–425`, not modelled).

Bridge

- An answer that finds the session's queue full is dropped like a progress line
  (`upstream.rs:213–217`), and the central waits for ever. `QueryAnswered`
  excuses it.
- The death of a service loses the requests it had without an answer, and the
  first request after it has come back gets an error.
- A config that cannot be read is taken for an empty one, and the next rename
  writes defaults over it (`store.rs:103`, not modelled).

Chorale (`robotd/src/chorale.rs`)

- A follower that has not locked when its leader falls silent has no way out. If
  it is the lowest, nobody conducts any more ("no election to go wrong", 10–12).
  `EnsembleSings` excuses it.
- A duck of the lowest id that does not know the piece being sung conducts its
  own over it, where 58–60 say it "stays politely quiet". `FairFlock` excludes
  it.
- A restart that steps back fewer than four beats, or 128 and more, is taken for
  the same performance (320–330).
- A newcomer with a low voice shifts the part of one that sings already
  (`seat_all` says so; the cheatsheet says "Joining changes nobody's part").

## 8. What is not modelled, and the plan

Not modelled by intent: parsing, cryptography, network and D-Bus calls,
rendering, audio, kinematics, neural inference, provisioning and build tools.
They have no protocol, or one that is an answer of the environment here. These
are also most of the source: message types and their serialisation
(duck-ipc-proto), terminal clients (robotctl, duckctl), synthesis, numerics and
tooling. The modules map the code that keeps state between steps, and that is a
small share of all lines.

The plan, in order:

1. **Link moves at system-call level** `LinkMove`: the shared temporary link of
   updaterd and robot-rescue; and a second startup actor, `--check-only`
   (`updater/src/main.rs:601`).
2. **padd**: the tap and its bounded queues as clients of the control loop, and
   stick values held while the radio stalls.
3. **Framing** of lines into chunks in btd, with a write cut in two.
4. **configd's pads**: pairing and forgetting, next to padd.

Of the proofs, one refinement is left: an abstract power switch under the control
loop.
