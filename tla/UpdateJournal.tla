---------------------------- MODULE UpdateJournal ----------------------------
(***************************************************************************)
(* The updater's own persistent state (updater/src/journal.rs), kept       *)
(* outside every release tree so that a swap cannot destroy it: the        *)
(* bounded update log, the boot-counter trials keyed by component, the     *)
(* runtime pins, and the breadcrumb robot-rescue leaves.                   *)
(*                                                                         *)
(* Every file but the log is written whole and renamed into place; the log *)
(* is appended and fsynced, then trimmed by a rewrite.                     *)
(***************************************************************************)
EXTENDS ReleaseStore, Sequences

CONSTANTS
    LogCapacity,     \* entries the log keeps
    MaxBootAttempts, \* starts a trial may use before the robot is asked
    LeftCrumbs       \* the breadcrumbs the first start may find

ASSUME JournalAssumption ==
    /\ LogCapacity \in Nat \ {0}
    /\ MaxBootAttempts \in Nat \ {0}

VARIABLES
    log,      \* update-log.jsonl, oldest first
    pending,  \* pending.json: pending[c] is c's trial, or NoTrial
    pins,     \* pins.json: pins[c] is the version c is pinned to, or None
    crumb     \* the `rescued` breadcrumb, or NoCrumb

journalVars == <<log, pending, pins, crumb>>

\* An entry is about version `to`; a run that failed before its candidate went
\* live carries None.
Outcomes == {"Success", "RolledBack", "Aborted"}
Entries == [comp: Components, to: VersionOrNone, outcome: Outcomes]

Entry(c, v, o) == [comp |-> c, to |-> v, outcome |-> o]

NoTrial == [version |-> None, previous |-> None, boots |-> 0]
Trials == [version: VersionOrNone, previous: VersionOrNone,
           boots: 0..MaxBootAttempts]

\* The breadcrumb names the tree it swapped (its component) and the version it
\* moved to; one cut short by a power loss lacks `to`, or both.
NoCrumb == [there |-> FALSE, comp |-> None, to |-> None]
Crumb(c, v) == [there |-> TRUE, comp |-> c, to |-> v]
Crumbs == [there: BOOLEAN, comp: Components \union {None}, to: VersionOrNone]

ASSUME LeftCrumbsAssumption == LeftCrumbs \subseteq Crumbs

JournalTypeOK ==
    /\ log \in Seq(Entries)
    /\ pending \in [Components -> Trials]
    /\ pins \in [Components -> VersionOrNone]
    /\ crumb \in Crumbs

\* The board may be one that a rescue has just rebooted onto golden.
JournalInit ==
    /\ log = <<>>
    /\ pending = [c \in Components |-> NoTrial]
    /\ pins = [c \in Components |-> None]
    /\ crumb \in LeftCrumbs

-----------------------------------------------------------------------------

\* append() followed by trim(): the newest LogCapacity entries survive.
Appended(e) == IF Len(log) < LogCapacity
                 THEN Append(log, e)
                 ELSE Append(Tail(log), e)

\* known_bad(): the versions whose most recent entry is a rollback.  An entry
\* that names no version is passed over.
KnownBad(c) ==
    {v \in Versions :
        \E i \in 1..Len(log) :
            /\ log[i] = Entry(c, v, "RolledBack")
            /\ \A j \in (i + 1)..Len(log) : ~ (log[j].comp = c /\ log[j].to = v)}

OnTrial(c) == pending[c] # NoTrial

\* Mutant: a trial that does not say where it came from.
ArmedWithoutPrevious(c, v, prev) ==
    [pending EXCEPT ![c] = [version |-> v, previous |-> None, boots |-> 0]]

\* arm(): replaces whatever trial the component had.
Armed(c, v, prev) ==
    [pending EXCEPT ![c] = [version |-> v, previous |-> prev, boots |-> 0]]

\* Mutant: one verdict for all components.
ConfirmedAll(c) == [x \in Components |-> NoTrial]

\* confirm(): forgets the component's trial.
Confirmed(c) == [pending EXCEPT ![c] = NoTrial]

\* Mutant: a counter that goes on past the budget.
BootsUncapped ==
    [c \in Components |->
        IF pending[c] = NoTrial THEN NoTrial ELSE [pending[c] EXCEPT !.boots = @ + 1]]

\* record_boot(): every outstanding trial advances.  The code's counter
\* saturates at u32; here it stops at MaxBootAttempts, the only value
\* exhausted() compares it with.
BootsRecorded ==
    [c \in Components |->
        IF pending[c] = NoTrial \/ pending[c].boots = MaxBootAttempts
          THEN pending[c]
          ELSE [pending[c] EXCEPT !.boots = @ + 1]]

\* Mutant: an off-by-one that waits for one start too many.
ExhaustedLate(trial) == trial # NoTrial /\ trial.boots > MaxBootAttempts

Exhausted(trial) == trial # NoTrial /\ trial.boots >= MaxBootAttempts

=============================================================================
